---------------------------- MODULE PageIOProofs ----------------------------
(***************************************************************************)
(* Proofs about PageIO, for any number of processes, relations, keys, IO   *)
(* handles and blocks, and about WalCrypt, for any sizes and any keys.     *)
(*                                                                         *)
(* The argument: what an SMgrRelation knows of a relation that exists is   *)
(* what is stored for it, so every block is written with the stored key.   *)
(* That survives the reuse of a number because a closed SMgrRelation knows *)
(* nothing, and a number is reused only when all are closed.  The slot of  *)
(* a read in progress holds the stored key until the read is completed,    *)
(* since the relation is not dropped before.                               *)
(*                                                                         *)
(* A byte of a buffer of WAL has been combined with the keystreams of the  *)
(* ranges gone through that it lies in, and with that of the current one   *)
(* if it is before data_index.  A batch goes on where the last has ended.  *)
(***************************************************************************)
EXTENDS PageIO, WalCrypt, TLAPS

-----------------------------------------------------------------------------
(* The inductive invariant.                                                *)

Kinds == {"perm", "unlogged", "temp"}

RelRecs == [kind : Kinds, owner : Proc, stage : {"open", "live", "unlinking"}]

Handles ==
    [open : BOOLEAN, status : {"UNKNOWN", "NOT_ENCRYPTED"}, key : {None}]
    \cup [open : BOOLEAN, status : {"ENCRYPTED"}, key : Key]

Pages == [key : Keys \cup {"zero", "garbled"}, tweak : {<<>>} \cup (Fork \X Nat)]

Reads == [rel : Rel, fork : Fork, first : Nat, n : Nat, decrypt : BOOLEAN]

\* Files and reads have their types, too.
Typed ==
    /\ TypeOK
    /\ file \in [Rel -> [Fork -> Seq(Pages)]]
    /\ io \in [IO -> Reads \cup {None}]

\* A number without a relation has no files.
NoLeftovers == \A r \in Rel : ~Exists(r) => file[r] = NoFile

\* A closed SMgrRelation knows nothing.
ClosedUnknown == \A p \in Proc, r \in Rel : handle[p][r].open = TRUE \/ handle[p][r] = Unknown

\* A read in progress is of blocks of a relation that exists, and knows its key.
ReadsCurrent ==
    \A h \in IO : io[h] # None =>
        /\ Exists(io[h].rel)
        /\ io[h].first + io[h].n <= Len(file[io[h].rel][io[h].fork])
        /\ io[h].decrypt = TRUE => slot[h] = StoredKey(io[h].rel) /\ slot[h] # None
        /\ io[h].decrypt = FALSE => StoredKey(io[h].rel) = None

NoneBad == ShortReads = FALSE => ReadsRight

IInv ==
    /\ Typed /\ NoLeftovers /\ ClosedUnknown
    /\ StoredKeyOpens /\ HandlesCurrent /\ TempKeysOwned
    /\ ReadsCurrent /\ NoneBad

-----------------------------------------------------------------------------
(* What the parts do.                                                      *)

LEMMA Facts ==
    ASSUME Typed
    PROVE  /\ \A r \in Rel : rel[r] = Gone \/ rel[r] \in RelRecs
           /\ rel \in [Rel -> {Gone} \cup RelRecs]
           /\ \A r \in Rel : \A f \in Fork : file[r][f] \in Seq(Pages)
           /\ \A r \in Rel : file[r] \in [Fork -> Seq(Pages)]
           /\ keyfile \in [Rel -> Keys] /\ temp \in [Proc -> [Rel -> Keys]]
           /\ handle \in [Proc -> [Rel -> Handles]]
           /\ \A p \in Proc, r \in Rel : handle[p][r] \in Handles
           /\ \A p \in Proc : ctx[p] \in [key : Keys, enc : BOOLEAN]
           /\ \A h \in IO : io[h] = None \/ io[h] \in Reads
BY DEF Typed, TypeOK, RelRecs, Kinds, Handles

LEMMA KnownFacts ==
    ASSUME NEW k \in Keys
    PROVE  /\ Known(k) \in Handles /\ Known(k).key = k /\ Known(k).open = TRUE
           /\ Known(k).status # "UNKNOWN"
BY PageIOAssumption DEF Known, Handles, Keys

LEMMA UnknownFacts ==
    Unknown \in Handles /\ Unknown.status = "UNKNOWN" /\ Unknown.key = None
BY DEF Unknown, Handles

LEMMA StoredFacts ==
    ASSUME Typed, NEW r \in Rel, rel[r] # Gone
    PROVE  StoredKey(r) \in Keys /\ rel[r] \in RelRecs
BY Facts DEF StoredKey, RelRecs

\* An SMgrRelation that is used knows the key that is stored.
LEMMA Resolving ==
    ASSUME IInv, NEW p \in Proc, NEW r \in Rel, NEW f, Accessible(p, r, f)
    PROVE  /\ Resolved(p, r) = Known(StoredKey(r)) /\ StoredKey(r) \in Keys
           /\ rel[r] \in RelRecs /\ Exists(r)
           /\ rel[r].kind = "temp" => p = rel[r].owner
<1>1. /\ Typed /\ Exists(r) /\ rel[r] # Gone
      /\ rel[r].kind = "temp" => p = rel[r].owner
  BY DEF IInv, Accessible, Exists
<1>2. StoredKey(r) \in Keys /\ rel[r] \in RelRecs
  BY <1>1, StoredFacts
<1>3. ASSUME handle[p][r].status = "UNKNOWN" PROVE Resolved(p, r) = Known(StoredKey(r))
  BY <1>1, <1>3 DEF Resolved, GetKey, StoredKey
<1>4. ASSUME handle[p][r].status # "UNKNOWN" PROVE Resolved(p, r) = Known(StoredKey(r))
  <2>1. handle[p][r].key = StoredKey(r)
    BY <1>1, <1>4 DEF IInv, HandlesCurrent
  <2>2. handle[p][r] \in Handles
    BY <1>1, Facts
  <2>3. Resolved(p, r) = [handle[p][r] EXCEPT !.open = TRUE]
    BY <1>4 DEF Resolved
  <2>4. CASE StoredKey(r) = None
    <3>1. handle[p][r] \in [open : BOOLEAN, status : {"UNKNOWN", "NOT_ENCRYPTED"}, key : {None}]
      BY <2>1, <2>2, <2>4, PageIOAssumption DEF Handles
    <3> QED BY <1>4, <2>3, <2>4, <3>1 DEF Known
  <2>5. CASE StoredKey(r) # None
    <3>1. handle[p][r] \in [open : BOOLEAN, status : {"ENCRYPTED"}, key : Key]
      BY <2>1, <2>2, <2>5 DEF Handles
    <3> QED BY <2>1, <2>3, <2>5, <3>1 DEF Known
  <2> QED BY <2>4, <2>5
<1> QED BY <1>1, <1>2, <1>3, <1>4

\* The context of a cipher is right after it was prepared.
LEMMA Preparing ==
    ASSUME NEW c \in [key : Keys, enc : BOOLEAN], NEW k \in Keys, NEW e \in BOOLEAN
    PROVE  Prepare(c, k, e) = [key |-> k, enc |-> e]
BY DEF Prepare

LEMMA Using ==
    ASSUME Typed, NEW p \in Proc, NEW k \in Keys, NEW e \in BOOLEAN
    PROVE  /\ Used(p, k, e) \in [key : Keys, enc : BOOLEAN]
           /\ k # None => Used(p, k, e) = [key |-> k, enc |-> e]
BY Facts, Preparing DEF Used

\* The page that holds block b of fork f under key k.
Written(k, f, b) == IF k = None THEN Page(None, <<>>) ELSE Page(k, Tweak(f, b))

LEMMA Encrypting ==
    ASSUME Typed, NEW p \in Proc, NEW k \in Keys, NEW f \in Fork, NEW b \in Nat
    PROVE  Encrypt(p, k, f, b) = Written(k, f, b) /\ Written(k, f, b) \in Pages
<1>1. Written(k, f, b) \in Pages
  BY DEF Written, Page, Tweak, Pages, Keys, Fork
<1>2. CASE k = None
  BY <1>1, <1>2 DEF Encrypt, Written
<1>3. CASE k # None
  <2>1. PICK c : c = Used(p, k, TRUE)
    OBVIOUS
  <2>2. c = [key |-> k, enc |-> TRUE]
    BY <1>3, <2>1, Using
  <2>3. c.enc = TRUE /\ c.key = k
    BY <2>2
  <2>4. Encrypt(p, k, f, b) = IF c.enc THEN Page(c.key, Tweak(f, b)) ELSE Garbled
    BY <1>3, <2>1 DEF Encrypt
  <2>5. Encrypt(p, k, f, b) = Page(c.key, Tweak(f, b))
    BY <2>3, <2>4, Zenon
  <2> QED BY <1>1, <1>3, <2>3, <2>5 DEF Written
<1> QED BY <1>2, <1>3

LEMMA Opening ==
    ASSUME Typed, NEW p \in Proc, NEW k \in Keys, NEW f \in Fork, NEW b \in Nat, NEW page,
           page = Zero \/ page = Written(k, f, b)
    PROVE  Opens(p, k, page, f, b)
<1>1. CASE page = Zero
  BY <1>1 DEF Opens
<1>2. CASE page # Zero /\ k = None
  BY <1>2 DEF Opens, Written
<1>3. CASE page # Zero /\ k # None
  <2>1. PICK c : c = Used(p, k, FALSE)
    OBVIOUS
  <2>2. c = [key |-> k, enc |-> FALSE]
    BY <1>3, <2>1, Using
  <2>3. c.enc = FALSE /\ c.key = k
    BY <2>2
  <2>4. ~c.enc
    BY <2>3, Zenon
  <2>5. page = Page(c.key, Tweak(f, b))
    BY <1>3, <2>3 DEF Written
  <2> QED BY <1>3, <2>1, <2>4, <2>5, Zenon DEF Opens
<1> QED BY <1>1, <1>2, <1>3

LEMMA Stored ==
    ASSUME IInv, NEW r \in Rel, Exists(r), NEW f \in Fork, NEW i \in DOMAIN file[r][f]
    PROVE  file[r][f][i] = Zero \/ file[r][f][i] = Written(StoredKey(r), f, i - 1)
BY DEF IInv, StoredKeyOpens, Written

\* Blocks that are there are read right with the stored key.
LEMMA ReadsWell ==
    ASSUME IInv, NEW p \in Proc, NEW r \in Rel, Exists(r), NEW f \in Fork, NEW k,
           NEW b \in Nat, NEW n \in Nat, n = 0 \/ (k = StoredKey(r) /\ b + n <= Len(file[r][f]))
    PROVE  Misread(p, k, r, f, b, n) = {}
<1>1. Typed /\ rel[r] # Gone
  BY DEF IInv, Exists
<1>2. ASSUME NEW j \in b .. b + n - 1 PROVE Opens(p, k, file[r][f][j + 1], f, j)
  <2>1. file[r][f] \in Seq(Pages)
    BY <1>1, Facts
  <2>2. n # 0
    BY <1>2
  <2>3. j \in Nat /\ j + 1 \in 1 .. Len(file[r][f]) /\ j + 1 - 1 = j
    BY <1>2, <2>1, <2>2
  <2>4. j + 1 \in DOMAIN file[r][f]
    BY <2>1, <2>3
  <2>5. file[r][f][j + 1] = Zero \/ file[r][f][j + 1] = Written(StoredKey(r), f, j)
    BY <2>3, <2>4, Stored
  <2>6. StoredKey(r) \in Keys /\ k = StoredKey(r)
    BY <1>1, <2>2, StoredFacts
  <2> QED BY <1>1, <2>3, <2>5, <2>6, Opening
<1> QED BY <1>2 DEF Misread

-----------------------------------------------------------------------------
(* Steps.                                                                  *)

\* What SMgrRelations know, apart from their types.
Current ==
    \A p \in Proc, r \in Rel : Exists(r) /\ handle[p][r].status # "UNKNOWN" =>
        /\ rel[r].kind = "temp" => p = rel[r].owner
        /\ handle[p][r].key = StoredKey(r)

LEMMA Parts ==
    ASSUME IInv
    PROVE  /\ Typed /\ NoLeftovers /\ ClosedUnknown /\ StoredKeyOpens /\ Current
           /\ TempKeysOwned /\ ReadsCurrent /\ NoneBad
BY DEF IInv, HandlesCurrent, Current

LEMMA Whole ==
    ASSUME Typed', NoLeftovers', ClosedUnknown', StoredKeyOpens', Current', TempKeysOwned',
           ReadsCurrent', NoneBad'
    PROVE  IInv'
BY DEF IInv, HandlesCurrent, Current, Typed

\* An SMgrRelation that is used.
LEMMA UseHandle ==
    ASSUME IInv, NEW p \in Proc, NEW r \in Rel, NEW f, Accessible(p, r, f),
           UNCHANGED <<rel, keyfile, temp>>, handle' = [handle EXCEPT ![p][r] = Resolved(p, r)]
    PROVE  /\ handle' \in [Proc -> [Rel -> Handles]] /\ ClosedUnknown' /\ Current'
<1>1. /\ Resolved(p, r) = Known(StoredKey(r)) /\ StoredKey(r) \in Keys
      /\ rel[r].kind = "temp" => p = rel[r].owner
  BY Resolving
<1>2. PICK k \in Keys : k = StoredKey(r)
  BY <1>1
<1>3. handle \in [Proc -> [Rel -> Handles]] /\ ClosedUnknown /\ Current
  BY Parts, Facts
<1>4. /\ Known(k) \in Handles /\ Known(k).key = k /\ Known(k).open = TRUE
  BY KnownFacts
<1> DEFINE hd == Known(k)
<1>5. handle' = [handle EXCEPT ![p][r] = hd]
  BY <1>1, <1>2
<1> HIDE DEF hd
<1>6. hd \in Handles /\ hd.key = k /\ hd.open = TRUE
  BY <1>4 DEF hd
<1>7. /\ handle' \in [Proc -> [Rel -> Handles]] /\ handle'[p][r] = hd
      /\ \A q \in Proc, z \in Rel : q # p \/ z # r => handle'[q][z] = handle[q][z]
  BY <1>3, <1>5, <1>6
<1>8. ClosedUnknown'
  BY <1>3, <1>6, <1>7, ZenonT(40) DEF ClosedUnknown, Unknown
<1>9. Current'
  <2> SUFFICES ASSUME NEW q \in Proc, NEW z \in Rel, Exists(z), handle'[q][z].status # "UNKNOWN"
               PROVE  /\ rel[z].kind = "temp" => q = rel[z].owner
                      /\ handle'[q][z].key = StoredKey(z)
    BY DEF Current, Exists, StoredKey
  <2>1. CASE q = p /\ z = r
    BY <1>1, <1>2, <1>6, <1>7, <2>1
  <2>2. CASE ~(q = p /\ z = r)
    BY <1>3, <1>7, <2>2 DEF Current
  <2> QED BY <2>1, <2>2
<1> QED BY <1>7, <1>8, <1>9

\* A step that changes no relation, file or key.
LEMMA SameRelations ==
    ASSUME IInv, UNCHANGED <<rel, file, keyfile, temp, made>>,
           handle' \in [Proc -> [Rel -> Handles]], ctx' \in [Proc -> [key : Keys, enc : BOOLEAN]],
           slot' \in [IO -> Keys], io' \in [IO -> Reads \cup {None}],
           ClosedUnknown', Current', ReadsCurrent', NoneBad'
    PROVE  IInv'
<1>1. NoLeftovers' /\ StoredKeyOpens' /\ TempKeysOwned'
  BY DEF IInv, NoLeftovers, Exists, StoredKeyOpens, StoredKey, TempKeysOwned
<1>2. Typed'
  BY DEF IInv, Typed, TypeOK, Handles, Reads
<1> QED BY <1>1, <1>2, Whole

LEMMA ReleaseStep ==
    ASSUME IInv, NEW p \in Proc, NEW r \in Rel, Release(p, r)
    PROVE  IInv'
<1>1. handle' = [handle EXCEPT ![p][r] = Unknown]
      /\ UNCHANGED <<rel, file, keyfile, temp, ctx, slot, io, bad, made, server>>
  BY DEF Release, Close
<1>2. handle \in [Proc -> [Rel -> Handles]] /\ ClosedUnknown /\ Current
  BY Parts, Facts
<1>3. /\ handle' \in [Proc -> [Rel -> Handles]] /\ handle'[p][r] = Unknown
      /\ \A q \in Proc, z \in Rel : q # p \/ z # r => handle'[q][z] = handle[q][z]
  BY <1>1, <1>2, UnknownFacts
<1>4. ClosedUnknown'
  BY <1>2, <1>3, ZenonT(40) DEF ClosedUnknown, Unknown
<1>5. Current'
  BY <1>1, <1>2, <1>3, UnknownFacts DEF Current, Exists, StoredKey
<1>6. ReadsCurrent' /\ NoneBad'
  BY <1>1 DEF IInv, ReadsCurrent, NoneBad, ReadsRight, Exists, StoredKey
<1>7. /\ ctx' \in [Proc -> [key : Keys, enc : BOOLEAN]] /\ slot' \in [IO -> Keys]
      /\ io' \in [IO -> Reads \cup {None}]
  BY <1>1 DEF IInv, Typed, TypeOK
<1> QED BY <1>1, <1>3, <1>4, <1>5, <1>6, <1>7, SameRelations

LEMMA ReadStep ==
    ASSUME IInv, NEW p \in Proc, NEW r \in Rel, NEW f \in Fork, NEW b \in Nat, NEW n \in Nat,
           Readv(p, r, f, b, n)
    PROVE  IInv'
<1>1. /\ Accessible(p, r, f) /\ b + n <= Len(file[r][f])
      /\ bad' = bad \cup Misread(p, Resolved(p, r).key, r, f, b, n)
      /\ handle' = [handle EXCEPT ![p][r] = Resolved(p, r)]
      /\ ctx' = [ctx EXCEPT ![p] = Used(p, Resolved(p, r).key, FALSE)]
      /\ UNCHANGED <<rel, file, keyfile, temp, slot, io, made>>
  BY DEF Readv
<1>2. Resolved(p, r).key = StoredKey(r) /\ StoredKey(r) \in Keys /\ Exists(r)
  BY <1>1, Resolving, KnownFacts
<1>3. Misread(p, Resolved(p, r).key, r, f, b, n) = {}
  BY <1>1, <1>2, ReadsWell
<1>4. handle' \in [Proc -> [Rel -> Handles]] /\ ClosedUnknown' /\ Current'
  BY <1>1, UseHandle
<1>5. ReadsCurrent' /\ NoneBad'
  BY <1>1, <1>3 DEF IInv, ReadsCurrent, NoneBad, ReadsRight, Exists, StoredKey
<1>6. Used(p, StoredKey(r), FALSE) \in [key : Keys, enc : BOOLEAN]
  BY <1>2, Using DEF IInv
<1>7. /\ ctx' \in [Proc -> [key : Keys, enc : BOOLEAN]] /\ slot' \in [IO -> Keys]
      /\ io' \in [IO -> Reads \cup {None}]
  BY <1>1, <1>2, <1>6 DEF IInv, Typed, TypeOK
<1> QED BY <1>1, <1>4, <1>5, <1>7, SameRelations

LEMMA StartReadStep ==
    ASSUME IInv, NEW p \in Proc, NEW h \in IO, NEW r \in Rel, NEW f \in Fork, NEW b \in Nat,
           NEW n \in Nat, NEW opened \in BOOLEAN, StartReadv(p, h, r, f, b, n, opened)
    PROVE  IInv'
<1>1. /\ Accessible(p, r, f) /\ b + n <= Len(file[r][f]) /\ io[h] = None
      /\ handle' = [handle EXCEPT ![p][r] = Resolved(p, r)]
      /\ UNCHANGED <<rel, file, keyfile, temp, ctx, bad, made>>
  BY DEF StartReadv
<1>2. Resolved(p, r).key = StoredKey(r) /\ StoredKey(r) \in Keys /\ Exists(r)
  BY <1>1, Resolving, KnownFacts
<1>3. PICK k \in Keys : k = StoredKey(r)
  BY <1>2
<1> DEFINE d == [rel |-> r, fork |-> f, first |-> b, n |-> n, decrypt |-> k # None]
<1>4. /\ slot' = IF k = None THEN slot ELSE [slot EXCEPT ![h] = k]
      /\ io' = [io EXCEPT ![h] = d] \/ io' = io
  BY <1>2, <1>3 DEF StartReadv
<1>5. d \in Reads /\ d.rel = r /\ d.fork = f /\ d.first = b /\ d.n = n
      /\ (d.decrypt = TRUE <=> k # None) /\ (d.decrypt = FALSE <=> k = None)
  BY DEF Reads
<1> HIDE DEF d
<1>6. slot \in [IO -> Keys] /\ io \in [IO -> Reads \cup {None}] /\ ReadsCurrent /\ NoneBad
  BY DEF IInv, Typed, TypeOK
<1>7. /\ slot' \in [IO -> Keys] /\ io' \in [IO -> Reads \cup {None}]
      /\ k # None => slot'[h] = k
      /\ io'[h] = d \/ io'[h] = None
      /\ \A g \in IO : g # h => slot'[g] = slot[g] /\ io'[g] = io[g]
  BY <1>1, <1>4, <1>5, <1>6
<1>8. ReadsCurrent'
  <2> SUFFICES ASSUME NEW g \in IO, io'[g] # None
               PROVE  /\ Exists(io'[g].rel)
                      /\ io'[g].first + io'[g].n <= Len(file[io'[g].rel][io'[g].fork])
                      /\ io'[g].decrypt = TRUE => slot'[g] = StoredKey(io'[g].rel)
                                                  /\ slot'[g] # None
                      /\ io'[g].decrypt = FALSE => StoredKey(io'[g].rel) = None
    BY <1>1 DEF ReadsCurrent, Exists, StoredKey
  <2>1. CASE g = h
    BY <1>1, <1>2, <1>3, <1>5, <1>7, <2>1
  <2>2. CASE g # h
    BY <1>6, <1>7, <2>2 DEF ReadsCurrent
  <2> QED BY <2>1, <2>2
<1>9. handle' \in [Proc -> [Rel -> Handles]] /\ ClosedUnknown' /\ Current'
  BY <1>1, UseHandle
<1>10. NoneBad' /\ ctx' \in [Proc -> [key : Keys, enc : BOOLEAN]]
  BY <1>1, <1>6 DEF NoneBad, ReadsRight, IInv, Typed, TypeOK
<1> QED BY <1>1, <1>7, <1>8, <1>9, <1>10, SameRelations

\* A read completed by any process, with the key in the slot.
LEMMA CompleteStep ==
    ASSUME IInv, NEW p \in Proc, NEW h \in IO, NEW result \in Nat, Complete(p, h, result)
    PROVE  IInv'
<1>1. PICK d : d = io[h]
  OBVIOUS
<1>2. d \in Reads /\ d # None /\ Typed
  BY <1>1, Parts, Facts DEF Complete
<1>3. d.rel \in Rel /\ d.fork \in Fork /\ d.first \in Nat /\ d.n \in Nat
  BY <1>2 DEF Reads
<1>4. /\ Exists(d.rel) /\ d.first + d.n <= Len(file[d.rel][d.fork])
      /\ d.decrypt = TRUE => slot[h] = StoredKey(d.rel) /\ slot[h] # None
      /\ d.decrypt = FALSE => StoredKey(d.rel) = None
  BY <1>1, <1>2 DEF IInv, ReadsCurrent
<1> DEFINE k == IF d.decrypt /\ result = d.n THEN slot[h] ELSE None
<1>5. /\ result = d.n \/ result = 0 \/ (ShortReads /\ result < d.n)
      /\ bad' = bad \cup Misread(p, k, d.rel, d.fork, d.first, result)
      /\ ctx' = [ctx EXCEPT ![p] = Used(p, k, FALSE)]
      /\ slot' = IF d.decrypt THEN [slot EXCEPT ![h] = None] ELSE slot
      /\ io' = [io EXCEPT ![h] = None]
      /\ UNCHANGED <<rel, file, keyfile, temp, handle, made>>
  BY <1>1 DEF Complete
<1>6. d.decrypt = TRUE \/ d.decrypt = FALSE
  BY <1>2 DEF Reads
<1>7. result = d.n => k = StoredKey(d.rel)
  <2>1. CASE d.decrypt = TRUE
    <3>1. result = d.n => k = slot[h]
      BY <2>1, Zenon
    <3> QED BY <1>4, <2>1, <3>1
  <2>2. CASE d.decrypt = FALSE
    <3>1. k = None
      BY <2>2, Zenon
    <3> QED BY <1>4, <2>2, <3>1
  <2> QED BY <1>6, <2>1, <2>2
<1>8. slot \in [IO -> Keys] /\ io \in [IO -> Reads \cup {None}] /\ ReadsCurrent /\ NoneBad
      /\ handle \in [Proc -> [Rel -> Handles]] /\ ClosedUnknown /\ Current
      /\ ctx \in [Proc -> [key : Keys, enc : BOOLEAN]]
  BY Parts, Facts DEF Typed, TypeOK
<1>9. k \in Keys
  BY <1>8 DEF Keys
<1>10. slot' = slot \/ slot' = [slot EXCEPT ![h] = None]
  <2>1. CASE d.decrypt = TRUE
    BY <1>5, <2>1, Zenon
  <2>2. CASE d.decrypt = FALSE
    BY <1>5, <2>2, Zenon
  <2> QED BY <1>6, <2>1, <2>2
<1> HIDE DEF k
<1>11. ShortReads = FALSE => Misread(p, k, d.rel, d.fork, d.first, result) = {}
  <2> SUFFICES ASSUME ShortReads = FALSE
               PROVE  Misread(p, k, d.rel, d.fork, d.first, result) = {}
    OBVIOUS
  <2>1. result = d.n \/ result = 0
    BY <1>5, Zenon
  <2>2. PICK r, f, b, n : /\ r \in Rel /\ f \in Fork /\ b \in Nat
                          /\ r = d.rel /\ f = d.fork /\ b = d.first /\ n = d.n
    BY <1>3
  <2>3. result = 0 \/ (k = StoredKey(r) /\ b + result <= Len(file[r][f]))
    BY <1>4, <1>7, <2>1, <2>2
  <2>4. Exists(r)
    BY <1>4, <2>2
  <2>5. Misread(p, k, r, f, b, result) = {}
    BY <2>2, <2>3, <2>4, ReadsWell
  <2> QED BY <2>2, <2>5
<1>12. NoneBad'
  BY <1>5, <1>8, <1>11 DEF NoneBad, ReadsRight
<1>13. Used(p, k, FALSE) \in [key : Keys, enc : BOOLEAN]
  BY <1>2, <1>9, Using
<1>14. ctx' \in [Proc -> [key : Keys, enc : BOOLEAN]]
  BY <1>5, <1>8, <1>13
<1>15. /\ slot' \in [IO -> Keys] /\ io' \in [IO -> Reads \cup {None}] /\ io'[h] = None
       /\ \A g \in IO : g # h => slot'[g] = slot[g] /\ io'[g] = io[g]
  BY <1>5, <1>8, <1>10 DEF Keys
<1>16. ReadsCurrent'
  BY <1>5, <1>8, <1>15 DEF ReadsCurrent, Exists, StoredKey
<1>17. ClosedUnknown' /\ Current' /\ handle' \in [Proc -> [Rel -> Handles]]
  <2>1. UNCHANGED <<rel, keyfile, temp, handle>>
    BY <1>5
  <2>2. ClosedUnknown /\ Current /\ handle \in [Proc -> [Rel -> Handles]]
    BY <1>8
  <2> QED BY <2>1, <2>2 DEF ClosedUnknown, Current, Exists, StoredKey
<1> QED BY <1>5, <1>12, <1>14, <1>15, <1>16, <1>17, SameRelations

\* StoredKeyOpens, with the page that belongs in a block named.
BlocksOpen ==
    \A r \in Rel : Exists(r) =>
        \A f \in Fork : \A i \in DOMAIN file[r][f] :
            file[r][f][i] = Zero \/ file[r][f][i] = Written(StoredKey(r), f, i - 1)

LEMMA SameOpens == BlocksOpen => StoredKeyOpens
BY DEF BlocksOpen, StoredKeyOpens, Written

\* Contents that fork f of relation r may have after it was written.
Sound(t, r, f) ==
    /\ t \in Seq(Pages) /\ Len(file[r][f]) <= Len(t) /\ Len(t) <= MaxBlocks
    /\ \A i \in DOMAIN t : t[i] = Zero \/ t[i] = Written(StoredKey(r), f, i - 1)

\* A fork whose blocks are written, or that grows.
LEMMA FileStep ==
    ASSUME IInv, NEW r \in Rel, NEW f \in Fork, Exists(r), NEW t, Sound(t, r, f),
           file' = [file EXCEPT ![r][f] = t],
           UNCHANGED <<rel, keyfile, temp, slot, io, bad, made>>,
           handle' \in [Proc -> [Rel -> Handles]], ctx' \in [Proc -> [key : Keys, enc : BOOLEAN]],
           ClosedUnknown', Current'
    PROVE  IInv'
<1>0. /\ t \in Seq(Pages) /\ Len(file[r][f]) <= Len(t) /\ Len(t) <= MaxBlocks
      /\ \A i \in DOMAIN t : t[i] = Zero \/ t[i] = Written(StoredKey(r), f, i - 1)
  BY DEF Sound
<1>1. /\ file \in [Rel -> [Fork -> Seq(Pages)]] /\ NoLeftovers /\ ReadsCurrent
      /\ \A z \in Rel, g \in Fork : Len(file[z][g]) <= MaxBlocks
  BY DEF IInv, Typed, TypeOK
<1>2. /\ file' \in [Rel -> [Fork -> Seq(Pages)]] /\ file'[r][f] = t
      /\ \A z \in Rel : z # r => file'[z] = file[z]
      /\ \A z \in Rel, g \in Fork : z # r \/ g # f => file'[z][g] = file[z][g]
  BY <1>0, <1>1
<1>3. \A z \in Rel : (Exists(z)' <=> Exists(z)) /\ StoredKey(z)' = StoredKey(z)
  BY DEF Exists, StoredKey
<1>4. NoLeftovers'
  <2> SUFFICES ASSUME NEW z \in Rel, ~Exists(z) PROVE file'[z] = NoFile
    BY <1>3 DEF NoLeftovers, NoFile
  <2> QED BY <1>1, <1>2 DEF NoLeftovers
<1>5. BlocksOpen'
  <2> SUFFICES ASSUME NEW z \in Rel, Exists(z)', NEW g \in Fork, NEW i \in DOMAIN file'[z][g]
               PROVE  (file[z][g][i] = Zero \/ file[z][g][i] = Written(StoredKey(z), g, i - 1))'
    BY DEF BlocksOpen
  <2> SUFFICES file'[z][g][i] = Zero \/ file'[z][g][i] = Written(StoredKey(z), g, i - 1)
    BY <1>3 DEF Written, Zero, Page, Tweak
  <2>0. Exists(z)
    BY <1>3
  <2>1. CASE z = r /\ g = f
    BY <1>0, <1>2, <2>1
  <2>2. CASE ~(z = r /\ g = f)
    <3>1. file'[z][g] = file[z][g]
      BY <1>2, <2>2
    <3> QED BY <2>0, <3>1, Stored
  <2> QED BY <2>1, <2>2
<1>6. \A z \in Rel, g \in Fork : /\ Len(file[z][g]) <= Len(file'[z][g])
                                 /\ Len(file'[z][g]) <= MaxBlocks
                                 /\ Len(file[z][g]) \in Nat /\ Len(file'[z][g]) \in Nat
  <2> TAKE z \in Rel, g \in Fork
  <2>1. file[z][g] \in Seq(Pages) /\ file'[z][g] \in Seq(Pages)
    BY <1>1, <1>2
  <2>2. Len(file[z][g]) \in Nat /\ Len(file'[z][g]) \in Nat
    BY <2>1
  <2>3. CASE z = r /\ g = f
    BY <1>0, <1>2, <2>2, <2>3
  <2>4. CASE ~(z = r /\ g = f)
    <3>1. file'[z][g] = file[z][g]
      BY <1>2, <2>4
    <3> QED BY <1>1, <2>2, <3>1
  <2> QED BY <2>3, <2>4
<1>7. ReadsCurrent'
  <2> SUFFICES ASSUME NEW h \in IO, io[h] # None
               PROVE  /\ Exists(io[h].rel)
                      /\ io[h].first + io[h].n <= Len(file'[io[h].rel][io[h].fork])
                      /\ io[h].decrypt = TRUE => slot[h] = StoredKey(io[h].rel) /\ slot[h] # None
                      /\ io[h].decrypt = FALSE => StoredKey(io[h].rel) = None
    BY DEF ReadsCurrent, Exists, StoredKey
  <2>1. io[h].rel \in Rel /\ io[h].fork \in Fork /\ io[h].first \in Nat /\ io[h].n \in Nat
    BY Parts, Facts DEF Reads
  <2>2. io[h].first + io[h].n <= Len(file[io[h].rel][io[h].fork])
    BY <1>1 DEF ReadsCurrent
  <2>3. io[h].first + io[h].n <= Len(file'[io[h].rel][io[h].fork])
    BY <1>6, <2>1, <2>2
  <2> QED BY <1>1, <2>3 DEF ReadsCurrent
<1>8. Typed'
  BY <1>2, <1>6 DEF IInv, Typed, TypeOK, Handles
<1>9. TempKeysOwned' /\ NoneBad'
  BY DEF IInv, TempKeysOwned, NoneBad, ReadsRight
<1>10. StoredKeyOpens'
  BY <1>5, SameOpens, PTL
<1> QED BY <1>4, <1>7, <1>8, <1>9, <1>10, Whole

LEMMA ExtendStep ==
    ASSUME IInv, NEW p \in Proc, NEW r \in Rel, NEW f \in Fork, Extend(p, r, f)
    PROVE  IInv'
<1> DEFINE q == file[r][f]
           b == Len(q)
<1>1. /\ Accessible(p, r, f) /\ b < MaxBlocks
      /\ file' = [file EXCEPT ![r][f] = Append(q, Encrypt(p, Resolved(p, r).key, f, b))]
      /\ handle' = [handle EXCEPT ![p][r] = Resolved(p, r)]
      /\ ctx' = [ctx EXCEPT ![p] = Used(p, Resolved(p, r).key, TRUE)]
      /\ UNCHANGED <<rel, keyfile, temp, slot, io, bad, made>>
  BY DEF Extend
<1>2. Resolved(p, r).key = StoredKey(r) /\ StoredKey(r) \in Keys /\ Exists(r) /\ Typed
  BY <1>1, Resolving, KnownFacts, Parts
<1>3. q \in Seq(Pages) /\ b \in Nat
  BY <1>2, Facts
<1>4. /\ Encrypt(p, Resolved(p, r).key, f, b) = Written(StoredKey(r), f, b)
      /\ Written(StoredKey(r), f, b) \in Pages
  BY <1>2, <1>3, Encrypting
<1>5. PICK w \in Pages : w = Written(StoredKey(r), f, b)
  BY <1>4
<1>6. PICK t : t = Append(q, w)
  OBVIOUS
<1>7. /\ t \in Seq(Pages) /\ Len(t) = b + 1 /\ DOMAIN t = 1 .. b + 1 /\ t[b + 1] = w
      /\ \A i \in 1 .. b : t[i] = q[i] /\ i \in DOMAIN q
  BY <1>3, <1>6
<1>8. file' = [file EXCEPT ![r][f] = t]
  BY <1>1, <1>4, <1>5, <1>6
<1>9. b + 1 - 1 = b /\ b <= b + 1 /\ b + 1 <= MaxBlocks
  BY <1>1, <1>3, PageIOAssumption
<1>10. \A i \in DOMAIN t : t[i] = Zero \/ t[i] = Written(StoredKey(r), f, i - 1)
  <2> TAKE i \in DOMAIN t
  <2>1. CASE i = b + 1
    BY <1>5, <1>7, <1>9, <2>1
  <2>2. CASE i # b + 1
    <3>1. i \in 1 .. b
      BY <1>3, <1>7, <2>2
    <3> QED BY <1>2, <1>7, <3>1, Stored
  <2> QED BY <2>1, <2>2
<1>11. handle' \in [Proc -> [Rel -> Handles]] /\ ClosedUnknown' /\ Current'
  BY <1>1, UseHandle
<1>12. ctx' \in [Proc -> [key : Keys, enc : BOOLEAN]]
  <2>1. Used(p, StoredKey(r), TRUE) \in [key : Keys, enc : BOOLEAN]
    BY <1>2, Using
  <2> QED BY <1>1, <1>2, <2>1 DEF Typed, TypeOK
<1>13. Len(file[r][f]) <= Len(t) /\ Len(t) <= MaxBlocks
  BY <1>7, <1>9
<1>14. Sound(t, r, f)
  BY <1>7, <1>10, <1>13 DEF Sound
<1> QED BY <1>1, <1>2, <1>8, <1>11, <1>12, <1>14, FileStep

LEMMA ZeroExtendStep ==
    ASSUME IInv, NEW p \in Proc, NEW r \in Rel, ZeroExtend(p, r)
    PROVE  IInv'
<1> DEFINE q == file[r]["main"]
           b == Len(q)
<1>1. /\ Accessible(p, r, "main") /\ b < MaxBlocks
      /\ file' = [file EXCEPT ![r]["main"] = Append(q, Zero)]
      /\ UNCHANGED <<rel, keyfile, temp, handle, ctx, slot, io, bad, made>>
  BY DEF ZeroExtend
<1>2. Exists(r) /\ Typed /\ "main" \in Fork /\ Zero \in Pages
  BY <1>1, Resolving, Parts DEF Fork, Zero, Pages
<1>3. q \in Seq(Pages) /\ b \in Nat
  BY <1>2, Facts
<1>4. PICK t : t = Append(q, Zero)
  OBVIOUS
<1>5. /\ t \in Seq(Pages) /\ Len(t) = b + 1 /\ DOMAIN t = 1 .. b + 1 /\ t[b + 1] = Zero
      /\ \A i \in 1 .. b : t[i] = q[i] /\ i \in DOMAIN q
  BY <1>2, <1>3, <1>4
<1>6. b <= b + 1 /\ b + 1 <= MaxBlocks
  BY <1>1, <1>3, PageIOAssumption
<1>7. \A i \in DOMAIN t : t[i] = Zero \/ t[i] = Written(StoredKey(r), "main", i - 1)
  <2> TAKE i \in DOMAIN t
  <2>1. CASE i = b + 1
    BY <1>5, <2>1
  <2>2. CASE i # b + 1
    <3>1. i \in 1 .. b
      BY <1>3, <1>5, <2>2
    <3> QED BY <1>2, <1>5, <3>1, Stored
  <2> QED BY <2>1, <2>2
<1>8. /\ handle' \in [Proc -> [Rel -> Handles]] /\ ctx' \in [Proc -> [key : Keys, enc : BOOLEAN]]
      /\ ClosedUnknown /\ Current
  BY <1>1, <1>2, Facts, Parts DEF Typed, TypeOK
<1>9. ClosedUnknown' /\ Current'
  <2>1. UNCHANGED <<rel, keyfile, temp, handle>>
    BY <1>1
  <2>2. ClosedUnknown /\ Current
    BY <1>8
  <2> QED BY <2>1, <2>2 DEF ClosedUnknown, Current, Exists, StoredKey
<1>10. Sound(t, r, "main")
  BY <1>5, <1>6, <1>7 DEF Sound
<1>11. file' = [file EXCEPT ![r]["main"] = t]
  BY <1>1, <1>4
<1> QED BY <1>1, <1>2, <1>8, <1>9, <1>10, <1>11, FileStep

LEMMA WriteStep ==
    ASSUME IInv, NEW p \in Proc, NEW r \in Rel, NEW f \in Fork, NEW b \in Nat, NEW n \in Nat,
           Writev(p, r, f, b, n)
    PROVE  IInv'
<1> DEFINE q == file[r][f]
           k == Resolved(p, r).key
           t == [i \in DOMAIN q |-> IF i - 1 \in b .. b + n - 1
                                    THEN Encrypt(p, k, f, i - 1) ELSE q[i]]
<1>1. /\ Accessible(p, r, f)
      /\ file' = [file EXCEPT ![r][f] = t]
      /\ handle' = [handle EXCEPT ![p][r] = Resolved(p, r)]
      /\ ctx' = [ctx EXCEPT ![p] = Used(p, k, TRUE)]
      /\ UNCHANGED <<rel, keyfile, temp, slot, io, bad, made>>
  BY DEF Writev
<1>2. k = StoredKey(r) /\ StoredKey(r) \in Keys /\ Exists(r) /\ Typed
  BY <1>1, Resolving, KnownFacts, Parts
<1>3. q \in Seq(Pages) /\ Len(q) \in Nat /\ DOMAIN q = 1 .. Len(q)
  BY <1>2, Facts
<1>4. ASSUME NEW i \in DOMAIN q
      PROVE  t[i] \in Pages /\ (t[i] = Zero \/ t[i] = Written(StoredKey(r), f, i - 1))
  <2>1. i - 1 \in Nat /\ q[i] \in Pages
    BY <1>3, <1>4
  <2>2. CASE i - 1 \in b .. b + n - 1
    <3>1. t[i] = Encrypt(p, k, f, i - 1)
      BY <1>4, <2>2
    <3>2. Encrypt(p, k, f, i - 1) = Written(k, f, i - 1) /\ Written(k, f, i - 1) \in Pages
      BY <1>2, <2>1, Encrypting
    <3> QED BY <1>2, <3>1, <3>2
  <2>3. CASE i - 1 \notin b .. b + n - 1
    <3>1. t[i] = q[i]
      BY <1>4, <2>3
    <3> QED BY <1>2, <1>4, <2>1, <3>1, Stored
  <2> QED BY <2>2, <2>3
<1>5. DOMAIN t = 1 .. Len(q)
  BY <1>3
<1> HIDE DEF t
<1>6. t \in Seq(Pages) /\ Len(t) = Len(q)
  <2>1. t = [i \in 1 .. Len(q) |-> t[i]]
    BY <1>3 DEF t
  <2>2. t \in [1 .. Len(q) -> Pages]
    BY <1>3, <1>4, <2>1
  <2> QED BY <1>3, <2>2
<1>7. Len(q) <= MaxBlocks
  BY <1>2 DEF Typed, TypeOK
<1>8. handle' \in [Proc -> [Rel -> Handles]] /\ ClosedUnknown' /\ Current'
  BY <1>1, UseHandle
<1>9. ctx' \in [Proc -> [key : Keys, enc : BOOLEAN]]
  <2>1. Used(p, StoredKey(r), TRUE) \in [key : Keys, enc : BOOLEAN]
    BY <1>2, Using
  <2> QED BY <1>1, <1>2, <2>1 DEF Typed, TypeOK
<1>10. Len(file[r][f]) <= Len(t) /\ Len(t) <= MaxBlocks
  BY <1>3, <1>6, <1>7
<1>11. \A i \in DOMAIN t : t[i] = Zero \/ t[i] = Written(StoredKey(r), f, i - 1)
  BY <1>3, <1>4, <1>5
<1>12. Sound(t, r, f)
  BY <1>6, <1>10, <1>11 DEF Sound
<1> QED BY <1>1, <1>2, <1>8, <1>9, <1>12, FileStep

-----------------------------------------------------------------------------
(* Steps that change one relation.                                         *)

\* What the invariant says of one relation.
NoLeftover(r) == ~Exists(r) => file[r] = NoFile
ClosedIsUnknown(r) == \A p \in Proc : handle[p][r].open = TRUE \/ handle[p][r] = Unknown
BlockOpens(r) ==
    Exists(r) =>
        \A f \in Fork : \A i \in DOMAIN file[r][f] :
            file[r][f][i] = Zero \/ file[r][f][i] = Written(StoredKey(r), f, i - 1)
IsCurrent(r) ==
    \A p \in Proc : Exists(r) /\ handle[p][r].status # "UNKNOWN" =>
        /\ rel[r].kind = "temp" => p = rel[r].owner
        /\ handle[p][r].key = StoredKey(r)
KeyOwned(r) ==
    \A p \in Proc : temp[p][r] # None =>
        rel[r] # Gone /\ rel[r].kind = "temp" /\ rel[r].owner = p

RelOK(r) ==
    NoLeftover(r) /\ ClosedIsUnknown(r) /\ BlockOpens(r) /\ IsCurrent(r) /\ KeyOwned(r)

AllOK == \A r \in Rel : RelOK(r)

LEMMA Collected ==
    AllOK => NoLeftovers /\ ClosedUnknown /\ StoredKeyOpens /\ Current /\ TempKeysOwned
<1> SUFFICES ASSUME \A r \in Rel : RelOK(r)
             PROVE  NoLeftovers /\ ClosedUnknown /\ StoredKeyOpens /\ Current /\ TempKeysOwned
  BY DEF AllOK
<1>1. NoLeftovers
  BY DEF RelOK, NoLeftover, NoLeftovers
<1>2. ClosedUnknown
  BY DEF RelOK, ClosedIsUnknown, ClosedUnknown
<1>3. BlocksOpen
  BY DEF RelOK, BlockOpens, BlocksOpen
<1>4. Current
  BY DEF RelOK, IsCurrent, Current
<1>5. TempKeysOwned
  BY DEF RelOK, KeyOwned, TempKeysOwned
<1> QED BY <1>1, <1>2, <1>3, <1>4, <1>5, SameOpens

LEMMA Split ==
    ASSUME IInv, NEW r \in Rel
    PROVE  RelOK(r)
<1>1. NoLeftover(r)
  BY DEF IInv, NoLeftover, NoLeftovers
<1>2. ClosedIsUnknown(r)
  BY DEF IInv, ClosedIsUnknown, ClosedUnknown
<1>3. BlockOpens(r)
  BY Stored DEF BlockOpens
<1>4. IsCurrent(r)
  BY DEF IInv, HandlesCurrent, IsCurrent
<1>5. KeyOwned(r)
  BY DEF IInv, KeyOwned, TempKeysOwned
<1> QED BY <1>1, <1>2, <1>3, <1>4, <1>5 DEF RelOK

LEMMA TypedNext ==
    ASSUME Typed, rel' \in [Rel -> {Gone} \cup RelRecs], file' \in [Rel -> [Fork -> Seq(Pages)]],
           \A r \in Rel, f \in Fork : Len(file'[r][f]) <= MaxBlocks,
           keyfile' \in [Rel -> Keys], temp' \in [Proc -> [Rel -> Keys]],
           handle' \in [Proc -> [Rel -> Handles]], made' \subseteq Key, UNCHANGED <<ctx, slot, io>>
    PROVE  Typed'
BY DEF Typed, TypeOK, RelRecs, Kinds, Handles, Reads

\* Relations other than r are as they were.
LEMMA Untouched ==
    ASSUME IInv, NEW r \in Rel,
           rel'[r] = rel[r], file'[r] = file[r], keyfile'[r] = keyfile[r],
           \A p \in Proc : temp'[p][r] = temp[p][r] /\ handle'[p][r] = handle[p][r]
    PROVE  RelOK(r)' /\ (Exists(r)' <=> Exists(r)) /\ (Exists(r) => StoredKey(r)' = StoredKey(r))
<1>1. RelOK(r) /\ Typed
  BY Split, Parts
<1>2. Exists(r)' <=> Exists(r)
  BY DEF Exists
<1>3. ASSUME Exists(r) PROVE StoredKey(r)' = StoredKey(r)
  <2>1. rel[r].owner \in Proc
    BY <1>1, <1>3, StoredFacts DEF Exists, RelRecs
  <2> QED BY <2>1 DEF StoredKey
<1>4. NoLeftover(r)' /\ ClosedIsUnknown(r)' /\ KeyOwned(r)'
  BY <1>1, <1>2 DEF RelOK, NoLeftover, ClosedIsUnknown, KeyOwned, NoFile, Unknown
<1>5. IsCurrent(r)'
  BY <1>1, <1>2, <1>3 DEF RelOK, IsCurrent
<1>6. BlockOpens(r)'
  <2> SUFFICES ASSUME Exists(r)', NEW f \in Fork, NEW i \in DOMAIN file'[r][f]
               PROVE  (file[r][f][i] = Zero \/ file[r][f][i] = Written(StoredKey(r), f, i - 1))'
    BY DEF BlockOpens
  <2>1. file[r][f][i] = Zero \/ file[r][f][i] = Written(StoredKey(r), f, i - 1)
    BY <1>1, <1>2 DEF RelOK, BlockOpens
  <2>2. StoredKey(r)' = StoredKey(r)
    BY <1>2, <1>3
  <2> QED BY <2>1, <2>2 DEF Written, Zero, Page, Tweak
<1> QED BY <1>2, <1>3, <1>4, <1>5, <1>6 DEF RelOK

\* A step that changes relation r, which nobody reads or which looks the same.
LEMMA OneRelation ==
    ASSUME IInv, NEW r \in Rel, Typed', RelOK(r)', UNCHANGED <<slot, io, bad>>,
           \A z \in Rel : z # r =>
               /\ rel'[z] = rel[z] /\ file'[z] = file[z] /\ keyfile'[z] = keyfile[z]
               /\ \A p \in Proc : temp'[p][z] = temp[p][z] /\ handle'[p][z] = handle[p][z],
           \/ \A h \in IO : io[h] # None => io[h].rel # r
           \/ Exists(r)' /\ file'[r] = file[r] /\ StoredKey(r)' = StoredKey(r)
    PROVE  IInv'
<1>1. ASSUME NEW z \in Rel, z # r
      PROVE  RelOK(z)' /\ (Exists(z)' <=> Exists(z)) /\ (Exists(z) => StoredKey(z)' = StoredKey(z))
  BY <1>1, Untouched
<1>2. AllOK'
  BY <1>1 DEF AllOK
<1>3. NoLeftovers' /\ ClosedUnknown' /\ StoredKeyOpens' /\ Current' /\ TempKeysOwned'
  BY <1>2, Collected, PTL
<1>4. NoneBad'
  BY DEF IInv, NoneBad, ReadsRight
<1>5. ReadsCurrent'
  <2> SUFFICES ASSUME NEW h \in IO, io[h] # None
               PROVE  (/\ Exists(io[h].rel)
                       /\ io[h].first + io[h].n <= Len(file[io[h].rel][io[h].fork])
                       /\ io[h].decrypt = TRUE => slot[h] = StoredKey(io[h].rel) /\ slot[h] # None
                       /\ io[h].decrypt = FALSE => StoredKey(io[h].rel) = None)'
    BY DEF ReadsCurrent
  <2>1. PICK d : d = io[h] /\ d = io'[h]
    OBVIOUS
  <2>2. PICK z \in Rel : z = d.rel
    BY <2>1, Parts, Facts DEF Reads
  <2>3. /\ Exists(z) /\ d.first + d.n <= Len(file[z][d.fork])
        /\ d.decrypt = TRUE => slot[h] = StoredKey(z) /\ slot[h] # None
        /\ d.decrypt = FALSE => StoredKey(z) = None
    BY <2>1, <2>2 DEF IInv, ReadsCurrent
  <2>4. Exists(z)' /\ file'[z] = file[z] /\ StoredKey(z)' = StoredKey(z)
    BY <1>1, <2>1, <2>2, <2>3
  <2>5. /\ Exists(z)' /\ d.first + d.n <= Len(file'[z][d.fork])
        /\ d.decrypt = TRUE => slot'[h] = StoredKey(z)' /\ slot'[h] # None
        /\ d.decrypt = FALSE => StoredKey(z)' = None
    BY <2>3, <2>4
  <2> QED BY <2>1, <2>2, <2>5 DEF Exists, StoredKey
<1> QED BY <1>3, <1>4, <1>5, Whole

\* Nobody reads a relation that does not exist.
LEMMA Idle ==
    ASSUME IInv, NEW r \in Rel, ~Exists(r)
    PROVE  (\A h \in IO : io[h] # None => io[h].rel # r) /\ file[r] = NoFile
BY DEF IInv, ReadsCurrent, NoLeftovers

\* A number that is not in use is not known to any process.
LEMMA UnusedFacts ==
    ASSUME IInv, NEW r \in Rel, Unused(r)
    PROVE  /\ rel[r] = Gone /\ ~Exists(r) /\ file[r] = NoFile
           /\ \A q \in Proc : handle[q][r] = Unknown /\ temp[q][r] = None
<1>1. rel[r] = Gone /\ ~Exists(r)
  BY DEF Unused, Exists
<1>2. ASSUME NEW q \in Proc PROVE handle[q][r] = Unknown
  <2>1. ~handle[q][r].open
    BY DEF Unused
  <2>2. handle[q][r].open = TRUE \/ handle[q][r] = Unknown
    BY DEF IInv, ClosedUnknown
  <2> QED BY <2>1, <2>2, Zenon
<1>3. \A q \in Proc : temp[q][r] = None
  BY <1>1 DEF IInv, TempKeysOwned
<1> QED BY <1>1, <1>2, <1>3, Idle

\* A relation without blocks has none that could not be read.
LEMMA EmptyOpens ==
    ASSUME NEW r \in Rel, file'[r] = NoFile
    PROVE  NoLeftover(r)' /\ BlockOpens(r)'
<1>1. NoLeftover(r)'
  BY DEF NoLeftover, NoFile
<1>2. \A f \in Fork : DOMAIN file'[r][f] = {}
  BY DEF NoFile
<1> QED BY <1>1, <1>2 DEF BlockOpens

LEMMA CreateStep ==
    ASSUME IInv, NEW p \in Proc, NEW r \in Rel, NEW kind \in Kinds, NEW k \in Keys,
           Create(p, r, kind, k)
    PROVE  IInv'
<1>1. /\ Unused(r)
      /\ rel' = [rel EXCEPT ![r] = [kind |-> kind, owner |-> p, stage |-> "open"]]
      /\ keyfile' = Store(kind, r, k) /\ temp' = StoreTemp(kind, p, r, k)
      /\ handle' = [handle EXCEPT ![p][r] = Known(k)]
      /\ made' = made \cup ({k} \ {None})
      /\ UNCHANGED <<file, ctx, slot, io, bad>>
  BY DEF Create
<1>2. /\ rel[r] = Gone /\ ~Exists(r) /\ file[r] = NoFile
      /\ \A q \in Proc : handle[q][r] = Unknown /\ temp[q][r] = None
  BY <1>1, UnusedFacts
<1>3. /\ Typed /\ rel \in [Rel -> {Gone} \cup RelRecs] /\ handle \in [Proc -> [Rel -> Handles]]
      /\ keyfile \in [Rel -> Keys] /\ temp \in [Proc -> [Rel -> Keys]]
  BY Parts, Facts
<1>4. PICK hd : hd = Known(k)
  OBVIOUS
<1>5. hd \in Handles /\ hd.key = k /\ hd.open = TRUE
  BY <1>4, KnownFacts
<1>6. PICK d : d = [kind |-> kind, owner |-> p, stage |-> "open"]
  OBVIOUS
<1>7. d \in RelRecs /\ d.kind = kind /\ d.owner = p /\ d.stage = "open" /\ d # Gone
  BY <1>6 DEF RelRecs, Gone
<1>8. /\ rel' \in [Rel -> {Gone} \cup RelRecs] /\ rel'[r] = d
      /\ \A z \in Rel : z # r => rel'[z] = rel[z]
  BY <1>1, <1>3, <1>6, <1>7
<1>9. /\ handle' \in [Proc -> [Rel -> Handles]] /\ handle'[p][r] = hd
      /\ \A q \in Proc, z \in Rel : q # p \/ z # r => handle'[q][z] = handle[q][z]
  BY <1>1, <1>3, <1>4, <1>5
<1>10. /\ keyfile' \in [Rel -> Keys]
       /\ \A z \in Rel : z # r => keyfile'[z] = keyfile[z]
       /\ kind # "temp" => keyfile'[r] = k
  BY <1>1, <1>3 DEF Store
<1>11. /\ temp' \in [Proc -> [Rel -> Keys]]
       /\ \A q \in Proc, z \in Rel : q # p \/ z # r => temp'[q][z] = temp[q][z]
       /\ kind = "temp" => temp'[p][r] = k
       /\ kind # "temp" => temp' = temp
  <2>1. temp' = temp \/ temp' = [temp EXCEPT ![p][r] = k]
    BY <1>1 DEF StoreTemp
  <2>2. /\ temp' \in [Proc -> [Rel -> Keys]]
        /\ \A q \in Proc, z \in Rel : q # p \/ z # r => temp'[q][z] = temp[q][z]
    <3>1. CASE temp' = temp
      BY <1>3, <3>1
    <3>2. CASE temp' = [temp EXCEPT ![p][r] = k]
      BY <1>3, <3>2
    <3> QED BY <2>1, <3>1, <3>2
  <2>3. kind # "temp" => temp' = temp
    BY <1>1 DEF StoreTemp
  <2>4. ASSUME kind = "temp" PROVE temp'[p][r] = k
    <3>1. CASE k = None
      BY <1>1, <1>2, <3>1 DEF StoreTemp
    <3>2. CASE k # None
      BY <1>1, <1>3, <2>4, <3>2 DEF StoreTemp
    <3> QED BY <3>1, <3>2
  <2> QED BY <2>2, <2>3, <2>4
<1>12. Exists(r)' /\ StoredKey(r)' = k
  <2>1. Exists(r)'
    BY <1>7, <1>8 DEF Exists, Gone
  <2>2. StoredKey(r)' = k
    BY <1>7, <1>8, <1>10, <1>11 DEF StoredKey
  <2> QED BY <2>1, <2>2
<1>13. NoLeftover(r)' /\ BlockOpens(r)'
  BY <1>1, <1>2, EmptyOpens
<1>14. ClosedIsUnknown(r)'
  BY <1>2, <1>5, <1>9 DEF ClosedIsUnknown, Unknown
<1>15. IsCurrent(r)'
  <2> SUFFICES ASSUME NEW q \in Proc, handle'[q][r].status # "UNKNOWN"
               PROVE  (rel'[r].kind = "temp" => q = rel'[r].owner)
                      /\ handle'[q][r].key = StoredKey(r)'
    BY DEF IsCurrent
  <2>1. q = p
    BY <1>2, <1>9, UnknownFacts
  <2> QED BY <1>5, <1>7, <1>8, <1>9, <1>12, <2>1
<1>16. KeyOwned(r)'
  BY <1>2, <1>7, <1>8, <1>11 DEF KeyOwned, Gone
<1>17. made' \subseteq Key
  BY <1>1, <1>3 DEF Typed, TypeOK, Keys
<1>18. \A z \in Rel, f \in Fork : Len(file'[z][f]) <= MaxBlocks
  BY <1>1, <1>3 DEF Typed, TypeOK
<1>19. Typed'
  BY <1>1, <1>3, <1>8, <1>9, <1>10, <1>11, <1>17, <1>18, TypedNext DEF Typed
<1>20. RelOK(r)'
  BY <1>13, <1>14, <1>15, <1>16 DEF RelOK
<1>21. \A z \in Rel : z # r =>
           /\ rel'[z] = rel[z] /\ file'[z] = file[z] /\ keyfile'[z] = keyfile[z]
           /\ \A q \in Proc : temp'[q][z] = temp[q][z] /\ handle'[q][z] = handle[q][z]
  BY <1>1, <1>8, <1>9, <1>10, <1>11
<1>22. \A h \in IO : io[h] # None => io[h].rel # r
  BY <1>2, Idle
<1> QED BY <1>1, <1>19, <1>20, <1>21, <1>22, OneRelation

LEMMA CreateInUpgradeStep ==
    ASSUME IInv, NEW p \in Proc, NEW r \in Rel, CreateInUpgrade(p, r)
    PROVE  IInv'
<1> DEFINE d == [kind |-> "perm", owner |-> p, stage |-> "live"]
           w == Written(keyfile[r], "main", 0)
           hd == [Unknown EXCEPT !.open = TRUE]
<1>1. /\ Unused(r)
      /\ rel' = [rel EXCEPT ![r] = d]
      /\ file' = [file EXCEPT ![r]["main"] =
                     <<Page(keyfile[r], IF keyfile[r] = None THEN <<>> ELSE Tweak("main", 0))>>]
      /\ handle' = [handle EXCEPT ![p][r].open = TRUE]
      /\ UNCHANGED <<keyfile, temp, ctx, slot, io, bad, made>>
  BY DEF CreateInUpgrade
<1>2. /\ rel[r] = Gone /\ ~Exists(r) /\ file[r] = NoFile
      /\ \A q \in Proc : handle[q][r] = Unknown /\ temp[q][r] = None
  BY <1>1, UnusedFacts
<1>3. /\ Typed /\ rel \in [Rel -> {Gone} \cup RelRecs] /\ handle \in [Proc -> [Rel -> Handles]]
      /\ keyfile \in [Rel -> Keys] /\ temp \in [Proc -> [Rel -> Keys]]
      /\ file \in [Rel -> [Fork -> Seq(Pages)]]
  BY Parts, Facts DEF Typed
<1>4. w \in Pages /\ file' = [file EXCEPT ![r]["main"] = <<w>>]
  <2>1. "main" \in Fork /\ 0 \in Nat /\ keyfile[r] \in Keys
    BY <1>3 DEF Fork
  <2>2. w \in Pages
    BY <1>3, <2>1, Encrypting
  <2>3. w = Page(keyfile[r], IF keyfile[r] = None THEN <<>> ELSE Tweak("main", 0))
    BY DEF Written
  <2> QED BY <1>1, <2>2, <2>3
<1>5. d \in RelRecs /\ d.kind = "perm" /\ d.stage = "live" /\ d # Gone
  BY DEF RelRecs, Kinds, Gone
<1>6. hd \in Handles /\ hd.open = TRUE /\ hd.status = "UNKNOWN"
  BY DEF Handles, Unknown
<1>7. handle' = [handle EXCEPT ![p][r] = hd]
  BY <1>1, <1>2
<1> HIDE DEF d, w, hd
<1>8. /\ rel' \in [Rel -> {Gone} \cup RelRecs] /\ rel'[r] = d
      /\ \A z \in Rel : z # r => rel'[z] = rel[z]
  BY <1>1, <1>3, <1>5
<1>9. /\ handle' \in [Proc -> [Rel -> Handles]] /\ handle'[p][r] = hd
      /\ \A q \in Proc, z \in Rel : q # p \/ z # r => handle'[q][z] = handle[q][z]
  BY <1>3, <1>6, <1>7
<1>10. /\ file' \in [Rel -> [Fork -> Seq(Pages)]] /\ file'[r]["main"] = <<w>>
       /\ \A z \in Rel : z # r => file'[z] = file[z]
       /\ \A f \in Fork : f # "main" => file'[r][f] = <<>>
  <2>1. <<w>> \in Seq(Pages) /\ "main" \in Fork
    BY <1>4 DEF Fork
  <2>2. \A f \in Fork : file[r][f] = <<>>
    BY <1>2 DEF NoFile
  <2> QED BY <1>3, <1>4, <2>1, <2>2
<1>11. Exists(r)' /\ StoredKey(r)' = keyfile[r]
  BY <1>1, <1>5, <1>8 DEF Exists, Gone, StoredKey
<1>12. NoLeftover(r)' /\ ClosedIsUnknown(r)'
  BY <1>2, <1>6, <1>9, <1>11 DEF NoLeftover, ClosedIsUnknown, Unknown
<1>13. BlockOpens(r)'
  <2> SUFFICES ASSUME NEW f \in Fork, NEW i \in DOMAIN file'[r][f]
               PROVE  (file[r][f][i] = Zero \/ file[r][f][i] = Written(StoredKey(r), f, i - 1))'
    BY DEF BlockOpens
  <2>1. f = "main" /\ i = 1 /\ i - 1 = 0
    BY <1>10
  <2>2. file'[r][f][i] = w
    BY <1>10, <2>1
  <2> QED BY <1>11, <2>1, <2>2 DEF w, Written, Page, Tweak
<1>14. IsCurrent(r)' /\ KeyOwned(r)'
  BY <1>1, <1>2, <1>6, <1>9, UnknownFacts DEF IsCurrent, KeyOwned
<1>15. \A z \in Rel, f \in Fork : Len(file'[z][f]) <= MaxBlocks
  <2> TAKE z \in Rel, f \in Fork
  <2>1. CASE z # r
    BY <1>3, <1>10, <2>1 DEF Typed, TypeOK
  <2>2. CASE z = r
    <3>1. Len(<<w>>) = 1 /\ Len(<<>>) = 0
      OBVIOUS
    <3>2. Len(file'[z][f]) = 1 \/ Len(file'[z][f]) = 0
      BY <1>10, <2>2, <3>1
    <3>3. 0 <= MaxBlocks /\ 1 <= MaxBlocks
      BY PageIOAssumption
    <3> QED BY <3>2, <3>3
  <2> QED BY <2>1, <2>2
<1>16. keyfile' \in [Rel -> Keys] /\ temp' \in [Proc -> [Rel -> Keys]] /\ made' \subseteq Key
  BY <1>1, <1>3 DEF Typed, TypeOK
<1>17. Typed'
  BY <1>1, <1>3, <1>8, <1>9, <1>10, <1>15, <1>16, TypedNext
<1>18. RelOK(r)'
  BY <1>12, <1>13, <1>14 DEF RelOK
<1>19. \A z \in Rel : z # r =>
           /\ rel'[z] = rel[z] /\ file'[z] = file[z] /\ keyfile'[z] = keyfile[z]
           /\ \A q \in Proc : temp'[q][z] = temp[q][z] /\ handle'[q][z] = handle[q][z]
  BY <1>1, <1>8, <1>9, <1>10
<1>20. \A h \in IO : io[h] # None => io[h].rel # r
  BY <1>2, Idle
<1> QED BY <1>1, <1>17, <1>18, <1>19, <1>20, OneRelation

LEMMA CommitStep ==
    ASSUME IInv, NEW r \in Rel, Commit(r)
    PROVE  IInv'
<1>1. /\ rel[r] # Gone /\ rel[r].stage = "open"
      /\ rel' = [rel EXCEPT ![r].stage = "live"]
      /\ UNCHANGED <<file, keyfile, temp, handle, ctx, slot, io, bad, made>>
  BY DEF Commit
<1>2. /\ Typed /\ rel \in [Rel -> {Gone} \cup RelRecs] /\ handle \in [Proc -> [Rel -> Handles]]
      /\ keyfile \in [Rel -> Keys] /\ temp \in [Proc -> [Rel -> Keys]] /\ RelOK(r)
  BY Parts, Facts, Split
<1>3. rel[r] \in RelRecs
  BY <1>1, <1>2
<1> PICK d : d = [rel[r] EXCEPT !.stage = "live"]
  OBVIOUS
<1>4. d \in RelRecs /\ d.kind = rel[r].kind /\ d.owner = rel[r].owner /\ d.stage = "live"
  BY <1>3 DEF RelRecs
<1>5. /\ rel' \in [Rel -> {Gone} \cup RelRecs] /\ rel'[r] = d
      /\ \A z \in Rel : z # r => rel'[z] = rel[z]
  BY <1>1, <1>2, <1>4
<1>6. d # Gone
  BY <1>4 DEF RelRecs, Gone
<1>7. Exists(r) /\ Exists(r)' /\ StoredKey(r)' = StoredKey(r)
  BY <1>1, <1>4, <1>5, <1>6 DEF Exists, Gone, StoredKey
<1>8. NoLeftover(r)' /\ ClosedIsUnknown(r)'
  BY <1>1, <1>2, <1>7 DEF RelOK, NoLeftover, ClosedIsUnknown, Unknown
<1>9. BlockOpens(r)'
  <2> SUFFICES ASSUME NEW f \in Fork, NEW i \in DOMAIN file'[r][f]
               PROVE  (file[r][f][i] = Zero \/ file[r][f][i] = Written(StoredKey(r), f, i - 1))'
    BY DEF BlockOpens
  <2>1. file[r][f][i] = Zero \/ file[r][f][i] = Written(StoredKey(r), f, i - 1)
    BY <1>1, <1>2, <1>7 DEF RelOK, BlockOpens
  <2> QED BY <1>1, <1>7, <2>1 DEF Written, Zero, Page, Tweak
<1>10. IsCurrent(r)'
  BY <1>1, <1>2, <1>4, <1>5, <1>7 DEF RelOK, IsCurrent
<1>11. KeyOwned(r)'
  BY <1>1, <1>2, <1>4, <1>5, <1>6 DEF RelOK, KeyOwned, Gone
<1>12. RelOK(r)'
  BY <1>8, <1>9, <1>10, <1>11 DEF RelOK
<1>13. /\ \A z \in Rel, f \in Fork : Len(file'[z][f]) <= MaxBlocks
       /\ made' \subseteq Key /\ file' \in [Rel -> [Fork -> Seq(Pages)]]
  BY <1>1, <1>2 DEF Typed, TypeOK
<1>14. Typed'
  BY <1>1, <1>2, <1>5, <1>13, TypedNext
<1> QED BY <1>1, <1>5, <1>7, <1>12, <1>14, OneRelation

LEMMA UnlinkStep ==
    ASSUME IInv, NEW p \in Proc, NEW r \in Rel, Unlink(p, r)
    PROVE  IInv'
<1>1. /\ Exists(r) /\ (rel[r].stage = "open" \/ rel[r].kind = "temp" => p = rel[r].owner)
      /\ \A h \in IO : io[h] # None => io[h].rel # r
      /\ handle' = [handle EXCEPT ![p][r] = Unknown]
      /\ file' = [file EXCEPT ![r] = NoFile]
      /\ rel' = [rel EXCEPT ![r].stage = "unlinking", ![r].owner = p]
      /\ UNCHANGED <<keyfile, temp, ctx, slot, io, bad, made>>
  BY DEF Unlink, Close
<1>2. /\ Typed /\ rel \in [Rel -> {Gone} \cup RelRecs] /\ handle \in [Proc -> [Rel -> Handles]]
      /\ keyfile \in [Rel -> Keys] /\ temp \in [Proc -> [Rel -> Keys]] /\ RelOK(r)
      /\ file \in [Rel -> [Fork -> Seq(Pages)]]
  BY Parts, Facts, Split DEF Typed
<1>3. rel[r] # Gone /\ rel[r] \in RelRecs
  BY <1>1, <1>2 DEF Exists
<1> PICK d : d = [rel[r] EXCEPT !.stage = "unlinking", !.owner = p]
  OBVIOUS
<1>4. d \in RelRecs /\ d.kind = rel[r].kind /\ d.owner = p /\ d.stage = "unlinking"
  BY <1>3 DEF RelRecs
<1>5. /\ rel' \in [Rel -> {Gone} \cup RelRecs] /\ rel'[r] = d
      /\ \A z \in Rel : z # r => rel'[z] = rel[z]
  BY <1>1, <1>2, <1>4
<1>6. /\ handle' \in [Proc -> [Rel -> Handles]] /\ handle'[p][r] = Unknown
      /\ \A q \in Proc, z \in Rel : q # p \/ z # r => handle'[q][z] = handle[q][z]
  BY <1>1, <1>2, UnknownFacts
<1>7. /\ file' \in [Rel -> [Fork -> Seq(Pages)]] /\ file'[r] = NoFile
      /\ \A z \in Rel : z # r => file'[z] = file[z]
  <2>1. NoFile \in [Fork -> Seq(Pages)]
    BY DEF NoFile
  <2> QED BY <1>1, <1>2, <2>1
<1>8. ~Exists(r)'
  BY <1>4, <1>5 DEF Exists
<1>9. NoLeftover(r)' /\ BlockOpens(r)'
  BY <1>7, EmptyOpens
<1>10. ClosedIsUnknown(r)'
  BY <1>2, <1>6 DEF RelOK, ClosedIsUnknown, Unknown
<1>11. IsCurrent(r)'
  BY <1>8 DEF IsCurrent
<1>12. KeyOwned(r)'
  <2> SUFFICES ASSUME NEW q \in Proc, temp[q][r] # None
               PROVE  d # Gone /\ d.kind = "temp" /\ d.owner = q
    BY <1>1, <1>5 DEF KeyOwned, Gone
  <2>1. rel[r].kind = "temp" /\ rel[r].owner = q
    BY <1>2 DEF RelOK, KeyOwned
  <2>2. d # Gone
    BY <1>4 DEF RelRecs, Gone
  <2> QED BY <1>1, <1>4, <2>1, <2>2
<1>13. RelOK(r)'
  BY <1>9, <1>10, <1>11, <1>12 DEF RelOK
<1>14. \A z \in Rel, f \in Fork : Len(file'[z][f]) <= MaxBlocks
  <2> TAKE z \in Rel, f \in Fork
  <2>1. CASE z # r
    BY <1>2, <1>7, <2>1 DEF Typed, TypeOK
  <2>2. CASE z = r
    BY <1>7, <2>2, PageIOAssumption DEF NoFile
  <2> QED BY <2>1, <2>2
<1>15. made' \subseteq Key
  BY <1>1, <1>2 DEF Typed, TypeOK
<1>16. Typed'
  BY <1>1, <1>2, <1>5, <1>6, <1>7, <1>14, <1>15, TypedNext
<1>17. \A z \in Rel : z # r =>
           /\ rel'[z] = rel[z] /\ file'[z] = file[z] /\ keyfile'[z] = keyfile[z]
           /\ \A q \in Proc : temp'[q][z] = temp[q][z] /\ handle'[q][z] = handle[q][z]
  BY <1>1, <1>5, <1>6, <1>7
<1> QED BY <1>1, <1>13, <1>16, <1>17, OneRelation

LEMMA DeleteKeyStep ==
    ASSUME IInv, NEW r \in Rel, DeleteKey(r)
    PROVE  IInv'
<1>1. /\ rel[r] # Gone /\ rel[r].stage = "unlinking"
      /\ rel' = [rel EXCEPT ![r] = Gone]
      /\ UNCHANGED <<file, handle, ctx, slot, io, bad, made>>
  BY DEF DeleteKey
<1>2. /\ Typed /\ rel \in [Rel -> {Gone} \cup RelRecs] /\ handle \in [Proc -> [Rel -> Handles]]
      /\ keyfile \in [Rel -> Keys] /\ temp \in [Proc -> [Rel -> Keys]] /\ RelOK(r)
      /\ rel[r] \in RelRecs
  BY <1>1, Parts, Facts, Split
<1>3. ~Exists(r)
  BY <1>1 DEF Exists
<1>4. (\A h \in IO : io[h] # None => io[h].rel # r) /\ file[r] = NoFile
  BY <1>3, Idle
<1>5. /\ rel' \in [Rel -> {Gone} \cup RelRecs] /\ rel'[r] = Gone
      /\ \A z \in Rel : z # r => rel'[z] = rel[z]
  BY <1>1, <1>2
<1>6. PICK o \in Proc : o = rel[r].owner
  BY <1>2 DEF RelRecs
<1>7. /\ keyfile' \in [Rel -> Keys] /\ \A z \in Rel : z # r => keyfile'[z] = keyfile[z]
      /\ temp' \in [Proc -> [Rel -> Keys]]
      /\ \A q \in Proc, z \in Rel : z # r => temp'[q][z] = temp[q][z]
      /\ \A q \in Proc : temp'[q][r] = None
  <2>1. \A q \in Proc : temp[q][r] # None => rel[r].kind = "temp" /\ o = q
    BY <1>2, <1>6 DEF RelOK, KeyOwned
  <2>2. None \in Keys
    BY DEF Keys
  <2>3. CASE rel[r].kind = "temp"
    <3>1. temp' = [temp EXCEPT ![o][r] = None] /\ keyfile' = keyfile
      BY <1>6, <2>3 DEF DeleteKey, FreeTemp
    <3> QED BY <1>2, <2>1, <2>2, <3>1
  <2>4. CASE rel[r].kind # "temp"
    <3>1. temp' = temp /\ keyfile' = [keyfile EXCEPT ![r] = None]
      BY <2>4 DEF DeleteKey
    <3> QED BY <1>2, <2>1, <2>2, <2>4, <3>1
  <2> QED BY <2>3, <2>4
<1>8. ~Exists(r)'
  BY <1>5 DEF Exists, Gone
<1>9. NoLeftover(r)' /\ BlockOpens(r)'
  BY <1>1, <1>4, EmptyOpens
<1>10. ClosedIsUnknown(r)'
  BY <1>1, <1>2 DEF RelOK, ClosedIsUnknown, Unknown
<1>11. IsCurrent(r)' /\ KeyOwned(r)'
  BY <1>7, <1>8 DEF IsCurrent, KeyOwned
<1>12. RelOK(r)'
  BY <1>9, <1>10, <1>11 DEF RelOK
<1>13. /\ \A z \in Rel, f \in Fork : Len(file'[z][f]) <= MaxBlocks
       /\ made' \subseteq Key /\ file' \in [Rel -> [Fork -> Seq(Pages)]]
  BY <1>1, <1>2 DEF Typed, TypeOK
<1>14. Typed'
  BY <1>1, <1>2, <1>5, <1>7, <1>13, TypedNext
<1>15. \A z \in Rel : z # r =>
           /\ rel'[z] = rel[z] /\ file'[z] = file[z] /\ keyfile'[z] = keyfile[z]
           /\ \A q \in Proc : temp'[q][z] = temp[q][z] /\ handle'[q][z] = handle[q][z]
  BY <1>1, <1>5, <1>7
<1> QED BY <1>1, <1>4, <1>12, <1>14, <1>15, OneRelation

LEMMA DropDatabaseStep ==
    ASSUME IInv, NEW r \in Rel, DropDatabase(r)
    PROVE  IInv'
<1>1. /\ Exists(r) /\ rel[r].kind # "temp"
      /\ \A h \in IO : io[h] # None => io[h].rel # r
      /\ rel' = [rel EXCEPT ![r] = Gone]
      /\ file' = [file EXCEPT ![r] = NoFile]
      /\ handle' = [p \in Proc |-> [handle[p] EXCEPT ![r] = Unknown]]
      /\ UNCHANGED <<keyfile, temp, ctx, slot, io, bad, made>>
  BY DEF DropDatabase, Close
<1>2. /\ Typed /\ rel \in [Rel -> {Gone} \cup RelRecs] /\ handle \in [Proc -> [Rel -> Handles]]
      /\ keyfile \in [Rel -> Keys] /\ temp \in [Proc -> [Rel -> Keys]] /\ RelOK(r)
      /\ file \in [Rel -> [Fork -> Seq(Pages)]]
  BY Parts, Facts, Split DEF Typed
<1>3. /\ rel' \in [Rel -> {Gone} \cup RelRecs] /\ rel'[r] = Gone
      /\ \A z \in Rel : z # r => rel'[z] = rel[z]
  BY <1>1, <1>2
<1>4. /\ handle' \in [Proc -> [Rel -> Handles]]
      /\ \A q \in Proc : handle'[q][r] = Unknown
      /\ \A q \in Proc, z \in Rel : z # r => handle'[q][z] = handle[q][z]
  BY <1>1, <1>2, UnknownFacts
<1>5. /\ file' \in [Rel -> [Fork -> Seq(Pages)]] /\ file'[r] = NoFile
      /\ \A z \in Rel : z # r => file'[z] = file[z]
  <2>1. NoFile \in [Fork -> Seq(Pages)]
    BY DEF NoFile
  <2> QED BY <1>1, <1>2, <2>1
<1>6. ~Exists(r)'
  BY <1>3 DEF Exists, Gone
<1>7. NoLeftover(r)' /\ BlockOpens(r)'
  BY <1>5, EmptyOpens
<1>8. ClosedIsUnknown(r)' /\ IsCurrent(r)'
  BY <1>4, <1>6 DEF ClosedIsUnknown, IsCurrent, Unknown
<1>9. KeyOwned(r)'
  BY <1>1, <1>2 DEF RelOK, KeyOwned
<1>10. RelOK(r)'
  BY <1>7, <1>8, <1>9 DEF RelOK
<1>11. \A z \in Rel, f \in Fork : Len(file'[z][f]) <= MaxBlocks
  <2> TAKE z \in Rel, f \in Fork
  <2>1. CASE z # r
    BY <1>2, <1>5, <2>1 DEF Typed, TypeOK
  <2>2. CASE z = r
    BY <1>5, <2>2, PageIOAssumption DEF NoFile
  <2> QED BY <2>1, <2>2
<1>12. made' \subseteq Key
  BY <1>1, <1>2 DEF Typed, TypeOK
<1>13. Typed'
  BY <1>1, <1>2, <1>3, <1>4, <1>5, <1>11, <1>12, TypedNext
<1>14. \A z \in Rel : z # r =>
           /\ rel'[z] = rel[z] /\ file'[z] = file[z] /\ keyfile'[z] = keyfile[z]
           /\ \A q \in Proc : temp'[q][z] = temp[q][z] /\ handle'[q][z] = handle[q][z]
  BY <1>1, <1>3, <1>4, <1>5
<1> QED BY <1>1, <1>10, <1>13, <1>14, OneRelation

-----------------------------------------------------------------------------
(* A restart.                                                              *)

\* Relations that a restart keeps.
Kept(r) == rel[r] # Gone /\ rel[r].kind # "temp" /\ rel[r].stage = "live"

\* A block of the init fork is right in the main fork.
LEMMA Copied ==
    ASSUME NEW k, NEW b
    PROVE  Written(k, "init", b) = Written(k, "main", b)
BY DEF Written, Page, Tweak

LEMMA RestartFile ==
    ASSUME IInv, Restart, NEW r \in Rel
    PROVE  /\ Kept(r) => rel'[r] = rel[r]
           /\ ~Kept(r) => rel'[r] = Gone /\ file'[r] = NoFile
           /\ file'[r] \in [Fork -> Seq(Pages)]
           /\ \A f \in Fork : Len(file'[r][f]) <= MaxBlocks
           /\ Kept(r) => \A f \in Fork :
                             file'[r][f] = file[r][f] \/ (f = "main" /\ file'[r][f] = file[r]["init"])
<1>1. /\ rel'[r] = IF Kept(r) THEN rel[r] ELSE Gone
      /\ file'[r] = IF ~Kept(r) THEN NoFile
                    ELSE IF rel[r].kind = "unlogged"
                    THEN [file[r] EXCEPT !["main"] = file[r]["init"]]
                    ELSE file[r]
  BY DEF Restart, Kept
<1>2. /\ file[r] \in [Fork -> Seq(Pages)]
      /\ \A f \in Fork : Len(file[r][f]) <= MaxBlocks
      /\ "main" \in Fork /\ "init" \in Fork
  BY Parts DEF Typed, TypeOK, Fork
<1>3. CASE ~Kept(r)
  BY <1>1, <1>3, PageIOAssumption DEF NoFile
<1>4. CASE Kept(r) /\ rel[r].kind = "unlogged"
  BY <1>1, <1>2, <1>4
<1>5. CASE Kept(r) /\ rel[r].kind # "unlogged"
  BY <1>1, <1>2, <1>5
<1> QED BY <1>3, <1>4, <1>5

LEMMA RestartStep ==
    ASSUME IInv, Restart
    PROVE  IInv'
<1>1. /\ temp' = [p \in Proc |-> [r \in Rel |-> None]]
      /\ handle' = [p \in Proc |-> [r \in Rel |-> Unknown]]
      /\ ctx' = [p \in Proc |-> NoCtx]
      /\ slot' = [h \in IO |-> None]
      /\ io' = [h \in IO |-> None]
      /\ UNCHANGED <<keyfile, bad, made>>
      /\ rel' = [r \in Rel |-> rel'[r]] /\ file' = [r \in Rel |-> file'[r]]
  <2>1. rel' = [r \in Rel |-> rel'[r]] /\ file' = [r \in Rel |-> file'[r]]
    BY DEF Restart
  <2> QED BY <2>1 DEF Restart
<1>2. /\ Typed /\ keyfile \in [Rel -> Keys] /\ made \subseteq Key
      /\ rel \in [Rel -> {Gone} \cup RelRecs]
  BY Parts, Facts DEF Typed, TypeOK
<1>3. /\ rel' \in [Rel -> {Gone} \cup RelRecs] /\ file' \in [Rel -> [Fork -> Seq(Pages)]]
      /\ \A r \in Rel, f \in Fork : Len(file'[r][f]) <= MaxBlocks
  <2>1. \A r \in Rel : rel'[r] \in {Gone} \cup RelRecs
    BY <1>2, RestartFile
  <2>2. \A r \in Rel : file'[r] \in [Fork -> Seq(Pages)]
    BY RestartFile
  <2> QED BY <1>1, <2>1, <2>2, RestartFile
<1>4. Typed'
  <2>1. temp' \in [Proc -> [Rel -> Keys]] /\ slot' \in [IO -> Keys]
    BY <1>1 DEF Keys
  <2>2. handle' \in [Proc -> [Rel -> Handles]]
    BY <1>1, UnknownFacts
  <2>3. ctx' \in [Proc -> [key : Keys, enc : BOOLEAN]]
    BY <1>1 DEF NoCtx, Keys
  <2>4. io' \in [IO -> Reads \cup {None}] /\ \A h \in IO : io'[h] = None
    BY <1>1
  <2> QED BY <1>1, <1>2, <1>3, <2>1, <2>2, <2>3, <2>4
          DEF Typed, TypeOK, RelRecs, Kinds, Handles, Reads
<1>5. ASSUME NEW r \in Rel PROVE RelOK(r)'
  <2>1. /\ \A p \in Proc : handle'[p][r] = Unknown /\ temp'[p][r] = None
    BY <1>1
  <2>2. ClosedIsUnknown(r)' /\ IsCurrent(r)' /\ KeyOwned(r)'
    BY <2>1, UnknownFacts DEF ClosedIsUnknown, IsCurrent, KeyOwned, Unknown
  <2>3. CASE ~Kept(r)
    <3>1. NoLeftover(r)' /\ BlockOpens(r)'
      BY <2>3, RestartFile, EmptyOpens
    <3> QED BY <2>2, <3>1 DEF RelOK
  <2>4. CASE Kept(r)
    <3>1. /\ rel'[r] = rel[r] /\ rel[r].kind # "temp" /\ Exists(r) /\ Exists(r)'
      BY <2>4, RestartFile DEF Kept, Exists, Gone
    <3>2. StoredKey(r) = keyfile[r] /\ StoredKey(r)' = keyfile[r]
      BY <1>1, <3>1 DEF StoredKey
    <3>3. NoLeftover(r)'
      BY <3>1 DEF NoLeftover
    <3>4. BlockOpens(r)'
      <4> SUFFICES ASSUME NEW f \in Fork, NEW i \in DOMAIN file'[r][f]
                   PROVE  (file[r][f][i] = Zero \/ file[r][f][i] = Written(StoredKey(r), f, i - 1))'
        BY DEF BlockOpens
      <4>1. file'[r][f][i] = Zero \/ file'[r][f][i] = Written(keyfile[r], f, i - 1)
        <5>1. CASE file'[r][f] = file[r][f]
          BY <3>1, <3>2, <5>1, Stored
        <5>2. CASE f = "main" /\ file'[r][f] = file[r]["init"]
          <6>1. "init" \in Fork
            BY DEF Fork
          <6>2. file'[r][f][i] = Zero \/ file'[r][f][i] = Written(keyfile[r], "init", i - 1)
            BY <3>1, <3>2, <5>2, <6>1, Stored
          <6> QED BY <5>2, <6>2, Copied
        <5> QED BY <2>4, <5>1, <5>2, RestartFile
      <4> QED BY <3>2, <4>1 DEF Written, Zero, Page, Tweak
    <3> QED BY <2>2, <3>3, <3>4 DEF RelOK
  <2> QED BY <2>3, <2>4
<1>6. AllOK'
  BY <1>5 DEF AllOK
<1>7. NoLeftovers' /\ ClosedUnknown' /\ StoredKeyOpens' /\ Current' /\ TempKeysOwned'
  BY <1>6, Collected, PTL
<1>8. ReadsCurrent' /\ NoneBad'
  BY <1>1 DEF ReadsCurrent, IInv, NoneBad, ReadsRight
<1> QED BY <1>4, <1>7, <1>8, Whole

-----------------------------------------------------------------------------
(* The invariant, and what follows from it.                                *)

LEMMA InitIInv == Init => IInv
<1> SUFFICES ASSUME Init PROVE IInv
  OBVIOUS
<1>1. /\ rel = [r \in Rel |-> Gone] /\ file = [r \in Rel |-> NoFile]
      /\ temp = [p \in Proc |-> [r \in Rel |-> None]]
      /\ handle = [p \in Proc |-> [r \in Rel |-> Unknown]]
      /\ ctx = [p \in Proc |-> NoCtx] /\ slot = [h \in IO |-> None]
      /\ io = [h \in IO |-> None] /\ bad = {}
  BY DEF Init
<1>2. keyfile \in [Rel -> Keys] /\ made \subseteq Key
  BY DEF Init, Keys
<1>3. Typed
  <2>1. temp \in [Proc -> [Rel -> Keys]] /\ slot \in [IO -> Keys]
    BY <1>1 DEF Keys
  <2>2. handle \in [Proc -> [Rel -> Handles]]
    BY <1>1, UnknownFacts
  <2>3. ctx \in [Proc -> [key : Keys, enc : BOOLEAN]]
    BY <1>1 DEF NoCtx, Keys
  <2>4. io \in [IO -> Reads \cup {None}] /\ \A h \in IO : io[h] = None
    BY <1>1
  <2>5. NoFile \in [Fork -> Seq(Pages)] /\ \A f \in Fork : Len(NoFile[f]) = 0
    BY DEF NoFile
  <2>6. /\ file \in [Rel -> [Fork -> Seq(Pages)]]
        /\ \A r \in Rel, f \in Fork : Len(file[r][f]) <= MaxBlocks
    BY <1>1, <2>5, PageIOAssumption
  <2>7. rel \in [Rel -> {Gone} \cup RelRecs]
    BY <1>1
  <2> QED BY <1>2, <2>1, <2>2, <2>3, <2>4, <2>6, <2>7
          DEF Typed, TypeOK, RelRecs, Kinds, Handles
<1>4. \A r \in Rel : ~Exists(r)
  BY <1>1 DEF Exists
<1>5. NoLeftovers /\ StoredKeyOpens /\ TempKeysOwned
  BY <1>1, <1>4 DEF NoLeftovers, StoredKeyOpens, TempKeysOwned
<1>6. ClosedUnknown /\ HandlesCurrent
  BY <1>1, <1>3, <1>4 DEF ClosedUnknown, HandlesCurrent, Typed
<1>7. ReadsCurrent /\ NoneBad
  BY <1>1 DEF ReadsCurrent, NoneBad, ReadsRight
<1> QED BY <1>3, <1>5, <1>6, <1>7 DEF IInv

LEMMA StutterStep ==
    ASSUME IInv, UNCHANGED vars
    PROVE  IInv'
<1>1. UNCHANGED <<rel, file, keyfile, temp, handle, ctx, slot, io, bad, made>>
  BY DEF vars
<1>2. /\ handle \in [Proc -> [Rel -> Handles]] /\ ctx \in [Proc -> [key : Keys, enc : BOOLEAN]]
      /\ slot \in [IO -> Keys] /\ io \in [IO -> Reads \cup {None}]
      /\ ClosedUnknown /\ Current /\ ReadsCurrent /\ NoneBad
  BY Parts, Facts DEF Typed, TypeOK
<1>3. ClosedUnknown' /\ Current'
  <2>1. UNCHANGED <<rel, keyfile, temp, handle>>
    BY <1>1
  <2>2. ClosedUnknown /\ Current
    BY <1>2
  <2> QED BY <2>1, <2>2 DEF ClosedUnknown, Current, Exists, StoredKey
<1>4. ReadsCurrent' /\ NoneBad'
  BY <1>1, <1>2 DEF ReadsCurrent, NoneBad, ReadsRight, Exists, StoredKey
<1> QED BY <1>1, <1>2, <1>3, <1>4, SameRelations

LEMMA NextIInv == IInv /\ [Next]_vars => IInv'
<1> SUFFICES ASSUME IInv, [Next]_vars PROVE IInv'
  OBVIOUS
<1>1. ASSUME NEW p \in Proc, NEW r \in Rel, NEW kind \in {"perm", "unlogged", "temp"},
             NEW k \in (Key \ made) \cup {None}, Create(p, r, kind, k)
      PROVE  IInv'
  <2>1. kind \in Kinds /\ k \in Keys
    BY DEF Kinds, Keys
  <2> QED BY <1>1, <2>1, CreateStep
<1>2. ASSUME NEW p \in Proc, NEW r \in Rel,
             CreateInUpgrade(p, r) \/ Unlink(p, r) \/ Release(p, r) \/ ZeroExtend(p, r)
      PROVE  IInv'
  BY <1>2, CreateInUpgradeStep, UnlinkStep, ReleaseStep, ZeroExtendStep
<1>3. ASSUME NEW p \in Proc, NEW r \in Rel, NEW f \in Fork, Extend(p, r, f)
      PROVE  IInv'
  BY <1>3, ExtendStep
<1>4. ASSUME NEW p \in Proc, NEW r \in Rel, NEW f \in Fork, NEW b \in 0 .. MaxBlocks - 1,
             NEW n \in 1 .. MaxBlocks,
             \/ Writev(p, r, f, b, n) \/ Readv(p, r, f, b, n)
             \/ \E h \in IO, opened \in BOOLEAN : StartReadv(p, h, r, f, b, n, opened)
      PROVE  IInv'
  <2>1. b \in Nat /\ n \in Nat
    BY PageIOAssumption
  <2> QED BY <1>4, <2>1, WriteStep, ReadStep, StartReadStep
<1>5. ASSUME NEW r \in Rel, Commit(r) \/ DeleteKey(r) \/ DropDatabase(r)
      PROVE  IInv'
  BY <1>5, CommitStep, DeleteKeyStep, DropDatabaseStep
<1>6. ASSUME NEW p \in Proc, NEW h \in IO, NEW result \in 0 .. MaxBlocks, Complete(p, h, result)
      PROVE  IInv'
  <2>1. result \in Nat
    BY PageIOAssumption
  <2> QED BY <1>6, <2>1, CompleteStep
<1>7. CASE Restart
  BY <1>7, RestartStep
<1>8. CASE UNCHANGED vars
  BY <1>8, StutterStep
<1> QED BY <1>1, <1>2, <1>3, <1>4, <1>5, <1>6, <1>7, <1>8 DEF Next

\* Every block of every relation can be read with the key that is stored for
\* the relation: tde_mdwritev() and tde_mdextend() never use another, whatever
\* processes, crashes and reuses of file numbers came before.
THEOREM BlocksAlwaysOpen == Spec => []StoredKeyOpens
<1>1. IInv => StoredKeyOpens
  BY DEF IInv
<1> QED BY <1>1, InitIInv, NextIInv, PTL DEF Spec

\* No SMgrRelation keeps the key of an earlier relation with the same number.
THEOREM HandlesAlwaysCurrent == Spec => []HandlesCurrent
<1>1. IInv => HandlesCurrent
  BY DEF IInv
<1> QED BY <1>1, InitIInv, NextIInv, PTL DEF Spec

\* The Assert in tde_smgr_save_temp_key() holds: an entry of TempRelKeys
\* belongs to a temporary relation of the process.
THEOREM TempKeysAlwaysOwned == Spec => []TempKeysOwned
<1>1. IInv => TempKeysOwned
  BY DEF IInv
<1> QED BY <1>1, InitIInv, NextIInv, PTL DEF Spec

\* No read, synchronous or completed by tde_readv_complete() in any process,
\* gives the buffer manager a block that is not decrypted, as long as no
\* asynchronous read returns fewer blocks than asked: the callback does not
\* decrypt those.
THEOREM ReadsAlwaysRight == Spec /\ ShortReads = FALSE => []ReadsRight
<1>1. IInv /\ ShortReads = FALSE => ReadsRight
  BY DEF IInv, NoneBad
<1>2. ShortReads = FALSE /\ [Next]_vars => (ShortReads = FALSE)'
  OBVIOUS
<1> QED BY <1>1, <1>2, InitIInv, NextIInv, PTL DEF Spec

-------------------------------------------------------------
(* The bytes of a range: its keystream in batches.                         *)

\* Division as the code uses it.
LEMMA Division ==
    ASSUME NEW a \in Nat, NEW d \in Nat \ {0}
    PROVE  /\ a \div d \in Nat
           /\ a % d \in 0 .. d - 1
           /\ a = (a \div d) * d + (a % d)
  OBVIOUS

\* XLogSegmentOffset() of a location gives back the offset in its segment.
LEMMA OffsetInSegment ==
    ASSUME NEW q \in Nat, NEW d \in Nat \ {0}, NEW x \in 0 .. d - 1
    PROVE  (q * d + x) % d = x
<1> DEFINE a == q * d + x
           p == a \div d
           y == a % d
<1>1. q * d \in Nat /\ a \in Nat
  OBVIOUS
<1>2. a = q * d + x
  OBVIOUS
<1> HIDE DEF a
<1>3. /\ p \in Nat /\ y \in 0 .. d - 1 /\ a = p * d + y
  BY <1>1, Division
<1> HIDE DEF p, y
<1>4. ASSUME p < q PROVE FALSE
  <2>1. (p + 1) * d <= q * d
    BY <1>3, <1>4
  <2>2. (p + 1) * d = p * d + d
    BY <1>3
  <2>3. p * d \in Nat
    BY <1>3
  <2> QED BY <1>1, <1>2, <1>3, <2>1, <2>2, <2>3
<1>5. ASSUME q < p PROVE FALSE
  <2>1. (q + 1) * d <= p * d
    BY <1>3, <1>5
  <2>2. (q + 1) * d = q * d + d
    OBVIOUS
  <2>3. p * d \in Nat
    BY <1>3
  <2> QED BY <1>1, <1>2, <1>3, <2>1, <2>2, <2>3
<1>6. p = q
  BY <1>3, <1>4, <1>5
<1>7. y = x
  BY <1>1, <1>2, <1>3, <1>6
<1> QED BY <1>2, <1>7 DEF y

\* The blocks of a buffer: its first byte is in the first, its last before the end.
LEMMA BlocksOfBuffer ==
    ASSUME NEW off \in Nat, NEW len \in Nat
    PROVE  /\ StartBlock(off) \in Nat /\ EndBlock(off, len) \in Nat
           /\ off % AesBlock \in 0 .. AesBlock - 1
           /\ off = StartBlock(off) * AesBlock + (off % AesBlock)
           /\ off + len <= EndBlock(off, len) * AesBlock
           /\ StartBlock(off) <= EndBlock(off, len)
<1> DEFINE w == off + len + (AesBlock - 1)
           f == StartBlock(off)
           l == EndBlock(off, len)
<1>1. w \in Nat /\ AesBlock \in Nat \ {0}
  BY WalCryptAssumption
<1>2. f \in Nat /\ off % AesBlock \in 0 .. AesBlock - 1 /\ off = f * AesBlock + (off % AesBlock)
  BY <1>1, Division DEF StartBlock
<1>3. l \in Nat /\ w % AesBlock \in 0 .. AesBlock - 1 /\ w = l * AesBlock + (w % AesBlock)
  <2> HIDE DEF w
  <2>1. l = w \div AesBlock
    BY DEF EndBlock, w
  <2> QED BY <1>1, <2>1, Division
<1> HIDE DEF f, l
<1>4. f * AesBlock \in Nat /\ l * AesBlock \in Nat
  BY <1>1, <1>2, <1>3
<1>5. off + len <= l * AesBlock
  BY <1>1, <1>3, <1>4
<1>6. ASSUME l < f PROVE FALSE
  <2>1. (l + 1) * AesBlock <= f * AesBlock
    BY <1>1, <1>2, <1>3, <1>6
  <2>2. (l + 1) * AesBlock = l * AesBlock + AesBlock
    BY <1>1, <1>3
  <2> QED BY <1>1, <1>2, <1>4, <1>5, <2>1, <2>2
<1> QED BY <1>2, <1>3, <1>5, <1>6 DEF f, l

\* data_index after i batches: as many bytes as their blocks have, less those before
\* the offset in the first one.
DoneLen(off, len, i) == IF i = 0 THEN 0 ELSE Lesser(len, (i * Batch) * AesBlock - (off % AesBlock))

LEMMA DoneLenType ==
    ASSUME NEW off \in Nat, NEW len \in Nat, NEW i \in Nat
    PROVE  DoneLen(off, len, i) \in 0 .. len
<1> DEFINE m == off % AesBlock
<1>1. m \in 0 .. AesBlock - 1 /\ AesBlock \in Nat \ {0} /\ Batch \in Nat \ {0}
  BY BlocksOfBuffer, WalCryptAssumption
<1> HIDE DEF m
<1>2. CASE i = 0
  BY <1>2 DEF DoneLen
<1>3. CASE i # 0
  <2> DEFINE n == i * Batch
  <2>1. n \in Nat /\ 1 <= n
    BY <1>1, <1>3
  <2> HIDE DEF n
  <2>2. AesBlock <= n * AesBlock /\ n * AesBlock \in Nat
    BY <1>1, <2>1
  <2>3. DoneLen(off, len, i) = Lesser(len, n * AesBlock - m)
    BY <1>3 DEF DoneLen, n, m
  <2> QED BY <1>1, <2>2, <2>3 DEF Lesser
<1> QED BY <1>2, <1>3

\* When no batch is left, all bytes are done.
LEMMA AllDone ==
    ASSUME NEW off \in Nat, NEW len \in Nat, NEW i \in Nat,
           FromBlock(off, i) >= EndBlock(off, len)
    PROVE  DoneLen(off, len, i) = len
<1> DEFINE f == StartBlock(off)
           l == EndBlock(off, len)
           m == off % AesBlock
           n == i * Batch
<1>1. /\ f \in Nat /\ l \in Nat /\ m \in 0 .. AesBlock - 1 /\ off = f * AesBlock + m
      /\ off + len <= l * AesBlock /\ f <= l
  BY BlocksOfBuffer
<1>2. AesBlock \in Nat \ {0} /\ Batch \in Nat \ {0}
  BY WalCryptAssumption
<1>3. n \in Nat /\ l <= f + n
  BY <1>1, <1>2 DEF FromBlock
<1>4. i = 0 => n = 0
  BY <1>2
<1>5. DoneLen(off, len, i) = IF i = 0 THEN 0 ELSE Lesser(len, n * AesBlock - m)
  BY DEF DoneLen
<1> HIDE DEF f, l, m, n
<1>6. l * AesBlock <= (f + n) * AesBlock
  BY <1>1, <1>2, <1>3
<1>7. (f + n) * AesBlock = f * AesBlock + n * AesBlock
  BY <1>1, <1>2, <1>3
<1>8. l * AesBlock \in Nat /\ f * AesBlock \in Nat /\ n * AesBlock \in Nat
  BY <1>1, <1>2, <1>3
<1>9. len <= n * AesBlock - m
  BY <1>1, <1>6, <1>7, <1>8
<1>10. CASE i = 0
  <2>1. n * AesBlock = 0
    BY <1>2, <1>4, <1>10
  <2> QED BY <1>1, <1>5, <1>9, <1>10, <2>1
<1>11. CASE i # 0
  BY <1>1, <1>5, <1>8, <1>9, <1>11 DEF Lesser
<1> QED BY <1>10, <1>11

\* A batch goes on where the one before it has ended, in the data and in the keystream.
LEMMA BatchGoesOn ==
    ASSUME NEW off \in Nat, NEW len \in Nat, NEW i \in Nat,
           FromBlock(off, i) < EndBlock(off, len),
           NEW a, a = DoneLen(off, len, i),
           NEW n, n = BatchBytes(off, len, i, a)
    PROVE  /\ a \in Nat /\ n \in Nat /\ a + n = DoneLen(off, len, i + 1)
           /\ n > 0 => FromBlock(off, i) * AesBlock + Skip(off, i) = off + a
<1> DEFINE f == StartBlock(off)
           l == EndBlock(off, len)
           m == off % AesBlock
           s == Skip(off, i)
           g == i * Batch
           from == f + g
           upto == Lesser(from + Batch, l)
           size == (upto - from) * AesBlock - s
<1>1. /\ f \in Nat /\ l \in Nat /\ m \in 0 .. AesBlock - 1 /\ off = f * AesBlock + m
      /\ off + len <= l * AesBlock /\ f <= l
  BY BlocksOfBuffer
<1>2. from < l
  BY DEF FromBlock
<1>3. AesBlock \in Nat \ {0} /\ Batch \in Nat \ {0}
  BY WalCryptAssumption
<1>4. a \in 0 .. len /\ DoneLen(off, len, i + 1) \in 0 .. len
  <2>1. i + 1 \in Nat
    OBVIOUS
  <2> QED BY <2>1, DoneLenType
<1>5. s = IF i > 0 THEN 0 ELSE m
  BY DEF Skip
<1>6. a = IF i = 0 THEN 0 ELSE Lesser(len, g * AesBlock - m)
  BY DEF DoneLen
<1>7. DoneLen(off, len, i + 1) = Lesser(len, (g + Batch) * AesBlock - m)
  <2>1. (i + 1) * Batch = g + Batch /\ i + 1 # 0
    BY <1>3
  <2> QED BY <2>1 DEF DoneLen
<1>8. g \in Nat
  BY <1>3
<1>9. n = Lesser(size, len - a)
  BY DEF BatchBytes, UptoBlock, FromBlock
<1>10. FromBlock(off, i) = from
  BY DEF FromBlock
<1> HIDE DEF f, l, m, s, g
<1>11. upto \in Nat /\ from \in Nat /\ from < upto /\ upto <= l /\ upto <= from + Batch
  BY <1>1, <1>2, <1>3, <1>8 DEF Lesser
<1>12. /\ f * AesBlock \in Nat /\ g * AesBlock \in Nat /\ l * AesBlock \in Nat
       /\ from * AesBlock = f * AesBlock + g * AesBlock
       /\ (g + Batch) * AesBlock = g * AesBlock + Batch * AesBlock
       /\ Batch * AesBlock \in Nat
  BY <1>1, <1>3, <1>8
<1>13. \/ upto = from + Batch /\ (upto - from) * AesBlock = Batch * AesBlock
       \/ upto = l /\ l <= from + Batch
            /\ (upto - from) * AesBlock = l * AesBlock - f * AesBlock - g * AesBlock
            /\ l * AesBlock <= f * AesBlock + g * AesBlock + Batch * AesBlock
  <2>1. CASE upto = from + Batch
    BY <1>3, <1>11, <2>1
  <2>2. CASE upto = l /\ l <= from + Batch
    <3>1. (l - from) * AesBlock = l * AesBlock - from * AesBlock
      BY <1>1, <1>3, <1>11
    <3>2. l * AesBlock <= (from + Batch) * AesBlock
      BY <1>1, <1>3, <1>11, <2>2
    <3>3. (from + Batch) * AesBlock = from * AesBlock + Batch * AesBlock
      BY <1>3, <1>11
    <3>4. (upto - from) * AesBlock = l * AesBlock - f * AesBlock - g * AesBlock
      BY <1>12, <2>2, <3>1
    <3>5. l * AesBlock <= f * AesBlock + g * AesBlock + Batch * AesBlock
      BY <1>12, <3>2, <3>3
    <3> HIDE DEF upto, from
    <3> QED BY <2>2, <3>4, <3>5
  <2>3. upto = from + Batch \/ (upto = l /\ l <= from + Batch)
    BY <1>1, <1>3, <1>11 DEF Lesser
  <2> QED BY <2>1, <2>2, <2>3
<1>14. AesBlock <= (upto - from) * AesBlock /\ (upto - from) * AesBlock \in Nat
  <2>1. upto - from \in Nat /\ 1 <= upto - from
    BY <1>11
  <2> HIDE DEF upto, from
  <2> QED BY <1>3, <2>1
<1>15. i = 0 => g = 0
  BY <1>3 DEF g
<1> HIDE DEF from, upto
<1> DEFINE fA == f * AesBlock
           gA == g * AesBlock
           lA == l * AesBlock
           bA == Batch * AesBlock
           uA == (upto - from) * AesBlock
           oA == from * AesBlock
           dA == (g + Batch) * AesBlock
<1>16. /\ off = fA + m /\ off + len <= lA
       /\ fA \in Nat /\ gA \in Nat /\ lA \in Nat /\ bA \in Nat /\ oA = fA + gA /\ dA = gA + bA
       /\ uA = bA \/ (uA = lA - fA - gA /\ lA <= fA + gA + bA)
       /\ AesBlock <= uA /\ uA \in Nat
       /\ n = Lesser(uA - s, len - a)
       /\ DoneLen(off, len, i + 1) = Lesser(len, dA - m)
       /\ a = IF i = 0 THEN 0 ELSE Lesser(len, gA - m)
       /\ i = 0 => gA = 0
       /\ uA <= bA
  <2>1. i = 0 => gA = 0
    BY <1>3, <1>15
  <2>2. uA <= bA
    BY <1>12, <1>13
  <2> QED BY <1>1, <1>6, <1>7, <1>9, <1>12, <1>13, <1>14, <2>1, <2>2
<1>17. n \in Nat
  <2> HIDE DEF fA, gA, lA, bA, uA, oA, dA
  <2> QED BY <1>1, <1>2, <1>3, <1>4, <1>5, <1>16 DEF Lesser
<1>18. a + n = DoneLen(off, len, i + 1)
  <2> HIDE DEF fA, gA, lA, bA, uA, oA, dA
  <2>1. CASE i = 0
    BY <1>1, <1>2, <1>3, <1>4, <1>5, <1>16, <2>1 DEF Lesser
  <2>2. CASE i # 0 /\ a = len
    BY <1>1, <1>2, <1>3, <1>4, <1>5, <1>16, <2>2 DEF Lesser
  <2>3. CASE i # 0 /\ a # len
    BY <1>1, <1>2, <1>3, <1>4, <1>5, <1>16, <2>3 DEF Lesser
  <2> QED BY <2>1, <2>2, <2>3
<1>19. n > 0 => oA + s = off + a
  <2> HIDE DEF fA, gA, lA, bA, uA, oA, dA
  <2> QED BY <1>1, <1>2, <1>3, <1>4, <1>5, <1>16 DEF Lesser
<1>20. n > 0 => FromBlock(off, i) * AesBlock + Skip(off, i) = off + a
  BY <1>10, <1>19 DEF s
<1>21. a \in Nat
  BY <1>4
<1> QED BY <1>17, <1>18, <1>20, <1>21

-----------------------------------------------------------------------------
(* The bytes of a range: the inductive invariant.                          *)

Bytes == job.off .. job.off + job.count - 1

\* The ranges whose keystreams byte o was combined with.
Done(o) ==
    {k \in 1 .. cur - 1 : Holds(k, o)}
    \cup (IF crypting /\ o \in DecOff .. DecOff + dataIndex - 1 THEN {cur} ELSE {})

CryptInv ==
    /\ job \in Jobs /\ cur \in 1 .. Len(job.keys) + 1 /\ crypting \in BOOLEAN
    /\ batchNo \in Nat
    /\ crypting => /\ cur \in DOMAIN job.keys /\ Applies /\ Overlaps
                   /\ dataIndex = DoneLen(DecOff, DecSize, batchNo)
    /\ buf = [o \in Bytes |-> {<<i, o>> : i \in Done(o)}]

\* What WalCryptAssumption says of the call.
LEMMA JobFacts ==
    ASSUME job \in Jobs
    PROVE  /\ SegSize \in Nat \ {0} /\ job.seg * SegSize \in Nat
           /\ job.tli \in Nat /\ job.seg \in Nat /\ job.off \in Nat /\ job.count \in Nat \ {0}
           /\ job.off + job.count <= SegSize
           /\ Len(job.keys) \in Nat /\ DOMAIN job.keys = 1 .. Len(job.keys)
           /\ \A i \in DOMAIN job.keys :
                  /\ job.keys[i].start \in Locations /\ job.keys[i].end \in Locations
                  /\ job.keys[i].encrypted /\ Valid(job.keys[i].start)
                         => Before(job.keys[i].start, job.keys[i].end)
<1> DEFINE KeyRecs == [start : Locations, end : Locations, encrypted : BOOLEAN]
<1>1. /\ SegSize \in Nat \ {0}
      /\ job.tli \in Nat /\ job.seg \in Nat /\ job.off \in Nat /\ job.count \in Nat \ {0}
      /\ job.off + job.count <= SegSize
      /\ job.keys \in Seq(KeyRecs)
      /\ \A i \in DOMAIN job.keys :
            job.keys[i].encrypted /\ Valid(job.keys[i].start)
                => Before(job.keys[i].start, job.keys[i].end)
  BY WalCryptAssumption
<1>2. job.seg * SegSize \in Nat
  BY <1>1
<1>3. Len(job.keys) \in Nat /\ DOMAIN job.keys = 1 .. Len(job.keys)
  <2> HIDE DEF KeyRecs
  <2> QED BY <1>1
<1>4. \A i \in DOMAIN job.keys : job.keys[i] \in KeyRecs
  <2> HIDE DEF KeyRecs
  <2> QED BY <1>1
<1>5. \A k \in KeyRecs : k.start \in Locations /\ k.end \in Locations
  OBVIOUS
<1> HIDE DEF KeyRecs
<1> QED BY <1>1, <1>2, <1>3, <1>4, <1>5

\* The part of the buffer that TDEXLogCryptBuffer() gives to open_pg_tde_stream_crypt()
\* are the bytes that lie in the range.
LEMMA PartInRange ==
    ASSUME job \in Jobs, cur \in DOMAIN job.keys
    PROVE  /\ Applies /\ Overlaps =>
                /\ DecOff \in Nat /\ DecSize \in Nat
                /\ job.off <= DecOff /\ DecOff + DecSize <= job.off + job.count
                /\ \A o \in Bytes : Holds(cur, o) <=> o \in DecOff .. DecOff + DecSize - 1
           /\ ~(Applies /\ Overlaps) => \A o \in Bytes : ~Holds(cur, o)
<1> DEFINE base == job.seg * SegSize
           At(o) == [tli |-> job.tli, lsn |-> base + o]
           from == Range.start
           upto == Range.end
<1>1. /\ SegSize \in Nat \ {0} /\ base \in Nat /\ job.seg \in Nat
      /\ job.tli \in Nat /\ job.off \in Nat /\ job.count \in Nat \ {0}
      /\ job.off + job.count <= SegSize
      /\ from \in Locations /\ upto \in Locations
      /\ Applies => Before(from, upto)
  BY JobFacts DEF Range, Applies
<1>2. from.tli \in Nat /\ from.lsn \in Nat /\ upto.tli \in Nat /\ upto.lsn \in Nat
  <2> HIDE DEF from, upto
  <2> QED BY <1>1 DEF Locations
<1>3. /\ DataStart.tli = job.tli /\ DataStart.lsn = base + job.off
      /\ DataEnd.tli = job.tli /\ DataEnd.lsn = base + (job.off + job.count)
  BY DEF DataStart, DataEnd
<1>4. \A o \in Bytes :
          Holds(cur, o) <=> Applies /\ ~Before(At(o), from) /\ Before(At(o), upto)
  BY DEF Holds, Applies, Range
<1>5. \A o \in Bytes : At(o).tli = job.tli /\ At(o).lsn = base + o
  OBVIOUS
<1>6. Overlaps <=> Before(DataStart, upto) /\ Before(from, DataEnd)
  BY DEF Overlaps
<1>7. /\ EndLsn = IF DataEnd.tli < upto.tli THEN DataEnd.lsn ELSE Lesser(DataEnd.lsn, upto.lsn)
      /\ StartLsn = IF DataStart.tli > from.tli THEN DataStart.lsn
                    ELSE Greater(DataStart.lsn, from.lsn)
  BY DEF EndLsn, StartLsn
<1> HIDE DEF base, At, from, upto
<1>8. ASSUME ~(Applies /\ Overlaps), NEW o \in Bytes PROVE ~Holds(cur, o)
  <2>1. CASE ~Applies
    BY <1>4, <2>1
  <2>2. CASE ~Overlaps
    BY <1>1, <1>2, <1>3, <1>4, <1>5, <1>6, <1>8, <2>2 DEF Before, Bytes
  <2> QED BY <1>8, <2>1, <2>2
<1>9. ASSUME Applies, Overlaps
      PROVE  /\ DecOff \in Nat /\ DecSize \in Nat
             /\ job.off <= DecOff /\ DecOff + DecSize <= job.off + job.count
             /\ \A o \in Bytes : Holds(cur, o) <=> o \in DecOff .. DecOff + DecSize - 1
  <2> DEFINE first == StartLsn - base
             last == EndLsn - base
  <2>1. /\ StartLsn = base + first /\ first \in job.off .. job.off + job.count - 1
        /\ EndLsn = base + last /\ last \in job.off + 1 .. job.off + job.count
        /\ first < last
    BY <1>1, <1>2, <1>3, <1>6, <1>7, <1>9 DEF Before, Lesser, Greater
  <2>2. ASSUME NEW o \in Bytes
        PROVE  /\ ~Before(At(o), from) <=> first <= o
               /\ Before(At(o), upto) <=> o < last
    BY <1>1, <1>2, <1>3, <1>5, <1>6, <1>7, <1>9, <2>2 DEF Before, Lesser, Greater, Bytes
  <2> HIDE DEF first, last
  <2>3. DecOff = first
    <3>1. first \in 0 .. SegSize - 1
      BY <1>1, <2>1
    <3>2. (job.seg * SegSize + first) % SegSize = first
      BY <1>1, <3>1, OffsetInSegment
    <3> QED BY <2>1, <3>2 DEF DecOff, base
  <2>4. DecEnd = last
    <3>1. CASE last < SegSize
      <4>1. last \in 0 .. SegSize - 1 /\ last # 0
        BY <1>1, <2>1, <3>1
      <4>2. (job.seg * SegSize + last) % SegSize = last
        BY <1>1, <4>1, OffsetInSegment
      <4> QED BY <2>1, <4>1, <4>2 DEF DecEnd, base
    <3>2. CASE last = SegSize
      <4>1. EndLsn = (job.seg + 1) * SegSize + 0
        BY <1>1, <2>1, <3>2 DEF base
      <4>2. EndLsn % SegSize = 0
        <5>1. job.seg + 1 \in Nat /\ 0 \in 0 .. SegSize - 1
          BY <1>1
        <5> QED BY <1>1, <4>1, <5>1, OffsetInSegment
      <4> QED BY <1>1, <2>1, <3>2, <4>2 DEF DecEnd
    <3> QED BY <1>1, <2>1, <3>1, <3>2
  <2>5. DecSize = last - first
    BY <2>3, <2>4 DEF DecSize
  <2>6. \A o \in Bytes : Holds(cur, o) <=> first <= o /\ o < last
    BY <1>4, <1>9, <2>2
  <2>7. Bytes \subseteq Int
    BY <1>1 DEF Bytes
  <2> QED BY <1>1, <2>1, <2>3, <2>5, <2>6, <2>7
<1> QED BY <1>8, <1>9

LEMMA CryptInitInv == CryptInit => CryptInv
<1> SUFFICES ASSUME CryptInit PROVE CryptInv
  OBVIOUS
<1>1. job \in Jobs /\ cur = 1 /\ crypting = FALSE /\ batchNo = 0
      /\ buf = [o \in Bytes |-> {}]
  BY DEF CryptInit, Bytes
<1>2. cur \in 1 .. Len(job.keys) + 1
  BY <1>1, JobFacts
<1>3. \A o \in Bytes : Done(o) = {}
  BY <1>1 DEF Done
<1>4. buf = [o \in Bytes |-> {<<i, o>> : i \in Done(o)}]
  BY <1>1, <1>3
<1> QED BY <1>1, <1>2, <1>4 DEF CryptInv

\* What no step within a range, and no step of the call at all, changes.
LEMMA SameRange ==
    ASSUME UNCHANGED <<job, cur>>
    PROVE  /\ DecOff' = DecOff /\ DecSize' = DecSize
           /\ Applies' = Applies /\ Overlaps' = Overlaps
<1>1. Range' = Range /\ DataStart' = DataStart /\ DataEnd' = DataEnd
  BY DEF Range, DataStart, DataEnd
<1>2. StartLsn' = StartLsn /\ EndLsn' = EndLsn
  BY <1>1 DEF StartLsn, EndLsn
<1>3. DecOff' = DecOff /\ DecEnd' = DecEnd
  BY <1>2 DEF DecOff, DecEnd
<1> QED BY <1>1, <1>3 DEF DecSize, Applies, Overlaps

LEMMA SameJob ==
    ASSUME UNCHANGED job
    PROVE  Bytes' = Bytes /\ \A i, o : Holds(i, o)' <=> Holds(i, o)
  BY DEF Bytes, Holds

\* A step that leaves the buffer alone, and what is to be done with each byte.
LEMMA SameBuffer ==
    ASSUME CryptInv, UNCHANGED <<job, buf>>, \A o \in Bytes : Done(o)' = Done(o)
    PROVE  buf' = [o \in Bytes' |-> {<<i, o>> : i \in Done(o)'}]
  BY SameJob DEF CryptInv

LEMMA NextKeyStep ==
    ASSUME CryptInv, NextKey
    PROVE  CryptInv'
<1>1. /\ crypting = FALSE /\ cur <= Len(job.keys) /\ ~(Applies /\ Overlaps) /\ cur' = cur + 1
      /\ UNCHANGED <<job, crypting, batchNo, buf>>
  BY DEF NextKey, CryptInv
<1>2. /\ job \in Jobs /\ cur \in DOMAIN job.keys /\ cur \in Nat /\ batchNo \in Nat
      /\ cur + 1 \in 1 .. Len(job.keys) + 1
  <2>1. job \in Jobs /\ cur \in 1 .. Len(job.keys) + 1 /\ batchNo \in Nat
    BY DEF CryptInv
  <2>2. Len(job.keys) \in Nat /\ DOMAIN job.keys = 1 .. Len(job.keys)
    BY <2>1, JobFacts
  <2> QED BY <1>1, <2>1, <2>2
<1>3. ASSUME NEW o \in Bytes PROVE Done(o)' = Done(o)
  <2>1. ~Holds(cur, o)
    BY <1>1, <1>2, PartInRange
  <2>2. Done(o)' = {k \in 1 .. cur : Holds(k, o)}
    BY <1>1, <1>2, SameJob DEF Done
  <2>3. Done(o) = {k \in 1 .. cur - 1 : Holds(k, o)}
    BY <1>1 DEF Done
  <2> QED BY <1>2, <2>1, <2>2, <2>3
<1>4. buf' = [o \in Bytes' |-> {<<i, o>> : i \in Done(o)'}]
  BY <1>1, <1>3, SameBuffer
<1> QED BY <1>1, <1>2, <1>4 DEF CryptInv

LEMMA StreamCryptStep ==
    ASSUME CryptInv, StreamCrypt
    PROVE  CryptInv'
<1>1. /\ crypting = FALSE /\ cur <= Len(job.keys) /\ Applies /\ Overlaps
      /\ crypting' = TRUE /\ batchNo' = 0 /\ dataIndex' = 0 /\ UNCHANGED <<job, cur, buf>>
  BY DEF StreamCrypt, CryptInv
<1>2. job \in Jobs /\ cur \in DOMAIN job.keys /\ cur \in 1 .. Len(job.keys) + 1
  BY <1>1, JobFacts DEF CryptInv
<1>3. DecOff' = DecOff /\ Applies' /\ Overlaps' /\ DecOff \in Nat
  BY <1>1, <1>2, SameRange, PartInRange
<1>4. ASSUME NEW o \in Bytes PROVE Done(o)' = Done(o)
  <2>1. ~(o \in DecOff .. DecOff + 0 - 1)
    BY <1>3
  <2>2. Done(o)' = {k \in 1 .. cur - 1 : Holds(k, o)}
    BY <1>1, <1>3, <2>1, SameJob DEF Done
  <2>3. Done(o) = {k \in 1 .. cur - 1 : Holds(k, o)}
    BY <1>1 DEF Done
  <2> QED BY <2>2, <2>3
<1>5. buf' = [o \in Bytes' |-> {<<i, o>> : i \in Done(o)'}]
  BY <1>1, <1>4, SameBuffer
<1>6. dataIndex' = DoneLen(DecOff', DecSize', batchNo')
  BY <1>1 DEF DoneLen
<1> QED BY <1>1, <1>2, <1>3, <1>5, <1>6 DEF CryptInv

LEMMA CryptBatchStep ==
    ASSUME CryptInv, CryptBatch
    PROVE  CryptInv'
<1> DEFINE n == BatchBytes(DecOff, DecSize, batchNo, dataIndex)
           first == DecOff + dataIndex
           keyFirst == FromBlock(DecOff, batchNo) * AesBlock + Skip(DecOff, batchNo)
<1>1. /\ crypting = TRUE /\ FromBlock(DecOff, batchNo) < EndBlock(DecOff, DecSize)
      /\ buf' = [o \in DOMAIN buf |->
                    IF o \in first .. first + n - 1 THEN Combine(buf[o], <<cur, keyFirst + (o - first)>>)
                    ELSE buf[o]]
      /\ dataIndex' = dataIndex + n /\ batchNo' = batchNo + 1 /\ UNCHANGED <<job, cur, crypting>>
  BY DEF CryptBatch, CryptInv, KeystreamFrom
<1>2. /\ job \in Jobs /\ cur \in DOMAIN job.keys /\ cur \in 1 .. Len(job.keys) + 1
      /\ Applies /\ Overlaps /\ dataIndex = DoneLen(DecOff, DecSize, batchNo) /\ batchNo \in Nat
      /\ buf = [o \in Bytes |-> {<<i, o>> : i \in Done(o)}]
  BY <1>1 DEF CryptInv
<1>3. DecOff \in Nat /\ DecSize \in Nat
  BY <1>2, PartInRange
<1>4. /\ dataIndex \in Nat /\ n \in Nat /\ dataIndex + n = DoneLen(DecOff, DecSize, batchNo + 1)
      /\ n > 0 => keyFirst = first
  BY <1>1, <1>2, <1>3, BatchGoesOn
<1>5. /\ DecOff' = DecOff /\ DecSize' = DecSize /\ Applies' /\ Overlaps'
  BY <1>1, <1>2, SameRange
<1>6. Bytes' = Bytes /\ \A i, o : Holds(i, o)' <=> Holds(i, o)
  BY <1>1, SameJob
<1>7. cur \in Nat /\ Bytes \subseteq Int
  BY <1>2, JobFacts DEF Bytes
<1> HIDE DEF n, keyFirst
<1>8. ASSUME NEW o \in Bytes
      PROVE  buf'[o] = {<<i, o>> : i \in Done(o)'}
  <2> DEFINE Earlier == {k \in 1 .. cur - 1 : Holds(k, o)}
  <2>1. buf[o] = {<<i, o>> : i \in Done(o)}
    BY <1>2
  <2>2. Done(o) = Earlier \cup (IF o \in DecOff .. DecOff + dataIndex - 1 THEN {cur} ELSE {})
    BY <1>1 DEF Done
  <2>3. Done(o)' = Earlier \cup (IF o \in DecOff .. DecOff + (dataIndex + n) - 1 THEN {cur} ELSE {})
    BY <1>1, <1>5, <1>6 DEF Done
  <2>4. cur \notin Earlier
    BY <1>7
  <2>5. buf'[o] = IF o \in first .. first + n - 1 THEN Combine(buf[o], <<cur, keyFirst + (o - first)>>)
                  ELSE buf[o]
    BY <1>1, <1>2
  <2> HIDE DEF Earlier
  <2>6. CASE o \in first .. first + n - 1
    <3>1. n > 0 /\ o \notin DecOff .. DecOff + dataIndex - 1
          /\ o \in DecOff .. DecOff + (dataIndex + n) - 1
      BY <1>3, <1>4, <1>7, <2>6
    <3>2. keyFirst + (o - first) = o
      BY <1>3, <1>4, <1>7, <3>1
    <3>3. Done(o) = Earlier /\ Done(o)' = Earlier \cup {cur}
      BY <2>2, <2>3, <3>1
    <3>4. buf'[o] = Combine(buf[o], <<cur, o>>)
      BY <2>5, <2>6, <3>2
    <3>5. <<cur, o>> \notin buf[o]
      BY <2>1, <2>4, <3>3
    <3>6. buf'[o] = {<<i, o>> : i \in Earlier} \cup {<<cur, o>>}
      BY <2>1, <3>3, <3>4, <3>5 DEF Combine
    <3> QED BY <3>3, <3>6
  <2>7. CASE o \notin first .. first + n - 1
    <3>1. o \in DecOff .. DecOff + dataIndex - 1 <=> o \in DecOff .. DecOff + (dataIndex + n) - 1
      BY <1>3, <1>4, <1>7, <2>7
    <3>2. Done(o)' = Done(o)
      BY <2>2, <2>3, <3>1
    <3> QED BY <2>1, <2>5, <2>7, <3>2
  <2> QED BY <2>6, <2>7
<1>9. buf' = [o \in Bytes' |-> {<<i, o>> : i \in Done(o)'}]
  <2>1. DOMAIN buf = Bytes
    BY <1>2
  <2>2. buf' = [o \in Bytes |-> buf'[o]]
    BY <1>1, <2>1
  <2> QED BY <1>6, <1>8, <2>2
<1>10. dataIndex' = DoneLen(DecOff', DecSize', batchNo') /\ batchNo' \in Nat
  BY <1>1, <1>2, <1>4, <1>5
<1> QED BY <1>1, <1>2, <1>5, <1>9, <1>10 DEF CryptInv

LEMMA CryptedRangeStep ==
    ASSUME CryptInv, CryptedRange
    PROVE  CryptInv'
<1>1. /\ crypting = TRUE /\ FromBlock(DecOff, batchNo) >= EndBlock(DecOff, DecSize)
      /\ crypting' = FALSE /\ cur' = cur + 1 /\ UNCHANGED <<job, batchNo, buf>>
  BY DEF CryptedRange, CryptInv
<1>2. /\ job \in Jobs /\ cur \in DOMAIN job.keys /\ Applies /\ Overlaps
      /\ dataIndex = DoneLen(DecOff, DecSize, batchNo) /\ batchNo \in Nat
  BY <1>1 DEF CryptInv
<1>3. cur \in Nat /\ 1 <= cur /\ cur + 1 \in 1 .. Len(job.keys) + 1
  <2>1. Len(job.keys) \in Nat /\ cur \in 1 .. Len(job.keys)
    BY <1>2, JobFacts
  <2> QED BY <2>1
<1>4. /\ DecOff \in Nat /\ DecSize \in Nat
      /\ \A o \in Bytes : Holds(cur, o) <=> o \in DecOff .. DecOff + DecSize - 1
  BY <1>2, PartInRange
<1>5. dataIndex = DecSize
  BY <1>1, <1>2, <1>4, AllDone
<1>6. ASSUME NEW o \in Bytes PROVE Done(o)' = Done(o)
  <2>1. Done(o)' = {k \in 1 .. cur : Holds(k, o)}
    BY <1>1, <1>3, SameJob DEF Done
  <2>2. Done(o) = {k \in 1 .. cur - 1 : Holds(k, o)} \cup (IF Holds(cur, o) THEN {cur} ELSE {})
    BY <1>1, <1>4, <1>5 DEF Done
  <2> QED BY <1>3, <2>1, <2>2
<1>7. buf' = [o \in Bytes' |-> {<<i, o>> : i \in Done(o)'}]
  BY <1>1, <1>6, SameBuffer
<1> QED BY <1>1, <1>2, <1>3, <1>7 DEF CryptInv

LEMMA CryptNextInv == CryptInv /\ [CryptNext]_cryptVars => CryptInv'
<1> SUFFICES ASSUME CryptInv, [CryptNext]_cryptVars PROVE CryptInv'
  OBVIOUS
<1>1. CASE NextKey
  BY <1>1, NextKeyStep
<1>2. CASE StreamCrypt
  BY <1>2, StreamCryptStep
<1>3. CASE CryptBatch
  BY <1>3, CryptBatchStep
<1>4. CASE CryptedRange
  BY <1>4, CryptedRangeStep
<1>5. CASE UNCHANGED cryptVars
  <2>1. UNCHANGED <<job, cur, crypting, batchNo, dataIndex, buf>>
    BY <1>5 DEF cryptVars
  <2>2. DecOff' = DecOff /\ DecSize' = DecSize /\ Applies' = Applies /\ Overlaps' = Overlaps
    BY <2>1, SameRange
  <2>3. \A o \in Bytes : Done(o)' = Done(o)
    BY <2>1, <2>2, SameJob DEF Done
  <2>4. buf' = [o \in Bytes' |-> {<<i, o>> : i \in Done(o)'}]
    BY <2>1, <2>3, SameBuffer
  <2> QED BY <2>1, <2>2, <2>4 DEF CryptInv
<1> QED BY <1>1, <1>2, <1>3, <1>4, <1>5 DEF CryptNext

\* TDEXLogCryptBuffer() combines every byte of a buffer of WAL that lies in an encrypted
\* range, and no other, once with the byte of the range's keystream at its place in
\* the segment: for every size of blocks, batches and segments, every list of
\* ranges over any timelines and every cut of a segment into reads and writes.
THEOREM RangeBytesCrypted == CryptSpec => []RangeCryptsItsBytes
<1>1. CryptInv => RangeCryptsItsBytes
  <2> SUFFICES ASSUME CryptInv, Returned
               PROVE  buf = [o \in Bytes |->
                                {<<i, o>> : i \in {k \in DOMAIN job.keys : Holds(k, o)}}]
    BY DEF RangeCryptsItsBytes, Bytes
  <2>1. /\ Len(job.keys) \in Nat /\ DOMAIN job.keys = 1 .. Len(job.keys)
        /\ cur \in 1 .. Len(job.keys) + 1 /\ buf = [o \in Bytes |-> {<<i, o>> : i \in Done(o)}]
    BY JobFacts DEF CryptInv
  <2>2. cur - 1 = Len(job.keys) /\ ~crypting
    BY <2>1 DEF CryptInv, Returned
  <2>3. \A o \in Bytes : Done(o) = {k \in DOMAIN job.keys : Holds(k, o)}
    BY <2>1, <2>2 DEF Done
  <2> QED BY <2>1, <2>3
<1> QED BY <1>1, CryptInitInv, CryptNextInv, PTL DEF CryptSpec

=============================================================================
