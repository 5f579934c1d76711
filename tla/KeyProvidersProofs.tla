------------------------- MODULE KeyProvidersProofs -------------------------
(***************************************************************************)
(* Proofs about KeyProviders.  Ids of providers are never used again, for  *)
(* any number of databases, providers, keyrings and backends.  That every  *)
(* key file keeps the provider and the key its header names is proved for  *)
(* one backend at a time, and is false for two.                            *)
(*                                                                         *)
(* The interest lies in names: a provider is looked up with the case of    *)
(* its name folded, and written to by its exact name, so that the record   *)
(* checked and the record written may differ.  What saves a record in use  *)
(* is that it is the first one of its folded name, and stays it until it   *)
(* is deleted, since new records are appended.                             *)
(***************************************************************************)
EXTENDS KeyProviders, FiniteSetTheorems, TLAPS

-----------------------------------------------------------------------------
(* The invariant for any number of backends.                               *)

\* A record has a place and a sign that tells its scope; ids differ.
RecordOK(s, r) ==
    /\ Live(r) => r.name \in Name /\ r.place \in Place
    /\ r.id # 0 /\ (r.id < 0 <=> s = Global)

IdInv ==
    \A s \in Scope : /\ \A i \in DOMAIN prov[s] : RecordOK(s, prov[s][i])
                     /\ \A i, j \in DOMAIN prov[s] :
                           prov[s][i].id = prov[s][j].id => i = j

Creating == {"create_seek", "create_write"}

Choosing == {"change_verify", "change_write", "delete_check", "delete_write"}

\* What has been looked up before step c is there.
Fits(j, c) ==
    /\ c \in Choosing => j.scope \in Scope /\ j.name \in Name
    /\ c \in {"change_verify", "change_write"} => j.place \in Place
    /\ c \in Creating => j.place \in Place /\ j.key \in Keys
    /\ c = "create_write" => j.at # 0
    /\ c = "set_write" => j.owner \in Owner /\ j.key \in Keys

\* A key has material of its own, wherever it is: in a keyring file, or in the
\* hands of a backend that is about to write it.  A keyring file therefore has
\* no more entries than keys were made.
MatInv ==
    /\ \A f \in Place : \A i \in DOMAIN ring[f] : ring[f][i].mat <= made
    /\ \A f \in Place : \A i, j \in DOMAIN ring[f] : ring[f][i].mat = ring[f][j].mat => i = j
    /\ \A p \in Proc : pc[p] \in Creating =>
          /\ job[p].key.mat <= made
          /\ \A f \in Place : \A i \in DOMAIN ring[f] : ring[f][i].mat # job[p].key.mat
    /\ \A p, q \in Proc : /\ pc[p] \in Creating /\ pc[q] \in Creating
                          /\ job[p].key.mat = job[q].key.mat
                          => p = q

TypeInv == TypeOK /\ IdInv /\ MatInv /\ \A p \in Proc : Fits(job[p], pc[p])

-----------------------------------------------------------------------------
(* The invariant for one backend.                                          *)

\* Whether the check before a change covers every key: it leaves the default
\* key out, so either there is none or global providers are not changed.
Vouching == Global \notin Changeable \/ Default \notin Owner

\* Record i of scope s is the one a lookup of its name finds.
Leads(s, i) ==
    /\ i \in DOMAIN prov[s]
    /\ Live(prov[s][i])
    /\ \A j \in 1 .. (i - 1) :
          ~(Live(prov[s][j]) /\ Fold[prov[s][j].name] = Fold[prov[s][i].name])

\* A header h of owner o names a leading record, and its key is in the keyring.
HeaderOK(o, h) ==
    LET s == ScopeOf(o, h.prov) IN
    /\ h.prov >= 0 => o \in Db
    /\ \E i \in DOMAIN prov[s] :
          /\ Leads(s, i) /\ prov[s][i].id = h.prov
          /\ Vouching => KeyAt(prov[s][i].place, h.key.name, h.key)

HeadersOK == \A o \in Owner : hdr[o] # None => HeaderOK(o, hdr[o])

\* What the backend has found out is still so.
FoundOK(p) ==
    LET s == job[p].scope IN
    /\ pc[p] \in Choosing =>
          \E i \in DOMAIN prov[s] : ByName(s, job[p].name, i) /\ prov[s][i].id = job[p].id
    /\ pc[p] \in {"change_verify", "change_write"} => s \in Changeable
    /\ pc[p] = "change_write" => (Vouching => Verified(job[p].id, job[p].place))
    /\ pc[p] = "delete_write" => ~Used(s, job[p].id)
    /\ pc[p] = "create_write" => job[p].at = Len(ring[job[p].place]) + 1
    /\ pc[p] = "set_write" =>
          /\ HeaderOK(job[p].owner, [prov |-> job[p].id, key |-> job[p].key])
          /\ lock = p

OneInv == TypeInv /\ HeadersOK /\ \A p \in Proc : FoundOK(p)

-----------------------------------------------------------------------------
(* Facts about the parts.                                                  *)

LEMMA Facts ==
    ASSUME TypeInv
    PROVE  /\ \A s \in Scope : prov[s] \in Seq(Records)
           /\ \A f \in Place : ring[f] \in Seq(Keys)
           /\ \A o \in Owner : hdr[o] \in Headers \cup {None}
           /\ \A p \in Proc : job[p] \in Jobs /\ pc[p] \in PCs /\ Fits(job[p], pc[p])
           /\ DOMAIN prov = Scope /\ DOMAIN ring = Place /\ DOMAIN pc = Proc
           /\ DOMAIN job = Proc /\ made \in Nat /\ made <= MaxKeys
BY KeyProvidersAssumption DEF TypeInv, TypeOK

\* Sequences as functions.
LEMMA SeqFacts ==
    ASSUME NEW S, NEW q \in Seq(S)
    PROVE  /\ DOMAIN q = 1 .. Len(q) /\ Len(q) \in Nat
           /\ \A i \in DOMAIN q : q[i] \in S
OBVIOUS

\* One element written at i, which may be one past the end.
LEMMA PutFacts ==
    ASSUME NEW S, NEW q \in Seq(S), NEW i \in 1 .. (Len(q) + 1), NEW r \in S, NEW t,
           t = IF i > Len(q) THEN Append(q, r) ELSE [q EXCEPT ![i] = r]
    PROVE  /\ t \in Seq(S) /\ DOMAIN t = DOMAIN q \cup {i} /\ t[i] = r
           /\ \A j \in DOMAIN q : j # i => t[j] = q[j]
           /\ Len(t) = IF i > Len(q) THEN Len(q) + 1 ELSE Len(q)
<1>1. DOMAIN q = 1 .. Len(q) /\ Len(q) \in Nat
  BY SeqFacts
<1>2. CASE i > Len(q)
  BY <1>1, <1>2
<1>3. CASE ~(i > Len(q))
  <2>1. i \in DOMAIN q /\ t = [q EXCEPT ![i] = r]
    BY <1>1, <1>3
  <2>2. t \in Seq(S) /\ Len(t) = Len(q)
    BY <2>1
  <2> QED BY <1>1, <1>3, <2>1, <2>2
<1> QED BY <1>2, <1>3

\* A keyring file has at most as many entries as keys were made.
LEMMA RingBound ==
    ASSUME TypeInv, NEW f \in Place
    PROVE  Len(ring[f]) <= made
<1> DEFINE n == Len(ring[f])
           g == [i \in 1 .. n |-> ring[f][i].mat]
<1>1. /\ DOMAIN ring[f] = 1 .. n /\ n \in Nat /\ made \in Nat
      /\ \A i \in 1 .. n : ring[f][i] \in Keys
  BY Facts, SeqFacts
<1>2. \A i \in 1 .. n : ring[f][i].mat \in 1 .. made
  BY <1>1, KeyProvidersAssumption DEF Keys, TypeInv, MatInv
<1>3. \A i, j \in 1 .. n : g[i] = g[j] => i = j
  BY <1>1 DEF TypeInv, MatInv
<1>4. g \in [1 .. n -> 1 .. made]
  BY <1>2
<1> HIDE DEF g, n
<1>5. /\ IsFiniteSet(1 .. n) /\ Cardinality(1 .. n) = n
      /\ IsFiniteSet(1 .. made) /\ Cardinality(1 .. made) = made
  BY <1>1, FS_Interval
<1>6. ~(Cardinality(1 .. made) < Cardinality(1 .. n))
  <2> DEFINE S == 1 .. n
             T == 1 .. made
  <2>1. IsFiniteSet(S) /\ IsFiniteSet(T) /\ g \in [S -> T] /\ \A i, j \in S : g[i] = g[j] => i = j
    BY <1>3, <1>4, <1>5
  <2> HIDE DEF S, T
  <2>2. ASSUME Cardinality(T) < Cardinality(S)
        PROVE  \E x, y \in S : x # y /\ g[x] = g[y]
    BY <2>1, <2>2, FS_PigeonHole
  <2>3. ~(Cardinality(T) < Cardinality(S))
    BY <2>1, <2>2
  <2> QED BY <2>3 DEF S, T
<1>7. n <= made
  BY <1>1, <1>5, <1>6
<1> QED BY <1>7 DEF n

LEMMA NoJobFacts == NoJob \in Jobs /\ \A j : Fits(j, "idle") /\ "idle" \notin Creating
BY KeyProvidersAssumption DEF NoJob, Jobs, Fits, Choosing, Creating, Ids

\* A backend that moves on with a job that fits.
LEMMA Moves ==
    ASSUME TypeInv, NEW p \in Proc, NEW j \in Jobs, NEW c \in PCs, Fits(j, c),
           job' = [job EXCEPT ![p] = j], pc' = [pc EXCEPT ![p] = c]
    PROVE  /\ job' \in [Proc -> Jobs] /\ pc' \in [Proc -> PCs]
           /\ \A q \in Proc : Fits(job'[q], pc'[q])
           /\ job'[p] = j /\ pc'[p] = c
           /\ \A q \in Proc : q # p => job'[q] = job[q] /\ pc'[q] = pc[q]
<1>1. job \in [Proc -> Jobs] /\ pc \in [Proc -> PCs]
      /\ \A q \in Proc : Fits(job[q], pc[q])
  BY DEF TypeInv, TypeOK
<1>2. /\ job'[p] = j /\ pc'[p] = c
      /\ \A q \in Proc : q # p => job'[q] = job[q] /\ pc'[q] = pc[q]
  BY <1>1
<1>3. \A q \in Proc : Fits(job'[q], pc'[q])
  <2> TAKE q \in Proc
  <2>1. CASE q = p
    BY <1>2, <2>1
  <2>2. CASE q # p
    BY <1>1, <1>2, <2>2
  <2> QED BY <2>1, <2>2
<1> QED BY <1>1, <1>2, <1>3

LEMMA Finishes ==
    ASSUME TypeInv, NEW p \in Proc, Finish(p)
    PROVE  /\ job' \in [Proc -> Jobs] /\ pc' \in [Proc -> PCs]
           /\ \A q \in Proc : Fits(job'[q], pc'[q])
           /\ pc'[p] = "idle"
           /\ \A q \in Proc : q # p => job'[q] = job[q] /\ pc'[q] = pc[q]
<1>1. "idle" \in PCs
  BY DEF PCs
<1> QED BY <1>1, Moves, NoJobFacts DEF Finish, Goto

\* Keys keep their own material while nobody makes or writes one.
LEMMA MatSame ==
    ASSUME MatInv, UNCHANGED <<ring, made>>,
           \A q \in Proc : pc'[q] \in Creating =>
                               pc[q] \in Creating /\ job'[q].key = job[q].key
    PROVE  MatInv'
BY DEF MatInv

\* What writing a record does.
LEMMA WriteFacts ==
    ASSUME TypeInv, NEW s \in Scope, NEW i \in 1 .. (Len(prov[s]) + 1), NEW r \in Records,
           RecordOK(s, r), WriteProvider(s, i, r),
           \A j \in DOMAIN prov[s] : prov[s][j].id = r.id <=> i = j
    PROVE  /\ prov' \in [Scope -> Seq(Records)] /\ IdInv'
           /\ DOMAIN prov'[s] = DOMAIN prov[s] \cup {i} /\ prov'[s][i] = r
           /\ \A j \in DOMAIN prov[s] : j # i => prov'[s][j] = prov[s][j]
           /\ \A z \in Scope : z # s => prov'[z] = prov[z]
<1> DEFINE t == IF i > Len(prov[s]) THEN Append(prov[s], r) ELSE [prov[s] EXCEPT ![i] = r]
<1>1. prov \in [Scope -> Seq(Records)] /\ IdInv
  BY DEF TypeInv, TypeOK
<1>2. prov' = [prov EXCEPT ![s] = t]
  BY DEF WriteProvider
<1>3. /\ t \in Seq(Records) /\ DOMAIN t = DOMAIN prov[s] \cup {i} /\ t[i] = r
      /\ \A j \in DOMAIN prov[s] : j # i => t[j] = prov[s][j]
  BY <1>1, PutFacts
<1> HIDE DEF t
<1>4. prov'[s] = t /\ \A z \in Scope : z # s => prov'[z] = prov[z]
  BY <1>1, <1>2
<1>5. prov' \in [Scope -> Seq(Records)]
  BY <1>1, <1>2, <1>3
<1>6. /\ \A j \in DOMAIN t : RecordOK(s, t[j])
      /\ \A j, k \in DOMAIN t : t[j].id = t[k].id => j = k
  BY <1>1, <1>3 DEF IdInv
<1>7. IdInv'
  <2> SUFFICES ASSUME NEW z \in Scope
               PROVE  /\ \A j \in DOMAIN prov'[z] : RecordOK(z, prov'[z][j])
                      /\ \A j, k \in DOMAIN prov'[z] :
                            prov'[z][j].id = prov'[z][k].id => j = k
    BY DEF IdInv, RecordOK, Live
  <2>1. CASE z = s
    BY <1>4, <1>6, <2>1
  <2>2. CASE z # s
    BY <1>1, <1>4, <2>2 DEF IdInv
  <2> QED BY <2>1, <2>2
<1> QED BY <1>3, <1>4, <1>5, <1>7

-----------------------------------------------------------------------------
(* Any number of backends.                                                 *)

LEMMA InitTypeInv == Init => TypeInv
<1> SUFFICES ASSUME Init PROVE TypeInv
  OBVIOUS
<1>1. \A p \in Proc : pc[p] = "idle" /\ job[p] = NoJob
  BY DEF Init
<1>2. TypeOK
  BY NoJobFacts, KeyProvidersAssumption DEF Init, TypeOK, PCs
<1>3. IdInv
  BY DEF Init, IdInv
<1>4. MatInv
  BY <1>1, NoJobFacts DEF Init, MatInv
<1> QED BY <1>1, <1>2, <1>3, <1>4, NoJobFacts DEF TypeInv

\* A record found by its name.
LEMMA ByNameFacts ==
    ASSUME TypeInv, NEW s \in Scope, NEW n \in Name, NEW i,
           ByName(s, n, i) \/ ByExactName(s, n, i)
    PROVE  /\ i \in DOMAIN prov[s] /\ Live(prov[s][i]) /\ prov[s][i] \in Records
           /\ prov[s][i].place \in Place /\ prov[s][i].name \in Name
           /\ prov[s][i].id \in Ids /\ RecordOK(s, prov[s][i])
<1>1. i \in DOMAIN prov[s] /\ Live(prov[s][i])
  BY DEF ByName, ByExactName, First
<1>2. prov[s][i] \in Records /\ RecordOK(s, prov[s][i])
  BY <1>1, Facts, SeqFacts DEF TypeInv, IdInv
<1> QED BY <1>1, <1>2 DEF Records, RecordOK

LEMMA AddFacts ==
    ASSUME TypeInv, NEW s \in Scope, NEW n \in Name, NEW f \in Place, SaveNewProvider(s, n, f)
    PROVE  /\ prov' \in [Scope -> Seq(Records)] /\ IdInv'
           /\ DOMAIN prov'[s] = DOMAIN prov[s] \cup {Len(prov[s]) + 1}
           /\ \A j \in DOMAIN prov[s] : prov'[s][j] = prov[s][j]
           /\ \A z \in Scope : z # s => prov'[z] = prov[z]
<1>1. PICK m \in 0 .. MaxRecords :
         /\ LargestId(s, m)
         /\ m < MaxRecords
         /\ WriteProvider(s, Len(prov[s]) + 1,
                          [id |-> IF s = Global THEN -(m + 1) ELSE m + 1,
                           name |-> n, place |-> f])
  BY DEF SaveNewProvider, IdLeft
<1> DEFINE id == IF s = Global THEN -(m + 1) ELSE m + 1
           r == [id |-> id, name |-> n, place |-> f]
           i == Len(prov[s]) + 1
<1>2. id \in Ids /\ id # 0 /\ (id < 0 <=> s = Global) /\ Magnitude(id) = m + 1
  BY <1>1, KeyProvidersAssumption DEF Ids, Magnitude
<1>3. r \in Records /\ RecordOK(s, r) /\ r.id = id
  BY <1>2, KeyProvidersAssumption DEF Records, RecordOK, Live
<1>4. /\ prov[s] \in Seq(Records) /\ DOMAIN prov[s] = 1 .. Len(prov[s]) /\ Len(prov[s]) \in Nat
      /\ \A j \in DOMAIN prov[s] : prov[s][j] \in Records
  BY Facts, SeqFacts
<1>5. \A j \in DOMAIN prov[s] : prov[s][j].id # id /\ i # j
  <2> TAKE j \in DOMAIN prov[s]
  <2>1. Magnitude(prov[s][j].id) <= m
    BY <1>1 DEF LargestId
  <2>2. ~(m + 1 <= m)
    BY <1>1
  <2>3. i # j
    BY <1>4
  <2> QED BY <1>2, <2>1, <2>2, <2>3
<1>6. i \in 1 .. (Len(prov[s]) + 1) /\ WriteProvider(s, i, r)
  BY <1>1, <1>4
<1> HIDE DEF r, i, id
<1>7. /\ prov' \in [Scope -> Seq(Records)] /\ IdInv'
      /\ DOMAIN prov'[s] = DOMAIN prov[s] \cup {i}
      /\ \A j \in DOMAIN prov[s] : j # i => prov'[s][j] = prov[s][j]
      /\ \A z \in Scope : z # s => prov'[z] = prov[z]
  BY <1>3, <1>5, <1>6, WriteFacts
<1> QED BY <1>5, <1>7 DEF i

\* A record written over, under its id.
LEMMA OverwriteFacts ==
    ASSUME TypeInv, NEW s \in Scope, NEW i \in DOMAIN prov[s], NEW r \in Records,
           RecordOK(s, r), r.id = prov[s][i].id, WriteProvider(s, i, r)
    PROVE  /\ prov' \in [Scope -> Seq(Records)] /\ IdInv'
           /\ DOMAIN prov'[s] = DOMAIN prov[s] /\ prov'[s][i] = r
           /\ \A j \in DOMAIN prov[s] : j # i => prov'[s][j] = prov[s][j]
           /\ \A z \in Scope : z # s => prov'[z] = prov[z]
<1>1. i \in 1 .. (Len(prov[s]) + 1)
  <2>1. DOMAIN prov[s] = 1 .. Len(prov[s]) /\ Len(prov[s]) \in Nat
    BY Facts, SeqFacts
  <2> QED BY <2>1
<1>2. \A j \in DOMAIN prov[s] : prov[s][j].id = r.id <=> i = j
  BY DEF TypeInv, IdInv
<1>3. DOMAIN prov[s] \cup {i} = DOMAIN prov[s]
  OBVIOUS
<1> QED BY <1>1, <1>2, <1>3, WriteFacts

\* What a change or a deletion writes.
LEMMA ChangeFacts ==
    ASSUME TypeInv, NEW p \in Proc, ChangeWrite(p), prov' # prov
    PROVE  \E i \in DOMAIN prov[job[p].scope] :
              LET s == job[p].scope IN
              /\ ByExactName(s, job[p].name, i) /\ prov[s][i].id = job[p].id
              /\ prov' \in [Scope -> Seq(Records)] /\ IdInv'
              /\ DOMAIN prov'[s] = DOMAIN prov[s]
              /\ prov'[s][i].id = prov[s][i].id /\ prov'[s][i].name = prov[s][i].name
              /\ prov'[s][i].place = job[p].place
              /\ \A j \in DOMAIN prov[s] : j # i => prov'[s][j] = prov[s][j]
              /\ \A z \in Scope : z # s => prov'[z] = prov[z]
<1> DEFINE s == job[p].scope
<1>1. s \in Scope /\ job[p].name \in Name /\ job[p].place \in Place
  BY Facts DEF ChangeWrite, Fits, Choosing
<1>2. PICK i \in DOMAIN prov[s] :
         /\ ByExactName(s, job[p].name, i) /\ prov[s][i].id = job[p].id
         /\ WriteProvider(s, i, [prov[s][i] EXCEPT !.place = job[p].place])
  BY DEF ChangeWrite
<1> DEFINE r == [prov[s][i] EXCEPT !.place = job[p].place]
<1>3. prov[s][i] \in Records /\ RecordOK(s, prov[s][i])
  BY <1>1, <1>2, ByNameFacts
<1>4. /\ r \in Records /\ r.id = prov[s][i].id /\ r.name = prov[s][i].name
      /\ r.place = job[p].place
  BY <1>1, <1>3 DEF Records
<1>5. RecordOK(s, r)
  BY <1>1, <1>3, <1>4 DEF RecordOK, Live
<1>6. WriteProvider(s, i, r)
  BY <1>2
<1> HIDE DEF r
<1> QED BY <1>1, <1>2, <1>4, <1>5, <1>6, OverwriteFacts, ZenonT(40)

LEMMA DeleteFacts ==
    ASSUME TypeInv, NEW p \in Proc, DeleteWrite(p), prov' # prov
    PROVE  \E i \in DOMAIN prov[job[p].scope] :
              LET s == job[p].scope IN
              /\ ByExactName(s, job[p].name, i)
              /\ prov' \in [Scope -> Seq(Records)] /\ IdInv'
              /\ DOMAIN prov'[s] = DOMAIN prov[s]
              /\ ~Live(prov'[s][i]) /\ prov'[s][i].id = prov[s][i].id
              /\ \A j \in DOMAIN prov[s] : j # i => prov'[s][j] = prov[s][j]
              /\ \A z \in Scope : z # s => prov'[z] = prov[z]
<1> DEFINE s == job[p].scope
<1>1. s \in Scope /\ job[p].name \in Name
  BY Facts DEF DeleteWrite, Fits, Choosing
<1>2. PICK i \in DOMAIN prov[s] :
         /\ ByExactName(s, job[p].name, i)
         /\ WriteProvider(s, i, [id |-> prov[s][i].id, name |-> None, place |-> None])
  BY DEF DeleteWrite
<1> DEFINE r == [id |-> prov[s][i].id, name |-> None, place |-> None]
<1>3. prov[s][i] \in Records /\ RecordOK(s, prov[s][i])
  BY <1>1, <1>2, ByNameFacts
<1>4. r \in Records /\ r.id = prov[s][i].id /\ ~Live(r)
  BY <1>3 DEF Records, Live
<1>5. RecordOK(s, r)
  BY <1>3, <1>4 DEF RecordOK
<1>6. WriteProvider(s, i, r)
  BY <1>2
<1> HIDE DEF r
<1> QED BY <1>1, <1>2, <1>4, <1>5, <1>6, OverwriteFacts DEF Live

\* A job starts from an empty one.
LEMMA ChoiceJob ==
    ASSUME NEW s \in Scope, NEW n \in Name, NEW id \in Ids, NEW f \in Place
    PROVE  [NoJob EXCEPT !.scope = s, !.name = n, !.id = id, !.place = f] \in Jobs
BY NoJobFacts DEF Jobs

LEMMA DeleteJob ==
    ASSUME NEW s \in Scope, NEW n \in Name, NEW id \in Ids
    PROVE  [NoJob EXCEPT !.scope = s, !.name = n, !.id = id] \in Jobs
BY NoJobFacts DEF Jobs

LEMMA KeyJob ==
    ASSUME NEW g \in Keys, NEW f \in Place
    PROVE  [NoJob EXCEPT !.place = f, !.key = g] \in Jobs
BY NoJobFacts DEF Jobs

LEMMA OwnerJob ==
    ASSUME NEW o \in Owner, NEW g \in Keys, NEW id \in Ids
    PROVE  [NoJob EXCEPT !.owner = o, !.id = id, !.key = g] \in Jobs
BY NoJobFacts DEF Jobs

\* The jobs that lookups leave.
LEMMA LookupJobs ==
    ASSUME TypeInv, NEW p \in Proc, NEW s \in Scope, NEW n \in Name
    PROVE  /\ \A f \in Place : ChangeProvider(p, s, n, f) =>
                 \E j \in Jobs : /\ Fits(j, "change_verify") /\ job' = [job EXCEPT ![p] = j]
                                 /\ j.scope = s /\ j.name = n /\ j.place = f
                                 /\ \E i \in DOMAIN prov[s] : ByName(s, n, i)
                                                              /\ prov[s][i].id = j.id
           /\ DeleteProvider(p, s, n) =>
                 \E j \in Jobs : /\ Fits(j, "delete_check") /\ job' = [job EXCEPT ![p] = j]
                                 /\ j.scope = s /\ j.name = n
                                 /\ \E i \in DOMAIN prov[s] : ByName(s, n, i)
                                                              /\ prov[s][i].id = j.id
<1>1. \A i : ByName(s, n, i) => prov[s][i].id \in Ids
  BY ByNameFacts
<1>2. ASSUME NEW f \in Place, ChangeProvider(p, s, n, f)
      PROVE  \E j \in Jobs : /\ Fits(j, "change_verify") /\ job' = [job EXCEPT ![p] = j]
                             /\ j.scope = s /\ j.name = n /\ j.place = f
                             /\ \E i \in DOMAIN prov[s] : ByName(s, n, i) /\ prov[s][i].id = j.id
  <2>1. PICK i \in DOMAIN prov[s] :
           /\ ByName(s, n, i)
           /\ job' = [job EXCEPT ![p] = [NoJob EXCEPT !.scope = s, !.name = n,
                                             !.id = prov[s][i].id, !.place = f]]
    BY <1>2 DEF ChangeProvider
  <2> DEFINE j == [NoJob EXCEPT !.scope = s, !.name = n, !.id = prov[s][i].id, !.place = f]
  <2>2. j \in Jobs /\ j.scope = s /\ j.name = n /\ j.place = f /\ j.id = prov[s][i].id
    <3>1. j \in Jobs
      BY <1>1, <2>1, ChoiceJob
    <3> QED BY <3>1 DEF NoJob
  <2>3. job' = [job EXCEPT ![p] = j]
    BY <2>1
  <2> HIDE DEF j
  <2>4. Fits(j, "change_verify")
    BY <2>2 DEF Fits, Choosing, Creating
  <2> QED BY <2>1, <2>2, <2>3, <2>4
<1>3. ASSUME DeleteProvider(p, s, n)
      PROVE  \E j \in Jobs : /\ Fits(j, "delete_check") /\ job' = [job EXCEPT ![p] = j]
                             /\ j.scope = s /\ j.name = n
                             /\ \E i \in DOMAIN prov[s] : ByName(s, n, i) /\ prov[s][i].id = j.id
  <2>1. PICK i \in DOMAIN prov[s] :
           /\ ByName(s, n, i)
           /\ job' = [job EXCEPT ![p] = [NoJob EXCEPT !.scope = s, !.name = n,
                                                      !.id = prov[s][i].id]]
    BY <1>3 DEF DeleteProvider
  <2> DEFINE j == [NoJob EXCEPT !.scope = s, !.name = n, !.id = prov[s][i].id]
  <2>2. j \in Jobs /\ j.scope = s /\ j.name = n /\ j.id = prov[s][i].id
    <3>1. j \in Jobs
      BY <1>1, <2>1, DeleteJob
    <3> QED BY <3>1 DEF NoJob
  <2>3. job' = [job EXCEPT ![p] = j]
    BY <2>1
  <2> HIDE DEF j
  <2>4. Fits(j, "delete_check")
    BY <2>2 DEF Fits, Choosing, Creating
  <2> QED BY <2>1, <2>2, <2>3, <2>4
<1> QED BY <1>2, <1>3

LEMMA CreateKeyJob ==
    ASSUME TypeInv, NEW p \in Proc, NEW s \in Scope, NEW n \in Name, NEW k \in KeyName,
           CreateKey(p, s, n, k)
    PROVE  \E j \in Jobs : /\ Fits(j, "create_seek") /\ job' = [job EXCEPT ![p] = j]
                           /\ j.key.mat = made + 1
<1>1. PICK i \in DOMAIN prov[s] :
         /\ ByName(s, n, i)
         /\ job' = [job EXCEPT ![p] = [NoJob EXCEPT !.place = prov[s][i].place,
                                           !.key = GenerateNewKey(k)]]
  BY DEF CreateKey
<1> DEFINE g == GenerateNewKey(k)
           j == [NoJob EXCEPT !.place = prov[s][i].place, !.key = g]
<1>2. g \in Keys /\ g.mat = made + 1
  <2>1. made + 1 \in 1 .. MaxKeys
    BY Facts, KeyProvidersAssumption DEF CreateKey
  <2> QED BY <2>1 DEF GenerateNewKey, Keys
<1> HIDE DEF g
<1>3. prov[s][i].place \in Place
  BY <1>1, ByNameFacts
<1>4. j \in Jobs /\ j.place \in Place /\ j.key = g
  <2>1. j \in Jobs
    BY <1>2, <1>3, KeyJob
  <2> QED BY <1>3, <2>1 DEF NoJob
<1>5. job' = [job EXCEPT ![p] = j]
  BY <1>1 DEF g
<1> HIDE DEF j
<1>6. Fits(j, "create_seek")
  BY <1>2, <1>4 DEF Fits, Choosing, Creating
<1> QED BY <1>2, <1>4, <1>5, <1>6

LEMMA SetKeyJob ==
    ASSUME TypeInv, NEW p \in Proc, NEW o \in Owner, NEW s \in Scope, NEW n \in Name,
           NEW k \in KeyName, SetKey(p, o, s, n, k)
    PROVE  \E j \in Jobs : /\ Fits(j, "set_write") /\ job' = [job EXCEPT ![p] = j]
                           /\ j.owner = o
                           /\ \E i \in DOMAIN prov[s] :
                                 /\ ByName(s, n, i) /\ prov[s][i].id = j.id
                                 /\ KeyAt(prov[s][i].place, j.key.name, j.key)
<1>1. PICK i \in DOMAIN prov[s], m \in 1 .. MaxKeys :
         /\ ByName(s, n, i)
         /\ KeyAt(prov[s][i].place, k, [name |-> k, mat |-> m])
         /\ job' = [job EXCEPT ![p] = [NoJob EXCEPT !.owner = o, !.id = prov[s][i].id,
                                                    !.key = [name |-> k, mat |-> m]]]
  BY DEF SetKey
<1> DEFINE g == [name |-> k, mat |-> m]
           j == [NoJob EXCEPT !.owner = o, !.id = prov[s][i].id, !.key = g]
<1>2. g \in Keys /\ g.name = k /\ KeyAt(prov[s][i].place, g.name, g)
  BY <1>1 DEF Keys
<1> HIDE DEF g
<1>3. prov[s][i].id \in Ids
  BY <1>1, ByNameFacts
<1>4. j \in Jobs /\ j.owner = o /\ j.key = g /\ j.id = prov[s][i].id
  <2>1. j \in Jobs
    BY <1>2, <1>3, OwnerJob
  <2> QED BY <2>1 DEF NoJob
<1>5. job' = [job EXCEPT ![p] = j]
  BY <1>1 DEF g
<1> HIDE DEF j
<1>6. Fits(j, "set_write")
  BY <1>2, <1>4 DEF Fits, Choosing, Creating
<1> QED BY <1>1, <1>2, <1>4, <1>5, <1>6

\* Seeking leaves the end of the keyring file in the job.
LEMMA SeekJob ==
    ASSUME TypeInv, NEW p \in Proc, pc[p] = "create_seek",
           job' = [job EXCEPT ![p].at = Len(ring[job[p].place]) + 1]
    PROVE  \E j \in Jobs : /\ Fits(j, "create_write") /\ job' = [job EXCEPT ![p] = j]
                           /\ j.key = job[p].key /\ j.place = job[p].place
                           /\ j.at = Len(ring[j.place]) + 1
<1> DEFINE f == job[p].place
           n == Len(ring[f]) + 1
           j == [job[p] EXCEPT !.at = n]
<1>1. job[p] \in Jobs /\ f \in Place /\ job[p].key \in Keys
  BY Facts DEF Fits, Creating
<1>2. n \in 0 .. (MaxKeys + 1) /\ n # 0
  <2>1. Len(ring[f]) \in Nat
    BY <1>1, Facts, SeqFacts
  <2>2. Len(ring[f]) <= made /\ made <= MaxKeys /\ made \in Nat
    BY <1>1, Facts, RingBound
  <2> QED BY <2>1, <2>2, KeyProvidersAssumption
<1>3. job' = [job EXCEPT ![p] = j]
  BY Facts
<1> HIDE DEF n
<1>4. j \in Jobs /\ j.key = job[p].key /\ j.place = f /\ j.at = n
  BY <1>1, <1>2 DEF Jobs
<1> HIDE DEF j
<1>5. Fits(j, "create_write")
  BY <1>1, <1>2, <1>4 DEF Fits, Choosing, Creating
<1> QED BY <1>3, <1>4, <1>5 DEF n

\* A step that makes and writes no key.
LEMMA NoKeyStep ==
    ASSUME TypeInv, prov' \in [Scope -> Seq(Records)], IdInv', UNCHANGED <<ring, made>>,
           hdr' \in [Owner -> Headers \cup {None}], lock' \in Proc \cup {None},
           job' \in [Proc -> Jobs], pc' \in [Proc -> PCs],
           \A q \in Proc : Fits(job'[q], pc'[q]),
           \A q \in Proc : pc'[q] \in Creating =>
                               pc[q] \in Creating /\ job'[q].key = job[q].key
    PROVE  TypeInv'
<1>1. MatInv'
  BY MatSame DEF TypeInv
<1>2. TypeOK'
  BY DEF TypeInv, TypeOK
<1> QED BY <1>1, <1>2 DEF TypeInv

\* A step of p that changes nothing but its job, to one that creates no key.
LEMMA JobStep ==
    ASSUME TypeInv, NEW p \in Proc, UNCHANGED <<prov, ring, hdr, made>>, lock' \in Proc \cup {None},
           job' \in [Proc -> Jobs], pc' \in [Proc -> PCs], \A q \in Proc : Fits(job'[q], pc'[q]),
           pc'[p] \notin Creating \/ (pc[p] \in Creating /\ job'[p].key = job[p].key),
           \A q \in Proc : q # p => job'[q] = job[q] /\ pc'[q] = pc[q]
    PROVE  TypeInv'
<1>1. IdInv' /\ prov' \in [Scope -> Seq(Records)] /\ hdr' \in [Owner -> Headers \cup {None}]
  BY DEF TypeInv, TypeOK, IdInv
<1>2. \A q \in Proc : pc'[q] \in Creating => pc[q] \in Creating /\ job'[q].key = job[q].key
  <2> TAKE q \in Proc
  <2>1. CASE q = p
    BY <2>1
  <2>2. CASE q # p
    BY <2>2
  <2> QED BY <2>1, <2>2
<1> QED BY <1>1, <1>2, NoKeyStep

LEMMA LookupTypes ==
    ASSUME TypeInv, NEW p \in Proc, NEW s \in Scope, NEW n \in Name,
           \/ \E f \in Place : ChangeProvider(p, s, n, f)
           \/ DeleteProvider(p, s, n)
           \/ \E o \in Owner, k \in KeyName : SetKey(p, o, s, n, k)
    PROVE  TypeInv'
<1>1. lock \in Proc \cup {None}
  BY DEF TypeInv, TypeOK
<1>2. CASE \E f \in Place : ChangeProvider(p, s, n, f)
  <2>1. PICK j \in Jobs : Fits(j, "change_verify") /\ job' = [job EXCEPT ![p] = j]
    BY <1>2, LookupJobs
  <2>2. pc' = [pc EXCEPT ![p] = "change_verify"] /\ "change_verify" \in PCs \ Creating
        /\ UNCHANGED <<prov, ring, hdr, made, lock>>
    BY <1>2 DEF ChangeProvider, Goto, PCs, Creating
  <2> QED BY <1>1, <2>1, <2>2, Moves, JobStep
<1>3. CASE DeleteProvider(p, s, n)
  <2>1. PICK j \in Jobs : Fits(j, "delete_check") /\ job' = [job EXCEPT ![p] = j]
    BY <1>3, LookupJobs
  <2>2. pc' = [pc EXCEPT ![p] = "delete_check"] /\ "delete_check" \in PCs \ Creating
        /\ UNCHANGED <<prov, ring, hdr, made, lock>>
    BY <1>3 DEF DeleteProvider, Goto, PCs, Creating
  <2> QED BY <1>1, <2>1, <2>2, Moves, JobStep
<1>4. CASE \E o \in Owner, k \in KeyName : SetKey(p, o, s, n, k)
  <2>1. PICK j \in Jobs : Fits(j, "set_write") /\ job' = [job EXCEPT ![p] = j]
    BY <1>4, SetKeyJob
  <2>2. pc' = [pc EXCEPT ![p] = "set_write"] /\ "set_write" \in PCs \ Creating
        /\ UNCHANGED <<prov, ring, hdr, made>> /\ lock' \in Proc \cup {None}
    BY <1>4 DEF SetKey, Goto, PCs, Creating
  <2> QED BY <2>1, <2>2, Moves, JobStep
<1> QED BY <1>2, <1>3, <1>4

LEMMA CheckTypes ==
    ASSUME TypeInv, NEW p \in Proc, ChangeVerify(p) \/ DeleteCheck(p) \/ CreateSeek(p)
    PROVE  TypeInv'
<1>1. lock' \in Proc \cup {None} /\ UNCHANGED <<prov, ring, hdr, made>>
  BY DEF TypeInv, TypeOK, ChangeVerify, DeleteCheck, CreateSeek
<1>2. CASE Finish(p)
  BY <1>1, <1>2, Finishes, NoJobFacts, JobStep
<1>3. CASE ChangeVerify(p) /\ ~Finish(p)
  <2>1. pc[p] = "change_verify" /\ pc' = [pc EXCEPT ![p] = "change_write"] /\ job' = job
    BY <1>3 DEF ChangeVerify, Goto
  <2>2. "change_write" \in PCs \ Creating /\ job[p] \in Jobs
    BY Facts DEF PCs, Creating
  <2>3. Fits(job[p], "change_write")
    BY <2>1, Facts DEF Fits, Choosing, Creating
  <2>4. job' = [job EXCEPT ![p] = job[p]]
    BY <2>1 DEF TypeInv, TypeOK
  <2>5. /\ job' \in [Proc -> Jobs] /\ pc' \in [Proc -> PCs] /\ \A q \in Proc : Fits(job'[q], pc'[q])
        /\ pc'[p] \notin Creating /\ \A q \in Proc : q # p => job'[q] = job[q] /\ pc'[q] = pc[q]
    BY <2>1, <2>2, <2>3, <2>4, Moves
  <2> QED BY <1>1, <2>5, JobStep
<1>4. CASE DeleteCheck(p) /\ ~Finish(p)
  <2>1. pc[p] = "delete_check" /\ pc' = [pc EXCEPT ![p] = "delete_write"] /\ job' = job
    BY <1>4 DEF DeleteCheck, Goto
  <2>2. "delete_write" \in PCs \ Creating /\ job[p] \in Jobs
    BY Facts DEF PCs, Creating
  <2>3. Fits(job[p], "delete_write")
    BY <2>1, Facts DEF Fits, Choosing, Creating
  <2>4. job' = [job EXCEPT ![p] = job[p]]
    BY <2>1 DEF TypeInv, TypeOK
  <2>5. /\ job' \in [Proc -> Jobs] /\ pc' \in [Proc -> PCs] /\ \A q \in Proc : Fits(job'[q], pc'[q])
        /\ pc'[p] \notin Creating /\ \A q \in Proc : q # p => job'[q] = job[q] /\ pc'[q] = pc[q]
    BY <2>1, <2>2, <2>3, <2>4, Moves
  <2> QED BY <1>1, <2>5, JobStep
<1>5. CASE CreateSeek(p) /\ ~Finish(p)
  <2>1. /\ pc[p] = "create_seek" /\ pc' = [pc EXCEPT ![p] = "create_write"]
        /\ job' = [job EXCEPT ![p].at = Len(ring[job[p].place]) + 1]
    BY <1>5 DEF CreateSeek, Goto
  <2>2. PICK j \in Jobs : /\ Fits(j, "create_write") /\ job' = [job EXCEPT ![p] = j]
                          /\ j.key = job[p].key
    BY <2>1, SeekJob
  <2>3. "create_write" \in PCs /\ pc[p] \in Creating
    BY <2>1 DEF PCs, Creating
  <2>4. /\ job' \in [Proc -> Jobs] /\ pc' \in [Proc -> PCs] /\ \A q \in Proc : Fits(job'[q], pc'[q])
        /\ job'[p] = j /\ \A q \in Proc : q # p => job'[q] = job[q] /\ pc'[q] = pc[q]
    BY <2>1, <2>2, <2>3, Moves
  <2> QED BY <1>1, <2>2, <2>3, <2>4, JobStep
<1> QED BY <1>2, <1>3, <1>4, <1>5

LEMMA ProviderTypes ==
    ASSUME TypeInv, NEW p \in Proc,
           \/ \E s \in Scope, n \in Name, f \in Place : AddProvider(p, s, n, f)
           \/ ChangeWrite(p) \/ DeleteWrite(p)
    PROVE  TypeInv'
<1>1. UNCHANGED <<ring, made, lock, hdr>>
  BY DEF AddProvider, ChangeWrite, DeleteWrite
<1>2. /\ hdr' \in [Owner -> Headers \cup {None}] /\ lock' \in Proc \cup {None}
      /\ IdInv /\ prov \in [Scope -> Seq(Records)]
  BY <1>1 DEF TypeInv, TypeOK
<1>3. prov' \in [Scope -> Seq(Records)] /\ IdInv'
  <2>1. CASE prov' = prov
    BY <1>2, <2>1 DEF IdInv
  <2>2. CASE prov' # prov /\ ChangeWrite(p)
    BY <2>2, ChangeFacts
  <2>3. CASE prov' # prov /\ DeleteWrite(p)
    BY <2>3, DeleteFacts
  <2>4. CASE \E s \in Scope, n \in Name, f \in Place : AddProvider(p, s, n, f)
    BY <2>4, AddFacts DEF AddProvider
  <2> QED BY <2>1, <2>2, <2>3, <2>4
<1>4. CASE Finish(p)
  <2>1. /\ job' \in [Proc -> Jobs] /\ pc' \in [Proc -> PCs] /\ \A q \in Proc : Fits(job'[q], pc'[q])
        /\ \A q \in Proc : pc'[q] \in Creating => pc[q] \in Creating /\ job'[q].key = job[q].key
    BY <1>4, Finishes, NoJobFacts
  <2> QED BY <1>1, <1>2, <1>3, <2>1, NoKeyStep
<1>5. CASE UNCHANGED <<job, pc>>
  <2>1. /\ job' \in [Proc -> Jobs] /\ pc' \in [Proc -> PCs] /\ \A q \in Proc : Fits(job'[q], pc'[q])
        /\ \A q \in Proc : pc'[q] \in Creating => pc[q] \in Creating /\ job'[q].key = job[q].key
    BY <1>5 DEF TypeInv, TypeOK
  <2> QED BY <1>1, <1>2, <1>3, <2>1, NoKeyStep
<1>6. Finish(p) \/ UNCHANGED <<job, pc>>
  BY DEF AddProvider, ChangeWrite, DeleteWrite
<1> QED BY <1>4, <1>5, <1>6

LEMMA HeaderTypes ==
    ASSUME TypeInv,
           \/ \E p \in Proc : SetWrite(p)
           \/ \E o \in Owner : AdoptDefault(o) \/ DeleteKey(o)
           \/ Crash
    PROVE  TypeInv'
<1>1. UNCHANGED <<prov, ring, made>>
  BY DEF SetWrite, AdoptDefault, DeleteKey, Crash
<1>2. /\ prov' \in [Scope -> Seq(Records)] /\ IdInv' /\ lock \in Proc \cup {None}
      /\ hdr \in [Owner -> Headers \cup {None}]
  BY <1>1 DEF TypeInv, TypeOK, IdInv
<1>3. CASE \E p \in Proc : SetWrite(p)
  <2>1. PICK p \in Proc : SetWrite(p)
    BY <1>3
  <2>2. [prov |-> job[p].id, key |-> job[p].key] \in Headers
    BY <2>1, Facts DEF SetWrite, Fits, Headers, Jobs
  <2>3. hdr' \in [Owner -> Headers \cup {None}] /\ lock' \in Proc \cup {None}
    BY <1>2, <2>1, <2>2 DEF SetWrite
  <2>4. /\ job' \in [Proc -> Jobs] /\ pc' \in [Proc -> PCs] /\ \A q \in Proc : Fits(job'[q], pc'[q])
        /\ \A q \in Proc : pc'[q] \in Creating => pc[q] \in Creating /\ job'[q].key = job[q].key
    BY <2>1, Finishes, NoJobFacts DEF SetWrite
  <2> QED BY <1>1, <1>2, <2>3, <2>4, NoKeyStep
<1>4. CASE \E o \in Owner : AdoptDefault(o) \/ DeleteKey(o)
  <2>1. hdr' \in [Owner -> Headers \cup {None}] /\ UNCHANGED <<lock, job, pc>>
    BY <1>2, <1>4 DEF AdoptDefault, DeleteKey
  <2>2. /\ job' \in [Proc -> Jobs] /\ pc' \in [Proc -> PCs] /\ \A q \in Proc : Fits(job'[q], pc'[q])
        /\ \A q \in Proc : pc'[q] \in Creating => pc[q] \in Creating /\ job'[q].key = job[q].key
    BY <2>1 DEF TypeInv, TypeOK
  <2> QED BY <1>1, <1>2, <2>1, <2>2, NoKeyStep
<1>5. CASE Crash
  <2>1. /\ job' \in [Proc -> Jobs] /\ pc' \in [Proc -> PCs] /\ \A q \in Proc : Fits(job'[q], pc'[q])
        /\ \A q \in Proc : pc'[q] \in Creating => pc[q] \in Creating /\ job'[q].key = job[q].key
    BY <1>5, NoJobFacts DEF Crash, PCs
  <2>2. hdr' \in [Owner -> Headers \cup {None}] /\ lock' \in Proc \cup {None}
    BY <1>2, <1>5 DEF Crash
  <2> QED BY <1>1, <1>2, <2>1, <2>2, NoKeyStep
<1> QED BY <1>3, <1>4, <1>5

LEMMA CreateKeyTypes ==
    ASSUME TypeInv, NEW p \in Proc, NEW s \in Scope, NEW n \in Name, NEW k \in KeyName,
           CreateKey(p, s, n, k)
    PROVE  TypeInv'
<1>1. PICK j \in Jobs : /\ Fits(j, "create_seek") /\ job' = [job EXCEPT ![p] = j]
                        /\ j.key.mat = made + 1
  BY CreateKeyJob
<1>2. /\ pc' = [pc EXCEPT ![p] = "create_seek"] /\ "create_seek" \in PCs /\ pc[p] = "idle"
      /\ UNCHANGED <<prov, ring, hdr, lock>> /\ made' = made + 1 /\ made < MaxKeys
  BY DEF CreateKey, Goto, PCs
<1>3. /\ job' \in [Proc -> Jobs] /\ pc' \in [Proc -> PCs] /\ \A q \in Proc : Fits(job'[q], pc'[q])
      /\ job'[p] = j /\ \A q \in Proc : q # p => job'[q] = job[q] /\ pc'[q] = pc[q]
  BY <1>1, <1>2, Moves
<1>4. TypeOK'
  <2>1. made' \in 0 .. MaxKeys
    BY <1>2, Facts, KeyProvidersAssumption
  <2> QED BY <1>2, <1>3, <2>1 DEF TypeInv, TypeOK
<1>5. IdInv'
  BY <1>2 DEF TypeInv, IdInv
<1>6. /\ \A f \in Place : \A i \in DOMAIN ring[f] :
            ring[f][i].mat \in Int /\ ring[f][i].mat <= made
      /\ \A q \in Proc : pc[q] \in Creating => job[q].key.mat \in Int /\ job[q].key.mat <= made
      /\ made \in Nat
  <2>1. \A f \in Place : \A i \in DOMAIN ring[f] : ring[f][i] \in Keys
    BY Facts, SeqFacts
  <2>2. \A q \in Proc : pc[q] \in Creating => job[q].key \in Keys
    BY Facts DEF Fits
  <2>3. \A g \in Keys : g.mat \in Int
    BY DEF Keys
  <2> QED BY <2>1, <2>2, <2>3, Facts DEF TypeInv, MatInv
<1>7. MatInv'
  <2> SUFFICES /\ \A f \in Place : \A i \in DOMAIN ring[f] : ring[f][i].mat <= made + 1
               /\ \A f \in Place : \A i, l \in DOMAIN ring[f] :
                     ring[f][i].mat = ring[f][l].mat => i = l
               /\ \A q \in Proc : pc'[q] \in Creating =>
                     /\ job'[q].key.mat <= made + 1
                     /\ \A f \in Place : \A i \in DOMAIN ring[f] :
                           ring[f][i].mat # job'[q].key.mat
               /\ \A q, r \in Proc : /\ pc'[q] \in Creating /\ pc'[r] \in Creating
                                     /\ job'[q].key.mat = job'[r].key.mat
                                     => q = r
    BY <1>2 DEF MatInv
  <2>1. \A f \in Place : \A i \in DOMAIN ring[f] : ring[f][i].mat <= made + 1
                                                   /\ ring[f][i].mat # made + 1
    BY <1>6
  <2>2. \A f \in Place : \A i, l \in DOMAIN ring[f] : ring[f][i].mat = ring[f][l].mat => i = l
    BY DEF TypeInv, MatInv
  <2>3. ASSUME NEW q \in Proc, pc'[q] \in Creating
        PROVE  /\ job'[q].key.mat <= made + 1
               /\ q # p => job'[q].key.mat # made + 1
               /\ \A f \in Place : \A i \in DOMAIN ring[f] : ring[f][i].mat # job'[q].key.mat
    <3>1. CASE q = p
      BY <1>1, <1>3, <1>6, <2>1, <3>1
    <3>2. CASE q # p
      <4>1. pc[q] \in Creating /\ job'[q] = job[q]
        BY <1>3, <2>3, <3>2
      <4>2. job[q].key.mat <= made + 1 /\ job[q].key.mat # made + 1
        BY <1>6, <4>1
      <4> QED BY <4>1, <4>2 DEF TypeInv, MatInv
    <3> QED BY <3>1, <3>2
  <2>4. ASSUME NEW q \in Proc, NEW r \in Proc, pc'[q] \in Creating, pc'[r] \in Creating,
               job'[q].key.mat = job'[r].key.mat
        PROVE  q = r
    <3>1. CASE q = p \/ r = p
      BY <1>1, <1>3, <2>3, <2>4, <3>1
    <3>2. CASE q # p /\ r # p
      BY <1>3, <2>4, <3>2 DEF TypeInv, MatInv
    <3> QED BY <3>1, <3>2
  <2> QED BY <2>1, <2>2, <2>3, <2>4
<1> QED BY <1>3, <1>4, <1>5, <1>7 DEF TypeInv

\* A key goes to the end of its keyring file, or over an entry.
LEMMA CreateWriteFacts ==
    ASSUME TypeInv, NEW p \in Proc, CreateWrite(p)
    PROVE  LET f == job[p].place IN
           /\ f \in Place /\ job[p].key \in Keys /\ ring' \in [Place -> Seq(Keys)]
           /\ \E i \in 1 .. (Len(ring[f]) + 1) :
                 /\ DOMAIN ring'[f] = DOMAIN ring[f] \cup {i} /\ ring'[f][i] = job[p].key
                 /\ \A j \in DOMAIN ring[f] : j # i => ring'[f][j] = ring[f][j]
                 /\ job[p].at = Len(ring[f]) + 1 => i = job[p].at
           /\ \A z \in Place : z # f => ring'[z] = ring[z]
<1> DEFINE f == job[p].place
           g == job[p].key
           a == job[p].at
           q == ring[f]
           i == IF a > Len(q) THEN Len(q) + 1 ELSE a
           t == IF i > Len(q) THEN Append(q, g) ELSE [q EXCEPT ![i] = g]
<1>1. f \in Place /\ g \in Keys /\ a # 0 /\ job[p] \in Jobs
  BY Facts DEF CreateWrite, Fits, Creating
<1>2. a \in 0 .. (MaxKeys + 1)
  BY <1>1 DEF Jobs
<1>3. q \in Seq(Keys) /\ Len(q) \in Nat /\ ring \in [Place -> Seq(Keys)]
  BY <1>1, Facts, SeqFacts DEF TypeInv, TypeOK
<1>4. i \in 1 .. (Len(q) + 1) /\ (a = Len(q) + 1 => i = a) /\ (i > Len(q) <=> a > Len(q))
  BY <1>1, <1>2, <1>3, KeyProvidersAssumption
<1>5. ring' = [ring EXCEPT ![f] = t]
  BY <1>4 DEF CreateWrite
<1> HIDE DEF i
<1>6. /\ t \in Seq(Keys) /\ DOMAIN t = DOMAIN q \cup {i} /\ t[i] = g
      /\ \A j \in DOMAIN q : j # i => t[j] = q[j]
  <2>1. t = IF i > Len(q) THEN Append(q, g) ELSE [q EXCEPT ![i] = g]
    OBVIOUS
  <2> HIDE DEF f, g, a, q, t
  <2>2. g \in Keys /\ q \in Seq(Keys) /\ i \in 1 .. (Len(q) + 1)
    BY <1>1, <1>3, <1>4
  <2> QED BY <2>1, <2>2, PutFacts
<1> HIDE DEF t
<1>7. ring'[f] = t /\ ring' \in [Place -> Seq(Keys)] /\ \A z \in Place : z # f => ring'[z] = ring[z]
  BY <1>1, <1>3, <1>5, <1>6
<1> QED BY <1>1, <1>4, <1>6, <1>7

LEMMA CreateWriteTypes ==
    ASSUME TypeInv, NEW p \in Proc, CreateWrite(p)
    PROVE  TypeInv'
<1> DEFINE f == job[p].place
           g == job[p].key
<1>1. /\ f \in Place /\ g \in Keys /\ ring' \in [Place -> Seq(Keys)]
      /\ \A z \in Place : z # f => ring'[z] = ring[z]
  BY CreateWriteFacts
<1>2. PICK i \in 1 .. (Len(ring[f]) + 1) :
         /\ DOMAIN ring'[f] = DOMAIN ring[f] \cup {i} /\ ring'[f][i] = g
         /\ \A j \in DOMAIN ring[f] : j # i => ring'[f][j] = ring[f][j]
  BY CreateWriteFacts
<1>3. pc[p] \in Creating /\ Finish(p) /\ UNCHANGED <<prov, hdr, made, lock>>
  BY DEF CreateWrite, Creating
<1>4. /\ job' \in [Proc -> Jobs] /\ pc' \in [Proc -> PCs] /\ \A q \in Proc : Fits(job'[q], pc'[q])
      /\ pc'[p] \notin Creating /\ \A q \in Proc : q # p => job'[q] = job[q] /\ pc'[q] = pc[q]
  BY <1>3, Finishes, NoJobFacts
<1>5. TypeOK' /\ IdInv'
  BY <1>1, <1>3, <1>4 DEF TypeInv, TypeOK, IdInv
<1>6. /\ g.mat <= made
      /\ \A z \in Place : \A l \in DOMAIN ring[z] : ring[z][l].mat # g.mat
  BY <1>3 DEF TypeInv, MatInv
<1>7. \A z \in Place : \A l \in DOMAIN ring'[z] :
         ring'[z][l] = g \/ (l \in DOMAIN ring[z] /\ ring'[z][l] = ring[z][l])
  BY <1>1, <1>2
<1>8. \A z \in Place : \A l, m \in DOMAIN ring'[z] :
         ring'[z][l].mat = ring'[z][m].mat => l = m
  <2> TAKE z \in Place
  <2>1. CASE z # f
    BY <1>1, <2>1 DEF TypeInv, MatInv
  <2>2. CASE z = f
    BY <1>2, <1>6, <2>2 DEF TypeInv, MatInv
  <2> QED BY <2>1, <2>2
<1>9. \A q \in Proc : pc'[q] \in Creating =>
         /\ job'[q].key.mat <= made
         /\ \A z \in Place : \A l \in DOMAIN ring'[z] : ring'[z][l].mat # job'[q].key.mat
  <2> SUFFICES ASSUME NEW q \in Proc, pc'[q] \in Creating
               PROVE  /\ job'[q].key.mat <= made
                      /\ \A z \in Place : \A l \in DOMAIN ring'[z] :
                            ring'[z][l].mat # job'[q].key.mat
    OBVIOUS
  <2>1. q # p /\ job'[q] = job[q] /\ pc[q] \in Creating
    BY <1>4
  <2>2. job[q].key.mat # g.mat
    BY <1>3, <2>1 DEF TypeInv, MatInv
  <2> QED BY <1>7, <2>1, <2>2 DEF TypeInv, MatInv
<1>10. \A q, r \in Proc : /\ pc'[q] \in Creating /\ pc'[r] \in Creating
                          /\ job'[q].key.mat = job'[r].key.mat
                          => q = r
  BY <1>4 DEF TypeInv, MatInv
<1>11. \A z \in Place : \A l \in DOMAIN ring'[z] : ring'[z][l].mat <= made
  BY <1>6, <1>7 DEF TypeInv, MatInv
<1>12. MatInv'
  BY <1>3, <1>8, <1>9, <1>10, <1>11 DEF MatInv
<1> QED BY <1>4, <1>5, <1>12 DEF TypeInv

LEMMA NextTypeInv == TypeInv /\ [Next]_vars => TypeInv'
<1> SUFFICES ASSUME TypeInv, [Next]_vars PROVE TypeInv'
  OBVIOUS
<1>1. CASE UNCHANGED vars
  BY <1>1 DEF vars, TypeInv, TypeOK, IdInv, MatInv
<1>2. CASE Next
  <2>1. ASSUME NEW p \in Proc, NEW s \in Scope, NEW n \in Name,
               \/ \E f \in Place : AddProvider(p, s, n, f) \/ ChangeProvider(p, s, n, f)
               \/ DeleteProvider(p, s, n)
               \/ \E k \in KeyName : CreateKey(p, s, n, k)
               \/ \E o \in Owner, k \in KeyName : SetKey(p, o, s, n, k)
        PROVE  TypeInv'
    BY <2>1, LookupTypes, ProviderTypes, CreateKeyTypes
  <2>2. ASSUME NEW p \in Proc,
               \/ ChangeVerify(p) \/ ChangeWrite(p) \/ DeleteCheck(p) \/ DeleteWrite(p)
               \/ CreateSeek(p) \/ CreateWrite(p) \/ SetWrite(p)
        PROVE  TypeInv'
    BY <2>2, CheckTypes, ProviderTypes, CreateWriteTypes, HeaderTypes
  <2>3. ASSUME (\E o \in Owner : AdoptDefault(o) \/ DeleteKey(o)) \/ Crash
        PROVE  TypeInv'
    BY <2>3, HeaderTypes
  <2> QED BY <1>2, <2>1, <2>2, <2>3 DEF Next
<1> QED BY <1>1, <1>2

\* Whatever backends do at the same time: ids stay in their width, and no id of a
\* provider file comes to mean another provider, deleted ones included.
THEOREM IdsAlwaysUnique == Spec => []IdsNeverReused
<1>1. TypeInv => IdsNeverReused
  BY DEF TypeInv, IdInv, IdsNeverReused
<1> QED BY <1>1, InitTypeInv, NextTypeInv, PTL DEF Spec

-----------------------------------------------------------------------------
(* One backend at a time.                                                  *)

OneBackend == \A p, q \in Proc : p = q

\* Header h of o keeps what it names when every record it may name does.
LEMMA HeaderKept ==
    ASSUME NEW o, NEW h, HeaderOK(o, h),
           \A s, i : /\ s = ScopeOf(o, h.prov) /\ Leads(s, i) /\ prov[s][i].id = h.prov
                     => /\ Leads(s, i)' /\ prov'[s][i].id = h.prov
                        /\ Vouching /\ KeyAt(prov[s][i].place, h.key.name, h.key)
                              => KeyAt(prov[s][i].place, h.key.name, h.key)'
    PROVE  HeaderOK(o, h)'
<1> DEFINE s == ScopeOf(o, h.prov)
<1>1. PICK i \in DOMAIN prov[s] :
         /\ Leads(s, i) /\ prov[s][i].id = h.prov
         /\ Vouching => KeyAt(prov[s][i].place, h.key.name, h.key)
  BY DEF HeaderOK
<1>2. PICK z : z = s
  OBVIOUS
<1>3. /\ Leads(z, i)' /\ prov'[z][i].id = h.prov
      /\ Vouching => KeyAt(prov[z][i].place, h.key.name, h.key)'
  BY <1>1, <1>2
<1>4. i \in DOMAIN prov'[z]
  BY <1>3 DEF Leads
<1>5. h.prov >= 0 => o \in Db
  BY DEF HeaderOK
<1>6. z = ScopeOf(o, h.prov)
  BY <1>2
<1> HIDE DEF s
<1> QED BY <1>3, <1>4, <1>5, <1>6 DEF HeaderOK, ScopeOf, Vouching

\* Headers keep what they name when every record they may name does.
LEMMA HeadersStay ==
    ASSUME HeadersOK, hdr' = hdr,
           \A o \in Owner : \A h, s, i :
              /\ h = hdr[o] /\ h # None /\ s = ScopeOf(o, h.prov)
              /\ Leads(s, i) /\ prov[s][i].id = h.prov
              => /\ Leads(s, i)' /\ prov'[s][i].id = h.prov
                 /\ Vouching /\ KeyAt(prov[s][i].place, h.key.name, h.key)
                       => KeyAt(prov[s][i].place, h.key.name, h.key)'
    PROVE  HeadersOK'
<1> SUFFICES ASSUME NEW o \in Owner, hdr'[o] # None PROVE HeaderOK(o, hdr[o])'
  BY DEF HeadersOK
<1>1. PICK h : h = hdr[o]
  OBVIOUS
<1>2. HeaderOK(o, h)
  BY <1>1 DEF HeadersOK
<1>3. HeaderOK(o, h)'
  BY <1>1, <1>2, HeaderKept
<1> QED BY <1>1, <1>3 DEF HeaderOK

\* The same with neither providers nor keyrings changed.
LEMMA HeadersSame ==
    ASSUME HeadersOK, UNCHANGED <<prov, ring, hdr>>
    PROVE  HeadersOK'
<1>1. \A o, h : HeaderOK(o, h)' <=> HeaderOK(o, h)
  BY DEF HeaderOK, Leads, KeyAt, ScopeOf, Vouching, Live
<1>2. ASSUME NEW o \in Owner, hdr'[o] # None PROVE HeaderOK(o, hdr[o])'
  <2>1. PICK h : h = hdr[o] /\ h = hdr'[o]
    OBVIOUS
  <2>2. HeaderOK(o, h)'
    BY <1>1, <1>2, <2>1 DEF HeadersOK
  <2> QED BY <2>1, <2>2 DEF HeaderOK
<1> QED BY <1>2 DEF HeadersOK

\* A backend that does nothing has found out nothing.
LEMMA IdleFound ==
    ASSUME NEW p \in Proc, pc'[p] \in {"idle", "create_seek"}
    PROVE  FoundOK(p)'
BY DEF FoundOK, Choosing

\* A record found by its name leads.
LEMMA FoundLeads ==
    ASSUME NEW s, NEW n, NEW i, ByName(s, n, i)
    PROVE  Leads(s, i)
BY DEF ByName, First, Leads

\* A provider keeps its keys while neither it nor the keyrings change.
LEMMA KeyStays ==
    ASSUME NEW s, NEW i, NEW h, ring' = ring, prov'[s][i].place = prov[s][i].place,
           KeyAt(prov[s][i].place, h.key.name, h.key)
    PROVE  KeyAt(prov[s][i].place, h.key.name, h.key)'
<1>1. PICK f : f = prov[s][i].place
  OBVIOUS
<1>2. PICK k : k = h.key
  OBVIOUS
<1>3. KeyAt(f, k.name, k)
  BY <1>1, <1>2
<1>4. KeyAt(f, k.name, k)'
  BY <1>3 DEF KeyAt
<1> QED BY <1>1, <1>2, <1>4 DEF KeyAt

\* A header names a record of a provider file: global ids are negative.
LEMMA ScopeOfHeader ==
    ASSUME OneInv, NEW o \in Owner, NEW h, h = hdr[o], h # None
    PROVE  /\ ScopeOf(o, h.prov) \in Scope /\ h.prov \in Int /\ HeaderOK(o, h)
           /\ o = Default => h.prov < 0
<1>1. HeaderOK(o, h)
  BY DEF OneInv, HeadersOK
<1>2. h \in Headers
  BY Facts DEF OneInv
<1>3. h.prov \in Int
  BY <1>2, KeyProvidersAssumption DEF Headers, Ids
<1>4. h.prov >= 0 => o \in Db
  BY <1>1 DEF HeaderOK
<1> QED BY <1>1, <1>3, <1>4, KeyProvidersAssumption DEF ScopeOf, Scope

\* A provider added at the end of its file leaves the others leading.
LEMMA AddKeeps ==
    ASSUME OneInv, NEW p \in Proc, NEW s \in Scope, NEW n \in Name, NEW f \in Place,
           AddProvider(p, s, n, f)
    PROVE  HeadersOK' /\ FoundOK(p)'
<1>1. /\ DOMAIN prov[s] \subseteq DOMAIN prov'[s]
      /\ \A j \in DOMAIN prov[s] : prov'[s][j] = prov[s][j]
      /\ \A z \in Scope : z # s => prov'[z] = prov[z]
  BY AddFacts DEF OneInv, AddProvider
<1>2. \A z \in Scope : DOMAIN prov[z] = 1 .. Len(prov[z]) /\ Len(prov[z]) \in Nat
  BY Facts, SeqFacts DEF OneInv
<1>3. ASSUME NEW z \in Scope, NEW i, Leads(z, i)
      PROVE  Leads(z, i)' /\ prov'[z][i] = prov[z][i]
  <2>1. CASE z # s
    BY <1>1, <1>3, <2>1 DEF Leads, Live
  <2>2. CASE z = s
    <3>1. i \in 1 .. Len(prov[s]) /\ 1 .. (i - 1) \subseteq DOMAIN prov[s]
      BY <1>2, <1>3, <2>2 DEF Leads
    <3>2. \A j \in 1 .. (i - 1) : prov'[s][j] = prov[s][j]
      BY <1>1, <3>1
    <3>3. i \in DOMAIN prov'[s] /\ prov'[s][i] = prov[s][i]
      BY <1>1, <1>2, <3>1
    <3> QED BY <1>3, <2>2, <3>2, <3>3 DEF Leads, Live
  <2> QED BY <2>1, <2>2
<1>4. UNCHANGED <<hdr, ring, pc>> /\ pc[p] = "idle"
  BY DEF AddProvider
<1>5. HeadersOK'
  <2>1. HeadersOK
    BY DEF OneInv
  <2>2. ASSUME NEW o \in Owner, NEW h, NEW z, NEW i, h = hdr[o], h # None,
               z = ScopeOf(o, h.prov), Leads(z, i), prov[z][i].id = h.prov
        PROVE  /\ Leads(z, i)' /\ prov'[z][i].id = h.prov
               /\ Vouching /\ KeyAt(prov[z][i].place, h.key.name, h.key)
                     => KeyAt(prov[z][i].place, h.key.name, h.key)'
    <3>1. z \in Scope
      BY <2>2, ScopeOfHeader
    <3>2. Leads(z, i)' /\ prov'[z][i] = prov[z][i]
      BY <1>3, <2>2, <3>1
    <3>3. ring' = ring
      BY <1>4
    <3> QED BY <2>2, <3>2, <3>3, KeyStays
  <2> QED BY <1>4, <2>1, <2>2, HeadersStay
<1> QED BY <1>4, <1>5, IdleFound

\* A change moves the keyring of the record that was verified.
LEMMA ChangeKeeps ==
    ASSUME OneInv, NEW p \in Proc, ChangeWrite(p)
    PROVE  HeadersOK' /\ FoundOK(p)'
<1>1. pc[p] = "change_write" /\ Finish(p) /\ UNCHANGED <<hdr, ring>>
  BY DEF ChangeWrite
<1>2. FoundOK(p)' /\ HeadersOK /\ TypeInv
  BY <1>1, Finishes, IdleFound DEF OneInv
<1>3. CASE prov' = prov
  BY <1>1, <1>2, <1>3, HeadersSame
<1>4. CASE prov' # prov
  <2>1. PICK s, n, f, id : /\ s \in Scope /\ s = job[p].scope /\ n = job[p].name
                           /\ f = job[p].place /\ id = job[p].id
    BY <1>1, <1>2, Facts DEF Fits, Choosing
  <2>2. PICK c \in DOMAIN prov[s] :
           /\ prov[s][c].id = id
           /\ DOMAIN prov'[s] = DOMAIN prov[s]
           /\ prov'[s][c].id = prov[s][c].id /\ prov'[s][c].name = prov[s][c].name
           /\ prov'[s][c].place = f
           /\ \A j \in DOMAIN prov[s] : j # c => prov'[s][j] = prov[s][j]
           /\ \A z \in Scope : z # s => prov'[z] = prov[z]
    BY <1>2, <1>4, <2>1, ChangeFacts
  <2>3. \A z \in Scope : /\ DOMAIN prov[z] = 1 .. Len(prov[z]) /\ Len(prov[z]) \in Nat
                         /\ DOMAIN prov'[z] = DOMAIN prov[z]
                         /\ \A j \in DOMAIN prov[z] : /\ prov'[z][j].id = prov[z][j].id
                                                      /\ prov'[z][j].name = prov[z][j].name
    BY <1>2, <2>2, Facts, SeqFacts
  <2>4. ASSUME NEW z \in Scope, NEW i, Leads(z, i)
        PROVE  Leads(z, i)' /\ i \in DOMAIN prov[z]
    <3>1. i \in DOMAIN prov[z] /\ 1 .. (i - 1) \subseteq DOMAIN prov[z]
      BY <2>3, <2>4 DEF Leads
    <3> QED BY <2>3, <2>4, <3>1 DEF Leads, Live
  <2>5. s \in Changeable /\ (Vouching => Verified(id, f)) /\ RecordOK(s, prov[s][c])
    <3>1. FoundOK(p)
      BY DEF OneInv
    <3>2. s \in Changeable
      BY <1>1, <2>1, <3>1 DEF FoundOK
    <3>3. Vouching => Verified(id, f)
      BY <1>1, <2>1, <3>1 DEF FoundOK
    <3> QED BY <1>2, <2>1, <3>2, <3>3 DEF TypeInv, IdInv
  <2>6. ASSUME NEW o \in Owner, NEW h, NEW z, NEW i, h = hdr[o], h # None,
               z = ScopeOf(o, h.prov), Leads(z, i), prov[z][i].id = h.prov
        PROVE  /\ Leads(z, i)' /\ prov'[z][i].id = h.prov
               /\ Vouching /\ KeyAt(prov[z][i].place, h.key.name, h.key)
                     => KeyAt(prov[z][i].place, h.key.name, h.key)'
    <3>1. z \in Scope /\ (o = Default => h.prov < 0)
      BY <2>6, ScopeOfHeader
    <3>2. Leads(z, i)' /\ i \in DOMAIN prov[z] /\ prov'[z][i].id = h.prov
      BY <2>3, <2>4, <2>6, <3>1
    <3>3. ASSUME Vouching, KeyAt(prov[z][i].place, h.key.name, h.key)
          PROVE  KeyAt(prov[z][i].place, h.key.name, h.key)'
      <4>1. CASE z = s /\ i = c
        <5>1. o # Default
          BY <2>5, <2>6, <3>1, <3>3, <4>1, KeyProvidersAssumption DEF Vouching, RecordOK
        <5>2. KeyAt(f, h.key.name, h.key)
          BY <2>2, <2>5, <2>6, <3>3, <4>1, <5>1 DEF Verified
        <5>3. PICK k : k = h.key
          OBVIOUS
        <5>4. KeyAt(f, k.name, k)'
          BY <1>1, <5>2, <5>3 DEF KeyAt
        <5>5. prov'[z][i].place = f
          BY <2>2, <4>1
        <5> QED BY <5>3, <5>4, <5>5 DEF KeyAt
      <4>2. CASE ~(z = s /\ i = c)
        <5>1. prov'[z][i] = prov[z][i] /\ ring' = ring
          BY <1>1, <2>2, <3>1, <3>2, <4>2
        <5> QED BY <3>3, <5>1, KeyStays
      <4> QED BY <4>1, <4>2
    <3> QED BY <3>2, <3>3
  <2>7. HeadersOK'
    BY <1>1, <1>2, <2>6, HeadersStay
  <2> QED BY <1>2, <2>7
<1> QED BY <1>3, <1>4

\* The record deleted by its exact name is the one that was checked, or does not
\* lead.
LEMMA DeleteKeeps ==
    ASSUME OneInv, NEW p \in Proc, DeleteWrite(p)
    PROVE  HeadersOK' /\ FoundOK(p)'
<1>1. pc[p] = "delete_write" /\ Finish(p) /\ UNCHANGED <<hdr, ring>>
  BY DEF DeleteWrite
<1>2. FoundOK(p)' /\ HeadersOK /\ TypeInv
  BY <1>1, Finishes, IdleFound DEF OneInv
<1>3. CASE prov' = prov
  BY <1>1, <1>2, <1>3, HeadersSame
<1>4. CASE prov' # prov
  <2>1. PICK s, n, id : /\ s \in Scope /\ s = job[p].scope /\ n = job[p].name
                        /\ id = job[p].id
    BY <1>1, <1>2, Facts DEF Fits, Choosing
  <2>2. PICK c \in DOMAIN prov[s] :
           /\ ByExactName(s, n, c) /\ DOMAIN prov'[s] = DOMAIN prov[s]
           /\ ~Live(prov'[s][c]) /\ prov'[s][c].id = prov[s][c].id
           /\ \A j \in DOMAIN prov[s] : j # c => prov'[s][j] = prov[s][j]
           /\ \A z \in Scope : z # s => prov'[z] = prov[z]
    BY <1>2, <1>4, <2>1, DeleteFacts
  <2>3. \A z \in Scope : /\ DOMAIN prov[z] = 1 .. Len(prov[z]) /\ Len(prov[z]) \in Nat
                         /\ DOMAIN prov'[z] = DOMAIN prov[z]
    BY <1>2, <2>2, Facts, SeqFacts
  <2>4. ASSUME NEW z \in Scope, NEW i, Leads(z, i), ~(z = s /\ i = c)
        PROVE  Leads(z, i)' /\ prov'[z][i] = prov[z][i]
    <3>1. i \in DOMAIN prov[z] /\ 1 .. (i - 1) \subseteq DOMAIN prov[z]
      BY <2>3, <2>4 DEF Leads
    <3>2. prov'[z][i] = prov[z][i]
      BY <2>2, <2>4, <3>1
    <3>3. \A j \in 1 .. (i - 1) : prov'[z][j] = prov[z][j] \/ ~Live(prov'[z][j])
      BY <2>2, <3>1
    <3> QED BY <2>3, <2>4, <3>1, <3>2, <3>3 DEF Leads, Live
  <2>5. ~Used(s, id) /\ \E i \in DOMAIN prov[s] : ByName(s, n, i) /\ prov[s][i].id = id
    BY <1>1, <2>1 DEF OneInv, FoundOK, Choosing
  <2>6. ASSUME Leads(s, c) PROVE prov[s][c].id = id
    <3>1. PICK i \in DOMAIN prov[s] : ByName(s, n, i) /\ prov[s][i].id = id
      BY <2>5
    <3>2. i \in 1 .. Len(prov[s]) /\ c \in 1 .. Len(prov[s]) /\ Len(prov[s]) \in Nat
      BY <2>1, <2>2, <2>3, <3>1
    <3>3. Live(prov[s][c]) /\ prov[s][c].name = n
      BY <2>2 DEF ByExactName, First
    <3>4. /\ Live(prov[s][i]) /\ Fold[prov[s][i].name] = Fold[n]
          /\ \A j \in 1 .. (i - 1) : ~(Live(prov[s][j]) /\ Fold[prov[s][j].name] = Fold[n])
      BY <3>1 DEF ByName, First
    <3>5. ~(i < c)
      <4>1. i < c => i \in 1 .. (c - 1)
        BY <3>2
      <4> QED BY <2>6, <3>3, <3>4, <4>1 DEF Leads
    <3>6. ~(c < i)
      <4>1. c < i => c \in 1 .. (i - 1)
        BY <3>2
      <4> QED BY <3>3, <3>4, <4>1
    <3>7. i = c
      BY <3>2, <3>5, <3>6
    <3> QED BY <3>1, <3>7
  <2>7. ASSUME NEW o \in Owner, NEW h, NEW z, NEW i, h = hdr[o], h # None,
               z = ScopeOf(o, h.prov), Leads(z, i), prov[z][i].id = h.prov
        PROVE  /\ Leads(z, i)' /\ prov'[z][i].id = h.prov
               /\ Vouching /\ KeyAt(prov[z][i].place, h.key.name, h.key)
                     => KeyAt(prov[z][i].place, h.key.name, h.key)'
    <3>1. z \in Scope
      BY <2>7, ScopeOfHeader
    <3>2. ~(z = s /\ i = c)
      <4> SUFFICES ASSUME z = s, i = c PROVE FALSE
        OBVIOUS
      <4>1. h.prov = id
        BY <2>6, <2>7
      <4>2. s = Global \/ o = s
        BY <2>7 DEF ScopeOf
      <4> QED BY <2>5, <2>7, <4>1, <4>2 DEF Used
    <3>3. Leads(z, i)' /\ prov'[z][i] = prov[z][i] /\ ring' = ring
      BY <1>1, <2>4, <2>7, <3>1, <3>2
    <3> QED BY <2>7, <3>3, KeyStays
  <2>8. HeadersOK'
    BY <1>1, <1>2, <2>7, HeadersStay
  <2> QED BY <1>2, <2>8
<1> QED BY <1>3, <1>4

\* Lookups, and checks that the backend carries on after.
LEMMA LookupKeeps ==
    ASSUME OneInv, NEW p \in Proc, NEW s \in Scope, NEW n \in Name,
           (\E f \in Place : ChangeProvider(p, s, n, f)) \/ DeleteProvider(p, s, n)
    PROVE  HeadersOK' /\ FoundOK(p)'
<1>1. UNCHANGED <<prov, ring, hdr>> /\ TypeInv /\ HeadersOK
  BY DEF OneInv, ChangeProvider, DeleteProvider
<1>2. HeadersOK'
  BY <1>1, HeadersSame
<1>3. ASSUME NEW j \in Jobs, NEW c \in {"change_verify", "delete_check"},
             job'[p] = j, pc'[p] = c, j.scope = s, j.name = n,
             c = "change_verify" => s \in Changeable,
             \E i \in DOMAIN prov[s] : ByName(s, n, i) /\ prov[s][i].id = j.id
      PROVE  FoundOK(p)'
  <2>1. \E i \in DOMAIN prov'[s] : ByName(s, n, i)' /\ prov'[s][i].id = j.id
    BY <1>1, <1>3 DEF ByName, First, Live
  <2> QED BY <1>3, <2>1 DEF FoundOK, ByName, First, Live
<1>4. CASE \E f \in Place : ChangeProvider(p, s, n, f)
  <2>1. PICK j \in Jobs : /\ Fits(j, "change_verify") /\ job' = [job EXCEPT ![p] = j]
                          /\ j.scope = s /\ j.name = n
                          /\ \E i \in DOMAIN prov[s] : ByName(s, n, i) /\ prov[s][i].id = j.id
    BY <1>1, <1>4, LookupJobs
  <2>2. pc' = [pc EXCEPT ![p] = "change_verify"] /\ "change_verify" \in PCs /\ s \in Changeable
    BY <1>4 DEF ChangeProvider, Goto, PCs
  <2>3. job'[p] = j /\ pc'[p] = "change_verify"
    BY <1>1, <2>1, <2>2, Moves
  <2> QED BY <1>2, <1>3, <2>1, <2>2, <2>3
<1>5. CASE DeleteProvider(p, s, n)
  <2>1. PICK j \in Jobs : /\ Fits(j, "delete_check") /\ job' = [job EXCEPT ![p] = j]
                          /\ j.scope = s /\ j.name = n
                          /\ \E i \in DOMAIN prov[s] : ByName(s, n, i) /\ prov[s][i].id = j.id
    BY <1>1, <1>5, LookupJobs
  <2>2. pc' = [pc EXCEPT ![p] = "delete_check"] /\ "delete_check" \in PCs
    BY <1>5 DEF DeleteProvider, Goto, PCs
  <2>3. job'[p] = j /\ pc'[p] = "delete_check"
    BY <1>1, <2>1, <2>2, Moves
  <2> QED BY <1>2, <1>3, <2>1, <2>3
<1> QED BY <1>4, <1>5

LEMMA CheckKeeps ==
    ASSUME OneInv, NEW p \in Proc, ChangeVerify(p) \/ DeleteCheck(p) \/ CreateSeek(p)
    PROVE  HeadersOK' /\ FoundOK(p)'
<1>1. UNCHANGED <<prov, ring, hdr>> /\ TypeInv /\ HeadersOK /\ FoundOK(p)
  BY DEF OneInv, ChangeVerify, DeleteCheck, CreateSeek
<1>2. HeadersOK'
  BY <1>1, HeadersSame
<1>3. CASE Finish(p)
  BY <1>1, <1>2, <1>3, Finishes, IdleFound
<1>4. ASSUME NEW c \in {"change_write", "delete_write"}, job' = job, pc'[p] = c,
             pc[p] = IF c = "change_write" THEN "change_verify" ELSE "delete_check",
             c = "change_write" => Verified(job[p].id, job[p].place),
             c = "delete_write" => ~Used(job[p].scope, job[p].id)
      PROVE  FoundOK(p)'
  <2>1. /\ \E i \in DOMAIN prov[job[p].scope] :
              ByName(job[p].scope, job[p].name, i) /\ prov[job[p].scope][i].id = job[p].id
        /\ c = "change_write" => job[p].scope \in Changeable
    BY <1>1, <1>4 DEF FoundOK, Choosing
  <2>2. (\E i \in DOMAIN prov[job[p].scope] :
            ByName(job[p].scope, job[p].name, i) /\ prov[job[p].scope][i].id = job[p].id)'
    BY <1>1, <1>4, <2>1 DEF ByName, First, Live
  <2>3. c = "change_write" => Verified(job[p].id, job[p].place)'
    BY <1>1, <1>4 DEF Verified, KeyAt
  <2>4. c = "delete_write" => ~Used(job[p].scope, job[p].id)'
    BY <1>1, <1>4 DEF Used
  <2> QED BY <1>4, <2>1, <2>2, <2>3, <2>4 DEF FoundOK
<1>5. CASE ChangeVerify(p) /\ ~Finish(p)
  <2>1. /\ pc[p] = "change_verify" /\ pc' = [pc EXCEPT ![p] = "change_write"] /\ job' = job
        /\ Verified(job[p].id, job[p].place)
    BY <1>5 DEF ChangeVerify, Goto
  <2>2. pc'[p] = "change_write"
    BY <1>1, <2>1, Facts
  <2> QED BY <1>2, <1>4, <2>1, <2>2
<1>6. CASE DeleteCheck(p) /\ ~Finish(p)
  <2>1. /\ pc[p] = "delete_check" /\ pc' = [pc EXCEPT ![p] = "delete_write"] /\ job' = job
        /\ ~Used(job[p].scope, job[p].id)
    BY <1>6 DEF DeleteCheck, Goto
  <2>2. pc'[p] = "delete_write"
    BY <1>1, <2>1, Facts
  <2> QED BY <1>2, <1>4, <2>1, <2>2
<1>7. CASE CreateSeek(p) /\ ~Finish(p)
  <2>1. /\ pc[p] = "create_seek" /\ pc' = [pc EXCEPT ![p] = "create_write"]
        /\ job' = [job EXCEPT ![p].at = Len(ring[job[p].place]) + 1]
    BY <1>7 DEF CreateSeek, Goto
  <2>2. PICK j \in Jobs : /\ Fits(j, "create_write") /\ job' = [job EXCEPT ![p] = j]
                          /\ j.at = Len(ring[j.place]) + 1
    BY <1>1, <2>1, SeekJob
  <2>3. "create_write" \in PCs
    BY DEF PCs
  <2>4. job'[p] = j /\ pc'[p] = "create_write"
    BY <1>1, <2>1, <2>2, <2>3, Moves
  <2>5. FoundOK(p)'
    BY <1>1, <2>2, <2>4 DEF FoundOK, Choosing
  <2> QED BY <1>2, <2>5
<1> QED BY <1>3, <1>5, <1>6, <1>7

\* A key written at the end of a keyring hides no other.
LEMMA CreateKeeps ==
    ASSUME OneInv, NEW p \in Proc,
           \/ \E s \in Scope, n \in Name, k \in KeyName : CreateKey(p, s, n, k)
           \/ CreateWrite(p)
    PROVE  HeadersOK' /\ FoundOK(p)'
<1>1. UNCHANGED <<prov, hdr>> /\ TypeInv /\ HeadersOK
  BY DEF OneInv, CreateKey, CreateWrite
<1>2. CASE \E s \in Scope, n \in Name, k \in KeyName : CreateKey(p, s, n, k)
  <2>1. ring' = ring /\ pc' = [pc EXCEPT ![p] = "create_seek"]
    BY <1>2 DEF CreateKey, Goto
  <2>2. pc'[p] = "create_seek"
    BY <1>1, <2>1, Facts
  <2> QED BY <1>1, <2>1, <2>2, HeadersSame, IdleFound
<1>3. CASE CreateWrite(p)
  <2>1. PICK f \in Place, g \in Keys : f = job[p].place /\ g = job[p].key
    BY <1>1, <1>3, CreateWriteFacts
  <2>2. job[p].at = Len(ring[f]) + 1
    BY <1>3, <2>1 DEF OneInv, FoundOK, CreateWrite
  <2>3. /\ DOMAIN ring'[f] = DOMAIN ring[f] \cup {Len(ring[f]) + 1}
        /\ \A j \in DOMAIN ring[f] : j # Len(ring[f]) + 1 => ring'[f][j] = ring[f][j]
        /\ \A z \in Place : z # f => ring'[z] = ring[z]
    BY <1>1, <1>3, <2>1, <2>2, CreateWriteFacts
  <2>4. \A z \in Place : DOMAIN ring[z] = 1 .. Len(ring[z]) /\ Len(ring[z]) \in Nat
    BY <1>1, Facts, SeqFacts
  <2>5. ASSUME NEW z \in Place, NEW k \in Keys, KeyAt(z, k.name, k)
        PROVE  KeyAt(z, k.name, k)'
    <3>1. PICK i \in DOMAIN ring[z] : /\ ring[z][i] = k
                                      /\ \A j \in 1 .. (i - 1) : ring[z][j].name # k.name
      BY <2>5 DEF KeyAt
    <3>2. \A j \in DOMAIN ring[z] : j \in DOMAIN ring'[z] /\ ring'[z][j] = ring[z][j]
      BY <2>3, <2>4
    <3>3. 1 .. (i - 1) \subseteq DOMAIN ring[z]
      BY <2>4, <3>1
    <3> QED BY <3>1, <3>2, <3>3 DEF KeyAt
  <2>6. ASSUME NEW o \in Owner, NEW h, NEW z, NEW i, h = hdr[o], h # None,
               z = ScopeOf(o, h.prov), Leads(z, i), prov[z][i].id = h.prov
        PROVE  /\ Leads(z, i)' /\ prov'[z][i].id = h.prov
               /\ Vouching /\ KeyAt(prov[z][i].place, h.key.name, h.key)
                     => KeyAt(prov[z][i].place, h.key.name, h.key)'
    <3>1. z \in Scope
      BY <2>6, ScopeOfHeader
    <3>2. Leads(z, i)' /\ prov'[z][i] = prov[z][i]
      BY <1>1, <2>6 DEF Leads, Live
    <3>3. prov[z][i].place \in Place
      BY <1>1, <2>6, <3>1 DEF Leads, TypeInv, IdInv, RecordOK
    <3>4. h.key \in Keys
      BY <1>1, <2>6, Facts DEF Headers
    <3>5. PICK x \in Place, k \in Keys : x = prov[z][i].place /\ k = h.key
      BY <3>3, <3>4
    <3>6. KeyAt(x, k.name, k) => KeyAt(x, k.name, k)'
      BY <2>5
    <3>7. KeyAt(prov[z][i].place, h.key.name, h.key)
             => KeyAt(prov[z][i].place, h.key.name, h.key)'
      BY <3>2, <3>5, <3>6 DEF KeyAt
    <3> QED BY <2>6, <3>2, <3>7
  <2>7. HeadersOK'
    BY <1>1, <2>6, HeadersStay
  <2>8. pc'[p] = "idle"
    BY <1>1, <1>3, Finishes DEF CreateWrite
  <2> QED BY <2>7, <2>8, IdleFound
<1> QED BY <1>2, <1>3

\* A key is set from the provider that a lookup finds, ...
LEMMA SetKeyKeeps ==
    ASSUME OneInv, NEW p \in Proc, NEW o \in Owner, NEW s \in Scope, NEW n \in Name,
           NEW k \in KeyName, SetKey(p, o, s, n, k)
    PROVE  HeadersOK' /\ FoundOK(p)'
<1>1. UNCHANGED <<prov, ring, hdr>> /\ TypeInv /\ HeadersOK /\ MayUse(o, s) /\ lock' = p
  BY DEF OneInv, SetKey
<1>2. HeadersOK'
  BY <1>1, HeadersSame
<1>3. PICK j \in Jobs : /\ Fits(j, "set_write") /\ job' = [job EXCEPT ![p] = j] /\ j.owner = o
                        /\ \E i \in DOMAIN prov[s] :
                              /\ ByName(s, n, i) /\ prov[s][i].id = j.id
                              /\ KeyAt(prov[s][i].place, j.key.name, j.key)
  BY <1>1, SetKeyJob
<1>4. PICK i \in DOMAIN prov[s] : /\ ByName(s, n, i) /\ prov[s][i].id = j.id
                                  /\ KeyAt(prov[s][i].place, j.key.name, j.key)
  BY <1>3
<1>5. pc' = [pc EXCEPT ![p] = "set_write"] /\ "set_write" \in PCs
  BY DEF SetKey, Goto, PCs
<1>6. job'[p] = j /\ pc'[p] = "set_write"
  BY <1>1, <1>3, <1>5, Moves
<1>7. j.id \in Int /\ (j.id < 0 <=> s = Global)
  BY <1>1, <1>4, ByNameFacts, KeyProvidersAssumption DEF RecordOK, Ids
<1>8. s = ScopeOf(o, j.id) /\ (j.id >= 0 => o \in Db)
  BY <1>1, <1>7 DEF MayUse, ScopeOf, Scope
<1>9. Leads(s, i)
  BY <1>4, FoundLeads
<1> DEFINE h == [prov |-> j.id, key |-> j.key]
<1>10. HeaderOK(o, h)
  BY <1>4, <1>8, <1>9 DEF HeaderOK
<1>11. HeaderOK(o, h)'
  BY <1>1, <1>10, ZenonT(40) DEF HeaderOK, Leads, KeyAt, ScopeOf, Vouching, Live
<1>12. FoundOK(p)'
  BY <1>1, <1>3, <1>6, <1>11 DEF FoundOK, Choosing
<1> QED BY <1>2, <1>12

\* ... and the lock keeps it found.
LEMMA SetWriteKeeps ==
    ASSUME OneInv, NEW p \in Proc, SetWrite(p)
    PROVE  HeadersOK' /\ FoundOK(p)'
<1>1. UNCHANGED <<prov, ring>> /\ TypeInv /\ HeadersOK /\ FoundOK(p) /\ pc[p] = "set_write"
      /\ Finish(p) /\ hdr' = [hdr EXCEPT ![job[p].owner] = [prov |-> job[p].id, key |-> job[p].key]]
  BY DEF OneInv, SetWrite
<1>2. PICK o, h : o = job[p].owner /\ h = [prov |-> job[p].id, key |-> job[p].key]
  OBVIOUS
<1>3. HeaderOK(o, h)
  BY <1>1, <1>2 DEF FoundOK
<1>4. HeadersOK'
  <2> SUFFICES ASSUME NEW q \in Owner, hdr'[q] # None PROVE HeaderOK(q, hdr[q])'
    BY DEF HeadersOK
  <2>1. PICK g : g = hdr'[q]
    OBVIOUS
  <2>2. HeaderOK(q, g)
    <3>1. hdr \in [Owner -> Headers \cup {None}]
      BY <1>1 DEF TypeInv, TypeOK
    <3>2. CASE q = o
      BY <1>1, <1>2, <1>3, <2>1, <3>1, <3>2
    <3>3. CASE q # o
      BY <1>1, <1>2, <2>1, <3>1, <3>3 DEF HeadersOK
    <3> QED BY <3>2, <3>3
  <2>3. HeaderOK(q, g)'
    BY <1>1, <2>2, ZenonT(40) DEF HeaderOK, Leads, KeyAt, ScopeOf, Vouching, Live
  <2> QED BY <2>1, <2>3 DEF HeaderOK
<1> QED BY <1>1, <1>4, Finishes, IdleFound

\* The default key is kept with a global provider, which every owner looks up in
\* the same file; and its header protects that provider already.
LEMMA HeaderStep ==
    ASSUME OneInv, NEW o \in Owner, AdoptDefault(o) \/ DeleteKey(o)
    PROVE  /\ HeadersOK'
           /\ \A q \in Owner : q # o => hdr'[q] = hdr[q]
           /\ hdr'[o] # None => /\ Default \in Owner /\ hdr[Default] # None
                                /\ hdr'[o] = hdr[Default] /\ hdr'[o].prov < 0
<1>2. UNCHANGED <<prov, ring>> /\ TypeInv /\ HeadersOK
  BY DEF OneInv, AdoptDefault, DeleteKey
<1>3. hdr \in [Owner -> Headers \cup {None}]
  BY <1>2 DEF TypeInv, TypeOK
<1>4. \A q \in Owner : q # o => hdr'[q] = hdr[q]
  BY <1>3 DEF AdoptDefault, DeleteKey
<1>5. hdr'[o] # None => /\ Default \in Owner /\ hdr[Default] # None /\ hdr'[o] = hdr[Default]
                        /\ hdr'[o].prov \in Int /\ hdr'[o].prov < 0
                        /\ HeaderOK(Default, hdr[Default])
  BY <1>3, ScopeOfHeader DEF AdoptDefault, DeleteKey
<1>6. HeadersOK'
  <2> SUFFICES ASSUME NEW q \in Owner, hdr'[q] # None PROVE HeaderOK(q, hdr[q])'
    BY DEF HeadersOK
  <2>1. PICK g : g = hdr'[q]
    OBVIOUS
  <2>2. HeaderOK(q, g)
    <3>1. CASE q = o
      <4>1. HeaderOK(Default, g) /\ g.prov \in Int /\ g.prov < 0
        BY <1>5, <2>1, <3>1
      <4>2. ScopeOf(q, g.prov) = ScopeOf(Default, g.prov) /\ ~(g.prov >= 0)
        BY <4>1 DEF ScopeOf
      <4> QED BY <4>1, <4>2 DEF HeaderOK
    <3>2. CASE q # o
      BY <1>2, <1>4, <2>1, <3>2 DEF HeadersOK
    <3> QED BY <3>1, <3>2
  <2>3. HeaderOK(q, g)'
    BY <1>2, <2>2, ZenonT(40) DEF HeaderOK, Leads, KeyAt, ScopeOf, Vouching, Live
  <2> QED BY <2>1, <2>3 DEF HeaderOK
<1> QED BY <1>4, <1>5, <1>6

LEMMA HeaderStepKeeps ==
    ASSUME OneInv, NEW p \in Proc, \E o \in Owner : AdoptDefault(o) \/ DeleteKey(o)
    PROVE  HeadersOK' /\ FoundOK(p)'
<1>1. PICK o \in Owner : AdoptDefault(o) \/ DeleteKey(o)
  OBVIOUS
<1>2. UNCHANGED <<prov, ring, lock, pc, job>> /\ TypeInv /\ FoundOK(p) /\ lock = None
  BY <1>1 DEF OneInv, AdoptDefault, DeleteKey
<1>4. \A q \in Owner : q # o => hdr'[q] = hdr[q]
  BY <1>1, HeaderStep
<1>5. hdr'[o] # None => /\ Default \in Owner /\ hdr[Default] # None
                        /\ hdr'[o] = hdr[Default] /\ hdr'[o].prov < 0
  BY <1>1, HeaderStep
<1>6. HeadersOK'
  BY <1>1, HeaderStep
<1>7. PICK s, n, f, id : s = job[p].scope /\ n = job[p].name /\ f = job[p].place /\ id = job[p].id
  OBVIOUS
<1>8. ASSUME pc[p] \in Choosing PROVE id < 0 <=> s = Global
  <2>1. s \in Scope
    BY <1>2, <1>7, <1>8, Facts DEF Fits
  <2>2. PICK i \in DOMAIN prov[s] : prov[s][i].id = id
    BY <1>2, <1>7, <1>8 DEF FoundOK
  <2> QED BY <1>2, <2>1, <2>2 DEF TypeInv, IdInv, RecordOK
<1>9. ASSUME pc[p] = "change_write", Vouching, Verified(id, f)
      PROVE  Verified(id, f)'
  <2> SUFFICES ASSUME NEW q \in Owner \ {Default}, hdr'[q] # None, hdr'[q].prov = id
               PROVE  KeyAt(f, hdr'[q].key.name, hdr'[q].key)
    BY <1>2 DEF Verified, KeyAt
  <2>1. s \in Changeable
    BY <1>2, <1>7, <1>9 DEF FoundOK
  <2>2. q # o
    BY <1>5, <1>8, <1>9, <2>1 DEF Vouching, Choosing
  <2> QED BY <1>4, <1>9, <2>2 DEF Verified
<1>10. ASSUME pc[p] = "delete_write", ~Used(s, id)
       PROVE  ~Used(s, id)'
  <2> SUFFICES ASSUME NEW q \in Owner, s = Global \/ q = s, hdr'[q] # None, hdr'[q].prov = id
               PROVE  FALSE
    BY DEF Used
  <2>1. q = o
    BY <1>4, <1>10 DEF Used
  <2>2. s = Global /\ Default \in Owner /\ hdr[Default] # None /\ hdr[Default].prov = id
    BY <1>5, <1>8, <1>10, <2>1 DEF Choosing
  <2> QED BY <1>10, <2>2 DEF Used
<1>11. pc[p] # "set_write"
  BY <1>2, KeyProvidersAssumption DEF FoundOK
<1>12. /\ pc[p] \in Choosing => \E i \in DOMAIN prov[s] : ByName(s, n, i) /\ prov[s][i].id = id
       /\ pc[p] \in {"change_verify", "change_write"} => s \in Changeable
       /\ pc[p] = "change_write" => (Vouching => Verified(id, f))
       /\ pc[p] = "delete_write" => ~Used(s, id)
       /\ pc[p] = "create_write" => job[p].at = Len(ring[f]) + 1
  BY <1>2, <1>7 DEF FoundOK
<1>13. pc[p] \in Choosing => \E i \in DOMAIN prov'[s] : ByName(s, n, i)' /\ prov'[s][i].id = id
  BY <1>2, <1>12 DEF ByName, First, Live
<1>14. /\ s = job'[p].scope /\ n = job'[p].name /\ f = job'[p].place /\ id = job'[p].id
       /\ pc'[p] = pc[p] /\ job'[p].at = job[p].at
  BY <1>2, <1>7
<1>15. pc'[p] \in Choosing =>
          (\E i \in DOMAIN prov[job[p].scope] :
              ByName(job[p].scope, job[p].name, i) /\ prov[job[p].scope][i].id = job[p].id)'
  BY <1>13, <1>14 DEF ByName, First, Live
<1>16. pc'[p] = "change_write" => (Vouching => Verified(job[p].id, job[p].place)')
  BY <1>9, <1>12, <1>14 DEF Verified, KeyAt
<1>17. pc'[p] = "delete_write" => ~Used(job[p].scope, job[p].id)'
  BY <1>10, <1>12, <1>14 DEF Used
<1>18. pc'[p] = "create_write" => job'[p].at = Len(ring'[job'[p].place]) + 1
  BY <1>2, <1>12, <1>14
<1>19. pc'[p] \in {"change_verify", "change_write"} => job'[p].scope \in Changeable
  BY <1>12, <1>14
<1>20. FoundOK(p)'
  BY <1>11, <1>14, <1>15, <1>16, <1>17, <1>18, <1>19 DEF FoundOK, Vouching
<1> QED BY <1>6, <1>20

LEMMA NextOneInv == OneBackend /\ OneInv /\ [Next]_vars => OneInv'
<1> SUFFICES ASSUME OneBackend, OneInv, [Next]_vars PROVE OneInv'
  OBVIOUS
<1>1. TypeInv'
  BY NextTypeInv DEF OneInv
<1>2. CASE UNCHANGED vars
  <2>1. HeadersOK'
    BY <1>2, HeadersSame DEF OneInv, vars
  <2>2. \A p \in Proc : FoundOK(p)'
    <3> TAKE p \in Proc
    <3>1. FoundOK(p) /\ UNCHANGED <<prov, ring, hdr, lock, pc, job>>
      BY <1>2 DEF OneInv, vars
    <3>2. pc'[p] \in Choosing =>
             (\E i \in DOMAIN prov[job[p].scope] :
                 ByName(job[p].scope, job[p].name, i) /\ prov[job[p].scope][i].id = job[p].id)'
      BY <3>1 DEF FoundOK, ByName, First, Live
    <3>3. pc'[p] = "change_write" => (Vouching => Verified(job[p].id, job[p].place)')
      BY <3>1 DEF FoundOK, Verified, KeyAt
    <3>4. pc'[p] = "delete_write" => ~Used(job[p].scope, job[p].id)'
      BY <3>1 DEF FoundOK, Used
    <3>5. pc'[p] = "set_write" =>
             HeaderOK(job[p].owner, [prov |-> job[p].id, key |-> job[p].key])'
      BY <3>1, ZenonT(40) DEF FoundOK, HeaderOK, Leads, KeyAt, ScopeOf, Vouching, Live
    <3> QED BY <3>1, <3>2, <3>3, <3>4, <3>5 DEF FoundOK, Vouching
  <2> QED BY <1>1, <2>1, <2>2 DEF OneInv
<1>3. CASE Crash
  <2>1. HeadersOK'
    BY <1>3, HeadersSame DEF OneInv, Crash
  <2>2. \A p \in Proc : pc'[p] = "idle"
    BY <1>3 DEF Crash
  <2> QED BY <1>1, <2>1, <2>2, IdleFound DEF OneInv
<1>4. ASSUME NEW p \in Proc, HeadersOK', FoundOK(p)' PROVE OneInv'
  <2>1. \A q \in Proc : q = p
    BY DEF OneBackend
  <2>2. \A q \in Proc : FoundOK(q)'
    <3> TAKE q \in Proc
    <3>1. q = p
      BY <2>1
    <3> QED BY <1>4, <3>1 DEF FoundOK
  <2> QED BY <1>1, <1>4, <2>2 DEF OneInv
<1>5. ASSUME NEW p \in Proc, NEW s \in Scope, NEW n \in Name,
             \/ \E f \in Place : AddProvider(p, s, n, f) \/ ChangeProvider(p, s, n, f)
             \/ DeleteProvider(p, s, n)
             \/ \E k \in KeyName : CreateKey(p, s, n, k)
             \/ \E o \in Owner, k \in KeyName : SetKey(p, o, s, n, k)
      PROVE  OneInv'
  BY <1>4, <1>5, AddKeeps, LookupKeeps, CreateKeeps, SetKeyKeeps
<1>6. ASSUME NEW p \in Proc,
             \/ ChangeVerify(p) \/ ChangeWrite(p) \/ DeleteCheck(p) \/ DeleteWrite(p)
             \/ CreateSeek(p) \/ CreateWrite(p) \/ SetWrite(p)
      PROVE  OneInv'
  BY <1>4, <1>6, CheckKeeps, ChangeKeeps, DeleteKeeps, CreateKeeps, SetWriteKeeps
<1>7. ASSUME \E o \in Owner : AdoptDefault(o) \/ DeleteKey(o)
      PROVE  OneInv'
  <2>1. CASE \E p \in Proc : TRUE
    BY <1>4, <1>7, <2>1, HeaderStepKeeps
  <2>2. CASE Proc = {}
    BY <1>1, <1>7, <2>2, HeaderStep DEF OneInv
  <2> QED BY <2>1, <2>2
<1> QED BY <1>2, <1>3, <1>5, <1>6, <1>7 DEF Next

LEMMA OneInvariance == Spec /\ OneBackend => []OneInv
<1>1. Init => OneInv
  <2> SUFFICES ASSUME Init PROVE OneInv
    OBVIOUS
  <2>1. HeadersOK
    BY DEF Init, HeadersOK
  <2>2. \A p \in Proc : FoundOK(p)
    BY DEF Init, FoundOK, Choosing
  <2> QED BY <2>1, <2>2, InitTypeInv DEF OneInv
<1>2. OneBackend /\ [Next]_vars => OneBackend'
  BY DEF OneBackend
<1> QED BY <1>1, <1>2, NextOneInv, PTL DEF Spec

\* With one backend at a time, a provider that a header names is not deleted,
\* neither by the record that is checked being another than the one written,
\* nor by a header that comes to name it after the check.
THEOREM UsedAlwaysKept == Spec /\ OneBackend => []UsedProviderKept
<1>1. OneInv => UsedProviderKept
  BY DEF OneInv, HeadersOK, HeaderOK, Leads, UsedProviderKept
<1> QED BY <1>1, OneInvariance, PTL

\* With one backend at a time, and global providers not changed under a default
\* key, the principal keys of the server and of every database can be loaded: no
\* change of a keyring, deletion or new key strands a key file.
THEOREM AlwaysLoadable == Spec /\ OneBackend /\ Vouching => []KeysLoadable
<1>1. OneInv /\ Vouching => KeysLoadable
  BY DEF OneInv, HeadersOK, HeaderOK, Leads, KeysLoadable, Loadable
<1>2. Vouching /\ [Next]_vars => Vouching'
  BY DEF Vouching
<1> QED BY <1>1, <1>2, OneInvariance, PTL DEF Spec

=============================================================================
