---------------------------- MODULE RewindProofs ----------------------------
(***************************************************************************)
(* Proofs about Rewind, for all relations, sizes, queues and histories.    *)
(* WalInv is about the WAL segments.  SafeInv, about the entries of the    *)
(* file map and the requests still to be performed and the keys in use,    *)
(* shows that no block is encrypted over ciphertext.  DataInv follows each *)
(* block of a relation from the file map through the requests into the     *)
(* target's file, and the relation's key from the source's to the          *)
(* target's: the target ends with the source's data, under a key it has.   *)
(***************************************************************************)
EXTENDS Rewind, TLAPS, FiniteSetTheorems

-----------------------------------------------------------------------------
(* Types.                                                                  *)

FileKeys == KeysMadeBy({"src", "tgt", "new"}) \cup {Garbled}
Blocks == [key : FileKeys, data : {"c", "t"}]

WalPaths == {WalDir} \X (1 .. NWal)
Pages == 0 .. SegBlocks - 1

Requests == [path : Paths \cup WalPaths, encrypt : BOOLEAN, off : Nat, len : Nat \ {0}]
Entries == [path : Paths \cup WalPaths, action : DOMAIN ActionOrder, pages : SUBSET Pages,
            left : SUBSET Pages, ssize : Nat, tsize : Nat]
Files == [path : Paths, sk : KeysMadeBy({"src", "tgt"}), tk : KeysMadeBy({"src", "tgt"})]

Fixed ==
    /\ mode \in Modes /\ cap \in Queues /\ split \in BOOLEAN /\ fetching \in BOOLEAN
    /\ step \in {"start", "keys", "perform", "fetched", "installed", "replayed", "crashed"}
    /\ created \subseteq Rels /\ changed \subseteq {p \in Paths : IsRelFile(p)} \X Pages

KeyTypes ==
    /\ skeys \in [Rels -> KeysMadeBy({"src"})]
    /\ tmp \in [Rels -> KeysMadeBy({"src", "tgt"})]
    /\ tkeys \in [Rels -> KeysMadeBy({"src", "tgt", "new"})]
    /\ step # "replayed" => tkeys \in [Rels -> KeysMadeBy({"src", "tgt"})]
    /\ cur = NoFile \/ (cur \in Files /\ cur.sk # None)

WorkTypes ==
    /\ queue \in Seq(Requests) /\ Len(queue) <= cap
    /\ want \in Requests \cup {NoRange}
    /\ filemap \subseteq Entries
    /\ \A e, f \in filemap : e.path = f.path => e = f

IsFile(f) == f = [p \in DOMAIN f |-> f[p]]

WalRec ==
    /\ wal = [src |-> wal.src, tgt |-> wal.tgt, fork |-> wal.fork, skeys |-> wal.skeys,
              tkeys |-> wal.tkeys, restored |-> wal.restored]
    /\ DOMAIN wal.src \subseteq 1 .. NWal /\ DOMAIN wal.tgt \subseteq 1 .. NWal
    /\ IsFile(wal.src) /\ IsFile(wal.tgt) /\ wal.fork \in 1 .. NWal

Typed ==
    /\ Fixed /\ KeyTypes /\ WorkTypes /\ WalRec
    /\ IsFiles(src) /\ IsFiles(tgt) /\ IsFile(src) /\ IsFile(tgt)

-----------------------------------------------------------------------------
(* WAL.                                                                    *)

EntryOf(p) == \E e \in filemap : e.path = p
Asked(p) == want.path = p \/ \E k \in DOMAIN queue : queue[k].path = p



\* What the file map says of a WAL segment.
WalEntryOK(e) ==
    LET i == e.path[2] IN
    e.path \in WalPaths =>
        /\ e.action = "COPY" => i \in DOMAIN wal.src
        /\ e.action = "ENSURE_WAL_SEG" => i \in KeepWal
        /\ e.action = "REMOVE" => i \notin KeepWal
        /\ i \in DOMAIN wal.tgt /\ wal.tgt[i] = wal.tkeys

\* A segment is under the keys it is to be read with, or there is still
\* something to be done with it.
SegmentOK(i) ==
    \/ wal.tgt[i] = wal.skeys /\ i \in KeepWal
    \/ wal.tgt[i] = wal.tkeys /\ (EntryOf(<<WalDir, i>>) \/ Asked(<<WalDir, i>>) \/ i \in Archived)

WalWork ==
    /\ KeepWal \subseteq DOMAIN wal.tgt
    /\ \A e \in filemap : WalEntryOK(e)
    /\ \A i \in 1 .. NWal : Asked(<<WalDir, i>>) => i \in DOMAIN wal.src
    /\ \A i \in DOMAIN wal.tgt : SegmentOK(i)

SourceWal == \A i \in DOMAIN wal.src : i \in KeepWal /\ wal.src[i] = wal.skeys

WalInv ==
    /\ SourceWal
    /\ step \in {"start", "keys"} =>
          /\ filemap = {} /\ queue = <<>> /\ want = NoRange
          /\ \A i \in DOMAIN wal.tgt : wal.tgt[i] = wal.tkeys
    /\ step \in {"perform", "fetched"} => WalWork
    /\ step = "fetched" => filemap = {} /\ queue = <<>> /\ want = NoRange
    /\ WalIntact

-----------------------------------------------------------------------------
(* No block is encrypted over ciphertext.                                  *)

\* The source has files of relation r; it has the file, or has dropped the relation.
OnSource(r) == \E p \in DOMAIN src : p[1] = r
Here(p) == p \in DOMAIN src \/ (mode = "remote" /\ ~OnSource(p[1]))

Patching == {"COPY_TAIL", "TRUNCATE", "ENSURE_TDE_KEY"}

\* What the file map says of a relation's file is still so.
EntryOK(e) ==
    LET p == e.path IN
    /\ e.left \subseteq e.pages
    /\ e.action \notin Patching => e.pages = {}
    /\ p \in WalPaths => e.action \in {"COPY", "ENSURE_WAL_SEG", "REMOVE"}
    /\ p \in Paths =>
        /\ e.action \in Patching \cup {"COPY", "REMOVE"}
        /\ e.action = "REMOVE" => p \notin DOMAIN src
        /\ e.action # "REMOVE" => Here(p)
        /\ e.action \in Patching => IsRelFile(p)
        /\ e.action = "COPY_TAIL" => e.tsize < e.ssize
        /\ e.action = "TRUNCATE" /\ p \in DOMAIN tgt => e.ssize <= Len(tgt[p])
        /\ p \in DOMAIN src =>
              /\ e.ssize = Len(src[p])
              /\ e.action \in Patching => p \in DOMAIN tgt
              /\ e.action = "COPY_TAIL" => e.tsize <= Len(tgt[p])
              /\ \A b \in e.left : b < Len(tgt[p]) /\ b < Len(src[p])

\* Block o of file p can be written without leaving a gap.
Reached(p, o) == o <= Len(tgt[p]) \/ Len(src[p]) <= Len(tgt[p])

RequestOK(rq) ==
    LET p == rq.path IN
    p \in Paths =>
        /\ Here(p)
        /\ rq.encrypt => IsRelFile(p)
        /\ p \in DOMAIN src => p \in DOMAIN tgt

Continues(rq, before) == rq.path = before.path /\ rq.off = before.off + before.len

RowOK(k) ==
    /\ RequestOK(queue[k])
    /\ queue[k].path \in Paths /\ queue[k].path \in DOMAIN src =>
          \/ Reached(queue[k].path, queue[k].off)
          \/ k > 1 /\ Continues(queue[k], queue[k - 1])

WantOK ==
    want # NoRange =>
        /\ RequestOK(want)
        /\ want.path \in Paths /\ want.path \in DOMAIN src =>
              \/ Reached(want.path, want.off)
              \/ queue # <<>> /\ Continues(want, queue[Len(queue)])

RowsOK == \A k \in DOMAIN queue : RowOK(k)

WorkInv ==
    /\ \A e \in filemap : EntryOK(e) /\ (e.left = e.pages => ~Asked(e.path))
    /\ RowsOK /\ WantOK
    /\ mode = "local" => queue = <<>> /\ want = NoRange /\ ~fetching

SourceBlocks ==
    \A p \in DOMAIN src : \A i \in DOMAIN src[p] : src[p][i] = Block(skeys[p[1]], "c")

\* The key the source's blocks are decrypted with is theirs or the target's.
KeysInv ==
    /\ \A r \in Rels : OnSource(r) => tmp[r] \in {None, skeys[r], tkeys[r]}
    /\ cur # NoFile =>
          /\ IsRelFile(cur.path) /\ cur.tk = tkeys[cur.path[1]]
          /\ cur.tk # None
          /\ OnSource(cur.path[1]) => cur.sk \in {skeys[cur.path[1]], cur.tk}

NotGarbled ==
    \A p \in DOMAIN tgt : IsRelFile(p) => \A i \in DOMAIN tgt[p] : tgt[p][i].key # Garbled

SafeInv ==
    /\ SourceBlocks /\ NotGarbled
    /\ step \in {"start", "keys"} =>
          /\ filemap = {} /\ queue = <<>> /\ want = NoRange /\ cur = NoFile /\ ~fetching
          /\ \A r \in Rels : ~OnSource(r) => skeys[r] = None
    /\ step = "start" => tmp = [r \in Rels |-> None]
    /\ step = "keys" => \A r \in Rels : tmp[r] \in {None, skeys[r]}
    /\ step = "perform" => WorkInv /\ KeysInv

-----------------------------------------------------------------------------
(* Paths, keys and sequences.                                              *)

LEMMA PathFacts ==
    /\ \A p \in Paths :
          /\ p = <<p[1], p[2]>> /\ p[1] \in Rels /\ p[2] \in Parts /\ p[2] \in Nat
          /\ ~IsWal(p) /\ p \notin WalPaths /\ p # <<>>
    /\ \A p \in WalPaths :
          p = <<WalDir, p[2]>> /\ p[2] \in 1 .. NWal /\ IsWal(p) /\ p \notin Paths /\ p # <<>>
    /\ \A i \in 1 .. NWal : <<WalDir, i>> \in WalPaths
    /\ \A r \in Rels : r \in Nat /\ r # WalDir
    /\ NWal \in Nat \ {0} /\ LastSeg \in Nat /\ SegBlocks \in Nat \ {0}
    /\ ChunkBlocks \in Nat \ {0} /\ Queues \subseteq Nat \ {0}
<1>1. /\ \A r \in Rels : r \in Nat /\ r # WalDir
      /\ NWal \in Nat \ {0} /\ LastSeg \in Nat /\ SegBlocks \in Nat \ {0}
      /\ ChunkBlocks \in Nat \ {0} /\ Queues \subseteq Nat \ {0}
  BY RewindAssumption
<1>2. Parts \subseteq Nat
  BY <1>1 DEF Parts, ForkPart, FsmPart, InitPart
<1>3. ASSUME NEW p \in Paths
      PROVE  /\ p = <<p[1], p[2]>> /\ p[1] \in Rels /\ p[2] \in Parts /\ p[2] \in Nat
             /\ p[1] # WalDir /\ p # <<>>
  <2>1. PICK r \in Rels, s \in Parts : p = <<r, s>>
    BY DEF Paths
  <2> QED BY <1>1, <1>2, <2>1
<1>4. ASSUME NEW p \in WalPaths
      PROVE  p = <<WalDir, p[2]>> /\ p[2] \in 1 .. NWal /\ p[1] = WalDir /\ p # <<>>
  <2>1. PICK i \in 1 .. NWal : p = <<WalDir, i>>
    BY DEF WalPaths
  <2> QED BY <1>1, <2>1
<1>5. \A i \in 1 .. NWal : <<WalDir, i>> \in WalPaths
  BY DEF WalPaths
<1> QED BY <1>1, <1>3, <1>4, <1>5 DEF IsWal

\* One turn of the queueing of a range: it waits for a full queue to be
\* processed, extends the last request, or adds one.
LEMMA QueueCases ==
    ASSUME WorkTypes, cap \in Nat \ {0},
           NEW path \in Paths \cup WalPaths, NEW enc \in BOOLEAN, NEW off \in Nat,
           NEW len \in Nat \ {0}, QueueRange(path, enc, off, len)
    PROVE  \/ /\ Len(queue) = cap /\ queue' = queue
              /\ want' = [path |-> path, encrypt |-> enc, off |-> off, len |-> len]
              /\ fetching' = TRUE /\ split' = TRUE
           \/ \E t \in 1 .. len :
              /\ fetching' = FALSE /\ (split' <=> split)
              /\ want' = Piece(path, enc, off + t, len - t)
              /\ \/ /\ queue # <<>> /\ queue[Len(queue)].path = path
                    /\ off = queue[Len(queue)].off + queue[Len(queue)].len
                    /\ queue' = [queue EXCEPT ![Len(queue)].len = @ + t]
                 \/ /\ Len(queue) < cap
                    /\ queue' = Append(queue, [path |-> path, encrypt |-> enc, off |-> off, len |-> t])
<1> DEFINE n == Len(queue)
           merges == /\ n > 0 /\ queue[n].path = path
                     /\ queue[n].off + queue[n].len = off
                     /\ queue[n].len < ChunkBlocks
           full == ~merges /\ n = cap
           room == IF merges THEN ChunkBlocks - queue[n].len ELSE ChunkBlocks
           taken == IF full THEN 0 ELSE IF len < room THEN len ELSE room
<1>1. /\ queue' = IF full THEN queue
                  ELSE IF merges THEN [queue EXCEPT ![n].len = @ + taken]
                  ELSE Append(queue, Piece(path, enc, off, taken))
      /\ want' = Piece(path, enc, off + taken, len - taken)
      /\ fetching' = full /\ split' = (split \/ full)
  BY DEF QueueRange
<1>2. queue \in Seq(Requests) /\ n \in Nat /\ n <= cap
  BY DEF WorkTypes
<1>3. merges => queue[n] \in Requests /\ queue[n].len \in Nat /\ queue # <<>>
  <2>1. n > 0 => n \in 1 .. Len(queue) /\ queue # <<>>
    BY <1>2
  <2>2. n > 0 => queue[n] \in Requests
    BY <1>2, <2>1
  <2>3. \A rq \in Requests : rq.len \in Nat
    BY DEF Requests
  <2> QED BY <2>1, <2>2, <2>3
<1>4. ChunkBlocks \in Nat \ {0}
  BY PathFacts
<1>5. ~full => taken \in 1 .. len
  BY <1>3, <1>4
<1> HIDE DEF merges
<1>6. CASE full
  <2>1. taken = 0
    BY <1>6
  <2>2. want' = [path |-> path, encrypt |-> enc, off |-> off, len |-> len]
    BY <1>1, <2>1 DEF Piece
  <2> QED BY <1>1, <1>6, <2>2
<1>7. CASE ~full /\ merges
  <2>1. /\ queue # <<>> /\ queue[n].path = path /\ off = queue[n].off + queue[n].len
    BY <1>3, <1>7 DEF merges
  <2>2. queue' = [queue EXCEPT ![n].len = @ + taken] /\ fetching' = FALSE /\ (split' <=> split)
    BY <1>1, <1>7
  <2> QED BY <1>1, <1>5, <1>7, <2>1, <2>2
<1>8. CASE ~full /\ ~merges
  <2>1. n < cap
    BY <1>2, <1>8
  <2>2. Piece(path, enc, off, taken) = [path |-> path, encrypt |-> enc, off |-> off, len |-> taken]
    BY <1>5, <1>8 DEF Piece
  <2>3. /\ queue' = Append(queue, [path |-> path, encrypt |-> enc, off |-> off, len |-> taken])
        /\ fetching' = FALSE /\ (split' <=> split)
    BY <1>1, <1>8, <2>2
  <2> QED BY <1>1, <1>5, <1>8, <2>1, <2>3
<1> QED BY <1>6, <1>7, <1>8

-----------------------------------------------------------------------------
(* Files.                                                                  *)

LEMMA FilesDef ==
    ASSUME NEW f
    PROVE  /\ IsFiles(f) <=> (DOMAIN f \subseteq Paths /\ \A p \in DOMAIN f : f[p] \in Seq(Blocks))
           /\ IsFiles(f) => \A p \in DOMAIN f : /\ Len(f[p]) \in Nat /\ DOMAIN f[p] = 1 .. Len(f[p])
                                                /\ \A i \in 1 .. Len(f[p]) : f[p][i] \in Blocks
<1>1. IsFiles(f) <=> (DOMAIN f \subseteq Paths /\ \A p \in DOMAIN f : f[p] \in Seq(Blocks))
  BY DEF IsFiles, Blocks, FileKeys
<1>2. \A s \in Seq(Blocks) : /\ Len(s) \in Nat /\ DOMAIN s = 1 .. Len(s)
                             /\ \A i \in 1 .. Len(s) : s[i] \in Blocks
  OBVIOUS
<1> QED BY <1>1, <1>2

LEMMA KeyFacts ==
    /\ \A s \in {"src", "tgt", "new"}, r \in Rels : KeyOf(s, r) \in KeysMadeBy({s}) /\ KeyOf(s, r) # None
    /\ \A r : KeyOf(None, r) = None
    /\ \A S : None \in KeysMadeBy(S)
    /\ \A S : S \subseteq {"src", "tgt", "new"} => Garbled \notin KeysMadeBy(S) /\ KeysMadeBy(S) \subseteq FileKeys
    /\ KeysMadeBy({"src"}) \subseteq KeysMadeBy({"src", "tgt"})
    /\ KeysMadeBy({"src", "tgt"}) \subseteq KeysMadeBy({"src", "tgt", "new"})
    /\ Garbled \in FileKeys /\ Garbled # None
<1>1. None \notin {"src", "tgt", "new"} /\ None \notin {"src", "tgt", "new", "garbled"} \X (Rels \cup {0})
  BY NoneIsNoKey
<1>2. \A s \in {"src", "tgt", "new"}, r \in Rels : <<s, r>> \in {"src", "tgt", "new", "garbled"} \X (Rels \cup {0})
  OBVIOUS
<1>3. \A s \in {"src", "tgt", "new"}, r \in Rels : KeyOf(s, r) \in KeysMadeBy({s}) /\ KeyOf(s, r) # None
  BY <1>1, <1>2 DEF KeyOf, KeysMadeBy
<1>4. Garbled \in FileKeys /\ Garbled # None
  BY <1>1 DEF Garbled, FileKeys
<1>5. ASSUME NEW S, S \subseteq {"src", "tgt", "new"}
      PROVE  Garbled \notin KeysMadeBy(S) /\ KeysMadeBy(S) \subseteq FileKeys
  <2>1. Garbled \notin S \X Rels
    BY <1>5 DEF Garbled
  <2>2. S \X Rels \subseteq {"src", "tgt", "new"} \X Rels
    BY <1>5
  <2> QED BY <1>4, <2>1, <2>2 DEF KeysMadeBy, FileKeys
<1> QED BY <1>3, <1>4, <1>5 DEF KeyOf, KeysMadeBy

LEMMA IsSeq ==
    ASSUME NEW S, NEW n \in Nat, NEW s \in [1 .. n -> S]
    PROVE  s \in Seq(S) /\ Len(s) = n
OBVIOUS

\* Re-encryption keeps the type; a block under the source's key, at its place,
\* stays under it or is under the target's.
LEMMA ReencryptFacts ==
    /\ \A b \in Blocks, sk, tk \in FileKeys : \A n, m : ReencryptBlock(b, sk, tk, n, m) \in Blocks
    /\ \A b, sk, tk, n, m : sk = None \/ sk = tk => ReencryptBlock(b, sk, tk, n, m) = b
    /\ \A b \in Blocks, sk, tk \in FileKeys : \A n :
          b.key = sk /\ sk # None => ReencryptBlock(b, sk, tk, n, n) = Block(tk, b.data)
<1>1. Garbled \in FileKeys
  BY KeyFacts
<1>2. ASSUME NEW b \in Blocks, NEW sk \in FileKeys, NEW tk \in FileKeys
      PROVE  /\ b.data \in {"c", "t"} /\ b.key \in FileKeys /\ Block(tk, b.data) \in Blocks
             /\ [b EXCEPT !.key = tk] = Block(tk, b.data)
             /\ Block(Garbled, b.data) \in Blocks
             /\ b = Block(b.key, b.data)
  BY <1>1 DEF Block, Blocks
<1> QED BY <1>2 DEF ReencryptBlock

\* What the last step of a file's re-encryption does: only the free space map
\* of the current relation changes, and no file changes its length.
LEMMA FlushFacts ==
    ASSUME KeyTypes, NEW f, IsFiles(f), IsFile(f)
    PROVE  /\ IsFiles(FlushFiles(f)) /\ IsFile(FlushFiles(f)) /\ DOMAIN FlushFiles(f) = DOMAIN f
           /\ \A p \in DOMAIN f : Len(FlushFiles(f)[p]) = Len(f[p])
           /\ \A p \in DOMAIN f : p # <<cur.path[1], FsmPart>> \/ cur.sk = None => FlushFiles(f)[p] = f[p]
           /\ \A p \in DOMAIN f : p = <<cur.path[1], FsmPart>> /\ cur.sk # None =>
                 \A i \in 1 .. Len(f[p]) :
                    FlushFiles(f)[p][i] =
                       ReencryptBlock(f[p][i], cur.sk, cur.tk, i - 1 + cur.path[2] * SegBlocks, i - 1)
<1> DEFINE q == <<cur.path[1], FsmPart>>
           re(i) == ReencryptBlock(f[q][i], cur.sk, cur.tk, i - 1 + cur.path[2] * SegBlocks, i - 1)
           s == [i \in DOMAIN f[q] |-> re(i)]
<1>1. CASE cur.sk = None \/ q \notin DOMAIN f
  <2>1. FlushFiles(f) = f
    BY <1>1 DEF FlushFiles, ReencryptFork
  <2> QED BY <1>1, <2>1
<1>2. CASE cur.sk # None /\ q \in DOMAIN f
  <2>1. FlushFiles(f) = [f EXCEPT ![q] = s]
    BY <1>2 DEF FlushFiles, ReencryptFork
  <2>2. cur # NoFile
    BY <1>2 DEF NoFile
  <2>3. cur.sk \in FileKeys /\ cur.tk \in FileKeys
    BY <2>2, KeyFacts DEF KeyTypes, Files
  <2>4. f[q] \in Seq(Blocks) /\ DOMAIN f[q] = 1 .. Len(f[q]) /\ Len(f[q]) \in Nat
    BY <1>2, FilesDef
  <2>5. \A i \in 1 .. Len(f[q]) : f[q][i] \in Blocks
    BY <2>4
  <2>6. \A i \in 1 .. Len(f[q]) : re(i) \in Blocks
    BY <2>3, <2>5, ReencryptFacts
  <2> HIDE DEF re
  <2>7. s \in Seq(Blocks) /\ Len(s) = Len(f[q]) /\ \A i \in 1 .. Len(f[q]) : s[i] = re(i)
    <3>1. s = [i \in 1 .. Len(f[q]) |-> re(i)]
      BY <2>4
    <3>2. s \in [1 .. Len(f[q]) -> Blocks] /\ \A i \in 1 .. Len(f[q]) : s[i] = re(i)
      BY <2>6, <3>1, Zenon
    <3> HIDE DEF s
    <3>3. PICK n \in Nat : n = Len(f[q])
      BY <2>4
    <3>4. s \in [1 .. n -> Blocks]
      BY <3>2, <3>3
    <3>5. s \in Seq(Blocks) /\ Len(s) = n
      BY <3>4, IsSeq
    <3> QED BY <3>2, <3>3, <3>5
  <2> HIDE DEF s
  <2> DEFINE g == [f EXCEPT ![q] = s]
  <2>8. DOMAIN g = DOMAIN f /\ g[q] = s /\ \A p \in DOMAIN f : p # q => g[p] = f[p]
    BY <1>2
  <2>9. IsFile(g)
    BY DEF IsFile
  <2> HIDE DEF g
  <2>10. IsFiles(g)
    BY <2>7, <2>8, FilesDef
  <2>11. FlushFiles(f) = g
    BY <2>1 DEF g
  <2> QED BY <1>2, <2>7, <2>8, <2>9, <2>10, <2>11 DEF re
<1> QED BY <1>1, <1>2

\* With and Without, and what is written of a range.
LEMMA PutFacts ==
    ASSUME NEW f, IsFiles(f), NEW p \in Paths, NEW c \in Seq(Blocks)
    PROVE  /\ IsFiles(With(f, p, c)) /\ IsFile(With(f, p, c)) /\ DOMAIN With(f, p, c) = DOMAIN f \cup {p}
           /\ With(f, p, c)[p] = c /\ \A q \in DOMAIN f : q # p => With(f, p, c)[q] = f[q]
<1> DEFINE g == With(f, p, c)
<1>1. /\ DOMAIN g = DOMAIN f \cup {p} /\ g[p] = c
      /\ \A q \in DOMAIN f : q # p => g[q] = f[q]
  BY DEF With
<1>2. IsFile(g)
  BY DEF IsFile, With
<1> HIDE DEF g
<1>3. IsFiles(g)
  BY <1>1, FilesDef
<1> QED BY <1>1, <1>2, <1>3 DEF g

LEMMA WithoutFacts ==
    ASSUME NEW f, IsFiles(f), NEW p
    PROVE  /\ IsFiles(Without(f, p)) /\ IsFile(Without(f, p)) /\ DOMAIN Without(f, p) = DOMAIN f \ {p}
           /\ \A q \in DOMAIN f : q # p => Without(f, p)[q] = f[q]
<1> DEFINE g == Without(f, p)
<1>1. DOMAIN g = DOMAIN f \ {p} /\ \A q \in DOMAIN f : q # p => g[q] = f[q]
  BY DEF Without
<1>2. IsFile(g)
  BY DEF IsFile, Without
<1> HIDE DEF g
<1>3. IsFiles(g)
  BY <1>1, FilesDef
<1> QED BY <1>1, <1>2, <1>3 DEF g

MinOf(a, b) == IF a < b THEN a ELSE b

\* Files g are files f, with the range in file p.
WrittenRange(g, f, p, off, len, c) ==
    LET last == MinOf(off + len, Len(src[p])) IN
    /\ IsFiles(g) /\ IsFile(g) /\ DOMAIN g = DOMAIN f
    /\ \A q \in DOMAIN f : q # p => g[q] = f[q]
    /\ Len(g[p]) >= Len(f[p]) /\ Len(g[p]) >= last
    /\ Len(g[p]) <= Len(f[p]) \/ Len(g[p]) <= Len(src[p])
    /\ \A i \in off + 1 .. last :
          g[p][i] = ReencryptBlock(src[p][i], c.sk, c.tk, i - 1 + p[2] * SegBlocks, i - 1 + p[2] * SegBlocks)
    /\ \A i \in 1 .. Len(g[p]) : i \notin off + 1 .. last => i \in 1 .. Len(f[p]) /\ g[p][i] = f[p][i]

LEMMA WriteFacts ==
    ASSUME IsFiles(src), NEW f, IsFiles(f), NEW p \in DOMAIN src, p \in DOMAIN f,
           NEW off \in Nat, NEW len \in Nat,
           off <= Len(f[p]) \/ Len(src[p]) <= Len(f[p]),
           NEW c, c.sk \in FileKeys, c.tk \in FileKeys
    PROVE  WrittenRange(WriteRange(f, p, off, len, c), f, p, off, len, c)
<1> DEFINE last == MinOf(off + len, Len(src[p]))
           size == IF last > Len(f[p]) THEN last ELSE Len(f[p])
           b(i) == ReencryptBlock(src[p][i], c.sk, c.tk, i - 1 + p[2] * SegBlocks, i - 1 + p[2] * SegBlocks)
           s == [i \in 1 .. size |-> IF i \in off + 1 .. last THEN b(i) ELSE f[p][i]]
<1>1. WriteRange(f, p, off, len, c) = With(f, p, s)
  BY DEF WriteRange, MinOf
<1>2. /\ Len(src[p]) \in Nat /\ Len(f[p]) \in Nat
      /\ \A i \in 1 .. Len(src[p]) : src[p][i] \in Blocks
      /\ \A i \in 1 .. Len(f[p]) : f[p][i] \in Blocks
  BY FilesDef
<1>3. last \in Nat /\ last <= Len(src[p]) /\ last <= off + len
  BY <1>2 DEF MinOf
<1>4. size \in Nat /\ size >= last /\ size >= Len(f[p]) /\ (size <= Len(f[p]) \/ size <= Len(src[p]))
  BY <1>2, <1>3
<1>5. \A i \in 1 .. size : i \notin off + 1 .. last => i \in 1 .. Len(f[p])
  BY <1>2, <1>3
<1>6. \A i \in off + 1 .. last : i \in 1 .. size /\ b(i) \in Blocks
  <2>1. \A i \in off + 1 .. last : i \in 1 .. size /\ i \in 1 .. Len(src[p])
    BY <1>2, <1>3, <1>4
  <2> HIDE DEF size, last
  <2> QED BY <2>1, <1>2, ReencryptFacts
<1> HIDE DEF b, size, last
<1>7. \A i \in 1 .. size : s[i] = IF i \in off + 1 .. last THEN b(i) ELSE f[p][i]
  BY Zenon
<1>8. s \in [1 .. size -> Blocks]
  BY <1>2, <1>5, <1>6
<1> HIDE DEF s
<1>9. s \in Seq(Blocks) /\ Len(s) = size
  BY <1>4, <1>8, IsSeq
<1>10. p \in Paths
  BY FilesDef
<1> DEFINE g == With(f, p, s)
<1>11. /\ IsFiles(g) /\ IsFile(g) /\ DOMAIN g = DOMAIN f /\ g[p] = s
       /\ \A q \in DOMAIN f : q # p => g[q] = f[q]
  <2>1. /\ IsFiles(With(f, p, s)) /\ IsFile(With(f, p, s)) /\ DOMAIN With(f, p, s) = DOMAIN f \cup {p}
        /\ With(f, p, s)[p] = s /\ \A q \in DOMAIN f : q # p => With(f, p, s)[q] = f[q]
    BY <1>9, <1>10, PutFacts
  <2>2. DOMAIN f \cup {p} = DOMAIN f
    OBVIOUS
  <2> QED BY <2>1, <2>2
<1> HIDE DEF g
<1>12. \A i \in off + 1 .. last : g[p][i] = b(i)
  BY <1>6, <1>7, <1>11
<1>13. Len(g[p]) = size
  BY <1>9, <1>11
<1>14. \A i \in 1 .. size : i \notin off + 1 .. last => i \in 1 .. Len(f[p]) /\ g[p][i] = f[p][i]
  BY <1>5, <1>7, <1>11
<1>15. WriteRange(f, p, off, len, c) = g
  BY <1>1 DEF g
<1> QED BY <1>4, <1>11, <1>12, <1>13, <1>14, <1>15 DEF b, last, WrittenRange

-----------------------------------------------------------------------------
(* The current file.                                                       *)

LEMMA FlushKeyFacts ==
    ASSUME KeyTypes
    PROVE  /\ FlushRelKey \in [Rels -> KeysMadeBy({"src", "tgt"})]
           /\ cur.sk = None => FlushRelKey = tmp
           /\ cur.sk # None =>
                 /\ cur \in Files /\ cur.path[1] \in Rels /\ FlushRelKey[cur.path[1]] = cur.tk
                 /\ \A r \in Rels : r # cur.path[1] => FlushRelKey[r] = tmp[r]
           /\ cur.sk \in KeysMadeBy({"src", "tgt"}) /\ cur.tk \in KeysMadeBy({"src", "tgt"})
<1>1. CASE cur.sk = None
  BY <1>1, KeyFacts DEF FlushRelKey, KeyTypes, NoFile
<1>2. CASE cur.sk # None
  <2>1. cur \in Files
    BY <1>2 DEF KeyTypes, NoFile
  <2>2. cur.path[1] \in Rels /\ cur.tk \in KeysMadeBy({"src", "tgt"}) /\ cur.sk \in KeysMadeBy({"src", "tgt"})
    BY <2>1, PathFacts DEF Files
  <2>3. FlushRelKey = [tmp EXCEPT ![cur.path[1]] = cur.tk]
    BY <1>2 DEF FlushRelKey
  <2>4. tmp \in [Rels -> KeysMadeBy({"src", "tgt"})]
    BY DEF KeyTypes
  <2> QED BY <1>2, <2>1, <2>2, <2>3, <2>4
<1> QED BY <1>1, <1>2

\* What looking up the keys of a file does.
LEMMA EnsureFacts ==
    ASSUME KeyTypes, step # "replayed", NEW path \in Paths, EnsureTdeKeys(path),
           skeys' = skeys, tkeys' = tkeys
    PROVE  /\ KeyTypes' /\ step' \in {step, "crashed"}
           /\ IsCurrent(cur, path) => tmp' = tmp /\ cur' = cur /\ step' = step
           /\ ~IsCurrent(cur, path) =>
                 /\ tmp' = FlushRelKey
                 /\ tmp'[path[1]] = None => cur' = NoFile /\ step' = step
                 /\ tmp'[path[1]] # None =>
                       /\ cur' = [path |-> path, sk |-> tmp'[path[1]], tk |-> tkeys[path[1]]]
                       /\ tkeys[path[1]] # None => step' = step
                       /\ tkeys[path[1]] = None => step' = "crashed"
<1>1. path[1] \in Rels
  BY PathFacts
<1>2. FlushRelKey \in [Rels -> KeysMadeBy({"src", "tgt"})]
  BY FlushKeyFacts
<1>3. tkeys \in [Rels -> KeysMadeBy({"src", "tgt"})] /\ tmp \in [Rels -> KeysMadeBy({"src", "tgt"})]
  BY DEF KeyTypes
<1>4. CASE IsCurrent(cur, path)
  <2>1. tmp' = tmp /\ cur' = cur /\ step' = step
    BY <1>4 DEF EnsureTdeKeys
  <2> QED BY <1>4, <2>1 DEF KeyTypes
<1>5. CASE ~IsCurrent(cur, path)
  <2>1. /\ tmp' = FlushRelKey
        /\ cur' = IF FlushRelKey[path[1]] = None THEN NoFile
                  ELSE [path |-> path, sk |-> FlushRelKey[path[1]], tk |-> tkeys[path[1]]]
        /\ step' = IF FlushRelKey[path[1]] # None /\ tkeys[path[1]] = None THEN "crashed" ELSE step
    BY <1>5 DEF EnsureTdeKeys
  <2>2. cur' = NoFile \/ (cur' \in Files /\ cur'.sk # None)
    BY <1>1, <1>2, <1>3, <2>1 DEF Files
  <2>3. KeyTypes'
    BY <1>2, <1>3, <2>1, <2>2 DEF KeyTypes
  <2> QED BY <1>5, <2>1, <2>3
<1> QED BY <1>4, <1>5

LEMMA EnsureFilesFacts ==
    ASSUME KeyTypes, NEW path, NEW f, IsFiles(f), IsFile(f)
    PROVE  /\ IsFiles(EnsureFiles(f, path)) /\ IsFile(EnsureFiles(f, path))
           /\ DOMAIN EnsureFiles(f, path) = DOMAIN f
           /\ \A p \in DOMAIN f : Len(EnsureFiles(f, path)[p]) = Len(f[p])
           /\ \A p \in DOMAIN f : IsRelFile(p) => EnsureFiles(f, path)[p] = f[p]
<1>1. \A p \in DOMAIN f : IsRelFile(p) => p # <<cur.path[1], FsmPart>>
  BY PathFacts DEF IsRelFile, FsmPart
<1>2. CASE IsCurrent(cur, path)
  BY <1>2 DEF EnsureFiles
<1>3. CASE ~IsCurrent(cur, path)
  BY <1>1, <1>3, FlushFacts DEF EnsureFiles
<1> QED BY <1>2, <1>3

\* The keys in use stay the source's and the target's, or the program dies.
LEMMA EnsureKeys ==
    ASSUME KeyTypes, KeysInv, step # "replayed", NEW path \in Paths, IsRelFile(path),
           EnsureTdeKeys(path), src' = src, skeys' = skeys, tkeys' = tkeys
    PROVE  /\ step' = "crashed" \/ KeysInv'
           /\ OnSource(path[1]) => cur'.sk \in {None, skeys[path[1]], cur'.tk}
<1>1. path[1] \in Rels /\ path # <<>>
  BY PathFacts
<1>2. \A r : OnSource(r)' <=> OnSource(r)
  BY DEF OnSource
<1>3. CASE IsCurrent(cur, path)
  <2>1. tmp' = tmp /\ cur' = cur
    BY <1>3, EnsureFacts
  <2>2. cur # NoFile /\ cur.path = path
    BY <1>1, <1>3 DEF IsCurrent, NoFile
  <2>3. KeysInv'
    BY <1>2, <2>1 DEF KeysInv
  <2> QED BY <2>1, <2>2, <2>3 DEF KeysInv
<1>4. CASE ~IsCurrent(cur, path)
  <2>1. \A r \in Rels : OnSource(r) => FlushRelKey[r] \in {None, skeys[r], tkeys[r]}
    <3>1. CASE cur.sk = None
      BY <3>1, FlushKeyFacts DEF KeysInv
    <3>2. CASE cur.sk # None
      <4>1. cur # NoFile
        BY <3>2 DEF NoFile
      <4> QED BY <3>2, <4>1, FlushKeyFacts DEF KeysInv
    <3> QED BY <3>1, <3>2
  <2>2. tmp' = FlushRelKey
    BY <1>4, EnsureFacts
  <2>3. CASE tmp'[path[1]] = None
    <3>1. cur' = NoFile
      BY <1>4, <2>3, EnsureFacts
    <3> QED BY <1>2, <2>1, <2>2, <3>1 DEF KeysInv, NoFile
  <2>4. CASE tmp'[path[1]] # None
    <3>1. /\ cur' = [path |-> path, sk |-> tmp'[path[1]], tk |-> tkeys[path[1]]]
          /\ tkeys[path[1]] = None => step' = "crashed"
      BY <1>4, <2>4, EnsureFacts
    <3>2. cur'.path = path /\ cur'.sk = tmp'[path[1]] /\ cur'.tk = tkeys[path[1]]
      BY <3>1
    <3>3. OnSource(path[1]) => cur'.sk \in {skeys[path[1]], cur'.tk}
      BY <1>1, <2>1, <2>2, <2>4, <3>2
    <3>4. (\A r \in Rels : OnSource(r) => tmp[r] \in {None, skeys[r], tkeys[r]})'
      BY <1>2, <2>1, <2>2
    <3>5. tkeys[path[1]] # None => KeysInv'
      BY <1>2, <3>2, <3>3, <3>4 DEF KeysInv
    <3> QED BY <3>1, <3>3, <3>5
  <2> QED BY <2>3, <2>4
<1> QED BY <1>3, <1>4

-----------------------------------------------------------------------------
(* The queue.                                                              *)

\* What one turn does: the queue stays the same but for its end, which is the
\* range's.
QueueTurn(path, enc, off, len) ==
    LET n == Len(queue) m == Len(queue') IN
    /\ queue' \in Seq(Requests) /\ m <= cap /\ want' \in Requests \cup {NoRange}
    /\ fetching' \in BOOLEAN /\ split' \in BOOLEAN
    /\ n \in Nat /\ m \in Nat /\ n <= m /\ m <= n + 1
    /\ \A k \in 1 .. n : /\ queue'[k].path = queue[k].path /\ queue'[k].off = queue[k].off
                         /\ queue'[k].encrypt = queue[k].encrypt
                         /\ queue'[k].len >= queue[k].len /\ (k < n \/ m = n + 1 => queue'[k].len = queue[k].len)
    /\ m = n + 1 => queue'[m].path = path /\ queue'[m].encrypt = enc /\ queue'[m].off = off
    /\ \/ /\ m = n /\ queue' = queue /\ n = cap /\ fetching' = TRUE /\ split' = TRUE
          /\ want' = [path |-> path, encrypt |-> enc, off |-> off, len |-> len]
       \/ \E t \in 1 .. len :
          /\ fetching' = FALSE /\ (split' <=> split)
          /\ m > 0 /\ queue'[m].path = path /\ queue'[m].off + queue'[m].len = off + t
          /\ m = n => queue[n].off + queue[n].len = off
          /\ m = n + 1 => queue'[m].len = t
          /\ want' = Piece(path, enc, off + t, len - t)

LEMMA QueueFacts ==
    ASSUME WorkTypes, cap \in Nat \ {0}, cap' = cap,
           NEW path \in Paths \cup WalPaths, NEW enc \in BOOLEAN, NEW off \in Nat,
           NEW len \in Nat \ {0}, QueueRange(path, enc, off, len)
    PROVE  QueueTurn(path, enc, off, len)
<1> DEFINE n == Len(queue) m == Len(queue')
<1>1. queue \in Seq(Requests) /\ n \in Nat /\ n <= cap
  BY DEF WorkTypes
<1>2. \A k \in 1 .. n : queue[k] \in Requests
  BY <1>1
<1>3. \A rq \in Requests : rq.len \in Nat \ {0} /\ rq.off \in Nat
  BY DEF Requests
<1>4. fetching' \in BOOLEAN /\ split' \in BOOLEAN
  BY DEF QueueRange
<1>5. CASE /\ Len(queue) = cap /\ queue' = queue
           /\ want' = [path |-> path, encrypt |-> enc, off |-> off, len |-> len]
           /\ fetching' = TRUE /\ split' = TRUE
  <2>1. want' \in Requests
    BY <1>5 DEF Requests
  <2> QED BY <1>1, <1>2, <1>3, <1>5, <2>1 DEF QueueTurn
<1>6. ASSUME NEW t \in 1 .. len,
             fetching' = FALSE, split' <=> split, want' = Piece(path, enc, off + t, len - t),
             queue # <<>> , queue[n].path = path, off = queue[n].off + queue[n].len,
             queue' = [queue EXCEPT ![n].len = @ + t]
      PROVE  /\ queue' \in Seq(Requests) /\ m = n
             /\ \A k \in 1 .. n : /\ queue'[k].path = queue[k].path /\ queue'[k].off = queue[k].off
                                  /\ queue'[k].encrypt = queue[k].encrypt
                                  /\ queue'[k].len >= queue[k].len /\ (k < n \/ m = n + 1 => queue'[k].len = queue[k].len)
             /\ n > 0 /\ queue'[n].path = path /\ queue'[n].off + queue'[n].len = off + t
  <2>1. n > 0 /\ n \in 1 .. n
    BY <1>1, <1>6
  <2> DEFINE rq == [queue[n] EXCEPT !.len = @ + t]
  <2>2. queue[n] \in Requests
    BY <1>2, <2>1
  <2>3. /\ rq \in Requests /\ rq.path = queue[n].path /\ rq.off = queue[n].off
        /\ rq.encrypt = queue[n].encrypt /\ rq.len = queue[n].len + t
    BY <2>2 DEF Requests
  <2> HIDE DEF rq
  <2>4. queue' = [queue EXCEPT ![n] = rq]
    BY <1>6 DEF rq
  <2>5. queue' \in Seq(Requests) /\ Len(queue') = n /\ queue'[n] = rq
        /\ \A k \in 1 .. n : k # n => queue'[k] = queue[k]
    BY <1>1, <2>1, <2>3, <2>4
  <2>6. queue[n].path = path /\ off = queue[n].off + queue[n].len
    BY <1>6
  <2>7. \A k \in 1 .. n : queue[k].len \in Nat /\ queue[k].off \in Nat
    BY <1>2, <1>3
  <2>8. \A k \in 1 .. n : /\ queue'[k].path = queue[k].path /\ queue'[k].off = queue[k].off
                          /\ queue'[k].encrypt = queue[k].encrypt
                          /\ queue'[k].len >= queue[k].len /\ (k < n \/ m = n + 1 => queue'[k].len = queue[k].len)
    BY <2>3, <2>5, <2>7
  <2>9. queue'[n].path = path /\ queue'[n].off + queue'[n].len = off + t
    BY <2>1, <2>3, <2>5, <2>6, <2>7
  <2> QED BY <2>1, <2>5, <2>8, <2>9
<1>7. ASSUME NEW t \in 1 .. len, Len(queue) < cap,
             queue' = Append(queue, [path |-> path, encrypt |-> enc, off |-> off, len |-> t])
      PROVE  /\ queue' \in Seq(Requests) /\ m = n + 1
             /\ \A k \in 1 .. n : queue'[k] = queue[k]
             /\ queue'[m] = [path |-> path, encrypt |-> enc, off |-> off, len |-> t]
  <2>1. [path |-> path, encrypt |-> enc, off |-> off, len |-> t] \in Requests
    BY DEF Requests
  <2> QED BY <1>1, <1>7, <2>1
<1>8. ASSUME NEW t \in 1 .. len PROVE Piece(path, enc, off + t, len - t) \in Requests \cup {NoRange}
  BY DEF Piece, Requests
<1> HIDE DEF m
<1>9. ASSUME NEW t \in 1 .. len,
             fetching' = FALSE, split' <=> split, want' = Piece(path, enc, off + t, len - t),
             \/ /\ queue # <<>> /\ queue[Len(queue)].path = path
                /\ off = queue[Len(queue)].off + queue[Len(queue)].len
                /\ queue' = [queue EXCEPT ![Len(queue)].len = @ + t]
             \/ /\ Len(queue) < cap
                /\ queue' = Append(queue, [path |-> path, encrypt |-> enc, off |-> off, len |-> t])
      PROVE  /\ queue' \in Seq(Requests) /\ m <= cap /\ m \in Nat /\ n <= m /\ m <= n + 1
             /\ \A k \in 1 .. n : /\ queue'[k].path = queue[k].path /\ queue'[k].off = queue[k].off
                                  /\ queue'[k].encrypt = queue[k].encrypt
                                  /\ queue'[k].len >= queue[k].len /\ (k < n \/ m = n + 1 => queue'[k].len = queue[k].len)
             /\ m = n + 1 => queue'[m].path = path /\ queue'[m].encrypt = enc /\ queue'[m].off = off
                             /\ queue'[m].len = t
             /\ m > 0 /\ queue'[m].path = path /\ queue'[m].off + queue'[m].len = off + t
             /\ m = n => queue[n].off + queue[n].len = off
  <2>1. CASE /\ queue # <<>> /\ queue[Len(queue)].path = path
             /\ off = queue[Len(queue)].off + queue[Len(queue)].len
             /\ queue' = [queue EXCEPT ![Len(queue)].len = @ + t]
    <3>1. /\ queue' \in Seq(Requests) /\ m = n
          /\ \A k \in 1 .. n : /\ queue'[k].path = queue[k].path /\ queue'[k].off = queue[k].off
                               /\ queue'[k].encrypt = queue[k].encrypt
                               /\ queue'[k].len >= queue[k].len /\ (k < n \/ m = n + 1 => queue'[k].len = queue[k].len)
          /\ n > 0 /\ queue'[n].path = path /\ queue'[n].off + queue'[n].len = off + t
      BY <1>6, <1>9, <2>1
    <3>2. off = queue[n].off + queue[n].len
      BY <2>1
    <3> QED BY <1>1, <3>1, <3>2
  <2>2. CASE /\ Len(queue) < cap
             /\ queue' = Append(queue, [path |-> path, encrypt |-> enc, off |-> off, len |-> t])
    <3>1. \A k \in 1 .. n : queue[k].len >= queue[k].len
      BY <1>2, <1>3
    <3> QED BY <1>1, <1>7, <2>2, <3>1
  <2> QED BY <1>9, <2>1, <2>2
<1>10. CASE \E t \in 1 .. len :
              /\ fetching' = FALSE /\ (split' <=> split)
              /\ want' = Piece(path, enc, off + t, len - t)
              /\ \/ /\ queue # <<>> /\ queue[Len(queue)].path = path
                    /\ off = queue[Len(queue)].off + queue[Len(queue)].len
                    /\ queue' = [queue EXCEPT ![Len(queue)].len = @ + t]
                 \/ /\ Len(queue) < cap
                    /\ queue' = Append(queue, [path |-> path, encrypt |-> enc, off |-> off, len |-> t])
  <2>1. PICK t \in 1 .. len :
              /\ fetching' = FALSE /\ (split' <=> split)
              /\ want' = Piece(path, enc, off + t, len - t)
              /\ \/ /\ queue # <<>> /\ queue[Len(queue)].path = path
                    /\ off = queue[Len(queue)].off + queue[Len(queue)].len
                    /\ queue' = [queue EXCEPT ![Len(queue)].len = @ + t]
                 \/ /\ Len(queue) < cap
                    /\ queue' = Append(queue, [path |-> path, encrypt |-> enc, off |-> off, len |-> t])
    BY <1>10
  <2>2. want' \in Requests \cup {NoRange}
    BY <1>8, <2>1
  <2> HIDE DEF n
  <2>3. /\ queue' \in Seq(Requests) /\ m <= cap /\ m \in Nat /\ n <= m /\ m <= n + 1
        /\ \A k \in 1 .. n : /\ queue'[k].path = queue[k].path /\ queue'[k].off = queue[k].off
                             /\ queue'[k].encrypt = queue[k].encrypt
                             /\ queue'[k].len >= queue[k].len /\ (k < n \/ m = n + 1 => queue'[k].len = queue[k].len)
        /\ m = n + 1 => queue'[m].path = path /\ queue'[m].encrypt = enc /\ queue'[m].off = off
                        /\ queue'[m].len = t
        /\ m > 0 /\ queue'[m].path = path /\ queue'[m].off + queue'[m].len = off + t
        /\ m = n => queue[n].off + queue[n].len = off
    BY <1>9, <2>1 DEF n
  <2>4. \E t1 \in 1 .. len :
           /\ fetching' = FALSE /\ (split' <=> split)
           /\ m > 0 /\ queue'[m].path = path /\ queue'[m].off + queue'[m].len = off + t1
           /\ m = n => queue[n].off + queue[n].len = off
           /\ m = n + 1 => queue'[m].len = t1
           /\ want' = Piece(path, enc, off + t1, len - t1)
    BY <2>1, <2>3, Zenon
  <2>5. m = n + 1 => queue'[m].path = path /\ queue'[m].encrypt = enc /\ queue'[m].off = off
    BY <2>3
  <2> QED BY <1>1, <1>4, <2>2, <2>3, <2>4, <2>5, Zenon DEF n, m, QueueTurn
<1>11. \/ /\ Len(queue) = cap /\ queue' = queue
          /\ want' = [path |-> path, encrypt |-> enc, off |-> off, len |-> len]
          /\ fetching' = TRUE /\ split' = TRUE
       \/ \E t \in 1 .. len :
              /\ fetching' = FALSE /\ (split' <=> split)
              /\ want' = Piece(path, enc, off + t, len - t)
              /\ \/ /\ queue # <<>> /\ queue[Len(queue)].path = path
                    /\ off = queue[Len(queue)].off + queue[Len(queue)].len
                    /\ queue' = [queue EXCEPT ![Len(queue)].len = @ + t]
                 \/ /\ Len(queue) < cap
                    /\ queue' = Append(queue, [path |-> path, encrypt |-> enc, off |-> off, len |-> t])
  BY QueueCases
<1> QED BY <1>5, <1>10, <1>11, Zenon DEF QueueTurn

\* Which files have requests, after a turn for path and after a row.
LEMMA QueueAsks ==
    ASSUME WorkTypes, cap \in Nat \ {0}, cap' = cap,
           NEW path \in Paths \cup WalPaths, NEW enc \in BOOLEAN, NEW off \in Nat,
           NEW len \in Nat \ {0}, QueueRange(path, enc, off, len),
           want = NoRange \/ want.path = path
    PROVE  \A p \in Paths \cup WalPaths : Asked(p)' <=> Asked(p) \/ p = path
<1> DEFINE n == Len(queue) m == Len(queue')
<1>t. QueueTurn(path, enc, off, len)
  BY QueueFacts
<1>1. /\ queue' \in Seq(Requests) /\ n \in Nat /\ m \in Nat /\ n <= m /\ m <= n + 1
      /\ \A k \in 1 .. n : queue'[k].path = queue[k].path
      /\ m = n + 1 => queue'[m].path = path
  BY <1>t DEF QueueTurn
<1>0. \/ want' = [path |-> path, encrypt |-> enc, off |-> off, len |-> len]
      \/ /\ m > 0 /\ queue'[m].path = path
         /\ \E t \in 1 .. len : want' = Piece(path, enc, off + t, len - t)
  BY <1>t DEF QueueTurn
<1>2. \/ want'.path = path
      \/ m > 0 /\ queue'[m].path = path
  <2>1. CASE want' = [path |-> path, encrypt |-> enc, off |-> off, len |-> len]
    BY <2>1
  <2>2. CASE m > 0 /\ queue'[m].path = path
    BY <2>2
  <2> QED BY <1>0, <2>1, <2>2
<1>3. want' = NoRange \/ want'.path = path
  <2>1. CASE want' = [path |-> path, encrypt |-> enc, off |-> off, len |-> len]
    BY <2>1
  <2>2. CASE \E t \in 1 .. len : want' = Piece(path, enc, off + t, len - t)
    BY <2>2 DEF Piece
  <2> QED BY <1>0, <2>1, <2>2
<1>4. DOMAIN queue = 1 .. n /\ DOMAIN queue' = 1 .. m
  BY <1>1 DEF WorkTypes
<1> HIDE DEF n, m
<1>5. ASSUME NEW p \in Paths \cup WalPaths, Asked(p) \/ p = path PROVE Asked(p)'
  <2>1. CASE p = path
    BY <1>1, <1>2, <1>4, <2>1 DEF Asked
  <2>2. CASE p # path
    <3>1. p # <<>> /\ NoRange.path = <<>>
      BY PathFacts DEF NoRange
    <3>2. PICK k \in 1 .. n : queue[k].path = p
      BY <1>4, <1>5, <2>2, <3>1 DEF Asked
    <3> QED BY <1>1, <1>4, <3>2 DEF Asked
  <2> QED BY <2>1, <2>2
<1>6. ASSUME NEW p \in Paths \cup WalPaths, Asked(p)' PROVE Asked(p) \/ p = path
  <2>1. p # <<>> /\ NoRange.path = <<>>
    BY PathFacts DEF NoRange
  <2>2. CASE want'.path = p
    BY <1>3, <2>1, <2>2
  <2>3. CASE \E k \in 1 .. m : queue'[k].path = p
    <3>1. PICK k \in 1 .. m : queue'[k].path = p
      BY <2>3
    <3>2. k \in 1 .. n \/ (k = m /\ m = n + 1)
      BY <1>1
    <3> QED BY <1>1, <1>4, <3>1, <3>2 DEF Asked
  <2> QED BY <1>4, <1>6, <2>2, <2>3 DEF Asked
<1> QED BY <1>5, <1>6

LEMMA PopFacts ==
    ASSUME WorkTypes, queue # <<>>, queue' = Tail(queue), want' = want
    PROVE  /\ queue' \in Seq(Requests) /\ Len(queue) \in Nat \ {0} /\ Len(queue') = Len(queue) - 1
           /\ DOMAIN queue = 1 .. Len(queue) /\ DOMAIN queue' = 1 .. Len(queue')
           /\ \A k \in 1 .. Len(queue') : queue'[k] = queue[k + 1]
           /\ Head(queue) = queue[1] /\ queue[1] \in Requests
           /\ \A p : Asked(p)' => Asked(p)
           /\ \A p : Asked(p) => Asked(p)' \/ queue[1].path = p
<1>1. queue \in Seq(Requests)
  BY DEF WorkTypes
<1>2. /\ queue' \in Seq(Requests) /\ Len(queue) \in Nat \ {0} /\ Len(queue') = Len(queue) - 1
      /\ DOMAIN queue = 1 .. Len(queue) /\ DOMAIN queue' = 1 .. Len(queue')
      /\ \A k \in 1 .. Len(queue') : queue'[k] = queue[k + 1]
      /\ Head(queue) = queue[1]
  BY <1>1
<1>3. queue[1] \in Requests
  BY <1>1, <1>2
<1>4. ASSUME NEW p, Asked(p)' PROVE Asked(p)
  <2>1. CASE want'.path = p
    BY <2>1 DEF Asked
  <2>2. CASE \E k \in 1 .. Len(queue') : queue'[k].path = p
    <3>1. PICK k \in 1 .. Len(queue') : queue'[k].path = p
      BY <2>2
    <3>2. k + 1 \in 1 .. Len(queue) /\ queue[k + 1].path = p
      BY <1>2, <3>1
    <3> QED BY <1>2, <3>2 DEF Asked
  <2> QED BY <1>2, <1>4, <2>1, <2>2 DEF Asked
<1>5. ASSUME NEW p, Asked(p), queue[1].path # p PROVE Asked(p)'
  <2>1. CASE want.path = p
    BY <2>1 DEF Asked
  <2>2. CASE \E k \in 1 .. Len(queue) : queue[k].path = p
    <3>1. PICK k \in 1 .. Len(queue) : queue[k].path = p
      BY <2>2
    <3>2. k # 1
      BY <1>5, <3>1
    <3>3. k - 1 \in 1 .. Len(queue') /\ k = (k - 1) + 1
      BY <1>2, <3>2
    <3>4. queue'[k - 1].path = p
      BY <1>2, <3>1, <3>3
    <3> QED BY <1>2, <3>3, <3>4 DEF Asked
  <2> QED BY <1>2, <1>5, <2>1, <2>2 DEF Asked
<1> QED BY <1>2, <1>3, <1>4, <1>5

-----------------------------------------------------------------------------
(* Files only grow, or keep what the source has of them.                   *)

Stays(p) ==
    p \in DOMAIN src /\ p \in DOMAIN tgt =>
        p \in DOMAIN tgt' /\ (Len(tgt'[p]) >= Len(tgt[p]) \/ Len(tgt'[p]) >= Len(src[p]))

Kept(p) ==
    /\ Stays(p)
    /\ p \notin DOMAIN src /\ p \in DOMAIN tgt' => p \in DOMAIN tgt /\ Len(tgt'[p]) >= Len(tgt[p])

LEMMA KeptFacts ==
    ASSUME IsFiles(src), IsFiles(tgt), IsFiles(tgt)', src' = src, mode' = mode
    PROVE  /\ \A rq : RequestOK(rq) /\ Stays(rq.path) => RequestOK(rq)'
           /\ \A p \in DOMAIN src : \A o \in Nat :
                 p \in DOMAIN tgt /\ Stays(p) /\ Reached(p, o) => Reached(p, o)'
           /\ \A e \in Entries : EntryOK(e) /\ Kept(e.path) => EntryOK(e)'
<1>1. \A p : Here(p)' <=> Here(p)
  BY DEF Here, OnSource
<1>2. ASSUME NEW rq, RequestOK(rq), Stays(rq.path) PROVE RequestOK(rq)'
  BY <1>1, <1>2 DEF RequestOK, Stays
<1>3. \A p \in DOMAIN src : Len(src[p]) \in Nat
  BY FilesDef
<1>4. \A p \in DOMAIN tgt : Len(tgt[p]) \in Nat
  BY FilesDef
<1>5. \A p \in DOMAIN tgt' : Len(tgt'[p]) \in Nat
  BY FilesDef
<1>6. ASSUME NEW p \in DOMAIN src, NEW o \in Nat, p \in DOMAIN tgt, Stays(p), Reached(p, o)
      PROVE  Reached(p, o)'
  BY <1>3, <1>4, <1>5, <1>6 DEF Stays, Reached
<1>7. ASSUME NEW e \in Entries, EntryOK(e), Kept(e.path) PROVE EntryOK(e)'
  <2>1. e.ssize \in Nat /\ e.tsize \in Nat /\ e.left \subseteq Nat
    <3>1. Pages \subseteq Nat
      BY PathFacts DEF Pages
    <3> QED BY <3>1 DEF Entries
  <2>2. CASE e.path \notin Paths \/ e.path \notin DOMAIN src
    <3>1. CASE e.path \notin DOMAIN tgt'
      BY <1>1, <1>7, <2>2, <3>1 DEF EntryOK
    <3>2. CASE e.path \notin Paths
      BY <1>7, <3>2 DEF EntryOK
    <3>3. CASE e.path \in DOMAIN tgt' /\ e.path \notin DOMAIN src
      <4>1. e.path \in DOMAIN tgt /\ Len(tgt'[e.path]) >= Len(tgt[e.path])
        BY <1>7, <3>3 DEF Kept
      <4>2. Len(tgt[e.path]) \in Nat /\ Len(tgt'[e.path]) \in Nat
        BY <1>4, <1>5, <3>3, <4>1
      <4> QED BY <1>1, <1>7, <2>1, <3>3, <4>1, <4>2 DEF EntryOK
    <3> QED BY <2>2, <3>1, <3>2, <3>3
  <2>3. CASE e.path \in Paths /\ e.path \in DOMAIN src
    <3>1. CASE e.path \notin DOMAIN tgt
      <4>1. e.left = {} /\ e.action \notin Patching
        BY <1>7, <2>3, <3>1 DEF EntryOK
      <4> QED BY <1>1, <1>7, <2>3, <4>1 DEF EntryOK, Patching
    <3>2. CASE e.path \in DOMAIN tgt
      <4>1. e.path \in DOMAIN tgt' /\ (Len(tgt'[e.path]) >= Len(tgt[e.path]) \/ Len(tgt'[e.path]) >= Len(src[e.path]))
        BY <1>7, <2>3, <3>2 DEF Kept, Stays
      <4>2. Len(src[e.path]) \in Nat /\ Len(tgt[e.path]) \in Nat /\ Len(tgt'[e.path]) \in Nat
        BY <1>3, <1>4, <1>5, <2>3, <3>2, <4>1
      <4> QED BY <1>1, <1>7, <2>1, <2>3, <4>1, <4>2 DEF EntryOK
    <3> QED BY <3>1, <3>2
  <2> QED BY <2>2, <2>3
<1> QED BY <1>2, <1>6, <1>7

LEMMA RowsKept ==
    ASSUME WorkTypes, RowsOK, WantOK, IsFiles(src), IsFiles(tgt), IsFiles(tgt)', src' = src,
           mode' = mode, queue' = queue, want' = want, \A p : Asked(p) => Stays(p)
    PROVE  RowsOK' /\ WantOK'
<1>1. queue \in Seq(Requests) /\ DOMAIN queue = 1 .. Len(queue)
  BY DEF WorkTypes
<1>2. ASSUME NEW k \in DOMAIN queue PROVE RowOK(k)'
  <2>1. queue[k] \in Requests /\ RowOK(k)
    BY <1>1, <1>2 DEF RowsOK
  <2>2. Asked(queue[k].path)
    BY <1>2 DEF Asked
  <2>3. PICK rq \in Requests : rq = queue[k]
    BY <2>1
  <2>4. RequestOK(rq) /\ Stays(rq.path) /\ rq.off \in Nat
    BY <2>1, <2>2, <2>3 DEF RowOK, Requests
  <2>5. RequestOK(rq)'
    BY <2>4, KeptFacts
  <2>6. rq.path \in Paths /\ rq.path \in DOMAIN src /\ Reached(rq.path, rq.off) => Reached(rq.path, rq.off)'
    <3>1. rq.path \in Paths /\ rq.path \in DOMAIN src => rq.path \in DOMAIN tgt
      BY <2>4 DEF RequestOK
    <3> QED BY <2>4, <3>1, KeptFacts
  <2> QED BY <2>1, <2>3, <2>5, <2>6 DEF RowOK
<1>3. RowsOK'
  BY <1>2 DEF RowsOK
<1>4. ASSUME want # NoRange PROVE WantOK'
  <2>1. PICK rq \in Requests : rq = want
    BY <1>4 DEF WorkTypes
  <2>2. Asked(want.path)
    BY DEF Asked
  <2>4. RequestOK(rq) /\ Stays(rq.path) /\ rq.off \in Nat
    BY <1>4, <2>1, <2>2 DEF WantOK, Requests
  <2>5. RequestOK(rq)'
    BY <2>4, KeptFacts
  <2>6. rq.path \in Paths /\ rq.path \in DOMAIN src /\ Reached(rq.path, rq.off) => Reached(rq.path, rq.off)'
    <3>1. rq.path \in Paths /\ rq.path \in DOMAIN src => rq.path \in DOMAIN tgt
      BY <2>4 DEF RequestOK
    <3> QED BY <2>4, <3>1, KeptFacts
  <2> QED BY <1>4, <2>1, <2>5, <2>6 DEF WantOK
<1> QED BY <1>3, <1>4 DEF WantOK

\* The first request has been written: the next one, if it continues it, can be
\* written without leaving a gap.
LEMMA RowsPopped ==
    ASSUME WorkTypes, RowsOK, WantOK, IsFiles(src), IsFiles(tgt), IsFiles(tgt)', src' = src,
           mode' = mode, queue # <<>>, queue' = Tail(queue), want' = want,
           \A p : Asked(p) => Stays(p),
           \A rq \in Requests : \A o \in Nat :
              rq = queue[1] /\ rq.path \in Paths /\ rq.path \in DOMAIN src /\ o = rq.off + rq.len =>
                 Reached(rq.path, o)'
    PROVE  RowsOK' /\ WantOK'
<1>1. /\ queue' \in Seq(Requests) /\ Len(queue) \in Nat \ {0} /\ Len(queue') = Len(queue) - 1
      /\ DOMAIN queue = 1 .. Len(queue) /\ DOMAIN queue' = 1 .. Len(queue')
      /\ \A k \in 1 .. Len(queue') : queue'[k] = queue[k + 1]
      /\ queue[1] \in Requests /\ queue \in Seq(Requests)
  BY PopFacts DEF WorkTypes
<1>2. PICK first \in Requests : first = queue[1]
  BY <1>1
<1>3. ASSUME NEW rq \in Requests, Asked(rq.path), RequestOK(rq)
      PROVE  /\ RequestOK(rq)' /\ rq.off \in Nat
             /\ rq.path \in Paths /\ rq.path \in DOMAIN src /\ Reached(rq.path, rq.off) => Reached(rq.path, rq.off)'
             /\ rq.path \in Paths /\ rq.path \in DOMAIN src /\ Continues(rq, first) => Reached(rq.path, rq.off)'
  <2>1. Stays(rq.path) /\ rq.off \in Nat /\ first.off \in Nat /\ first.len \in Nat
    BY <1>3 DEF Requests
  <2>2. RequestOK(rq)'
    BY <1>3, <2>1, KeptFacts
  <2>3. rq.path \in Paths /\ rq.path \in DOMAIN src => rq.path \in DOMAIN tgt
    BY <1>3 DEF RequestOK
  <2>4. rq.path \in Paths /\ rq.path \in DOMAIN src /\ Reached(rq.path, rq.off) => Reached(rq.path, rq.off)'
    BY <2>1, <2>3, KeptFacts
  <2>5. ASSUME rq.path \in Paths, rq.path \in DOMAIN src, Continues(rq, first) PROVE Reached(rq.path, rq.off)'
    <3>1. rq.path = first.path /\ rq.off = first.off + first.len
      BY <2>5 DEF Continues
    <3>2. Reached(first.path, rq.off)'
      BY <1>2, <2>1, <2>5, <3>1
    <3> QED BY <3>1, <3>2
  <2> QED BY <2>1, <2>2, <2>4, <2>5
<1>4. ASSUME NEW k \in 1 .. Len(queue') PROVE RowOK(k)'
  <2>1. k + 1 \in 1 .. Len(queue) /\ queue'[k] = queue[k + 1] /\ queue[k + 1] \in Requests
    BY <1>1
  <2>2. PICK rq \in Requests : rq = queue[k + 1]
    BY <2>1
  <2>3. RowOK(k + 1) /\ Asked(rq.path)
    BY <1>1, <2>1, <2>2 DEF RowsOK, Asked
  <2>4. RequestOK(rq)
    BY <2>2, <2>3 DEF RowOK
  <2>5. k > 1 => queue[k] = queue'[k - 1]
    <3>1. k > 1 => k - 1 \in 1 .. Len(queue') /\ (k - 1) + 1 = k
      BY <1>1
    <3> QED BY <1>1, <3>1
  <2>6. rq.path \in Paths /\ rq.path \in DOMAIN src =>
           \/ Reached(rq.path, rq.off)
           \/ Continues(rq, queue[k])
    <3>1. (k + 1) - 1 = k
      OBVIOUS
    <3> QED BY <2>2, <2>3, <3>1 DEF RowOK
  <2>7. rq.path \in Paths /\ rq.path \in DOMAIN src =>
           Reached(rq.path, rq.off)' \/ (k > 1 /\ Continues(rq, queue'[k - 1]))
    <3>1. k > 1 \/ k = 1
      OBVIOUS
    <3> QED BY <1>2, <1>3, <2>3, <2>4, <2>5, <2>6, <3>1
  <2>8. RequestOK(rq)'
    BY <1>3, <2>3, <2>4
  <2>9. rq = queue'[k] /\ src' = src
    BY <2>1, <2>2
  <2> QED BY <2>7, <2>8, <2>9 DEF RowOK, Continues
<1>5. RowsOK'
  BY <1>1, <1>4 DEF RowsOK
<1>6. ASSUME want # NoRange PROVE WantOK'
  <2>1. PICK rq \in Requests : rq = want
    BY <1>6 DEF WorkTypes
  <2>2. Asked(rq.path) /\ RequestOK(rq)
    BY <1>6, <2>1 DEF Asked, WantOK
  <2>3. rq.path \in Paths /\ rq.path \in DOMAIN src =>
           Reached(rq.path, rq.off) \/ Continues(rq, queue[Len(queue)])
    BY <1>6, <2>1 DEF WantOK
  <2>4. rq.path \in Paths /\ rq.path \in DOMAIN src =>
           Reached(rq.path, rq.off)' \/ (queue' # <<>> /\ Continues(rq, queue'[Len(queue')]))
    <3>1. CASE Len(queue) = 1
      BY <1>2, <1>3, <2>2, <2>3, <3>1
    <3>2. CASE Len(queue) # 1
      <4>1. Len(queue') \in 1 .. Len(queue') /\ Len(queue') + 1 = Len(queue)
        BY <1>1, <3>2
      <4>2. queue'[Len(queue')] = queue[Len(queue)] /\ queue' # <<>>
        <5>1. queue'[Len(queue')] = queue[Len(queue') + 1]
          BY <1>1, <4>1
        <5>2. Len(queue') # 0
          BY <4>1
        <5> QED BY <1>1, <4>1, <5>1, <5>2
      <4> QED BY <1>3, <2>2, <2>3, <4>2
    <3> QED BY <3>1, <3>2
  <2>5. RequestOK(rq)'
    BY <1>3, <2>2
  <2>6. rq = want' /\ src' = src
    BY <2>1
  <2> QED BY <2>4, <2>5, <2>6 DEF WantOK, Continues
<1> QED BY <1>5, <1>6 DEF WantOK

\* A range that can be written, or continues what is asked for, is being queued.
LEMMA RowsQueued ==
    ASSUME WorkTypes, RowsOK, IsFiles(src), IsFiles(tgt), IsFiles(tgt)', src' = src, mode' = mode,
           cap \in Nat \ {0}, cap' = cap,
           NEW path \in Paths \cup WalPaths, NEW enc \in BOOLEAN, NEW off \in Nat,
           NEW len \in Nat \ {0}, QueueRange(path, enc, off, len),
           \A p : Asked(p) => Stays(p),
           NEW rq, rq = [path |-> path, encrypt |-> enc, off |-> off, len |-> len],
           RequestOK(rq)',
           path \in Paths /\ path \in DOMAIN src =>
              Reached(path, off)' \/ (queue # <<>> /\ Continues(rq, queue[Len(queue)]))
    PROVE  RowsOK' /\ WantOK'
<1> DEFINE n == Len(queue) m == Len(queue')
<1>0. QueueTurn(path, enc, off, len)
  BY QueueFacts
<1>1. /\ queue' \in Seq(Requests) /\ n \in Nat /\ m \in Nat /\ n <= m /\ m <= n + 1
      /\ \A k \in 1 .. n : /\ queue'[k].path = queue[k].path /\ queue'[k].off = queue[k].off
                           /\ queue'[k].encrypt = queue[k].encrypt
                           /\ (k < n \/ m = n + 1 => queue'[k].len = queue[k].len)
      /\ m = n + 1 => queue'[m].path = path /\ queue'[m].encrypt = enc /\ queue'[m].off = off
      /\ \/ m = n /\ queue' = queue /\ want' = rq
         \/ \E t \in 1 .. len :
               /\ m > 0 /\ queue'[m].path = path /\ queue'[m].off + queue'[m].len = off + t
               /\ want' = Piece(path, enc, off + t, len - t)
  BY <1>0 DEF QueueTurn
<1>2. DOMAIN queue = 1 .. n /\ DOMAIN queue' = 1 .. m /\ queue \in Seq(Requests)
  BY <1>1 DEF WorkTypes
<1>3. rq \in Requests
  BY DEF Requests
<1>r. rq.path = path /\ rq.encrypt = enc /\ rq.off = off
  OBVIOUS
<1> HIDE DEF n, m
<1>4. ASSUME NEW k \in 1 .. n PROVE RowOK(k)'
  <2>1. queue[k] \in Requests
    BY <1>2, <1>4 DEF n
  <2>2. PICK r1 \in Requests : r1 = queue[k]
    BY <2>1
  <2>3. RequestOK(r1) /\ Asked(r1.path) /\ r1.off \in Nat
    BY <1>2, <2>2 DEF RowsOK, RowOK, Asked, Requests
  <2>4. RequestOK(r1)' /\ Stays(r1.path)
    BY <2>3, KeptFacts
  <2>5. r1.path \in Paths /\ r1.path \in DOMAIN src =>
           Reached(r1.path, r1.off) \/ (k > 1 /\ Continues(r1, queue[k - 1]))
    BY <1>2, <2>2 DEF RowsOK, RowOK
  <2>6. k > 1 /\ Continues(r1, queue[k - 1]) => Continues(r1, queue'[k - 1])
    <3>1. k > 1 => k - 1 \in 1 .. n /\ k - 1 < n
      BY <1>1
    <3> QED BY <1>1, <3>1 DEF Continues
  <2>7. r1.path \in Paths /\ r1.path \in DOMAIN src => r1.path \in DOMAIN tgt
    BY <2>3 DEF RequestOK
  <2>8. r1.path \in Paths /\ r1.path \in DOMAIN src =>
           Reached(r1.path, r1.off)' \/ (k > 1 /\ Continues(r1, queue'[k - 1]))
    BY <2>3, <2>4, <2>5, <2>6, <2>7, KeptFacts
  <2>9. queue'[k].path = r1.path /\ queue'[k].off = r1.off /\ queue'[k].encrypt = r1.encrypt
    BY <1>1, <2>2
  <2>10. RequestOK(queue[k])'
    BY <2>4, <2>9 DEF RequestOK
  <2> QED BY <2>8, <2>9, <2>10 DEF RowOK, Continues
<1>5. ASSUME NEW k, k = m, m = n + 1 PROVE RowOK(k)'
  <2>1. queue'[m].path = path /\ queue'[m].encrypt = enc /\ queue'[m].off = off
    BY <1>1, <1>5
  <2>2. m - 1 = n /\ (m > 1 <=> n > 0)
    BY <1>1, <1>5
  <2>3. n > 0 => queue'[n].path = queue[n].path /\ queue'[n].off = queue[n].off /\ queue'[n].len = queue[n].len
    BY <1>1, <1>5
  <2>4. queue # <<>> => n > 0
    BY <1>2 DEF n
  <2>5. path \in Paths /\ path \in DOMAIN src =>
           Reached(path, off)' \/ (m > 1 /\ Continues(rq, queue'[m - 1]))
    BY <2>2, <2>3, <2>4 DEF Continues, n
  <2>6. RequestOK(queue[k])'
    BY <1>5, <2>1, <1>r DEF RequestOK
  <2> QED BY <1>5, <1>r, <2>1, <2>5, <2>6 DEF RowOK, Continues
<1>6. RowsOK'
  <2>1. ASSUME NEW k \in 1 .. m PROVE RowOK(k)'
    <3>1. k \in 1 .. n \/ (k = m /\ m = n + 1)
      BY <1>1
    <3>2. CASE k \in 1 .. n
      BY <1>4, <3>2
    <3>3. CASE k = m /\ m = n + 1
      BY <1>5, <3>3
    <3> QED BY <3>1, <3>2, <3>3
  <2> QED BY <1>2, <2>1 DEF RowsOK
<1>7. WantOK'
  <2>1. CASE m = n /\ queue' = queue /\ want' = rq
    <3>1. RequestOK(want)'
      BY <2>1
    <3> QED BY <1>r, <2>1, <3>1 DEF WantOK, Continues
  <2>2. CASE \E t \in 1 .. len :
                /\ m > 0 /\ queue'[m].path = path /\ queue'[m].off + queue'[m].len = off + t
                /\ want' = Piece(path, enc, off + t, len - t)
    <3>1. PICK t \in 1 .. len :
                /\ m > 0 /\ queue'[m].path = path /\ queue'[m].off + queue'[m].len = off + t
                /\ want' = Piece(path, enc, off + t, len - t)
      BY <2>2
    <3>2. ASSUME want' # NoRange
          PROVE  want'.path = path /\ want'.encrypt = enc /\ want'.off = off + t
      BY <3>1, <3>2 DEF Piece
    <3>3. ASSUME want' # NoRange PROVE RequestOK(want)' /\ queue' # <<>> /\ Continues(want', queue'[m])
      <4>1. queue' # <<>>
        BY <1>1, <3>1 DEF m
      <4> QED BY <1>r, <3>1, <3>2, <3>3, <4>1 DEF RequestOK, Continues
    <3> QED BY <3>3 DEF WantOK, Continues, m
  <2> QED BY <1>1, <2>1, <2>2
<1> QED BY <1>6, <1>7

-----------------------------------------------------------------------------
(* What every step of perform_rewind() and of the fetching keeps, apart    *)
(* from the file map.                                                      *)

QueueTyped ==
    /\ queue \in Seq(Requests) /\ Len(queue) <= cap
    /\ want \in Requests \cup {NoRange}
    /\ fetching \in BOOLEAN /\ split \in BOOLEAN

LocalOK == mode = "local" => queue = <<>> /\ want = NoRange /\ ~fetching

Work ==
    /\ IsFiles(tgt) /\ IsFile(tgt) /\ KeyTypes /\ QueueTyped
    /\ NotGarbled /\ RowsOK /\ WantOK /\ LocalOK
    /\ step \in {"perform", "crashed"}
    /\ step = "perform" => KeysInv

Performing == Typed /\ SafeInv /\ step = "perform"

SameSource == mode' = mode /\ cap' = cap /\ src' = src /\ skeys' = skeys /\ tkeys' = tkeys

LEMMA PerformingFacts ==
    ASSUME Performing
    PROVE  /\ Work /\ WorkTypes /\ KeyTypes /\ IsFiles(src) /\ IsFiles(tgt) /\ IsFile(tgt)
           /\ KeysInv /\ SourceBlocks /\ NotGarbled /\ RowsOK /\ WantOK /\ WorkInv /\ LocalOK
           /\ cap \in Nat \ {0} /\ mode \in {"local", "remote"}
           /\ \A e \in filemap : e \in Entries /\ EntryOK(e)
<1>1. cap \in Nat \ {0} /\ mode \in {"local", "remote"}
  BY RewindAssumption DEF Performing, Typed, Fixed
<1> QED BY <1>1 DEF Performing, Typed, Fixed, SafeInv, WorkInv, Work, QueueTyped, WorkTypes, LocalOK

\* A relation's blocks stay under the source's or the target's key when a range
\* is written with the keys that have been looked up for it.
LEMMA WriteNotGarbled ==
    ASSUME Performing, SameSource, NEW f, IsFiles(f), NEW p \in DOMAIN src, p \in DOMAIN f,
           NEW off \in Nat, NEW len \in Nat,
           off <= Len(f[p]) \/ Len(src[p]) <= Len(f[p]),
           NEW c, c.sk \in FileKeys, c.tk \in KeysMadeBy({"src", "tgt"}),
           c.sk \in {None, skeys[p[1]], c.tk},
           \A q \in DOMAIN f : IsRelFile(q) => \A i \in DOMAIN f[q] : f[q][i].key # Garbled,
           tgt' = WriteRange(f, p, off, len, c)
    PROVE  IsFiles(tgt)' /\ IsFile(tgt)' /\ NotGarbled'
<1> DEFINE g == WriteRange(f, p, off, len, c)
           last == MinOf(off + len, Len(src[p]))
<1>1. c.tk \in FileKeys /\ c.tk # Garbled /\ skeys[p[1]] # Garbled /\ p[1] \in Rels
  <2>1. p[1] \in Rels
    BY PerformingFacts, FilesDef, PathFacts
  <2>2. skeys[p[1]] \in KeysMadeBy({"src"})
    BY <2>1, PerformingFacts DEF KeyTypes
  <2> QED BY <2>1, <2>2, KeyFacts
<1>2. /\ IsFiles(g) /\ IsFile(g) /\ DOMAIN g = DOMAIN f
      /\ \A q \in DOMAIN f : q # p => g[q] = f[q]
      /\ \A i \in off + 1 .. last :
            g[p][i] = ReencryptBlock(src[p][i], c.sk, c.tk, i - 1 + p[2] * SegBlocks, i - 1 + p[2] * SegBlocks)
      /\ \A i \in 1 .. Len(g[p]) : i \notin off + 1 .. last => i \in 1 .. Len(f[p]) /\ g[p][i] = f[p][i]
  <2>1. IsFiles(src) /\ c.tk \in FileKeys
    BY <1>1, PerformingFacts
  <2>2. WrittenRange(g, f, p, off, len, c)
    BY <2>1, WriteFacts
  <2> QED BY <2>2 DEF WrittenRange
<1>3. /\ Len(src[p]) \in Nat /\ DOMAIN src[p] = 1 .. Len(src[p])
      /\ \A i \in 1 .. Len(src[p]) : src[p][i] \in Blocks /\ src[p][i].key = skeys[p[1]]
  BY PerformingFacts, FilesDef DEF SourceBlocks, Block
<1>4. ASSUME NEW i \in off + 1 .. last PROVE g[p][i].key # Garbled
  <2>1. i \in 1 .. Len(src[p])
    BY <1>3 DEF MinOf
  <2>2. src[p][i] \in Blocks /\ src[p][i].key = skeys[p[1]]
    BY <1>3, <2>1
  <2>3. CASE c.sk = None \/ c.sk = c.tk
    BY <1>1, <1>2, <2>2, <2>3, ReencryptFacts
  <2>4. CASE c.sk # None /\ c.sk = skeys[p[1]]
    BY <1>1, <1>2, <2>2, <2>4, ReencryptFacts DEF Block
  <2> QED BY <2>3, <2>4
<1> HIDE DEF g
<1>5. ASSUME NEW q \in DOMAIN g, IsRelFile(q), NEW i \in DOMAIN g[q] PROVE g[q][i].key # Garbled
  <2>1. CASE q # p
    BY <1>2, <1>5, <2>1
  <2>2. CASE q = p
    <3>1. DOMAIN g[p] = 1 .. Len(g[p]) /\ DOMAIN f[p] = 1 .. Len(f[p])
      BY <1>2, FilesDef
    <3> QED BY <1>2, <1>4, <1>5, <2>2, <3>1
  <2> QED BY <2>1, <2>2
<1>6. tgt' = g
  BY DEF g
<1> QED BY <1>2, <1>5, <1>6 DEF NotGarbled

\* A range is written, the keys of the file having been looked up.
LEMMA EnsureAndWrite ==
    ASSUME Performing, SameSource, NEW path \in Paths, IsRelFile(path),
           path \in DOMAIN src, path \in DOMAIN tgt,
           NEW off \in Nat, NEW len \in Nat, Reached(path, off), EnsureTdeKeys(path),
           tgt' = WriteRange(EnsureFiles(tgt, path), path, off, len, cur')
    PROVE  /\ IsFiles(tgt)' /\ IsFile(tgt)' /\ NotGarbled' /\ \A p : Kept(p)
           /\ KeyTypes' /\ step' \in {"perform", "crashed"} /\ (step' = "crashed" \/ KeysInv')
           /\ Reached(path, off + len)'
           /\ WrittenRange(tgt', EnsureFiles(tgt, path), path, off, len, cur')
<1> USE DEF SameSource
<1>1. KeyTypes /\ step = "perform" /\ KeysInv /\ IsFiles(tgt) /\ IsFile(tgt) /\ IsFiles(src)
  BY PerformingFacts DEF Performing
<1> DEFINE f == EnsureFiles(tgt, path)
<1>2. /\ IsFiles(f) /\ IsFile(f) /\ DOMAIN f = DOMAIN tgt
      /\ \A p \in DOMAIN tgt : Len(f[p]) = Len(tgt[p])
      /\ \A p \in DOMAIN tgt : IsRelFile(p) => f[p] = tgt[p]
  BY <1>1, EnsureFilesFacts
<1>3. KeyTypes' /\ step' \in {"perform", "crashed"} /\ (step' = "crashed" \/ KeysInv')
  BY <1>1, EnsureFacts, EnsureKeys
<1>4. cur'.sk \in FileKeys /\ cur'.tk \in KeysMadeBy({"src", "tgt"}) /\ cur'.sk \in {None, skeys[path[1]], cur'.tk}
  <2>1. cur'.sk \in KeysMadeBy({"src", "tgt"}) /\ cur'.tk \in KeysMadeBy({"src", "tgt"})
    BY <1>3, KeyFacts DEF KeyTypes, Files, NoFile
  <2>2. OnSource(path[1])
    BY DEF OnSource
  <2> QED BY <1>1, <2>1, <2>2, EnsureKeys, KeyFacts
<1> HIDE DEF f
<1>5. \A q \in DOMAIN f : IsRelFile(q) => \A i \in DOMAIN f[q] : f[q][i].key # Garbled
  BY <1>2, PerformingFacts DEF NotGarbled
<1>6. PICK c : c = cur'
  OBVIOUS
<1>7. tgt' = WriteRange(f, path, off, len, c)
  BY <1>6 DEF f
<1>8. path \in DOMAIN f /\ (off <= Len(f[path]) \/ Len(src[path]) <= Len(f[path]))
  BY <1>2 DEF Reached
<1>9. IsFiles(tgt)' /\ IsFile(tgt)' /\ NotGarbled'
  BY <1>2, <1>4, <1>5, <1>6, <1>7, <1>8, WriteNotGarbled
<1>10. WrittenRange(tgt', f, path, off, len, c)
  <2>1. c.sk \in FileKeys /\ c.tk \in FileKeys
    BY <1>4, <1>6, KeyFacts
  <2> QED BY <1>1, <1>2, <1>7, <1>8, <2>1, WriteFacts
<1>11. /\ DOMAIN tgt' = DOMAIN f /\ \A q \in DOMAIN f : q # path => tgt'[q] = f[q]
       /\ Len(tgt'[path]) >= Len(f[path]) /\ Len(tgt'[path]) >= MinOf(off + len, Len(src[path]))
  BY <1>10 DEF WrittenRange
<1>12. \A p : Kept(p)
  <2>1. \A p \in DOMAIN tgt : Len(tgt[p]) \in Nat
    BY <1>1, FilesDef
  <2> QED BY <1>2, <1>11, <2>1 DEF Kept, Stays
<1>13. Reached(path, off + len)'
  BY <1>11 DEF Reached, MinOf
<1> QED BY <1>3, <1>6, <1>9, <1>10, <1>12, <1>13 DEF f

\* A range is asked for, or copied at once.
LEMMA FetchRangeWork ==
    ASSUME Performing, SameSource, want = NoRange, ~fetching,
           NEW path \in Paths, IsRelFile(path), Here(path),
           NEW off \in Nat, NEW len \in Nat \ {0}, QueueFetchRange(path, off, len),
           path \in DOMAIN src => path \in DOMAIN tgt /\ off <= Len(tgt[path])
    PROVE  /\ Work' /\ \A p : Kept(p)
           /\ \A p \in Paths \cup WalPaths : Asked(p)' => Asked(p) \/ p = path
<1> USE DEF SameSource
<1>1. CASE mode = "remote"
  <2>1. QueueRange(path, TRUE, off, len) /\ tgt' = tgt /\ tmp' = tmp /\ cur' = cur /\ step' = step
    BY <1>1 DEF QueueFetchRange, tdeKeys
  <2>2. \A p : Kept(p)
    <3>1. \A p \in DOMAIN tgt : Len(tgt[p]) \in Nat
      BY PerformingFacts, FilesDef
    <3> QED BY <2>1, <3>1 DEF Kept, Stays
  <2>3. QueueTyped'
    BY <2>1, PerformingFacts, QueueFacts DEF QueueTurn, QueueTyped
  <2>4. RowsOK' /\ WantOK'
    <3> DEFINE rq == [path |-> path, encrypt |-> TRUE, off |-> off, len |-> len]
    <3>1. RequestOK(rq)'
      BY <2>1 DEF RequestOK, Here, OnSource
    <3>2. path \in DOMAIN src => Reached(path, off)'
      BY <2>1 DEF Reached
    <3>3. IsFiles(tgt)'
      BY <2>1, PerformingFacts
    <3> QED BY <2>1, <2>2, <3>1, <3>2, <3>3, PerformingFacts, RowsQueued DEF Kept, Stays
  <2>5. \A p \in Paths \cup WalPaths : Asked(p)' => Asked(p) \/ p = path
    BY <2>1, PerformingFacts, QueueAsks
  <2>6. KeysInv' /\ NotGarbled' /\ KeyTypes' /\ IsFiles(tgt)' /\ IsFile(tgt)' /\ step' = "perform"
    BY <2>1, PerformingFacts DEF KeysInv, NotGarbled, KeyTypes, OnSource, Performing
  <2> QED BY <1>1, <2>2, <2>3, <2>4, <2>5, <2>6 DEF Work, LocalOK
<1>2. CASE mode # "remote"
  <2>1. /\ EnsureTdeKeys(path)
        /\ tgt' = WriteRange(EnsureFiles(tgt, path), path, off, len, cur')
        /\ queue' = queue /\ want' = want /\ fetching' = fetching /\ split' = split
    BY <1>2 DEF QueueFetchRange, requests
  <2>2. path \in DOMAIN src /\ path \in DOMAIN tgt /\ off <= Len(tgt[path])
    BY <1>2 DEF Here
  <2>3. /\ IsFiles(tgt)' /\ IsFile(tgt)' /\ NotGarbled' /\ \A p : Kept(p)
        /\ KeyTypes' /\ step' \in {"perform", "crashed"} /\ (step' = "crashed" \/ KeysInv')
    BY <2>1, <2>2, EnsureAndWrite DEF Reached
  <2>4. RowsOK' /\ WantOK'
    BY <2>1, <2>3, PerformingFacts, RowsKept DEF Kept, Stays
  <2>5. QueueTyped' /\ LocalOK'
    BY <2>1, PerformingFacts DEF Work, QueueTyped, LocalOK
  <2>6. \A p : Asked(p)' => Asked(p)
    BY <2>1 DEF Asked
  <2> QED BY <2>3, <2>4, <2>5, <2>6 DEF Work
<1> QED BY <1>1, <1>2

\* A file is asked for, or copied at once.
LEMMA FetchFileWork ==
    ASSUME Performing, SameSource, want = NoRange, ~fetching,
           NEW path \in Paths \cup WalPaths, path \in Paths => Here(path), ~Asked(path),
           NEW len \in Nat, QueueFetchFile(path, len), tmp' = tmp, cur' = cur, step' = step
    PROVE  /\ Work' /\ \A p : p # path => Kept(p)
           /\ \A p \in Paths \cup WalPaths : Asked(p)' => Asked(p) \/ p = path
<1> USE DEF SameSource
<1>1. IsFiles(src) /\ IsFiles(tgt) /\ IsFile(tgt) /\ NotGarbled /\ KeysInv /\ KeyTypes /\ SourceBlocks
  BY PerformingFacts
<1>2. \A p \in DOMAIN tgt : Len(tgt[p]) \in Nat
  BY <1>1, FilesDef
<1>3. KeysInv' /\ KeyTypes' /\ step' = "perform"
  BY <1>1 DEF KeysInv, KeyTypes, OnSource, Performing
<1>4. path \in WalPaths => IsWal(path)
  BY PathFacts
<1>5. path \in Paths => ~IsWal(path)
  BY PathFacts
<1>6. ASSUME NEW c \in Seq(Blocks), path \in Paths, tgt' = With(tgt, path, c),
             \A i \in DOMAIN c : c[i].key # Garbled
      PROVE  /\ IsFiles(tgt)' /\ IsFile(tgt)' /\ NotGarbled' /\ path \in DOMAIN tgt'
             /\ \A p : p # path => Kept(p)
  <2>1. /\ IsFiles(tgt)' /\ IsFile(tgt)' /\ DOMAIN tgt' = DOMAIN tgt \cup {path}
        /\ tgt'[path] = c /\ \A q \in DOMAIN tgt : q # path => tgt'[q] = tgt[q]
    <3> DEFINE g == With(tgt, path, c)
    <3>1. /\ IsFiles(g) /\ IsFile(g) /\ DOMAIN g = DOMAIN tgt \cup {path}
          /\ g[path] = c /\ \A q \in DOMAIN tgt : q # path => g[q] = tgt[q]
      BY <1>1, <1>6, PutFacts
    <3>2. tgt' = g
      BY <1>6
    <3> HIDE DEF g
    <3> QED BY <3>1, <3>2
  <2> QED BY <1>1, <1>2, <1>6, <2>1 DEF NotGarbled, Kept, Stays
<1>7. ASSUME tgt' = tgt
      PROVE  IsFiles(tgt)' /\ IsFile(tgt)' /\ NotGarbled' /\ \A p : p # path => Kept(p)
  BY <1>1, <1>2, <1>7 DEF NotGarbled, Kept, Stays
<1>8. CASE mode = "remote"
  <2>1. /\ tgt' = IF IsWal(path) THEN tgt ELSE With(tgt, path, <<>>)
        /\ QueueRange(path, FALSE, 0, IF len < ChunkBlocks THEN ChunkBlocks ELSE len)
    BY <1>8 DEF QueueFetchFile
  <2>2. PICK l \in Nat \ {0} : l = IF len < ChunkBlocks THEN ChunkBlocks ELSE len
    BY PathFacts
  <2>3. QueueRange(path, FALSE, 0, l)
    BY <2>1, <2>2
  <2>4. /\ IsFiles(tgt)' /\ IsFile(tgt)' /\ NotGarbled' /\ \A p : p # path => Kept(p)
        /\ path \in Paths => path \in DOMAIN tgt'
    <3>1. CASE path \in Paths
      <4>1. <<>> \in Seq(Blocks) /\ \A i \in DOMAIN <<>> : <<>>[i].key # Garbled
        OBVIOUS
      <4> QED BY <1>5, <1>6, <2>1, <3>1, <4>1
    <3>2. CASE path \notin Paths
      BY <1>4, <1>7, <2>1, <3>2
    <3> QED BY <3>1, <3>2
  <2>5. QueueTyped'
    BY <2>3, PerformingFacts, QueueFacts DEF QueueTurn, QueueTyped
  <2>6. RowsOK' /\ WantOK'
    <3> DEFINE rq == [path |-> path, encrypt |-> FALSE, off |-> 0, len |-> l]
    <3>1. RequestOK(rq)'
      BY <2>4 DEF RequestOK, Here, OnSource
    <3>2. path \in Paths /\ path \in DOMAIN src => Reached(path, 0)'
      <4>1. path \in Paths => Len(tgt'[path]) \in Nat
        BY <2>4, FilesDef
      <4> QED BY <4>1 DEF Reached
    <3>3. \A p : Asked(p) => Kept(p)
      BY <2>4
    <3> QED BY <2>3, <2>4, <3>1, <3>2, <3>3, PerformingFacts, RowsQueued DEF Kept, Stays
  <2>7. \A p \in Paths \cup WalPaths : Asked(p)' => Asked(p) \/ p = path
    BY <2>3, PerformingFacts, QueueAsks
  <2> QED BY <1>3, <1>8, <2>4, <2>5, <2>6, <2>7 DEF Work, LocalOK
<1>9. CASE mode = "local"
  <2>1. queue' = queue /\ want' = want /\ fetching' = fetching /\ split' = split
    BY <1>9 DEF QueueFetchFile, requests
  <2>2. IsFiles(tgt)' /\ IsFile(tgt)' /\ NotGarbled' /\ \A p : p # path => Kept(p)
    <3>1. CASE path \in Paths
      <4>1. path \in DOMAIN src
        BY <1>9, <3>1 DEF Here
      <4>2. src[path] \in Seq(Blocks)
        BY <1>1, <4>1, FilesDef
      <4>3. path[1] \in Rels
        BY <3>1, PathFacts
      <4>4. skeys[path[1]] # Garbled
        BY <1>1, <4>3, KeyFacts DEF KeyTypes
      <4>5. \A i \in DOMAIN src[path] : src[path][i].key # Garbled
        BY <1>1, <4>1, <4>4 DEF SourceBlocks, Block
      <4>6. tgt' = With(tgt, path, src[path])
        BY <1>5, <1>9, <3>1 DEF QueueFetchFile
      <4> QED BY <1>6, <3>1, <4>2, <4>5, <4>6
    <3>2. CASE path \notin Paths
      <4>1. tgt' = tgt
        BY <1>4, <1>9, <3>2 DEF QueueFetchFile
      <4> QED BY <1>7, <4>1
    <3> QED BY <3>1, <3>2
  <2>3. \A p : Asked(p)' <=> Asked(p)
    BY <2>1 DEF Asked
  <2>4. \A p : Asked(p) => Kept(p)
    BY <2>2
  <2>5. RowsOK' /\ WantOK'
    BY <1>1, <2>1, <2>2, <2>4, PerformingFacts, RowsKept DEF Kept, Stays
  <2>6. QueueTyped' /\ LocalOK'
    BY <2>1, PerformingFacts DEF Work, QueueTyped, LocalOK
  <2> QED BY <1>3, <2>2, <2>3, <2>5, <2>6 DEF Work
<1> QED BY <1>8, <1>9, PerformingFacts

\* A kept file's keys are looked up, if it has no pages to overwrite.
LEMMA EnsureWork ==
    ASSUME Performing, SameSource, NEW e \in Entries, e.path \in Paths, IsRelFile(e.path),
           NEW f, IsFiles(f), IsFile(f), EnsureUntouched(e, f),
           \A q \in DOMAIN f : IsRelFile(q) => \A i \in DOMAIN f[q] : f[q][i].key # Garbled,
           \A p \in DOMAIN src \cap DOMAIN tgt :
              p \in DOMAIN f /\ (Len(f[p]) >= Len(tgt[p]) \/ Len(f[p]) >= Len(src[p])),
           DOMAIN f \subseteq DOMAIN tgt, \A p \in DOMAIN f : p # e.path => f[p] = tgt[p]
    PROVE  /\ Work' /\ \A p : p # e.path => Kept(p)
           /\ queue' = queue /\ want' = want /\ wal' = wal
<1> USE DEF SameSource
<1>1. queue' = queue /\ want' = want /\ fetching' = fetching /\ split' = split /\ wal' = wal
  BY DEF EnsureUntouched, requests
<1>2. /\ IsFiles(tgt)' /\ IsFile(tgt)' /\ NotGarbled'
      /\ (\A p : Stays(p)) /\ (\A p : p # e.path => Kept(p))
      /\ KeyTypes' /\ step' \in {"perform", "crashed"} /\ (step' = "perform" => KeysInv')
  <2>1. KeyTypes /\ KeysInv /\ step = "perform"
    BY PerformingFacts DEF Performing
  <2>l. \A p \in DOMAIN tgt : Len(tgt[p]) \in Nat
    BY PerformingFacts, FilesDef
  <2>2. CASE Untouched(e)
    <3>1. EnsureTdeKeys(e.path) /\ tgt' = EnsureFiles(f, e.path)
      BY <2>2 DEF EnsureUntouched
    <3>2. KeyTypes' /\ step' \in {"perform", "crashed"} /\ (step' = "crashed" \/ KeysInv')
      BY <2>1, <3>1, EnsureFacts, EnsureKeys
    <3>3. /\ IsFiles(tgt)' /\ IsFile(tgt)' /\ DOMAIN tgt' = DOMAIN f
          /\ \A p \in DOMAIN f : Len(tgt'[p]) = Len(f[p])
          /\ \A p \in DOMAIN f : IsRelFile(p) => tgt'[p] = f[p]
      BY <2>1, <3>1, EnsureFilesFacts
    <3> QED BY <2>l, <3>2, <3>3 DEF NotGarbled, Kept, Stays
  <2>3. CASE ~Untouched(e)
    <3>1. tgt' = f /\ tmp' = tmp /\ cur' = cur /\ step' = step
      BY <2>3 DEF EnsureUntouched, tdeKeys
    <3> QED BY <2>1, <2>l, <3>1 DEF NotGarbled, Kept, Stays, KeysInv, KeyTypes, OnSource
  <2> QED BY <2>2, <2>3
<1>3. RowsOK' /\ WantOK'
  BY <1>1, <1>2, PerformingFacts, RowsKept DEF Kept, Stays
<1>4. QueueTyped' /\ LocalOK'
  BY <1>1, PerformingFacts DEF Work, QueueTyped, LocalOK
<1> QED BY <1>1, <1>2, <1>3, <1>4 DEF Work

\* A row of the result is processed.
LEMMA RowWork ==
    ASSUME Performing, SameSource, ProcessRow
    PROVE  /\ Work' /\ \A p : Kept(p)
           /\ \A p : Asked(p)' => Asked(p)
           /\ mode = "remote"
<1> USE DEF SameSource
<1>1. /\ queue # <<>> /\ queue' = Tail(queue) /\ want' = want /\ split' = split
      /\ fetching' = (fetching /\ Len(queue) > 1)
  BY DEF ProcessRow
<1>2. /\ queue' \in Seq(Requests) /\ Len(queue) \in Nat \ {0} /\ Len(queue') = Len(queue) - 1
      /\ Head(queue) = queue[1] /\ queue[1] \in Requests /\ DOMAIN queue = 1 .. Len(queue)
      /\ \A p : Asked(p)' => Asked(p)
  BY <1>1, PerformingFacts, PopFacts
<1>3. PICK rq \in Requests : rq = queue[1]
  BY <1>2
<1>4. /\ rq.path \in Paths \cup WalPaths /\ rq.off \in Nat /\ rq.len \in Nat
      /\ rq.encrypt \in BOOLEAN
  BY DEF Requests
<1>5. RowOK(1)
  BY <1>2, PerformingFacts DEF RowsOK
<1>6. /\ RequestOK(rq)
      /\ rq.path \in Paths /\ rq.path \in DOMAIN src => rq.path \in DOMAIN tgt /\ Reached(rq.path, rq.off)
  BY <1>3, <1>5 DEF RowOK, RequestOK
<1>7. /\ IsFiles(src) /\ IsFiles(tgt) /\ IsFile(tgt) /\ NotGarbled /\ KeysInv /\ KeyTypes
      /\ \A p \in DOMAIN tgt : Len(tgt[p]) \in Nat
  BY PerformingFacts, FilesDef
<1>8. /\ IsFiles(tgt)' /\ IsFile(tgt)' /\ NotGarbled' /\ \A p : Kept(p)
      /\ KeyTypes' /\ step' \in {"perform", "crashed"} /\ (step' = "crashed" \/ KeysInv')
      /\ rq.path \in Paths /\ rq.path \in DOMAIN src => Reached(rq.path, rq.off + rq.len)'
  <2>1. \/ IsWal(rq.path) /\ UNCHANGED <<tgt, tdeKeys, step>>
        \/ ~IsWal(rq.path) /\ rq.path \notin DOMAIN src /\ tgt' = Without(tgt, rq.path) /\ UNCHANGED <<tdeKeys, step>>
        \/ /\ ~IsWal(rq.path) /\ rq.path \in DOMAIN src /\ ~rq.encrypt
           /\ tgt' = WriteRange(tgt, rq.path, rq.off, rq.len, NoFile) /\ UNCHANGED <<tdeKeys, step>>
        \/ /\ ~IsWal(rq.path) /\ rq.path \in DOMAIN src /\ rq.encrypt
           /\ EnsureTdeKeys(rq.path)
           /\ tgt' = WriteRange(EnsureFiles(tgt, rq.path), rq.path, rq.off, rq.len, cur')
    BY <1>2, <1>3 DEF ProcessRow
  <2>2. ~IsWal(rq.path) => rq.path \in Paths
    BY <1>4, PathFacts
  <2>3. IsWal(rq.path) => rq.path \notin Paths
    BY PathFacts
  <2>4. ASSUME UNCHANGED <<tdeKeys, step>> PROVE KeyTypes' /\ KeysInv' /\ step' = "perform"
    BY <1>7, <2>4 DEF KeysInv, KeyTypes, OnSource, Performing, tdeKeys
  <2>5. CASE IsWal(rq.path) /\ UNCHANGED <<tgt, tdeKeys, step>>
    <3>1. tgt' = tgt /\ UNCHANGED <<tdeKeys, step>>
      BY <2>5
    <3>2. IsFiles(tgt)' /\ IsFile(tgt)' /\ NotGarbled' /\ \A p : Kept(p)
      BY <1>7, <3>1 DEF NotGarbled, Kept, Stays
    <3> QED BY <2>3, <2>4, <2>5, <3>1, <3>2
  <2>6. CASE /\ ~IsWal(rq.path) /\ rq.path \notin DOMAIN src /\ tgt' = Without(tgt, rq.path)
             /\ UNCHANGED <<tdeKeys, step>>
    <3> DEFINE g == Without(tgt, rq.path)
    <3>1. /\ IsFiles(g) /\ IsFile(g) /\ DOMAIN g = DOMAIN tgt \ {rq.path}
          /\ \A q \in DOMAIN tgt : q # rq.path => g[q] = tgt[q]
      BY <1>7, WithoutFacts
    <3>2. tgt' = g
      BY <2>6
    <3> HIDE DEF g
    <3>3. IsFiles(tgt)' /\ IsFile(tgt)' /\ NotGarbled' /\ \A p : Kept(p)
      BY <1>7, <2>6, <3>1, <3>2 DEF NotGarbled, Kept, Stays
    <3> QED BY <2>4, <2>6, <3>3
  <2>7. CASE /\ ~IsWal(rq.path) /\ rq.path \in DOMAIN src /\ ~rq.encrypt
             /\ tgt' = WriteRange(tgt, rq.path, rq.off, rq.len, NoFile) /\ UNCHANGED <<tdeKeys, step>>
    <3>1. PICK c : c = NoFile
      OBVIOUS
    <3>2. c.sk = None /\ c.tk = None /\ None \in FileKeys /\ None \in KeysMadeBy({"src", "tgt"})
      BY <3>1, KeyFacts DEF NoFile
    <3>3. rq.path \in DOMAIN tgt /\ (rq.off <= Len(tgt[rq.path]) \/ Len(src[rq.path]) <= Len(tgt[rq.path]))
      BY <1>6, <2>2, <2>7 DEF Reached
    <3>4. tgt' = WriteRange(tgt, rq.path, rq.off, rq.len, c)
      BY <2>7, <3>1
    <3>5. \A q \in DOMAIN tgt : IsRelFile(q) => \A i \in DOMAIN tgt[q] : tgt[q][i].key # Garbled
      BY <1>7 DEF NotGarbled
    <3>6. IsFiles(tgt)' /\ IsFile(tgt)' /\ NotGarbled'
      BY <1>4, <1>7, <2>7, <3>2, <3>3, <3>4, <3>5, WriteNotGarbled
    <3>7. WrittenRange(tgt', tgt, rq.path, rq.off, rq.len, c)
      BY <1>4, <1>7, <2>7, <3>2, <3>3, <3>4, WriteFacts
    <3>8. /\ DOMAIN tgt' = DOMAIN tgt /\ \A q \in DOMAIN tgt : q # rq.path => tgt'[q] = tgt[q]
          /\ Len(tgt'[rq.path]) >= Len(tgt[rq.path])
          /\ Len(tgt'[rq.path]) >= MinOf(rq.off + rq.len, Len(src[rq.path]))
      BY <3>7 DEF WrittenRange
    <3>9. \A p : Kept(p)
      BY <1>7, <3>8 DEF Kept, Stays
    <3>10. Reached(rq.path, rq.off + rq.len)'
      BY <3>8 DEF Reached, MinOf
    <3> QED BY <2>4, <2>7, <3>6, <3>9, <3>10
  <2>8. CASE /\ ~IsWal(rq.path) /\ rq.path \in DOMAIN src /\ rq.encrypt
             /\ EnsureTdeKeys(rq.path)
             /\ tgt' = WriteRange(EnsureFiles(tgt, rq.path), rq.path, rq.off, rq.len, cur')
    <3>1. rq.path \in Paths /\ IsRelFile(rq.path) /\ rq.path \in DOMAIN tgt /\ Reached(rq.path, rq.off)
      BY <1>6, <2>2, <2>8 DEF RequestOK
    <3> QED BY <1>4, <2>8, <3>1, EnsureAndWrite
  <2> QED BY <2>1, <2>5, <2>6, <2>7, <2>8
<1>9. RowsOK' /\ WantOK'
  <2>1. \A r1 \in Requests : \A o \in Nat :
              r1 = queue[1] /\ r1.path \in Paths /\ r1.path \in DOMAIN src /\ o = r1.off + r1.len =>
                 Reached(r1.path, o)'
    BY <1>3, <1>4, <1>8
  <2>2. /\ WorkTypes /\ RowsOK /\ WantOK /\ IsFiles(tgt)' /\ \A p : Asked(p) => Kept(p)
    BY <1>8, PerformingFacts
  <2> QED BY <1>1, <1>7, <2>1, <2>2, RowsPopped DEF Kept, Stays
<1>10. mode = "remote"
  BY <1>1, PerformingFacts DEF LocalOK
<1>11. QueueTyped'
  BY <1>1, <1>2, PerformingFacts DEF Work, QueueTyped
<1> QED BY <1>2, <1>8, <1>9, <1>10, <1>11 DEF Work, LocalOK

-----------------------------------------------------------------------------
(* The steps of perform_rewind(): types and keys.                          *)

LEMMA WorkDone ==
    ASSUME Performing, UNCHANGED source, Work', WalRec', filemap' \subseteq Entries,
           (\A e, f \in filemap : e.path = f.path => e = f)',
           step' = "perform" =>
              (\A e \in filemap : EntryOK(e) /\ (e.left = e.pages => ~Asked(e.path)))'
    PROVE  Typed' /\ SafeInv'
<1> USE DEF source
<1>1. IsFiles(src)' /\ IsFile(src)'
  BY DEF Performing, Typed
<1>2. WorkTypes'
  BY DEF Work, QueueTyped, WorkTypes
<1>3. Fixed'
  BY DEF Performing, Typed, Fixed, Work, QueueTyped
<1>4. Typed'
  BY <1>1, <1>2, <1>3 DEF Typed, Work
<1>5. SourceBlocks'
  BY DEF Performing, SafeInv, SourceBlocks
<1>6. step' = "perform" => WorkInv' /\ KeysInv'
  BY DEF Work, WorkInv, LocalOK
<1>7. SafeInv'
  BY <1>5, <1>6 DEF Work, SafeInv
<1> QED BY <1>4, <1>7

LEMMA SourceSame ==
    ASSUME UNCHANGED source
    PROVE  SameSource
BY DEF source, SameSource

LEMMA WalPut ==
    ASSUME WalRec, NEW f, wal' = [wal EXCEPT !.tgt = f], DOMAIN f \subseteq 1 .. NWal, IsFile(f)
    PROVE  /\ WalRec' /\ wal'.tgt = f /\ wal'.src = wal.src /\ wal'.fork = wal.fork
           /\ wal'.skeys = wal.skeys /\ wal'.tkeys = wal.tkeys /\ wal'.restored = wal.restored
<1> DEFINE w == [src |-> wal.src, tgt |-> f, fork |-> wal.fork, skeys |-> wal.skeys,
                 tkeys |-> wal.tkeys, restored |-> wal.restored]
<1>1. wal' = w
  BY DEF WalRec
<1> QED BY <1>1 DEF WalRec

LEMMA QueueRestSafe ==
    ASSUME Performing, QueueRest
    PROVE  Typed' /\ SafeInv'
<1>1. /\ want # NoRange /\ ~fetching
      /\ QueueRange(want.path, want.encrypt, want.off, want.len)
      /\ UNCHANGED source /\ tgt' = tgt /\ wal' = wal /\ step' = step /\ filemap' = filemap
      /\ tmp' = tmp /\ cur' = cur
  BY DEF QueueRest, tdeKeys
<1>2. SameSource
  BY <1>1, SourceSame
<1>3. want \in Requests
  BY <1>1, PerformingFacts DEF WorkTypes
<1>4. PICK rq \in Requests : rq = want
  BY <1>3
<1>5. /\ rq.path \in Paths \cup WalPaths /\ rq.encrypt \in BOOLEAN /\ rq.off \in Nat /\ rq.len \in Nat \ {0}
      /\ rq = [path |-> rq.path, encrypt |-> rq.encrypt, off |-> rq.off, len |-> rq.len]
  BY DEF Requests
<1>6. QueueRange(rq.path, rq.encrypt, rq.off, rq.len)
  BY <1>1, <1>4
<1>7. QueueTyped'
  BY <1>2, <1>5, <1>6, PerformingFacts, QueueFacts DEF QueueTurn, QueueTyped, SameSource
<1>8. \A p : Kept(p)
  <2>1. \A p \in DOMAIN tgt : Len(tgt[p]) \in Nat
    BY PerformingFacts, FilesDef
  <2> QED BY <1>1, <2>1 DEF Kept, Stays
<1>9. RowsOK' /\ WantOK'
  <2>1. RequestOK(rq) /\ (rq.path \in Paths /\ rq.path \in DOMAIN src =>
              Reached(rq.path, rq.off) \/ (queue # <<>> /\ Continues(rq, queue[Len(queue)])))
    BY <1>1, <1>4, PerformingFacts DEF WantOK
  <2>2. RequestOK(rq)' /\ (Reached(rq.path, rq.off) => Reached(rq.path, rq.off)')
    BY <1>1, <1>2, <2>1 DEF RequestOK, Here, OnSource, SameSource, Reached
  <2>3. IsFiles(tgt)'
    BY <1>1, PerformingFacts
  <2> QED BY <1>2, <1>5, <1>6, <1>8, <2>1, <2>2, <2>3, PerformingFacts, RowsQueued DEF Kept, Stays, SameSource
<1>10. /\ IsFiles(tgt)' /\ IsFile(tgt)' /\ KeyTypes' /\ NotGarbled' /\ KeysInv'
       /\ step' = "perform"
  BY <1>1, <1>2, PerformingFacts DEF KeyTypes, NotGarbled, KeysInv, OnSource, SameSource, Performing
<1>11. mode = "remote"
  BY <1>1, PerformingFacts DEF LocalOK
<1>12. Work'
  BY <1>2, <1>7, <1>9, <1>10, <1>11 DEF Work, LocalOK, SameSource
<1>13. \A p \in Paths \cup WalPaths : Asked(p)' => Asked(p)
  <2>1. Asked(rq.path)
    BY <1>4 DEF Asked
  <2> QED BY <1>2, <1>4, <1>5, <1>6, <2>1, PerformingFacts, QueueAsks DEF SameSource
<1>14. (\A e \in filemap : EntryOK(e) /\ (e.left = e.pages => ~Asked(e.path)))'
  <2>1. ASSUME NEW e \in filemap PROVE EntryOK(e)' /\ (e.left = e.pages => ~Asked(e.path)')
    <3>1. EntryOK(e)'
      BY <1>1, <1>2, <1>8, <1>10, PerformingFacts, KeptFacts DEF SameSource
    <3>2. e.path \in Paths \cup WalPaths
      BY PerformingFacts DEF Entries
    <3> QED BY <1>13, <3>1, <3>2, PerformingFacts DEF WorkInv
  <2> QED BY <1>1, <2>1
<1>15. WalRec' /\ filemap' \subseteq Entries /\ (\A e, f \in filemap : e.path = f.path => e = f)'
  BY <1>1 DEF Performing, Typed, WorkTypes, WalRec
<1> QED BY <1>1, <1>12, <1>14, <1>15, WorkDone

\* The copy of a WAL segment.
LEMMA WalCopied ==
    ASSUME WalRec, NEW i \in 1 .. NWal, CopyWal(i)
    PROVE  /\ WalRec' /\ wal'.src = wal.src /\ wal'.fork = wal.fork
           /\ wal'.skeys = wal.skeys /\ wal'.tkeys = wal.tkeys /\ wal'.restored = wal.restored
           /\ DOMAIN wal'.tgt = DOMAIN wal.tgt \cup {i} /\ wal'.tgt[i] = wal.src[i]
           /\ \A j \in DOMAIN wal.tgt : j # i => wal'.tgt[j] = wal.tgt[j]
<1> DEFINE f == With(wal.tgt, i, wal.src[i])
<1>1. wal' = [wal EXCEPT !.tgt = f]
  BY DEF CopyWal
<1>2. /\ DOMAIN f = DOMAIN wal.tgt \cup {i} /\ f[i] = wal.src[i] /\ IsFile(f)
      /\ \A j \in DOMAIN wal.tgt : j # i => f[j] = wal.tgt[j]
  BY DEF With, IsFile
<1>3. DOMAIN f \subseteq 1 .. NWal
  BY <1>2 DEF WalRec
<1> HIDE DEF f
<1> QED BY <1>1, <1>2, <1>3, WalPut

LEMMA ProcessRowSafe ==
    ASSUME Performing, UNCHANGED source, ProcessRow
    PROVE  Typed' /\ SafeInv'
<1>1. SameSource
  BY SourceSame
<1>2. Work' /\ (\A p : Kept(p)) /\ (\A p : Asked(p)' => Asked(p))
  BY <1>1, RowWork
<1>3. filemap' = filemap /\ queue # <<>>
  BY DEF ProcessRow
<1>4. WalRec'
  <2>1. WalRec
    BY DEF Performing, Typed
  <2>2. CASE IsWal(Head(queue).path) /\ CopyWal(Head(queue).path[2])
    <3>1. PICK rq \in Requests : rq = Head(queue)
      BY <1>3, PerformingFacts DEF WorkTypes
    <3>2. rq.path \in Paths \cup WalPaths
      BY DEF Requests
    <3>3. rq.path[2] \in 1 .. NWal
      BY <2>2, <3>1, <3>2, PathFacts
    <3> QED BY <2>1, <2>2, <3>1, <3>3, WalCopied
  <2>3. CASE wal' = wal
    BY <2>1, <2>3 DEF WalRec
  <2> QED BY <2>2, <2>3 DEF ProcessRow
<1>5. filemap' \subseteq Entries /\ (\A e, f \in filemap : e.path = f.path => e = f)'
  BY <1>3 DEF Performing, Typed, WorkTypes
<1>6. (\A e \in filemap : EntryOK(e) /\ (e.left = e.pages => ~Asked(e.path)))'
  <2>1. ASSUME NEW e \in filemap PROVE EntryOK(e)' /\ (e.left = e.pages => ~Asked(e.path)')
    <3>1. IsFiles(tgt)'
      BY <1>2 DEF Work
    <3>2. EntryOK(e)'
      BY <1>1, <1>2, <3>1, PerformingFacts, KeptFacts DEF SameSource
    <3> QED BY <1>2, <3>2, PerformingFacts DEF WorkInv
  <2> QED BY <1>3, <2>1
<1> QED BY <1>2, <1>4, <1>5, <1>6, WorkDone

\* An entry is done with: its action keeps the files of the others.
LEMMA EntryDone ==
    ASSUME Performing, UNCHANGED source, NEW e \in filemap, filemap' = filemap \ {e}, Work', WalRec',
           \A p : p # e.path => Kept(p),
           \A p \in Paths \cup WalPaths : Asked(p)' => Asked(p) \/ p = e.path
    PROVE  Typed' /\ SafeInv'
<1>1. SameSource
  BY SourceSame
<1>2. ASSUME NEW f \in filemap' PROVE EntryOK(f)' /\ (f.left = f.pages => ~Asked(f.path)')
  <2>1. f \in filemap /\ f.path # e.path /\ f.path \in Paths \cup WalPaths /\ f \in Entries
    BY PerformingFacts DEF WorkTypes, Entries
  <2>2. IsFiles(tgt)'
    BY DEF Work
  <2>3. EntryOK(f)'
    BY <1>1, <2>1, <2>2, PerformingFacts, KeptFacts DEF SameSource
  <2> QED BY <2>1, <2>3, PerformingFacts DEF WorkInv
<1>3. (\A f \in filemap : EntryOK(f) /\ (f.left = f.pages => ~Asked(f.path)))'
  BY <1>2
<1>4. filemap' \subseteq Entries /\ (\A f, g \in filemap : f.path = g.path => f = g)'
  BY DEF Performing, Typed, WorkTypes
<1> QED BY <1>3, <1>4, WorkDone

LEMMA OverwritePageSafe ==
    ASSUME Performing, Ready, NEW e \in filemap, OverwritePage(e)
    PROVE  Typed' /\ SafeInv'
<1>1. PICK b \in e.left :
          QueueFetchRange(e.path, b, 1) /\ filemap' = (filemap \ {e}) \cup {[e EXCEPT !.left = @ \ {b}]}
  BY DEF OverwritePage
<1> DEFINE e1 == [e EXCEPT !.left = @ \ {b}]
<1>2. UNCHANGED source /\ wal' = wal /\ SameSource
  BY SourceSame DEF OverwritePage
<1>3. e \in Entries /\ EntryOK(e) /\ e.path \in Paths \cup WalPaths /\ e.left \subseteq Nat
  BY PerformingFacts, PathFacts DEF Entries, Pages
<1>4. /\ e1.path = e.path /\ e1.action = e.action /\ e1.pages = e.pages /\ e1.left = e.left \ {b}
      /\ e1.ssize = e.ssize /\ e1.tsize = e.tsize /\ e1 \in Entries
  BY <1>3 DEF Entries
<1> HIDE DEF e1
<1>5. want = NoRange /\ ~fetching
  BY DEF Ready
<1>6. CASE e.path \in Paths
  <2>1. /\ b \in e.pages /\ e.action \in Patching /\ IsRelFile(e.path) /\ Here(e.path)
        /\ e.path \in DOMAIN src => e.path \in DOMAIN tgt /\ b < Len(tgt[e.path])
    BY <1>3, <1>6 DEF EntryOK, Patching
  <2>2. b \in Nat
    BY <1>3
  <2>3. \A n \in Nat : b < n => b <= n
    BY <2>2
  <2>4. e.path \in DOMAIN src => e.path \in DOMAIN tgt /\ b <= Len(tgt[e.path])
    BY <2>1, <2>3, PerformingFacts, FilesDef
  <2>5. /\ Work' /\ \A p : Kept(p)
        /\ \A p \in Paths \cup WalPaths : Asked(p)' => Asked(p) \/ p = e.path
    BY <1>1, <1>2, <1>5, <1>6, <2>1, <2>2, <2>4, FetchRangeWork
  <2>6. IsFiles(tgt)'
    BY <2>5 DEF Work
  <2>7. \A f \in Entries : EntryOK(f) => EntryOK(f)'
    BY <1>2, <2>5, <2>6, PerformingFacts, KeptFacts DEF SameSource
  <2>8. EntryOK(e1)
    BY <1>3, <1>4 DEF EntryOK
  <2>9. e1.left # e1.pages
    BY <1>4, <2>1
  <2>10. ASSUME NEW f \in filemap' PROVE EntryOK(f)' /\ (f.left = f.pages => ~Asked(f.path)')
    <3>1. CASE f = e1
      BY <1>4, <2>7, <2>8, <2>9, <3>1
    <3>2. CASE f \in filemap /\ f # e
      <4>1. f.path # e.path /\ f.path \in Paths \cup WalPaths /\ f \in Entries /\ EntryOK(f)
        BY <3>2, PerformingFacts DEF WorkTypes, Entries
      <4> QED BY <2>5, <2>7, <3>2, <4>1, PerformingFacts DEF WorkInv
    <3> QED BY <1>1, <3>1, <3>2 DEF e1
  <2>11. filemap' \subseteq Entries /\ (\A f, g \in filemap : f.path = g.path => f = g)'
    <3>1. filemap' = (filemap \ {e}) \cup {e1}
      BY <1>1 DEF e1
    <3>2. filemap \subseteq Entries /\ \A f, g \in filemap : f.path = g.path => f = g
      BY PerformingFacts DEF WorkTypes
    <3> QED BY <1>4, <3>1, <3>2
  <2>12. WalRec'
    BY <1>2 DEF Performing, Typed, WalRec
  <2>13. (\A f \in filemap : EntryOK(f) /\ (f.left = f.pages => ~Asked(f.path)))'
    BY <2>10
  <2> QED BY <1>2, <2>5, <2>11, <2>12, <2>13, WorkDone
<1>7. CASE e.path \in WalPaths
  BY <1>3, <1>7 DEF EntryOK, Patching
<1> QED BY <1>3, <1>6, <1>7

\* A step that leaves the requests and the keys alone.
LEMMA FilesOnly ==
    ASSUME Performing, SameSource, IsFiles(tgt)', IsFile(tgt)', NotGarbled', \A p : Asked(p) => Stays(p),
           UNCHANGED <<tdeKeys, requests>>, step' \in {"perform", "crashed"}
    PROVE  Work' /\ \A p : Asked(p)' <=> Asked(p)
<1>1. tmp' = tmp /\ cur' = cur /\ queue' = queue /\ want' = want /\ fetching' = fetching /\ split' = split
  BY DEF tdeKeys, requests
<1>2. KeysInv' /\ KeyTypes'
  BY <1>1, PerformingFacts DEF KeysInv, KeyTypes, OnSource, SameSource, Performing
<1>3. RowsOK' /\ WantOK'
  BY <1>1, PerformingFacts, RowsKept DEF Kept, Stays, SameSource
<1>4. QueueTyped' /\ LocalOK'
  BY <1>1, PerformingFacts DEF Work, QueueTyped, LocalOK, SameSource
<1>5. \A p : Asked(p)' <=> Asked(p)
  BY <1>1 DEF Asked
<1> QED BY <1>2, <1>3, <1>4, <1>5 DEF Work

LEMMA KeptSame ==
    ASSUME Performing, tgt' = tgt
    PROVE  \A p : Kept(p)
<1>1. \A p \in DOMAIN tgt : Len(tgt[p]) \in Nat
  BY PerformingFacts, FilesDef
<1> QED BY <1>1 DEF Kept, Stays

LEMMA PatchingEntry ==
    ASSUME Performing, NEW e \in filemap, e.action \in Patching
    PROVE  /\ e \in Entries /\ EntryOK(e) /\ e.path \in Paths /\ IsRelFile(e.path) /\ Here(e.path)
           /\ e.ssize \in Nat /\ e.tsize \in Nat
<1>1. e \in Entries /\ EntryOK(e) /\ e.path \in Paths \cup WalPaths /\ e.ssize \in Nat /\ e.tsize \in Nat
  BY PerformingFacts DEF Entries
<1>2. e.path \in Paths
  BY <1>1 DEF EntryOK, Patching
<1>3. IsRelFile(e.path) /\ Here(e.path)
  BY <1>1, <1>2 DEF EntryOK, Patching
<1> QED BY <1>1, <1>2, <1>3

LEMMA EnsureKeySafe ==
    ASSUME Performing, UNCHANGED source, NEW e \in filemap, filemap' = filemap \ {e}, EnsureKey(e)
    PROVE  Typed' /\ SafeInv'
<1>1. SameSource
  BY SourceSame
<1>2. e.action \in Patching /\ EnsureUntouched(e, tgt)
  BY DEF EnsureKey, Patching
<1>3. e \in Entries /\ e.path \in Paths /\ IsRelFile(e.path)
  BY <1>2, PatchingEntry
<1>4. /\ IsFiles(tgt) /\ IsFile(tgt)
      /\ \A q \in DOMAIN tgt : IsRelFile(q) => \A i \in DOMAIN tgt[q] : tgt[q][i].key # Garbled
      /\ \A p \in DOMAIN src \cap DOMAIN tgt :
            p \in DOMAIN tgt /\ (Len(tgt[p]) >= Len(tgt[p]) \/ Len(tgt[p]) >= Len(src[p]))
      /\ DOMAIN tgt \subseteq DOMAIN tgt /\ \A p \in DOMAIN tgt : p # e.path => tgt[p] = tgt[p]
  BY PerformingFacts, FilesDef DEF NotGarbled
<1>5. /\ Work' /\ \A p : p # e.path => Kept(p)
      /\ queue' = queue /\ want' = want /\ wal' = wal
  BY <1>1, <1>2, <1>3, <1>4, EnsureWork
<1>6. WalRec' /\ \A p : Asked(p)' => Asked(p)
  BY <1>5 DEF Performing, Typed, WalRec, Asked
<1> QED BY <1>5, <1>6, EntryDone

LEMMA TruncateSafe ==
    ASSUME Performing, UNCHANGED source, NEW e \in filemap, filemap' = filemap \ {e}, Truncate(e)
    PROVE  Typed' /\ SafeInv'
<1>1. SameSource
  BY SourceSame
<1>2. e.action \in Patching /\ e.action = "TRUNCATE"
  BY DEF Truncate, Patching
<1>3. e \in Entries /\ EntryOK(e) /\ e.path \in Paths /\ IsRelFile(e.path) /\ e.ssize \in Nat
  BY <1>2, PatchingEntry
<1>4. /\ IsFiles(tgt) /\ IsFile(tgt) /\ NotGarbled /\ IsFiles(src)
  BY PerformingFacts
<1>5. CASE e.path \notin DOMAIN tgt
  <2>1. step' = "crashed" /\ UNCHANGED <<tgt, tdeKeys, wal, requests>>
    BY <1>5 DEF Truncate
  <2>2. \A p : Kept(p)
    BY <2>1, KeptSame
  <2>3. IsFiles(tgt)' /\ IsFile(tgt)' /\ NotGarbled' /\ WalRec'
    BY <1>4, <2>1 DEF NotGarbled, Performing, Typed, WalRec
  <2>4. Work' /\ \A p : Asked(p)' <=> Asked(p)
    BY <1>1, <2>1, <2>2, <2>3, FilesOnly DEF Kept
  <2> QED BY <2>1, <2>2, <2>3, <2>4, EntryDone
<1>6. CASE e.path \in DOMAIN tgt
  <2> DEFINE s == SubSeq(tgt[e.path], 1, e.ssize)
             f == [tgt EXCEPT ![e.path] = SubSeq(@, 1, e.ssize)]
  <2>1. EnsureUntouched(e, f)
    BY <1>6 DEF Truncate
  <2>2. tgt[e.path] \in Seq(Blocks) /\ \A p \in DOMAIN tgt : Len(tgt[p]) \in Nat
    BY <1>4, <1>6, FilesDef
  <2>3. e.ssize <= Len(tgt[e.path])
    BY <1>2, <1>3, <1>6 DEF EntryOK
  <2>4. /\ s \in Seq(Blocks) /\ Len(s) = e.ssize /\ DOMAIN s = 1 .. e.ssize
        /\ \A i \in 1 .. e.ssize : i \in DOMAIN tgt[e.path] /\ s[i] = tgt[e.path][i]
    BY <1>3, <2>2, <2>3
  <2>5. f = [tgt EXCEPT ![e.path] = s]
    OBVIOUS
  <2> HIDE DEF s
  <2>6. /\ DOMAIN f = DOMAIN tgt /\ f[e.path] = s /\ IsFile(f)
        /\ \A p \in DOMAIN tgt : p # e.path => f[p] = tgt[p]
    BY <1>6, <2>5 DEF IsFile
  <2> HIDE DEF f
  <2>7. IsFiles(f)
    BY <1>4, <2>4, <2>6, FilesDef
  <2>8. \A q \in DOMAIN f : IsRelFile(q) => \A i \in DOMAIN f[q] : f[q][i].key # Garbled
    BY <1>3, <1>4, <1>6, <2>4, <2>6 DEF NotGarbled
  <2>9. e.path \in DOMAIN src => e.ssize = Len(src[e.path])
    BY <1>3 DEF EntryOK
  <2>10. \A p \in DOMAIN src \cap DOMAIN tgt :
              p \in DOMAIN f /\ (Len(f[p]) >= Len(tgt[p]) \/ Len(f[p]) >= Len(src[p]))
    BY <1>3, <2>2, <2>4, <2>6, <2>9
  <2>11. /\ Work' /\ \A p : p # e.path => Kept(p)
         /\ queue' = queue /\ want' = want /\ wal' = wal
    BY <1>1, <1>3, <2>1, <2>6, <2>7, <2>8, <2>10, EnsureWork
  <2>12. WalRec' /\ \A p : Asked(p)' => Asked(p)
    BY <2>11 DEF Performing, Typed, WalRec, Asked
  <2> QED BY <2>11, <2>12, EntryDone
<1> QED BY <1>5, <1>6

LEMMA CopyTailSafe ==
    ASSUME Performing, Ready, UNCHANGED source, NEW e \in filemap, filemap' = filemap \ {e}, CopyTail(e)
    PROVE  Typed' /\ SafeInv'
<1>1. SameSource
  BY SourceSame
<1>2. e.action \in Patching /\ e.action = "COPY_TAIL" /\ wal' = wal
      /\ QueueFetchRange(e.path, e.tsize, e.ssize - e.tsize)
  BY DEF CopyTail, Patching
<1>3. /\ EntryOK(e) /\ e.path \in Paths /\ IsRelFile(e.path) /\ Here(e.path)
      /\ e.tsize \in Nat /\ e.ssize \in Nat
  BY <1>2, PatchingEntry
<1>4. /\ e.ssize - e.tsize \in Nat \ {0}
      /\ e.path \in DOMAIN src => e.path \in DOMAIN tgt /\ e.tsize <= Len(tgt[e.path])
  BY <1>2, <1>3 DEF EntryOK
<1>5. want = NoRange /\ ~fetching
  BY DEF Ready
<1>6. /\ Work' /\ \A p : Kept(p)
      /\ \A p \in Paths \cup WalPaths : Asked(p)' => Asked(p) \/ p = e.path
  <2>1. PICK off \in Nat, len \in Nat \ {0} : off = e.tsize /\ len = e.ssize - e.tsize
    BY <1>3, <1>4
  <2>2. QueueFetchRange(e.path, off, len)
    BY <1>2, <2>1
  <2> QED BY <1>1, <1>3, <1>4, <1>5, <2>1, <2>2, FetchRangeWork
<1>7. WalRec'
  BY <1>2 DEF Performing, Typed, WalRec
<1> QED BY <1>6, <1>7, EntryDone

LEMMA WalSame ==
    ASSUME Performing, wal' = wal
    PROVE  WalRec'
BY DEF Performing, Typed, WalRec

LEMMA CopySafe ==
    ASSUME Performing, Ready, UNCHANGED source, NEW e \in filemap, filemap' = filemap \ {e}, Copy(e),
           e.left = {}
    PROVE  Typed' /\ SafeInv'
<1>1. SameSource
  BY SourceSame
<1>2. e.action = "COPY" /\ QueueFetchFile(e.path, e.ssize) /\ tmp' = tmp /\ cur' = cur /\ step' = step
  BY DEF Copy, tdeKeys
<1>3. e \in Entries /\ EntryOK(e) /\ (e.left = e.pages => ~Asked(e.path))
  BY PerformingFacts DEF WorkInv
<1>4. e.path \in Paths \cup WalPaths /\ e.ssize \in Nat
  BY <1>3 DEF Entries
<1>5. e.pages = {} /\ (e.path \in Paths => Here(e.path))
  BY <1>2, <1>3 DEF EntryOK, Patching
<1>6. ~Asked(e.path)
  BY <1>3, <1>5
<1>7. want = NoRange /\ ~fetching
  BY DEF Ready
<1>8. /\ Work' /\ \A p : p # e.path => Kept(p)
      /\ \A p \in Paths \cup WalPaths : Asked(p)' => Asked(p) \/ p = e.path
  BY <1>1, <1>2, <1>4, <1>5, <1>6, <1>7, FetchFileWork
<1>9. WalRec'
  <2>1. CASE wal' = wal
    BY <2>1, WalSame
  <2>2. CASE mode = "local" /\ IsWal(e.path) /\ CopyWal(e.path[2])
    <3>1. e.path[2] \in 1 .. NWal
      BY <1>4, <2>2, PathFacts
    <3> QED BY <2>2, <3>1, WalCopied DEF Performing, Typed
  <2> QED BY <1>2, <2>1, <2>2 DEF QueueFetchFile
<1> QED BY <1>8, <1>9, EntryDone

LEMMA EnsureWalSafe ==
    ASSUME Performing, UNCHANGED source, NEW e \in filemap, filemap' = filemap \ {e}, EnsureWal(e)
    PROVE  Typed' /\ SafeInv'
<1>1. SameSource
  BY SourceSame
<1>2. UNCHANGED <<tgt, tdeKeys, requests, step>> /\ step' = "perform"
  BY DEF EnsureWal, Performing
<1>3. \A p : Kept(p)
  BY <1>2, KeptSame
<1>4. IsFiles(tgt)' /\ IsFile(tgt)' /\ NotGarbled'
  BY <1>2, PerformingFacts DEF NotGarbled
<1>5. Work' /\ \A p : Asked(p)' <=> Asked(p)
  BY <1>1, <1>2, <1>3, <1>4, FilesOnly DEF Kept
<1>6. WalRec'
  <2> DEFINE f == [wal.tgt EXCEPT ![e.path[2]] = EnsureWalSeg(@)]
  <2>1. wal' = [wal EXCEPT !.tgt = f]
    BY DEF EnsureWal
  <2>2. WalRec
    BY DEF Performing, Typed
  <2>3. DOMAIN f = DOMAIN wal.tgt /\ IsFile(f)
    BY DEF IsFile
  <2>4. DOMAIN f \subseteq 1 .. NWal
    BY <2>2, <2>3 DEF WalRec
  <2> HIDE DEF f
  <2> QED BY <2>1, <2>2, <2>3, <2>4, WalPut
<1> QED BY <1>3, <1>5, <1>6, EntryDone

LEMMA RemoveSafe ==
    ASSUME Performing, UNCHANGED source, NEW e \in filemap, filemap' = filemap \ {e}, Remove(e)
    PROVE  Typed' /\ SafeInv'
<1>1. SameSource
  BY SourceSame
<1>2. UNCHANGED <<tdeKeys, requests, step>> /\ step' = "perform" /\ e.action = "REMOVE"
  BY DEF Remove, Performing
<1>3. e \in Entries /\ EntryOK(e) /\ e.path \in Paths \cup WalPaths
  BY PerformingFacts DEF Entries
<1>4. CASE IsWal(e.path)
  <2>1. wal' = [wal EXCEPT !.tgt = Without(@, e.path[2])] /\ tgt' = tgt
    BY <1>4 DEF Remove
  <2>2. \A p : Kept(p)
    BY <2>1, KeptSame
  <2>3. IsFiles(tgt)' /\ IsFile(tgt)' /\ NotGarbled'
    BY <2>1, PerformingFacts DEF NotGarbled
  <2>4. Work' /\ \A p : Asked(p)' <=> Asked(p)
    BY <1>1, <1>2, <2>2, <2>3, FilesOnly DEF Kept
  <2>5. WalRec'
    <3> DEFINE f == Without(wal.tgt, e.path[2])
    <3>1. wal' = [wal EXCEPT !.tgt = f]
      BY <2>1
    <3>2. WalRec
      BY DEF Performing, Typed
    <3>3. DOMAIN f \subseteq DOMAIN wal.tgt /\ IsFile(f)
      BY DEF IsFile, Without
    <3>4. DOMAIN f \subseteq 1 .. NWal
      BY <3>2, <3>3 DEF WalRec
    <3> HIDE DEF f
    <3> QED BY <3>1, <3>2, <3>3, <3>4, WalPut
  <2> QED BY <2>2, <2>4, <2>5, EntryDone
<1>5. CASE ~IsWal(e.path)
  <2>1. tgt' = Without(tgt, e.path) /\ wal' = wal
    BY <1>5 DEF Remove
  <2>2. e.path \in Paths /\ e.path \notin DOMAIN src
    BY <1>2, <1>3, <1>5, PathFacts DEF EntryOK
  <2> DEFINE g == Without(tgt, e.path)
  <2>3. /\ IsFiles(g) /\ IsFile(g) /\ DOMAIN g = DOMAIN tgt \ {e.path}
        /\ \A q \in DOMAIN tgt : q # e.path => g[q] = tgt[q]
    BY PerformingFacts, WithoutFacts
  <2>4. tgt' = g
    BY <2>1
  <2> HIDE DEF g
  <2>5. \A p \in DOMAIN tgt : Len(tgt[p]) \in Nat
    BY PerformingFacts, FilesDef
  <2>6. \A p : Kept(p)
    BY <2>2, <2>3, <2>4, <2>5 DEF Kept, Stays
  <2>7. IsFiles(tgt)' /\ IsFile(tgt)' /\ NotGarbled'
    BY <2>3, <2>4, PerformingFacts DEF NotGarbled
  <2>8. Work' /\ \A p : Asked(p)' <=> Asked(p)
    BY <1>1, <1>2, <2>6, <2>7, FilesOnly DEF Kept
  <2>9. WalRec'
    BY <2>1, WalSame
  <2> QED BY <2>6, <2>8, <2>9, EntryDone
<1> QED BY <1>4, <1>5

LEMMA PerformEntrySafe ==
    ASSUME Performing, PerformEntry
    PROVE  Typed' /\ SafeInv'
<1>1. Ready /\ \E e \in filemap : OverwritePage(e) \/ PerformAction(e)
  BY DEF PerformEntry
<1>2. PICK e \in filemap : OverwritePage(e) \/ PerformAction(e)
  BY <1>1
<1>3. CASE OverwritePage(e)
  BY <1>1, <1>3, OverwritePageSafe
<1>4. CASE PerformAction(e)
  <2>1. /\ e.left = {} /\ filemap' = filemap \ {e} /\ UNCHANGED source
        /\ EnsureKey(e) \/ EnsureWal(e) \/ Copy(e) \/ Truncate(e) \/ CopyTail(e) \/ Remove(e)
    BY <1>4 DEF PerformAction
  <2> QED BY <1>1, <2>1, EnsureKeySafe, EnsureWalSafe, CopySafe, TruncateSafe, CopyTailSafe, RemoveSafe
<1> QED BY <1>2, <1>3, <1>4

\* finish_fetch() leaves perform_rewind().
LEMMA FinishFetchSafe ==
    ASSUME Performing, FinishFetch
    PROVE  Typed' /\ SafeInv'
<1>1. /\ filemap = {} /\ queue = <<>> /\ want = NoRange /\ ~fetching
      /\ tgt' = FlushFiles(tgt) /\ tmp' = FlushRelKey /\ cur' = NoFile /\ step' = "fetched"
      /\ UNCHANGED <<mode, cap, src, skeys, created, tkeys, changed, wal, filemap,
                     queue, want, fetching, split>>
  BY DEF FinishFetch, Done, Ready, source, requests
<1>2. KeyTypes /\ IsFiles(tgt) /\ IsFile(tgt) /\ NotGarbled
  BY PerformingFacts
<1>3. /\ IsFiles(tgt)' /\ IsFile(tgt)' /\ DOMAIN tgt' = DOMAIN tgt
      /\ \A p \in DOMAIN tgt : p # <<cur.path[1], FsmPart>> => tgt'[p] = tgt[p]
  BY <1>1, <1>2, FlushFacts
<1>4. NotGarbled'
  <2>1. \A p : IsRelFile(p) => p # <<cur.path[1], FsmPart>>
    BY PathFacts DEF IsRelFile, FsmPart
  <2> QED BY <1>2, <1>3, <2>1 DEF NotGarbled
<1>5. KeyTypes'
  <2>1. FlushRelKey \in [Rels -> KeysMadeBy({"src", "tgt"})]
    BY <1>2, FlushKeyFacts
  <2>2. /\ skeys \in [Rels -> KeysMadeBy({"src"})] /\ tkeys \in [Rels -> KeysMadeBy({"src", "tgt", "new"})]
        /\ tkeys \in [Rels -> KeysMadeBy({"src", "tgt"})]
    BY <1>2 DEF KeyTypes, Performing
  <2> QED BY <1>1, <2>1, <2>2 DEF KeyTypes
<1>6. Typed'
  BY <1>1, <1>3, <1>5 DEF Performing, Typed, Fixed, WorkTypes, WalRec
<1>7. SafeInv'
  BY <1>1, <1>4 DEF Performing, SafeInv, SourceBlocks
<1> QED BY <1>6, <1>7

\* The source drops a relation while its files are fetched.
LEMMA SourceDropsSafe ==
    ASSUME Performing, NEW r \in Rels, SourceDrops(r)
    PROVE  Typed' /\ SafeInv'
<1>1. /\ mode = "remote" /\ skeys' = [skeys EXCEPT ![r] = None]
      /\ UNCHANGED <<mode, cap, created, tgt, tkeys, changed, wal, step, filemap, tmp, cur,
                     queue, want, fetching, split>>
  BY DEF SourceDrops, tdeKeys, requests
<1>2. /\ DOMAIN src' = {q \in DOMAIN src : q[1] # r} /\ IsFile(src)'
      /\ \A p \in DOMAIN src' : src'[p] = src[p]
  <2> DEFINE g == [p \in {q \in DOMAIN src : q[1] # r} |-> src[p]]
  <2>1. src' = g
    BY DEF SourceDrops
  <2>2. DOMAIN g = {q \in DOMAIN src : q[1] # r} /\ IsFile(g) /\ \A p \in DOMAIN g : g[p] = src[p]
    BY DEF IsFile
  <2> HIDE DEF g
  <2> QED BY <2>1, <2>2
<1>3. IsFiles(src)'
  BY <1>2, PerformingFacts, FilesDef
<1>4. /\ \A p : p \in DOMAIN src' => p \in DOMAIN src /\ p[1] # r
      /\ \A q \in Rels : OnSource(q)' => OnSource(q) /\ q # r
      /\ \A p \in Paths : Here(p) => Here(p)'
  BY <1>1, <1>2 DEF OnSource, Here
<1>5. skeys' \in [Rels -> KeysMadeBy({"src"})] /\ \A q \in Rels : q # r => skeys'[q] = skeys[q]
  BY <1>1, PerformingFacts, KeyFacts DEF KeyTypes
<1>6. Typed'
  <2>1. KeyTypes'
    BY <1>1, <1>5, PerformingFacts DEF KeyTypes
  <2> QED BY <1>1, <1>2, <1>3, <2>1 DEF Performing, Typed, Fixed, WorkTypes, WalRec
<1>7. SourceBlocks'
  <2>1. \A p \in DOMAIN src' : p[1] \in Rels /\ p[1] # r
    BY <1>3, <1>4, FilesDef, PathFacts
  <2>2. ASSUME NEW p \in DOMAIN src', NEW i \in DOMAIN src'[p] PROVE src'[p][i] = Block(skeys'[p[1]], "c")
    BY <1>2, <1>4, <1>5, <2>1, PerformingFacts DEF SourceBlocks
  <2> QED BY <2>2 DEF SourceBlocks
<1>8. KeysInv'
  <2>1. \A q \in Rels : OnSource(q)' => tmp'[q] \in {None, skeys'[q], tkeys'[q]}
    BY <1>1, <1>4, <1>5, PerformingFacts DEF KeysInv
  <2>2. ASSUME cur # NoFile
        PROVE  /\ IsRelFile(cur.path) /\ cur.tk = tkeys[cur.path[1]] /\ cur.tk # None
               /\ OnSource(cur.path[1])' => cur.sk \in {skeys'[cur.path[1]], cur.tk}
    <3>1. /\ IsRelFile(cur.path) /\ cur.tk = tkeys[cur.path[1]] /\ cur.tk # None
          /\ OnSource(cur.path[1]) => cur.sk \in {skeys[cur.path[1]], cur.tk}
      BY <2>2, PerformingFacts DEF KeysInv
    <3>2. cur.path[1] \in Rels
      BY <3>1 DEF IsRelFile
    <3>3. PICK q \in Rels : q = cur.path[1]
      BY <3>2
    <3>4. OnSource(q)' => OnSource(q) /\ skeys'[q] = skeys[q]
      BY <1>4, <1>5
    <3>5. OnSource(cur.path[1])' => OnSource(q)'
      BY <1>1, <3>3
    <3> QED BY <3>1, <3>3, <3>4, <3>5
  <2> QED BY <1>1, <2>1, <2>2 DEF KeysInv
<1>9. ASSUME NEW rq, RequestOK(rq) PROVE RequestOK(rq)'
  BY <1>1, <1>4, <1>9 DEF RequestOK
<1>10. \A p \in DOMAIN src' : \A o : Reached(p, o) => Reached(p, o)'
  BY <1>1, <1>2 DEF Reached
<1>11. RowsOK' /\ WantOK'
  <2>1. ASSUME NEW k \in DOMAIN queue PROVE RowOK(k)'
    <3>1. RowOK(k)
      BY PerformingFacts DEF RowsOK
    <3>2. PICK rq, o : rq = queue[k] /\ o = rq.off
      OBVIOUS
    <3>3. RequestOK(rq) /\ RequestOK(rq)'
      BY <1>9, <3>1, <3>2 DEF RowOK
    <3>4. rq.path \in Paths /\ rq.path \in DOMAIN src' =>
             Reached(rq.path, rq.off)' \/ (k > 1 /\ Continues(rq, queue[k - 1]))
      BY <1>4, <1>10, <3>1, <3>2 DEF RowOK
    <3> QED BY <1>1, <3>2, <3>3, <3>4 DEF RowOK, Continues
  <2>2. ASSUME want # NoRange PROVE WantOK'
    <3>1. WantOK
      BY PerformingFacts
    <3>2. PICK rq : rq = want
      OBVIOUS
    <3>3. RequestOK(rq) /\ RequestOK(rq)'
      BY <1>9, <2>2, <3>1, <3>2 DEF WantOK
    <3>4. rq.path \in Paths /\ rq.path \in DOMAIN src' =>
             Reached(rq.path, rq.off)' \/ (queue # <<>> /\ Continues(rq, queue[Len(queue)]))
      BY <1>4, <1>10, <2>2, <3>1, <3>2 DEF WantOK
    <3> QED BY <1>1, <3>2, <3>3, <3>4 DEF WantOK, Continues
  <2> QED BY <1>1, <2>1, <2>2 DEF RowsOK, WantOK
<1>12. ASSUME NEW e \in filemap PROVE EntryOK(e)' /\ (e.left = e.pages => ~Asked(e.path)')
  <2>1. EntryOK(e) /\ (e.left = e.pages => ~Asked(e.path)) /\ e \in Entries
    BY PerformingFacts DEF WorkInv
  <2>2. EntryOK(e)'
    BY <1>1, <1>2, <1>4, <2>1 DEF EntryOK
  <2>3. Asked(e.path)' <=> Asked(e.path)
    BY <1>1 DEF Asked
  <2> QED BY <2>1, <2>2, <2>3
<1>13. WorkInv'
  <2>1. LocalOK'
    BY <1>1, PerformingFacts DEF LocalOK
  <2> QED BY <1>1, <1>11, <1>12, <2>1 DEF WorkInv, LocalOK
<1>14. NotGarbled' /\ step' = "perform"
  BY <1>1, PerformingFacts DEF NotGarbled, Performing
<1>15. SafeInv'
  BY <1>7, <1>8, <1>13, <1>14 DEF SafeInv
<1> QED BY <1>6, <1>15

-----------------------------------------------------------------------------
(* The other steps of main().                                              *)

LEMMA FetchTdeKeysSafe ==
    ASSUME Typed, SafeInv, FetchTdeKeys
    PROVE  Typed' /\ SafeInv'
<1>1. /\ step = "start" /\ step' = "keys" /\ tmp' = skeys
      /\ UNCHANGED <<mode, cap, src, skeys, created, tgt, tkeys, changed, wal, filemap, cur,
                     queue, want, fetching, split>>
  BY DEF FetchTdeKeys, requests
<1>2. KeyTypes'
  <2>1. tmp' \in [Rels -> KeysMadeBy({"src", "tgt"})]
    BY <1>1, KeyFacts DEF Typed, KeyTypes
  <2> QED BY <1>1, <2>1 DEF Typed, KeyTypes
<1>3. Typed'
  BY <1>1, <1>2 DEF Typed, Fixed, WorkTypes, WalRec
<1>4. \A r : OnSource(r)' <=> OnSource(r)
  BY <1>1 DEF OnSource
<1>5. SafeInv'
  BY <1>1, <1>4 DEF SafeInv, SourceBlocks, NotGarbled
<1> QED BY <1>3, <1>5

LEMMA SourceCreatesSafe ==
    ASSUME Typed, SafeInv, NEW r \in Rels, NEW k \in KeysMadeBy({"src"}), SourceCreates(r, k)
    PROVE  Typed' /\ SafeInv'
<1>1. /\ step = "keys" /\ step' = "keys" /\ mode = "remote" /\ \A p \in DOMAIN src : p[1] # r
      /\ skeys' = [skeys EXCEPT ![r] = k] /\ created' = created \cup {r}
      /\ UNCHANGED <<mode, cap, tgt, tkeys, changed, wal, step, filemap, tmp, cur,
                     queue, want, fetching, split>>
  BY DEF SourceCreates, tdeKeys, requests
<1> DEFINE c == <<Block(k, "c")>> g == With(src, <<r, 0>>, c)
<1>2. c \in Seq(Blocks) /\ DOMAIN c = {1} /\ c[1] = Block(k, "c")
  <2>1. Block(k, "c") \in Blocks
    BY KeyFacts DEF Block, Blocks
  <2> QED BY <2>1
<1>3. <<r, 0>> \in Paths
  BY PathFacts DEF Paths, Parts
<1> HIDE DEF c
<1>4. /\ IsFiles(g) /\ IsFile(g) /\ DOMAIN g = DOMAIN src \cup {<<r, 0>>}
      /\ g[<<r, 0>>] = c /\ \A q \in DOMAIN src : q # <<r, 0>> => g[q] = src[q]
  <2>1. IsFiles(src) /\ c \in Seq(Blocks)
    BY <1>2 DEF Typed
  <2> QED BY <2>1, <1>3, PutFacts
<1>5. src' = g
  BY DEF SourceCreates, c
<1> HIDE DEF g
<1>6. skeys' \in [Rels -> KeysMadeBy({"src"})] /\ skeys'[r] = k /\ \A q \in Rels : q # r => skeys'[q] = skeys[q]
  BY <1>1 DEF Typed, KeyTypes
<1>7. Typed'
  <2>1. KeyTypes'
    BY <1>1, <1>6 DEF Typed, KeyTypes
  <2>2. Fixed'
    BY <1>1 DEF Typed, Fixed
  <2> QED BY <1>1, <1>4, <1>5, <2>1, <2>2 DEF Typed, WorkTypes, WalRec
<1>8. SourceBlocks'
  <2>1. ASSUME NEW p \in DOMAIN src', NEW i \in DOMAIN src'[p] PROVE src'[p][i] = Block(skeys'[p[1]], "c")
    <3>1. CASE p = <<r, 0>>
      BY <1>2, <1>4, <1>5, <1>6, <2>1, <3>1
    <3>2. CASE p \in DOMAIN src /\ p # <<r, 0>>
      <4>1. p[1] \in Rels /\ p[1] # r
        BY <1>1, <3>2, FilesDef, PathFacts DEF Typed
      <4> QED BY <1>4, <1>5, <1>6, <2>1, <3>2, <4>1 DEF SafeInv, SourceBlocks
    <3> QED BY <1>4, <1>5, <2>1, <3>1, <3>2
  <2> QED BY <2>1 DEF SourceBlocks
<1>9. \A q \in Rels : OnSource(q)' <=> OnSource(q) \/ q = r
  BY <1>4, <1>5 DEF OnSource
<1>10. ~OnSource(r)
  BY <1>1 DEF OnSource
<1>11. \A q \in Rels : tmp'[q] \in {None, skeys'[q]}
  BY <1>1, <1>6, <1>10 DEF SafeInv
<1>12. \A q \in Rels : ~OnSource(q)' => skeys'[q] = None
  BY <1>1, <1>6, <1>9 DEF SafeInv
<1>13. SafeInv'
  BY <1>1, <1>8, <1>11, <1>12 DEF SafeInv, NotGarbled
<1> QED BY <1>7, <1>13

LEMMA WalListed ==
    ASSUME WalRec, BuildFilemap
    PROVE  /\ WalRec' /\ DOMAIN wal'.tgt = 1 .. NWal
           /\ \A i \in 1 .. NWal : wal'.tgt[i] = IF i \in DOMAIN wal.tgt THEN wal.tgt[i] ELSE wal.tkeys
           /\ wal'.src = wal.src /\ wal'.fork = wal.fork /\ wal'.skeys = wal.skeys
           /\ wal'.tkeys = wal.tkeys
<1> DEFINE f == [i \in 1 .. NWal |-> IF i \in DOMAIN wal.tgt THEN wal.tgt[i] ELSE wal.tkeys]
           w == [src |-> wal.src, tgt |-> f, fork |-> wal.fork, skeys |-> wal.skeys,
                 tkeys |-> wal.tkeys, restored |-> RestoredWal]
<1>1. wal' = [wal EXCEPT !.tgt = f, !.restored = RestoredWal]
  BY DEF BuildFilemap
<1>2. wal = [src |-> wal.src, tgt |-> wal.tgt, fork |-> wal.fork, skeys |-> wal.skeys,
             tkeys |-> wal.tkeys, restored |-> wal.restored]
  BY DEF WalRec
<1>3. DOMAIN f = 1 .. NWal /\ IsFile(f)
      /\ \A i \in 1 .. NWal : f[i] = IF i \in DOMAIN wal.tgt THEN wal.tgt[i] ELSE wal.tkeys
  BY DEF IsFile
<1> HIDE DEF f
<1>4. wal' = w
  BY <1>1, <1>2
<1>5. /\ wal'.src = wal.src /\ wal'.tgt = f /\ wal'.fork = wal.fork /\ wal'.skeys = wal.skeys
      /\ wal'.tkeys = wal.tkeys /\ wal'.restored = RestoredWal
  BY <1>4
<1>6. WalRec'
  BY <1>3, <1>4, <1>5 DEF WalRec
<1> QED BY <1>3, <1>5, <1>6

\* The entries of the relations' files.
LEMMA RelEntriesFacts ==
    ASSUME Typed, NEW e \in RelEntries
    PROVE  /\ e \in Entries /\ EntryOK(e) /\ e.path \in Paths /\ e.left = e.pages
           /\ e.path \in DOMAIN src \cup DOMAIN tgt
           /\ e = [path |-> e.path, action |-> DecideAction(e.path), pages |-> PagesToOverwrite(e.path),
                   left |-> PagesToOverwrite(e.path), ssize |-> SizeOf(src, e.path), tsize |-> SizeOf(tgt, e.path)]
<1>1. PICK p \in DOMAIN src \cup DOMAIN tgt :
         e = [path |-> p, action |-> DecideAction(p), pages |-> PagesToOverwrite(p),
              left |-> PagesToOverwrite(p), ssize |-> SizeOf(src, p), tsize |-> SizeOf(tgt, p)]
  BY DEF RelEntries
<1>2. /\ e.path = p /\ e.action = DecideAction(p) /\ e.pages = PagesToOverwrite(p)
      /\ e.left = PagesToOverwrite(p) /\ e.ssize = SizeOf(src, p) /\ e.tsize = SizeOf(tgt, p)
  BY <1>1
<1>3. /\ DOMAIN src \subseteq Paths /\ DOMAIN tgt \subseteq Paths
      /\ \A q \in DOMAIN src : Len(src[q]) \in Nat
      /\ \A q \in DOMAIN tgt : Len(tgt[q]) \in Nat
  BY FilesDef DEF Typed
<1>4. p \in Paths /\ p \notin WalPaths
  BY <1>1, <1>3, PathFacts
<1>5. SizeOf(src, p) \in Nat /\ SizeOf(tgt, p) \in Nat
  BY <1>3 DEF SizeOf
<1>6. /\ DecideAction(p) \in DOMAIN ActionOrder
      /\ DecideAction(p) \in Patching \cup {"COPY", "REMOVE"}
      /\ DecideAction(p) = "REMOVE" => p \notin DOMAIN src
      /\ DecideAction(p) # "REMOVE" => p \in DOMAIN src
      /\ DecideAction(p) \in Patching => IsRelFile(p) /\ p \in DOMAIN src /\ p \in DOMAIN tgt
      /\ DecideAction(p) = "COPY_TAIL" => SizeOf(tgt, p) < SizeOf(src, p)
      /\ DecideAction(p) = "TRUNCATE" => SizeOf(src, p) <= SizeOf(tgt, p)
  BY <1>1, <1>5 DEF DecideAction, Patching, ActionOrder
<1>7. /\ PagesToOverwrite(p) \subseteq Pages
      /\ \A b \in PagesToOverwrite(p) : <<p, b>> \in changed /\ b < SizeOf(src, p) /\ b < SizeOf(tgt, p)
  BY DEF PagesToOverwrite, Pages
<1>8. DecideAction(p) \notin Patching => PagesToOverwrite(p) = {}
  <2>1. ASSUME NEW b \in PagesToOverwrite(p)
        PROVE  IsRelFile(p) /\ p \in DOMAIN src /\ p \in DOMAIN tgt
    <3>1. <<p, b>> \in changed /\ b < SizeOf(src, p) /\ b < SizeOf(tgt, p) /\ b \in Nat
      BY <1>7, PathFacts DEF Pages
    <3>2. IsRelFile(p)
      BY <3>1 DEF Typed, Fixed
    <3>3. SizeOf(src, p) # 0 /\ SizeOf(tgt, p) # 0
      BY <1>5, <3>1
    <3> QED BY <3>2, <3>3 DEF SizeOf
  <2>2. IsRelFile(p) /\ p \in DOMAIN src /\ p \in DOMAIN tgt => DecideAction(p) \in Patching
    BY DEF DecideAction, Patching
  <2> QED BY <2>1, <2>2
<1>9. e \in Entries
  BY <1>1, <1>4, <1>5, <1>6, <1>7 DEF Entries
<1>10. EntryOK(e)
  <2>1. p \in DOMAIN src => SizeOf(src, p) = Len(src[p])
    BY DEF SizeOf
  <2>2. p \in DOMAIN tgt => SizeOf(tgt, p) = Len(tgt[p])
    BY DEF SizeOf
  <2>3. e.left \subseteq e.pages /\ (e.action \notin Patching => e.pages = {})
    BY <1>2, <1>8
  <2>4. e.action # "REMOVE" => Here(p)
    BY <1>2, <1>6 DEF Here
  <2>5. \A b \in e.left : DecideAction(p) \in Patching /\ b < SizeOf(src, p) /\ b < SizeOf(tgt, p)
    BY <1>2, <1>7, <1>8
  <2>6. p \in DOMAIN src =>
              /\ e.ssize = Len(src[p])
              /\ e.action \in Patching => p \in DOMAIN tgt
              /\ e.action = "COPY_TAIL" => e.tsize <= Len(tgt[p])
              /\ \A b \in e.left : b < Len(tgt[p]) /\ b < Len(src[p])
    <3>1. e.action = "COPY_TAIL" => e.tsize = Len(tgt[p])
      BY <1>2, <1>6, <2>2 DEF Patching
    <3>2. e.tsize <= e.tsize
      BY <1>2, <1>5
    <3>3. \A b \in e.left : p \in DOMAIN tgt
      BY <1>6, <2>5
    <3> QED BY <1>2, <1>6, <2>1, <2>2, <2>5, <3>1, <3>2, <3>3
  <2>7. e.action = "TRUNCATE" /\ p \in DOMAIN tgt => e.ssize <= Len(tgt[p])
    BY <1>2, <1>6, <2>2
  <2> QED BY <1>2, <1>4, <1>6, <2>3, <2>4, <2>6, <2>7 DEF EntryOK
<1> QED BY <1>1, <1>2, <1>4, <1>9, <1>10

\* The entries of the WAL segments.
LEMMA WalEntriesFacts ==
    ASSUME WalRec, NEW e \in WalEntries
    PROVE  /\ e \in Entries /\ EntryOK(e) /\ e.left = {} /\ e.pages = {}
           /\ e.path \in WalPaths /\ e.action = WalAction(e.path[2])
           /\ e = [path |-> e.path, action |-> WalAction(e.path[2]), pages |-> {}, left |-> {},
                   ssize |-> 1, tsize |-> 1]
<1>1. PICK i \in DOMAIN wal.src \cup Listed :
         e = [path |-> <<WalDir, i>>, action |-> WalAction(i), pages |-> {}, left |-> {},
              ssize |-> 1, tsize |-> 1]
  BY DEF WalEntries
<1>2. i \in 1 .. NWal
  BY <1>1, PathFacts DEF WalRec, Listed, KeepWal
<1>3. /\ e.path = <<WalDir, i>> /\ e.action = WalAction(i) /\ e.pages = {} /\ e.left = {}
      /\ e.ssize = 1 /\ e.tsize = 1 /\ e.path[2] = i
  BY <1>1
<1>4. e.path \in WalPaths /\ e.path \notin Paths
  BY <1>2, <1>3, PathFacts
<1>5. WalAction(i) \in {"COPY", "ENSURE_WAL_SEG", "REMOVE"}
  BY DEF WalAction
<1>6. e \in Entries
  BY <1>1, <1>4, <1>3, <1>5 DEF Entries, ActionOrder
<1>7. EntryOK(e)
  BY <1>3, <1>4, <1>5 DEF EntryOK, Patching
<1> QED BY <1>1, <1>3, <1>4, <1>6, <1>7

LEMMA BuildFilemapSafe ==
    ASSUME Typed, SafeInv, BuildFilemap
    PROVE  Typed' /\ SafeInv'
<1>1. /\ step = "keys" /\ step' = "perform" /\ filemap' = RelEntries \cup WalEntries
      /\ UNCHANGED <<mode, cap, src, skeys, created, tgt, tkeys, changed, tmp, cur,
                     queue, want, fetching, split>>
  BY DEF BuildFilemap, source, tdeKeys, requests
<1>2. /\ queue = <<>> /\ want = NoRange /\ cur = NoFile /\ SourceBlocks /\ NotGarbled
      /\ \A r \in Rels : tmp[r] \in {None, skeys[r]}
      /\ WalRec
  BY <1>1 DEF SafeInv, Typed
<1>3. WalRec'
  BY <1>2, WalListed
<1>4. ASSUME NEW e \in filemap' PROVE e \in Entries /\ EntryOK(e)
  BY <1>1, <1>2, RelEntriesFacts, WalEntriesFacts
<1>5. ASSUME NEW e \in filemap', NEW f \in filemap', e.path = f.path PROVE e = f
  <2>1. CASE e \in RelEntries
    <3>1. e.path \in Paths /\ e.path \notin WalPaths
      BY <2>1, RelEntriesFacts, PathFacts
    <3>2. f \in RelEntries
      BY <1>1, <1>2, <1>5, <3>1, WalEntriesFacts
    <3> QED BY <1>5, <2>1, <3>2, RelEntriesFacts
  <2>2. CASE e \in WalEntries
    <3>1. e.path \in WalPaths /\ e.path \notin Paths
      BY <1>2, <2>2, WalEntriesFacts, PathFacts
    <3>2. f \in WalEntries
      BY <1>1, <1>5, <3>1, RelEntriesFacts
    <3> QED BY <1>2, <1>5, <2>2, <3>2, WalEntriesFacts
  <2> QED BY <1>1, <2>1, <2>2
<1>6. \A r : (OnSource(r)' <=> OnSource(r))
  BY <1>1 DEF OnSource
<1>7. ASSUME NEW e \in filemap' PROVE EntryOK(e)' /\ (e.left = e.pages => ~Asked(e.path)')
  <2>1. EntryOK(e)'
    BY <1>1, <1>4, <1>6 DEF EntryOK, Here
  <2>2. e.path \in Paths \cup WalPaths
    BY <1>4 DEF Entries
  <2>3. e.path # <<>>
    BY <2>2, PathFacts
  <2> QED BY <1>1, <1>2, <2>1, <2>3 DEF Asked, NoRange
<1>8. Typed'
  <2>1. WorkTypes'
    BY <1>1, <1>4, <1>5 DEF Typed, WorkTypes
  <2> QED BY <1>1, <1>3, <2>1 DEF Typed, Fixed, KeyTypes
<1>9. KeysInv'
  BY <1>1, <1>2, <1>6 DEF KeysInv
<1>10. WorkInv'
  <2>1. RowsOK' /\ WantOK'
    BY <1>1, <1>2 DEF RowsOK, WantOK
  <2>2. fetching' = FALSE
    BY <1>1 DEF SafeInv
  <2> QED BY <1>1, <1>2, <1>7, <2>1, <2>2 DEF WorkInv
<1>11. SafeInv'
  BY <1>1, <1>2, <1>9, <1>10 DEF SafeInv, SourceBlocks, NotGarbled
<1> QED BY <1>8, <1>11

LEMMA InstallKeysSafe ==
    ASSUME Typed, SafeInv, InstallKeys
    PROVE  Typed' /\ SafeInv'
<1>1. /\ step = "fetched" /\ step' = "installed" /\ ArchiveWal /\ tkeys' = tmp
      /\ UNCHANGED <<mode, cap, src, skeys, created, tgt, changed, filemap, tmp, cur,
                     queue, want, fetching, split>>
  BY DEF InstallKeys, tdeKeys, requests
<1>2. WalRec'
  <2> DEFINE f == [i \in DOMAIN wal.tgt |-> IF i \in Archived THEN EnsureWalSeg(wal.tgt[i]) ELSE wal.tgt[i]]
  <2>1. wal' = [wal EXCEPT !.tgt = f]
    BY <1>1 DEF ArchiveWal
  <2>2. DOMAIN f = DOMAIN wal.tgt /\ IsFile(f)
    BY DEF IsFile
  <2>3. WalRec /\ DOMAIN wal.tgt \subseteq 1 .. NWal
    BY DEF Typed, WalRec
  <2> HIDE DEF f
  <2> QED BY <2>1, <2>2, <2>3, WalPut
<1>3. KeyTypes'
  BY <1>1, KeyFacts DEF Typed, KeyTypes
<1>4. Typed'
  BY <1>1, <1>2, <1>3 DEF Typed, Fixed, WorkTypes
<1>5. SafeInv'
  BY <1>1 DEF SafeInv, SourceBlocks, NotGarbled
<1> QED BY <1>4, <1>5

LEMMA ReplaySafe ==
    ASSUME Typed, SafeInv, Replay
    PROVE  Typed' /\ SafeInv'
<1> DEFINE key(r) == IF r \notin created \/ tkeys[r] # None \/ skeys[r] = None
                     THEN tkeys[r] ELSE KeyOf("new", r)
           gone == {r \in Rels : \A p \in DOMAIN src : p[1] # r}
           rebuilt == {p \in DOMAIN src : p[1] \in created}
           c(p) == [i \in DOMAIN src[p] |-> Block(key(p[1]), "c")]
           g == [p \in {q \in DOMAIN tgt : q[1] \notin gone} \cup rebuilt |->
                     IF p \in rebuilt THEN c(p) ELSE tgt[p]]
<1>1. /\ step = "installed" /\ step' = "replayed" /\ tgt' = g
      /\ tkeys' = [r \in Rels |-> IF r \in gone THEN None ELSE key(r)]
      /\ UNCHANGED <<mode, cap, src, skeys, created, changed, wal, filemap, tmp, cur,
                     queue, want, fetching, split>>
  BY DEF Replay, tdeKeys, requests
<1>2. \A r \in Rels : key(r) \in KeysMadeBy({"src", "tgt", "new"})
  <2>1. KeysMadeBy({"new"}) \subseteq KeysMadeBy({"src", "tgt", "new"})
    BY DEF KeysMadeBy
  <2> QED BY <1>1, <2>1, KeyFacts DEF Typed, KeyTypes
<1>3. \A r \in Rels : key(r) \in FileKeys /\ key(r) # Garbled
  BY <1>2, KeyFacts
<1> HIDE DEF key
<1>4. ASSUME NEW p \in rebuilt
      PROVE  c(p) \in Seq(Blocks) /\ \A i \in DOMAIN c(p) : c(p)[i].key # Garbled
  <2>1. p[1] \in Rels /\ DOMAIN src[p] = 1 .. Len(src[p]) /\ Len(src[p]) \in Nat
    BY FilesDef, PathFacts DEF Typed
  <2>2. Block(key(p[1]), "c") \in Blocks /\ Block(key(p[1]), "c").key # Garbled
    BY <1>3, <2>1 DEF Block, Blocks
  <2>3. c(p) \in [1 .. Len(src[p]) -> Blocks] /\ \A i \in DOMAIN c(p) : c(p)[i] = Block(key(p[1]), "c")
    BY <2>1, <2>2
  <2> HIDE DEF c
  <2> QED BY <2>1, <2>2, <2>3, IsSeq
<1>5. DOMAIN g \subseteq Paths /\ IsFile(g)
  <2>1. DOMAIN src \subseteq Paths /\ DOMAIN tgt \subseteq Paths
    BY FilesDef DEF Typed
  <2> QED BY <2>1 DEF IsFile
<1>6. \A p \in DOMAIN g : g[p] = IF p \in rebuilt THEN c(p) ELSE tgt[p]
  BY Zenon
<1>7. \A p \in DOMAIN g : p \in rebuilt \/ p \in DOMAIN tgt
  OBVIOUS
<1> HIDE DEF c, g, rebuilt
<1>8. IsFiles(g)
  BY <1>4, <1>5, <1>6, <1>7, FilesDef DEF Typed
<1>9. \A p \in DOMAIN g : IsRelFile(p) => \A i \in DOMAIN g[p] : g[p][i].key # Garbled
  BY <1>4, <1>6, <1>7 DEF SafeInv, NotGarbled
<1>10. KeyTypes'
  <2>1. tkeys' \in [Rels -> KeysMadeBy({"src", "tgt", "new"})]
    BY <1>1, <1>2, KeyFacts
  <2> QED BY <1>1, <2>1 DEF Typed, KeyTypes
<1>11. Typed'
  BY <1>1, <1>5, <1>8, <1>10 DEF Typed, Fixed, WorkTypes, WalRec
<1>12. SafeInv'
  BY <1>1, <1>9 DEF SafeInv, SourceBlocks, NotGarbled
<1> QED BY <1>11, <1>12

-----------------------------------------------------------------------------
(* The two clusters at the start.                                          *)

\* What the proofs need to know of the history of a relation.
HistoryOK(h, r) ==
    /\ h.n \in {-1} \cup 1 .. MaxLen[r] /\ h.m \in {-1} \cup 1 .. MaxLen[r]
    /\ h.fk \subseteq Forks /\ h.sk \in {None, "src"} /\ h.tk \in {None, "src", "tgt"}
    /\ h.n = -1 => h.sk = None
    /\ h.new \in BOOLEAN /\ h.ch \subseteq 0 .. h.m - 1
    /\ h.new => h.fk = {}
    /\ ~h.new /\ h.n # -1 /\ h.m # -1 => (h.sk = None <=> h.tk = None)

LEMMA InSegFacts ==
    ASSUME NEW n \in Int, NEW s \in Nat
    PROVE  /\ InSeg(n, s) \subseteq Nat /\ Cardinality(InSeg(n, s)) \in Nat
           /\ Cardinality(InSeg(n, 0)) <= SegBlocks
<1>1. SegBlocks \in Nat \ {0}
  BY PathFacts
<1>2. InSeg(n, s) \subseteq 0 .. n - 1
  BY DEF InSeg
<1>3. IsFiniteSet(0 .. n - 1)
  BY FS_Interval
<1>4. IsFiniteSet(InSeg(n, s))
  BY <1>2, <1>3, FS_Subset
<1>5. InSeg(n, 0) \subseteq 0 .. SegBlocks - 1
  BY <1>1 DEF InSeg
<1>6. IsFiniteSet(0 .. SegBlocks - 1) /\ Cardinality(0 .. SegBlocks - 1) = SegBlocks
  <2>1. SegBlocks - 1 \in Int /\ 0 \in Int /\ ~(0 > SegBlocks - 1)
    BY <1>1
  <2>2. Cardinality(0 .. SegBlocks - 1) = (SegBlocks - 1) - 0 + 1
    BY <2>1, FS_Interval
  <2> QED BY <1>1, <2>1, <2>2, FS_Interval
<1>7. Cardinality(InSeg(n, 0)) <= SegBlocks
  BY <1>5, <1>6, FS_Subset
<1> QED BY <1>2, <1>4, <1>7, FS_CardinalityType

\* The files f of relation r with n blocks under key k.
MadeFiles(f, r, n, k, fk, ch) ==
    /\ IsFiles(f) /\ \A p \in DOMAIN f : p[1] = r
    /\ \A p \in DOMAIN f : \A i \in DOMAIN f[p] : f[p][i].key = k
    /\ n = -1 => DOMAIN f = {}
    /\ n # -1 => <<r, 0>> \in DOMAIN f /\ Len(f[<<r, 0>>]) = Cardinality(InSeg(n, 0))
    /\ ch = {} => \A p \in DOMAIN f : \A i \in DOMAIN f[p] : f[p][i] = Block(k, "c")
    /\ <<r, FsmPart>> \in DOMAIN f => n # -1 /\ "fsm" \in fk
    /\ n # -1 /\ "fsm" \in fk => <<r, FsmPart>> \in DOMAIN f
    /\ <<r, 0>> \in DOMAIN f =>
          \A i \in DOMAIN f[<<r, 0>>] : f[<<r, 0>>][i].data = "t" => i - 1 \in ch

LEMMA FilesOfFacts ==
    ASSUME NEW r \in Rels, NEW n \in Int, NEW k \in FileKeys, NEW fk, fk \subseteq Forks, NEW ch
    PROVE  MadeFiles(FilesOf(r, n, k, fk, ch), r, n, k, fk, ch)
<1> DEFINE parts == IF n = -1 THEN {}
                    ELSE {s \in 0 .. LastSeg : s = 0 \/ InSeg(n, s) # {}}
                         \cup {ForkPart(x) : x \in fk}
           D == {r} \X parts
           f == FilesOf(r, n, k, fk, ch)
           c(p) == IF p[2] > LastSeg THEN <<Block(k, "c")>>
                   ELSE [i \in 1 .. Cardinality(InSeg(n, p[2])) |->
                            Block(k, IF p[2] * SegBlocks + i - 1 \in ch THEN "t" ELSE "c")]
<1>1. f = [p \in D |-> c(p)]
  BY DEF FilesOf
<1>2. parts \subseteq Parts
  BY DEF Parts
<1>3. \A p \in D : p = <<r, p[2]>> /\ p[1] = r /\ p[2] \in parts /\ p \in Paths /\ p[2] \in Nat
  <2>1. \A p \in D : p = <<r, p[2]>> /\ p[1] = r /\ p[2] \in parts
    OBVIOUS
  <2> QED BY <1>2, <2>1, PathFacts DEF Paths
<1>4. Block(k, "c") \in Blocks /\ Block(k, "t") \in Blocks
  BY DEF Block, Blocks
<1>5. ASSUME NEW p \in D
      PROVE  /\ c(p) \in Seq(Blocks) /\ \A i \in DOMAIN c(p) : c(p)[i].key = k
             /\ ch = {} => \A i \in DOMAIN c(p) : c(p)[i] = Block(k, "c")
             /\ p[2] <= LastSeg => /\ Len(c(p)) = Cardinality(InSeg(n, p[2]))
                                   /\ \A i \in DOMAIN c(p) : c(p)[i].data = "t" => p[2] * SegBlocks + i - 1 \in ch
  <2>0. p[2] \in Nat /\ LastSeg \in Nat
    BY <1>3, PathFacts
  <2>1. CASE p[2] > LastSeg
    <3>1. c(p) = <<Block(k, "c")>>
      BY <2>1
    <3> HIDE DEF c
    <3>2. c(p) \in Seq(Blocks) /\ DOMAIN c(p) = {1} /\ c(p)[1] = Block(k, "c")
      BY <1>4, <3>1
    <3> QED BY <2>0, <2>1, <3>2 DEF Block
  <2>2. CASE ~(p[2] > LastSeg)
    <3> DEFINE l == Cardinality(InSeg(n, p[2]))
               b(i) == Block(k, IF p[2] * SegBlocks + i - 1 \in ch THEN "t" ELSE "c")
    <3>1. c(p) = [i \in 1 .. l |-> b(i)]
      BY <2>2
    <3>2. l \in Nat
      BY <2>0, InSegFacts
    <3>3. \A i : b(i) \in Blocks /\ b(i).key = k /\ (b(i).data = "t" => p[2] * SegBlocks + i - 1 \in ch)
                 /\ (ch = {} => b(i) = Block(k, "c"))
      BY <1>4 DEF Block
    <3> HIDE DEF c, b, l
    <3>4. c(p) \in [1 .. l -> Blocks] /\ DOMAIN c(p) = 1 .. l /\ \A i \in 1 .. l : c(p)[i] = b(i)
      BY <3>1, <3>3
    <3>5. c(p) \in Seq(Blocks) /\ Len(c(p)) = l
      BY <3>2, <3>4, IsSeq
    <3> QED BY <3>3, <3>4, <3>5 DEF l
  <2> QED BY <2>1, <2>2
<1>6. DOMAIN f = D /\ \A p \in D : f[p] = c(p)
  BY <1>1
<1>7. n = -1 => D = {}
  OBVIOUS
<1>8. n # -1 => <<r, 0>> \in D
  BY PathFacts
<1>9. <<r, FsmPart>> \in D => n # -1 /\ "fsm" \in fk
  <2>1. LastSeg \in Nat
    BY PathFacts
  <2> QED BY <2>1 DEF FsmPart, InitPart, ForkPart
<1>10. n # -1 /\ "fsm" \in fk => <<r, FsmPart>> \in D
  BY DEF ForkPart
<1> HIDE DEF f, c, D, parts
<1>11. IsFiles(f)
  BY <1>3, <1>5, <1>6, FilesDef
<1>12. <<r, 0>>[2] = 0 /\ LastSeg \in Nat /\ SegBlocks \in Nat
  BY PathFacts
<1>13. n # -1 => <<r, 0>> \in DOMAIN f /\ Len(f[<<r, 0>>]) = Cardinality(InSeg(n, 0))
  BY <1>5, <1>6, <1>8, <1>12
<1>14. <<r, 0>> \in DOMAIN f =>
          \A i \in DOMAIN f[<<r, 0>>] : f[<<r, 0>>][i].data = "t" => i - 1 \in ch
  <2>1. ASSUME <<r, 0>> \in D, NEW i \in DOMAIN c(<<r, 0>>), c(<<r, 0>>)[i].data = "t" PROVE i - 1 \in ch
    <3>1. 0 * SegBlocks + i - 1 \in ch
      BY <1>5, <1>12, <2>1
    <3>2. DOMAIN c(<<r, 0>>) \subseteq Int
      <4>1. c(<<r, 0>>) \in Seq(Blocks)
        BY <1>5, <2>1
      <4> QED BY <4>1
    <3> QED BY <1>12, <2>1, <3>1, <3>2
  <2> QED BY <1>6, <2>1
<1>15. \A p \in DOMAIN f : p[1] = r /\ \A i \in DOMAIN f[p] : f[p][i].key = k
  BY <1>3, <1>5, <1>6
<1>16. ch = {} => \A p \in DOMAIN f : \A i \in DOMAIN f[p] : f[p][i] = Block(k, "c")
  BY <1>5, <1>6
<1> QED BY <1>6, <1>7, <1>9, <1>10, <1>11, <1>13, <1>14, <1>15, <1>16 DEF f, MadeFiles

LEMMA TogetherFacts ==
    ASSUME NEW g, \A r \in Rels : IsFiles(g[r]) /\ \A p \in DOMAIN g[r] : p[1] = r
    PROVE  LET t == Together({g[r] : r \in Rels}) IN
           /\ IsFiles(t) /\ IsFile(t)
           /\ \A p : p \in DOMAIN t <=> p[1] \in Rels /\ p \in DOMAIN g[p[1]]
           /\ \A p \in DOMAIN t : t[p] = g[p[1]][p]
<1> DEFINE fs == {g[r] : r \in Rels}
           D == UNION {DOMAIN f : f \in fs}
           t == Together(fs)
<1>1. t = [p \in D |-> (CHOOSE f \in fs : p \in DOMAIN f)[p]]
  BY DEF Together
<1>2. \A p : p \in D <=> p[1] \in Rels /\ p \in DOMAIN g[p[1]]
  <2>1. ASSUME NEW p \in D PROVE p[1] \in Rels /\ p \in DOMAIN g[p[1]]
    <3>1. PICK r \in Rels : p \in DOMAIN g[r]
      OBVIOUS
    <3> QED BY <3>1
  <2>2. ASSUME NEW p, p[1] \in Rels, p \in DOMAIN g[p[1]] PROVE p \in D
    BY <2>2
  <2> QED BY <2>1, <2>2
<1>3. ASSUME NEW p \in D PROVE (CHOOSE f \in fs : p \in DOMAIN f) = g[p[1]]
  <2>1. g[p[1]] \in fs /\ p \in DOMAIN g[p[1]]
    BY <1>2
  <2>2. \A f \in fs : p \in DOMAIN f => f = g[p[1]]
    OBVIOUS
  <2> HIDE DEF fs
  <2> QED BY <2>1, <2>2
<1> HIDE DEF D, fs, t
<1>4. DOMAIN t = D /\ IsFile(t) /\ \A p \in D : t[p] = g[p[1]][p]
  <2>1. DOMAIN t = D /\ IsFile(t)
    BY <1>1 DEF IsFile
  <2>2. \A p \in D : t[p] = (CHOOSE f \in fs : p \in DOMAIN f)[p]
    BY <1>1
  <2> QED BY <1>3, <2>1, <2>2
<1>5. \A p \in D : p \in Paths /\ t[p] \in Seq(Blocks)
  BY <1>2, <1>4, FilesDef
<1>6. IsFiles(t)
  BY <1>4, <1>5, FilesDef
<1> QED BY <1>2, <1>4, <1>6 DEF t, fs

\* The histories of the relations and of the WAL.
LEMMA DivergenceFacts ==
    ASSUME NEW d \in Divergences
    PROVE  /\ \A r \in Rels : HistoryOK(d[1][r], r)
           /\ d[2].src \subseteq 1 .. NWal /\ d[2].tgt \subseteq 1 .. NWal /\ d[2].fork \in 1 .. NWal
           /\ \A i \in d[2].src : i < d[2].fork
<1>1. CASE \E h \in [Rels -> UNION {Histories(r) : r \in Rels}] :
              (\A r \in Rels : h[r] \in Histories(r)) /\ d = <<h, PlainWal>>
  <2>1. PICK h : (\A r \in Rels : h[r] \in Histories(r)) /\ d = <<h, PlainWal>>
    BY <1>1
  <2>2. ASSUME NEW r \in Rels PROVE HistoryOK(h[r], r)
    <3>1. PICK x : x = h[r]
      OBVIOUS
    <3>2. x \in Histories(r)
      BY <2>1, <3>1
    <3>3. HistoryOK(x, r)
      BY <3>2 DEF Histories, HistoryOK
    <3> QED BY <3>1, <3>3
  <2>3. d[1] = h /\ d[2] = PlainWal
    BY <2>1
  <2>4. 1 \in 1 .. NWal
    BY PathFacts
  <2> QED BY <2>2, <2>3, <2>4 DEF PlainWal
<1>2. CASE \E v \in WalHistories : d = <<[r \in Rels |-> PlainHistory], v>>
  <2>1. PICK v \in WalHistories : d = <<[r \in Rels |-> PlainHistory], v>>
    BY <1>2
  <2>2. \A r \in Rels : HistoryOK(PlainHistory, r)
    <3>1. \A r \in Rels : 1 \in 1 .. MaxLen[r]
      <4>1. PICK top : top = (LastSeg + 1) * SegBlocks
        OBVIOUS
      <4>2. \A r \in Rels : MaxLen[r] \in 1 .. top
        BY <4>1, RewindAssumption
      <4>3. top \in Int
        BY <4>1, PathFacts
      <4> QED BY <4>2, <4>3
    <3>2. "src" # None /\ "tgt" # None
      BY NoneIsNoKey
    <3>3. /\ PlainHistory.n = 1 /\ PlainHistory.m = 1 /\ PlainHistory.fk = {} /\ PlainHistory.ch = {}
          /\ PlainHistory.sk = "src" /\ PlainHistory.tk = "tgt" /\ PlainHistory.new = FALSE
      BY DEF PlainHistory
    <3> HIDE DEF PlainHistory
    <3>4. \A r \in Rels : PlainHistory.n \in {-1} \cup 1 .. MaxLen[r] /\ PlainHistory.m \in {-1} \cup 1 .. MaxLen[r]
      BY <3>1, <3>3
    <3>5. /\ PlainHistory.sk \in {None, "src"} /\ PlainHistory.tk \in {None, "src", "tgt"}
          /\ PlainHistory.n # -1 /\ PlainHistory.m # -1 /\ PlainHistory.new \in BOOLEAN
          /\ PlainHistory.fk \subseteq Forks /\ PlainHistory.ch \subseteq 0 .. PlainHistory.m - 1
      <4>1. PlainHistory.sk \in {None, "src"} /\ PlainHistory.tk \in {None, "src", "tgt"}
        BY <3>3, Zenon
      <4>2. PlainHistory.n # -1 /\ PlainHistory.m # -1
        BY <3>3
      <4>3. PlainHistory.new \in BOOLEAN
        BY <3>3, Zenon
      <4>4. PlainHistory.fk \subseteq Forks /\ PlainHistory.ch \subseteq 0 .. PlainHistory.m - 1
        BY <3>3, Zenon
      <4> QED BY <4>1, <4>2, <4>3, <4>4
    <3>6. ~PlainHistory.new /\ PlainHistory.sk # None /\ PlainHistory.tk # None
      BY <3>2, <3>3
    <3> QED BY <3>4, <3>5, <3>6, Zenon DEF HistoryOK
  <2>3. d[2] = v /\ \A r \in Rels : d[1][r] = PlainHistory
    BY <2>1
  <2> QED BY <2>2, <2>3 DEF WalHistories
<1> QED BY <1>1, <1>2 DEF Divergences

\* The files and keys of the two clusters, by the history h of each relation.
Clusters(h) ==
    /\ skeys = [r \in Rels |-> KeyOf(h[r].sk, r)]
    /\ tkeys = [r \in Rels |-> KeyOf(h[r].tk, r)]
    /\ created = {r \in Rels : h[r].new}
    /\ \A p \in DOMAIN src : LET r == p[1] IN
          /\ r \in Rels /\ p \in DOMAIN FilesOf(r, h[r].n, skeys[r], h[r].fk, {})
          /\ src[p] = FilesOf(r, h[r].n, skeys[r], h[r].fk, {})[p]
    /\ \A p \in DOMAIN tgt : LET r == p[1] IN
          /\ r \in Rels /\ p \in DOMAIN FilesOf(r, h[r].m, tkeys[r], h[r].fk, h[r].ch)
          /\ tgt[p] = FilesOf(r, h[r].m, tkeys[r], h[r].fk, h[r].ch)[p]
    /\ \A r \in Rels : DOMAIN FilesOf(r, h[r].n, skeys[r], h[r].fk, {}) \subseteq DOMAIN src
    /\ \A r \in Rels : skeys[r] \in KeysMadeBy({"src"}) /\ tkeys[r] \in KeysMadeBy({"src", "tgt"})
    /\ \A r \in Rels : HistoryOK(h[r], r)
    /\ IsFiles(src) /\ IsFile(src) /\ IsFiles(tgt) /\ IsFile(tgt)
    /\ changed = {c \in (DOMAIN tgt) \X Pages :
                     IsRelFile(c[1]) /\ c[1][2] * SegBlocks + c[2] \in h[c[1][1]].ch}

LEMMA InitFacts ==
    ASSUME Init
    PROVE  /\ \E h : Clusters(h)
           /\ \E v : /\ wal = [src |-> [i \in v.src |-> v.skeys], tgt |-> [i \in v.tgt |-> v.tkeys],
                               fork |-> v.fork, skeys |-> v.skeys, tkeys |-> v.tkeys, restored |-> {}]
                     /\ v.src \subseteq 1 .. NWal /\ v.tgt \subseteq 1 .. NWal /\ v.fork \in 1 .. NWal
                     /\ \A i \in v.src : i < v.fork
<1>1. PICK d \in Divergences :
        /\ skeys = [r \in Rels |-> KeyOf(d[1][r].sk, r)]
        /\ tkeys = [r \in Rels |-> KeyOf(d[1][r].tk, r)]
        /\ src = Together({FilesOf(r, d[1][r].n, skeys[r], d[1][r].fk, {}) : r \in Rels})
        /\ tgt = Together({FilesOf(r, d[1][r].m, tkeys[r], d[1][r].fk, d[1][r].ch) : r \in Rels})
        /\ created = {r \in Rels : d[1][r].new}
        /\ changed = {c \in (DOMAIN tgt) \X (0 .. SegBlocks - 1) :
                         IsRelFile(c[1]) /\ c[1][2] * SegBlocks + c[2] \in d[1][c[1][1]].ch}
        /\ wal = [src |-> [i \in d[2].src |-> d[2].skeys], tgt |-> [i \in d[2].tgt |-> d[2].tkeys],
                  fork |-> d[2].fork, skeys |-> d[2].skeys, tkeys |-> d[2].tkeys, restored |-> {}]
  BY DEF Init
<1> DEFINE h == d[1]
           fs == [r \in Rels |-> FilesOf(r, h[r].n, skeys[r], h[r].fk, {})]
           ft == [r \in Rels |-> FilesOf(r, h[r].m, tkeys[r], h[r].fk, h[r].ch)]
<1>2. \A r \in Rels : HistoryOK(h[r], r)
  BY DivergenceFacts
<1> HIDE DEF h
<1>3. \A r \in Rels : /\ skeys[r] \in KeysMadeBy({"src"}) /\ tkeys[r] \in KeysMadeBy({"src", "tgt"})
                      /\ skeys[r] \in FileKeys /\ tkeys[r] \in FileKeys
  <2>1. ASSUME NEW r \in Rels
        PROVE  KeyOf(h[r].sk, r) \in KeysMadeBy({"src"}) /\ KeyOf(h[r].tk, r) \in KeysMadeBy({"src", "tgt"})
    <3>1. h[r].sk \in {None, "src"} /\ h[r].tk \in {None, "src", "tgt"}
      BY <1>2 DEF HistoryOK
    <3>2. KeysMadeBy({"tgt"}) \subseteq KeysMadeBy({"src", "tgt"})
      BY DEF KeysMadeBy
    <3> QED BY <3>1, <3>2, KeyFacts
  <2> QED BY <1>1, <2>1, KeyFacts DEF h
<1>4. \A r \in Rels : h[r].n \in Int /\ h[r].m \in Int /\ h[r].fk \subseteq Forks
  BY <1>2 DEF HistoryOK
<1>5. \A r \in Rels : /\ fs[r] = FilesOf(r, h[r].n, skeys[r], h[r].fk, {})
                      /\ ft[r] = FilesOf(r, h[r].m, tkeys[r], h[r].fk, h[r].ch)
  OBVIOUS
<1>6. \A r \in Rels : IsFiles(fs[r]) /\ \A p \in DOMAIN fs[r] : p[1] = r
  <2> HIDE DEF fs
  <2>1. ASSUME NEW r \in Rels PROVE MadeFiles(fs[r], r, h[r].n, skeys[r], h[r].fk, {})
    BY <1>3, <1>4, <1>5, FilesOfFacts
  <2> QED BY <2>1 DEF MadeFiles
<1>7. \A r \in Rels : IsFiles(ft[r]) /\ \A p \in DOMAIN ft[r] : p[1] = r
  <2> HIDE DEF ft
  <2>1. ASSUME NEW r \in Rels PROVE MadeFiles(ft[r], r, h[r].m, tkeys[r], h[r].fk, h[r].ch)
    BY <1>3, <1>4, <1>5, FilesOfFacts
  <2> QED BY <2>1 DEF MadeFiles
<1>8. src = Together({fs[r] : r \in Rels}) /\ tgt = Together({ft[r] : r \in Rels})
  <2>1. {fs[r] : r \in Rels} = {FilesOf(r, h[r].n, skeys[r], h[r].fk, {}) : r \in Rels}
    BY <1>5, Zenon
  <2>2. {ft[r] : r \in Rels} = {FilesOf(r, h[r].m, tkeys[r], h[r].fk, h[r].ch) : r \in Rels}
    BY <1>5, Zenon
  <2> QED BY <1>1, <2>1, <2>2 DEF h
<1> HIDE DEF fs, ft
<1>9. /\ IsFiles(src) /\ IsFile(src)
      /\ \A p : p \in DOMAIN src <=> p[1] \in Rels /\ p \in DOMAIN fs[p[1]]
      /\ \A p \in DOMAIN src : src[p] = fs[p[1]][p]
  BY <1>6, <1>8, TogetherFacts
<1>10. /\ IsFiles(tgt) /\ IsFile(tgt)
       /\ \A p : p \in DOMAIN tgt <=> p[1] \in Rels /\ p \in DOMAIN ft[p[1]]
       /\ \A p \in DOMAIN tgt : tgt[p] = ft[p[1]][p]
  BY <1>7, <1>8, TogetherFacts
<1>11. \A r \in Rels : DOMAIN fs[r] \subseteq DOMAIN src
  BY <1>6, <1>9
<1>12. Clusters(h)
  <2>1. /\ skeys = [r \in Rels |-> KeyOf(h[r].sk, r)] /\ tkeys = [r \in Rels |-> KeyOf(h[r].tk, r)]
        /\ created = {r \in Rels : h[r].new}
        /\ changed = {c \in (DOMAIN tgt) \X Pages :
                     IsRelFile(c[1]) /\ c[1][2] * SegBlocks + c[2] \in h[c[1][1]].ch}
    BY <1>1 DEF h, Pages
  <2>2. ASSUME NEW p \in DOMAIN src
        PROVE  LET r == p[1] IN
               /\ r \in Rels /\ p \in DOMAIN FilesOf(r, h[r].n, skeys[r], h[r].fk, {})
               /\ src[p] = FilesOf(r, h[r].n, skeys[r], h[r].fk, {})[p]
    BY <1>5, <1>9
  <2>3. ASSUME NEW p \in DOMAIN tgt
        PROVE  LET r == p[1] IN
               /\ r \in Rels /\ p \in DOMAIN FilesOf(r, h[r].m, tkeys[r], h[r].fk, h[r].ch)
               /\ tgt[p] = FilesOf(r, h[r].m, tkeys[r], h[r].fk, h[r].ch)[p]
    BY <1>5, <1>10
  <2>4. \A r \in Rels : DOMAIN FilesOf(r, h[r].n, skeys[r], h[r].fk, {}) \subseteq DOMAIN src
    BY <1>5, <1>11
  <2> QED BY <1>2, <1>3, <1>9, <1>10, <2>1, <2>2, <2>3, <2>4, Zenon DEF Clusters
<1>13. /\ d[2].src \subseteq 1 .. NWal /\ d[2].tgt \subseteq 1 .. NWal /\ d[2].fork \in 1 .. NWal
       /\ \A i \in d[2].src : i < d[2].fork
  BY DivergenceFacts
<1> QED BY <1>1, <1>12, <1>13, Zenon

LEMMA InitSafe ==
    ASSUME Init
    PROVE  Typed /\ SafeInv
<1>1. PICK h : Clusters(h)
  BY InitFacts
<1>2. PICK v : /\ wal = [src |-> [i \in v.src |-> v.skeys], tgt |-> [i \in v.tgt |-> v.tkeys],
                         fork |-> v.fork, skeys |-> v.skeys, tkeys |-> v.tkeys, restored |-> {}]
               /\ v.src \subseteq 1 .. NWal /\ v.tgt \subseteq 1 .. NWal /\ v.fork \in 1 .. NWal
               /\ \A i \in v.src : i < v.fork
  BY InitFacts
<1>3. /\ mode \in Modes /\ cap \in Queues
      /\ step = "start" /\ filemap = {} /\ tmp = [r \in Rels |-> None]
      /\ cur = NoFile /\ queue = <<>> /\ want = NoRange
      /\ fetching = FALSE /\ split = FALSE
  BY DEF Init
<1>4. /\ IsFiles(src) /\ IsFile(src) /\ IsFiles(tgt) /\ IsFile(tgt)
      /\ skeys = [r \in Rels |-> KeyOf(h[r].sk, r)] /\ tkeys = [r \in Rels |-> KeyOf(h[r].tk, r)]
      /\ created = {r \in Rels : h[r].new}
      /\ \A r \in Rels : /\ skeys[r] \in KeysMadeBy({"src"}) /\ tkeys[r] \in KeysMadeBy({"src", "tgt"})
                         /\ HistoryOK(h[r], r)
  BY <1>1 DEF Clusters
<1>5. \A r \in Rels : h[r].n \in Int /\ h[r].m \in Int /\ h[r].fk \subseteq Forks
  BY <1>4 DEF HistoryOK
<1>6. \A r \in Rels : skeys[r] \in FileKeys \ {Garbled} /\ tkeys[r] \in FileKeys \ {Garbled}
  BY <1>4, KeyFacts
<1>7. \A r \in Rels : /\ MadeFiles(FilesOf(r, h[r].n, skeys[r], h[r].fk, {}), r, h[r].n, skeys[r], h[r].fk, {})
                      /\ MadeFiles(FilesOf(r, h[r].m, tkeys[r], h[r].fk, h[r].ch),
                                   r, h[r].m, tkeys[r], h[r].fk, h[r].ch)
  BY <1>5, <1>6, FilesOfFacts
<1>8. WalRec
  <2>1. IsFile([i \in v.src |-> v.skeys]) /\ IsFile([i \in v.tgt |-> v.tkeys])
    BY DEF IsFile
  <2> QED BY <1>2, <2>1 DEF WalRec
<1>9. Fixed
  <2>1. \A c \in changed : c[1] \in Paths /\ IsRelFile(c[1]) /\ c[2] \in Pages /\ c = <<c[1], c[2]>>
    BY <1>1, <1>4, FilesDef DEF Clusters
  <2>2. changed \subseteq {p \in Paths : IsRelFile(p)} \X Pages
    BY <2>1
  <2> QED BY <1>3, <1>4, <2>2 DEF Fixed
<1>10. KeyTypes
  <2>1. skeys \in [Rels -> KeysMadeBy({"src"})] /\ tkeys \in [Rels -> KeysMadeBy({"src", "tgt"})]
    BY <1>4
  <2>2. tmp \in [Rels -> KeysMadeBy({"src", "tgt"})]
    BY <1>3, KeyFacts
  <2>3. tkeys \in [Rels -> KeysMadeBy({"src", "tgt", "new"})]
    BY <2>1, KeyFacts
  <2> QED BY <1>3, <2>1, <2>2, <2>3 DEF KeyTypes
<1>11. WorkTypes
  <2>1. cap \in Nat
    BY <1>3, PathFacts
  <2> QED BY <1>3, <2>1 DEF WorkTypes
<1>12. Typed
  BY <1>4, <1>8, <1>9, <1>10, <1>11 DEF Typed
<1>13. SourceBlocks
  <2>1. ASSUME NEW p \in DOMAIN src PROVE \A i \in DOMAIN src[p] : src[p][i] = Block(skeys[p[1]], "c")
    <3>1. PICK r : r = p[1]
      OBVIOUS
    <3>2. PICK f : f = FilesOf(r, h[r].n, skeys[r], h[r].fk, {})
      OBVIOUS
    <3>3. r \in Rels /\ p \in DOMAIN f /\ src[p] = f[p]
      BY <1>1, <3>1, <3>2 DEF Clusters
    <3>4. MadeFiles(f, r, h[r].n, skeys[r], h[r].fk, {})
      BY <1>7, <3>2, <3>3
    <3>5. \A q \in DOMAIN f : \A i \in DOMAIN f[q] : f[q][i] = Block(skeys[r], "c")
      BY <3>4 DEF MadeFiles
    <3> QED BY <3>1, <3>3, <3>5
  <2> QED BY <2>1 DEF SourceBlocks
<1>14. NotGarbled
  <2>1. ASSUME NEW p \in DOMAIN tgt PROVE \A i \in DOMAIN tgt[p] : tgt[p][i].key # Garbled
    <3>1. PICK r : r = p[1]
      OBVIOUS
    <3>2. PICK f : f = FilesOf(r, h[r].m, tkeys[r], h[r].fk, h[r].ch)
      OBVIOUS
    <3>3. r \in Rels /\ p \in DOMAIN f /\ tgt[p] = f[p]
      BY <1>1, <3>1, <3>2 DEF Clusters
    <3>4. MadeFiles(f, r, h[r].m, tkeys[r], h[r].fk, h[r].ch)
      BY <1>7, <3>2, <3>3
    <3>5. \A q \in DOMAIN f : \A i \in DOMAIN f[q] : f[q][i].key = tkeys[r]
      BY <3>4 DEF MadeFiles
    <3> QED BY <1>6, <3>3, <3>5
  <2> QED BY <2>1 DEF NotGarbled
<1>15. ASSUME NEW r \in Rels, ~OnSource(r) PROVE skeys[r] = None
  <2>1. PICK f : f = FilesOf(r, h[r].n, skeys[r], h[r].fk, {})
    OBVIOUS
  <2>2. DOMAIN f \subseteq DOMAIN src
    BY <1>1, <2>1 DEF Clusters
  <2>3. MadeFiles(f, r, h[r].n, skeys[r], h[r].fk, {})
    BY <1>7, <2>1
  <2>4. h[r].n = -1
    <3>1. h[r].n # -1 => <<r, 0>> \in DOMAIN src
      BY <2>2, <2>3 DEF MadeFiles
    <3> QED BY <1>15, <3>1 DEF OnSource
  <2>5. h[r].sk = None
    BY <1>4, <2>4 DEF HistoryOK
  <2> QED BY <1>4, <2>5 DEF KeyOf
<1>16. SafeInv
  BY <1>3, <1>13, <1>14, <1>15 DEF SafeInv
<1> QED BY <1>12, <1>16

-----------------------------------------------------------------------------
(* The two clusters and the work are what they should be.                  *)

LEMMA NextSafe ==
    ASSUME Typed, SafeInv, [Next]_vars
    PROVE  Typed' /\ SafeInv'
<1>1. CASE FetchTdeKeys
  BY <1>1, FetchTdeKeysSafe
<1>2. CASE BuildFilemap
  BY <1>2, BuildFilemapSafe
<1>3. CASE PerformEntry
  <2>1. Performing
    BY <1>3 DEF PerformEntry, Ready, Performing
  <2> QED BY <1>3, <2>1, PerformEntrySafe
<1>4. CASE QueueRest
  <2>1. Performing
    BY <1>4 DEF QueueRest, Performing
  <2> QED BY <1>4, <2>1, QueueRestSafe
<1>5. CASE ProcessRow
  <2>1. Performing /\ UNCHANGED source
    BY <1>5 DEF ProcessRow, Done, Ready, Performing
  <2> QED BY <1>5, <2>1, ProcessRowSafe
<1>6. CASE FinishFetch
  <2>1. Performing
    BY <1>6 DEF FinishFetch, Done, Ready, Performing
  <2> QED BY <1>6, <2>1, FinishFetchSafe
<1>7. CASE InstallKeys
  BY <1>7, InstallKeysSafe
<1>8. CASE Replay
  BY <1>8, ReplaySafe
<1>9. CASE \E r \in Rels, s \in {None, "src"} : SourceCreates(r, KeyOf(s, r))
  <2>1. PICK r \in Rels, s \in {None, "src"} : SourceCreates(r, KeyOf(s, r))
    BY <1>9
  <2>2. KeyOf(s, r) \in KeysMadeBy({"src"})
    BY KeyFacts
  <2> QED BY <2>1, <2>2, SourceCreatesSafe
<1>10. CASE \E r \in Rels : SourceDrops(r)
  <2>1. PICK r \in Rels : SourceDrops(r)
    BY <1>10
  <2>2. Performing
    BY <2>1 DEF SourceDrops, Performing
  <2> QED BY <2>1, <2>2, SourceDropsSafe
<1>11. CASE UNCHANGED vars
  <2>1. Typed'
    BY <1>11 DEF vars, Typed, Fixed, KeyTypes, WorkTypes, WalRec
  <2>2. SafeInv'
    BY <1>11 DEF vars, SafeInv, SourceBlocks, NotGarbled, OnSource, WorkInv, KeysInv, EntryOK,
                 RowsOK, RowOK, WantOK, RequestOK, Reached, Here, Asked
  <2> QED BY <2>1, <2>2
<1> QED BY <1>1, <1>2, <1>3, <1>4, <1>5, <1>6, <1>7, <1>8, <1>9, <1>10, <1>11 DEF Next

\* Whatever the two clusters hold, the entries of the file map and the requests
\* stay true of the source's files, and every block is under one key.
THEOREM WorkSafe == Spec => [](Typed /\ SafeInv)
<1>1. Init => Typed /\ SafeInv
  BY InitSafe
<1>2. Typed /\ SafeInv /\ [Next]_vars => (Typed /\ SafeInv)'
  BY NextSafe
<1> QED BY <1>1, <1>2, PTL DEF Spec

LEMMA TypedTypeOK ==
    ASSUME Typed
    PROVE  TypeOK
<1>1. Fixed /\ KeyTypes /\ WorkTypes /\ WalRec /\ IsFiles(src) /\ IsFiles(tgt)
  BY DEF Typed
<1>2. changed \subseteq Paths \X (0 .. SegBlocks - 1)
  BY <1>1 DEF Fixed, Pages
<1>3. cur = NoFile \/ (cur.path \in Paths /\ cur.sk # None)
  BY <1>1 DEF KeyTypes, Files
<1> QED BY <1>1, <1>2, <1>3 DEF TypeOK, Fixed, KeyTypes, WorkTypes, WalRec

\* However the requests are cut, merged and delayed, and whatever the source
\* creates and drops meanwhile, no block of a main fork is encrypted over
\* ciphertext: write_target_range(), the free space map's flush and the
\* truncation leave each under one server's key.
THEOREM OneKeyPerBlock == Spec => []NeverEncryptedTwice
<1>1. Typed /\ SafeInv => NeverEncryptedTwice
  BY TypedTypeOK DEF SafeInv, NotGarbled, NeverEncryptedTwice
<1> QED BY <1>1, WorkSafe, PTL

-----------------------------------------------------------------------------
(* WAL segments.                                                           *)

WalFixed ==
    /\ wal'.src = wal.src /\ wal'.fork = wal.fork /\ wal'.skeys = wal.skeys
    /\ wal'.tkeys = wal.tkeys /\ wal'.restored = wal.restored

\* Encrypting twice with one keystream gives the content back.
LEMMA CryptFacts ==
    /\ \A k : CryptWal(k, k) = {}
    /\ EnsureWalSeg(wal.tkeys) = wal.skeys
<1>1. \A k : CryptWal(k, k) = {}
  BY DEF CryptWal
<1>2. \A k : CryptWal({}, k) = k
  BY DEF CryptWal
<1> QED BY <1>1, <1>2 DEF EnsureWalSeg

\* A step that leaves the segments alone, and what is to be done with them.
LEMMA WalKept ==
    ASSUME WalWork, wal' = wal,
           \A e \in filemap' : e.path \in WalPaths => e \in filemap,
           \A p \in WalPaths : EntryOf(p) \/ Asked(p) => EntryOf(p)' \/ Asked(p)',
           \A p \in WalPaths : Asked(p)' => Asked(p) \/ p[2] \in DOMAIN wal.src,
           WalRec
    PROVE  WalWork'
<1>1. \A i \in 1 .. NWal : <<WalDir, i>> \in WalPaths /\ <<WalDir, i>>[2] = i
  BY PathFacts
<1>2. KeepWal' = KeepWal /\ Archived' = Archived
  BY DEF KeepWal, Archived
<1>3. (KeepWal \subseteq DOMAIN wal.tgt)'
  BY <1>2 DEF WalWork
<1>4. (\A e \in filemap : WalEntryOK(e))'
  BY <1>2 DEF WalWork, WalEntryOK
<1>5. (\A i \in 1 .. NWal : Asked(<<WalDir, i>>) => i \in DOMAIN wal.src)'
  BY <1>1 DEF WalWork
<1>6. ASSUME NEW i \in DOMAIN wal.tgt PROVE SegmentOK(i)'
  <2>1. i \in 1 .. NWal
    BY DEF WalRec
  <2>2. SegmentOK(i)
    BY DEF WalWork
  <2> QED BY <1>1, <1>2, <2>1, <2>2 DEF SegmentOK
<1> QED BY <1>3, <1>4, <1>5, <1>6 DEF WalWork

\* A step that brings segment i under the source's keys, or removes it.
LEMMA WalDone ==
    ASSUME WalWork, WalFixed, NEW i \in 1 .. NWal,
           \/ /\ i \in KeepWal /\ DOMAIN wal'.tgt = DOMAIN wal.tgt \cup {i}
              /\ wal'.tgt[i] = wal.skeys
           \/ i \notin KeepWal /\ DOMAIN wal'.tgt = DOMAIN wal.tgt \ {i},
           \A j \in DOMAIN wal.tgt : j # i => wal'.tgt[j] = wal.tgt[j],
           \A e \in filemap' : e.path \in WalPaths => e \in filemap /\ e.path # <<WalDir, i>>,
           \A p \in WalPaths : p # <<WalDir, i>> => (EntryOf(p) \/ Asked(p) => EntryOf(p)' \/ Asked(p)'),
           \A p \in WalPaths : Asked(p)' => Asked(p),
           WalRec
    PROVE  WalWork'
<1>1. \A j \in 1 .. NWal : <<WalDir, j>> \in WalPaths /\ <<WalDir, j>>[2] = j
  BY PathFacts
<1>2. KeepWal' = KeepWal /\ Archived' = Archived
  BY DEF KeepWal, Archived, WalFixed
<1>3. (KeepWal \subseteq DOMAIN wal.tgt)'
  BY <1>2 DEF WalWork
<1>4. ASSUME NEW e \in filemap' PROVE WalEntryOK(e)'
  <2>1. CASE e.path \in WalPaths
    <3>1. e.path = <<WalDir, e.path[2]>> /\ e.path[2] # i /\ e \in filemap
      BY <2>1, PathFacts
    <3>2. WalEntryOK(e)
      BY <3>1 DEF WalWork
    <3> QED BY <1>2, <3>1, <3>2 DEF WalEntryOK, WalFixed
  <2> QED BY <2>1 DEF WalEntryOK
<1>5. (\A j \in 1 .. NWal : Asked(<<WalDir, j>>) => j \in DOMAIN wal.src)'
  BY <1>1 DEF WalWork, WalFixed
<1>6. ASSUME NEW j \in DOMAIN wal'.tgt PROVE SegmentOK(j)'
  <2>1. CASE j = i
    BY <1>2, <2>1 DEF SegmentOK, WalFixed
  <2>2. CASE j # i
    <3>1. j \in DOMAIN wal.tgt /\ wal'.tgt[j] = wal.tgt[j]
      BY <2>2
    <3>2. j \in 1 .. NWal
      BY <3>1 DEF WalRec
    <3>3. SegmentOK(j)
      BY <3>1 DEF WalWork
    <3>4. <<WalDir, j>> # <<WalDir, i>>
      BY <2>2
    <3> QED BY <1>1, <1>2, <3>1, <3>2, <3>3, <3>4 DEF SegmentOK, WalFixed
  <2> QED BY <2>1, <2>2
<1> QED BY <1>3, <1>4, <1>5, <1>6 DEF WalWork

\* A request for a relation's file or a WAL segment.
LEMMA QueueRestWal ==
    ASSUME Performing, WalWork, QueueRest
    PROVE  WalWork'
<1>1. /\ want # NoRange /\ QueueRange(want.path, want.encrypt, want.off, want.len)
      /\ wal' = wal /\ filemap' = filemap /\ cap' = cap
  BY DEF QueueRest, source
<1>2. PICK rq \in Requests : rq = want
  BY <1>1, PerformingFacts DEF WorkTypes
<1>3. rq.path \in Paths \cup WalPaths /\ rq.encrypt \in BOOLEAN /\ rq.off \in Nat /\ rq.len \in Nat \ {0}
  BY DEF Requests
<1>4. QueueRange(rq.path, rq.encrypt, rq.off, rq.len)
  BY <1>1, <1>2
<1>5. \A p \in Paths \cup WalPaths : Asked(p)' <=> Asked(p) \/ p = rq.path
  BY <1>1, <1>2, <1>3, <1>4, PerformingFacts, QueueAsks
<1>6. Asked(rq.path)
  BY <1>2 DEF Asked
<1>7. \A p \in WalPaths : Asked(p)' <=> Asked(p)
  BY <1>5, <1>6
<1>8. WalRec
  BY DEF Performing, Typed
<1> QED BY <1>1, <1>7, <1>8, WalKept DEF EntryOf

LEMMA ProcessRowWal ==
    ASSUME Performing, WalWork, SourceWal, ProcessRow
    PROVE  WalWork'
<1>1. queue # <<>> /\ queue' = Tail(queue) /\ want' = want /\ filemap' = filemap
  BY DEF ProcessRow
<1>2. PICK rq : rq = Head(queue)
  OBVIOUS
<1>3. /\ rq \in Requests /\ rq = queue[1] /\ 1 \in DOMAIN queue
      /\ \A p : Asked(p)' => Asked(p)
      /\ \A p : Asked(p) => Asked(p)' \/ rq.path = p
  BY <1>1, <1>2, PerformingFacts, PopFacts
<1>4. WalRec
  BY DEF Performing, Typed
<1>5. CASE IsWal(rq.path)
  <2>1. rq.path \in WalPaths
    BY <1>3, <1>5, PathFacts DEF Requests
  <2>2. PICK i \in 1 .. NWal : rq.path = <<WalDir, i>> /\ rq.path[2] = i
    BY <2>1 DEF WalPaths
  <2>3. CopyWal(i)
    BY <1>2, <1>5, <2>2 DEF ProcessRow
  <2>4. Asked(rq.path)
    BY <1>3 DEF Asked
  <2>5. i \in DOMAIN wal.src
    BY <2>2, <2>4 DEF WalWork
  <2>6. /\ WalFixed /\ DOMAIN wal'.tgt = DOMAIN wal.tgt \cup {i} /\ wal'.tgt[i] = wal.skeys
        /\ \A j \in DOMAIN wal.tgt : j # i => wal'.tgt[j] = wal.tgt[j]
        /\ i \in KeepWal
    BY <1>4, <2>3, <2>5, WalCopied DEF WalFixed, SourceWal
  <2>7. \A e \in filemap : e.path \in WalPaths => e.path # <<WalDir, i>>
    <3>1. ASSUME NEW e \in filemap, e.path \in WalPaths PROVE e.left = e.pages
      BY <3>1, PerformingFacts DEF EntryOK, Patching
    <3>2. \A e \in filemap : e.left = e.pages => ~Asked(e.path)
      BY PerformingFacts DEF WorkInv
    <3> QED BY <2>2, <2>4, <3>1, <3>2
  <2>8. \A e \in filemap' : e.path \in WalPaths => e \in filemap /\ e.path # <<WalDir, i>>
    BY <1>1, <2>7
  <2>9. \A p \in WalPaths : p # <<WalDir, i>> => (EntryOf(p) \/ Asked(p) => EntryOf(p)' \/ Asked(p)')
    BY <1>1, <1>3, <2>2 DEF EntryOf
  <2>10. \A p \in WalPaths : Asked(p)' => Asked(p)
    BY <1>3
  <2> QED BY <1>4, <2>6, <2>8, <2>9, <2>10, WalDone
<1>6. CASE ~IsWal(rq.path)
  <2>1. wal' = wal
    BY <1>2, <1>6 DEF ProcessRow
  <2>2. \A p \in WalPaths : p # rq.path
    BY <1>6, PathFacts
  <2>3. \A p \in WalPaths : EntryOf(p) \/ Asked(p) => EntryOf(p)' \/ Asked(p)'
    BY <1>1, <1>3, <2>2 DEF EntryOf
  <2>4. \A e \in filemap' : e.path \in WalPaths => e \in filemap
    BY <1>1
  <2>5. \A p \in WalPaths : Asked(p)' => Asked(p) \/ p[2] \in DOMAIN wal.src
    BY <1>3
  <2> QED BY <1>4, <2>1, <2>3, <2>4, <2>5, WalKept
<1> QED BY <1>5, <1>6

\* A range of a relation's file is asked for, or written.
LEMMA FetchRangeAsks ==
    ASSUME Performing, Ready, cap' = cap, NEW path \in Paths, NEW off \in Nat, NEW len \in Nat \ {0},
           QueueFetchRange(path, off, len)
    PROVE  \A p \in WalPaths : Asked(p)' <=> Asked(p)
<1>1. CASE UNCHANGED requests
  BY <1>1 DEF requests, Asked
<1>2. CASE QueueRange(path, TRUE, off, len)
  <2>1. want = NoRange
    BY DEF Ready
  <2>2. \A p \in Paths \cup WalPaths : Asked(p)' <=> Asked(p) \/ p = path
    BY <1>2, <2>1, PerformingFacts, QueueAsks
  <2>3. \A p \in WalPaths : p # path
    BY PathFacts
  <2> QED BY <2>2, <2>3
<1> QED BY <1>1, <1>2 DEF QueueFetchRange

\* An entry of a relation's file is performed.
LEMMA RelationEntryWal ==
    ASSUME Performing, WalWork, wal' = wal, NEW e \in filemap, e.path \in Paths,
           \A f \in filemap' : f \in filemap \/ f.path = e.path,
           \A f \in filemap : f # e => f \in filemap',
           \A p \in WalPaths : Asked(p)' <=> Asked(p)
    PROVE  WalWork'
<1>1. \A p \in WalPaths : p # e.path
  BY PathFacts
<1>2. \A f \in filemap' : f.path \in WalPaths => f \in filemap
  BY <1>1
<1>3. \A p \in WalPaths : EntryOf(p) => EntryOf(p)'
  <2>1. ASSUME NEW p \in WalPaths, EntryOf(p) PROVE EntryOf(p)'
    <3>1. PICK f \in filemap : f.path = p
      BY <2>1 DEF EntryOf
    <3>2. f \in filemap'
      BY <1>1, <3>1
    <3> QED BY <3>1, <3>2 DEF EntryOf
  <2> QED BY <2>1
<1>4. WalRec
  BY DEF Performing, Typed
<1> QED BY <1>2, <1>3, <1>4, WalKept

\* What the entry of a WAL segment does.
LEMMA WalEntryFacts ==
    ASSUME Performing, WalWork, NEW e \in filemap, e.path \in WalPaths
    PROVE  /\ \E i \in 1 .. NWal : e.path = <<WalDir, i>> /\ e.path[2] = i /\ IsWal(e.path)
           /\ e.action \in {"COPY", "ENSURE_WAL_SEG", "REMOVE"} /\ e.left = {} /\ ~Asked(e.path)
           /\ e.action = "COPY" => e.path[2] \in DOMAIN wal.src
           /\ e.action = "ENSURE_WAL_SEG" => e.path[2] \in KeepWal
           /\ e.action = "REMOVE" => e.path[2] \notin KeepWal
           /\ e.path[2] \in DOMAIN wal.tgt /\ wal.tgt[e.path[2]] = wal.tkeys
<1>1. PICK i \in 1 .. NWal : e.path = <<WalDir, i>> /\ e.path[2] = i
  BY DEF WalPaths
<1>2. EntryOK(e) /\ (e.left = e.pages => ~Asked(e.path)) /\ IsWal(e.path)
  BY PerformingFacts, PathFacts DEF WorkInv
<1>3. WalEntryOK(e)
  BY DEF WalWork
<1>4. e.action \in {"COPY", "ENSURE_WAL_SEG", "REMOVE"} /\ e.left = {} /\ e.pages = {}
  BY <1>2 DEF EntryOK, Patching
<1> QED BY <1>1, <1>2, <1>3, <1>4 DEF WalEntryOK

LEMMA OtherEntries ==
    ASSUME Performing, NEW e \in filemap, filemap' = filemap \ {e}
    PROVE  /\ \A f \in filemap' : f.path \in WalPaths => f \in filemap /\ f.path # e.path
           /\ \A p \in WalPaths : p # e.path /\ EntryOf(p) => EntryOf(p)'
<1>1. \A f \in filemap' : f \in filemap /\ f.path # e.path
  BY PerformingFacts DEF WorkTypes
<1>2. ASSUME NEW p \in WalPaths, p # e.path, EntryOf(p) PROVE EntryOf(p)'
  <2>1. PICK f \in filemap : f.path = p
    BY <1>2 DEF EntryOf
  <2>2. f \in filemap'
    BY <1>2, <2>1
  <2> QED BY <2>1, <2>2 DEF EntryOf
<1> QED BY <1>1, <1>2

LEMMA WalActionWal ==
    ASSUME Performing, WalWork, SourceWal, Ready, cap' = cap, NEW e \in filemap, e.path \in WalPaths,
           filemap' = filemap \ {e}, EnsureWal(e) \/ Copy(e) \/ Remove(e)
    PROVE  WalWork'
<1>1. PICK i \in 1 .. NWal : e.path = <<WalDir, i>> /\ e.path[2] = i /\ IsWal(e.path)
  BY WalEntryFacts
<1>2. i \in DOMAIN wal.tgt /\ wal.tgt[i] = wal.tkeys
  BY <1>1, WalEntryFacts
<1>3. WalRec
  BY DEF Performing, Typed
<1>4. /\ \A f \in filemap' : f.path \in WalPaths => f \in filemap /\ f.path # <<WalDir, i>>
      /\ \A p \in WalPaths : p # <<WalDir, i>> /\ EntryOf(p) => EntryOf(p)'
  BY <1>1, OtherEntries
<1>5. ASSUME requests' = requests PROVE \A p : Asked(p)' <=> Asked(p)
  BY <1>5 DEF requests, Asked
<1>6. CASE EnsureWal(e)
  <2> DEFINE f == [wal.tgt EXCEPT ![i] = EnsureWalSeg(@)]
  <2>1. wal' = [wal EXCEPT !.tgt = f] /\ e.action = "ENSURE_WAL_SEG" /\ requests' = requests
    BY <1>1, <1>6 DEF EnsureWal
  <2>2. i \in KeepWal
    BY <1>1, <2>1, WalEntryFacts
  <2>3. /\ DOMAIN f = DOMAIN wal.tgt /\ IsFile(f) /\ f[i] = wal.skeys
        /\ \A j \in DOMAIN wal.tgt : j # i => f[j] = wal.tgt[j]
    BY <1>2, CryptFacts DEF IsFile
  <2>4. DOMAIN f \subseteq 1 .. NWal
    BY <1>3, <2>3 DEF WalRec
  <2> HIDE DEF f
  <2>5. WalFixed /\ wal'.tgt = f
    BY <1>3, <2>1, <2>3, <2>4, WalPut DEF WalFixed
  <2>6. DOMAIN wal'.tgt = DOMAIN wal.tgt \cup {i}
    BY <1>2, <2>3, <2>5
  <2> QED BY <1>3, <1>4, <1>5, <2>1, <2>2, <2>3, <2>5, <2>6, WalDone
<1>7. CASE Remove(e)
  <2> DEFINE f == Without(wal.tgt, i)
  <2>1. wal' = [wal EXCEPT !.tgt = f] /\ e.action = "REMOVE" /\ requests' = requests
    BY <1>1, <1>7 DEF Remove
  <2>2. i \notin KeepWal
    BY <1>1, <2>1, WalEntryFacts
  <2>3. /\ DOMAIN f = DOMAIN wal.tgt \ {i} /\ IsFile(f)
        /\ \A j \in DOMAIN wal.tgt : j # i => f[j] = wal.tgt[j]
    BY DEF IsFile, Without
  <2>4. DOMAIN f \subseteq 1 .. NWal
    BY <1>3, <2>3 DEF WalRec
  <2> HIDE DEF f
  <2>5. WalFixed /\ wal'.tgt = f
    BY <1>3, <2>1, <2>3, <2>4, WalPut DEF WalFixed
  <2> QED BY <1>3, <1>4, <1>5, <2>1, <2>2, <2>3, <2>5, WalDone
<1>8. CASE Copy(e)
  <2>1. e.action = "COPY" /\ QueueFetchFile(e.path, e.ssize)
    BY <1>8 DEF Copy
  <2>2. i \in DOMAIN wal.src /\ i \in KeepWal /\ wal.src[i] = wal.skeys
    BY <1>1, <2>1, WalEntryFacts DEF SourceWal
  <2>3. CASE CopyWal(i) /\ requests' = requests
    <3>1. /\ WalFixed /\ DOMAIN wal'.tgt = DOMAIN wal.tgt \cup {i} /\ wal'.tgt[i] = wal.skeys
          /\ \A j \in DOMAIN wal.tgt : j # i => wal'.tgt[j] = wal.tgt[j]
      BY <1>3, <2>2, <2>3, WalCopied DEF WalFixed
    <3> QED BY <1>3, <1>4, <1>5, <2>2, <2>3, <3>1, WalDone
  <2>4. CASE wal' = wal /\ \E n \in Nat \ {0} : QueueRange(e.path, FALSE, 0, n)
    <3>1. PICK n \in Nat \ {0} : QueueRange(e.path, FALSE, 0, n)
      BY <2>4
    <3>2. want = NoRange
      BY DEF Ready
    <3>3. \A p \in Paths \cup WalPaths : Asked(p)' <=> Asked(p) \/ p = e.path
      BY <3>1, <3>2, PerformingFacts, QueueAsks
    <3>4. \A p \in WalPaths : EntryOf(p) \/ Asked(p) => EntryOf(p)' \/ Asked(p)'
      BY <1>1, <1>4, <3>3
    <3>5. \A p \in WalPaths : Asked(p)' => Asked(p) \/ p[2] \in DOMAIN wal.src
      BY <1>1, <2>2, <3>3
    <3> QED BY <1>3, <1>4, <2>4, <3>4, <3>5, WalKept
  <2>5. (CopyWal(i) /\ requests' = requests)
        \/ (wal' = wal /\ \E n \in Nat \ {0} : QueueRange(e.path, FALSE, 0, n))
    <3>1. PICK n : n = IF e.ssize < ChunkBlocks THEN ChunkBlocks ELSE e.ssize
      OBVIOUS
    <3>2. n \in Nat \ {0}
      <4>1. e.ssize \in Nat
        BY PerformingFacts DEF Entries
      <4> QED BY <3>1, <4>1, PathFacts
    <3> QED BY <1>1, <2>1, <3>1, <3>2 DEF QueueFetchFile
  <2> QED BY <2>3, <2>4, <2>5
<1> QED BY <1>6, <1>7, <1>8

LEMMA PerformEntryWal ==
    ASSUME Performing, WalWork, SourceWal, PerformEntry
    PROVE  WalWork'
<1>1. Ready
  BY DEF PerformEntry
<1>2. PICK e \in filemap : OverwritePage(e) \/ PerformAction(e)
  BY DEF PerformEntry
<1>3. e \in Entries /\ EntryOK(e) /\ e.path \in Paths \cup WalPaths
  BY PerformingFacts DEF Entries
<1>4. CASE OverwritePage(e)
  <2>1. PICK b \in e.left :
          QueueFetchRange(e.path, b, 1) /\ filemap' = (filemap \ {e}) \cup {[e EXCEPT !.left = @ \ {b}]}
    BY <1>4 DEF OverwritePage
  <2>2. e.path \in Paths /\ b \in Nat
    <3>1. e.left \subseteq Nat
      BY <1>3, PathFacts DEF Entries, Pages
    <3>2. e.path \notin WalPaths
      BY WalEntryFacts
    <3> QED BY <1>3, <3>1, <3>2
  <2>3. cap' = cap /\ wal' = wal
    BY <1>4 DEF OverwritePage, source
  <2>4. \A p \in WalPaths : Asked(p)' <=> Asked(p)
    BY <1>1, <2>1, <2>2, <2>3, FetchRangeAsks
  <2>5. [e EXCEPT !.left = @ \ {b}].path = e.path
    BY <1>3 DEF Entries
  <2>6. (\A f \in filemap' : f \in filemap \/ f.path = e.path) /\ \A f \in filemap : f # e => f \in filemap'
    BY <2>1, <2>5
  <2> QED BY <2>2, <2>3, <2>4, <2>6, RelationEntryWal
<1>5. CASE PerformAction(e)
  <2>1. /\ filemap' = filemap \ {e} /\ UNCHANGED source /\ cap' = cap
        /\ EnsureKey(e) \/ EnsureWal(e) \/ Copy(e) \/ Truncate(e) \/ CopyTail(e) \/ Remove(e)
    BY <1>5 DEF PerformAction, source
  <2>2. CASE e.path \in WalPaths
    <3>1. e.action \in {"COPY", "ENSURE_WAL_SEG", "REMOVE"}
      BY <2>2, WalEntryFacts
    <3>2. EnsureWal(e) \/ Copy(e) \/ Remove(e)
      BY <2>1, <3>1 DEF EnsureKey, Truncate, CopyTail
    <3> QED BY <1>1, <2>1, <2>2, <3>2, WalActionWal
  <2>3. CASE e.path \in Paths
    <3>1. wal' = wal /\ \A p \in WalPaths : Asked(p)' <=> Asked(p)
      <4>1. ~IsWal(e.path) /\ e.action # "ENSURE_WAL_SEG"
        BY <1>3, <2>3, PathFacts DEF EntryOK, Patching
      <4>2. ASSUME requests' = requests PROVE \A p : Asked(p)' <=> Asked(p)
        BY <4>2 DEF requests, Asked
      <4>3. CASE EnsureKey(e) \/ Truncate(e)
        BY <4>2, <4>3 DEF EnsureKey, Truncate, EnsureUntouched
      <4>4. CASE Remove(e)
        BY <4>1, <4>2, <4>4 DEF Remove
      <4>5. CASE CopyTail(e)
        <5>1. e.tsize \in Nat /\ e.ssize - e.tsize \in Nat \ {0}
          <6>1. e.tsize \in Nat /\ e.ssize \in Nat /\ e.tsize < e.ssize
            BY <1>3, <2>3, <4>5 DEF Entries, EntryOK, CopyTail
          <6> QED BY <6>1
        <5>2. wal' = wal /\ QueueFetchRange(e.path, e.tsize, e.ssize - e.tsize)
          BY <4>5 DEF CopyTail
        <5> QED BY <1>1, <2>1, <2>3, <5>1, <5>2, FetchRangeAsks
      <4>6. CASE Copy(e)
        <5>1. QueueFetchFile(e.path, e.ssize)
          BY <4>6 DEF Copy
        <5>2. CASE requests' = requests
          BY <4>1, <4>2, <5>1, <5>2 DEF QueueFetchFile
        <5>3. CASE requests' # requests
          <6>1. PICK n : n = IF e.ssize < ChunkBlocks THEN ChunkBlocks ELSE e.ssize
            OBVIOUS
          <6>2. n \in Nat \ {0}
            <7>1. e.ssize \in Nat
              BY <1>3 DEF Entries
            <7> QED BY <6>1, <7>1, PathFacts
          <6>3. wal' = wal /\ QueueRange(e.path, FALSE, 0, n)
            BY <5>1, <5>3, <6>1 DEF QueueFetchFile
          <6>4. want = NoRange
            BY <1>1 DEF Ready
          <6>5. \A p \in Paths \cup WalPaths : Asked(p)' <=> Asked(p) \/ p = e.path
            BY <2>1, <2>3, <6>2, <6>3, <6>4, PerformingFacts, QueueAsks
          <6>6. \A p \in WalPaths : p # e.path
            BY <2>3, PathFacts
          <6> QED BY <6>3, <6>5, <6>6
        <5> QED BY <5>2, <5>3
      <4> QED BY <2>1, <4>1, <4>3, <4>4, <4>5, <4>6 DEF EnsureWal
    <3>2. (\A f \in filemap' : f \in filemap \/ f.path = e.path) /\ \A f \in filemap : f # e => f \in filemap'
      BY <2>1
    <3> QED BY <2>3, <3>1, <3>2, RelationEntryWal
  <2> QED BY <1>3, <2>2, <2>3
<1> QED BY <1>2, <1>4, <1>5

\* Every segment the file map does not list is restored from the archive.
LEMMA BuildFilemapWal ==
    ASSUME Typed, SafeInv, WalInv, BuildFilemap
    PROVE  WalWork'
<1>1. /\ step = "keys" /\ filemap' = RelEntries \cup WalEntries /\ queue' = queue /\ want' = want
      /\ queue = <<>> /\ want = NoRange /\ \A i \in DOMAIN wal.tgt : wal.tgt[i] = wal.tkeys
  BY DEF BuildFilemap, requests, WalInv
<1>2. /\ WalRec /\ DOMAIN wal'.tgt = 1 .. NWal /\ \A i \in 1 .. NWal : wal'.tgt[i] = wal.tkeys
      /\ wal'.src = wal.src /\ wal'.fork = wal.fork /\ wal'.skeys = wal.skeys
      /\ wal'.tkeys = wal.tkeys
  BY <1>1, WalListed DEF Typed
<1>3. wal'.restored = RestoredWal
  <2>1. PICK f : f = [i \in 1 .. NWal |-> IF i \in DOMAIN wal.tgt THEN wal.tgt[i] ELSE wal.tkeys]
    OBVIOUS
  <2>2. wal' = [wal EXCEPT !.tgt = f, !.restored = RestoredWal]
    BY <2>1 DEF BuildFilemap
  <2>3. wal = [src |-> wal.src, tgt |-> wal.tgt, fork |-> wal.fork, skeys |-> wal.skeys,
               tkeys |-> wal.tkeys, restored |-> wal.restored]
    BY <1>2 DEF WalRec
  <2> QED BY <2>2, <2>3
<1>4. KeepWal' = KeepWal /\ wal.fork \in 1 .. NWal
  BY <1>2 DEF KeepWal, WalRec
<1>5. (KeepWal \subseteq DOMAIN wal.tgt)'
  <2>1. KeepWal \subseteq 1 .. NWal
    BY <1>4, PathFacts DEF KeepWal
  <2> QED BY <1>2, <1>4, <2>1
<1>6. ASSUME NEW e \in filemap' PROVE WalEntryOK(e)'
  <2>1. CASE e \in RelEntries
    <3>1. e.path \notin WalPaths
      BY <2>1, RelEntriesFacts, PathFacts
    <3> QED BY <3>1 DEF WalEntryOK
  <2>2. CASE e \in WalEntries
    <3>1. e.path \in WalPaths /\ e.action = WalAction(e.path[2])
      BY <1>2, <2>2, WalEntriesFacts
    <3>2. e.path[2] \in 1 .. NWal
      BY <3>1, PathFacts
    <3> QED BY <1>2, <1>4, <3>1, <3>2 DEF WalEntryOK, WalAction
  <2> QED BY <1>1, <2>1, <2>2
<1>7. (\A i \in 1 .. NWal : Asked(<<WalDir, i>>) => i \in DOMAIN wal.src)'
  BY <1>1 DEF Asked, NoRange
<1>8. ASSUME NEW i \in 1 .. NWal PROVE SegmentOK(i)'
  <2>1. CASE i \in Listed
    <3> DEFINE e == [path |-> <<WalDir, i>>, action |-> WalAction(i), pages |-> {}, left |-> {},
                     ssize |-> 1, tsize |-> 1]
    <3>1. e \in filemap' /\ e.path = <<WalDir, i>>
      BY <1>1, <2>1 DEF WalEntries
    <3> HIDE DEF e
    <3> QED BY <1>2, <3>1 DEF SegmentOK, EntryOf
  <2>2. CASE i \notin Listed
    <3>1. i \in Archived'
      BY <1>3, <1>4, <2>2 DEF Archived, Listed, RestoredWal
    <3> QED BY <1>2, <3>1 DEF SegmentOK
  <2> QED BY <2>1, <2>2
<1> QED BY <1>2, <1>5, <1>6, <1>7, <1>8 DEF WalWork

\* ensure_tde_archive_wal() converts what no entry has.
LEMMA InstallKeysWal ==
    ASSUME Typed, WalInv, InstallKeys
    PROVE  /\ SourceWal' /\ KeepWal' \subseteq DOMAIN wal'.tgt
           /\ \A i \in DOMAIN wal'.tgt : CryptWal(wal'.tgt[i], wal'.skeys) = {}
<1>1. step = "fetched" /\ ArchiveWal
  BY DEF InstallKeys
<1>2. WalWork /\ filemap = {} /\ queue = <<>> /\ want = NoRange /\ SourceWal /\ WalRec
  BY <1>1 DEF WalInv, Typed
<1> DEFINE f == [i \in DOMAIN wal.tgt |-> IF i \in Archived THEN EnsureWalSeg(wal.tgt[i]) ELSE wal.tgt[i]]
<1>3. wal' = [wal EXCEPT !.tgt = f]
  BY <1>1 DEF ArchiveWal
<1>4. DOMAIN f = DOMAIN wal.tgt /\ IsFile(f) /\ DOMAIN f \subseteq 1 .. NWal
  BY <1>2 DEF IsFile, WalRec
<1>5. ASSUME NEW i \in DOMAIN wal.tgt PROVE f[i] = wal.skeys
  <2>1. ~EntryOf(<<WalDir, i>>) /\ ~Asked(<<WalDir, i>>)
    <3>1. i \in 1 .. NWal
      BY <1>2 DEF WalRec
    <3>2. <<WalDir, i>> # <<>>
      BY <3>1, PathFacts
    <3> QED BY <1>2, <3>2 DEF EntryOf, Asked, NoRange
  <2>2. \/ wal.tgt[i] = wal.skeys /\ i \notin Archived
        \/ wal.tgt[i] = wal.tkeys /\ i \in Archived
    BY <1>2, <2>1 DEF WalWork, SegmentOK, Archived
  <2> QED BY <2>2, CryptFacts
<1> HIDE DEF f
<1>6. WalFixed /\ wal'.tgt = f
  BY <1>2, <1>3, <1>4, WalPut DEF WalFixed
<1>7. KeepWal' = KeepWal
  BY <1>6 DEF WalFixed, KeepWal
<1> QED BY <1>2, <1>4, <1>5, <1>6, <1>7, CryptFacts DEF WalWork, SourceWal, WalFixed

\* The segments of the source never change.
LEMMA SourceWalKept ==
    ASSUME WalRec, SourceWal, WalFixed
    PROVE  SourceWal'
BY DEF SourceWal, KeepWal, WalFixed

LEMMA ActionsWalFixed ==
    ASSUME Performing, WalWork, PerformEntry \/ QueueRest \/ ProcessRow \/ FinishFetch \/ \E r \in Rels : SourceDrops(r)
    PROVE  WalFixed /\ step' \in {"perform", "fetched", "crashed"}
<1>1. step = "perform" /\ WalRec
  BY DEF Performing, Typed
<1>2. ASSUME NEW f, wal' = [wal EXCEPT !.tgt = f] PROVE WalFixed
  <2>1. wal' = [src |-> wal.src, tgt |-> f, fork |-> wal.fork, skeys |-> wal.skeys,
                tkeys |-> wal.tkeys, restored |-> wal.restored]
    BY <1>1, <1>2 DEF WalRec
  <2> QED BY <2>1 DEF WalFixed
<1>3. \A i : CopyWal(i) => WalFixed
  BY <1>2 DEF CopyWal
<1>4. wal' = wal => WalFixed
  BY DEF WalFixed
<1>5. \A p : EnsureTdeKeys(p) => step' \in {step, "crashed"}
  BY DEF EnsureTdeKeys
<1>6. CASE QueueRest \/ \E r \in Rels : SourceDrops(r)
  BY <1>1, <1>4, <1>6 DEF QueueRest, SourceDrops
<1>7. CASE FinishFetch
  BY <1>4, <1>7 DEF FinishFetch
<1>8. CASE ProcessRow
  BY <1>1, <1>3, <1>4, <1>5, <1>8 DEF ProcessRow
<1>9. CASE PerformEntry
  <2>1. PICK e \in filemap : OverwritePage(e) \/ PerformAction(e)
    BY <1>9 DEF PerformEntry
  <2>2. CASE OverwritePage(e)
    BY <1>1, <1>4, <1>5, <2>2 DEF OverwritePage, QueueFetchRange
  <2>3. CASE EnsureKey(e)
    BY <1>1, <1>4, <1>5, <2>3 DEF EnsureKey, EnsureUntouched
  <2>4. CASE Truncate(e)
    BY <1>1, <1>4, <1>5, <2>4 DEF Truncate, EnsureUntouched
  <2>5. CASE CopyTail(e)
    BY <1>1, <1>4, <1>5, <2>5 DEF CopyTail, QueueFetchRange
  <2>6. CASE Copy(e)
    BY <1>1, <1>3, <1>4, <2>6 DEF Copy, QueueFetchFile
  <2>7. CASE Remove(e)
    BY <1>1, <1>2, <1>4, <2>7 DEF Remove
  <2>8. CASE EnsureWal(e)
    <3>1. wal' = [wal EXCEPT !.tgt = [wal.tgt EXCEPT ![e.path[2]] = EnsureWalSeg(@)]]
      BY <2>8 DEF EnsureWal
    <3>2. WalFixed
      BY <1>2, <3>1
    <3> QED BY <1>1, <2>8, <3>2 DEF EnsureWal
  <2> QED BY <2>1, <2>2, <2>3, <2>4, <2>5, <2>6, <2>7, <2>8 DEF PerformAction
<1> QED BY <1>6, <1>7, <1>8, <1>9

LEMMA FinishFetchWal ==
    ASSUME Performing, WalWork, FinishFetch
    PROVE  WalWork' /\ filemap' = {} /\ queue' = <<>> /\ want' = NoRange
<1>1. /\ wal' = wal /\ filemap' = filemap /\ queue' = queue /\ want' = want
      /\ filemap = {} /\ queue = <<>> /\ want = NoRange
  BY DEF FinishFetch, Done, Ready, requests
<1>2. \A p : (EntryOf(p)' <=> EntryOf(p)) /\ (Asked(p)' <=> Asked(p))
  BY <1>1 DEF EntryOf, Asked
<1>3. WalRec
  BY DEF Performing, Typed
<1> QED BY <1>1, <1>2, <1>3, WalKept

LEMMA SourceDropsWal ==
    ASSUME Performing, WalWork, NEW r \in Rels, SourceDrops(r)
    PROVE  WalWork'
<1>1. wal' = wal /\ filemap' = filemap /\ queue' = queue /\ want' = want
  BY DEF SourceDrops, requests
<1>2. \A p : (EntryOf(p)' <=> EntryOf(p)) /\ (Asked(p)' <=> Asked(p))
  BY <1>1 DEF EntryOf, Asked
<1>3. WalRec
  BY DEF Performing, Typed
<1> QED BY <1>1, <1>2, <1>3, WalKept

LEMMA WalInvStart ==
    ASSUME Init
    PROVE  WalInv
<1>1. PICK v : /\ wal = [src |-> [i \in v.src |-> v.skeys], tgt |-> [i \in v.tgt |-> v.tkeys],
                         fork |-> v.fork, skeys |-> v.skeys, tkeys |-> v.tkeys, restored |-> {}]
               /\ v.src \subseteq 1 .. NWal /\ v.tgt \subseteq 1 .. NWal /\ v.fork \in 1 .. NWal
               /\ \A i \in v.src : i < v.fork
  BY InitFacts
<1>2. step = "start" /\ filemap = {} /\ queue = <<>> /\ want = NoRange
  BY DEF Init
<1>3. SourceWal
  <2>1. \A i \in v.src : i \in 1 .. v.fork
    BY <1>1
  <2> QED BY <1>1, <2>1 DEF SourceWal, KeepWal
<1>4. \A i \in DOMAIN wal.tgt : wal.tgt[i] = wal.tkeys
  BY <1>1
<1> QED BY <1>2, <1>3, <1>4 DEF WalInv, WalIntact

LEMMA WalInvNext ==
    ASSUME Typed, SafeInv, WalInv, [Next]_vars
    PROVE  WalInv'
<1>1. WalRec /\ SourceWal
  BY DEF Typed, WalInv
<1>2. CASE FetchTdeKeys \/ \E r \in Rels, s \in {None, "src"} : SourceCreates(r, KeyOf(s, r))
  <2>1. /\ step \in {"start", "keys"} /\ step' = "keys" /\ wal' = wal /\ filemap' = filemap
        /\ queue' = queue /\ want' = want
    BY <1>2 DEF FetchTdeKeys, SourceCreates, requests
  <2>2. SourceWal'
    BY <1>1, <2>1, SourceWalKept DEF WalFixed
  <2> QED BY <2>1, <2>2 DEF WalInv, WalIntact
<1>3. CASE BuildFilemap
  <2>1. step = "keys" /\ step' = "perform"
    BY <1>3 DEF BuildFilemap
  <2>2. wal'.src = wal.src /\ wal'.fork = wal.fork /\ wal'.skeys = wal.skeys
    BY <1>1, <1>3, WalListed
  <2>3. SourceWal'
    BY <1>1, <2>2 DEF SourceWal, KeepWal
  <2> QED BY <1>3, <2>1, <2>3, BuildFilemapWal DEF WalInv, WalIntact
<1>4. CASE PerformEntry \/ QueueRest \/ ProcessRow \/ FinishFetch \/ \E r \in Rels : SourceDrops(r)
  <2>1. Performing /\ WalWork
    BY <1>4 DEF PerformEntry, QueueRest, ProcessRow, FinishFetch, Done, Ready, SourceDrops, Performing, WalInv
  <2>2. WalFixed /\ step' \in {"perform", "fetched", "crashed"}
    BY <1>4, <2>1, ActionsWalFixed
  <2>3. SourceWal'
    BY <1>1, <2>2, SourceWalKept
  <2>4. WalWork'
    BY <1>1, <1>4, <2>1, PerformEntryWal, QueueRestWal, ProcessRowWal, FinishFetchWal, SourceDropsWal
  <2>5. step' = "fetched" => filemap' = {} /\ queue' = <<>> /\ want' = NoRange
    <3>1. CASE FinishFetch
      BY <2>1, <3>1, FinishFetchWal
    <3>2. CASE ~FinishFetch
      <4>1. \A p : EnsureTdeKeys(p) => step' \in {"perform", "crashed"}
        BY <2>1 DEF EnsureTdeKeys, Performing
      <4>2. step' \in {"perform", "crashed"}
        BY <1>4, <2>1, <3>2, <4>1 DEF PerformEntry, QueueRest, ProcessRow, SourceDrops,
             OverwritePage, PerformAction, EnsureKey, EnsureWal, Copy, Truncate, CopyTail, Remove,
             EnsureUntouched, QueueFetchRange, Performing
      <4> QED BY <4>2
    <3> QED BY <3>1, <3>2
  <2> QED BY <2>2, <2>3, <2>4, <2>5 DEF WalInv, WalIntact
<1>5. CASE InstallKeys
  <2>1. step' = "installed"
    BY <1>5 DEF InstallKeys
  <2> QED BY <1>5, <2>1, InstallKeysWal DEF WalInv, WalIntact
<1>6. CASE Replay
  <2>1. step' = "replayed" /\ wal' = wal
    BY <1>6 DEF Replay
  <2>2. SourceWal'
    BY <1>1, <2>1, SourceWalKept DEF WalFixed
  <2> QED BY <2>1, <2>2 DEF WalInv, WalIntact
<1>7. CASE UNCHANGED vars
  BY <1>7 DEF vars, WalInv, SourceWal, WalWork, WalEntryOK, SegmentOK, WalIntact, KeepWal, Archived,
              EntryOf, Asked
<1> QED BY <1>2, <1>3, <1>4, <1>5, <1>6, <1>7 DEF Next

\* Every WAL segment the target keeps is readable with the source's keys when
\* they are installed, and none of those back to the last common checkpoint is
\* missing: a segment is copied, converted by its entry, or converted at the end
\* because it came from the archive, and never twice.
THEOREM WalSegmentsIntact == Spec => []WalIntact
<1>1. Init => WalInv
  BY WalInvStart
<1>2. Typed /\ SafeInv /\ WalInv /\ [Next]_vars => WalInv'
  BY WalInvNext
<1>3. WalInv => WalIntact
  BY DEF WalInv
<1> QED BY <1>1, <1>2, <1>3, WorkSafe, PTL DEF Spec

-----------------------------------------------------------------------------
(* The blocks of a relation of one segment, while the queue of a live      *)
(* source has not run full.                                                *)

Main(r) == <<r, 0>>
Fsm(r) == <<r, FsmPart>>

\* A relation from before the fork that the source has, in one segment.
Old(r) ==
    /\ r \in Rels /\ r \notin created /\ Main(r) \in DOMAIN src
    /\ \A s \in 1 .. LastSeg : <<r, s>> \notin DOMAIN src

\* The two clusters at the start: what differs is under the target's key and
\* named by its WAL.
StartOK(r) ==
    Main(r) \in DOMAIN tgt =>
        /\ skeys[r] = None <=> tkeys[r] = None
        /\ Len(tgt[Main(r)]) <= SegBlocks
        /\ \A i \in DOMAIN tgt[Main(r)] :
              /\ tgt[Main(r)][i].key = tkeys[r]
              /\ tgt[Main(r)][i].data = "t" => <<Main(r), i - 1>> \in changed

\* Block i of file p is asked for, or going to be.
Requested(p, i) ==
    \/ want.path = p /\ i \in want.off + 1 .. want.off + want.len
    \/ \E k \in DOMAIN queue :
          queue[k].path = p /\ i \in queue[k].off + 1 .. queue[k].off + queue[k].len

Plans(e, i) ==
    \/ i - 1 \in e.left
    \/ e.action = "COPY"
    \/ e.action = "COPY_TAIL" /\ i \in e.tsize + 1 .. e.ssize

Planned(p, i) == \E e \in filemap : e.path = p /\ Plans(e, i)

Written(p, i) == p \in DOMAIN tgt /\ i <= Len(tgt[p]) /\ tgt[p][i].data = "c"

\* Every request for file p is to be re-encrypted (enc), or none is.
Asks(p, enc) ==
    /\ want.path = p => want.encrypt = enc
    /\ \A k \in DOMAIN queue : queue[k].path = p => queue[k].encrypt = enc

FileKey(p, k) == \A i \in DOMAIN tgt[p] : tgt[p][i].key = k

\* The file is copied as it is.
Copied(r) ==
    /\ tmp[r] = skeys[r] /\ cur.path # Main(r)
    /\ \A e \in filemap : e.path = Main(r) => e.action = "COPY"
    /\ Asks(Main(r), FALSE)
    /\ Main(r) \in DOMAIN tgt => FileKey(Main(r), skeys[r])

\* The keys of a file that is kept are still to be looked up, are in use, or
\* the target's is in place.
Unbegun(p) == \E e \in filemap : e.path = p /\ e.left = e.pages
Waiting(r) == tmp[r] = skeys[r] /\ cur.path # Main(r) /\ (Asked(Main(r)) \/ Unbegun(Main(r)))
Current(r) == tmp[r] = skeys[r] /\ cur.path = Main(r) /\ cur.sk = skeys[r]
Finished(r) == tmp[r] = tkeys[r] /\ cur.path # Main(r) /\ ~EntryOf(Main(r)) /\ ~Asked(Main(r))

KeyState(r) ==
    /\ skeys[r] = None => tmp[r] = None /\ cur.path # Main(r)
    /\ skeys[r] # None => Waiting(r) \/ Current(r) \/ Finished(r)

\* The file is kept and patched: its blocks are under the target's key.
Patched(r) ==
    /\ Main(r) \in DOMAIN tgt /\ FileKey(Main(r), tkeys[r])
    /\ \A e \in filemap : e.path = Main(r) => e.action # "COPY"
    /\ Asks(Main(r), TRUE)
    /\ skeys[r] = None <=> tkeys[r] = None
    /\ KeyState(r)

BlocksOK(r) ==
    /\ \A i \in 1 .. Len(src[Main(r)]) :
          Planned(Main(r), i) \/ Requested(Main(r), i) \/ Written(Main(r), i)
    /\ EntryOf(Main(r)) \/ Main(r) \in DOMAIN tgt
    /\ Main(r) \in DOMAIN tgt =>
          \/ Len(tgt[Main(r)]) <= Len(src[Main(r)])
          \/ \E e \in filemap : e.path = Main(r) /\ e.action = "TRUNCATE"

MainOK(r) == (Copied(r) \/ Patched(r)) /\ BlocksOK(r)

Whole(p) ==
    /\ p \in DOMAIN tgt /\ Len(tgt[p]) = Len(src[p])
    /\ \A i \in DOMAIN tgt[p] : tgt[p][i].key = tmp[p[1]] /\ tgt[p][i].data = "c"

FsmOK(r) == mode = "local" /\ Fsm(r) \in DOMAIN src => EntryOf(Fsm(r)) \/ Whole(Fsm(r))

\* The files are gone through one after the other.
Rows(p) == {k \in DOMAIN queue : queue[k].path = p}
AtEnd(p) == \A j \in Rows(p) : \A k \in DOMAIN queue : j <= k => k \in Rows(p)
AtHead(p) == \A k \in Rows(p) : \A j \in DOMAIN queue : j <= k => j \in Rows(p)

Contiguous ==
    \A i, j, k \in DOMAIN queue :
       i <= j /\ j <= k /\ queue[i].path = queue[k].path => queue[j].path = queue[k].path

OrderOK ==
    /\ ~fetching /\ Contiguous
    /\ \A e \in filemap : e.left # e.pages => First(e) /\ AtEnd(e.path)
    /\ want # NoRange => AtEnd(want.path) /\ \A e \in filemap : e.left = e.pages

\* The current file is the one that was gone through last, or is being written.
CurOK ==
    /\ cur # NoFile => Here(cur.path)
    /\ AtHead(cur.path)
    /\ cur # NoFile /\ (filemap # {} \/ want # NoRange) => ~Asked(cur.path)
    /\ \A e \in filemap : mode = "remote" \/ e.left = e.pages => cur.path # e.path
    /\ mode = "local" /\ (\E e \in filemap : e.action = "COPY") =>
          cur = NoFile /\ \A r \in Rels : Old(r) => tmp[r] = skeys[r]

BlocksInv == OrderOK /\ CurOK /\ \A r \in Rels : Old(r) => MainOK(r) /\ FsmOK(r)

\* Every block has been written and every key put in place.
WholeRelations ==
    \A r \in Rels : Old(r) =>
       /\ Whole(Main(r))
       /\ mode = "local" /\ Fsm(r) \in DOMAIN src => Whole(Fsm(r))

\* A relation on the source has a main fork.
MainFirst == \A p \in DOMAIN src : Main(p[1]) \in DOMAIN src

DataInv ==
    /\ MainFirst
    /\ step \in {"start", "keys"} => ~split /\ \A r \in Rels : Old(r) => StartOK(r)
    /\ step = "keys" => \A r \in Rels : Old(r) => tmp[r] = skeys[r]
    /\ step = "perform" /\ ~split => BlocksInv
    /\ step \in {"fetched", "installed"} /\ ~split => WholeRelations
    /\ step = "installed" => tkeys = tmp
    /\ RelationsIntact

-----------------------------------------------------------------------------
(* The requests.                                                           *)

\* What a turn of the queueing does, when the queue has room, for a range that
\* starts or goes on.
TurnBlocks(path, enc, off, len) ==
    /\ fetching' = FALSE /\ ~split
    /\ \A p \in Paths : \A i \in Nat :
          Requested(p, i) \/ (p = path /\ i \in off + 1 .. off + len) => Requested(p, i)'
    /\ \A p \in Paths, x \in BOOLEAN : Asks(p, x) /\ (p = path => x = enc) => Asks(p, x)'
    /\ \A p \in Paths \cup WalPaths : Asked(p)' <=> Asked(p) \/ p = path
    /\ want' # NoRange => want'.path = path
    /\ len = 1 => want' = NoRange
    /\ AtEnd(path) => AtEnd(path)'
    /\ AtEnd(path) /\ Contiguous => Contiguous'
    /\ \A p \in Paths \cup WalPaths : p # path => Rows(p)' = Rows(p)

LEMMA TurnBlocksFacts ==
    ASSUME WorkTypes, cap \in Nat \ {0}, cap' = cap,
           NEW path \in Paths \cup WalPaths, NEW enc \in BOOLEAN, NEW off \in Nat,
           NEW len \in Nat \ {0}, QueueRange(path, enc, off, len), ~split',
           want = NoRange \/ want = [path |-> path, encrypt |-> enc, off |-> off, len |-> len]
    PROVE  TurnBlocks(path, enc, off, len)
<1> DEFINE n == Len(queue) m == Len(queue')
<1>t. QueueTurn(path, enc, off, len)
  BY QueueFacts
<1>1. /\ queue \in Seq(Requests) /\ queue' \in Seq(Requests)
      /\ n \in Nat /\ m \in Nat /\ n <= m /\ m <= n + 1
      /\ DOMAIN queue = 1 .. n /\ DOMAIN queue' = 1 .. m
  BY <1>t DEF QueueTurn, WorkTypes
<1>2. \A k \in 1 .. n : /\ queue'[k].path = queue[k].path /\ queue'[k].off = queue[k].off
                        /\ queue'[k].encrypt = queue[k].encrypt /\ queue'[k].len >= queue[k].len
  BY <1>t DEF QueueTurn
<1>3. m = n + 1 => queue'[m].path = path /\ queue'[m].encrypt = enc /\ queue'[m].off = off
  BY <1>t DEF QueueTurn
<1>4. PICK t \in 1 .. len :
         /\ fetching' = FALSE /\ (split' <=> split)
         /\ m > 0 /\ queue'[m].path = path /\ queue'[m].off + queue'[m].len = off + t
         /\ m = n => queue[n].off + queue[n].len = off
         /\ want' = Piece(path, enc, off + t, len - t)
  BY <1>t DEF QueueTurn
<1> HIDE DEF n, m
<1>5. \A k \in 1 .. n : queue[k].off \in Nat /\ queue[k].len \in Nat /\ queue'[k].len \in Nat
  <2>1. \A k \in 1 .. n : queue[k] \in Requests
    BY <1>1
  <2>2. \A k \in 1 .. n : queue'[k] \in Requests
    <3>1. \A k \in 1 .. m : queue'[k] \in Requests
      BY <1>1
    <3> QED BY <1>1, <3>1
  <2>3. \A rq \in Requests : rq.off \in Nat /\ rq.len \in Nat
    BY DEF Requests
  <2> QED BY <2>1, <2>2, <2>3
<1>6. queue'[m].off \in Nat /\ queue'[m].len \in Nat /\ queue'[m].off <= off
  <2>1. m \in 1 .. m
    BY <1>1, <1>4
  <2>2. queue'[m] \in Requests
    BY <1>1, <2>1
  <2>3. queue'[m].off \in Nat /\ queue'[m].len \in Nat
    BY <2>2 DEF Requests
  <2>4. CASE m = n
    <3>1. n \in 1 .. n
      BY <2>1, <2>4
    <3> QED BY <1>2, <1>4, <1>5, <2>3, <2>4, <3>1
  <2>5. CASE m = n + 1
    BY <1>3, <2>3, <2>5
  <2>6. m = n \/ m = n + 1
    BY <1>1
  <2> QED BY <2>3, <2>4, <2>5, <2>6
<1>7. want.path = path \/ want = NoRange
  OBVIOUS
<1>8. \A p \in Paths \cup WalPaths : Asked(p)' <=> Asked(p) \/ p = path
  BY <1>7, QueueAsks
<1>9. want' # NoRange => want'.path = path /\ want'.encrypt = enc /\ want'.off = off + t /\ want'.len = len - t
  BY <1>4 DEF Piece
<1>10. t # len => want' # NoRange
  BY <1>4, PathFacts DEF Piece, NoRange
<1>11. len = 1 => want' = NoRange
  BY <1>4 DEF Piece
<1>12. ASSUME NEW p \in Paths, NEW i \in Nat, Requested(p, i) \/ (p = path /\ i \in off + 1 .. off + len)
       PROVE  Requested(p, i)'
  <2>1. CASE \E k \in 1 .. n : queue[k].path = p /\ i \in queue[k].off + 1 .. queue[k].off + queue[k].len
    <3>1. PICK k \in 1 .. n : queue[k].path = p /\ i \in queue[k].off + 1 .. queue[k].off + queue[k].len
      BY <2>1
    <3>2. PICK a, l, l1 : a = queue[k].off /\ l = queue[k].len /\ l1 = queue'[k].len
      OBVIOUS
    <3>3. k \in 1 .. m /\ queue'[k].path = p /\ queue'[k].off = a
      BY <1>1, <1>2, <3>1, <3>2
    <3>4. i \in a + 1 .. a + l1
      <4>1. a \in Nat /\ l \in Nat /\ l1 \in Nat /\ l1 >= l
        BY <1>2, <1>5, <3>1, <3>2
      <4>2. i \in a + 1 .. a + l
        BY <3>1, <3>2
      <4> QED BY <4>1, <4>2
    <3> QED BY <1>1, <3>2, <3>3, <3>4 DEF Requested
  <2>2. CASE p = path /\ i \in off + 1 .. off + len
    <3>1. CASE i <= off + t
      <4>1. PICK a, l : a = queue'[m].off /\ l = queue'[m].len
        OBVIOUS
      <4>2. i \in a + 1 .. a + l
        <5>1. a \in Nat /\ l \in Nat /\ a <= off /\ a + l = off + t
          BY <1>4, <1>6, <4>1
        <5> QED BY <2>2, <3>1, <5>1
      <4>3. m \in 1 .. m
        BY <1>1, <1>4
      <4> QED BY <1>1, <1>4, <2>2, <4>1, <4>2, <4>3 DEF Requested
    <3>2. CASE i > off + t
      <4>1. t # len
        BY <2>2, <3>2
      <4>2. i \in off + t + 1 .. off + t + (len - t)
        BY <2>2, <3>2
      <4> QED BY <1>9, <1>10, <2>2, <4>1, <4>2 DEF Requested
    <3> QED BY <2>2, <3>1, <3>2
  <2>3. want.path = p /\ i \in want.off + 1 .. want.off + want.len => p = path /\ i \in off + 1 .. off + len
    <3>1. p # <<>>
      BY PathFacts
    <3> QED BY <3>1 DEF NoRange
  <2> QED BY <1>1, <1>12, <2>1, <2>2, <2>3 DEF Requested
<1>13. ASSUME NEW p \in Paths, NEW x \in BOOLEAN, Asks(p, x), p = path => x = enc
       PROVE  Asks(p, x)'
  <2>1. want'.path = p => want'.encrypt = x
    <3>1. p # <<>>
      BY PathFacts
    <3> QED BY <1>9, <1>13, <3>1 DEF NoRange
  <2>2. ASSUME NEW k \in 1 .. m, queue'[k].path = p PROVE queue'[k].encrypt = x
    <3>1. CASE k \in 1 .. n
      <4>1. queue[k].path = p => queue[k].encrypt = x
        BY <1>1, <1>13, <3>1 DEF Asks
      <4> QED BY <1>2, <2>2, <3>1, <4>1
    <3>2. CASE k = n + 1 /\ m = n + 1
      BY <1>3, <1>13, <2>2, <3>2
    <3> QED BY <1>1, <3>1, <3>2
  <2> QED BY <1>1, <2>1, <2>2 DEF Asks
<1>14. ASSUME NEW p, p # path PROVE Rows(p)' = Rows(p)
  <2>1. ASSUME NEW k \in 1 .. m, queue'[k].path = p PROVE k \in 1 .. n /\ queue[k].path = p
    BY <1>1, <1>2, <1>3, <1>14, <2>1
  <2>2. ASSUME NEW k \in 1 .. n, queue[k].path = p PROVE k \in 1 .. m /\ queue'[k].path = p
    BY <1>1, <1>2, <2>2
  <2> QED BY <1>1, <2>1, <2>2 DEF Rows
<1>15. ASSUME AtEnd(path) PROVE AtEnd(path)'
  <2>1. ASSUME NEW j \in 1 .. m, queue'[j].path = path, NEW k \in 1 .. m, j <= k PROVE queue'[k].path = path
    <3>1. CASE k = n + 1
      BY <1>1, <1>3, <3>1
    <3>2. CASE k # n + 1
      <4>1. k \in 1 .. n /\ j \in 1 .. n
        BY <1>1, <2>1, <3>2
      <4>2. queue[j].path = path
        BY <1>2, <2>1, <4>1
      <4>3. queue[k].path = path
        BY <1>1, <1>15, <2>1, <4>1, <4>2 DEF AtEnd, Rows
      <4> QED BY <1>2, <4>1, <4>3
    <3> QED BY <3>1, <3>2
  <2> QED BY <1>1, <2>1 DEF AtEnd, Rows
<1>16. ASSUME AtEnd(path), Contiguous PROVE Contiguous'
  <2>1. ASSUME NEW i \in 1 .. m, NEW j \in 1 .. m, NEW k \in 1 .. m, i <= j, j <= k,
               queue'[i].path = queue'[k].path
        PROVE  queue'[j].path = queue'[k].path
    <3>1. CASE queue'[k].path = path
      <4>1. AtEnd(path)'
        BY <1>15, <1>16
      <4> QED BY <1>1, <2>1, <3>1, <4>1 DEF AtEnd, Rows
    <3>2. CASE queue'[k].path # path
      <4>1. k \in 1 .. n
        BY <1>1, <1>3, <3>2
      <4>2. i \in 1 .. n /\ j \in 1 .. n
        BY <1>1, <2>1, <4>1
      <4>3. queue[i].path = queue[k].path
        BY <1>2, <2>1, <4>1, <4>2
      <4>4. queue[j].path = queue[k].path
        BY <1>1, <1>16, <2>1, <4>1, <4>2, <4>3 DEF Contiguous
      <4> QED BY <1>2, <4>1, <4>2, <4>4
    <3> QED BY <3>1, <3>2
  <2> QED BY <1>1, <2>1 DEF Contiguous
<1> QED BY <1>4, <1>8, <1>9, <1>11, <1>12, <1>13, <1>14, <1>15, <1>16 DEF TurnBlocks

\* What taking the first request does.
PopBlocks ==
    /\ \A p : \A i \in Nat :
          Requested(p, i) =>
             Requested(p, i)' \/ (p = queue[1].path /\ i \in queue[1].off + 1 .. queue[1].off + queue[1].len)
    /\ \A p : \A x \in BOOLEAN : Asks(p, x) => Asks(p, x)' /\ (queue[1].path = p => queue[1].encrypt = x)
    /\ Contiguous => Contiguous' /\ \A p : p = queue[1].path => AtHead(p)'
    /\ \A p : AtHead(p) => AtHead(p)'
    /\ \A p : AtHead(p) /\ p # queue[1].path => \A k \in DOMAIN queue : queue[k].path # p

LEMMA PopBlocksFacts ==
    ASSUME WorkTypes, queue # <<>>, queue' = Tail(queue), want' = want
    PROVE  PopBlocks
<1> DEFINE n == Len(queue) m == Len(queue')
<1>1. /\ n \in Nat \ {0} /\ m = n - 1 /\ DOMAIN queue = 1 .. n /\ DOMAIN queue' = 1 .. m
      /\ \A k \in 1 .. m : queue'[k] = queue[k + 1]
  BY PopFacts
<1> HIDE DEF n, m
<1>2. ASSUME NEW k \in 2 .. n PROVE \E j \in 1 .. m : queue'[j] = queue[k]
  <2>1. PICK j : j = k - 1
    OBVIOUS
  <2>2. j \in 1 .. m /\ j + 1 = k
    BY <1>1, <2>1
  <2>3. queue'[j] = queue[j + 1]
    BY <1>1, <2>2
  <2>4. queue'[j] = queue[k]
    BY <2>2, <2>3
  <2> QED BY <2>1, <2>2, <2>4
<1>d. DOMAIN queue' = 1 .. m /\ m \in Nat
  BY <1>1
<1>3. \A k \in 1 .. m : k + 1 \in 1 .. n
  BY <1>1
<1>4. ASSUME NEW p, NEW i \in Nat, Requested(p, i)
      PROVE  Requested(p, i)' \/ (p = queue[1].path /\ i \in queue[1].off + 1 .. queue[1].off + queue[1].len)
  <2>1. CASE \E k \in 1 .. n : queue[k].path = p /\ i \in queue[k].off + 1 .. queue[k].off + queue[k].len
    <3>1. PICK k \in 1 .. n : queue[k].path = p /\ i \in queue[k].off + 1 .. queue[k].off + queue[k].len
      BY <2>1
    <3>2. CASE k = 1
      BY <3>1, <3>2
    <3>3. CASE k # 1
      <4>1. k \in 2 .. n
        BY <1>1, <3>3
      <4>2. PICK j \in 1 .. m : queue'[j] = queue[k]
        BY <1>2, <4>1
      <4> QED BY <1>1, <3>1, <4>2 DEF Requested
    <3> QED BY <3>2, <3>3
  <2> QED BY <1>1, <1>4, <2>1 DEF Requested
<1>5. ASSUME NEW p, NEW x \in BOOLEAN, Asks(p, x)
      PROVE  Asks(p, x)' /\ (queue[1].path = p => queue[1].encrypt = x)
  <2>1. 1 \in 1 .. n
    BY <1>1
  <2>2. \A k \in 1 .. n : queue[k].path = p => queue[k].encrypt = x
    BY <1>1, <1>5 DEF Asks
  <2>3. \A k \in 1 .. m : queue'[k].path = p => queue'[k].encrypt = x
    BY <1>1, <1>3, <2>2
  <2> QED BY <1>1, <1>5, <2>1, <2>2, <2>3 DEF Asks
<1>6. ASSUME Contiguous PROVE Contiguous' /\ \A p : p = queue[1].path => AtHead(p)'
  <2>1. \A i, j, k \in 1 .. n :
           i <= j /\ j <= k /\ queue[i].path = queue[k].path => queue[j].path = queue[k].path
    BY <1>1, <1>6 DEF Contiguous
  <2>2. ASSUME NEW i \in 1 .. m, NEW j \in 1 .. m, NEW k \in 1 .. m, i <= j, j <= k,
               queue'[i].path = queue'[k].path
        PROVE  queue'[j].path = queue'[k].path
    <3>0. PICK a, b, c : a = i + 1 /\ b = j + 1 /\ c = k + 1
      OBVIOUS
    <3>1. a \in 1 .. n /\ b \in 1 .. n /\ c \in 1 .. n /\ a <= b /\ b <= c
      BY <1>3, <2>2, <3>0
    <3>2. queue'[i] = queue[a] /\ queue'[j] = queue[b] /\ queue'[k] = queue[c]
      BY <1>1, <3>0
    <3>3. queue[a].path = queue[c].path
      BY <2>2, <3>2
    <3>4. queue[b].path = queue[c].path
      BY <2>1, <3>1, <3>3
    <3> QED BY <3>2, <3>4
  <2>3. PICK h : h = queue[1].path
    OBVIOUS
  <2>4. ASSUME NEW j \in 1 .. m, NEW k \in 1 .. m, j <= k, queue'[k].path = h PROVE queue'[j].path = h
    <3>0. PICK b, c : b = j + 1 /\ c = k + 1
      OBVIOUS
    <3>1. 1 \in 1 .. n /\ b \in 1 .. n /\ c \in 1 .. n /\ 1 <= b /\ b <= c
      BY <1>1, <1>3, <2>4, <3>0
    <3>2. queue'[j] = queue[b] /\ queue'[k] = queue[c]
      BY <1>1, <3>0
    <3>3. queue[1].path = queue[c].path
      BY <2>3, <2>4, <3>2
    <3>4. queue[b].path = queue[c].path
      BY <2>1, <3>1, <3>3
    <3> QED BY <2>4, <3>2, <3>4
  <2>5. AtHead(h)'
    BY <1>d, <2>4 DEF AtHead, Rows
  <2>6. Contiguous'
    <3> SUFFICES ASSUME NEW i \in DOMAIN queue', NEW j \in DOMAIN queue', NEW k \in DOMAIN queue',
                        i <= j, j <= k, queue'[i].path = queue'[k].path
                 PROVE  queue'[j].path = queue'[k].path
      BY DEF Contiguous
    <3>1. i \in 1 .. m /\ j \in 1 .. m /\ k \in 1 .. m
      BY <1>d
    <3> QED BY <2>2, <3>1
  <2> QED BY <2>3, <2>5, <2>6
<1>7. ASSUME NEW p, AtHead(p) PROVE AtHead(p)'
  <2>1. \A j, k \in 1 .. n : j <= k /\ queue[k].path = p => queue[j].path = p
    BY <1>1, <1>7 DEF AtHead, Rows
  <2>2. ASSUME NEW j \in 1 .. m, NEW k \in 1 .. m, j <= k, queue'[k].path = p PROVE queue'[j].path = p
    <3>1. j + 1 \in 1 .. n /\ k + 1 \in 1 .. n /\ j + 1 <= k + 1
      BY <1>3, <2>2
    <3>2. queue'[j] = queue[j + 1] /\ queue'[k] = queue[k + 1]
      BY <1>1
    <3> QED BY <2>1, <2>2, <3>1, <3>2
  <2> QED BY <1>1, <2>2 DEF AtHead, Rows
<1>8. ASSUME NEW p, AtHead(p), p # queue[1].path, NEW k \in 1 .. n PROVE queue[k].path # p
  <2>1. 1 \in 1 .. n /\ 1 <= k
    BY <1>1
  <2> QED BY <1>1, <1>8, <2>1 DEF AtHead, Rows
<1> QED BY <1>1, <1>4, <1>5, <1>6, <1>7, <1>8 DEF PopBlocks

\* The order of the entries.
LEMMA FirstFacts ==
    ASSUME Performing, NEW e \in filemap, First(e)
    PROVE  /\ \A f \in filemap : First(f) => f = e
           /\ e.action # "COPY" => \A f \in filemap : f.action # "COPY"
<1>1. \A f \in filemap : /\ f \in Entries /\ f.action \in DOMAIN ActionOrder
                         /\ f.path \in Paths \cup WalPaths
  BY PerformingFacts DEF Entries
<1>2. \A a \in DOMAIN ActionOrder : ActionOrder[a] \in Nat
  BY DEF ActionOrder
<1>3. \A a \in DOMAIN ActionOrder : ActionOrder["COPY"] <= ActionOrder[a]
  BY DEF ActionOrder
<1>4. "COPY" \in DOMAIN ActionOrder
  BY DEF ActionOrder
<1>5. \A p \in Paths \cup WalPaths : p[1] \in Nat /\ p[2] \in Nat
  <2>1. NWal \in Nat
    BY PathFacts
  <2>2. \A p \in Paths : p[1] \in Nat /\ p[2] \in Nat
    BY PathFacts
  <2>3. \A p \in WalPaths : p[1] \in Nat /\ p[2] \in Nat
    <3>1. WalDir \in Nat
      BY RewindAssumption
    <3> QED BY <2>1, <3>1 DEF WalPaths
  <2> QED BY <2>2, <2>3
<1>6. ASSUME NEW f \in filemap, First(f), f # e PROVE FALSE
  <2>1. Precedes(e, f) /\ Precedes(f, e)
    BY <1>6 DEF First
  <2>2. PICK a, b : a = ActionOrder[e.action] /\ b = ActionOrder[f.action]
    OBVIOUS
  <2>3. a \in Nat /\ b \in Nat
    BY <1>1, <1>2, <2>2
  <2>4. e.action = f.action
    BY <2>1, <2>2, <2>3 DEF Precedes
  <2>5. a = b
    BY <2>2, <2>4
  <2>6. PICK p, q : p = e.path /\ q = f.path
    OBVIOUS
  <2>7. p[1] \in Nat /\ p[2] \in Nat /\ q[1] \in Nat /\ q[2] \in Nat
    BY <1>1, <1>5, <2>6
  <2> QED BY <2>1, <2>2, <2>3, <2>4, <2>5, <2>6, <2>7 DEF Precedes
<1>7. ASSUME e.action # "COPY", NEW f \in filemap, f.action = "COPY" PROVE FALSE
  <2>1. Precedes(e, f)
    BY <1>7 DEF First
  <2>2. ActionOrder[e.action] < ActionOrder["COPY"]
    BY <1>7, <2>1 DEF Precedes
  <2> QED BY <1>1, <1>2, <1>3, <1>4, <2>2
<1> QED BY <1>6, <1>7

-----------------------------------------------------------------------------
(* The keys.                                                               *)

\* The keys of relation r are left alone, put in place after their last use, or
\* looked up.
KeySame(r) == tmp'[r] = tmp[r] /\ (cur' = cur \/ (cur.path # Main(r) /\ cur'.path # Main(r)))
KeyDone(r) == cur.path = Main(r) /\ cur # NoFile /\ cur'.path # Main(r) /\ tmp'[r] = cur.tk
KeyTaken(r) ==
    /\ cur.path # Main(r) /\ tmp'[r] = tmp[r]
    /\ cur' = IF tmp[r] = None THEN NoFile
              ELSE [path |-> Main(r), sk |-> tmp[r], tk |-> tkeys[r]]

\* From files f to g, the free space map of r stays or is re-encrypted.
FsmSame(r, f, g) ==
    /\ Fsm(r) \in DOMAIN g <=> Fsm(r) \in DOMAIN f
    /\ Fsm(r) \in DOMAIN f => g[Fsm(r)] = f[Fsm(r)]
FsmDone(r, f, g) ==
    /\ Fsm(r) \in DOMAIN g <=> Fsm(r) \in DOMAIN f
    /\ Fsm(r) \in DOMAIN f =>
          /\ Len(g[Fsm(r)]) = Len(f[Fsm(r)])
          /\ \A i \in 1 .. Len(f[Fsm(r)]) :
                g[Fsm(r)][i] = ReencryptBlock(f[Fsm(r)][i], cur.sk, cur.tk, i - 1, i - 1)

Flushed(r, f, g) == (KeySame(r) /\ FsmSame(r, f, g)) \/ (KeyDone(r) /\ FsmDone(r, f, g))

LEMMA MainFacts ==
    ASSUME NEW r \in Rels
    PROVE  /\ Main(r) \in Paths /\ IsRelFile(Main(r)) /\ Main(r)[1] = r /\ Main(r)[2] = 0
           /\ ~IsWal(Main(r)) /\ Main(r) # <<>> /\ Main(r) \notin WalPaths
           /\ Fsm(r) # <<>> /\ ~IsRelFile(Fsm(r)) /\ Fsm(r) # Main(r) /\ Fsm(r)[1] = r
           /\ ~IsWal(Fsm(r)) /\ Fsm(r) \notin WalPaths
<1>1. LastSeg \in Nat /\ 0 \in 0 .. LastSeg
  BY PathFacts
<1>2. Main(r) \in Paths
  BY <1>1 DEF Main, Paths, Parts
<1>3. FsmPart # 0 /\ ~(FsmPart <= LastSeg)
  BY <1>1 DEF FsmPart
<1>4. r # WalDir
  BY PathFacts
<1> QED BY <1>1, <1>2, <1>3, <1>4, PathFacts DEF Main, Fsm, IsRelFile, IsWal, WalPaths

LEMMA OnlyMain ==
    ASSUME NEW r, Old(r), NEW p \in Paths, IsRelFile(p), Here(p), p[1] = r
    PROVE  p = Main(r)
<1>1. r \in Rels /\ Main(r) \in DOMAIN src /\ Main(r)[1] = r
  BY MainFacts DEF Old
<1>2. p \in DOMAIN src
  BY <1>1 DEF Here, OnSource
<1>3. p = <<r, p[2]>> /\ p[2] \in Nat /\ p[2] <= LastSeg /\ LastSeg \in Nat
  BY PathFacts DEF IsRelFile
<1>4. p[2] \notin 1 .. LastSeg
  BY <1>2, <1>3 DEF Old
<1>5. p[2] = 0
  BY <1>3, <1>4
<1> QED BY <1>3, <1>5 DEF Main

\* The current file is flushed.
LEMMA FlushOther ==
    ASSUME Performing, cur # NoFile => Here(cur.path), NEW r, Old(r),
           tmp' = FlushRelKey, cur'.path # Main(r), NEW f, IsFiles(f), IsFile(f)
    PROVE  Flushed(r, f, FlushFiles(f))
<1>1. KeyTypes /\ KeysInv
  BY PerformingFacts
<1>2. r \in Rels /\ Main(r) # <<>> /\ Main(r)[1] = r /\ Main(r)[2] = 0
  BY MainFacts DEF Old
<1>3. cur # NoFile => cur.sk # None /\ cur.path \in Paths /\ IsRelFile(cur.path) /\ cur.path[1] \in Rels
  BY <1>1, PathFacts DEF KeyTypes, KeysInv, Files
<1>4. CASE cur.path = Main(r)
  <2>1. cur # NoFile
    BY <1>2, <1>4 DEF NoFile
  <2>2. tmp'[r] = cur.tk
    BY <1>1, <1>2, <1>3, <1>4, <2>1, FlushKeyFacts
  <2>3. Fsm(r) = <<cur.path[1], FsmPart>> /\ cur.path[2] = 0 /\ cur.sk # None
    BY <1>2, <1>3, <1>4, <2>1 DEF Fsm
  <2>4. ASSUME NEW i \in Int PROVE i - 1 + cur.path[2] * SegBlocks = i - 1
    BY <2>3, PathFacts
  <2>5. Fsm(r) \in DOMAIN f => Len(f[Fsm(r)]) \in Nat
    BY FilesDef
  <2>6. FsmDone(r, f, FlushFiles(f))
    <3>1. /\ DOMAIN FlushFiles(f) = DOMAIN f
          /\ Fsm(r) \in DOMAIN f => Len(FlushFiles(f)[Fsm(r)]) = Len(f[Fsm(r)])
      BY <1>1, FlushFacts
    <3>2. ASSUME Fsm(r) \in DOMAIN f, NEW i \in 1 .. Len(f[Fsm(r)])
          PROVE  FlushFiles(f)[Fsm(r)][i] = ReencryptBlock(f[Fsm(r)][i], cur.sk, cur.tk, i - 1, i - 1)
      <4>1. FlushFiles(f)[Fsm(r)][i] =
              ReencryptBlock(f[Fsm(r)][i], cur.sk, cur.tk, i - 1 + cur.path[2] * SegBlocks, i - 1)
        BY <1>1, <2>3, <3>2, FlushFacts
      <4>2. i - 1 + cur.path[2] * SegBlocks = i - 1
        BY <2>4, <2>5, <3>2
      <4> QED BY <4>1, <4>2
    <3> QED BY <3>1, <3>2 DEF FsmDone
  <2> QED BY <1>4, <2>1, <2>2, <2>6 DEF Flushed, KeyDone
<1>5. CASE cur.path # Main(r)
  <2>1. cur = NoFile \/ cur.path[1] # r
    BY <1>3, <1>5, OnlyMain
  <2>2. cur = NoFile => cur.sk = None
    BY DEF NoFile
  <2>3. tmp'[r] = tmp[r]
    BY <1>1, <1>2, <2>1, <2>2, FlushKeyFacts
  <2>4. Fsm(r) # <<cur.path[1], FsmPart>> \/ cur.sk = None
    BY <2>1, <2>2 DEF Fsm
  <2>5. FsmSame(r, f, FlushFiles(f))
    BY <1>1, <2>4, FlushFacts DEF FsmSame
  <2> QED BY <1>5, <2>3, <2>5 DEF Flushed, KeySame
<1> QED BY <1>4, <1>5

\* The keys of another file are looked up.
LEMMA EnsureOther ==
    ASSUME Performing, cur # NoFile => Here(cur.path), NEW r, Old(r), skeys' = skeys, tkeys' = tkeys,
           NEW path \in Paths, path # Main(r), EnsureTdeKeys(path), NEW f, IsFiles(f), IsFile(f)
    PROVE  Flushed(r, f, EnsureFiles(f, path))
<1>1. KeyTypes /\ step # "replayed" /\ r \in Rels
  BY PerformingFacts DEF Performing, Old
<1>2. CASE IsCurrent(cur, path)
  <2>1. tmp' = tmp /\ cur' = cur
    BY <1>1, <1>2, EnsureFacts
  <2>2. EnsureFiles(f, path) = f
    BY <1>2 DEF EnsureFiles
  <2> QED BY <2>1, <2>2 DEF Flushed, KeySame, FsmSame
<1>3. CASE ~IsCurrent(cur, path)
  <2>1. tmp' = FlushRelKey /\ (cur' = NoFile \/ cur'.path = path)
    <3>1. /\ tmp' = FlushRelKey
          /\ tmp'[path[1]] = None => cur' = NoFile
          /\ tmp'[path[1]] # None => cur' = [path |-> path, sk |-> tmp'[path[1]], tk |-> tkeys[path[1]]]
      BY <1>1, <1>3, EnsureFacts
    <3> QED BY <3>1
  <2>2. cur'.path # Main(r)
    BY <1>1, <2>1, MainFacts DEF NoFile
  <2>3. EnsureFiles(f, path) = FlushFiles(f)
    BY <1>3 DEF EnsureFiles
  <2> QED BY <2>1, <2>2, <2>3, FlushOther
<1> QED BY <1>2, <1>3

\* The keys of the relation itself are looked up.
LEMMA EnsureMain ==
    ASSUME Performing, cur # NoFile => Here(cur.path), NEW r, Old(r), skeys' = skeys, tkeys' = tkeys,
           EnsureTdeKeys(Main(r)), NEW f, IsFiles(f), IsFile(f)
    PROVE  /\ FsmSame(r, f, EnsureFiles(f, Main(r)))
           /\ cur.path = Main(r) => tmp' = tmp /\ cur' = cur /\ step' = "perform"
           /\ cur.path # Main(r) =>
                 KeyTaken(r) /\ (step' = "crashed" => tmp[r] # None /\ tkeys[r] = None)
           /\ step' \in {"perform", "crashed"}
<1>1. KeyTypes /\ KeysInv /\ step = "perform" /\ r \in Rels
  BY PerformingFacts DEF Performing, Old
<1>2. Main(r) \in Paths /\ Main(r)[1] = r /\ Main(r) # <<>>
  BY <1>1, MainFacts
<1>3. CASE cur.path = Main(r)
  <2>1. IsCurrent(cur, Main(r))
    BY <1>3 DEF IsCurrent
  <2>2. tmp' = tmp /\ cur' = cur /\ step' = step
    BY <1>1, <1>2, <2>1, EnsureFacts
  <2>3. EnsureFiles(f, Main(r)) = f
    BY <2>1 DEF EnsureFiles
  <2> QED BY <1>1, <1>3, <2>2, <2>3 DEF FsmSame
<1>4. CASE cur.path # Main(r)
  <2>1. ~IsCurrent(cur, Main(r))
    BY <1>4 DEF IsCurrent
  <2>2. /\ tmp' = FlushRelKey /\ step' \in {step, "crashed"}
        /\ tmp'[r] = None => cur' = NoFile /\ step' = step
        /\ tmp'[r] # None =>
              /\ cur' = [path |-> Main(r), sk |-> tmp'[r], tk |-> tkeys[r]]
              /\ tkeys[r] # None => step' = step
    BY <1>1, <1>2, <2>1, EnsureFacts
  <2>3. cur # NoFile => cur.sk # None /\ cur.path \in Paths /\ IsRelFile(cur.path) /\ cur.path[1] \in Rels
    BY <1>1, PathFacts DEF KeyTypes, KeysInv, Files
  <2>4. cur = NoFile \/ cur.path[1] # r
    BY <1>4, <2>3, OnlyMain
  <2>5. cur = NoFile => cur.sk = None
    BY DEF NoFile
  <2>6. tmp'[r] = tmp[r]
    BY <1>1, <2>2, <2>4, <2>5, FlushKeyFacts
  <2>7. Fsm(r) # <<cur.path[1], FsmPart>> \/ cur.sk = None
    BY <2>4, <2>5 DEF Fsm
  <2>8. FsmSame(r, f, EnsureFiles(f, Main(r)))
    <3>1. EnsureFiles(f, Main(r)) = FlushFiles(f)
      BY <2>1 DEF EnsureFiles
    <3> QED BY <1>1, <2>7, <3>1, FlushFacts DEF FsmSame
  <2> QED BY <1>1, <1>4, <2>2, <2>6, <2>8 DEF KeyTaken
<1> QED BY <1>3, <1>4

-----------------------------------------------------------------------------
(* What is about other files leaves a relation as it is.                   *)

SameEntries(p) == \A e : e.path = p => (e \in filemap' <=> e \in filemap)

SameFor(p) ==
    /\ SameEntries(p)
    /\ \A i \in Nat : Requested(p, i) => Requested(p, i)'
    /\ Asked(p)' <=> Asked(p)
    /\ \A x \in BOOLEAN : Asks(p, x) => Asks(p, x)'

FileSame(p, f, g) ==
    /\ p \in DOMAIN g <=> p \in DOMAIN f
    /\ p \in DOMAIN f => g[p] = f[p]

LEMMA EntriesSame ==
    ASSUME NEW p, SameEntries(p)
    PROVE  /\ EntryOf(p)' <=> EntryOf(p)
           /\ Unbegun(p)' <=> Unbegun(p)
           /\ \A i : Planned(p, i)' <=> Planned(p, i)
BY DEF SameEntries, EntryOf, Unbegun, Planned, Plans

LEMMA MainKept ==
    ASSUME Performing, SameSource, NEW r, Old(r), MainOK(r), SameFor(Main(r)),
           FileSame(Main(r), tgt, tgt'),
           KeySame(r) \/ (KeyDone(r) /\ ~EntryOf(Main(r)) /\ ~Asked(Main(r)))
    PROVE  MainOK(r)'
<1> DEFINE M == Main(r)
<1> USE DEF SameSource
<1>1. KeysInv /\ M \in Paths /\ r \in Rels
  BY PerformingFacts, MainFacts DEF Old
<1>2. /\ EntryOf(M)' <=> EntryOf(M)
      /\ Unbegun(M)' <=> Unbegun(M)
      /\ \A i : Planned(M, i)' <=> Planned(M, i)
      /\ Asked(M)' <=> Asked(M)
      /\ \A e \in filemap' : e.path = M => e \in filemap
      /\ \A e \in filemap : e.path = M => e \in filemap'
  BY EntriesSame DEF SameFor, SameEntries
<1>3. /\ M \in DOMAIN tgt' <=> M \in DOMAIN tgt
      /\ M \in DOMAIN tgt => tgt'[M] = tgt[M]
      /\ \A k : M \in DOMAIN tgt /\ FileKey(M, k) => FileKey(M, k)'
  BY DEF FileSame, FileKey
<1>4. \A x \in BOOLEAN : Asks(M, x) => Asks(M, x)'
  BY DEF SameFor
<1>5. BlocksOK(r)'
  <2>1. ASSUME NEW i \in 1 .. Len(src[M])
        PROVE  Planned(M, i)' \/ Requested(M, i)' \/ Written(M, i)'
    <3>1. i \in Nat
      OBVIOUS
    <3>2. Planned(M, i) \/ Requested(M, i) \/ Written(M, i)
      BY DEF MainOK, BlocksOK
    <3>3. Written(M, i) => Written(M, i)'
      BY <1>3 DEF Written
    <3>4. Requested(M, i) => Requested(M, i)'
      BY <3>1 DEF SameFor
    <3> QED BY <1>2, <3>2, <3>3, <3>4
  <2>2. EntryOf(M)' \/ M \in DOMAIN tgt'
    BY <1>2, <1>3 DEF MainOK, BlocksOK
  <2>3. M \in DOMAIN tgt' =>
            \/ Len(tgt'[M]) <= Len(src[M])
            \/ \E e \in filemap' : e.path = M /\ e.action = "TRUNCATE"
    BY <1>2, <1>3 DEF MainOK, BlocksOK
  <2> HIDE DEF M
  <2>4. M = Main(r)
    BY DEF M
  <2> QED BY <2>1, <2>2, <2>3, <2>4 DEF BlocksOK
<1>6. CASE Copied(r)
  <2>1. KeySame(r)
    BY <1>6 DEF Copied, KeyDone
  <2>2. tmp'[r] = skeys[r] /\ cur'.path # M
    BY <1>6, <2>1 DEF KeySame, Copied
  <2>3. Asks(M, FALSE)'
    BY <1>4, <1>6 DEF Copied
  <2>4. Copied(r)'
    BY <1>2, <1>3, <1>6, <2>2, <2>3 DEF Copied
  <2> QED BY <1>5, <2>4 DEF MainOK
<1>7. CASE Patched(r)
  <2>1. /\ M \in DOMAIN tgt' /\ FileKey(M, tkeys[r])' /\ Asks(M, TRUE)'
        /\ \A e \in filemap' : e.path = M => e.action # "COPY"
    BY <1>2, <1>3, <1>4, <1>7 DEF Patched
  <2>2. KeyState(r)'
    <3>1. CASE KeySame(r)
      <4>1. CASE cur' = cur
        BY <1>2, <1>7, <3>1, <4>1 DEF Patched, KeyState, KeySame, Waiting, Current, Finished
      <4>2. CASE cur.path # M /\ cur'.path # M
        BY <1>2, <1>7, <3>1, <4>2 DEF Patched, KeyState, KeySame, Waiting, Current, Finished
      <4> QED BY <3>1, <4>1, <4>2 DEF KeySame
    <3>2. CASE KeyDone(r) /\ ~EntryOf(M) /\ ~Asked(M)
      <4>1. cur.tk = tkeys[r]
        <5>1. M[1] = r
          BY <1>1, MainFacts
        <5> QED BY <1>1, <3>2, <5>1 DEF KeysInv, KeyDone
      <4>2. skeys[r] # None
        BY <1>7, <3>2 DEF Patched, KeyState, KeyDone
      <4>3. Finished(r)'
        BY <1>2, <3>2, <4>1 DEF Finished, KeyDone
      <4> QED BY <4>2, <4>3 DEF KeyState
    <3> QED BY <3>1, <3>2
  <2>3. Patched(r)'
    BY <1>7, <2>1, <2>2 DEF Patched
  <2> QED BY <1>5, <2>3 DEF MainOK
<1> QED BY <1>6, <1>7 DEF MainOK

LEMMA FsmKept ==
    ASSUME Performing, SameSource, NEW r, Old(r), MainOK(r), FsmOK(r), SameEntries(Fsm(r)),
           \/ tmp'[r] = tmp[r] /\ FsmSame(r, tgt, tgt')
           \/ KeyDone(r) /\ FsmDone(r, tgt, tgt'),
           IsFiles(tgt)'
    PROVE  FsmOK(r)'
<1> DEFINE F == Fsm(r)
<1> USE DEF SameSource
<1>1. KeysInv /\ KeyTypes /\ r \in Rels /\ F[1] = r /\ IsFiles(tgt)
  BY PerformingFacts, MainFacts DEF Old
<1>2. SUFFICES ASSUME mode = "local", F \in DOMAIN src, ~EntryOf(F)'
               PROVE  Whole(F)'
  BY DEF FsmOK
<1>3. Whole(F)
  BY <1>2, EntriesSame DEF FsmOK
<1>4. CASE tmp'[r] = tmp[r] /\ FsmSame(r, tgt, tgt')
  BY <1>1, <1>3, <1>4 DEF Whole, FsmSame
<1>5. CASE KeyDone(r) /\ FsmDone(r, tgt, tgt')
  <2>1. cur.path = Main(r) /\ cur # NoFile /\ tmp'[r] = cur.tk
    BY <1>5 DEF KeyDone
  <2>2. Current(r) /\ skeys[r] # None
    BY <2>1 DEF MainOK, Copied, Patched, KeyState, Waiting, Finished
  <2>3. cur.sk = tmp[r] /\ cur.sk # None /\ cur.sk \in FileKeys /\ cur.tk \in FileKeys
    BY <1>1, <2>1, <2>2, KeyFacts DEF Current, KeyTypes, Files
  <2>4. /\ F \in DOMAIN tgt /\ Len(tgt[F]) = Len(src[F]) /\ Len(tgt[F]) \in Nat /\ DOMAIN tgt[F] = 1 .. Len(tgt[F])
        /\ \A i \in 1 .. Len(tgt[F]) : tgt[F][i] \in Blocks
        /\ \A i \in 1 .. Len(tgt[F]) : tgt[F][i].key = tmp[r] /\ tgt[F][i].data = "c"
    BY <1>1, <1>3, FilesDef DEF Whole
  <2>5. /\ F \in DOMAIN tgt' /\ Len(tgt'[F]) = Len(tgt[F])
        /\ \A i \in 1 .. Len(tgt[F]) :
              tgt'[F][i] = ReencryptBlock(tgt[F][i], cur.sk, cur.tk, i - 1, i - 1)
    BY <1>5, <2>4 DEF FsmDone
  <2>6. \A i \in 1 .. Len(tgt[F]) : tgt'[F][i] = Block(cur.tk, "c")
    BY <2>3, <2>4, <2>5, ReencryptFacts
  <2>7. DOMAIN tgt'[F] = 1 .. Len(tgt[F])
    BY <2>5, FilesDef
  <2> QED BY <1>1, <2>1, <2>4, <2>5, <2>6, <2>7 DEF Whole, Block
<1> QED BY <1>4, <1>5

-----------------------------------------------------------------------------
(* The order of the work.                                                  *)

\* What is left of the file map when entry e, or one of its pages, is done.
Rest(e) ==
    \A f \in filemap' :
       \/ f \in filemap /\ f.path # e.path /\ f.left = f.pages
       \/ /\ f.path = e.path /\ f.action = e.action /\ f.left # f.pages
          /\ \A g \in filemap' : f = g \/ Precedes(f, g)

LEMMA RestGone ==
    ASSUME Performing, OrderOK, NEW e \in filemap, First(e), filemap' = filemap \ {e}
    PROVE  Rest(e)
<1>1. ASSUME NEW f \in filemap' PROVE f \in filemap /\ f.path # e.path /\ f.left = f.pages
  <2>1. f \in filemap /\ f # e
    OBVIOUS
  <2>2. f.path # e.path
    BY <2>1, PerformingFacts DEF WorkTypes
  <2>3. f.left = f.pages
    BY <2>1, FirstFacts DEF OrderOK
  <2> QED BY <2>1, <2>2, <2>3
<1> QED BY <1>1 DEF Rest

LEMMA RestPage ==
    ASSUME Performing, OrderOK, NEW e \in filemap, First(e), NEW b \in e.left,
           NEW d, d = [e EXCEPT !.left = @ \ {b}], filemap' = (filemap \ {e}) \cup {d}
    PROVE  Rest(e)
<1>1. e \in Entries /\ EntryOK(e) /\ e.left \subseteq e.pages
  BY PerformingFacts DEF EntryOK
<1>2. d.path = e.path /\ d.action = e.action /\ d.left = e.left \ {b} /\ d.pages = e.pages
  BY <1>1 DEF Entries
<1>3. ASSUME NEW f \in filemap', f # d
      PROVE  f \in filemap /\ f # e /\ f.path # e.path /\ f.left = f.pages
  <2>1. f \in filemap /\ f # e
    BY <1>3
  <2>2. f.path # e.path
    BY <2>1, PerformingFacts DEF WorkTypes
  <2>3. f.left = f.pages
    BY <2>1, FirstFacts DEF OrderOK
  <2> QED BY <2>1, <2>2, <2>3
<1>4. ASSUME NEW g \in filemap' PROVE d = g \/ Precedes(d, g)
  <2>1. g # d => Precedes(e, g)
    BY <1>3 DEF First
  <2> QED BY <1>2, <2>1 DEF Precedes
<1>5. d.left # d.pages
  BY <1>1, <1>2
<1>6. ASSUME NEW f \in filemap'
      PROVE  \/ f \in filemap /\ f.path # e.path /\ f.left = f.pages
             \/ /\ f.path = e.path /\ f.action = e.action /\ f.left # f.pages
                /\ \A g \in filemap' : f = g \/ Precedes(f, g)
  <2>1. CASE f = d
    BY <1>2, <1>4, <1>5, <2>1
  <2>2. CASE f # d
    BY <1>3, <2>2
  <2> QED BY <2>1, <2>2
<1> QED BY <1>6 DEF Rest

LEMMA NotAsked ==
    ASSUME NEW p, ~Asked(p)
    PROVE  Rows(p) = {} /\ AtEnd(p) /\ AtHead(p)
<1>1. Rows(p) = {}
  BY DEF Asked, Rows
<1> QED BY <1>1 DEF AtEnd, AtHead

LEMMA NoFileNotAsked ==
    ASSUME WorkTypes, NEW p, p \notin Paths \cup WalPaths
    PROVE  Rows(p) = {} /\ AtEnd(p) /\ AtHead(p)
<1>1. queue \in Seq(Requests) /\ \A k \in DOMAIN queue : queue[k] \in Requests
  BY DEF WorkTypes
<1>2. \A k \in DOMAIN queue : queue[k].path # p
  BY <1>1 DEF Requests
<1> QED BY <1>2 DEF Rows, AtEnd, AtHead

LEMMA QueueSame ==
    ASSUME queue' = queue, want' = want
    PROVE  /\ Contiguous' <=> Contiguous
           /\ \A p : /\ Rows(p)' = Rows(p) /\ (AtEnd(p)' <=> AtEnd(p)) /\ (AtHead(p)' <=> AtHead(p))
                     /\ (Asked(p)' <=> Asked(p))
                     /\ \A i : Requested(p, i)' <=> Requested(p, i)
                     /\ \A x : Asks(p, x)' <=> Asks(p, x)
BY DEF Contiguous, Rows, AtEnd, AtHead, Asked, Requested, Asks

LEMMA SourceKept ==
    ASSUME SameSource, created' = created
    PROVE  /\ \A r : Old(r)' <=> Old(r)
           /\ \A p : Here(p)' <=> Here(p)
BY DEF SameSource, Old, Here, OnSource

\* A turn of the queueing, for entry e or for the rest of its range.
LEMMA OrderTurn ==
    ASSUME Performing, Typed', OrderOK, CurOK, SameSource, created' = created, mode = "remote", cur' = cur,
           NEW path \in Paths \cup WalPaths, NEW enc, NEW off, NEW len,
           TurnBlocks(path, enc, off, len), AtEnd(path),
           cur # NoFile => cur.path # path /\ ~Asked(cur.path),
           \A f \in filemap' : f.path # cur.path,
           \A f \in filemap' : f.left # f.pages =>
              f.path = path /\ \A g \in filemap' : f = g \/ Precedes(f, g),
           want' # NoRange => \A f \in filemap' : f.left = f.pages
    PROVE  OrderOK' /\ CurOK'
<1>1. KeyTypes /\ WorkTypes
  BY PerformingFacts
<1>2. cur = NoFile \/ cur.path \in Paths
  BY <1>1 DEF KeyTypes, Files
<1>3. Contiguous' /\ AtEnd(path)' /\ fetching' = FALSE /\ (want' # NoRange => want'.path = path)
  BY DEF TurnBlocks, OrderOK
<1>4. OrderOK'
  <2>1. \A p : p = path => AtEnd(p)'
    BY <1>3
  <2>2. \A f \in filemap' : f.left # f.pages => First(f)' /\ AtEnd(f.path)'
    BY <2>1 DEF First
  <2>3. want' # NoRange => AtEnd(want.path)'
    BY <1>3, <2>1 DEF AtEnd, Rows
  <2> QED BY <1>3, <2>2, <2>3 DEF OrderOK
<1>5. CASE cur # NoFile
  <2>1. PICK p \in Paths : p = cur.path
    BY <1>2, <1>5
  <2>2. p # path /\ ~Asked(p)
    BY <1>5, <2>1
  <2>3. Rows(p)' = {} /\ ~Asked(p)'
    <3>1. Rows(p) = {}
      BY <2>2, NotAsked
    <3> QED BY <2>1, <2>2, <3>1 DEF TurnBlocks
  <2>4. AtHead(p)'
    BY <2>3 DEF AtHead
  <2>5. Here(p)'
    BY <1>5, <2>1, SourceKept DEF CurOK
  <2>6. mode' = "remote"
    BY DEF SameSource
  <2>7. AtHead(cur.path)'
    BY <2>1, <2>4 DEF AtHead, Rows
  <2>8. ~Asked(cur.path)'
    BY <2>1, <2>3 DEF Asked
  <2>9. Here(cur.path)'
    BY <2>1, <2>5 DEF Here, OnSource
  <2>10. \A e \in filemap' : cur'.path # e.path
    OBVIOUS
  <2> QED BY <1>4, <2>6, <2>7, <2>8, <2>9, <2>10 DEF CurOK
<1>6. CASE cur = NoFile
  <2>1. \A k \in DOMAIN queue' : queue'[k].path # <<>>
    <3>1. queue' \in Seq(Requests)
      BY DEF Typed, WorkTypes
    <3>2. \A k \in DOMAIN queue' : queue'[k] \in Requests
      BY <3>1
    <3> QED BY <3>2, PathFacts DEF Requests
  <2>2. cur' = NoFile /\ cur'.path = <<>> /\ mode' = "remote"
    BY <1>6 DEF NoFile, SameSource
  <2>3. AtHead(cur.path)'
    BY <2>1, <2>2 DEF AtHead, Rows
  <2>4. \A e \in filemap' : cur'.path # e.path
    OBVIOUS
  <2> QED BY <1>4, <2>2, <2>3, <2>4 DEF CurOK
<1> QED BY <1>4, <1>5, <1>6

\* An entry, or one of its pages, is done without requests.
LEMMA OrderEntry ==
    ASSUME Performing, Ready, OrderOK, CurOK, SameSource, created' = created, NEW e \in filemap, First(e),
           Rest(e), \A f \in filemap' : f.path # e.path \/ mode = "local",
           UNCHANGED requests,
           \/ cur' = cur /\ tmp' = tmp

           \/ cur' = NoFile /\ e.action # "COPY"
           \/ cur'.path = e.path /\ e.path \in Paths /\ Here(e.path) /\ ~Asked(e.path) /\ e.action # "COPY"
    PROVE  OrderOK' /\ CurOK'
<1>1. KeyTypes /\ WorkTypes /\ LocalOK /\ mode \in {"local", "remote"} /\ want = NoRange /\ ~fetching
  BY PerformingFacts DEF Ready
<1>2. queue' = queue /\ want' = want /\ fetching' = fetching /\ mode' = mode
  BY DEF requests, SameSource
<1>3. cur = NoFile \/ cur.path \in Paths
  BY <1>1 DEF KeyTypes, Files
<1>4. NoFile.path = <<>> /\ \A p \in Paths : p # <<>>
  BY PathFacts DEF NoFile
<1>5. /\ Contiguous' <=> Contiguous
      /\ \A p : (AtEnd(p)' <=> AtEnd(p)) /\ (AtHead(p)' <=> AtHead(p)) /\ (Asked(p)' <=> Asked(p))
  BY <1>2, QueueSame
<1>6. mode = "local" => \A p : AtEnd(p)
  BY <1>1 DEF LocalOK, AtEnd, Rows
<1>7. OrderOK'
  <2>1. Contiguous' /\ ~fetching' /\ want' = NoRange
    BY <1>1, <1>2, <1>5 DEF OrderOK
  <2>2. ASSUME NEW f \in filemap', f.left # f.pages
        PROVE  First(f)' /\ AtEnd(f.path)'
    <3>1. f.path = e.path /\ \A g \in filemap' : f = g \/ Precedes(f, g)
      BY <2>2 DEF Rest
    <3>2. mode = "local"
      BY <2>2, <3>1
    <3>3. AtEnd(f.path)'
      BY <1>5, <1>6, <3>2
    <3> QED BY <3>1, <3>3 DEF First
  <2> QED BY <2>1, <2>2 DEF OrderOK
<1>8. \A r : Old(r)' <=> Old(r)
  BY SourceKept
<1>9. \A p : Here(p)' <=> Here(p)
  BY SourceKept
<1>10. PICK q : q = cur'.path
  OBVIOUS
<1>11. \/ q = cur.path /\ cur' = cur
       \/ q = <<>> /\ cur' = NoFile
       \/ q = e.path /\ Here(e.path) /\ ~Asked(e.path) /\ e.path \in Paths
  BY <1>4, <1>10
<1>12. AtHead(q)
  BY <1>1, <1>3, <1>4, <1>11, NotAsked, NoFileNotAsked, PathFacts DEF CurOK
<1>13. cur' # NoFile => Here(q) /\ ~Asked(q)
  <2>1. filemap # {}
    OBVIOUS
  <2> QED BY <1>1, <1>11, <2>1 DEF CurOK
<1>14. ASSUME NEW f \in filemap', mode = "remote" \/ f.left = f.pages
       PROVE  q # f.path
  <2>1. f \in filemap /\ f.path # e.path /\ f.left = f.pages
    BY <1>1, <1>14 DEF Rest
  <2>2. f.path # <<>>
    BY <1>1, <2>1, PathFacts DEF WorkTypes, Entries
  <2> QED BY <1>11, <2>1, <2>2 DEF CurOK
<1>15. ASSUME mode = "local", NEW f \in filemap', f.action = "COPY"
       PROVE  cur' = NoFile /\ \A r \in Rels : Old(r) => tmp'[r] = skeys[r]
  <2>1. f \in filemap \/ f.action = e.action
    BY DEF Rest
  <2>2. e.action = "COPY"
    BY <1>15, <2>1, FirstFacts
  <2>3. cur' = cur /\ tmp' = tmp
    BY <2>2
  <2> QED BY <1>15, <2>2, <2>3 DEF CurOK
<1>16. skeys' = skeys
  BY DEF SameSource
<1>17. AtHead(cur.path)'
  BY <1>5, <1>10, <1>12 DEF AtHead, Rows
<1>18. cur' # NoFile => Here(cur.path)' /\ ~Asked(cur.path)'
  <2>1. cur' # NoFile => Here(q)' /\ ~Asked(q)'
    BY <1>5, <1>9, <1>13
  <2> QED BY <1>10, <2>1 DEF Here, OnSource, Asked
<1>19. CurOK'
  BY <1>2, <1>8, <1>10, <1>14, <1>15, <1>16, <1>17, <1>18 DEF CurOK
<1> QED BY <1>7, <1>19

\* A row of the requests is done.
LEMMA OrderRow ==
    ASSUME Performing, Done, OrderOK, CurOK, SameSource, created' = created, queue # <<>>,
           queue' = Tail(queue), want' = want, filemap' = filemap, fetching' = FALSE, mode = "remote",
           cur' = cur \/ cur' = NoFile \/ (cur'.path = queue[1].path /\ Here(queue[1].path))
    PROVE  OrderOK' /\ CurOK'
<1>1. WorkTypes /\ want = NoRange /\ filemap = {}
  BY PerformingFacts DEF Done, Ready
<1>2. PopBlocks
  BY <1>1, PopBlocksFacts
<1>3. Contiguous' /\ \A p : p = queue[1].path => AtHead(p)'
  BY <1>2 DEF PopBlocks, OrderOK
<1>4. OrderOK'
  BY <1>1, <1>3 DEF OrderOK
<1>5. \A p : p = cur'.path => AtHead(p)'
  <2>1. AtHead(cur.path) /\ AtHead(<<>>)
    BY <1>1, PathFacts, NoFileNotAsked DEF CurOK
  <2>2. \A p : AtHead(p) => AtHead(p)'
    BY <1>2 DEF PopBlocks
  <2>3. NoFile.path = <<>>
    BY DEF NoFile
  <2> QED BY <1>3, <2>1, <2>2, <2>3
<1>6. AtHead(cur.path)'
  BY <1>5 DEF AtHead, Rows
<1>7. cur' # NoFile => \A p : p = cur'.path => Here(p)'
  BY SourceKept DEF CurOK
<1>8. cur' # NoFile => Here(cur.path)'
  BY <1>7 DEF Here, OnSource
<1>9. mode' = "remote"
  BY DEF SameSource
<1>10. CurOK'
  BY <1>1, <1>6, <1>8, <1>9 DEF CurOK
<1> QED BY <1>4, <1>10

\* The current file is not used any more when another one is begun.
LEMMA EntryNotUsed ==
    ASSUME Performing, OrderOK, CurOK, NEW e \in filemap, First(e), cur # NoFile, cur.path # e.path
    PROVE  ~EntryOf(cur.path) /\ ~Asked(cur.path)
<1>1. ~Asked(cur.path)
  BY DEF CurOK
<1>2. ASSUME NEW f \in filemap, f.path = cur.path PROVE FALSE
  <2>1. f.left # f.pages
    BY <1>2 DEF CurOK
  <2>2. First(f)
    BY <2>1 DEF OrderOK
  <2>3. f = e
    BY <2>2, FirstFacts
  <2> QED BY <1>2, <2>3
<1> QED BY <1>1, <1>2 DEF EntryOf

LEMMA RowNotUsed ==
    ASSUME Performing, Done, CurOK, queue # <<>>, queue' = Tail(queue), want' = want,
           cur # NoFile, cur.path # queue[1].path
    PROVE  ~EntryOf(cur.path) /\ ~Asked(cur.path)
<1>1. WorkTypes /\ KeyTypes /\ filemap = {} /\ want = NoRange
  BY PerformingFacts DEF Done, Ready
<1>2. cur.path # <<>>
  BY <1>1, PathFacts DEF KeyTypes, Files
<1>3. \A k \in DOMAIN queue : queue[k].path # cur.path
  BY <1>1, PopBlocksFacts DEF PopBlocks, CurOK
<1> QED BY <1>1, <1>2, <1>3 DEF EntryOf, Asked, NoRange

-----------------------------------------------------------------------------
(* The entries of a file.                                                  *)

LEMMA EntriesOfOthers ==
    ASSUME Performing, NEW e \in filemap, NEW d, d.path = e.path,
           filemap' = filemap \ {e} \/ filemap' = (filemap \ {e}) \cup {d}, NEW p, p # e.path
    PROVE  SameEntries(p)
<1>1. ASSUME NEW f, f.path = p PROVE f \in filemap' <=> f \in filemap
  BY <1>1
<1> QED BY <1>1 DEF SameEntries

LEMMA EntryOfGone ==
    ASSUME Performing, NEW e \in filemap, e.left = {}, filemap' = filemap \ {e}, NEW p, p = e.path
    PROVE  /\ \A f \in filemap : f.path = p => f = e
           /\ \A f \in filemap' : f.path # p
           /\ ~EntryOf(p)' /\ ~Unbegun(p)' /\ EntryOf(p) /\ (Unbegun(p) <=> e.pages = {})
           /\ \A i : Planned(p, i) =>
                 e.action = "COPY" \/ (e.action = "COPY_TAIL" /\ i \in e.tsize + 1 .. e.ssize)
<1>1. \A f \in filemap : f.path = p => f = e
  BY PerformingFacts DEF WorkTypes
<1>2. \A f \in filemap' : f.path # p
  BY <1>1
<1>3. ~EntryOf(p)' /\ ~Unbegun(p)' /\ EntryOf(p)
  BY <1>2 DEF EntryOf, Unbegun
<1>4. Unbegun(p) <=> e.pages = {}
  BY <1>1 DEF Unbegun
<1>5. ASSUME NEW i, Planned(p, i)
      PROVE  e.action = "COPY" \/ (e.action = "COPY_TAIL" /\ i \in e.tsize + 1 .. e.ssize)
  <2>1. Plans(e, i)
    BY <1>1, <1>5 DEF Planned
  <2> QED BY <2>1 DEF Plans
<1> QED BY <1>1, <1>2, <1>3, <1>4, <1>5

LEMMA EntryOfPage ==
    ASSUME Performing, NEW e \in filemap, NEW b \in e.left, NEW d, d = [e EXCEPT !.left = @ \ {b}],
           filemap' = (filemap \ {e}) \cup {d}, NEW p, p = e.path
    PROVE  /\ \A f \in filemap : f.path = p => f = e
           /\ \A f \in filemap' : f.path = p => f = d
           /\ d.path = e.path /\ d.action = e.action /\ d \in filemap'
           /\ EntryOf(p)' /\ EntryOf(p)
           /\ \A i \in Nat : Planned(p, i) => Planned(p, i)' \/ i \in b + 1 .. b + 1
<1>1. e \in Entries /\ e.left \subseteq Pages /\ b \in Int
  BY PerformingFacts, PathFacts DEF Entries, Pages
<1>2. /\ d.path = e.path /\ d.action = e.action /\ d.left = e.left \ {b}
      /\ d.tsize = e.tsize /\ d.ssize = e.ssize
  BY <1>1 DEF Entries
<1>3. \A f \in filemap : f.path = p => f = e
  BY PerformingFacts DEF WorkTypes
<1>4. \A f \in filemap' : f.path = p => f = d
  BY <1>3
<1>5. d \in filemap'
  OBVIOUS
<1>6. EntryOf(p)' /\ EntryOf(p)
  BY <1>2, <1>5 DEF EntryOf
<1>7. ASSUME NEW i \in Nat, Planned(p, i), ~(i \in b + 1 .. b + 1) PROVE Planned(p, i)'
  <2>1. Plans(e, i)
    BY <1>3, <1>7 DEF Planned
  <2>2. i - 1 # b
    BY <1>1, <1>7
  <2>3. Plans(d, i)
    BY <1>2, <2>1, <2>2 DEF Plans
  <2> QED BY <1>2, <1>5, <2>3 DEF Planned, Plans
<1> QED BY <1>2, <1>3, <1>4, <1>5, <1>6, <1>7

-----------------------------------------------------------------------------
(* A range of a relation is written.                                       *)

KeyHeld(r) == IF skeys[r] = None THEN tmp[r] = None /\ cur.path # Main(r) ELSE Current(r)

LEMMA KeysHeld ==
    ASSUME Performing, CurOK, SameSource, NEW r, Old(r), Patched(r), EntryOf(Main(r)) \/ Asked(Main(r)),
           EnsureTdeKeys(Main(r)), step' = "perform"
    PROVE  /\ KeyHeld(r)' /\ tmp'[r] = tmp[r]
           /\ skeys[r] = None => cur'.sk = None
           /\ skeys[r] # None => cur'.sk = skeys[r] /\ cur'.tk = tkeys[r]
<1>1. KeysInv /\ IsFiles(tgt) /\ IsFile(tgt) /\ r \in Rels /\ skeys' = skeys /\ tkeys' = tkeys
  BY PerformingFacts DEF SameSource, Old
<1>2. /\ cur.path = Main(r) => tmp' = tmp /\ cur' = cur
      /\ cur.path # Main(r) => KeyTaken(r)
  BY <1>1, EnsureMain DEF CurOK
<1>3. Main(r)[1] = r /\ Main(r) # <<>>
  BY <1>1, MainFacts
<1>4. CASE skeys[r] = None
  <2>1. tmp[r] = None /\ cur.path # Main(r)
    BY <1>4 DEF Patched, KeyState
  <2>2. tmp'[r] = tmp[r] /\ cur' = NoFile
    BY <1>2, <2>1 DEF KeyTaken
  <2>3. cur'.sk = None /\ cur'.path # Main(r)
    BY <1>3, <2>2 DEF NoFile
  <2> QED BY <1>1, <1>4, <2>1, <2>2, <2>3 DEF KeyHeld
<1>5. CASE skeys[r] # None
  <2>1. CASE Waiting(r)
    <3>1. tmp'[r] = skeys[r] /\ cur' = [path |-> Main(r), sk |-> skeys[r], tk |-> tkeys[r]]
      BY <1>2, <1>5, <2>1 DEF Waiting, KeyTaken
    <3>2. cur'.path = Main(r) /\ cur'.sk = skeys[r] /\ cur'.tk = tkeys[r]
      BY <3>1
    <3>3. tmp'[r] = tmp[r]
      BY <2>1, <3>1 DEF Waiting
    <3> QED BY <1>1, <1>5, <3>1, <3>2, <3>3 DEF KeyHeld, Current
  <2>2. CASE Current(r)
    <3>1. tmp' = tmp /\ cur' = cur
      BY <1>2, <2>2 DEF Current
    <3>2. cur.tk = tkeys[r]
      BY <1>1, <1>3, <2>2 DEF KeysInv, Current, NoFile
    <3> QED BY <1>1, <1>5, <2>2, <3>1, <3>2 DEF KeyHeld, Current
  <2>3. ~Finished(r)
    BY DEF Finished
  <2> QED BY <1>5, <2>1, <2>2, <2>3 DEF Patched, KeyState
<1> QED BY <1>4, <1>5

\* A block of the source that is written under the keys of the relation.
LEMMA SourceReencrypted ==
    ASSUME Performing, NEW r, Old(r), NEW c, c.sk \in FileKeys, c.tk \in FileKeys,
           skeys[r] = None <=> tkeys[r] = None,
           skeys[r] = None => c.sk = None,
           skeys[r] # None => c.sk = skeys[r] /\ c.tk = tkeys[r]
    PROVE  \A n : ReencryptBlock(Block(skeys[r], "c"), c.sk, c.tk, n, n) = Block(tkeys[r], "c")
<1>1. r \in Rels /\ skeys[r] \in FileKeys
  BY PerformingFacts, KeyFacts DEF Old, KeyTypes
<1>2. Block(skeys[r], "c") \in Blocks /\ Block(skeys[r], "c").key = skeys[r] /\ Block(skeys[r], "c").data = "c"
  BY <1>1 DEF Block, Blocks
<1> QED BY <1>2, ReencryptFacts

LEMMA RangeWritten ==
    ASSUME Performing, NEW r, Old(r), NEW k, Main(r) \in DOMAIN tgt, FileKey(Main(r), k),
           NEW f, IsFiles(f), Main(r) \in DOMAIN f, f[Main(r)] = tgt[Main(r)],
           NEW off \in Nat, NEW len \in Nat, NEW c,
           \A n : ReencryptBlock(Block(skeys[r], "c"), c.sk, c.tk, n, n) = Block(k, "c"),
           IsFiles(tgt)',
           WrittenRange(tgt', f, Main(r), off, len, c)
    PROVE  /\ Main(r) \in DOMAIN tgt' /\ FileKey(Main(r), k)'
           /\ \A i \in 1 .. Len(src[Main(r)]) :
                 Written(Main(r), i) \/ i \in off + 1 .. off + len => Written(Main(r), i)'
           /\ Len(tgt'[Main(r)]) <= Len(tgt[Main(r)]) \/ Len(tgt'[Main(r)]) <= Len(src[Main(r)])
<1>1. PICK M : M = Main(r)
  OBVIOUS
<1>2. M[1] = r /\ M \in DOMAIN src /\ M \in DOMAIN f /\ M \in DOMAIN tgt /\ f[M] = tgt[M] /\ M \in Paths
  BY <1>1, MainFacts DEF Old
<1>3. PICK n, m, o, last : /\ n = Len(src[M]) /\ m = Len(tgt[M]) /\ o = Len(tgt'[M])
                           /\ last = MinOf(off + len, n)
  OBVIOUS
<1>4. /\ M \in DOMAIN tgt' /\ o >= m /\ o >= last /\ (o <= m \/ o <= n)
      /\ \A i \in off + 1 .. last :
            tgt'[M][i] = ReencryptBlock(src[M][i], c.sk, c.tk, i - 1 + M[2] * SegBlocks, i - 1 + M[2] * SegBlocks)
      /\ \A i \in 1 .. o : i \notin off + 1 .. last => i \in 1 .. m /\ tgt'[M][i] = tgt[M][i]
  BY <1>1, <1>2, <1>3 DEF WrittenRange
<1>5. IsFiles(src) /\ IsFiles(tgt) /\ SourceBlocks
  BY PerformingFacts
<1>6. n \in Nat /\ m \in Nat /\ o \in Nat /\ DOMAIN src[M] = 1 .. n /\ DOMAIN tgt[M] = 1 .. m /\ DOMAIN tgt'[M] = 1 .. o
  BY <1>2, <1>3, <1>4, <1>5, FilesDef
<1>7. last \in Nat /\ last <= n /\ last <= off + len /\ (last = n \/ last = off + len)
  BY <1>3, <1>6 DEF MinOf
<1>8. ASSUME NEW i \in off + 1 .. last PROVE tgt'[M][i].key = k /\ tgt'[M][i].data = "c"
  <2>1. i \in 1 .. n
    BY <1>6, <1>7
  <2>2. src[M][i] = Block(skeys[r], "c")
    BY <1>2, <1>5, <1>6, <2>1 DEF SourceBlocks
  <2>3. tgt'[M][i] = Block(k, "c")
    BY <1>4, <2>2
  <2> QED BY <2>3 DEF Block
<1>9. \A i \in 1 .. m : tgt[M][i].key = k
  BY <1>1, <1>6 DEF FileKey
<1>10. ASSUME NEW i \in 1 .. o PROVE tgt'[M][i].key = k
  BY <1>4, <1>8, <1>9
<1>11. FileKey(Main(r), k)'
  BY <1>1, <1>6, <1>10 DEF FileKey
<1>12. ASSUME NEW i \in 1 .. n, Written(M, i) \/ i \in off + 1 .. off + len
       PROVE  i <= o /\ tgt'[M][i].data = "c"
  <2>1. CASE i \in off + 1 .. last
    <3>1. i <= o
      BY <1>4, <1>6, <1>7, <2>1
    <3> QED BY <1>8, <2>1, <3>1
  <2>2. CASE i \notin off + 1 .. last
    <3>1. Written(M, i)
      BY <1>6, <1>7, <1>12, <2>2
    <3>2. i <= m /\ tgt[M][i].data = "c"
      BY <1>3, <3>1 DEF Written
    <3>3. i \in 1 .. o
      BY <1>4, <1>6, <3>2
    <3> QED BY <1>4, <1>6, <2>2, <3>2, <3>3
  <2> QED BY <2>1, <2>2
<1>13. \A i \in 1 .. n : Written(M, i) \/ i \in off + 1 .. off + len => Written(Main(r), i)'
  BY <1>1, <1>3, <1>4, <1>12 DEF Written
<1> QED BY <1>1, <1>3, <1>4, <1>11, <1>13

LEMMA RangePatched ==
    ASSUME Performing, Typed', CurOK, SameSource, NEW r, Old(r), Patched(r),
           EntryOf(Main(r)) \/ Asked(Main(r)), EnsureTdeKeys(Main(r)), step' = "perform",
           NEW off \in Nat, NEW len \in Nat, Reached(Main(r), off),
           tgt' = WriteRange(EnsureFiles(tgt, Main(r)), Main(r), off, len, cur')
    PROVE  /\ KeyHeld(r)' /\ tmp'[r] = tmp[r] /\ FsmSame(r, tgt, tgt')
           /\ Main(r) \in DOMAIN tgt' /\ FileKey(Main(r), tkeys[r])'
           /\ \A i \in 1 .. Len(src[Main(r)]) :
                 Written(Main(r), i) \/ i \in off + 1 .. off + len => Written(Main(r), i)'
           /\ Len(tgt'[Main(r)]) <= Len(tgt[Main(r)]) \/ Len(tgt'[Main(r)]) <= Len(src[Main(r)])
<1> DEFINE M == Main(r) f == EnsureFiles(tgt, M)
<1>1. /\ KeyTypes /\ KeysInv /\ IsFiles(tgt) /\ IsFile(tgt) /\ r \in Rels /\ skeys' = skeys /\ tkeys' = tkeys
      /\ KeyTypes' /\ IsFiles(tgt)'
  BY PerformingFacts DEF SameSource, Old, Typed
<1>2. M \in Paths /\ IsRelFile(M) /\ M \in DOMAIN src /\ M \in DOMAIN tgt /\ M[1] = r /\ Fsm(r) # M
  BY <1>1, MainFacts DEF Old, Patched
<1>3. WrittenRange(tgt', f, M, off, len, cur')
  BY <1>2, EnsureAndWrite
<1>4. IsFiles(f) /\ M \in DOMAIN f /\ f[M] = tgt[M]
  BY <1>1, <1>2, EnsureFilesFacts
<1>5. /\ KeyHeld(r)' /\ tmp'[r] = tmp[r]
      /\ skeys[r] = None => cur'.sk = None
      /\ skeys[r] # None => cur'.sk = skeys[r] /\ cur'.tk = tkeys[r]
  BY KeysHeld
<1>6. cur'.sk \in FileKeys /\ cur'.tk \in FileKeys
  BY <1>1, KeyFacts DEF KeyTypes, Files, NoFile
<1>7. \A n : ReencryptBlock(Block(skeys[r], "c"), cur'.sk, cur'.tk, n, n) = Block(tkeys[r], "c")
  BY <1>5, <1>6, SourceReencrypted DEF Patched
<1>8. FsmSame(r, tgt, f)
  BY <1>1, EnsureMain DEF CurOK
<1>9. FsmSame(r, tgt, tgt')
  BY <1>2, <1>3, <1>8 DEF WrittenRange, FsmSame
<1>10. FileKey(M, tkeys[r])
  BY DEF Patched
<1> HIDE DEF f
<1>11. /\ M \in DOMAIN tgt' /\ FileKey(M, tkeys[r])'
       /\ \A i \in 1 .. Len(src[M]) : Written(M, i) \/ i \in off + 1 .. off + len => Written(M, i)'
       /\ Len(tgt'[M]) <= Len(tgt[M]) \/ Len(tgt'[M]) <= Len(src[M])
  BY <1>1, <1>2, <1>3, <1>4, <1>7, <1>10, RangeWritten
<1>12. FileKey(M, tkeys[r])' <=> (\A i \in DOMAIN tgt'[M] : tgt'[M][i].key = tkeys[r])
  BY <1>1 DEF FileKey
<1> QED BY <1>5, <1>9, <1>11

\* A range of another relation, or of another segment of it, is written.
LEMMA RangeOfOther ==
    ASSUME Performing, CurOK, SameSource, NEW r, Old(r),
           NEW path \in Paths, IsRelFile(path), path # Main(r), path \in DOMAIN src, path \in DOMAIN tgt,
           EnsureTdeKeys(path), NEW off \in Nat, NEW len \in Nat, Reached(path, off),
           tgt' = WriteRange(EnsureFiles(tgt, path), path, off, len, cur')
    PROVE  FileSame(Main(r), tgt, tgt') /\ Flushed(r, tgt, tgt')
<1> DEFINE f == EnsureFiles(tgt, path)
<1>1. KeyTypes /\ IsFiles(tgt) /\ IsFile(tgt) /\ r \in Rels /\ skeys' = skeys /\ tkeys' = tkeys
  BY PerformingFacts DEF SameSource, Old
<1>2. IsRelFile(Main(r)) /\ ~IsRelFile(Fsm(r)) /\ Fsm(r) # path
  BY <1>1, MainFacts
<1>3. WrittenRange(tgt', f, path, off, len, cur')
  BY EnsureAndWrite
<1>4. DOMAIN f = DOMAIN tgt /\ \A p \in DOMAIN tgt : IsRelFile(p) => f[p] = tgt[p]
  BY <1>1, EnsureFilesFacts
<1>5. Flushed(r, tgt, f)
  BY <1>1, EnsureOther DEF CurOK
<1> HIDE DEF f
<1>6. DOMAIN tgt' = DOMAIN f /\ \A q \in DOMAIN f : q # path => tgt'[q] = f[q]
  BY <1>3 DEF WrittenRange
<1>7. FileSame(Main(r), tgt, tgt')
  BY <1>2, <1>4, <1>6 DEF FileSame
<1>8. FsmSame(r, tgt, f) => FsmSame(r, tgt, tgt')
  BY <1>2, <1>6 DEF FsmSame
<1>9. FsmDone(r, tgt, f) => FsmDone(r, tgt, tgt')
  BY <1>2, <1>6 DEF FsmDone
<1> QED BY <1>5, <1>7, <1>8, <1>9 DEF Flushed

LEMMA Bystander ==
    ASSUME Performing, SameSource, NEW r, Old(r), MainOK(r), FsmOK(r),
           SameFor(Main(r)), SameEntries(Fsm(r)),
           FileSame(Main(r), tgt, tgt'), Flushed(r, tgt, tgt'),
           KeyDone(r) => ~EntryOf(Main(r)) /\ ~Asked(Main(r)), IsFiles(tgt)'
    PROVE  MainOK(r)' /\ FsmOK(r)'
<1>1. MainOK(r)'
  BY MainKept DEF Flushed
<1>2. FsmOK(r)'
  BY FsmKept DEF Flushed, KeySame
<1> QED BY <1>1, <1>2

-----------------------------------------------------------------------------
(* The ranges of an entry.                                                 *)

\* What remains of the entry, for the blocks of its file.
RangeOf(e, off, len) ==
    /\ e.action \in Patching
    /\ \A p : p = e.path =>
          /\ \A i \in Nat : Planned(p, i) => Planned(p, i)' \/ i \in off + 1 .. off + len
          /\ \A f \in filemap' : f.path = p => f.action = e.action
          /\ e.action = "TRUNCATE" => \E f \in filemap' : f.path = p /\ f.action = "TRUNCATE"
    /\ \A p : p # e.path => SameEntries(p)

LEMMA TailRange ==
    ASSUME Performing, NEW e \in filemap, e.left = {}, e.action = "COPY_TAIL", filemap' = filemap \ {e}
    PROVE  RangeOf(e, e.tsize, e.ssize - e.tsize)
<1>1. e.tsize \in Nat /\ e.ssize \in Nat
  BY PerformingFacts DEF Entries
<1>2. e.tsize + (e.ssize - e.tsize) = e.ssize
  BY <1>1
<1>3. \A p : p # e.path => SameEntries(p)
  BY EntriesOfOthers
<1>4. \A p : p = e.path => (\A i : Planned(p, i) => i \in e.tsize + 1 .. e.ssize) /\ \A f \in filemap' : f.path # p
  BY EntryOfGone
<1> QED BY <1>2, <1>3, <1>4 DEF RangeOf, Patching

LEMMA PageRange ==
    ASSUME Performing, NEW e \in filemap, NEW b \in e.left,
           filemap' = (filemap \ {e}) \cup {[e EXCEPT !.left = @ \ {b}]}
    PROVE  RangeOf(e, b, 1)
<1>1. PICK d : d = [e EXCEPT !.left = @ \ {b}]
  OBVIOUS
<1>2. d.path = e.path /\ d.action = e.action /\ e.action \in Patching
  <2>1. e \in Entries /\ EntryOK(e)
    BY PerformingFacts
  <2>2. e.pages # {}
    BY <2>1 DEF EntryOK
  <2> QED BY <1>1, <2>1, <2>2 DEF EntryOK, Entries
<1>3. \A p : p # e.path => SameEntries(p)
  BY <1>1, <1>2, EntriesOfOthers
<1>4. \A p : p = e.path =>
         /\ \A f \in filemap' : f.path = p => f = d
         /\ d.action = e.action /\ d \in filemap'
         /\ \A i \in Nat : Planned(p, i) => Planned(p, i)' \/ i \in b + 1 .. b + 1
  <2>1. filemap' = (filemap \ {e}) \cup {d}
    BY <1>1
  <2>2. ASSUME NEW p, p = e.path
        PROVE  /\ \A f \in filemap' : f.path = p => f = d
               /\ d.action = e.action /\ d \in filemap'
               /\ \A i \in Nat : Planned(p, i) => Planned(p, i)' \/ i \in b + 1 .. b + 1
    <3>1. d = [e EXCEPT !.left = @ \ {b}]
      BY <1>1
    <3>2. /\ \A f \in filemap' : f.path = p => f = d
          /\ d.path = e.path /\ d.action = e.action /\ d \in filemap'
      <4>1. \A f \in filemap : f.path = e.path => f = e
        BY PerformingFacts DEF WorkTypes
      <4> QED BY <1>2, <2>1, <2>2, <3>1, <4>1
    <3>3. \A i \in Nat : Planned(p, i) => Planned(p, i)' \/ i \in b + 1 .. b + 1
      BY <2>1, <2>2, <3>1, EntryOfPage
    <3> QED BY <3>2, <3>3
  <2> QED BY <2>2
<1> QED BY <1>2, <1>3, <1>4 DEF RangeOf

\* The blocks of a file that is kept, after a range of it was asked for or written.
LEMMA BlocksLeft ==
    ASSUME src' = src, NEW r, Old(r), BlocksOK(r), NEW e, e.path = Main(r), e \in filemap,
           NEW off, NEW len, RangeOf(e, off, len),
           \A i \in 1 .. Len(src[Main(r)]) :
              Requested(Main(r), i) \/ Written(Main(r), i) \/ i \in off + 1 .. off + len =>
                 Requested(Main(r), i)' \/ Written(Main(r), i)',
           \A f \in filemap : f.path = Main(r) => f = e,
           Main(r) \in DOMAIN tgt, Main(r) \in DOMAIN tgt',
           Len(tgt'[Main(r)]) <= Len(tgt[Main(r)]) \/ Len(tgt'[Main(r)]) <= Len(src[Main(r)]),
           IsFiles(src), IsFiles(tgt), IsFiles(tgt)'
    PROVE  BlocksOK(r)'
<1>1. PICK M : M = Main(r)
  OBVIOUS
<1>2. ASSUME NEW i \in 1 .. Len(src[M])
      PROVE  Planned(Main(r), i)' \/ Requested(Main(r), i)' \/ Written(Main(r), i)'
  <2>1. Planned(M, i) \/ Requested(M, i) \/ Written(M, i)
    BY <1>1 DEF BlocksOK
  <2>2. Planned(M, i) => Planned(M, i)' \/ i \in off + 1 .. off + len
    BY <1>1 DEF RangeOf
  <2>3. Planned(M, i)' <=> Planned(Main(r), i)'
    BY <1>1 DEF Planned
  <2> QED BY <1>1, <2>1, <2>2, <2>3
<1>3. Len(tgt'[M]) <= Len(src[M]) \/ \E f \in filemap' : f.path = M /\ f.action = "TRUNCATE"
  <2>1. CASE e.action = "TRUNCATE"
    BY <1>1, <2>1 DEF RangeOf
  <2>2. CASE e.action # "TRUNCATE"
    <3>1. Len(tgt[M]) <= Len(src[M])
      BY <1>1, <2>2 DEF BlocksOK
    <3>2. Len(tgt[M]) \in Nat /\ Len(src[M]) \in Nat /\ Len(tgt'[M]) \in Nat
      BY <1>1, FilesDef, MainFacts DEF Old
    <3> QED BY <1>1, <3>1, <3>2
  <2> QED BY <2>1, <2>2
<1> QED BY <1>1, <1>2, <1>3 DEF BlocksOK

\* An entry at which the keys of a file in the way are not needed any more.
LEMMA DoneAtEntry ==
    ASSUME Performing, OrderOK, CurOK, NEW e \in filemap, First(e), NEW r, KeyDone(r), Main(r) # e.path
    PROVE  ~EntryOf(Main(r)) /\ ~Asked(Main(r))
BY EntryNotUsed DEF KeyDone

LEMMA LocalRange ==
    ASSUME Performing, Typed', BlocksInv, Ready, UNCHANGED source, mode = "local",
           NEW e \in filemap, First(e), Rest(e),
           NEW off \in Nat, NEW len \in Nat, RangeOf(e, off, len), off <= Len(tgt[e.path]),
           EnsureTdeKeys(e.path), tgt' = WriteRange(EnsureFiles(tgt, e.path), e.path, off, len, cur'),
           UNCHANGED requests, step' = "perform"
    PROVE  BlocksInv'
<1>0. SameSource /\ created' = created
  BY SourceSame DEF source
<1>1. /\ KeyTypes /\ WorkTypes /\ LocalOK /\ step = "perform" /\ IsFiles(src) /\ IsFiles(tgt) /\ IsFiles(tgt)'
      /\ OrderOK /\ CurOK /\ skeys' = skeys /\ tkeys' = tkeys /\ src' = src /\ mode' = mode
      /\ queue' = queue /\ want' = want
  BY <1>0, PerformingFacts DEF Performing, BlocksInv, Typed, SameSource, requests
<1>2. PICK path : path = e.path
  OBVIOUS
<1>3. /\ path \in Paths /\ IsRelFile(path) /\ Here(path) /\ path \in DOMAIN src /\ path \in DOMAIN tgt
      /\ e.action # "COPY"
  BY <1>1, <1>2, PatchingEntry DEF RangeOf, EntryOK, Here, Patching
<1>4. \A f \in filemap : f.path = path => f = e
  BY <1>1, <1>2 DEF WorkTypes
<1>5. ~Asked(path)
  BY <1>1, <1>3, PathFacts DEF LocalOK, Asked, NoRange
<1>6. (cur' = cur /\ tmp' = tmp) \/ cur' = NoFile \/ cur'.path = path
  <2>1. /\ IsCurrent(cur, path) => tmp' = tmp /\ cur' = cur
        /\ ~IsCurrent(cur, path) => cur' = NoFile \/ cur' = [path |-> path, sk |-> tmp'[path[1]], tk |-> tkeys[path[1]]]
    BY <1>1, <1>2, <1>3, EnsureFacts
  <2> QED BY <2>1
<1>7. OrderOK' /\ CurOK'
  BY <1>0, <1>1, <1>2, <1>3, <1>5, <1>6, OrderEntry
<1>8. \A p : /\ (Asked(p)' <=> Asked(p)) /\ (\A i : Requested(p, i)' <=> Requested(p, i))
             /\ \A x : Asks(p, x)' <=> Asks(p, x)
  BY <1>1, QueueSame
<1>9. \A p : p # path => SameEntries(p) /\ SameFor(p)
  BY <1>2, <1>8 DEF RangeOf, SameFor
<1>10. ASSUME NEW r \in Rels, Old(r) PROVE MainOK(r)' /\ FsmOK(r)'
  <2>0. MainOK(r) /\ FsmOK(r) /\ Main(r) # Fsm(r) /\ ~IsRelFile(Fsm(r))
    BY <1>10, MainFacts DEF BlocksInv
  <2>1. CASE Main(r) = path
    <3>1. Patched(r) /\ EntryOf(Main(r)) /\ BlocksOK(r) /\ Reached(Main(r), off)
      BY <1>2, <1>3, <2>0, <2>1 DEF MainOK, Copied, EntryOf, Reached
    <3>2. /\ KeyHeld(r)' /\ tmp'[r] = tmp[r] /\ FsmSame(r, tgt, tgt')
          /\ Main(r) \in DOMAIN tgt' /\ FileKey(Main(r), tkeys[r])'
          /\ \A i \in 1 .. Len(src[Main(r)]) :
                Written(Main(r), i) \/ i \in off + 1 .. off + len => Written(Main(r), i)'
          /\ Len(tgt'[Main(r)]) <= Len(tgt[Main(r)]) \/ Len(tgt'[Main(r)]) <= Len(src[Main(r)])
      BY <1>0, <1>1, <1>2, <1>10, <2>1, <3>1, RangePatched
    <3>3. BlocksOK(r)'
      BY <1>1, <1>2, <1>3, <1>4, <1>8, <1>10, <2>1, <3>1, <3>2, BlocksLeft
    <3>4. \A f \in filemap' : f.path = Main(r) => f.action # "COPY"
      BY <1>2, <1>3, <2>1 DEF RangeOf
    <3>5. Asks(Main(r), TRUE)'
      <4>1. Asks(path, TRUE)'
        BY <1>8, <2>1, <3>1 DEF Patched
      <4> QED BY <2>1, <4>1 DEF Asks
    <3>6. KeyState(r)'
      BY <3>2 DEF KeyHeld, KeyState
    <3>7. Patched(r)'
      BY <1>1, <3>1, <3>2, <3>4, <3>5, <3>6 DEF Patched
    <3>8. MainOK(r)'
      BY <3>3, <3>7 DEF MainOK
    <3>9. FsmOK(r)'
      BY <1>0, <1>1, <1>9, <1>10, <2>0, <2>1, <3>2, FsmKept
    <3> QED BY <3>8, <3>9
  <2>2. CASE Main(r) # path
    <3>1. FileSame(Main(r), tgt, tgt') /\ Flushed(r, tgt, tgt')
      BY <1>0, <1>1, <1>2, <1>3, <1>10, <2>2, RangeOfOther DEF Reached
    <3>2. KeyDone(r) => ~EntryOf(Main(r)) /\ ~Asked(Main(r))
      BY <1>1, <1>2, <2>2, DoneAtEntry
    <3>3. SameFor(Main(r)) /\ SameEntries(Fsm(r))
      BY <1>3, <1>9, <2>0, <2>2
    <3> QED BY <1>0, <1>1, <1>10, <2>0, <3>1, <3>2, <3>3, Bystander
  <2> QED BY <2>1, <2>2
<1>11. \A r \in Rels : Old(r)' => MainOK(r)' /\ FsmOK(r)'
  BY <1>0, <1>10, SourceKept
<1> QED BY <1>7, <1>11 DEF BlocksInv

\* Neither the keys nor the files of a relation are touched.
LEMMA NotTouched ==
    ASSUME Performing, SameSource, NEW r, Old(r), MainOK(r), FsmOK(r), SameFor(Main(r)),
           FileSame(Main(r), tgt, tgt'), tmp' = tmp, cur' = cur, IsFiles(tgt)',
           mode = "remote" \/ Fsm(r) \notin DOMAIN src \/ (SameEntries(Fsm(r)) /\ FsmSame(r, tgt, tgt'))
    PROVE  MainOK(r)' /\ FsmOK(r)'
<1>1. KeySame(r) /\ tmp'[r] = tmp[r] /\ mode' = mode /\ src' = src
  BY DEF KeySame, SameSource
<1>2. MainOK(r)'
  BY <1>1, MainKept
<1>3. CASE mode = "remote" \/ Fsm(r) \notin DOMAIN src
  BY <1>1, <1>2, <1>3 DEF FsmOK
<1>4. CASE SameEntries(Fsm(r)) /\ FsmSame(r, tgt, tgt')
  BY <1>1, <1>2, <1>4, FsmKept
<1> QED BY <1>3, <1>4

\* Entry e is one whose file a request may be added for.
LEMMA EntryTurn ==
    ASSUME Performing, Typed', OrderOK, CurOK, SameSource, created' = created, Ready, mode = "remote", cur' = cur,
           NEW e \in filemap, First(e), Rest(e), NEW enc \in BOOLEAN, NEW off \in Nat, NEW len \in Nat \ {0},
           QueueRange(e.path, enc, off, len), ~split',
           len = 1 \/ \A f \in filemap' : f.path # e.path
    PROVE  TurnBlocks(e.path, enc, off, len) /\ OrderOK' /\ CurOK' /\ cur.path # e.path
<1>1. /\ WorkTypes /\ KeyTypes /\ cap \in Nat \ {0} /\ cap' = cap /\ want = NoRange /\ e \in Entries
      /\ WorkInv
  BY PerformingFacts DEF SameSource, Ready
<1>2. PICK path : path = e.path
  OBVIOUS
<1>3. path \in Paths \cup WalPaths
  BY <1>1, <1>2 DEF Entries
<1>4. TurnBlocks(path, enc, off, len)
  BY <1>1, <1>2, <1>3, TurnBlocksFacts
<1>5. AtEnd(path)
  <2>1. CASE e.left = e.pages
    BY <1>1, <1>2, <2>1, NotAsked DEF WorkInv
  <2>2. CASE e.left # e.pages
    BY <1>2, <2>2 DEF OrderOK
  <2> QED BY <2>1, <2>2
<1>6. cur.path # path /\ \A f \in filemap : f.path # cur.path
  BY <1>2 DEF CurOK
<1>7. cur # NoFile => ~Asked(cur.path)
  BY DEF CurOK
<1>8. \A f \in filemap' : f.path # cur.path
  BY <1>2, <1>6 DEF Rest
<1>9. \A f \in filemap' : f.left # f.pages =>
              f.path = path /\ \A g \in filemap' : f = g \/ Precedes(f, g)
  BY <1>2 DEF Rest
<1>10. want' # NoRange => \A f \in filemap' : f.left = f.pages
  <2>1. len = 1 => want' = NoRange
    BY <1>4 DEF TurnBlocks
  <2> QED BY <1>2, <2>1 DEF Rest
<1>11. OrderOK' /\ CurOK'
  BY <1>3, <1>4, <1>5, <1>6, <1>7, <1>8, <1>9, <1>10, OrderTurn
<1> QED BY <1>2, <1>4, <1>6, <1>11

LEMMA RemoteRange ==
    ASSUME Performing, Typed', BlocksInv, Ready, UNCHANGED source, mode = "remote",
           NEW e \in filemap, First(e), Rest(e),
           NEW off \in Nat, NEW len \in Nat \ {0}, RangeOf(e, off, len),
           QueueRange(e.path, TRUE, off, len), UNCHANGED <<tgt, tdeKeys>>, ~split',
           len = 1 \/ \A f \in filemap' : f.path # e.path
    PROVE  BlocksInv'
<1>0. SameSource /\ created' = created
  BY SourceSame DEF source
<1>1. /\ KeyTypes /\ WorkTypes /\ IsFiles(src) /\ IsFiles(tgt) /\ IsFiles(tgt)'
      /\ OrderOK /\ CurOK /\ skeys' = skeys /\ tkeys' = tkeys /\ src' = src /\ mode' = mode
      /\ tgt' = tgt /\ tmp' = tmp /\ cur' = cur
  BY <1>0, PerformingFacts DEF BlocksInv, Typed, SameSource, tdeKeys
<1>2. PICK path : path = e.path
  OBVIOUS
<1>3. path \in Paths /\ e.action # "COPY"
  BY <1>1, <1>2, PatchingEntry DEF RangeOf, Patching
<1>4. \A f \in filemap : f.path = path => f = e
  BY <1>1, <1>2 DEF WorkTypes
<1>5. TurnBlocks(path, TRUE, off, len) /\ OrderOK' /\ CurOK' /\ cur.path # path
  BY <1>0, <1>1, <1>2, EntryTurn
<1>6. \A p \in Paths : p # path => SameEntries(p) /\ SameFor(p)
  BY <1>2, <1>5 DEF RangeOf, SameFor, TurnBlocks
<1>7. /\ \A i \in Nat : Requested(path, i) \/ i \in off + 1 .. off + len => Requested(path, i)'
      /\ Asks(path, TRUE) => Asks(path, TRUE)'
      /\ Asked(path)'
  BY <1>3, <1>5 DEF TurnBlocks
<1>8. ASSUME NEW r \in Rels, Old(r) PROVE MainOK(r)' /\ FsmOK(r)'
  <2>0. MainOK(r) /\ FsmOK(r) /\ Main(r) \in Paths
    BY <1>8, MainFacts DEF BlocksInv
  <2>1. CASE Main(r) = path
    <3>1. Patched(r) /\ EntryOf(Main(r)) /\ BlocksOK(r)
      BY <1>2, <1>3, <2>0, <2>1 DEF MainOK, Copied, EntryOf
    <3>2. Main(r) \in DOMAIN tgt /\ Main(r) \in DOMAIN tgt'
      BY <1>1, <3>1 DEF Patched
    <3>3. ASSUME NEW i \in 1 .. Len(src[Main(r)]),
                 Requested(Main(r), i) \/ Written(Main(r), i) \/ i \in off + 1 .. off + len
          PROVE  Requested(Main(r), i)' \/ Written(Main(r), i)'
      <4>1. Written(Main(r), i) => Written(Main(r), i)'
        BY <1>1 DEF Written
      <4>2. Requested(path, i) \/ i \in off + 1 .. off + len => Requested(path, i)'
        BY <1>7
      <4>3. Requested(path, i)' <=> Requested(Main(r), i)'
        BY <2>1 DEF Requested
      <4> QED BY <2>1, <3>3, <4>1, <4>2, <4>3
    <3>4. Len(tgt'[Main(r)]) <= Len(tgt[Main(r)]) \/ Len(tgt'[Main(r)]) <= Len(src[Main(r)])
      <4>1. Len(tgt[Main(r)]) \in Nat
        BY <1>1, <3>2, FilesDef
      <4> QED BY <1>1, <4>1
    <3>5. BlocksOK(r)'
      BY <1>1, <1>2, <1>4, <1>8, <2>1, <3>1, <3>2, <3>3, <3>4, BlocksLeft
    <3>6. \A f \in filemap' : f.path = Main(r) => f.action # "COPY"
      BY <1>2, <1>3, <2>1 DEF RangeOf
    <3>7. Asks(Main(r), TRUE)' /\ Asked(Main(r))'
      BY <1>7, <2>1, <3>1 DEF Patched, Asks, Asked
    <3>8. KeyState(r)'
      <4>1. skeys[r] # None => Waiting(r)
        BY <1>5, <2>1, <3>1 DEF Patched, KeyState, Current, Finished
      <4>2. skeys[r] # None => Waiting(r)'
        BY <1>1, <3>7, <4>1 DEF Waiting
      <4> QED BY <1>1, <3>1, <4>2 DEF KeyState, Patched
    <3>9. FileKey(Main(r), tkeys[r])'
      BY <1>1, <3>1 DEF Patched, FileKey
    <3>10. Patched(r)'
      BY <1>1, <3>1, <3>2, <3>6, <3>7, <3>8, <3>9 DEF Patched
    <3> QED BY <1>1, <3>5, <3>10 DEF MainOK, FsmOK
  <2>2. CASE Main(r) # path
    <3>1. FileSame(Main(r), tgt, tgt')
      BY <1>1 DEF FileSame
    <3> QED BY <1>0, <1>1, <1>6, <1>8, <2>0, <2>2, <3>1, NotTouched
  <2> QED BY <2>1, <2>2
<1>9. \A r \in Rels : Old(r)' => MainOK(r)' /\ FsmOK(r)'
  BY <1>0, <1>8, SourceKept
<1> QED BY <1>5, <1>9 DEF BlocksInv

-----------------------------------------------------------------------------
(* Whole files.                                                            *)

LEMMA QueueRestBlocks ==
    ASSUME Performing, Typed', BlocksInv, QueueRest, ~split'
    PROVE  BlocksInv'
<1>0. SameSource /\ created' = created
  BY SourceSame DEF source, QueueRest
<1>1. /\ KeyTypes /\ WorkTypes /\ IsFiles(tgt)' /\ cap \in Nat \ {0} /\ cap' = cap
      /\ OrderOK /\ CurOK /\ LocalOK /\ mode \in {"local", "remote"}
      /\ tgt' = tgt /\ tmp' = tmp /\ cur' = cur /\ filemap' = filemap /\ want # NoRange
  BY <1>0, PerformingFacts DEF BlocksInv, Typed, SameSource, tdeKeys, QueueRest
<1>2. PICK path, enc, off, len : path = want.path /\ enc = want.encrypt /\ off = want.off /\ len = want.len
  OBVIOUS
<1>3. /\ path \in Paths \cup WalPaths /\ enc \in BOOLEAN /\ off \in Nat /\ len \in Nat \ {0}
      /\ want = [path |-> path, encrypt |-> enc, off |-> off, len |-> len] /\ mode = "remote"
  BY <1>1, <1>2 DEF WorkTypes, Requests, LocalOK
<1>4. QueueRange(path, enc, off, len)
  BY <1>2 DEF QueueRest
<1>5. TurnBlocks(path, enc, off, len)
  BY <1>1, <1>3, <1>4, TurnBlocksFacts
<1>6. AtEnd(path)
  BY <1>1, <1>2 DEF OrderOK, AtEnd, Rows
<1>7. Asked(path)
  BY <1>2 DEF Asked
<1>8. \A f \in filemap : f.left = f.pages /\ f.path # cur.path
  BY <1>1, <1>3 DEF OrderOK, CurOK
<1>9. cur # NoFile => cur.path # path /\ ~Asked(cur.path)
  BY <1>1, <1>7 DEF CurOK
<1>10. OrderOK' /\ CurOK'
  BY <1>0, <1>1, <1>3, <1>5, <1>6, <1>8, <1>9, OrderTurn
<1>11. \A p \in Paths : SameFor(p)
  <2>1. \A p \in Paths : \A x \in BOOLEAN : Asks(p, x) /\ p = path => x = enc
    BY <1>2 DEF Asks
  <2>2. \A p : SameEntries(p)
    BY <1>1 DEF SameEntries
  <2> QED BY <1>5, <1>7, <2>1, <2>2 DEF SameFor, TurnBlocks
<1>12. ASSUME NEW r \in Rels, Old(r) PROVE MainOK(r)' /\ FsmOK(r)'
  <2>1. MainOK(r) /\ FsmOK(r) /\ Main(r) \in Paths
    BY <1>12, MainFacts DEF BlocksInv
  <2>2. FileSame(Main(r), tgt, tgt')
    BY <1>1 DEF FileSame
  <2> QED BY <1>0, <1>1, <1>3, <1>11, <1>12, <2>1, <2>2, NotTouched
<1>13. \A r \in Rels : Old(r)' => MainOK(r)' /\ FsmOK(r)'
  BY <1>0, <1>12, SourceKept
<1> QED BY <1>10, <1>13 DEF BlocksInv

\* A file is copied by requests.
LEMMA RemoteCopy ==
    ASSUME Performing, Typed', BlocksInv, Ready, UNCHANGED source, mode = "remote",
           NEW e \in filemap, First(e), e.left = {}, e.action = "COPY", filemap' = filemap \ {e},
           NEW len \in Nat \ {0}, len >= e.ssize,
           QueueRange(e.path, FALSE, 0, len), UNCHANGED tdeKeys, ~split',
           tgt' = IF IsWal(e.path) THEN tgt ELSE With(tgt, e.path, <<>>)
    PROVE  BlocksInv'
<1>0. SameSource /\ created' = created
  BY SourceSame DEF source
<1>1. /\ KeyTypes /\ WorkTypes /\ IsFiles(src) /\ IsFiles(tgt) /\ IsFiles(tgt)'
      /\ OrderOK /\ CurOK /\ skeys' = skeys /\ tkeys' = tkeys /\ src' = src /\ mode' = mode
      /\ tmp' = tmp /\ cur' = cur /\ e \in Entries /\ EntryOK(e)
  BY <1>0, PerformingFacts DEF BlocksInv, Typed, SameSource, tdeKeys
<1>2. PICK path : path = e.path
  OBVIOUS
<1>3. Rest(e)
  BY <1>1, RestGone
<1>4. /\ \A f \in filemap : f.path = path => f = e
      /\ \A f \in filemap' : f.path # path
      /\ ~EntryOf(path)' /\ EntryOf(path)
  BY <1>2, EntryOfGone
<1>5. TurnBlocks(path, FALSE, 0, len) /\ OrderOK' /\ CurOK' /\ cur.path # path
  BY <1>0, <1>1, <1>2, <1>3, <1>4, EntryTurn
<1>6. \A p : p # path => SameEntries(p)
  BY <1>2, EntriesOfOthers
<1>7. \A p \in Paths : p # path => SameFor(p)
  BY <1>5, <1>6 DEF SameFor, TurnBlocks
<1>w. ASSUME NEW p \in Paths
      PROVE  LET g == With(tgt, p, <<>>) IN
             DOMAIN g = DOMAIN tgt \cup {p} /\ g[p] = <<>> /\ \A q \in DOMAIN tgt : q # p => g[q] = tgt[q]
  BY DEF With
<1>8. ASSUME NEW r \in Rels, Old(r) PROVE MainOK(r)' /\ FsmOK(r)'
  <2>0. /\ MainOK(r) /\ FsmOK(r) /\ Main(r) \in Paths /\ ~IsWal(Main(r))
        /\ Main(r) \in DOMAIN src
    BY <1>8, MainFacts DEF BlocksInv, Old
  <2>1. CASE Main(r) = path
    <3>1. Copied(r)
      BY <1>2, <2>0, <2>1 DEF MainOK, Patched
    <3>2. tgt' = With(tgt, path, <<>>)
      BY <1>2, <2>0, <2>1
    <3>3. path \in DOMAIN tgt' /\ tgt'[path] = <<>>
      BY <1>1, <1>w, <2>0, <2>1, <3>2
    <3>4. Asks(path, FALSE)'
      BY <1>5, <2>0, <2>1, <3>1 DEF Copied, TurnBlocks
    <3>5. Asks(Main(r), FALSE)'
      BY <2>1, <3>4 DEF Asks
    <3>6. FileKey(Main(r), skeys[r])'
      BY <2>1, <3>3 DEF FileKey
    <3>7. Copied(r)'
      BY <1>1, <1>4, <2>1, <3>1, <3>5, <3>6 DEF Copied
    <3>8. e.ssize = Len(src[path]) /\ Len(src[path]) \in Nat
      BY <1>1, <1>2, <2>0, <2>1, FilesDef DEF EntryOK
    <3>9. \A i \in 1 .. Len(src[path]) : Requested(path, i)'
      <4>1. \A i \in 1 .. Len(src[path]) : i \in Nat /\ i \in 0 + 1 .. 0 + len
        BY <3>8
      <4> QED BY <1>5, <2>0, <2>1, <4>1 DEF TurnBlocks
    <3>10. \A i \in 1 .. Len(src[path]) : Requested(Main(r), i)'
      BY <2>1, <3>9 DEF Requested
    <3>11. Len(<<>>) = 0 /\ Len(tgt'[path]) <= Len(src[path])
      BY <3>3, <3>8
    <3>12. BlocksOK(r)'
      BY <1>1, <2>1, <3>3, <3>10, <3>11 DEF BlocksOK
    <3> QED BY <1>1, <3>7, <3>12 DEF MainOK, FsmOK
  <2>2. CASE Main(r) # path
    <3>1. FileSame(Main(r), tgt, tgt')
      <4>1. CASE IsWal(e.path)
        BY <4>1 DEF FileSame
      <4>2. CASE ~IsWal(e.path)
        <5>1. e.path \in Paths /\ tgt' = With(tgt, e.path, <<>>)
          BY <1>1, <4>2, PathFacts DEF Entries
        <5>2. DOMAIN tgt' = DOMAIN tgt \cup {e.path}
          BY <1>w, <5>1
        <5>3. Main(r) \in DOMAIN tgt => tgt'[Main(r)] = tgt[Main(r)]
          BY <1>w, <1>2, <2>2, <5>1
        <5> QED BY <1>2, <2>2, <5>2, <5>3 DEF FileSame
      <4> QED BY <4>1, <4>2
    <3> QED BY <1>0, <1>1, <1>7, <1>8, <2>0, <2>2, <3>1, NotTouched
  <2> QED BY <2>1, <2>2
<1>9. \A r \in Rels : Old(r)' => MainOK(r)' /\ FsmOK(r)'
  BY <1>0, <1>8, SourceKept
<1> QED BY <1>5, <1>9 DEF BlocksInv

LEMMA LocalCopy ==
    ASSUME Performing, Typed', BlocksInv, Ready, UNCHANGED source, mode = "local",
           NEW e \in filemap, First(e), e.left = {}, e.action = "COPY", filemap' = filemap \ {e},
           e.path \in Paths, UNCHANGED <<tdeKeys, requests>>,
           tgt' = With(tgt, e.path, src[e.path])
    PROVE  BlocksInv'
<1>0. SameSource /\ created' = created
  BY SourceSame DEF source
<1>1. /\ KeyTypes /\ WorkTypes /\ IsFiles(src) /\ IsFiles(tgt) /\ IsFiles(tgt)' /\ SourceBlocks
      /\ OrderOK /\ CurOK /\ skeys' = skeys /\ tkeys' = tkeys /\ src' = src /\ mode' = mode
      /\ tmp' = tmp /\ cur' = cur /\ e \in Entries /\ EntryOK(e) /\ queue' = queue /\ want' = want
  BY <1>0, PerformingFacts DEF BlocksInv, Typed, SameSource, tdeKeys, requests
<1>2. PICK path \in Paths : path = e.path
  OBVIOUS
<1>3. Rest(e)
  BY <1>1, RestGone
<1>4. /\ \A f \in filemap : f.path = path => f = e
      /\ \A f \in filemap' : f.path # path
      /\ ~EntryOf(path)' /\ EntryOf(path)
  BY <1>2, EntryOfGone
<1>5. OrderOK' /\ CurOK'
  BY <1>0, <1>1, <1>2, <1>3, <1>4, OrderEntry
<1>6. path \in DOMAIN src /\ \A r \in Rels : Old(r) => tmp[r] = skeys[r]
  BY <1>1, <1>2 DEF EntryOK, Here, CurOK
<1>7. \A p : /\ (Asked(p)' <=> Asked(p)) /\ (\A i : Requested(p, i)' <=> Requested(p, i))
             /\ \A x : Asks(p, x)' <=> Asks(p, x)
  BY <1>1, QueueSame
<1>8. \A p : p # path => SameEntries(p) /\ SameFor(p)
  BY <1>2, <1>7, EntriesOfOthers DEF SameFor
<1>9. /\ DOMAIN tgt' = DOMAIN tgt \cup {path} /\ tgt'[path] = src[path]
      /\ \A q \in DOMAIN tgt : q # path => tgt'[q] = tgt[q]
  BY <1>2 DEF With
<1>10. /\ Len(src[path]) \in Nat /\ DOMAIN src[path] = 1 .. Len(src[path])
       /\ \A i \in 1 .. Len(src[path]) : src[path][i].key = skeys[path[1]] /\ src[path][i].data = "c"
  BY <1>1, <1>6, FilesDef DEF SourceBlocks, Block
<1>11. ASSUME NEW r \in Rels, Old(r) PROVE MainOK(r)' /\ FsmOK(r)'
  <2>0. /\ MainOK(r) /\ FsmOK(r) /\ Main(r) # Fsm(r) /\ Main(r)[1] = r /\ Fsm(r)[1] = r
    BY <1>11, MainFacts DEF BlocksInv
  <2>1. MainOK(r)'
    <3>1. CASE Main(r) = path
      <4>1. Copied(r)
        BY <1>2, <2>0, <3>1 DEF MainOK, Patched
      <4>2. Asks(path, FALSE)'
        BY <1>7, <3>1, <4>1 DEF Copied
      <4>3. Asks(Main(r), FALSE)'
        BY <3>1, <4>2 DEF Asks
      <4>4. FileKey(Main(r), skeys[r])'
        BY <1>1, <1>9, <1>10, <2>0, <3>1 DEF FileKey
      <4>5. Copied(r)'
        BY <1>1, <1>4, <3>1, <4>1, <4>3, <4>4 DEF Copied
      <4>6. \A i \in 1 .. Len(src[path]) : Written(Main(r), i)'
        BY <1>9, <1>10, <3>1 DEF Written
      <4>7. BlocksOK(r)'
        BY <1>1, <1>9, <1>10, <3>1, <4>6 DEF BlocksOK
      <4> QED BY <4>5, <4>7 DEF MainOK
    <3>2. CASE Main(r) # path
      <4>1. FileSame(Main(r), tgt, tgt')
        BY <1>9, <3>2 DEF FileSame
      <4>2. KeySame(r)
        BY <1>1 DEF KeySame
      <4> QED BY <1>0, <1>8, <1>11, <2>0, <3>2, <4>1, <4>2, MainKept
    <3> QED BY <3>1, <3>2
  <2>2. FsmOK(r)'
    <3>1. CASE Fsm(r) = path
      <4>1. tmp'[r] = skeys[r]
        BY <1>1, <1>6, <1>11
      <4>2. Whole(Fsm(r))'
        BY <1>1, <1>9, <1>10, <2>0, <3>1, <4>1 DEF Whole
      <4> QED BY <4>2 DEF FsmOK
    <3>2. CASE Fsm(r) # path
      <4>1. FsmSame(r, tgt, tgt')
        BY <1>9, <3>2 DEF FsmSame
      <4>2. tmp'[r] = tmp[r]
        BY <1>1
      <4> QED BY <1>0, <1>1, <1>8, <1>11, <2>0, <3>2, <4>1, <4>2, FsmKept
    <3> QED BY <3>1, <3>2
  <2> QED BY <2>1, <2>2
<1>12. \A r \in Rels : Old(r)' => MainOK(r)' /\ FsmOK(r)'
  BY <1>0, <1>11, SourceKept
<1> QED BY <1>5, <1>12 DEF BlocksInv

\* An entry for a file that the source does not have, or of the WAL.
LEMMA OtherEntry ==
    ASSUME Performing, Typed', BlocksInv, Ready, UNCHANGED source,
           NEW e \in filemap, First(e), e.left = {}, filemap' = filemap \ {e},
           e.path \notin DOMAIN src, UNCHANGED <<tdeKeys, requests>>,
           tgt' = tgt \/ tgt' = Without(tgt, e.path)
    PROVE  BlocksInv'
<1>0. SameSource /\ created' = created
  BY SourceSame DEF source
<1>1. /\ KeyTypes /\ WorkTypes /\ IsFiles(src) /\ IsFiles(tgt) /\ IsFiles(tgt)'
      /\ OrderOK /\ CurOK /\ tmp' = tmp /\ cur' = cur /\ queue' = queue /\ want' = want
  BY <1>0, PerformingFacts DEF BlocksInv, Typed, tdeKeys, requests
<1>2. PICK path : path = e.path
  OBVIOUS
<1>3. Rest(e)
  BY <1>1, RestGone
<1>4. \A f \in filemap' : f.path # path
  BY <1>2, EntryOfGone
<1>5. OrderOK' /\ CurOK'
  BY <1>0, <1>1, <1>2, <1>3, <1>4, OrderEntry
<1>6. \A p : /\ (Asked(p)' <=> Asked(p)) /\ (\A i : Requested(p, i)' <=> Requested(p, i))
             /\ \A x : Asks(p, x)' <=> Asks(p, x)
  BY <1>1, QueueSame
<1>7. \A p : p # path => SameEntries(p) /\ SameFor(p)
  BY <1>2, <1>6, EntriesOfOthers DEF SameFor
<1>8. \A p : p # path => FileSame(p, tgt, tgt')
  BY <1>2 DEF FileSame, Without
<1>9. ASSUME NEW r \in Rels, Old(r) PROVE MainOK(r)' /\ FsmOK(r)'
  <2>1. MainOK(r) /\ FsmOK(r) /\ Main(r) # path
    BY <1>2, <1>9 DEF BlocksInv, Old
  <2>2. Fsm(r) # path => FsmSame(r, tgt, tgt')
    BY <1>8 DEF FileSame, FsmSame
  <2>3. SameFor(Main(r)) /\ FileSame(Main(r), tgt, tgt') /\ (Fsm(r) # path => SameEntries(Fsm(r)))
    BY <1>7, <1>8, <2>1
  <2> QED BY <1>0, <1>1, <1>2, <1>9, <2>1, <2>2, <2>3, NotTouched
<1>10. \A r \in Rels : Old(r)' => MainOK(r)' /\ FsmOK(r)'
  BY <1>0, <1>9, SourceKept
<1> QED BY <1>5, <1>10 DEF BlocksInv

-----------------------------------------------------------------------------
(* Entries that only look up the keys, or shorten the file too.            *)

\* Files f are those of the target, that of entry e as long as in the source.
Cut(f, e) ==
    /\ IsFiles(f) /\ IsFile(f) /\ DOMAIN f = DOMAIN tgt
    /\ \A q \in DOMAIN tgt : q # e.path => f[q] = tgt[q]
    /\ \A p \in DOMAIN src \cap DOMAIN tgt : p = e.path =>
          /\ Len(f[p]) <= Len(tgt[p])
          /\ Len(f[p]) = Len(tgt[p]) \/ Len(f[p]) = Len(src[p])
          /\ e.action = "TRUNCATE" => Len(f[p]) <= Len(src[p])
          /\ \A i \in 1 .. Len(f[p]) : f[p][i] = tgt[p][i]

\* The blocks of the relation of such an entry.
LEMMA CutBlocks ==
    ASSUME Performing, SameSource, NEW r, Old(r), MainOK(r), UNCHANGED requests,
           NEW e \in filemap, e.left = {}, e.action \in {"ENSURE_TDE_KEY", "TRUNCATE"},
           filemap' = filemap \ {e}, e.path = Main(r), NEW f, Cut(f, e), IsFiles(tgt)',
           DOMAIN tgt' = DOMAIN f, tgt'[Main(r)] = f[Main(r)]
    PROVE  /\ Patched(r) /\ BlocksOK(r)' /\ Main(r) \in DOMAIN tgt' /\ FileKey(Main(r), tkeys[r])'
           /\ \A g \in filemap' : g.path # Main(r)
           /\ Asks(Main(r), TRUE)' /\ EntryOf(Main(r)) /\ (Asked(Main(r))' <=> Asked(Main(r)))
           /\ Unbegun(Main(r)) <=> e.pages = {}
<1>1. PICK M : M = Main(r)
  OBVIOUS
<1>2. /\ IsFiles(src) /\ IsFiles(tgt) /\ src' = src /\ tkeys' = tkeys /\ M \in DOMAIN src /\ M = e.path
      /\ queue' = queue /\ want' = want /\ e.action # "COPY" /\ e.action # "COPY_TAIL"
  BY <1>1, PerformingFacts DEF SameSource, Old, requests
<1>3. /\ \A g \in filemap : g.path = M => g = e
      /\ \A g \in filemap' : g.path # M
      /\ ~EntryOf(M)' /\ EntryOf(M) /\ (Unbegun(M) <=> e.pages = {})
      /\ \A i : ~Planned(M, i)
  BY <1>2, EntryOfGone
<1>4. Patched(r) /\ BlocksOK(r)
  BY <1>1, <1>2, <1>3 DEF MainOK, Copied
<1>5. M \in DOMAIN tgt /\ M \in DOMAIN tgt' /\ tgt'[M] = f[M]
  BY <1>1, <1>4 DEF Patched, Cut
<1>6. PICK l, n, m : l = Len(f[M]) /\ n = Len(src[M]) /\ m = Len(tgt[M])
  OBVIOUS
<1>7. /\ n \in Nat /\ m \in Nat /\ l \in Nat /\ DOMAIN tgt[M] = 1 .. m /\ DOMAIN tgt'[M] = 1 .. l
      /\ Len(tgt'[M]) = l
  BY <1>2, <1>5, <1>6, FilesDef
<1>8. /\ l <= m /\ (l = m \/ l = n) /\ (e.action = "TRUNCATE" => l <= n)
      /\ \A i \in 1 .. l : f[M][i] = tgt[M][i]
  BY <1>2, <1>5, <1>6 DEF Cut
<1>9. \A p : /\ (Asked(p)' <=> Asked(p)) /\ (\A i : Requested(p, i)' <=> Requested(p, i))
             /\ \A x : Asks(p, x)' <=> Asks(p, x)
  BY <1>2, QueueSame
<1>10. ASSUME NEW i \in 1 .. n PROVE Requested(Main(r), i)' \/ Written(Main(r), i)'
  <2>1. Requested(M, i) \/ Written(M, i)
    BY <1>1, <1>3, <1>4, <1>6 DEF BlocksOK
  <2>2. Requested(M, i) => Requested(Main(r), i)'
    BY <1>1, <1>9 DEF Requested
  <2>3. ASSUME Written(M, i) PROVE Written(Main(r), i)'
    <3>1. i <= m /\ tgt[M][i].data = "c"
      BY <1>6, <2>3 DEF Written
    <3>2. i \in 1 .. l
      BY <1>7, <1>8, <3>1
    <3>3. tgt'[M][i].data = "c" /\ i <= l
      BY <1>5, <1>8, <3>1, <3>2
    <3> QED BY <1>1, <1>5, <1>7, <3>3 DEF Written
  <2> QED BY <2>1, <2>2, <2>3
<1>11. l <= n
  <2>1. CASE e.action = "TRUNCATE"
    BY <1>8, <2>1
  <2>2. CASE e.action # "TRUNCATE"
    <3>1. m <= n
      BY <1>1, <1>3, <1>4, <1>5, <1>6, <2>2 DEF BlocksOK
    <3> QED BY <1>7, <1>8, <3>1
  <2> QED BY <2>1, <2>2
<1>12. BlocksOK(r)'
  BY <1>1, <1>2, <1>5, <1>6, <1>7, <1>10, <1>11 DEF BlocksOK
<1>13. FileKey(Main(r), tkeys[r])'
  <2>1. \A i \in 1 .. m : tgt[M][i].key = tkeys[r]
    BY <1>1, <1>4, <1>7 DEF Patched, FileKey
  <2>2. \A i \in 1 .. l : tgt'[M][i].key = tkeys[r]
    BY <1>5, <1>7, <1>8, <2>1
  <2> QED BY <1>1, <1>2, <1>7, <2>2 DEF FileKey
<1>14. Asks(Main(r), TRUE)' /\ (Asked(Main(r))' <=> Asked(Main(r)))
  <2>1. Asks(M, TRUE)' /\ (Asked(M)' <=> Asked(M))
    BY <1>1, <1>4, <1>9 DEF Patched
  <2> QED BY <1>1, <2>1 DEF Asks, Asked
<1> QED BY <1>1, <1>3, <1>4, <1>5, <1>12, <1>13, <1>14

LEMMA KeyEntry ==
    ASSUME Performing, Typed', BlocksInv, Ready, UNCHANGED source,
           NEW e \in filemap, First(e), e.left = {}, e.action \in {"ENSURE_TDE_KEY", "TRUNCATE"},
           filemap' = filemap \ {e}, NEW f, Cut(f, e), EnsureUntouched(e, f), step' = "perform"
    PROVE  BlocksInv'
<1>0. SameSource /\ created' = created
  BY SourceSame DEF source
<1>1. /\ KeyTypes /\ WorkTypes /\ WorkInv /\ step = "perform" /\ IsFiles(src) /\ IsFiles(tgt) /\ IsFiles(tgt)'
      /\ OrderOK /\ CurOK /\ skeys' = skeys /\ tkeys' = tkeys /\ UNCHANGED requests
      /\ queue' = queue /\ want' = want
  BY <1>0, PerformingFacts DEF Performing, BlocksInv, Typed, SameSource, EnsureUntouched, requests
<1>2. PICK path : path = e.path
  OBVIOUS
<1>3. path \in Paths /\ IsRelFile(path) /\ Here(path) /\ e.action # "COPY"
  BY <1>2, PatchingEntry DEF Patching
<1>4. Rest(e) /\ \A g \in filemap' : g.path # path
  BY <1>1, <1>2, RestGone, EntryOfGone
<1>5. /\ Untouched(e) => EnsureTdeKeys(path) /\ tgt' = EnsureFiles(f, path)
      /\ ~Untouched(e) => tgt' = f /\ tmp' = tmp /\ cur' = cur
  BY <1>2 DEF EnsureUntouched, tdeKeys
<1>6. Untouched(e) => ~Asked(path)
  BY <1>1, <1>2 DEF Untouched, WorkInv
<1>7. (cur' = cur /\ tmp' = tmp) \/ cur' = NoFile \/ (cur'.path = path /\ ~Asked(path))
  <2>1. Untouched(e) =>
          /\ IsCurrent(cur, path) => tmp' = tmp /\ cur' = cur
          /\ ~IsCurrent(cur, path) => cur' = NoFile \/ cur' = [path |-> path, sk |-> tmp'[path[1]], tk |-> tkeys[path[1]]]
    BY <1>1, <1>3, <1>5, EnsureFacts
  <2> QED BY <1>5, <1>6, <2>1
<1>8. OrderOK' /\ CurOK'
  BY <1>0, <1>1, <1>2, <1>3, <1>4, <1>7, OrderEntry
<1>9. \A p : /\ (Asked(p)' <=> Asked(p)) /\ (\A i : Requested(p, i)' <=> Requested(p, i))
             /\ \A x : Asks(p, x)' <=> Asks(p, x)
  BY <1>1, QueueSame
<1>10. \A p : p # path => SameEntries(p) /\ SameFor(p)
  BY <1>2, <1>9, EntriesOfOthers DEF SameFor
<1>11. /\ IsFiles(f) /\ IsFile(f) /\ DOMAIN f = DOMAIN tgt
       /\ \A q \in DOMAIN tgt : q # path => f[q] = tgt[q]
  BY <1>2 DEF Cut
<1>12. DOMAIN tgt' = DOMAIN f /\ \A p \in DOMAIN f : IsRelFile(p) => tgt'[p] = f[p]
  BY <1>1, <1>5, <1>11, EnsureFilesFacts
<1>13. ASSUME NEW r \in Rels, Old(r) PROVE MainOK(r)' /\ FsmOK(r)'
  <2>0. /\ MainOK(r) /\ FsmOK(r) /\ Main(r) # Fsm(r) /\ IsRelFile(Main(r)) /\ ~IsRelFile(Fsm(r))
        /\ Fsm(r) # path
    BY <1>3, <1>13, MainFacts DEF BlocksInv
  <2>1. CASE Main(r) = path
    <3>0. Main(r) \in DOMAIN tgt => Main(r) \in DOMAIN f
      BY <1>11
    <3>1. tgt'[Main(r)] = f[Main(r)]
      <4>1. Main(r) \in DOMAIN tgt
        BY <1>2, <1>3, <1>4, <2>0, <2>1 DEF MainOK, Copied, Patched
      <4> QED BY <1>12, <2>0, <3>0, <4>1
    <3>2. /\ Patched(r) /\ BlocksOK(r)' /\ Main(r) \in DOMAIN tgt' /\ FileKey(Main(r), tkeys[r])'
          /\ \A g \in filemap' : g.path # Main(r)
          /\ Asks(Main(r), TRUE)' /\ EntryOf(Main(r)) /\ (Asked(Main(r))' <=> Asked(Main(r)))
          /\ Unbegun(Main(r)) <=> e.pages = {}
      BY <1>0, <1>1, <1>2, <1>12, <1>13, <2>0, <2>1, <3>1, CutBlocks
    <3>3. KeyState(r)' /\ tmp'[r] = tmp[r] /\ FsmSame(r, tgt, tgt')
      <4>1. CASE Untouched(e)
        <5>1. KeyHeld(r)' /\ tmp'[r] = tmp[r]
          BY <1>0, <1>1, <1>5, <1>13, <2>1, <3>2, <4>1, KeysHeld
        <5>2. FsmSame(r, f, EnsureFiles(f, Main(r)))
          BY <1>1, <1>5, <1>11, <1>13, <2>1, <4>1, EnsureMain DEF CurOK
        <5>3. FsmSame(r, tgt, tgt')
          BY <1>5, <1>11, <2>0, <2>1, <4>1, <5>2 DEF FsmSame
        <5>4. KeyState(r)'
          BY <5>1 DEF KeyHeld, KeyState
        <5> QED BY <5>1, <5>3, <5>4
      <4>2. CASE ~Untouched(e)
        <5>1. tmp' = tmp /\ cur' = cur /\ tgt' = f
          BY <1>5, <4>2
        <5>2. ~Unbegun(Main(r)) /\ ~Finished(r)
          BY <3>2, <4>2 DEF Untouched, Finished
        <5>3. KeyState(r)'
          BY <1>1, <3>2, <5>1, <5>2 DEF Patched, KeyState, Waiting, Current
        <5>4. FsmSame(r, tgt, tgt')
          BY <1>11, <2>0, <5>1 DEF FsmSame
        <5> QED BY <5>1, <5>3, <5>4
      <4> QED BY <4>1, <4>2
    <3>4. Patched(r)'
      BY <1>1, <3>2, <3>3 DEF Patched
    <3>5. FsmOK(r)'
      BY <1>0, <1>1, <1>10, <1>13, <2>0, <3>3, FsmKept
    <3> QED BY <3>2, <3>4, <3>5 DEF MainOK
  <2>2. CASE Main(r) # path
    <3>1. FileSame(Main(r), tgt, tgt')
      BY <1>11, <1>12, <2>0, <2>2 DEF FileSame
    <3>2. Flushed(r, tgt, tgt')
      <4>1. CASE Untouched(e)
        <5>1. Flushed(r, f, EnsureFiles(f, path))
          BY <1>1, <1>3, <1>5, <1>11, <1>13, <2>2, <4>1, EnsureOther DEF CurOK
        <5>2. FsmSame(r, f, EnsureFiles(f, path)) => FsmSame(r, tgt, tgt')
          BY <1>5, <1>11, <2>0, <4>1 DEF FsmSame
        <5>3. FsmDone(r, f, EnsureFiles(f, path)) => FsmDone(r, tgt, tgt')
          BY <1>5, <1>11, <2>0, <4>1 DEF FsmDone
        <5> QED BY <5>1, <5>2, <5>3 DEF Flushed
      <4>2. CASE ~Untouched(e)
        BY <1>5, <1>11, <2>0, <4>2 DEF Flushed, KeySame, FsmSame
      <4> QED BY <4>1, <4>2
    <3>3. KeyDone(r) => ~EntryOf(Main(r)) /\ ~Asked(Main(r))
      BY <1>1, <1>2, <2>2, DoneAtEntry
    <3>4. SameFor(Main(r)) /\ SameEntries(Fsm(r))
      BY <1>10, <2>0, <2>2
    <3> QED BY <1>0, <1>1, <1>13, <2>0, <3>1, <3>2, <3>3, <3>4, Bystander
  <2> QED BY <2>1, <2>2
<1>14. \A r \in Rels : Old(r)' => MainOK(r)' /\ FsmOK(r)'
  BY <1>0, <1>13, SourceKept
<1> QED BY <1>8, <1>14 DEF BlocksInv

-----------------------------------------------------------------------------
(* The rows of the requests.                                               *)

\* The blocks of the relation of a row.
LEMMA RowWritten ==
    ASSUME Performing, SameSource, NEW r, Old(r), BlocksOK(r), filemap = {}, filemap' = {},
           queue # <<>>, queue' = Tail(queue), want' = want, queue[1].path = Main(r),
           Main(r) \in DOMAIN tgt, Main(r) \in DOMAIN tgt', IsFiles(tgt)',
           \A i \in 1 .. Len(src[Main(r)]) :
              Written(Main(r), i) \/ i \in queue[1].off + 1 .. queue[1].off + queue[1].len => Written(Main(r), i)',
           Len(tgt'[Main(r)]) <= Len(tgt[Main(r)]) \/ Len(tgt'[Main(r)]) <= Len(src[Main(r)])
    PROVE  BlocksOK(r)'
<1>1. PICK M : M = Main(r)
  OBVIOUS
<1>2. IsFiles(src) /\ IsFiles(tgt) /\ WorkTypes /\ src' = src /\ M \in DOMAIN src
  BY <1>1, PerformingFacts DEF SameSource, Old
<1>3. PopBlocks
  BY <1>2, PopBlocksFacts
<1>4. ASSUME NEW i \in 1 .. Len(src[M]) PROVE Requested(Main(r), i)' \/ Written(Main(r), i)'
  <2>1. Requested(M, i) \/ Written(M, i)
    BY <1>1 DEF BlocksOK, Planned
  <2>2. Requested(M, i) => Requested(M, i)' \/ i \in queue[1].off + 1 .. queue[1].off + queue[1].len
    BY <1>3 DEF PopBlocks
  <2>3. Requested(M, i)' <=> Requested(Main(r), i)'
    BY <1>1 DEF Requested
  <2> QED BY <1>1, <2>1, <2>2, <2>3
<1>5. Len(tgt[M]) <= Len(src[M])
  BY <1>1 DEF BlocksOK
<1>6. Len(tgt[M]) \in Nat /\ Len(src[M]) \in Nat /\ Len(tgt'[M]) \in Nat
  BY <1>1, <1>2, FilesDef
<1>7. Len(tgt'[M]) <= Len(src[M])
  BY <1>1, <1>5, <1>6
<1> QED BY <1>1, <1>2, <1>4, <1>7 DEF BlocksOK

LEMMA RowBlocks ==
    ASSUME Performing, Typed', BlocksInv, ProcessRow, ~split', step' = "perform"
    PROVE  BlocksInv'
<1>0. SameSource /\ created' = created
  BY SourceSame DEF source, ProcessRow
<1>1. /\ KeyTypes /\ KeyTypes' /\ WorkTypes /\ LocalOK /\ RowsOK /\ IsFiles(src) /\ IsFiles(tgt) /\ IsFiles(tgt)'
      /\ step = "perform" /\ mode \in {"local", "remote"} /\ IsFile(tgt)
      /\ OrderOK /\ CurOK /\ skeys' = skeys /\ tkeys' = tkeys /\ src' = src /\ mode' = mode /\ ~fetching
  BY <1>0, PerformingFacts DEF Performing, BlocksInv, Typed, SameSource, OrderOK
<1>2. /\ queue # <<>> /\ queue' = Tail(queue) /\ want' = want /\ filemap' = filemap /\ Done
      /\ fetching' = FALSE
  BY <1>1 DEF ProcessRow
<1>3. filemap = {} /\ want = NoRange /\ mode = "remote" /\ filemap' = {}
  BY <1>1, <1>2 DEF Done, Ready, LocalOK
<1>4. /\ Head(queue) = queue[1] /\ queue[1] \in Requests /\ 1 \in DOMAIN queue
      /\ \A p : Asked(p)' => Asked(p)
      /\ \A p : Asked(p) => Asked(p)' \/ queue[1].path = p
  BY <1>1, <1>2, PopFacts
<1>5. PICK path, off, len, enc : /\ path = queue[1].path /\ off = queue[1].off /\ len = queue[1].len
                                 /\ enc = queue[1].encrypt
  OBVIOUS
<1>6. path \in Paths \cup WalPaths /\ off \in Nat /\ len \in Nat /\ enc \in BOOLEAN
  BY <1>4, <1>5 DEF Requests
<1>7. \/ IsWal(path) /\ tgt' = tgt /\ tmp' = tmp /\ cur' = cur
      \/ path \notin DOMAIN src /\ tgt' = Without(tgt, path) /\ tmp' = tmp /\ cur' = cur
      \/ /\ ~IsWal(path) /\ path \in DOMAIN src /\ ~enc
         /\ tgt' = WriteRange(tgt, path, off, len, NoFile) /\ tmp' = tmp /\ cur' = cur
      \/ /\ ~IsWal(path) /\ path \in DOMAIN src /\ enc
         /\ EnsureTdeKeys(path) /\ tgt' = WriteRange(EnsureFiles(tgt, path), path, off, len, cur')
  BY <1>4, <1>5 DEF ProcessRow, tdeKeys
<1>8. RowOK(1)
  BY <1>1, <1>4 DEF RowsOK
<1>9. ~IsWal(path) /\ path \in DOMAIN src =>
         path \in Paths /\ path \in DOMAIN tgt /\ Here(path) /\ (enc => IsRelFile(path)) /\ Reached(path, off)
  BY <1>5, <1>6, <1>8, PathFacts DEF RowOK, RequestOK
<1>10. PopBlocks
  BY <1>1, <1>2, PopBlocksFacts
<1>11. \A p : p # path => SameFor(p)
  <2>1. \A p : SameEntries(p)
    BY <1>2 DEF SameEntries
  <2> QED BY <1>4, <1>5, <1>10, <2>1 DEF PopBlocks, SameFor
<1>12. cur' = cur \/ cur' = NoFile \/ (cur'.path = path /\ Here(path))
  <2>1. CASE ~IsWal(path) /\ path \in DOMAIN src /\ EnsureTdeKeys(path)
    <3>1. /\ IsCurrent(cur, path) => tmp' = tmp /\ cur' = cur
          /\ ~IsCurrent(cur, path) => cur' = NoFile \/ cur' = [path |-> path, sk |-> tmp'[path[1]], tk |-> tkeys[path[1]]]
      BY <1>1, <1>9, <2>1, EnsureFacts
    <3> QED BY <1>9, <2>1, <3>1
  <2> QED BY <1>7, <2>1
<1>13. OrderOK' /\ CurOK'
  BY <1>0, <1>1, <1>2, <1>3, <1>5, <1>12, OrderRow
<1>14. ASSUME NEW r \in Rels, Old(r), Main(r) # path PROVE MainOK(r)'
  <2>0. MainOK(r) /\ FsmOK(r) /\ IsRelFile(Main(r))
    BY <1>14, MainFacts DEF BlocksInv
  <2>1. CASE tmp' = tmp /\ cur' = cur /\ FileSame(Main(r), tgt, tgt')
    <3>1. KeySame(r)
      BY <2>1 DEF KeySame
    <3> QED BY <1>0, <1>11, <1>14, <2>0, <2>1, <3>1, MainKept
  <2>2. CASE IsWal(path) /\ tgt' = tgt /\ tmp' = tmp /\ cur' = cur
    BY <2>1, <2>2 DEF FileSame
  <2>3. CASE tgt' = Without(tgt, path) /\ tmp' = tmp /\ cur' = cur
    BY <1>14, <2>1, <2>3 DEF FileSame, Without
  <2>4. CASE /\ ~IsWal(path) /\ path \in DOMAIN src
             /\ tgt' = WriteRange(tgt, path, off, len, NoFile) /\ tmp' = tmp /\ cur' = cur
    <3>1. tgt' = With(tgt, path, tgt'[path])
      BY <2>4 DEF WriteRange, With
    <3>2. FileSame(Main(r), tgt, tgt')
      BY <1>14, <3>1 DEF FileSame, With
    <3> QED BY <2>1, <2>4, <3>2
  <2>5. CASE /\ ~IsWal(path) /\ path \in DOMAIN src /\ enc
             /\ EnsureTdeKeys(path) /\ tgt' = WriteRange(EnsureFiles(tgt, path), path, off, len, cur')
    <3>1. FileSame(Main(r), tgt, tgt') /\ Flushed(r, tgt, tgt')
      BY <1>0, <1>1, <1>6, <1>9, <1>14, <2>5, RangeOfOther
    <3>2. KeyDone(r) => ~EntryOf(Main(r)) /\ ~Asked(Main(r))
      BY <1>1, <1>2, <1>5, <1>14, RowNotUsed DEF KeyDone
    <3> QED BY <1>0, <1>11, <1>14, <2>0, <3>1, <3>2, MainKept DEF Flushed
  <2> QED BY <1>7, <2>2, <2>3, <2>4, <2>5
<1>15. ASSUME NEW r \in Rels, Old(r), Main(r) = path PROVE MainOK(r)'
  <2>0. MainOK(r) /\ BlocksOK(r) /\ ~IsWal(path) /\ path \in DOMAIN src /\ Main(r) \in DOMAIN tgt
    BY <1>9, <1>15, MainFacts DEF BlocksInv, MainOK, Old
  <2>1. \A x \in BOOLEAN : Asks(path, x) => Asks(Main(r), x)' /\ enc = x
    <3>1. \A x \in BOOLEAN : Asks(path, x) => Asks(path, x)' /\ enc = x
      BY <1>5, <1>10 DEF PopBlocks
    <3> QED BY <1>15, <3>1 DEF Asks
  <2>2. CASE ~enc /\ tgt' = WriteRange(tgt, path, off, len, NoFile) /\ tmp' = tmp /\ cur' = cur
    <3>1. Copied(r)
      BY <1>15, <2>0, <2>1, <2>2 DEF MainOK, Patched
    <3>2. WrittenRange(tgt', tgt, path, off, len, NoFile)
      <4>1. NoFile.sk = None /\ NoFile.tk = None /\ None \in FileKeys
        BY KeyFacts DEF NoFile, FileKeys
      <4>2. off <= Len(tgt[path]) \/ Len(src[path]) <= Len(tgt[path])
        BY <1>9, <2>0 DEF Reached
      <4> QED BY <1>1, <1>6, <1>15, <2>0, <2>2, <4>1, <4>2, WriteFacts
    <3>3. \A n : ReencryptBlock(Block(skeys[r], "c"), NoFile.sk, NoFile.tk, n, n) = Block(skeys[r], "c")
      BY ReencryptFacts DEF NoFile
    <3>4. FileKey(Main(r), skeys[r])
      BY <2>0, <3>1 DEF Copied
    <3>5. /\ Main(r) \in DOMAIN tgt'
          /\ \A i \in DOMAIN tgt'[Main(r)] : tgt'[Main(r)][i].key = skeys[r]
          /\ \A i \in 1 .. Len(src[Main(r)]) :
                Written(Main(r), i) \/ i \in off + 1 .. off + len => Written(Main(r), i)'
          /\ Len(tgt'[Main(r)]) <= Len(tgt[Main(r)]) \/ Len(tgt'[Main(r)]) <= Len(src[Main(r)])
      <4>1. PICK k : k = skeys[r]
        OBVIOUS
      <4>2. /\ Main(r) \in DOMAIN tgt' /\ FileKey(Main(r), k)'
            /\ \A i \in 1 .. Len(src[Main(r)]) :
                  Written(Main(r), i) \/ i \in off + 1 .. off + len => Written(Main(r), i)'
            /\ Len(tgt'[Main(r)]) <= Len(tgt[Main(r)]) \/ Len(tgt'[Main(r)]) <= Len(src[Main(r)])
        BY <1>1, <1>6, <1>15, <2>0, <3>2, <3>3, <3>4, <4>1, RangeWritten
      <4> QED BY <4>1, <4>2 DEF FileKey
    <3>6. BlocksOK(r)'
      BY <1>0, <1>1, <1>2, <1>3, <1>5, <1>15, <2>0, <3>5, RowWritten
    <3>7. FileKey(Main(r), skeys[r])'
      BY <1>1, <3>5 DEF FileKey
    <3>8. Copied(r)'
      BY <1>1, <1>3, <1>15, <2>1, <2>2, <3>1, <3>5, <3>7 DEF Copied
    <3> QED BY <3>6, <3>8 DEF MainOK
  <2>3. CASE /\ enc /\ EnsureTdeKeys(path)
             /\ tgt' = WriteRange(EnsureFiles(tgt, path), path, off, len, cur')
    <3>1. Patched(r)
      BY <1>15, <2>0, <2>1, <2>3 DEF MainOK, Copied
    <3>2. Asked(Main(r)) /\ Reached(Main(r), off)
      BY <1>4, <1>5, <1>9, <1>15, <2>0 DEF Asked
    <3>3. /\ KeyHeld(r)' /\ tmp'[r] = tmp[r] /\ FsmSame(r, tgt, tgt')
          /\ Main(r) \in DOMAIN tgt' /\ FileKey(Main(r), tkeys[r])'
          /\ \A i \in 1 .. Len(src[Main(r)]) :
                Written(Main(r), i) \/ i \in off + 1 .. off + len => Written(Main(r), i)'
          /\ Len(tgt'[Main(r)]) <= Len(tgt[Main(r)]) \/ Len(tgt'[Main(r)]) <= Len(src[Main(r)])
      BY <1>0, <1>1, <1>6, <1>15, <2>3, <3>1, <3>2, RangePatched
    <3>4. BlocksOK(r)'
      BY <1>0, <1>1, <1>2, <1>3, <1>5, <1>15, <2>0, <3>3, RowWritten
    <3>5. KeyState(r)'
      BY <3>3 DEF KeyHeld, KeyState
    <3>6. Asks(Main(r), TRUE)'
      BY <1>15, <2>1, <3>1 DEF Patched
    <3>7. Patched(r)'
      BY <1>1, <1>3, <3>1, <3>3, <3>5, <3>6 DEF Patched
    <3> QED BY <3>4, <3>7 DEF MainOK
  <2> QED BY <1>7, <2>0, <2>2, <2>3
<1>16. \A r \in Rels : Old(r)' => MainOK(r)' /\ FsmOK(r)'
  BY <1>0, <1>1, <1>3, <1>14, <1>15, SourceKept DEF FsmOK
<1> QED BY <1>13, <1>16 DEF BlocksInv

-----------------------------------------------------------------------------
(* perform_rewind().                                                       *)

LEMMA TruncatedCut ==
    ASSUME Performing, NEW e \in filemap, e.action = "TRUNCATE", e.path \in DOMAIN tgt
    PROVE  Cut([tgt EXCEPT ![e.path] = SubSeq(@, 1, e.ssize)], e)
<1>1. e \in Entries /\ EntryOK(e) /\ IsFiles(tgt) /\ IsFile(tgt) /\ IsFiles(src) /\ e.ssize \in Nat
  BY PerformingFacts DEF Entries
<1>2. PICK p, n, m, c : p = e.path /\ n = e.ssize /\ m = Len(tgt[p]) /\ c = SubSeq(tgt[p], 1, n)
  OBVIOUS
<1>3. p \in Paths /\ m \in Nat /\ DOMAIN tgt[p] = 1 .. m /\ tgt[p] \in Seq(Blocks) /\ n \in Nat
  BY <1>1, <1>2, FilesDef
<1>4. n <= m
  BY <1>1, <1>2, <1>3 DEF EntryOK
<1>5. /\ c \in Seq(Blocks) /\ Len(c) = n
      /\ \A i \in 1 .. n : c[i] = tgt[p][i]
  BY <1>2, <1>3, <1>4
<1>6. PICK f : f = [tgt EXCEPT ![p] = c]
  OBVIOUS
<1>7. /\ DOMAIN f = DOMAIN tgt /\ f[p] = c /\ f = [q \in DOMAIN f |-> f[q]]
      /\ \A q \in DOMAIN tgt : q # p => f[q] = tgt[q]
  BY <1>1, <1>2, <1>6 DEF IsFile
<1>8. IsFiles(f)
  <2>1. \A q \in DOMAIN f : f[q] \in Seq(Blocks)
    BY <1>1, <1>5, <1>7, FilesDef
  <2> QED BY <1>1, <1>7, <2>1, FilesDef
<1>9. p \in DOMAIN src => n = Len(src[p])
  BY <1>1, <1>2, <1>3 DEF EntryOK
<1>10. Cut(f, e)
  BY <1>2, <1>3, <1>4, <1>5, <1>7, <1>8, <1>9 DEF Cut, IsFile
<1> QED BY <1>2, <1>6, <1>10

LEMMA SameCut ==
    ASSUME Performing, NEW e \in filemap, e.action = "ENSURE_TDE_KEY"
    PROVE  Cut(tgt, e)
<1>1. IsFiles(tgt) /\ IsFile(tgt)
  BY PerformingFacts
<1>2. \A p \in DOMAIN tgt : Len(tgt[p]) \in Nat
  BY <1>1, FilesDef
<1> QED BY <1>1, <1>2 DEF Cut

LEMMA OverwritePageBlocks ==
    ASSUME Performing, Typed', BlocksInv, Ready, NEW e \in filemap, First(e), OverwritePage(e),
           ~split', step' = "perform"
    PROVE  BlocksInv'
<1>1. PICK b \in e.left :
         /\ QueueFetchRange(e.path, b, 1)
         /\ filemap' = (filemap \ {e}) \cup {[e EXCEPT !.left = @ \ {b}]}
  BY DEF OverwritePage
<1>2. OrderOK /\ UNCHANGED source
  BY DEF BlocksInv, OverwritePage
<1>3. /\ e \in Entries /\ EntryOK(e) /\ b \in Nat /\ mode \in {"local", "remote"}
      /\ IsFiles(tgt)
  BY PerformingFacts, PathFacts DEF Entries, Pages
<1>4. PICK d : d = [e EXCEPT !.left = @ \ {b}]
  OBVIOUS
<1>5. Rest(e)
  BY <1>1, <1>2, <1>4, RestPage
<1>6. RangeOf(e, b, 1)
  BY <1>1, PageRange
<1>7. CASE mode = "remote" /\ QueueRange(e.path, TRUE, b, 1) /\ UNCHANGED <<tgt, tdeKeys>>
  <2>1. PICK len : len = 1
    OBVIOUS
  <2>2. len \in Nat \ {0}
    BY <2>1
  <2>3. RangeOf(e, b, len)
    BY <1>6, <2>1 DEF RangeOf
  <2>4. QueueRange(e.path, TRUE, b, len)
    BY <1>7, <2>1 DEF QueueRange
  <2> QED BY <1>2, <1>3, <1>5, <1>7, <2>1, <2>2, <2>3, <2>4, RemoteRange
<1>8. CASE /\ mode = "local" /\ EnsureTdeKeys(e.path) /\ UNCHANGED requests
           /\ tgt' = WriteRange(EnsureFiles(tgt, e.path), e.path, b, 1, cur')
  <2>1. e.path \in DOMAIN src
    BY <1>3, <1>6, <1>8, PatchingEntry DEF Here, RangeOf
  <2>2. e.path \in DOMAIN tgt /\ b < Len(tgt[e.path])
    BY <1>3, <1>6, <2>1, PatchingEntry DEF EntryOK, RangeOf
  <2>3. b <= Len(tgt[e.path])
    BY <1>3, <2>2, FilesDef
  <2> QED BY <1>2, <1>3, <1>5, <1>6, <1>8, <2>3, LocalRange
<1> QED BY <1>1, <1>7, <1>8 DEF QueueFetchRange

LEMMA CopyTailBlocks ==
    ASSUME Performing, Typed', BlocksInv, Ready, NEW e \in filemap, First(e), CopyTail(e), e.left = {},
           filemap' = filemap \ {e}, UNCHANGED source, ~split', step' = "perform"
    PROVE  BlocksInv'
<1>1. e.action = "COPY_TAIL" /\ QueueFetchRange(e.path, e.tsize, e.ssize - e.tsize)
  BY DEF CopyTail
<1>2. OrderOK /\ e \in Entries /\ EntryOK(e) /\ e.tsize \in Nat /\ e.ssize \in Nat
  BY PerformingFacts DEF Entries, BlocksInv
<1>3. e.path \in Paths /\ Here(e.path) /\ e.tsize < e.ssize
  BY <1>1, <1>2, PatchingEntry DEF Patching, EntryOK
<1>4. PICK off, len : off = e.tsize /\ len = e.ssize - e.tsize
  OBVIOUS
<1>5. off \in Nat /\ len \in Nat \ {0}
  BY <1>2, <1>3, <1>4
<1>6. Rest(e)
  BY <1>2, RestGone
<1>7. RangeOf(e, off, len) /\ \A f \in filemap' : f.path # e.path
  BY <1>1, <1>4, TailRange, EntryOfGone
<1>8. CASE mode = "remote" /\ QueueRange(e.path, TRUE, off, len) /\ UNCHANGED <<tgt, tdeKeys>>
  BY <1>5, <1>6, <1>7, <1>8, RemoteRange
<1>9. CASE /\ mode = "local" /\ EnsureTdeKeys(e.path) /\ UNCHANGED requests
           /\ tgt' = WriteRange(EnsureFiles(tgt, e.path), e.path, off, len, cur')
  <2>1. e.path \in DOMAIN src
    BY <1>3, <1>9 DEF Here
  <2>2. off <= Len(tgt[e.path])
    BY <1>1, <1>2, <1>3, <1>4, <2>1 DEF EntryOK
  <2> QED BY <1>5, <1>6, <1>7, <1>9, <2>2, LocalRange
<1> QED BY <1>1, <1>4, <1>8, <1>9 DEF QueueFetchRange

LEMMA CopyBlocks ==
    ASSUME Performing, Typed', BlocksInv, Ready, NEW e \in filemap, First(e), Copy(e), e.left = {},
           filemap' = filemap \ {e}, UNCHANGED source, ~split'
    PROVE  BlocksInv'
<1>1. e.action = "COPY" /\ QueueFetchFile(e.path, e.ssize) /\ UNCHANGED tdeKeys
  BY DEF Copy
<1>2. e \in Entries /\ e.ssize \in Nat /\ e.path \in Paths \cup WalPaths /\ IsFiles(src)
  BY PerformingFacts DEF Entries
<1>3. CASE mode = "remote"
  <2>1. PICK len : len = IF e.ssize < ChunkBlocks THEN ChunkBlocks ELSE e.ssize
    OBVIOUS
  <2>2. len \in Nat \ {0} /\ len >= e.ssize
    BY <1>2, <2>1, PathFacts
  <2>3. /\ QueueRange(e.path, FALSE, 0, len)
        /\ tgt' = IF IsWal(e.path) THEN tgt ELSE With(tgt, e.path, <<>>)
    BY <1>1, <1>3, <2>1 DEF QueueFetchFile
  <2> QED BY <1>1, <1>3, <2>2, <2>3, RemoteCopy
<1>4. CASE mode = "local" /\ IsWal(e.path) /\ UNCHANGED <<tgt, requests>>
  <2>1. e.path \notin DOMAIN src
    BY <1>2, <1>4, PathFacts, FilesDef
  <2> QED BY <1>1, <1>4, <2>1, OtherEntry
<1>5. CASE mode = "local" /\ ~IsWal(e.path) /\ UNCHANGED requests /\ tgt' = With(tgt, e.path, src[e.path])
  <2>1. e.path \in Paths
    BY <1>2, <1>5, PathFacts
  <2> QED BY <1>1, <1>5, <2>1, LocalCopy
<1> QED BY <1>1, <1>3, <1>4, <1>5 DEF QueueFetchFile

LEMMA PerformEntryBlocks ==
    ASSUME Performing, Typed', BlocksInv, PerformEntry, ~split', step' = "perform"
    PROVE  BlocksInv'
<1>1. PICK e \in filemap : First(e) /\ (OverwritePage(e) \/ PerformAction(e))
  BY DEF PerformEntry
<1>2. Ready
  BY DEF PerformEntry
<1>3. CASE OverwritePage(e)
  BY <1>1, <1>2, <1>3, OverwritePageBlocks
<1>4. CASE PerformAction(e)
  <2>1. e.left = {} /\ filemap' = filemap \ {e} /\ UNCHANGED source
    BY <1>4 DEF PerformAction
  <2>2. e \in Entries /\ EntryOK(e) /\ IsFiles(src)
    BY PerformingFacts
  <2>3. CASE EnsureKey(e)
    BY <1>1, <1>2, <2>1, <2>3, KeyEntry, SameCut DEF EnsureKey
  <2>4. CASE EnsureWal(e)
    <3>1. e.path \notin DOMAIN src
      BY <2>2, <2>4, PathFacts, FilesDef DEF EnsureWal, EntryOK, Entries, Patching
    <3> QED BY <1>1, <1>2, <2>1, <2>4, <3>1, OtherEntry DEF EnsureWal
  <2>5. CASE Copy(e)
    BY <1>1, <1>2, <2>1, <2>5, CopyBlocks
  <2>6. CASE Truncate(e)
    <3>1. e.action = "TRUNCATE" /\ e.path \in DOMAIN tgt
      BY <2>6 DEF Truncate
    <3>2. PICK f : f = [tgt EXCEPT ![e.path] = SubSeq(@, 1, e.ssize)]
      OBVIOUS
    <3>3. EnsureUntouched(e, f)
      BY <2>6, <3>1, <3>2 DEF Truncate
    <3>4. Cut(f, e)
      BY <3>1, <3>2, TruncatedCut
    <3> QED BY <1>1, <1>2, <2>1, <3>1, <3>3, <3>4, KeyEntry
  <2>7. CASE CopyTail(e)
    BY <1>1, <1>2, <2>1, <2>7, CopyTailBlocks
  <2>8. CASE Remove(e)
    <3>1. e.path \notin DOMAIN src
      BY <2>2, <2>8, PathFacts, FilesDef DEF Remove, EntryOK, Entries
    <3>2. UNCHANGED <<tdeKeys, requests>> /\ (tgt' = tgt \/ tgt' = Without(tgt, e.path))
      BY <2>8 DEF Remove
    <3> QED BY <1>1, <1>2, <2>1, <3>1, <3>2, OtherEntry
  <2> QED BY <1>4, <2>3, <2>4, <2>5, <2>6, <2>7, <2>8 DEF PerformAction
<1> QED BY <1>1, <1>3, <1>4

\* The source drops a relation: what is asked of the others stays.
LEMMA SourceDropsBlocks ==
    ASSUME Performing, BlocksInv, NEW q \in Rels, SourceDrops(q)
    PROVE  BlocksInv'
<1>1. /\ mode = "remote" /\ skeys' = [skeys EXCEPT ![q] = None]
      /\ UNCHANGED <<mode, created, tgt, tkeys, filemap, tmp, cur, queue, want, fetching>>
  BY DEF SourceDrops, tdeKeys, requests
<1>2. DOMAIN src' = {p \in DOMAIN src : p[1] # q} /\ \A p \in DOMAIN src' : src'[p] = src[p]
  <2> DEFINE g == [p \in {p \in DOMAIN src : p[1] # q} |-> src[p]]
  <2>1. src' = g
    BY DEF SourceDrops
  <2>2. DOMAIN g = {p \in DOMAIN src : p[1] # q} /\ \A p \in DOMAIN g : g[p] = src[p]
    OBVIOUS
  <2> HIDE DEF g
  <2> QED BY <2>1, <2>2
<1>3. \A p \in Paths : Here(p) => Here(p)'
  BY <1>1, <1>2 DEF OnSource, Here
<1>4. OrderOK'
  <2>1. \A e : First(e)' <=> First(e)
    BY <1>1 DEF First
  <2>2. Contiguous' /\ \A p : AtEnd(p)' <=> AtEnd(p)
    BY <1>1, QueueSame DEF BlocksInv, OrderOK
  <2>3. want # NoRange => AtEnd(want.path)'
    BY <1>1 DEF BlocksInv, OrderOK, AtEnd, Rows
  <2> QED BY <1>1, <2>1, <2>2, <2>3 DEF BlocksInv, OrderOK
<1>5. CurOK'
  <2>1. cur # NoFile => Here(cur.path)'
    <3>1. cur = NoFile \/ cur.path \in Paths
      BY PerformingFacts DEF KeyTypes, Files
    <3>2. PICK p : p = cur.path
      OBVIOUS
    <3>3. cur # NoFile => Here(p)'
      BY <1>3, <3>1, <3>2 DEF BlocksInv, CurOK
    <3> QED BY <1>1, <3>2, <3>3 DEF Here, OnSource
  <2>2. AtHead(cur.path)' /\ (Asked(cur.path)' <=> Asked(cur.path))
    BY <1>1 DEF BlocksInv, CurOK, AtHead, Rows, Asked
  <2> QED BY <1>1, <2>1, <2>2 DEF BlocksInv, CurOK
<1>6. ASSUME NEW r \in Rels, Old(r)' PROVE MainOK(r)' /\ FsmOK(r)'
  <2>1. Main(r) \in DOMAIN src' /\ Main(r) \in DOMAIN src /\ r # q
    BY <1>2, <1>6 DEF Old, Main
  <2>2. src'[Main(r)] = src[Main(r)] /\ skeys'[r] = skeys[r]
    BY <1>1, <1>2, <2>1, PerformingFacts DEF KeyTypes
  <2>3. Old(r)
    <3>1. \A s \in 1 .. LastSeg : <<r, s>> \in DOMAIN src => <<r, s>> \in DOMAIN src'
      BY <1>2, <2>1
    <3> QED BY <1>1, <1>6, <2>1, <3>1 DEF Old
  <2>4. MainOK(r)
    BY <2>3 DEF BlocksInv
  <2>5. BlocksOK(r)'
    BY <1>1, <2>2, <2>4 DEF MainOK, BlocksOK, Planned, Requested, Written, EntryOf
  <2>6. Copied(r) => Copied(r)'
    BY <1>1, <2>2 DEF Copied, Asks, FileKey
  <2>7. Patched(r) => Patched(r)'
    <3>1. KeyState(r) => KeyState(r)'
      BY <1>1, <2>2 DEF KeyState, Waiting, Current, Finished, Asked, Unbegun, EntryOf
    <3> QED BY <1>1, <2>2, <3>1 DEF Patched, FileKey, Asks
  <2> QED BY <1>1, <2>4, <2>5, <2>6, <2>7 DEF MainOK, FsmOK
<1> QED BY <1>4, <1>5, <1>6 DEF BlocksInv

-----------------------------------------------------------------------------
(* Before and after perform_rewind().                                      *)

\* What decide_file_action() makes of the main fork of a relation.
LEMMA MainEntry ==
    ASSUME Typed, NEW r \in Rels, Main(r) \in DOMAIN src
    PROVE  \E e \in RelEntries :
              /\ e.path = Main(r) /\ \A f \in RelEntries : f.path = Main(r) => f = e
              /\ e.left = PagesToOverwrite(Main(r)) /\ e.left = e.pages
              /\ Main(r) \notin DOMAIN tgt => e.action = "COPY"
              /\ Main(r) \in DOMAIN tgt =>
                    /\ e.ssize = Len(src[Main(r)]) /\ e.tsize = Len(tgt[Main(r)]) /\ e.action # "COPY"
                    /\ e.tsize < e.ssize => e.action = "COPY_TAIL"
                    /\ e.tsize > e.ssize => e.action = "TRUNCATE"
<1> DEFINE M == Main(r)
           d == [path |-> M, action |-> DecideAction(M), pages |-> PagesToOverwrite(M),
                 left |-> PagesToOverwrite(M), ssize |-> SizeOf(src, M), tsize |-> SizeOf(tgt, M)]
<1>1. d \in RelEntries
  BY DEF RelEntries
<1>2. \A f \in RelEntries : f.path = M => f = d
  BY RelEntriesFacts
<1>3. IsRelFile(M)
  BY MainFacts
<1>4. DecideAction(M) =
         IF M \notin DOMAIN tgt THEN "COPY"
         ELSE IF SizeOf(tgt, M) < SizeOf(src, M) THEN "COPY_TAIL"
         ELSE IF SizeOf(tgt, M) > SizeOf(src, M) THEN "TRUNCATE" ELSE "ENSURE_TDE_KEY"
  BY <1>3 DEF DecideAction
<1>5. SizeOf(src, M) = Len(src[M]) /\ (M \in DOMAIN tgt => SizeOf(tgt, M) = Len(tgt[M]))
  BY DEF SizeOf
<1>6. Len(src[M]) \in Nat /\ (M \in DOMAIN tgt => Len(tgt[M]) \in Nat)
  BY FilesDef DEF Typed
<1>7. /\ d.path = M /\ d.action = DecideAction(M) /\ d.pages = PagesToOverwrite(M)
      /\ d.left = PagesToOverwrite(M) /\ d.ssize = SizeOf(src, M) /\ d.tsize = SizeOf(tgt, M)
  OBVIOUS
<1> HIDE DEF d
<1>8. PICK e : e = d
  OBVIOUS
<1>9. M \notin DOMAIN tgt => e.action = "COPY"
  BY <1>4, <1>7, <1>8
<1>10. M \in DOMAIN tgt =>
          /\ e.ssize = Len(src[M]) /\ e.tsize = Len(tgt[M]) /\ e.action # "COPY"
          /\ e.tsize < e.ssize => e.action = "COPY_TAIL"
          /\ e.tsize > e.ssize => e.action = "TRUNCATE"
  BY <1>4, <1>5, <1>6, <1>7, <1>8
<1> QED BY <1>1, <1>2, <1>7, <1>8, <1>9, <1>10

LEMMA BuildFilemapBlocks ==
    ASSUME Typed, SafeInv, BuildFilemap, \A r \in Rels : Old(r) => StartOK(r) /\ tmp[r] = skeys[r]
    PROVE  BlocksInv'
<1>1. /\ step = "keys" /\ filemap' = RelEntries \cup WalEntries
      /\ UNCHANGED <<mode, src, skeys, created, tgt, tkeys, changed, tmp, cur, queue, want, fetching>>
  BY DEF BuildFilemap, source, tdeKeys, requests
<1>2. /\ queue = <<>> /\ want = NoRange /\ cur = NoFile /\ ~fetching /\ WalRec
      /\ IsFiles(src) /\ IsFiles(tgt) /\ DOMAIN queue = {}
  BY <1>1 DEF SafeInv, Typed
<1>3. ASSUME NEW e \in filemap' PROVE e.path # <<>> /\ e.left = e.pages
  <2>1. CASE e \in RelEntries
    BY <2>1, RelEntriesFacts, PathFacts
  <2>2. CASE e \in WalEntries
    BY <1>2, <2>2, WalEntriesFacts, PathFacts
  <2> QED BY <1>1, <2>1, <2>2
<1>4. OrderOK'
  BY <1>1, <1>2, <1>3 DEF OrderOK, Contiguous
<1>5. \A r : Old(r)' <=> Old(r)
  BY <1>1 DEF Old
<1>6. CurOK'
  <2>1. AtHead(cur.path)'
    BY <1>1, <1>2 DEF AtHead, Rows
  <2>2. \A r \in Rels : Old(r)' => tmp'[r] = skeys'[r]
    BY <1>1, <1>5
  <2>3. \A e \in filemap' : cur'.path # e.path
    BY <1>1, <1>2, <1>3 DEF NoFile
  <2> QED BY <1>1, <1>2, <2>1, <2>2, <2>3 DEF CurOK
<1>7. ASSUME NEW r \in Rels, Old(r) PROVE MainOK(r)'
  <2> DEFINE M == Main(r)
  <2>1. M \in Paths /\ M \in DOMAIN src /\ M # <<>> /\ M \notin WalPaths /\ StartOK(r) /\ tmp[r] = skeys[r]
    BY <1>7, MainFacts DEF Old
  <2>2. PICK e \in RelEntries :
           /\ e.path = M /\ \A f \in RelEntries : f.path = M => f = e
           /\ e.left = PagesToOverwrite(M) /\ e.left = e.pages
           /\ M \notin DOMAIN tgt => e.action = "COPY"
           /\ M \in DOMAIN tgt =>
                 /\ e.ssize = Len(src[M]) /\ e.tsize = Len(tgt[M]) /\ e.action # "COPY"
                 /\ e.tsize < e.ssize => e.action = "COPY_TAIL"
                 /\ e.tsize > e.ssize => e.action = "TRUNCATE"
    BY <2>1, MainEntry
  <2>3. e \in filemap' /\ \A f \in filemap' : f.path = M => f = e
    BY <1>1, <1>2, <2>1, <2>2, WalEntriesFacts
  <2>4. cur'.path # M /\ \A x : Asks(M, x)'
    BY <1>1, <1>2, <2>1 DEF NoFile, NoRange, Asks
  <2>5. Len(src[M]) \in Nat /\ (M \in DOMAIN tgt => Len(tgt[M]) \in Nat /\ DOMAIN tgt[M] = 1 .. Len(tgt[M]))
    BY <1>2, <2>1, FilesDef
  <2> HIDE DEF M
  <2>6. EntryOf(M)' /\ Unbegun(M)'
    BY <2>2, <2>3 DEF EntryOf, Unbegun
  <2>7. \A i : Plans(e, i) => Planned(M, i)'
    BY <2>2, <2>3 DEF Planned
  <2>8. CASE M \notin DOMAIN tgt
    <3>1. Copied(r)'
      BY <1>1, <2>1, <2>2, <2>3, <2>4, <2>8 DEF Copied, M
    <3>2. BlocksOK(r)'
      BY <1>1, <2>2, <2>6, <2>7, <2>8 DEF BlocksOK, Plans, M
    <3> QED BY <3>1, <3>2 DEF MainOK
  <2>9. CASE M \in DOMAIN tgt
    <3>1. /\ skeys[r] = None <=> tkeys[r] = None
          /\ Len(tgt[M]) <= SegBlocks
          /\ \A i \in DOMAIN tgt[M] : /\ tgt[M][i].key = tkeys[r]
                                      /\ tgt[M][i].data = "t" => <<M, i - 1>> \in changed
      BY <2>1, <2>9 DEF StartOK, M
    <3>2. KeyState(r)'
      BY <1>1, <2>1, <2>4, <2>6 DEF KeyState, Waiting, M
    <3>3. FileKey(M, tkeys[r])'
      BY <1>1, <3>1 DEF FileKey
    <3>8. \A f \in filemap' : f.path = M => f.action # "COPY"
      BY <2>2, <2>3, <2>9
    <3>9. M \in DOMAIN tgt' /\ (skeys'[r] = None <=> tkeys'[r] = None) /\ Asks(M, TRUE)'
      BY <1>1, <2>4, <2>9, <3>1
    <3>4. Patched(r)'
      BY <3>2, <3>3, <3>8, <3>9 DEF Patched, M
    <3>5. ASSUME NEW i \in 1 .. Len(src[M]) PROVE Planned(M, i)' \/ Written(M, i)'
      <4>1. CASE i > Len(tgt[M])
        <5>1. e.action = "COPY_TAIL" /\ i \in e.tsize + 1 .. e.ssize
          BY <2>2, <2>5, <2>9, <3>5, <4>1
        <5> QED BY <2>7, <5>1 DEF Plans
      <4>2. CASE i <= Len(tgt[M]) /\ tgt[M][i].data = "c"
        BY <1>1, <2>9, <4>2 DEF Written
      <4>3. CASE i <= Len(tgt[M]) /\ tgt[M][i].data = "t"
        <5>1. i \in DOMAIN tgt[M]
          BY <2>5, <2>9, <3>5, <4>3
        <5>2. PICK b : b = i - 1
          OBVIOUS
        <5>3. <<M, b>> \in changed
          BY <3>1, <4>3, <5>1, <5>2
        <5>4. SegBlocks \in Nat
          BY PathFacts
        <5>5. b \in 0 .. SegBlocks - 1 /\ b < Len(src[M]) /\ b < Len(tgt[M])
          BY <2>5, <2>9, <3>1, <3>5, <4>3, <5>2, <5>4
        <5>6. b \in PagesToOverwrite(M)
          BY <2>1, <2>9, <5>3, <5>5 DEF PagesToOverwrite, SizeOf
        <5> QED BY <2>2, <2>7, <5>2, <5>6 DEF Plans
      <4>4. i <= Len(tgt[M]) => tgt[M][i].data \in {"c", "t"}
        <5>1. i <= Len(tgt[M]) => tgt[M][i] \in Blocks
          BY <1>2, <2>5, <2>9, <3>5, FilesDef
        <5> QED BY <5>1 DEF Blocks
      <4> QED BY <2>5, <2>9, <3>5, <4>1, <4>2, <4>3, <4>4
    <3>6. Len(tgt[M]) <= Len(src[M]) \/ e.action = "TRUNCATE"
      BY <2>2, <2>5, <2>9
    <3>7. BlocksOK(r)'
      BY <1>1, <2>2, <2>3, <2>9, <3>5, <3>6 DEF BlocksOK, M
    <3> QED BY <3>4, <3>7 DEF MainOK
  <2> QED BY <2>8, <2>9
<1>8. ASSUME NEW r \in Rels, Old(r) PROVE FsmOK(r)'
  <2>1. ASSUME Fsm(r) \in DOMAIN src PROVE EntryOf(Fsm(r))'
    <3>1. \E e \in RelEntries : e.path = Fsm(r)
      <4>1. PICK p : p = Fsm(r)
        OBVIOUS
      <4>2. p \in DOMAIN src \cup DOMAIN tgt
        BY <2>1, <4>1
      <4>3. [path |-> p, action |-> DecideAction(p), pages |-> PagesToOverwrite(p),
             left |-> PagesToOverwrite(p), ssize |-> SizeOf(src, p), tsize |-> SizeOf(tgt, p)] \in RelEntries
        BY <4>2 DEF RelEntries
      <4> QED BY <4>1, <4>3
    <3> QED BY <1>1, <3>1 DEF EntryOf
  <2> QED BY <1>1, <2>1 DEF FsmOK
<1> QED BY <1>4, <1>5, <1>6, <1>7, <1>8 DEF BlocksInv

\* The last keys are put in place.
LEMMA FinishFetchBlocks ==
    ASSUME Performing, BlocksInv, FinishFetch
    PROVE  WholeRelations'
<1>1. /\ filemap = {} /\ queue = <<>> /\ want = NoRange /\ tgt' = FlushFiles(tgt)
      /\ tmp' = FlushRelKey /\ cur' = NoFile /\ created' = created /\ UNCHANGED source
      /\ filemap' = filemap /\ queue' = queue /\ want' = want
  BY DEF FinishFetch, Done, Ready, source, requests
<1>2. SameSource
  BY <1>1, SourceSame
<1>3. KeyTypes /\ IsFiles(tgt) /\ IsFile(tgt) /\ IsFiles(src)
  BY PerformingFacts
<1>4. IsFiles(tgt)' /\ DOMAIN tgt' = DOMAIN tgt
  BY <1>1, <1>3, FlushFacts
<1>5. NoRange.path = <<>> /\ NoFile.path = <<>>
  BY DEF NoRange, NoFile
<1>6. \A r : Old(r)' <=> Old(r)
  BY <1>1, <1>2, SourceKept
<1>7. ASSUME NEW r \in Rels, Old(r) PROVE Whole(Main(r))' /\ (mode = "local" /\ Fsm(r) \in DOMAIN src => Whole(Fsm(r))')
  <2> DEFINE M == Main(r)
  <2>1. MainOK(r) /\ FsmOK(r) /\ M \in Paths /\ M # <<>> /\ IsRelFile(M) /\ M[1] = r /\ M \in DOMAIN src
    BY <1>7, MainFacts DEF BlocksInv, Old
  <2>2. Flushed(r, tgt, tgt')
    <3>1. cur # NoFile => Here(cur.path)
      BY DEF BlocksInv, CurOK
    <3>2. cur'.path # M
      BY <1>1, <1>5, <2>1
    <3> QED BY <1>1, <1>3, <1>7, <3>1, <3>2, FlushOther
  <2>3. ~EntryOf(M) /\ ~Asked(M) /\ SameFor(M) /\ SameEntries(Fsm(r))
    <3>1. ~EntryOf(M) /\ ~Asked(M)
      BY <1>1, <1>5, <2>1 DEF EntryOf, Asked
    <3>2. \A p : SameEntries(p)
      BY <1>1 DEF SameEntries
    <3>3. SameFor(M)
      BY <1>1, <3>2, QueueSame DEF SameFor
    <3> QED BY <3>1, <3>2, <3>3
  <2>4. FileSame(M, tgt, tgt')
    <3>1. M # <<cur.path[1], FsmPart>>
      BY <2>1, PathFacts DEF IsRelFile, FsmPart
    <3> QED BY <1>1, <1>3, <3>1, FlushFacts DEF FileSame
  <2>5. MainOK(r)'
    <3>1. KeySame(r) \/ KeyDone(r)
      BY <2>2 DEF Flushed
    <3> QED BY <1>2, <1>7, <2>1, <2>3, <2>4, <3>1, MainKept
  <2>6. FsmOK(r)'
    <3>1. \/ tmp'[r] = tmp[r] /\ FsmSame(r, tgt, tgt')
          \/ KeyDone(r) /\ FsmDone(r, tgt, tgt')
      BY <2>2 DEF Flushed, KeySame
    <3> QED BY <1>2, <1>4, <1>7, <2>1, <2>3, <3>1, FsmKept
  <2>7. \A p : ~EntryOf(p)'
    BY <1>1 DEF EntryOf
  <2>8. ~Asked(M)' /\ ~Unbegun(M)' /\ cur'.path # M
    BY <1>1, <1>5, <2>1 DEF Asked, Unbegun
  <2>9. \A i : ~Planned(M, i)' /\ ~Requested(M, i)'
    BY <1>1, <1>5, <2>1 DEF Planned, Requested
  <2>10. M \in DOMAIN tgt' /\ src' = src /\ \A i \in 1 .. Len(src[M]) : Written(M, i)'
    BY <1>2, <2>5, <2>7, <2>9 DEF MainOK, BlocksOK, SameSource
  <2>11. Len(tgt'[M]) <= Len(src[M])
    BY <1>1, <2>5, <2>10 DEF MainOK, BlocksOK
  <2>12. \A i \in DOMAIN tgt'[M] : tgt'[M][i].key = tmp'[r]
    <3>1. CASE Copied(r)'
      BY <2>10, <3>1 DEF Copied, FileKey
    <3>2. CASE Patched(r)'
      <4>1. tmp'[r] = tkeys'[r]
        BY <2>7, <2>8, <3>2 DEF Patched, KeyState, Waiting, Current, Finished
      <4> QED BY <3>2, <4>1 DEF Patched, FileKey
    <3> QED BY <2>5, <3>1, <3>2 DEF MainOK
  <2>13. Len(tgt'[M]) = Len(src[M])
    <3>1. PICK n, m : n = Len(tgt'[M]) /\ m = Len(src[M])
      OBVIOUS
    <3>2. n \in Nat /\ m \in Nat
      BY <1>3, <1>4, <2>1, <2>10, <3>1, FilesDef
    <3>3. m # 0 => m <= n
      <4>1. m # 0 => m \in 1 .. m
        BY <3>2
      <4> QED BY <2>10, <3>1, <4>1 DEF Written
    <3> QED BY <2>11, <3>1, <3>2, <3>3
  <2>14. \A i \in DOMAIN tgt'[M] : tgt'[M][i].data = "c"
    <3>1. DOMAIN tgt'[M] = 1 .. Len(src[M])
      BY <1>4, <2>10, <2>13, FilesDef
    <3> QED BY <2>10, <3>1 DEF Written
  <2>15. Whole(M)'
    BY <2>1, <2>10, <2>12, <2>13, <2>14 DEF Whole
  <2>16. mode = "local" /\ Fsm(r) \in DOMAIN src => Whole(Fsm(r))'
    BY <1>2, <2>6, <2>7 DEF FsmOK, SameSource
  <2> QED BY <2>15, <2>16
<1>8. mode' = mode /\ src' = src
  BY <1>2 DEF SameSource
<1> QED BY <1>6, <1>7, <1>8 DEF WholeRelations

\* What the source created is rebuilt, and the rest is what was fetched.
LEMMA ReplayIntact ==
    ASSUME Typed, MainFirst, WholeRelations, tkeys = tmp, Replay
    PROVE  RelationsIntact'
<1> DEFINE key(r) == IF r \notin created \/ tkeys[r] # None \/ skeys[r] = None
                     THEN tkeys[r] ELSE KeyOf("new", r)
           gone == {r \in Rels : \A p \in DOMAIN src : p[1] # r}
           rebuilt == {p \in DOMAIN src : p[1] \in created}
           c(p) == [i \in DOMAIN src[p] |-> Block(key(p[1]), "c")]
           g == [p \in {q \in DOMAIN tgt : q[1] \notin gone} \cup rebuilt |->
                     IF p \in rebuilt THEN c(p) ELSE tgt[p]]
<1>1. /\ tgt' = g /\ tkeys' = [r \in Rels |-> IF r \in gone THEN None ELSE key(r)]
      /\ src' = src /\ mode' = mode
  BY DEF Replay
<1>2. DOMAIN g = {q \in DOMAIN tgt : q[1] \notin gone} \cup rebuilt
  OBVIOUS
<1>3. \A p \in DOMAIN g : g[p] = IF p \in rebuilt THEN c(p) ELSE tgt[p]
  BY Zenon
<1>4. IsFiles(src) /\ IsFiles(tgt)
  BY DEF Typed
<1>5. \A p \in DOMAIN src : p \in Paths /\ p[1] \in Rels /\ p[1] \notin gone
  BY <1>4, FilesDef, PathFacts
<1>6. \A p \in DOMAIN src : tkeys'[p[1]] = key(p[1])
  BY <1>1, <1>5
<1>7. ASSUME NEW p \in DOMAIN src, p[1] \in created
      PROVE  Intact(p)'
  <2>1. p \in rebuilt
    BY <1>7
  <2>2. p \in DOMAIN tgt' /\ tgt'[p] = c(p)
    BY <1>1, <1>2, <1>3, <2>1
  <2> DEFINE k == key(p[1])
  <2>3. /\ DOMAIN c(p) = DOMAIN src[p]
        /\ \A i \in DOMAIN src[p] : c(p)[i] = Block(k, "c")
    OBVIOUS
  <2>4. Len(src[p]) \in Nat /\ DOMAIN src[p] = 1 .. Len(src[p])
    BY <1>4, FilesDef
  <2>5. c(p) = [i \in 1 .. Len(src[p]) |-> Block(k, "c")]
    BY <2>4
  <2> HIDE DEF key, c, g, k
  <2>6. Len(c(p)) = Len(src[p])
    BY <2>4, <2>5
  <2>7. \A i \in DOMAIN src[p] : Reads(k, c(p)[i]) = "c"
    BY <2>3 DEF Reads, Block
  <2>8. tkeys'[p[1]] = k
    BY <1>6 DEF k
  <2> QED BY <1>1, <2>2, <2>3, <2>6, <2>7, <2>8 DEF Intact
<1>8. ASSUME NEW p \in DOMAIN src, p[1] \notin created, Whole(p)
      PROVE  Intact(p)'
  <2>1. p \notin rebuilt /\ p \in DOMAIN tgt /\ p[1] \notin gone
    BY <1>5, <1>8 DEF Whole
  <2>2. p \in DOMAIN g /\ g[p] = tgt[p]
    BY <1>2, <1>3, <2>1
  <2>3. tkeys'[p[1]] = tmp[p[1]]
    BY <1>6, <1>8
  <2> HIDE DEF g
  <2> QED BY <1>1, <1>8, <2>2, <2>3 DEF Whole, Intact, Reads
<1>9. ASSUME NEW p \in DOMAIN src, p[1] \notin created, OneFile(p[1])',
             IsRelFile(p) \/ (mode = "local" /\ p[2] = FsmPart)
      PROVE  Whole(p)
  <2>1. PICK r \in Rels : r = p[1]
    BY <1>5
  <2>2. p = <<r, p[2]>> /\ p[2] \in Nat /\ LastSeg \in Nat
    BY <1>5, <2>1, PathFacts
  <2>3. \A s \in 1 .. LastSeg : <<r, s>> \notin DOMAIN src
    BY <1>1, <1>9, <2>1 DEF OneFile
  <2>4. Old(r)
    BY <1>9, <2>1, <2>3 DEF Old, MainFirst
  <2>5. CASE IsRelFile(p)
    <3>1. p[2] \notin 1 .. LastSeg
      BY <2>2, <2>3
    <3>2. p[2] = 0
      BY <2>2, <2>5, <3>1 DEF IsRelFile
    <3> QED BY <2>2, <2>4, <3>2 DEF WholeRelations, Main
  <2>6. CASE mode = "local" /\ p[2] = FsmPart
    <3>1. p = Fsm(r)
      BY <2>2, <2>6 DEF Fsm
    <3> QED BY <2>4, <2>6, <3>1 DEF WholeRelations
  <2> QED BY <1>9, <2>5, <2>6
<1>10. \A p \in DOMAIN src : OneFile(p[1])' /\ (IsRelFile(p) \/ (mode = "local" /\ p[2] = FsmPart)) => Intact(p)'
  BY <1>7, <1>8, <1>9
<1> QED BY <1>1, <1>10 DEF RelationsIntact

\* The two clusters differ where the target's WAL says so.
LEMMA DataInvStart ==
    ASSUME Init
    PROVE  DataInv
<1>1. PICK h : Clusters(h)
  BY InitFacts
<1>2. step = "start" /\ split = FALSE
  BY DEF Init
<1>3. /\ skeys = [r \in Rels |-> KeyOf(h[r].sk, r)] /\ tkeys = [r \in Rels |-> KeyOf(h[r].tk, r)]
      /\ created = {r \in Rels : h[r].new} /\ IsFiles(src) /\ IsFiles(tgt)
      /\ \A r \in Rels : /\ skeys[r] \in KeysMadeBy({"src"}) /\ tkeys[r] \in KeysMadeBy({"src", "tgt"})
                         /\ HistoryOK(h[r], r)
      /\ changed = {c \in (DOMAIN tgt) \X Pages :
                      IsRelFile(c[1]) /\ c[1][2] * SegBlocks + c[2] \in h[c[1][1]].ch}
  BY <1>1 DEF Clusters
<1>4. \A r \in Rels : h[r].n \in Int /\ h[r].m \in Int /\ h[r].fk \subseteq Forks
  BY <1>3 DEF HistoryOK
<1>5. \A r \in Rels : skeys[r] \in FileKeys /\ tkeys[r] \in FileKeys
  BY <1>3, KeyFacts
<1>6. \A r \in Rels : /\ MadeFiles(FilesOf(r, h[r].n, skeys[r], h[r].fk, {}), r, h[r].n, skeys[r], h[r].fk, {})
                      /\ MadeFiles(FilesOf(r, h[r].m, tkeys[r], h[r].fk, h[r].ch),
                                   r, h[r].m, tkeys[r], h[r].fk, h[r].ch)
  BY <1>4, <1>5, FilesOfFacts
<1>7. ASSUME NEW p \in DOMAIN src
      PROVE  p[1] \in Rels /\ h[p[1]].n # -1 /\ Main(p[1]) \in DOMAIN src
  <2>1. PICK r, f : r = p[1] /\ f = FilesOf(r, h[r].n, skeys[r], h[r].fk, {})
    OBVIOUS
  <2>2. r \in Rels /\ p \in DOMAIN f /\ DOMAIN f \subseteq DOMAIN src
    BY <1>1, <2>1 DEF Clusters
  <2>3. MadeFiles(f, r, h[r].n, skeys[r], h[r].fk, {})
    BY <1>6, <2>1, <2>2
  <2>4. h[r].n # -1 /\ <<r, 0>> \in DOMAIN f
    BY <2>2, <2>3 DEF MadeFiles
  <2> QED BY <2>1, <2>2, <2>4 DEF Main
<1>8. ASSUME NEW r \in Rels, Old(r) PROVE StartOK(r)
  <2> DEFINE M == Main(r)
  <2>1. PICK f : f = FilesOf(r, h[r].m, tkeys[r], h[r].fk, h[r].ch)
    OBVIOUS
  <2>2. SUFFICES ASSUME M \in DOMAIN tgt
                 PROVE  /\ skeys[r] = None <=> tkeys[r] = None
                        /\ Len(tgt[M]) <= SegBlocks
                        /\ \A i \in DOMAIN tgt[M] :
                              /\ tgt[M][i].key = tkeys[r]
                              /\ tgt[M][i].data = "t" => <<M, i - 1>> \in changed
    BY DEF StartOK
  <2>3. M \in Paths /\ M[1] = r /\ M[2] = 0 /\ IsRelFile(M) /\ M \in DOMAIN src /\ M = <<r, 0>>
    BY <1>8, MainFacts DEF Old, Main
  <2>4. M \in DOMAIN f /\ tgt[M] = f[M]
    BY <1>1, <2>1, <2>2, <2>3 DEF Clusters
  <2>5. MadeFiles(f, r, h[r].m, tkeys[r], h[r].fk, h[r].ch)
    BY <1>6, <2>1
  <2> HIDE DEF M
  <2>6. h[r].m # -1 /\ h[r].n # -1 /\ ~h[r].new /\ HistoryOK(h[r], r)
    <3>1. h[r].m # -1
      BY <2>4, <2>5 DEF MadeFiles
    <3>2. h[r].n # -1
      BY <1>7, <2>3
    <3>3. ~h[r].new
      BY <1>3, <1>8 DEF Old
    <3> QED BY <1>3, <3>1, <3>2, <3>3
  <2>7. skeys[r] = None <=> tkeys[r] = None
    <3>1. h[r].sk = None <=> h[r].tk = None
      BY <2>6 DEF HistoryOK
    <3>2. h[r].sk \in {None, "src"} /\ h[r].tk \in {None, "src", "tgt"}
      BY <2>6 DEF HistoryOK
    <3>3. \A s \in {"src", "tgt"} : KeyOf(s, r) # None
      BY KeyFacts
    <3>4. KeyOf(None, r) = None
      BY KeyFacts
    <3>5. skeys[r] = KeyOf(h[r].sk, r) /\ tkeys[r] = KeyOf(h[r].tk, r)
      BY <1>3
    <3> QED BY <3>1, <3>2, <3>3, <3>4, <3>5
  <2>8. Len(tgt[M]) <= SegBlocks
    <3>1. Len(f[M]) = Cardinality(InSeg(h[r].m, 0))
      BY <2>3, <2>5, <2>6 DEF MadeFiles
    <3>2. Cardinality(InSeg(h[r].m, 0)) <= SegBlocks
      BY <1>4, InSegFacts
    <3> QED BY <2>4, <3>1, <3>2
  <2>9. ASSUME NEW i \in DOMAIN tgt[M], tgt[M][i].data = "t" PROVE <<M, i - 1>> \in changed
    <3>1. i - 1 \in h[r].ch
      BY <2>3, <2>4, <2>5, <2>9 DEF MadeFiles
    <3>2. i \in 1 .. Len(tgt[M]) /\ Len(tgt[M]) \in Nat /\ SegBlocks \in Nat
      BY <1>3, <2>2, <2>9, FilesDef, PathFacts
    <3>3. PICK b : b = i - 1
      OBVIOUS
    <3>4. b \in Pages /\ b \in h[r].ch
      BY <2>8, <3>1, <3>2, <3>3 DEF Pages
    <3>5. M[2] * SegBlocks + b = b
      BY <2>3, <3>2, <3>3
    <3>6. PICK c : c = <<M, b>>
      OBVIOUS
    <3>7. c \in (DOMAIN tgt) \X Pages /\ c[1] = M /\ c[2] = b
      BY <2>2, <3>4, <3>6
    <3>8. IsRelFile(c[1]) /\ c[1][2] * SegBlocks + c[2] \in h[c[1][1]].ch
      BY <2>3, <3>4, <3>5, <3>7
    <3> QED BY <1>3, <3>3, <3>6, <3>7, <3>8
  <2>10. \A i \in DOMAIN tgt[M] : tgt[M][i].key = tkeys[r]
    BY <2>4, <2>5 DEF MadeFiles
  <2> QED BY <2>7, <2>8, <2>9, <2>10
<1> QED BY <1>2, <1>7, <1>8 DEF DataInv, MainFirst, RelationsIntact

-----------------------------------------------------------------------------
(* The relations of the source are what the target has in the end.         *)

\* The steps of perform_rewind() stay in it, or end it, and do not forget that
\* the queue has run full.
LEMMA PerformingSteps ==
    ASSUME Performing, PerformEntry \/ QueueRest \/ ProcessRow \/ \E q \in Rels : SourceDrops(q)
    PROVE  step' \in {"perform", "crashed"} /\ (~split' => ~split)
<1>1. \A p : EnsureTdeKeys(p) => step' \in {"perform", "crashed"}
  BY DEF EnsureTdeKeys, Performing
<1>2. ASSUME NEW p, NEW x, NEW o, NEW l, QueueRange(p, x, o, l) PROVE ~split' => ~split
  <2>1. PICK full : split' = (split \/ full)
    BY <1>2 DEF QueueRange
  <2> QED BY <2>1
<1>3. CASE PerformEntry
  <2>1. PICK e \in filemap : OverwritePage(e) \/ PerformAction(e)
    BY <1>3 DEF PerformEntry
  <2>2. ASSUME NEW p, NEW o, NEW l, QueueFetchRange(p, o, l)
        PROVE  step' \in {"perform", "crashed"} /\ (~split' => ~split)
    <3>1. (QueueRange(p, TRUE, o, l) /\ step' = step) \/ (EnsureTdeKeys(p) /\ split' = split)
      BY <2>2 DEF QueueFetchRange, requests
    <3>2. QueueRange(p, TRUE, o, l) => (~split' => ~split)
      BY <1>2
    <3>3. step' \in {"perform", "crashed"}
      BY <1>1, <3>1 DEF Performing
    <3>4. ~split' => ~split
      BY <3>1, <3>2
    <3> QED BY <3>3, <3>4
  <2>3. ASSUME NEW p, NEW l, QueueFetchFile(p, l) PROVE ~split' => ~split
    <3>1. \/ QueueRange(p, FALSE, 0, IF l < ChunkBlocks THEN ChunkBlocks ELSE l)
          \/ split' = split
      BY <2>3 DEF QueueFetchFile, requests
    <3>2. PICK n : n = IF l < ChunkBlocks THEN ChunkBlocks ELSE l
      OBVIOUS
    <3>3. QueueRange(p, FALSE, 0, n) => (~split' => ~split)
      BY <1>2
    <3> QED BY <3>1, <3>2, <3>3
  <2>4. \A f : EnsureUntouched(e, f) => step' \in {"perform", "crashed"} /\ (~split' => ~split)
    BY <1>1 DEF EnsureUntouched, Performing, requests
  <2>5. CASE OverwritePage(e)
    BY <2>2, <2>5 DEF OverwritePage
  <2>6. CASE PerformAction(e)
    BY <2>2, <2>3, <2>4, <2>6 DEF PerformAction, EnsureKey, EnsureWal, Copy, Truncate, CopyTail, Remove,
       Performing, requests
  <2> QED BY <2>1, <2>5, <2>6
<1>4. CASE QueueRest
  BY <1>2, <1>4 DEF QueueRest, Performing
<1>5. CASE ProcessRow
  BY <1>1, <1>5 DEF ProcessRow, Performing
<1>6. CASE \E q \in Rels : SourceDrops(q)
  BY <1>6 DEF SourceDrops, Performing, requests
<1> QED BY <1>3, <1>4, <1>5, <1>6

LEMMA StartKept ==
    ASSUME Typed, MainFirst, \A r \in Rels : Old(r) => StartOK(r),
           FetchTdeKeys \/ \E q \in Rels, s \in {None, "src"} : SourceCreates(q, KeyOf(s, q))
    PROVE  /\ MainFirst' /\ step' = "keys" /\ split' = split
           /\ \A r \in Rels : Old(r)' => Old(r) /\ StartOK(r)' /\ skeys'[r] = skeys[r]
<1>1. CASE FetchTdeKeys
  <2>1. step' = "keys" /\ UNCHANGED <<src, skeys, created, tgt, tkeys, changed, split>>
    BY <1>1 DEF FetchTdeKeys, requests
  <2> QED BY <2>1 DEF MainFirst, Old, StartOK
<1>2. CASE \E q \in Rels, s \in {None, "src"} : SourceCreates(q, KeyOf(s, q))
  <2>1. PICK q \in Rels, s \in {None, "src"} : SourceCreates(q, KeyOf(s, q))
    BY <1>2
  <2>2. PICK k : k = KeyOf(s, q)
    OBVIOUS
  <2>3. /\ step' = "keys" /\ \A p \in DOMAIN src : p[1] # q
        /\ src' = With(src, <<q, 0>>, <<Block(k, "c")>>)
        /\ skeys' = [skeys EXCEPT ![q] = k] /\ created' = created \cup {q}
        /\ UNCHANGED <<tgt, tkeys, changed, split>>
    BY <2>1, <2>2 DEF SourceCreates, requests
  <2>4. DOMAIN src' = DOMAIN src \cup {Main(q)}
    BY <2>3 DEF With, Main
  <2>5. MainFirst'
    <3>1. Main(q)[1] = q
      BY DEF Main
    <3> QED BY <2>4, <3>1 DEF MainFirst
  <2>6. ASSUME NEW r \in Rels, Old(r)' PROVE Old(r) /\ StartOK(r)' /\ skeys'[r] = skeys[r]
    <3>1. r # q /\ r \notin created
      BY <2>3, <2>6 DEF Old
    <3>2. Main(r) # Main(q) /\ Main(r) \in DOMAIN src
      BY <2>4, <2>6, <3>1 DEF Old, Main
    <3>3. Old(r)
      BY <2>4, <2>6, <3>1, <3>2 DEF Old
    <3>4. skeys'[r] = skeys[r]
      BY <2>3, <3>1 DEF Typed, KeyTypes
    <3> QED BY <2>3, <3>3, <3>4 DEF StartOK
  <2> QED BY <2>3, <2>5, <2>6
<1> QED BY <1>1, <1>2

LEMMA DataInvNext ==
    ASSUME Typed, SafeInv, Typed', DataInv, [Next]_vars
    PROVE  DataInv'
<1>1. MainFirst
  BY DEF DataInv
<1>2. CASE FetchTdeKeys \/ \E q \in Rels, s \in {None, "src"} : SourceCreates(q, KeyOf(s, q))
  <2>1. step \in {"start", "keys"}
    BY <1>2 DEF FetchTdeKeys, SourceCreates
  <2>2. ~split /\ \A r \in Rels : Old(r) => StartOK(r)
    BY <2>1 DEF DataInv
  <2>3. /\ MainFirst' /\ step' = "keys" /\ split' = split
        /\ \A r \in Rels : Old(r)' => Old(r) /\ StartOK(r)' /\ skeys'[r] = skeys[r]
    BY <1>1, <1>2, <2>2, StartKept
  <2>4. ASSUME NEW r \in Rels, Old(r)' PROVE tmp'[r] = skeys'[r]
    <3>1. CASE FetchTdeKeys
      BY <3>1, <2>3, <2>4 DEF FetchTdeKeys
    <3>2. CASE \E q \in Rels, s \in {None, "src"} : SourceCreates(q, KeyOf(s, q))
      <4>1. tmp' = tmp /\ step = "keys"
        BY <3>2 DEF SourceCreates, tdeKeys
      <4> QED BY <2>3, <2>4, <4>1 DEF DataInv
    <3> QED BY <1>2, <3>1, <3>2
  <2> QED BY <2>2, <2>3, <2>4 DEF DataInv, RelationsIntact
<1>3. CASE BuildFilemap
  <2>1. step = "keys" /\ step' = "perform" /\ src' = src
    BY <1>3 DEF BuildFilemap, source
  <2>2. BlocksInv'
    BY <1>3, <2>1, BuildFilemapBlocks DEF DataInv
  <2>3. MainFirst'
    BY <1>1, <2>1 DEF MainFirst
  <2> QED BY <2>1, <2>2, <2>3 DEF DataInv, RelationsIntact
<1>4. CASE PerformEntry \/ QueueRest \/ ProcessRow \/ \E q \in Rels : SourceDrops(q)
  <2>1. Performing
    BY <1>4 DEF PerformEntry, QueueRest, ProcessRow, Done, Ready, SourceDrops, Performing
  <2>2. step = "perform" /\ step' \in {"perform", "crashed"} /\ (~split' => ~split)
    BY <1>4, <2>1, PerformingSteps DEF Performing
  <2>3. MainFirst'
    <3>1. CASE \E q \in Rels : SourceDrops(q)
      <4>1. PICK q \in Rels : SourceDrops(q)
        BY <3>1
      <4>2. DOMAIN src' = {p \in DOMAIN src : p[1] # q}
        BY <4>1 DEF SourceDrops
      <4>3. \A r : Main(r)[1] = r
        BY DEF Main
      <4> QED BY <1>1, <4>2, <4>3 DEF MainFirst
    <3>2. CASE PerformEntry \/ QueueRest \/ ProcessRow
      <4>1. src' = src
        BY <3>2 DEF PerformEntry, OverwritePage, PerformAction, QueueRest, ProcessRow, source
      <4> QED BY <1>1, <4>1 DEF MainFirst
    <3> QED BY <1>4, <3>1, <3>2
  <2>4. ASSUME step' = "perform", ~split' PROVE BlocksInv'
    <3>1. BlocksInv
      BY <2>2, <2>4 DEF DataInv
    <3> QED BY <1>4, <2>1, <2>4, <3>1, PerformEntryBlocks, QueueRestBlocks, RowBlocks, SourceDropsBlocks
  <2> QED BY <2>2, <2>3, <2>4 DEF DataInv, RelationsIntact
<1>5. CASE FinishFetch
  <2>1. Performing /\ step = "perform" /\ step' = "fetched" /\ src' = src /\ split' = split
    BY <1>5 DEF FinishFetch, Done, Ready, source, requests, Performing
  <2>2. ~split => WholeRelations'
    BY <1>5, <2>1, FinishFetchBlocks DEF DataInv
  <2>3. MainFirst'
    BY <1>1, <2>1 DEF MainFirst
  <2> QED BY <2>1, <2>2, <2>3 DEF DataInv, RelationsIntact
<1>6. CASE InstallKeys
  <2>1. /\ step = "fetched" /\ step' = "installed" /\ tkeys' = tmp
        /\ UNCHANGED <<mode, src, created, tgt, tmp, split>>
    BY <1>6 DEF InstallKeys, tdeKeys, requests
  <2>2. WholeRelations => WholeRelations'
    BY <2>1 DEF WholeRelations, Old, Whole
  <2>3. MainFirst'
    BY <1>1, <2>1 DEF MainFirst
  <2> QED BY <2>1, <2>2, <2>3 DEF DataInv, RelationsIntact
<1>7. CASE Replay
  <2>1. step = "installed" /\ step' = "replayed" /\ src' = src /\ split' = split
    BY <1>7 DEF Replay, requests
  <2>2. tkeys = tmp /\ (~split => WholeRelations)
    BY <2>1 DEF DataInv
  <2>3. ~split' => RelationsIntact'
    BY <1>1, <1>7, <2>1, <2>2, ReplayIntact
  <2>4. RelationsIntact'
    BY <2>1, <2>3 DEF RelationsIntact
  <2>5. MainFirst'
    BY <1>1, <2>1 DEF MainFirst
  <2> QED BY <2>1, <2>4, <2>5 DEF DataInv
<1>8. CASE UNCHANGED vars
  <2>1. UNCHANGED <<mode, src, skeys, created, tgt, tkeys, changed, step, filemap, tmp, cur, queue, want, fetching, split>>
    BY <1>8 DEF vars
  <2>2. BlocksInv => BlocksInv'
    <3>1. OrderOK => OrderOK'
      BY <2>1 DEF OrderOK, Contiguous, First, AtEnd, Rows
    <3>2. CurOK => CurOK'
      BY <2>1 DEF CurOK, Here, OnSource, AtHead, Rows, Asked, Old
    <3>3. \A r : (Old(r)' <=> Old(r)) /\ (FsmOK(r)' <=> FsmOK(r))
      BY <2>1 DEF Old, FsmOK, EntryOf, Whole
    <3>4. \A r : MainOK(r) => MainOK(r)'
      BY <2>1 DEF MainOK, Copied, Patched, BlocksOK, Planned, Requested, Written, EntryOf, Asks, FileKey,
           KeyState, Waiting, Current, Finished, Asked, Unbegun
    <3> QED BY <3>1, <3>2, <3>3, <3>4 DEF BlocksInv
  <2>3. MainFirst' /\ (RelationsIntact => RelationsIntact') /\ (WholeRelations => WholeRelations')
    BY <1>1, <2>1 DEF MainFirst, RelationsIntact, OneFile, Intact, WholeRelations, Old, Whole
  <2>4. \A r : (Old(r)' <=> Old(r)) /\ (StartOK(r)' <=> StartOK(r))
    BY <2>1 DEF Old, StartOK
  <2> QED BY <2>1, <2>2, <2>3, <2>4 DEF DataInv
<1> QED BY <1>2, <1>3, <1>4, <1>5, <1>6, <1>7, <1>8 DEF Next

\* When the target has replayed the source's WAL, every main fork of one segment
\* is whole and readable with the key the target's key file holds, and so are
\* the maps a local source's files were patched with: however the requests were
\* cut, merged and delayed, no block is lost between the file map and the file,
\* and none is left under the key that loses.  This is as long as the queue of a
\* live source did not run full.
THEOREM RelationsRestored == Spec => []RelationsIntact
<1>1. Init => DataInv
  BY DataInvStart
<1>2. Typed /\ SafeInv /\ (Typed /\ SafeInv)' /\ DataInv /\ [Next]_vars => DataInv'
  BY DataInvNext
<1>3. DataInv => RelationsIntact
  BY DEF DataInv
<1> QED BY <1>1, <1>2, <1>3, WorkSafe, PTL DEF Spec

=============================================================================
