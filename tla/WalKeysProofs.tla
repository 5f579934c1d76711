---------------------------- MODULE WalKeysProofs ----------------------------
(***************************************************************************)
(* Proofs about WalKeys: the ranges of the WAL key file that have a start  *)
(* are in increasing order and every entry opens under the server key, for *)
(* any number of processes, timelines, pages, segments and restarts.       *)
(*                                                                         *)
(* Neither holds by itself.  A start is recorded without looking at the    *)
(* file: the writer compares it only with the last range of its own cache. *)
(* That is enough because, as long as no location is published and none is *)
(* about to be, every cache agrees with the file.                          *)
(*                                                                         *)
(* And WAL can be read back: every page comes out right when it is         *)
(* decrypted with the ranges of the key file, and every read of a running  *)
(* process does, but for pages a new range has just been laid over.  The   *)
(* argument: the ranges of the file that have a start change for pages     *)
(* at or after the location of the write that fixes a start, and for no    *)
(* others; and a list of ranges brought up to date lacks, at most, the     *)
(* newest range, and that one only between its start being recorded in the *)
(* file and being published.                                               *)
(***************************************************************************)
EXTENDS WalKeys, SequenceTheorems, WellFoundedInduction, TLAPS

\* An entry as it is outside open_pg_tde_wal_last_range_set_location's branch
\* for overlapping ranges, which is never taken.
GoodRanges ==
    [type : Types \ {"invalid"}, aad : Types, start : Loc \cup {Zero}, by : SKey]

\* The key file.
FileInv ==
    /\ ranges \in Seq(GoodRanges)
    /\ Len(ranges) <= MaxRanges
    /\ hdr = None => ranges = << >>
    /\ RangesOpen
    /\ StartsIncrease

\* What running processes know of it.
CacheInv ==
    /\ \A p \in Proc : cache[p] \subseteq Fetchable
    /\ cur.id # 0 => cur.id = Len(ranges)
    /\ cur.type # "invalid" => cur.id # 0
    /\ state # "down" /\ encLoc = Zero /\ w.step # "publish" =>
          /\ \A p \in Proc : cache[p] = Fetchable
          /\ cur.id # 0 => ranges[cur.id].start = Zero

\* The position of the writer.
PosInv ==
    /\ upto # 0 => tli > 1
    /\ w.step # "idle" => /\ w.p \in Proc /\ w.loc \in Loc /\ w.n # 0
                          /\ w.loc[2] + w.n <= MaxLsn + 1
    /\ state = "down" => w = NoWrite

IInv == TypeOK /\ FileInv /\ CacheInv /\ PosInv

-----------------------------------------------------------------------------
(* Locations.                                                              *)

\* Zero is not a location and lies before all of them.
LEMMA ZeroFacts ==
    /\ Zero \notin Loc
    /\ ~Valid(Zero)
    /\ \A l \in Loc : Valid(l) /\ Before(Zero, l)
    /\ \A l \in Loc \cup {Zero} : Valid(l) <=> l \in Loc
  BY WalKeysAssumption DEF Zero, Loc, Valid, Before

LEMMA BeforeTransitive ==
    ASSUME NEW a \in Loc, NEW b \in Loc, NEW c \in Loc,
           Before(a, b), Before(b, c)
    PROVE  Before(a, c)
  BY WalKeysAssumption DEF Before, Loc

LEMMA SegStartType ==
    ASSUME NEW l \in 1 .. MaxLsn
    PROVE  SegStart(l) \in 1 .. MaxLsn
  <1>1. (l - 1) % SegSize \in Nat /\ (l - 1) % SegSize <= l - 1
    BY WalKeysAssumption
  <1> QED BY <1>1, WalKeysAssumption DEF SegStart

-----------------------------------------------------------------------------
(* The file.                                                               *)

\* A function on the indices of a sequence is a sequence of the same length.
LEMMA MapIsSeq ==
    ASSUME NEW S, NEW T, NEW s \in Seq(S), NEW f,
           f = [i \in DOMAIN s |-> f[i]],
           \A i \in DOMAIN s : f[i] \in T
    PROVE  f \in Seq(T) /\ Len(f) = Len(s)
  <1>1. DOMAIN s = 1 .. Len(s) /\ Len(s) \in Nat
    OBVIOUS
  <1>2. f \in [1 .. Len(s) -> T]
    BY <1>1
  <1>3. f \in Seq(T)
    BY <1>1, <1>2, SeqDef
  <1>4. Len(f) = Len(s)
    BY <1>1, <1>2, <1>3
  <1> QED BY <1>3, <1>4

LEMMA FileSame == FileInv /\ UNCHANGED <<hdr, ranges>> => FileInv'
  BY DEF FileInv, RangesOpen, StartsIncrease, Fetchable, Opens

LEMMA FetchableFacts ==
    ASSUME FileInv
    PROVE  /\ Fetchable \subseteq DOMAIN ranges
           /\ DOMAIN ranges \subseteq 1 .. MaxRanges
           /\ \A i \in DOMAIN ranges :
                 /\ i \in Fetchable <=> ranges[i].start \in Loc
                 /\ i \notin Fetchable => ranges[i].start = Zero
  <1>1. Len(ranges) \in Nat /\ DOMAIN ranges = 1 .. Len(ranges)
    BY DEF FileInv
  <1>2. DOMAIN ranges \subseteq 1 .. MaxRanges
    BY <1>1, WalKeysAssumption DEF FileInv
  <1>3. \A i \in DOMAIN ranges : ranges[i] \in GoodRanges
    BY DEF FileInv
  <1>4. \A i \in DOMAIN ranges : ranges[i].type # "invalid"
                               /\ ranges[i].start \in Loc \cup {Zero}
    BY <1>3 DEF GoodRanges, Types
  <1> QED BY <1>2, <1>4, ZeroFacts DEF Fetchable

\* An entry appended with no start leaves what can be fetched as it is.
LEMMA AppendFile ==
    ASSUME FileInv, NEW t \in Types \ {"invalid"},
           Len(ranges) < MaxRanges, hdr # None, hdr \in SKey \cup {None},
           ranges' = Append(ranges, NewRange(t, Zero, hdr)), hdr' = hdr
    PROVE  FileInv' /\ Fetchable' = Fetchable /\ Len(ranges') = Len(ranges) + 1
           /\ ranges'[Len(ranges')].start = Zero
  <1> DEFINE r == NewRange(t, Zero, hdr)
  <1>1. r \in GoodRanges /\ r.start = Zero /\ r.by = hdr /\ r.aad = r.type
    BY DEF NewRange, GoodRanges, Types
  <1> HIDE DEF r
  <1>2. ranges \in Seq(GoodRanges) /\ Len(ranges) \in Nat
        /\ DOMAIN ranges = 1 .. Len(ranges)
    BY DEF FileInv
  <1>3. ranges' = Append(ranges, r)
    BY DEF r
  <1>4. /\ ranges' \in Seq(GoodRanges)
        /\ Len(ranges') = Len(ranges) + 1
        /\ DOMAIN ranges' = 1 .. Len(ranges) + 1
        /\ ranges'[Len(ranges) + 1] = r
        /\ \A i \in 1 .. Len(ranges) : ranges'[i] = ranges[i]
    BY <1>1, <1>2, <1>3
  <1>5. Fetchable' = Fetchable
    <2>1. Len(ranges) + 1 \notin Fetchable'
      BY <1>1, <1>4, ZeroFacts DEF Fetchable
    <2>2. \A i \in 1 .. Len(ranges) : i \in Fetchable' <=> i \in Fetchable
      BY <1>2, <1>4 DEF Fetchable
    <2>3. /\ Fetchable \subseteq 1 .. Len(ranges)
          /\ Fetchable' \subseteq 1 .. Len(ranges) + 1
      BY <1>2, <1>4 DEF Fetchable
    <2>4. Fetchable' \subseteq 1 .. Len(ranges)
      BY <2>1, <2>3, <1>2
    <2> QED BY <2>2, <2>3, <2>4
  <1>6. RangesOpen'
    BY <1>1, <1>2, <1>4 DEF FileInv, RangesOpen, Opens
  <1>7. StartsIncrease'
    <2>1. \A i \in Fetchable : ranges'[i] = ranges[i]
      BY <1>2, <1>4 DEF Fetchable
    <2> QED BY <1>5, <2>1 DEF FileInv, StartsIncrease
  <1>8. Len(ranges') <= MaxRanges
    BY <1>2, <1>4, WalKeysAssumption
  <1> QED BY <1>1, <1>4, <1>5, <1>6, <1>7, <1>8 DEF FileInv

\* A writer that fixes the start of the newest range fixes it after all others
\* and invalidates none.
LEMMA LocateFile ==
    ASSUME IInv, NEW p \in Proc, NEW loc \in Loc, state # "down", w = NoWrite,
           NeedsLocation(p, loc), SetLocation(loc), hdr' = hdr
    PROVE  FileInv' /\ Fetchable \subseteq Fetchable' /\ Len(ranges') = Len(ranges)
  <1> DEFINE n == Len(ranges)
  <1> USE DEF IInv
  <1>1. /\ ranges \in Seq(GoodRanges) /\ n \in Nat /\ DOMAIN ranges = 1 .. n
        /\ n # 0 /\ n \in DOMAIN ranges /\ ranges[n].start = Zero
        /\ cache[p] = Fetchable
    <2>1. ranges \in Seq(GoodRanges) /\ n \in Nat /\ DOMAIN ranges = 1 .. n
      BY DEF FileInv
    <2>2. w.step # "publish"
      BY DEF NoWrite
    <2>3. cur.id # 0 /\ encLoc = Zero
      BY DEF NeedsLocation, CacheInv
    <2> QED BY <2>1, <2>2, <2>3 DEF CacheInv
  <1>2. \A i \in Fetchable : Before(ranges[i].start, loc)
    <2>1. CASE cache[p] = {}
      BY <1>1, <2>1
    <2>2. ASSUME NEW i \in cache[p], LastOf(cache[p], i),
                 Before(ranges[i].start, loc)
          PROVE  \A j \in Fetchable : Before(ranges[j].start, loc)
      <3> SUFFICES ASSUME NEW j \in Fetchable, j # i
                   PROVE  Before(ranges[j].start, loc)
        BY <2>2
      <3>1. i \in Fetchable /\ i \in Nat /\ j \in Nat /\ j <= i
        BY <1>1, <2>2, FetchableFacts DEF LastOf
      <3>2. Before(ranges[j].start, ranges[i].start)
        BY <3>1 DEF FileInv, StartsIncrease
      <3>3. ranges[j].start \in Loc /\ ranges[i].start \in Loc
        BY <3>1, FetchableFacts
      <3> QED BY <2>2, <3>2, <3>3, BeforeTransitive
    <2> QED BY <2>1, <2>2 DEF NeedsLocation
  <1>3. \A i \in DOMAIN ranges : Before(ranges[i].start, loc)
    BY <1>2, FetchableFacts, ZeroFacts
  <1>4. ranges' = [i \in DOMAIN ranges |->
                      IF i = n THEN [ranges[i] EXCEPT !.start = loc] ELSE ranges[i]]
    BY <1>3 DEF SetLocation
  <1>5. \A i \in DOMAIN ranges : ranges[i] \in GoodRanges
    BY <1>1
  <1>6. [ranges[n] EXCEPT !.start = loc] \in GoodRanges
    BY <1>1, <1>5 DEF GoodRanges
  <1>7. /\ ranges' = [i \in DOMAIN ranges |-> ranges'[i]]
        /\ \A i \in DOMAIN ranges : ranges'[i] \in GoodRanges
    BY <1>4, <1>5, <1>6
  <1>8. ranges' \in Seq(GoodRanges) /\ Len(ranges') = n
    BY <1>1, <1>7, MapIsSeq
  <1>9. /\ DOMAIN ranges' = DOMAIN ranges
        /\ \A i \in DOMAIN ranges : i # n => ranges'[i] = ranges[i]
        /\ ranges'[n].start = loc /\ ranges'[n].by = ranges[n].by
        /\ ranges'[n].type = ranges[n].type /\ ranges'[n].aad = ranges[n].aad
    BY <1>1, <1>4, <1>5 DEF GoodRanges
  <1>10. n \notin Fetchable
    BY <1>1, FetchableFacts, ZeroFacts
  <1>11. Fetchable' = Fetchable \cup {n}
    <2>1. \A i \in DOMAIN ranges : i # n => (i \in Fetchable' <=> i \in Fetchable)
      BY <1>9 DEF Fetchable
    <2>2. n \in Fetchable'
      BY <1>1, <1>5, <1>9, ZeroFacts DEF Fetchable, GoodRanges
    <2>3. Fetchable \subseteq DOMAIN ranges /\ Fetchable' \subseteq DOMAIN ranges
      BY <1>9 DEF Fetchable
    <2> QED BY <1>1, <2>1, <2>2, <2>3
  <1>12. RangesOpen'
    <2>1. \A i \in DOMAIN ranges : ranges[i].by = hdr /\ ranges[i].aad = ranges[i].type
      BY DEF FileInv, RangesOpen, Opens
    <2> QED BY <1>1, <1>9, <2>1 DEF RangesOpen, Opens
  <1>13. StartsIncrease'
    <2> SUFFICES ASSUME NEW i \in Fetchable', NEW j \in Fetchable', i < j
                 PROVE  Before(ranges'[i].start, ranges'[j].start)
      BY DEF StartsIncrease
    <2>1. i \in 1 .. n /\ j \in 1 .. n
      BY <1>1, <1>9 DEF Fetchable
    <2>2. i # n /\ i \in Fetchable /\ ranges'[i] = ranges[i]
      BY <1>1, <1>9, <1>11, <2>1
    <2>3. CASE j = n
      BY <1>2, <1>9, <2>2, <2>3
    <2>4. CASE j # n
      BY <1>1, <1>9, <1>11, <2>1, <2>2, <2>4 DEF FileInv, StartsIncrease
    <2> QED BY <2>3, <2>4
  <1>14. hdr' # None
    BY <1>1 DEF FileInv
  <1> QED BY <1>8, <1>11, <1>12, <1>13, <1>14 DEF FileInv

\* A rotation wraps every entry again and changes nothing else.
LEMMA RotateFile ==
    ASSUME FileInv, NEW k \in SKey, hdr' = k,
           ranges' = [i \in DOMAIN ranges |-> Rewrap(ranges[i], k)]
    PROVE  /\ FileInv' /\ Fetchable' = Fetchable /\ Len(ranges') = Len(ranges)
           /\ \A i \in DOMAIN ranges : ranges'[i].start = ranges[i].start
  <1>1. ranges \in Seq(GoodRanges) /\ \A i \in DOMAIN ranges : ranges[i] \in GoodRanges
    BY DEF FileInv
  <1>2. \A i \in DOMAIN ranges :
           /\ ranges'[i] \in GoodRanges
           /\ ranges'[i].start = ranges[i].start
           /\ ranges'[i].type = ranges[i].type
           /\ ranges'[i].aad = ranges'[i].type
           /\ ranges'[i].by = k
    BY <1>1 DEF Rewrap, NewRange, GoodRanges
  <1>3. ranges' = [i \in DOMAIN ranges |-> ranges'[i]] /\ DOMAIN ranges' = DOMAIN ranges
    OBVIOUS
  <1>4. ranges' \in Seq(GoodRanges) /\ Len(ranges') = Len(ranges)
    BY <1>1, <1>2, <1>3, MapIsSeq
  <1>5. Fetchable' = Fetchable
    BY <1>2, <1>3 DEF Fetchable
  <1>6. RangesOpen'
    BY <1>2, <1>3 DEF RangesOpen, Opens
  <1>7. StartsIncrease'
    <2>1. Fetchable \subseteq DOMAIN ranges
      BY DEF Fetchable
    <2> QED BY <1>2, <1>5, <2>1 DEF FileInv, StartsIncrease
  <1>8. hdr' # None
    BY WalKeysAssumption
  <1> QED BY <1>2, <1>4, <1>5, <1>6, <1>7, <1>8 DEF FileInv

-----------------------------------------------------------------------------
(* Caches.                                                                 *)

LEMMA RefreshedFacts ==
    ASSUME FileInv, CacheInv, NEW p \in Proc
    PROVE  /\ Refreshed(p) \subseteq Fetchable
           /\ encLoc = Zero /\ cache[p] = Fetchable => Refreshed(p) = Fetchable
  BY DEF Refreshed, CacheInv

LEMMA CoverType ==
    ASSUME FileInv, NEW c \in SUBSET Fetchable, NEW l
    PROVE  Cover(c, l) \subseteq 1 .. MaxRanges
  BY FetchableFacts DEF Cover

\* A step that touches neither the file nor what is known of it.
LEMMA CacheSame ==
    CacheInv /\ UNCHANGED <<ranges, cache, cur, state, encLoc, w>> => CacheInv'
  BY DEF CacheInv, Fetchable

-----------------------------------------------------------------------------
(* The invariant is established ...                                        *)

LEMMA InitIInv == Init => IInv
  <1> SUFFICES ASSUME Init PROVE IInv
    OBVIOUS
  <1> USE WalKeysAssumption
  <1>1. ranges \in Seq(GoodRanges) /\ ranges \in Seq(Ranges) /\ Len(ranges) = 0
        /\ DOMAIN ranges = {}
    BY DEF Init
  <1>2. TypeOK
    <2>1. 1 \in 1 .. MaxTli /\ 1 \in 1 .. MaxLsn /\ 0 \in 0 .. MaxLsn /\ 0 \in 0 .. MaxRanges
          /\ 0 \in 0 .. MaxCount
      OBVIOUS
    <2>2. /\ wal \in [Loc -> SUBSET (1 .. MaxRanges)] /\ live \subseteq Loc
          /\ base \in [1 .. MaxTli -> 1 .. MaxLsn]
      BY <2>1 DEF Init, Loc
    <2>3. w \in [p : Proc \cup {None}, step : {"idle", "publish", "write"},
                 loc : Loc \cup {Zero}, n : 0 .. MaxCount, usable : BOOLEAN]
      BY <2>1 DEF Init, NoWrite
    <2>4. rd \in [Proc -> [step : {"idle", "read", "decrypted"}, loc : Loc \cup {Zero},
                           data : SUBSET (1 .. MaxRanges), hit : BOOLEAN]]
      BY DEF Init, NoRead
    <2>5. cur \in [id : 0 .. MaxRanges, type : Types]
      BY <2>1 DEF Init, Types
    <2> QED BY <1>1, <2>1, <2>2, <2>3, <2>4, <2>5 DEF Init, TypeOK
  <1>3. FileInv
    BY <1>1 DEF FileInv, RangesOpen, StartsIncrease, Fetchable, Init
  <1>4. CacheInv
    BY <1>1 DEF CacheInv, Init
  <1>5. PosInv
    BY DEF PosInv, Init, NoWrite
  <1> QED BY <1>2, <1>3, <1>4, <1>5 DEF IInv

-----------------------------------------------------------------------------
(* ... and kept by every action.                                           *)

LEMMA StartIInv ==
    ASSUME IInv, NEW encrypt \in BOOLEAN, NEW standby \in BOOLEAN,
           Start(encrypt, standby)
    PROVE  IInv'
  <1> USE WalKeysAssumption
  <1> DEFINE n == Len(ranges)
             KeyFileOK == /\ FileInv'
                          /\ Fetchable' = Fetchable
                          /\ cur' \in [id : 0 .. MaxRanges, type : Types]
                          /\ encLoc' \in Loc \cup {Zero}
                          /\ cur'.id # 0 => cur'.id = Len(ranges')
                          /\ cur'.type # "invalid" => cur'.id # 0
                          /\ encLoc' = Zero /\ cur'.id # 0 =>
                                ranges'[cur'.id].start = Zero
  <1>1. /\ TypeOK /\ FileInv /\ CacheInv /\ PosInv /\ InitWrite(encrypt)
        /\ w = NoWrite /\ n \in Nat /\ n <= MaxRanges /\ hdr' = hdr
        /\ DOMAIN ranges = 1 .. n /\ hdr \in SKey \cup {None}
    BY DEF IInv, Start, PosInv, FileInv, TypeOK
  <1>2. KeyFileOK
    <2>1. ASSUME NEW t \in {"encrypted", "unencrypted"},
                 CreateWalRange(t), encLoc' = Zero
          PROVE  KeyFileOK
      <3>1. t \in Types \ {"invalid"}
        BY DEF Types
      <3>2. /\ FileInv' /\ Fetchable' = Fetchable /\ Len(ranges') = n + 1
            /\ ranges'[Len(ranges')].start = Zero
        BY <1>1, <2>1, <3>1, AppendFile DEF CreateWalRange
      <3>3. n + 1 \in 0 .. MaxRanges
        BY <1>1, <2>1 DEF CreateWalRange
      <3> QED BY <2>1, <3>1, <3>2, <3>3 DEF CreateWalRange
    <2>2. ASSUME n > 0, cur' = [id |-> n, type |-> ranges[n].type],
                 encLoc' = ranges[n].start, ranges' = ranges
          PROVE  KeyFileOK
      <3>1. ranges[n] \in GoodRanges
        BY <1>1, <2>2 DEF FileInv
      <3>2. ranges[n].type \in Types /\ ranges[n].start \in Loc \cup {Zero}
        BY <3>1 DEF GoodRanges
      <3>3. FileInv' /\ Fetchable' = Fetchable
        BY <1>1, <2>2, FileSame DEF Fetchable
      <3> QED BY <1>1, <2>2, <3>2, <3>3
    <2>3. ASSUME cur' = [id |-> 0, type |-> "invalid"], encLoc' = Zero,
                 ranges' = ranges
          PROVE  KeyFileOK
      <3>1. FileInv' /\ Fetchable' = Fetchable
        BY <1>1, <2>3, FileSame DEF Fetchable
      <3> QED BY <2>3, <3>1 DEF Types
    <2> HIDE DEF KeyFileOK
    <2> QED BY <1>1, <2>1, <2>2, <2>3 DEF InitWrite
  <1>3. cache' = [p \in Proc |-> Fetchable] /\ Fetchable \subseteq 1 .. MaxRanges
    BY <1>1, FetchableFacts DEF InitWrite
  <1>4. PICK e \in 1 .. (MaxLsn + 1) :
           /\ EndOfWal(e)
           /\ live' = {l \in live : l[1] < tli \/ (l[1] = tli /\ l[2] < e)}
           /\ hit' = hit \cap live'
           /\ \/ standby /\ pos' = SegStart(IF e > MaxLsn THEN MaxLsn ELSE e)
              \/ ~standby /\ pos' \in {e - 1, e} \cap (base[tli] .. MaxLsn)
    BY DEF Start
  <1>5. pos' \in 1 .. MaxLsn
    <2>1. (IF e > MaxLsn THEN MaxLsn ELSE e) \in 1 .. MaxLsn
      OBVIOUS
    <2>2. SegStart(IF e > MaxLsn THEN MaxLsn ELSE e) \in 1 .. MaxLsn
      BY <2>1, SegStartType
    <2>3. base[tli] \in 1 .. MaxLsn
      BY <1>1 DEF TypeOK
    <2> QED BY <1>4, <2>2, <2>3
  <1>6. /\ state' \in {"crash", "archive"} /\ UNCHANGED <<wal, tli, base, upto, w, rd>>
    BY DEF Start
  <1>7. TypeOK'
    <2>1. live' \subseteq Loc /\ hit' \subseteq Loc
      BY <1>1, <1>4 DEF TypeOK
    <2>2. ranges' \in Seq(Ranges)
      <3>1. GoodRanges \subseteq Ranges
        BY DEF GoodRanges, Ranges
      <3> QED BY <1>2, <3>1 DEF FileInv
    <2> QED BY <1>1, <1>2, <1>3, <1>5, <1>6, <2>1, <2>2 DEF TypeOK
  <1>8. CacheInv'
    BY <1>1, <1>2, <1>3, <1>6 DEF CacheInv
  <1>9. PosInv'
    BY <1>1, <1>6 DEF PosInv, NoWrite
  <1> QED BY <1>2, <1>7, <1>8, <1>9 DEF IInv

LEMMA BeginWriteIInv ==
    ASSUME IInv, NEW p \in Proc, NEW n \in 1 .. MaxCount, BeginWrite(p, n)
    PROVE  IInv'
  <1> USE WalKeysAssumption
  <1> DEFINE loc == <<tli, pos>>
             call(step, usable) ==
                [p |-> p, step |-> step, loc |-> loc, n |-> n, usable |-> usable]
  <1>1. /\ TypeOK /\ FileInv /\ CacheInv /\ PosInv
        /\ state # "down" /\ w = NoWrite /\ pos + n <= MaxLsn + 1
        /\ UNCHANGED <<hdr, wal, live, state, cur, encLoc, cache, tli, base, pos, upto>>
    BY DEF IInv, BeginWrite
  <1>2. loc \in Loc /\ loc[2] = pos /\ n \in 0 .. MaxCount /\ n # 0
    BY <1>1 DEF TypeOK, Loc
  <1> DEFINE Calls == [p : Proc \cup {None}, step : {"idle", "publish", "write"},
                       loc : Loc \cup {Zero}, n : 0 .. MaxCount, usable : BOOLEAN]
             Reads == [step : {"idle", "read", "decrypted"}, loc : Loc \cup {Zero},
                       data : SUBSET (1 .. MaxRanges), hit : BOOLEAN]
  <1>3. \A usable \in BOOLEAN, step \in {"publish", "write"} :
           /\ call(step, usable) \in Calls
           /\ call(step, usable).step = step /\ call(step, usable).p = p
           /\ call(step, usable).loc = loc /\ call(step, usable).n = n
    BY <1>2
  <1>4. rd \in [Proc -> Reads]
    BY <1>1 DEF TypeOK
  <1> HIDE DEF loc, call, Calls, Reads
  <1>5. CASE /\ NeedsLocation(p, loc)
             /\ SetLocation(loc)
             /\ hit' = hit \cup {l \in live : ~Before(l, loc)}
             /\ rd' = [q \in Proc |->
                         IF rd[q].step = "read" /\ ~Before(rd[q].loc, loc)
                         THEN [rd[q] EXCEPT !.hit = TRUE] ELSE rd[q]]
             /\ w' = call("publish", TRUE)
    <2>1. FileInv' /\ Fetchable \subseteq Fetchable' /\ Len(ranges') = Len(ranges)
      BY <1>1, <1>2, <1>5, LocateFile
    <2>2. rd' \in [Proc -> Reads]
      <3>1. \A q \in Proc : [rd[q] EXCEPT !.hit = TRUE] \in Reads
        BY <1>4 DEF Reads
      <3> QED BY <1>4, <1>5, <3>1
    <2>3. w' \in Calls /\ w'.step = "publish" /\ w'.p = p /\ w'.loc = loc /\ w'.n = n
      BY <1>3, <1>5
    <2>4. TypeOK'
      <3>1. ranges' \in Seq(Ranges)
        <4>1. GoodRanges \subseteq Ranges
          BY DEF GoodRanges, Ranges
        <4> QED BY <2>1, <4>1 DEF FileInv
      <3>2. hit' \subseteq Loc
        BY <1>1, <1>5 DEF TypeOK
      <3> QED BY <1>1, <2>2, <2>3, <3>1, <3>2 DEF TypeOK, Calls, Reads
    <2>5. CacheInv'
      BY <1>1, <2>1, <2>3 DEF CacheInv
    <2>6. PosInv'
      BY <1>1, <1>2, <2>3 DEF PosInv
    <2> QED BY <2>1, <2>4, <2>5, <2>6 DEF IInv
  <1>6. CASE /\ w' = call("write", encLoc # Zero /\ ~Before(loc, encLoc))
             /\ UNCHANGED <<ranges, hit, rd>>
    <2>1. FileInv'
      BY <1>1, <1>6, FileSame
    <2>2. w' \in Calls /\ w'.step = "write" /\ w'.p = p /\ w'.loc = loc /\ w'.n = n
      BY <1>3, <1>6 DEF Before
    <2>3. TypeOK'
      BY <1>1, <1>6, <2>2 DEF TypeOK, Calls
    <2>4. w.step # "publish"
      BY <1>1 DEF NoWrite
    <2>5. CacheInv'
      BY <1>1, <1>6, <2>2, <2>4 DEF CacheInv, Fetchable
    <2>6. PosInv'
      BY <1>1, <1>2, <2>2 DEF PosInv
    <2> QED BY <2>1, <2>3, <2>5, <2>6 DEF IInv
  <1> QED BY <1>5, <1>6 DEF BeginWrite, loc, call

LEMMA PublishIInv ==
    ASSUME IInv, PublishLocation
    PROVE  IInv'
  <1>1. /\ TypeOK /\ FileInv /\ CacheInv /\ PosInv /\ w.step = "publish"
        /\ encLoc' = w.loc /\ w' = [w EXCEPT !.step = "write"]
        /\ UNCHANGED <<hdr, ranges, wal, live, hit, state, cur, cache,
                       tli, base, pos, upto, rd>>
    BY DEF IInv, PublishLocation
  <1>2. w.loc \in Loc /\ encLoc' # Zero
    BY <1>1, ZeroFacts DEF PosInv
  <1>3. /\ w' \in [p : Proc \cup {None}, step : {"idle", "publish", "write"},
                   loc : Loc \cup {Zero}, n : 0 .. MaxCount, usable : BOOLEAN]
        /\ w'.step = "write" /\ w'.p = w.p /\ w'.loc = w.loc /\ w'.n = w.n
    BY <1>1 DEF TypeOK
  <1>4. FileInv'
    BY <1>1, FileSame
  <1>5. TypeOK'
    BY <1>1, <1>2, <1>3 DEF TypeOK
  <1>6. CacheInv'
    BY <1>1, <1>2 DEF CacheInv, Fetchable
  <1>7. PosInv'
    BY <1>1, <1>3 DEF PosInv, NoWrite
  <1> QED BY <1>4, <1>5, <1>6, <1>7 DEF IInv

LEMMA WritePagesIInv ==
    ASSUME IInv, WritePages
    PROVE  IInv'
  <1> USE WalKeysAssumption
  <1> DEFINE last == w.loc[2] + w.n - 1
  <1>1. /\ TypeOK /\ FileInv /\ CacheInv /\ PosInv /\ w.step = "write" /\ w' = NoWrite
        /\ UNCHANGED <<hdr, ranges, state, cur, encLoc, tli, base, upto, rd>>
    BY DEF IInv, WritePages
  <1>2. /\ w.p \in Proc /\ w.loc \in Loc /\ w.n \in 1 .. MaxCount
        /\ w.loc[2] + w.n <= MaxLsn + 1
    BY <1>1 DEF PosInv, TypeOK
  <1>3. w.loc[1] \in 1 .. MaxTli /\ w.loc[2] \in 1 .. MaxLsn /\ last \in 1 .. MaxLsn
    BY <1>2 DEF Loc
  <1>4. Pages \subseteq Loc
    BY <1>3, <1>2 DEF Pages, Loc
  <1>5. Refreshed(w.p) \subseteq Fetchable /\ Fetchable \subseteq 1 .. MaxRanges
    BY <1>1, <1>2, RefreshedFacts, FetchableFacts
  <1>6. \A l \in Loc : Applied(l) \in SUBSET (1 .. MaxRanges)
    <2> SUFFICES ASSUME NEW l \in Loc PROVE Applied(l) \in SUBSET (1 .. MaxRanges)
      OBVIOUS
    <2>1. CASE WithOldKeys
      BY <1>1, <1>5, <2>1, CoverType DEF Applied
    <2>2. CASE ~WithOldKeys
      <3>1. cur.type # "invalid" => cur.id \in 1 .. MaxRanges
        BY <1>1 DEF TypeOK, CacheInv
      <3> QED BY <2>2, <3>1 DEF Applied
    <2> QED BY <2>1, <2>2
  <1>7. cache' \in [Proc -> SUBSET (1 .. MaxRanges)]
        /\ \A p \in Proc : cache'[p] = cache[p] \/ cache'[p] = Refreshed(p)
    BY <1>1, <1>2, <1>5 DEF WritePages, TypeOK
  <1>8. FileInv'
    BY <1>1, FileSame
  <1>9. TypeOK'
    <2>1. wal' \in [Loc -> SUBSET (1 .. MaxRanges)]
      BY <1>1, <1>6 DEF WritePages, TypeOK
    <2>2. live' \subseteq Loc /\ hit' \subseteq Loc
      BY <1>1, <1>4 DEF WritePages, TypeOK
    <2>3. pos' \in 1 .. MaxLsn
      BY <1>3 DEF WritePages
    <2>4. w' \in [p : Proc \cup {None}, step : {"idle", "publish", "write"},
                  loc : Loc \cup {Zero}, n : 0 .. MaxCount, usable : BOOLEAN]
      BY <1>1 DEF NoWrite
    <2> QED BY <1>1, <1>7, <2>1, <2>2, <2>3, <2>4 DEF TypeOK
  <1>10. CacheInv'
    <2>1. Fetchable' = Fetchable
      BY <1>1 DEF Fetchable
    <2>2. \A p \in Proc : cache'[p] \subseteq Fetchable
      BY <1>1, <1>7, RefreshedFacts DEF CacheInv
    <2>3. state # "down" /\ encLoc = Zero =>
             \A p \in Proc : cache[p] = Fetchable /\ Refreshed(p) = Fetchable
      BY <1>1, RefreshedFacts DEF CacheInv
    <2> QED BY <1>1, <1>7, <2>1, <2>2, <2>3 DEF CacheInv
  <1>11. PosInv'
    BY <1>1 DEF PosInv, NoWrite
  <1> QED BY <1>8, <1>9, <1>10, <1>11 DEF IInv

LEMMA PreadIInv ==
    ASSUME IInv, NEW p \in Proc, NEW l \in Loc, Pread(p, l)
    PROVE  IInv'
  <1>1. /\ TypeOK /\ FileInv /\ CacheInv /\ PosInv
        /\ UNCHANGED <<hdr, ranges, wal, live, hit, state, cur, encLoc, cache,
                       tli, base, pos, upto, w>>
    BY DEF IInv, Pread
  <1>2. TypeOK'
    <2>1. [step |-> "read", loc |-> l, data |-> wal[l], hit |-> l \in hit]
             \in [step : {"idle", "read", "decrypted"}, loc : Loc \cup {Zero},
                  data : SUBSET (1 .. MaxRanges), hit : BOOLEAN]
      BY <1>1 DEF TypeOK
    <2>2. rd' \in [Proc -> [step : {"idle", "read", "decrypted"}, loc : Loc \cup {Zero},
                            data : SUBSET (1 .. MaxRanges), hit : BOOLEAN]]
      BY <1>1, <2>1 DEF Pread, TypeOK
    <2> QED BY <1>1, <2>2 DEF TypeOK
  <1> QED BY <1>1, <1>2, FileSame, CacheSame DEF IInv, PosInv

LEMMA CryptBufferIInv ==
    ASSUME IInv, NEW p \in Proc, CryptBuffer(p)
    PROVE  IInv'
  <1>1. /\ TypeOK /\ FileInv /\ CacheInv /\ PosInv
        /\ cache' = [cache EXCEPT ![p] = Refreshed(p)]
        /\ UNCHANGED <<hdr, ranges, wal, live, hit, state, cur, encLoc,
                       tli, base, pos, upto, w>>
    BY DEF IInv, CryptBuffer
  <1>2. Refreshed(p) \subseteq Fetchable /\ Fetchable \subseteq 1 .. MaxRanges
    BY <1>1, RefreshedFacts, FetchableFacts
  <1>3. Cover(Refreshed(p), rd[p].loc) \subseteq 1 .. MaxRanges
    BY <1>1, <1>2, CoverType
  <1>4. TypeOK'
    <2> DEFINE Reads == [step : {"idle", "read", "decrypted"}, loc : Loc \cup {Zero},
                         data : SUBSET (1 .. MaxRanges), hit : BOOLEAN]
    <2>1. rd \in [Proc -> Reads]
      BY <1>1 DEF TypeOK
    <2>2. SymDiff(rd[p].data, Cover(Refreshed(p), rd[p].loc)) \in SUBSET (1 .. MaxRanges)
      BY <1>3, <2>1 DEF SymDiff
    <2>3. rd' \in [Proc -> Reads]
      BY <2>1, <2>2 DEF CryptBuffer
    <2>4. cache' \in [Proc -> SUBSET (1 .. MaxRanges)]
      BY <1>1, <1>2 DEF TypeOK
    <2> QED BY <1>1, <2>3, <2>4 DEF TypeOK
  <1>5. CacheInv'
    <2>1. Fetchable' = Fetchable
      BY <1>1 DEF Fetchable
    <2>2. \A q \in Proc : cache'[q] = IF q = p THEN Refreshed(p) ELSE cache[q]
      BY <1>1 DEF TypeOK
    <2> QED BY <1>1, <1>2, <2>1, <2>2, RefreshedFacts DEF CacheInv
  <1> QED BY <1>1, <1>4, <1>5, FileSame DEF IInv, PosInv

LEMMA ReadReturnIInv ==
    ASSUME IInv, NEW p \in Proc, ReadReturn(p)
    PROVE  IInv'
  <1>1. /\ TypeOK /\ FileInv /\ CacheInv /\ PosInv
        /\ rd' = [rd EXCEPT ![p] = NoRead]
        /\ UNCHANGED <<hdr, ranges, wal, live, hit, state, cur, encLoc, cache,
                       tli, base, pos, upto, w>>
    BY DEF IInv, ReadReturn
  <1>2. TypeOK'
    BY <1>1 DEF TypeOK, NoRead
  <1> QED BY <1>1, <1>2, FileSame, CacheSame DEF IInv, PosInv

LEMMA RecoveryIInv ==
    ASSUME IInv,
           Restream \/ (\E s \in 1 .. MaxLsn : Restore(s)) \/ Promote \/ EndRecovery
    PROVE  IInv'
  <1> USE WalKeysAssumption
  <1>1. TypeOK /\ FileInv /\ CacheInv /\ PosInv
    BY DEF IInv
  <1>2. SegStart(pos) \in 1 .. MaxLsn
    BY <1>1, SegStartType DEF TypeOK
  <1>3. CASE Restream
    <2>1. /\ pos' = SegStart(pos)
          /\ UNCHANGED <<hdr, ranges, wal, live, hit, state, cur, encLoc, cache,
                         tli, base, upto, w, rd>>
      BY <1>3 DEF Restream
    <2>2. TypeOK'
      BY <1>1, <1>2, <2>1 DEF TypeOK
    <2> QED BY <1>1, <2>1, <2>2, FileSame, CacheSame DEF IInv, PosInv
  <1>4. ASSUME NEW s \in 1 .. MaxLsn, Restore(s)
        PROVE  IInv'
    <2> DEFINE seg == {l \in Loc : l[1] = tli /\ SegStart(l[2]) = s}
    <2>1. /\ wal' = [l \in Loc |-> IF l \in seg THEN Cover(Fetchable, l) ELSE wal[l]]
          /\ live' = live \cup seg /\ hit' = hit \ seg
          /\ UNCHANGED <<hdr, ranges, state, cur, encLoc, cache, tli, base, pos,
                         upto, w, rd>>
      BY <1>4 DEF Restore
    <2>2. seg \subseteq Loc
      OBVIOUS
    <2> HIDE DEF seg
    <2>3. \A l \in Loc : Cover(Fetchable, l) \in SUBSET (1 .. MaxRanges)
      BY <1>1, CoverType
    <2>4. TypeOK'
      BY <1>1, <2>1, <2>2, <2>3 DEF TypeOK
    <2> QED BY <1>1, <2>1, <2>4, FileSame, CacheSame DEF IInv, PosInv
  <1>5. CASE Promote
    <2>1. /\ tli < MaxTli /\ tli' = tli + 1 /\ pos' = SegStart(pos) /\ upto' = pos
          /\ base' = [base EXCEPT ![tli + 1] = SegStart(pos)]
          /\ UNCHANGED <<hdr, ranges, wal, live, hit, state, cur, encLoc, cache, w, rd>>
      BY <1>5 DEF Promote
    <2>2. tli' \in 1 .. MaxTli /\ tli' > 1 /\ upto' \in 0 .. MaxLsn
          /\ base' \in [1 .. MaxTli -> 1 .. MaxLsn]
      BY <1>1, <1>2, <2>1 DEF TypeOK
    <2>3. TypeOK'
      BY <1>1, <1>2, <2>1, <2>2 DEF TypeOK
    <2>4. PosInv'
      BY <1>1, <2>1, <2>2 DEF PosInv
    <2> QED BY <1>1, <2>1, <2>3, <2>4, FileSame, CacheSame DEF IInv
  <1>6. CASE EndRecovery
    <2>1. /\ state' = "done" /\ state # "down" /\ upto' = 0 /\ w = NoWrite
          /\ UNCHANGED <<hdr, ranges, wal, live, hit, cur, encLoc, cache,
                         tli, base, pos, w, rd>>
      BY <1>6 DEF EndRecovery
    <2>2. TypeOK'
      BY <1>1, <2>1 DEF TypeOK
    <2>3. CacheInv'
      BY <1>1, <2>1 DEF CacheInv, Fetchable
    <2> QED BY <1>1, <2>1, <2>2, <2>3, FileSame DEF IInv, PosInv
  <1> QED BY <1>3, <1>4, <1>5, <1>6

LEMMA ServerKeyIInv ==
    ASSUME IInv, NEW k \in SKey,
           SetServerKey(k) \/ RotateServerKey(k) \/ DeleteServerKey
    PROVE  IInv'
  <1> USE WalKeysAssumption
  <1>1. TypeOK /\ FileInv /\ CacheInv /\ PosInv
    BY DEF IInv
  <1>2. UNCHANGED <<wal, live, hit, state, cur, encLoc, cache,
                    tli, base, pos, upto, w, rd>>
    BY DEF SetServerKey, RotateServerKey, DeleteServerKey
  <1>3. GoodRanges \subseteq Ranges
    BY DEF GoodRanges, Ranges
  <1>4. CASE RotateServerKey(k)
    <2>1. /\ FileInv' /\ Fetchable' = Fetchable /\ Len(ranges') = Len(ranges)
          /\ \A i \in DOMAIN ranges : ranges'[i].start = ranges[i].start
      BY <1>1, <1>4, RotateFile DEF RotateServerKey
    <2>2. TypeOK'
      BY <1>1, <1>2, <1>3, <1>4, <2>1 DEF TypeOK, FileInv, RotateServerKey
    <2>3. CacheInv'
      <3>1. cur.id # 0 => cur.id \in DOMAIN ranges
        BY <1>1 DEF CacheInv, TypeOK, FileInv
      <3> QED BY <1>1, <1>2, <2>1, <3>1 DEF CacheInv
    <2> QED BY <1>1, <1>2, <2>1, <2>2, <2>3 DEF IInv, PosInv
  <1>5. CASE ranges = << >> /\ ranges' = << >> /\ hdr' \in SKey \cup {None}
    <2>1. ranges' \in Seq(GoodRanges) /\ ranges' \in Seq(Ranges)
          /\ Len(ranges') = 0 /\ DOMAIN ranges' = {}
      BY <1>5
    <2>2. FileInv'
      BY <1>5, <2>1 DEF FileInv, RangesOpen, StartsIncrease, Fetchable
    <2>3. TypeOK'
      BY <1>1, <1>2, <1>5, <2>1 DEF TypeOK
    <2>4. CacheInv'
      BY <1>1, <1>2, <1>5, CacheSame
    <2> QED BY <1>1, <1>2, <2>2, <2>3, <2>4 DEF IInv, PosInv
  <1>6. CASE SetServerKey(k)
    BY <1>1, <1>5, <1>6 DEF SetServerKey, FileInv
  <1>7. CASE DeleteServerKey
    <2>1. ranges = << >>
      BY <1>1, <1>7 DEF DeleteServerKey, FileInv
    <2> QED BY <1>5, <1>7, <2>1 DEF DeleteServerKey
  <1> QED BY <1>4, <1>6, <1>7

LEMMA HaltIInv ==
    ASSUME IInv, Halt
    PROVE  IInv'
  <1> USE WalKeysAssumption
  <1>1. TypeOK /\ FileInv /\ CacheInv /\ PosInv
    BY DEF IInv
  <1>2. /\ state' = "down" /\ pos' = 1 /\ upto' = 0 /\ encLoc' = Zero
        /\ tli' = (IF upto # 0 THEN tli - 1 ELSE tli)
        /\ live' = {l \in live : l[1] <= tli'} /\ hit' = hit \cap live'
        /\ cur' = [id |-> 0, type |-> "invalid"]
        /\ cache' = [p \in Proc |-> {}] /\ w' = NoWrite
        /\ rd' = [p \in Proc |-> NoRead] /\ UNCHANGED <<hdr, ranges, wal, base>>
    BY DEF Halt
  <1>3. tli' \in 1 .. MaxTli
    BY <1>1, <1>2 DEF TypeOK, PosInv
  <1>4. TypeOK'
    <2>1. live' \subseteq Loc /\ hit' \subseteq Loc
      BY <1>1, <1>2 DEF TypeOK
    <2>2. rd' \in [Proc -> [step : {"idle", "read", "decrypted"}, loc : Loc \cup {Zero},
                            data : SUBSET (1 .. MaxRanges), hit : BOOLEAN]]
      BY <1>2 DEF NoRead
    <2>3. w' \in [p : Proc \cup {None}, step : {"idle", "publish", "write"},
                  loc : Loc \cup {Zero}, n : 0 .. MaxCount, usable : BOOLEAN]
      BY <1>2 DEF NoWrite
    <2>4. cur' \in [id : 0 .. MaxRanges, type : Types] /\ pos' \in 1 .. MaxLsn
          /\ upto' \in 0 .. MaxLsn
      BY <1>2 DEF Types
    <2> QED BY <1>1, <1>2, <1>3, <2>1, <2>2, <2>3, <2>4 DEF TypeOK
  <1>5. CacheInv'
    BY <1>2 DEF CacheInv
  <1>6. PosInv'
    BY <1>2 DEF PosInv, NoWrite
  <1> QED BY <1>1, <1>2, <1>4, <1>5, <1>6, FileSame DEF IInv

LEMMA NextIInv == IInv /\ [Next]_vars => IInv'
  <1> SUFFICES ASSUME IInv, [Next]_vars PROVE IInv'
    OBVIOUS
  <1>1. CASE UNCHANGED vars
    <2>1. TypeOK' /\ PosInv'
      BY <1>1 DEF IInv, TypeOK, PosInv, vars
    <2> QED BY <1>1, <2>1, FileSame, CacheSame DEF IInv, vars
  <1>2. ASSUME NEW encrypt \in BOOLEAN, NEW standby \in Standbys,
               Start(encrypt, standby)
        PROVE  IInv'
    BY <1>2, StartIInv, WalKeysAssumption
  <1>3. ASSUME NEW p \in Proc, NEW n \in 1 .. MaxCount, BeginWrite(p, n) PROVE IInv'
    BY <1>3, BeginWriteIInv
  <1>4. CASE PublishLocation \/ WritePages
    BY <1>4, PublishIInv, WritePagesIInv
  <1>5. ASSUME NEW p \in Proc, NEW l \in Loc, Pread(p, l) PROVE IInv'
    BY <1>5, PreadIInv
  <1>6. ASSUME NEW p \in Proc, CryptBuffer(p) \/ ReadReturn(p) PROVE IInv'
    BY <1>6, CryptBufferIInv, ReadReturnIInv
  <1>7. CASE Restream \/ (\E s \in 1 .. MaxLsn : Restore(s)) \/ Promote \/ EndRecovery
    BY <1>7, RecoveryIInv
  <1>8. ASSUME NEW k \in SKey, SetServerKey(k) \/ RotateServerKey(k) PROVE IInv'
    BY <1>8, ServerKeyIInv
  <1>9. CASE DeleteServerKey
    <2>1. hdr \in SKey
      BY <1>9 DEF DeleteServerKey, IInv, TypeOK
    <2> QED BY <1>9, <2>1, ServerKeyIInv
  <1>10. CASE Halt
    BY <1>10, HaltIInv
  <1> QED BY <1>1, <1>2, <1>3, <1>4, <1>5, <1>6, <1>7, <1>8, <1>9, <1>10 DEF Next

-----------------------------------------------------------------------------
(* Theorems.                                                               *)

LEMMA Invariance == Spec => []IInv
  BY InitIInv, NextIInv, PTL DEF Spec

\* Every variable of the WAL key model keeps its type.
THEOREM WalTypeCorrect == Spec => []TypeOK
  <1>1. IInv => TypeOK
    BY DEF IInv
  <1> QED BY <1>1, Invariance, PTL

\* The located ranges of the WAL key file start one after the other, whatever
\* the interleaving of writers, readers, restarts, re-streaming, promotions
\* and rotations: the comparison with the last range of the writer's own
\* cache in tde_ensure_xlog_key_location is enough.
THEOREM StartsAlwaysIncrease == Spec => []StartsIncrease
  <1>1. IInv => StartsIncrease
    BY DEF IInv, FileInv
  <1> QED BY <1>1, Invariance, PTL

\* Every entry of the WAL key file always opens under the server key in its
\* header; open_pg_tde_wal_last_range_set_location never invalidates a range.
THEOREM RangesAlwaysOpen == Spec => []RangesOpen
  <1>1. IInv => RangesOpen
    BY DEF IInv, FileInv
  <1> QED BY <1>1, Invariance, PTL

-----------------------------------------------------------------------------
(* Reading WAL back: the invariant.                                        *)

\* What a running server knows of the newest range, and what follows from a
\* start that is recorded and not yet published.
SyncInv ==
    state # "down" =>
        /\ \A p \in Proc : Fetchable \ {Len(ranges)} \subseteq cache[p]
        /\ cur.type = "invalid" => ranges = << >>
        /\ cur.id # 0 => cur.type = ranges[cur.id].type
        /\ encLoc # Zero => cur.id # 0 /\ ranges[cur.id].start = encLoc
        /\ w.step = "publish" =>
              /\ encLoc = Zero /\ cur.id # 0 /\ ranges[cur.id].start = w.loc
              /\ w.usable = TRUE
              /\ \A l \in live \ hit : Before(l, w.loc)
              /\ \A p \in Proc : rd[p].step = "read" /\ rd[p].hit = FALSE =>
                                    Before(rd[p].loc, w.loc)
        /\ w.step = "write" =>
              (w.usable = TRUE <=> encLoc # Zero /\ ~Before(w.loc, encLoc))

\* A page that has been read is still to be decrypted with the ranges of now.
ReadOK(p) ==
    /\ rd[p].step = "read" => /\ rd[p].loc \in Loc
                              /\ rd[p].hit = FALSE =>
                                    rd[p].data = Cover(Fetchable, rd[p].loc)
    /\ rd[p].step = "decrypted" /\ rd[p].hit = FALSE => rd[p].data = {}

ReadInv == WalReadable /\ \A p \in Proc : ReadOK(p)

\* Nobody reads while the server is down.
QuietInv == state = "down" => \A p \in Proc : rd[p].step = "idle"

SInv == IInv /\ SyncInv /\ ReadInv /\ QuietInv

-----------------------------------------------------------------------------
(* Sets of indices.                                                        *)

LEMMA LeastIndex ==
    ASSUME NEW T, T \subseteq Nat, T # {}
    PROVE  \E x \in T : \A y \in T : x <= y
<1>1. PICK x \in T : \A y \in T : ~(<<y, x>> \in OpToRel(<, Nat))
  BY WFMin, NatLessThanWellFounded
<1>2. \A y \in T : <<y, x>> \in OpToRel(<, Nat) <=> y < x
  BY DEF OpToRel
<1>3. \A y \in T : ~(y < x)
  BY <1>1, <1>2, Zenon
<1> QED BY <1>3

LEMMA GreatestIndex ==
    ASSUME NEW n \in Nat, NEW T, T \subseteq 1 .. n, T # {}
    PROVE  \E x \in T : \A y \in T : y <= x
<1> DEFINE U == {u \in Nat : \A x \in T : x <= u}
<1>1. n \in U /\ U \subseteq Nat
  OBVIOUS
<1>2. PICK u \in U : \A v \in U : u <= v
  <2> HIDE DEF U
  <2> QED BY <1>1, LeastIndex
<1>3. u \in Nat /\ \A x \in T : x <= u /\ x >= 1
  OBVIOUS
<1>4. ASSUME u \notin T PROVE FALSE
  <2>1. \A x \in T : x <= u - 1
    BY <1>3, <1>4
  <2>2. u - 1 \in Nat
    <3>1. PICK x : x \in T
      OBVIOUS
    <3>2. x \in 1 .. n /\ x <= u
      BY <1>3, <3>1
    <3> QED BY <1>3, <3>2
  <2>3. u - 1 \in U
    BY <2>1, <2>2
  <2> QED BY <1>2, <1>3, <2>3
<1> QED BY <1>3, <1>4

-----------------------------------------------------------------------------
(* Ranges that cover a page.                                               *)

\* Locations are in order.
LEMMA BeforeOrder ==
    /\ \A a, b, c \in Loc : ~Before(a, c) /\ Before(b, c) => Before(b, a)
    /\ \A a, b, c \in Loc : ~Before(a, b) /\ ~Before(b, c) => ~Before(a, c)
    /\ \A a \in Loc : ~Before(a, a)
    /\ \A a, b \in Loc : Before(a, b) => ~Before(b, a)
BY WalKeysAssumption DEF Before, Loc

\* Among ranges in order, a page is covered by an encrypted range that starts
\* at or before it when no later range of the list does.
LEMMA CoverIsLast ==
    ASSUME FileInv, NEW c, c \subseteq Fetchable, NEW l \in Loc
    PROVE  Cover(c, l) =
              {i \in c : /\ ranges[i].type = "encrypted"
                         /\ ~Before(l, ranges[i].start)
                         /\ \A j \in c : i < j => Before(l, ranges[j].start)}
<1>1. c \subseteq Nat /\ \A i \in c : ranges[i].start \in Loc /\ i \in Fetchable
  BY FetchableFacts
<1>2. \A i, j \in c : i < j => Before(ranges[i].start, ranges[j].start)
  BY DEF FileInv, StartsIncrease
<1>3. ASSUME NEW i \in c, NEW j \in c, i < j, ~Before(l, ranges[j].start),
             \A k \in c : (i < k /\ \A m \in c : ~(i < m /\ m < k))
                               => Before(l, ranges[k].start)
      PROVE  FALSE
  <2> DEFINE T == {k \in c : i < k}
  <2>1. T \subseteq Nat /\ T # {}
    BY <1>1, <1>3
  <2>2. PICK k \in T : \A m \in T : k <= m
    <3> HIDE DEF T
    <3> QED BY <2>1, LeastIndex
  <2>3. k \in c /\ i < k /\ k <= j /\ \A m \in c : ~(i < m /\ m < k)
    BY <1>1, <1>3, <2>2
  <2>4. Before(l, ranges[k].start)
    BY <1>3, <2>3
  <2>5. k = j \/ Before(ranges[k].start, ranges[j].start)
    BY <1>1, <1>2, <2>3
  <2>6. ranges[k].start \in Loc /\ ranges[j].start \in Loc
    BY <1>1, <2>3
  <2>7. Before(l, ranges[j].start)
    BY <2>4, <2>5, <2>6, BeforeTransitive
  <2> QED BY <1>3, <2>7
<1>4. ASSUME NEW i \in c
      PROVE  (\A j \in c : (i < j /\ \A k \in c : ~(i < k /\ k < j))
                               => Before(l, ranges[j].start))
             <=> \A j \in c : i < j => Before(l, ranges[j].start)
  BY <1>3
<1> QED BY <1>4 DEF Cover

\* A list that lacks ranges which start after the page covers it the same way.
LEMMA CoverWithout ==
    ASSUME FileInv, NEW c, c \subseteq Fetchable, NEW l \in Loc,
           \A i \in Fetchable \ c : Before(l, ranges[i].start)
    PROVE  Cover(c, l) = Cover(Fetchable, l)
<1>1. Cover(c, l) = {i \in c : /\ ranges[i].type = "encrypted"
                               /\ ~Before(l, ranges[i].start)
                               /\ \A j \in c : i < j => Before(l, ranges[j].start)}
  BY CoverIsLast
<1>2. Cover(Fetchable, l) =
         {i \in Fetchable : /\ ranges[i].type = "encrypted"
                            /\ ~Before(l, ranges[i].start)
                            /\ \A j \in Fetchable : i < j => Before(l, ranges[j].start)}
  BY CoverIsLast
<1> QED BY <1>1, <1>2

\* From the start of the last range on, that range alone counts.
LEMMA CoverOfLast ==
    ASSUME FileInv, NEW l \in Loc, Len(ranges) \in Fetchable,
           ~Before(l, ranges[Len(ranges)].start)
    PROVE  Cover(Fetchable, l) =
              IF ranges[Len(ranges)].type = "encrypted" THEN {Len(ranges)} ELSE {}
<1> DEFINE n == Len(ranges)
<1>1. n \in Nat /\ \A i \in Fetchable : i \in Nat /\ i <= n
  <2>1. DOMAIN ranges = 1 .. n /\ n \in Nat
    BY DEF FileInv
  <2> QED BY <2>1, FetchableFacts
<1>2. Cover(Fetchable, l) =
         {i \in Fetchable : /\ ranges[i].type = "encrypted"
                            /\ ~Before(l, ranges[i].start)
                            /\ \A j \in Fetchable : i < j => Before(l, ranges[j].start)}
  BY CoverIsLast
<1> HIDE DEF n
<1>3. n \in Fetchable /\ ~Before(l, ranges[n].start)
  BY DEF n
<1>4. \A i \in Fetchable : i # n => i < n
  BY <1>1
<1>5. \A j \in Fetchable : ~(n < j)
  BY <1>1
<1>6. Cover(Fetchable, l) = IF ranges[n].type = "encrypted" THEN {n} ELSE {}
  BY <1>2, <1>3, <1>4, <1>5
<1> QED BY <1>6 DEF n

\* The ranges a page may be covered by stay as they are.
SameRanges ==
    /\ Fetchable' = Fetchable
    /\ \A i \in Fetchable : /\ ranges'[i].type = ranges[i].type
                            /\ ranges'[i].start = ranges[i].start

LEMMA CoverSame ==
    ASSUME SameRanges, NEW l
    PROVE  Cover(Fetchable, l)' = Cover(Fetchable, l)
BY DEF SameRanges, Cover

LEMMA RangesFacts ==
    ASSUME FileInv
    PROVE  /\ DOMAIN ranges = 1 .. Len(ranges) /\ Len(ranges) \in Nat
           /\ \A i \in DOMAIN ranges : ranges[i] \in GoodRanges
           /\ Fetchable \subseteq 1 .. Len(ranges)
<1>1. /\ DOMAIN ranges = 1 .. Len(ranges) /\ Len(ranges) \in Nat
      /\ \A i \in DOMAIN ranges : ranges[i] \in GoodRanges
  BY DEF FileInv
<1> QED BY <1>1, FetchableFacts

\* Fixing the start of the newest range adds that range and touches no other.
LEMMA Located ==
    ASSUME IInv, NEW p \in Proc, NEW loc \in Loc, state # "down", w = NoWrite,
           NeedsLocation(p, loc), SetLocation(loc), hdr' = hdr
    PROVE  /\ FileInv' /\ Len(ranges') = Len(ranges)
           /\ cur.id = Len(ranges) /\ cur.id \notin Fetchable
           /\ Fetchable' = Fetchable \cup {cur.id}
           /\ ranges'[cur.id].start = loc /\ ranges'[cur.id].type = ranges[cur.id].type
           /\ \A i \in Fetchable : ranges'[i] = ranges[i]
<1> DEFINE n == Len(ranges)
<1>1. FileInv /\ CacheInv /\ TypeOK
  BY DEF IInv
<1>2. FileInv' /\ Len(ranges') = n
  BY LocateFile
<1>3. /\ DOMAIN ranges = 1 .. n /\ n \in Nat /\ \A i \in DOMAIN ranges : ranges[i] \in GoodRanges
      /\ Fetchable \subseteq DOMAIN ranges
  BY <1>1, RangesFacts
<1>4. /\ cur.id = n /\ n # 0 /\ ranges[n].start = Zero
  BY <1>1 DEF NeedsLocation, CacheInv, NoWrite
<1>5. n \in DOMAIN ranges /\ n \notin Fetchable
  BY <1>1, <1>3, <1>4, FetchableFacts, ZeroFacts
<1>6. DOMAIN ranges' = DOMAIN ranges /\ ranges'[n] = [ranges[n] EXCEPT !.start = loc]
  BY <1>5 DEF SetLocation
<1>7. ranges'[n].start = loc /\ ranges'[n].type = ranges[n].type
  BY <1>3, <1>5, <1>6 DEF GoodRanges
<1>8. \A i \in DOMAIN ranges : ranges'[i].type # "invalid"
  <2>1. \A i \in DOMAIN ranges' : ranges'[i] \in GoodRanges
    BY <1>2 DEF FileInv
  <2> QED BY <1>6, <2>1 DEF GoodRanges
<1>9. \A i \in DOMAIN ranges : i # n => ranges'[i] = ranges[i]
  <2> SUFFICES ASSUME NEW i \in DOMAIN ranges, i # n, ranges'[i] # ranges[i]
               PROVE  FALSE
    OBVIOUS
  <2>1. ranges'[i] = [ranges[i] EXCEPT !.type = "invalid"]
    BY DEF SetLocation
  <2>2. ranges'[i].type = "invalid"
    BY <1>3, <2>1 DEF GoodRanges
  <2> QED BY <1>8, <2>2
<1>10. n \in Fetchable'
  BY <1>5, <1>6, <1>7, <1>8, ZeroFacts DEF Fetchable
<1>11. \A i \in DOMAIN ranges : i # n => (i \in Fetchable' <=> i \in Fetchable)
  BY <1>6, <1>9 DEF Fetchable
<1>12. Fetchable' \subseteq DOMAIN ranges
  BY <1>6 DEF Fetchable
<1>13. Fetchable' = Fetchable \cup {n}
  <2> HIDE DEF n
  <2> QED BY <1>3, <1>10, <1>11, <1>12
<1>14. \A i \in Fetchable : ranges'[i] = ranges[i]
  BY <1>3, <1>5, <1>9
<1> QED BY <1>2, <1>4, <1>5, <1>7, <1>13, <1>14

-----------------------------------------------------------------------------
(* Caches brought up to date.                                              *)

\* Unless a start waits to be published, refreshing gives the file's ranges.
LEMMA RefreshedAll ==
    ASSUME IInv, SyncInv, state # "down", w.step # "publish", NEW p \in Proc
    PROVE  Refreshed(p) = Fetchable
<1>1. FileInv /\ CacheInv
  BY DEF IInv
<1>2. CASE encLoc = Zero
  BY <1>1, <1>2, RefreshedFacts DEF CacheInv
<1>3. CASE encLoc # Zero
  <2> DEFINE n == Len(ranges)
             c == IF cache[p] = {} THEN Fetchable ELSE cache[p]
  <2>1. /\ cur.id = n /\ ranges[n].start = encLoc /\ n # 0 /\ encLoc \in Loc
        /\ Fetchable \ {n} \subseteq cache[p] /\ cache[p] \subseteq Fetchable
    BY <1>1, <1>3 DEF SyncInv, CacheInv, IInv, TypeOK
  <2>2. n \in Fetchable
    BY <1>1, <2>1, RangesFacts, FetchableFacts
  <2>3. Fetchable \ {n} \subseteq c /\ c \subseteq Fetchable /\ c # {}
    BY <2>1, <2>2
  <2>4. Refreshed(p) \subseteq Fetchable
    BY <1>1, RefreshedFacts
  <2>5. CASE \E i \in c : LastOf(c, i) /\ Before(ranges[i].start, encLoc)
    <3>1. Refreshed(p) = c \cup {i \in Fetchable : ~Before(ranges[i].start, encLoc)}
      BY <1>3, <2>5 DEF Refreshed
    <3>2. ~Before(ranges[n].start, encLoc)
      BY <2>1, BeforeOrder
    <3> HIDE DEF c, n
    <3> QED BY <2>2, <2>3, <2>4, <3>1, <3>2
  <2>6. CASE ~\E i \in c : LastOf(c, i) /\ Before(ranges[i].start, encLoc)
    <3>1. Refreshed(p) = c
      BY <2>6 DEF Refreshed
    <3>2. c \subseteq 1 .. n /\ n \in Nat
      BY <1>1, <2>3, RangesFacts
    <3> HIDE DEF c, n
    <3>3. PICK i \in c : \A j \in c : j <= i
      BY <2>3, <3>2, GreatestIndex
    <3>4. ~Before(ranges[i].start, encLoc)
      BY <2>6, <3>3 DEF LastOf
    <3>5. i = n
      <4>1. i # n => i < n
        BY <3>2
      <4>2. i # n => Before(ranges[i].start, ranges[n].start)
        BY <1>1, <2>2, <2>3, <4>1 DEF FileInv, StartsIncrease
      <4> QED BY <2>1, <3>4, <4>2
    <3> QED BY <2>3, <3>1, <3>5
  <2> QED BY <2>5, <2>6
<1> QED BY <1>2, <1>3

\* While it waits, refreshing may miss the newest range.
LEMMA RefreshedMost ==
    ASSUME IInv, SyncInv, state # "down", w.step = "publish", NEW p \in Proc
    PROVE  Refreshed(p) \subseteq Fetchable /\ Fetchable \ {cur.id} \subseteq Refreshed(p)
<1>1. FileInv /\ CacheInv /\ encLoc = Zero /\ cur.id = Len(ranges)
  BY DEF IInv, SyncInv, CacheInv
<1>2. Refreshed(p) = IF cache[p] = {} THEN Fetchable ELSE cache[p]
  BY <1>1 DEF Refreshed
<1> QED BY <1>1, <1>2, RefreshedFacts DEF SyncInv

\* Either way a page comes out as with the file's ranges, if it lies before the
\* start that waits to be published.
LEMMA RefreshedCover ==
    ASSUME IInv, SyncInv, state # "down", NEW p \in Proc, NEW l \in Loc,
           w.step = "publish" => Before(l, w.loc)
    PROVE  Cover(Refreshed(p), l) = Cover(Fetchable, l)
<1>1. CASE w.step # "publish"
  BY <1>1, RefreshedAll
<1>2. CASE w.step = "publish"
  <2>1. ranges[cur.id].start = w.loc
    BY <1>2 DEF SyncInv
  <2>2. \A i \in Fetchable \ Refreshed(p) : Before(l, ranges[i].start)
    BY <1>2, <2>1, RefreshedMost
  <2> QED BY <1>2, <2>2, RefreshedMost, CoverWithout DEF IInv
<1> QED BY <1>1, <1>2

-----------------------------------------------------------------------------
(* The invariant is inductive.                                             *)

\* Pages read, written and left alone keep coming out right while the ranges
\* stay as they are.
LEMMA PagesSame ==
    ASSUME SameRanges, ReadInv, \A l \in live' \ hit' : wal'[l] = wal[l],
           live' \ hit' \subseteq live \ hit
    PROVE  WalReadable'
<1> SUFFICES ASSUME NEW l \in live' \ hit' PROVE Readable(l)'
  BY DEF WalReadable
<1>1. wal[l] = Cover(Fetchable, l) /\ wal'[l] = wal[l]
  BY DEF ReadInv, WalReadable, Readable
<1> QED BY <1>1, CoverSame DEF Readable

LEMMA ReadsSame ==
    ASSUME SameRanges, NEW p \in Proc, ReadOK(p), rd'[p] = rd[p]
    PROVE  ReadOK(p)'
BY CoverSame DEF ReadOK

LEMMA RangesSame ==
    ASSUME ranges' = ranges
    PROVE  SameRanges /\ Len(ranges') = Len(ranges)
BY DEF SameRanges, Fetchable

\* CoverIsLast for all that can be fetched, as a formula that may be primed.
LastCovers ==
    \A l \in Loc : Cover(Fetchable, l) =
        {i \in Fetchable : /\ ranges[i].type = "encrypted"
                           /\ ~Before(l, ranges[i].start)
                           /\ \A j \in Fetchable : i < j => Before(l, ranges[j].start)}

LEMMA LastCoversNow == FileInv => LastCovers
BY CoverIsLast DEF LastCovers

LEMMA LastCoversNext == FileInv' => LastCovers'
BY LastCoversNow, PTL

LEMMA StartSafe ==
    ASSUME SInv, NEW encrypt \in BOOLEAN, NEW standby \in BOOLEAN,
           Start(encrypt, standby)
    PROVE  SyncInv' /\ ReadInv'
<1>1. /\ FileInv /\ ReadInv /\ hdr \in SKey \cup {None} /\ w = NoWrite /\ InitWrite(encrypt)
      /\ UNCHANGED <<hdr, wal, w, rd>>
  BY DEF SInv, IInv, TypeOK, PosInv, Start
<1> DEFINE n == Len(ranges)
           KeyFileOK ==
              /\ SameRanges
              /\ cur'.type = "invalid" => ranges' = << >>
              /\ cur'.id # 0 => cur'.type = ranges'[cur'.id].type
              /\ encLoc' # Zero => cur'.id # 0 /\ ranges'[cur'.id].start = encLoc'
<1>2. n \in Nat /\ DOMAIN ranges = 1 .. n /\ \A i \in DOMAIN ranges : ranges[i] \in GoodRanges
  BY <1>1, RangesFacts
<1>3. KeyFileOK
  <2>1. ASSUME NEW t \in {"encrypted", "unencrypted"}, CreateWalRange(t), encLoc' = Zero
        PROVE  KeyFileOK
    <3>1. t \in Types \ {"invalid"}
      BY DEF Types
    <3>2. Fetchable' = Fetchable /\ Len(ranges') = n + 1
      BY <1>1, <2>1, <3>1, AppendFile DEF CreateWalRange
    <3>3. \A i \in 1 .. n : ranges'[i] = ranges[i]
      BY <1>1, <1>2, <2>1 DEF CreateWalRange, FileInv
    <3>4. SameRanges
      BY <1>1, <3>2, <3>3, RangesFacts DEF SameRanges
    <3>5. ranges'[n + 1].type = t
      <4>1. ranges'[n + 1] = NewRange(t, Zero, hdr)
        BY <1>1, <1>2, <2>1 DEF CreateWalRange, FileInv
      <4> QED BY <4>1 DEF NewRange
    <3>6. cur'.id = n + 1 /\ cur'.type = t
      BY <2>1 DEF CreateWalRange
    <3> QED BY <2>1, <3>1, <3>4, <3>5, <3>6
  <2>2. ASSUME n > 0, cur' = [id |-> n, type |-> ranges[n].type],
               encLoc' = ranges[n].start, ranges' = ranges
        PROVE  KeyFileOK
    <3>1. n \in DOMAIN ranges /\ ranges[n].type # "invalid"
      BY <1>2, <2>2 DEF GoodRanges
    <3> QED BY <1>2, <2>2, <3>1, RangesSame
  <2>3. ASSUME n = 0, cur' = [id |-> 0, type |-> "invalid"], encLoc' = Zero,
               ranges' = ranges
        PROVE  KeyFileOK
    <3>1. ranges = << >>
      BY <1>1, <2>3 DEF FileInv
    <3> QED BY <2>3, <3>1, RangesSame
  <2> HIDE DEF KeyFileOK
  <2> QED BY <1>1, <2>1, <2>2, <2>3 DEF InitWrite
<1>4. SyncInv'
  <2>1. \A p \in Proc : cache'[p] = Fetchable'
    BY <1>1, <1>3 DEF InitWrite, SameRanges
  <2>2. w'.step = "idle"
    BY <1>1 DEF NoWrite
  <2> QED BY <1>3, <2>1, <2>2 DEF SyncInv
<1>5. live' \ hit' \subseteq live \ hit
  BY DEF Start
<1>6. WalReadable'
  BY <1>1, <1>3, <1>5, PagesSame
<1>7. \A p \in Proc : ReadOK(p)'
  BY <1>1, <1>3, ReadsSame DEF ReadInv
<1> QED BY <1>4, <1>6, <1>7 DEF ReadInv

LEMMA BeginWriteSafe ==
    ASSUME SInv, NEW p \in Proc, NEW n \in 1 .. MaxCount, BeginWrite(p, n)
    PROVE  SyncInv' /\ ReadInv'
<1> DEFINE loc == <<tli, pos>>
<1>1. /\ IInv /\ TypeOK /\ FileInv /\ CacheInv /\ SyncInv /\ ReadInv
      /\ state # "down" /\ w = NoWrite
      /\ UNCHANGED <<hdr, wal, live, state, cur, encLoc, cache>>
      /\ loc \in Loc
  BY DEF SInv, IInv, BeginWrite, TypeOK, Loc
<1>2. CASE NeedsLocation(p, loc)
  <2>1. /\ SetLocation(loc) /\ hit' = hit \cup {l \in live : ~Before(l, loc)}
        /\ rd' = [q \in Proc |-> IF rd[q].step = "read" /\ ~Before(rd[q].loc, loc)
                                 THEN [rd[q] EXCEPT !.hit = TRUE] ELSE rd[q]]
        /\ w'.step = "publish" /\ w'.loc = loc /\ w'.usable = TRUE
    BY <1>1, <1>2 DEF BeginWrite
  <2>2. /\ FileInv' /\ Len(ranges') = Len(ranges)
        /\ cur.id = Len(ranges) /\ cur.id \notin Fetchable
        /\ Fetchable' = Fetchable \cup {cur.id}
        /\ ranges'[cur.id].start = loc /\ ranges'[cur.id].type = ranges[cur.id].type
        /\ \A i \in Fetchable : ranges'[i] = ranges[i]
    BY <1>1, <1>2, <2>1, Located
  <2>3. cur.type # "invalid" /\ encLoc = Zero /\ cur.id # 0
    BY <1>1, <1>2 DEF NeedsLocation, CacheInv
  <2>4. \A l \in Loc : Before(l, loc) => Cover(Fetchable, l)' = Cover(Fetchable, l)
    <3> SUFFICES ASSUME NEW l \in Loc, Before(l, loc)
                 PROVE  Cover(Fetchable, l)' = Cover(Fetchable, l)
      OBVIOUS
    <3>1. Cover(Fetchable, l) =
             {i \in Fetchable :
                /\ ranges[i].type = "encrypted"
                /\ ~Before(l, ranges[i].start)
                /\ \A j \in Fetchable : i < j => Before(l, ranges[j].start)}
      BY <1>1, LastCoversNow DEF LastCovers
    <3>2. Cover(Fetchable, l)' =
             {i \in Fetchable' :
                /\ ranges'[i].type = "encrypted"
                /\ ~Before(l, ranges'[i].start)
                /\ \A j \in Fetchable' : i < j => Before(l, ranges'[j].start)}
      BY <2>2, LastCoversNext DEF LastCovers
    <3>3. /\ Before(l, ranges'[cur.id].start)
          /\ \A i \in Fetchable : /\ ranges'[i].type = ranges[i].type
                                  /\ ranges'[i].start = ranges[i].start
      BY <2>2
    <3> HIDE DEF loc
    <3>4. ASSUME NEW i \in Fetchable
          PROVE  (\A j \in Fetchable' : i < j => Before(l, ranges'[j].start))
                 <=> \A j \in Fetchable : i < j => Before(l, ranges[j].start)
      BY <2>2, <3>3
    <3>5. \A i \in Fetchable' :
             (/\ ranges'[i].type = "encrypted"
              /\ ~Before(l, ranges'[i].start)
              /\ \A j \in Fetchable' : i < j => Before(l, ranges'[j].start))
             <=> (/\ i \in Fetchable /\ ranges[i].type = "encrypted"
                  /\ ~Before(l, ranges[i].start)
                  /\ \A j \in Fetchable : i < j => Before(l, ranges[j].start))
      BY <2>2, <3>3, <3>4, Zenon
    <3>6. \A i : i \in Cover(Fetchable, l)' <=> i \in Cover(Fetchable, l)
      BY <2>2, <3>1, <3>2, <3>5, Zenon
    <3> QED BY <3>6, Zenon
  <2>5. \A q \in Proc : /\ rd'[q].step = rd[q].step /\ rd'[q].loc = rd[q].loc
                        /\ rd'[q].data = rd[q].data
                        /\ rd'[q].hit = FALSE => rd[q].hit = FALSE
                        /\ rd'[q].hit = FALSE /\ rd[q].step = "read" => Before(rd[q].loc, loc)
    <3>1. rd \in [Proc -> [step : {"idle", "read", "decrypted"}, loc : Loc \cup {Zero},
                           data : SUBSET (1 .. MaxRanges), hit : BOOLEAN]]
      BY <1>1 DEF TypeOK
    <3> HIDE DEF loc
    <3> QED BY <2>1, <3>1
  <2>6. \A l \in live' \ hit' : l \in live \ hit /\ l \in Loc /\ Before(l, loc)
    BY <1>1, <2>1 DEF TypeOK
  <2>7. SyncInv'
    <3>1. \A q \in Proc : Fetchable' \ {Len(ranges')} \subseteq cache'[q]
      BY <1>1, <2>2 DEF SyncInv
    <3>2. cur'.type = ranges'[cur'.id].type
      BY <1>1, <2>2, <2>3 DEF SyncInv
    <3> HIDE DEF loc
    <3> QED BY <1>1, <2>1, <2>2, <2>3, <2>5, <2>6, <3>1, <3>2 DEF SyncInv
  <2>8. WalReadable'
    <3> SUFFICES ASSUME NEW l \in live' \ hit' PROVE Readable(l)'
      BY DEF WalReadable
    <3>1. wal'[l] = Cover(Fetchable, l)
      BY <1>1, <2>6 DEF ReadInv, WalReadable, Readable
    <3> QED BY <2>4, <2>6, <3>1 DEF Readable
  <2>9. \A q \in Proc : ReadOK(q)'
    <3> TAKE q \in Proc
    <3>1. ReadOK(q)
      BY <1>1 DEF ReadInv
    <3>2. rd'[q].step = "read" => rd'[q].loc \in Loc
      BY <2>5, <3>1 DEF ReadOK
    <3>3. rd'[q].step = "read" /\ rd'[q].hit = FALSE =>
             rd'[q].data = Cover(Fetchable, rd[q].loc)'
      <4>1. ASSUME rd'[q].step = "read", rd'[q].hit = FALSE
            PROVE  /\ rd'[q].data = Cover(Fetchable, rd[q].loc)
                   /\ rd[q].loc \in Loc /\ Before(rd[q].loc, loc)
        BY <2>5, <3>1, <4>1 DEF ReadOK
      <4>2. PICK m : m = rd[q].loc
        OBVIOUS
      <4>3. rd'[q].loc = m
        BY <2>5, <4>2
      <4>4. m \in Loc /\ Before(m, loc) => Cover(Fetchable, m)' = Cover(Fetchable, m)
        BY <2>4
      <4> QED BY <4>1, <4>2, <4>3, <4>4
    <3> QED BY <2>5, <3>1, <3>2, <3>3 DEF ReadOK
  <2> QED BY <2>7, <2>8, <2>9 DEF ReadInv
<1>3. CASE ~NeedsLocation(p, loc)
  <2>1. /\ UNCHANGED <<ranges, hit, rd>> /\ w'.step = "write" /\ w'.loc = loc
        /\ w'.usable = (encLoc # Zero /\ ~Before(loc, encLoc))
    BY <1>1, <1>3 DEF BeginWrite
  <2>2. SameRanges
    BY <2>1, RangesSame
  <2>3. WalReadable'
    BY <1>1, <2>1, <2>2, PagesSame
  <2>4. \A q \in Proc : ReadOK(q)'
    BY <1>1, <2>1, <2>2, ReadsSame DEF ReadInv
  <2>5. w'.usable = TRUE <=> encLoc # Zero /\ ~Before(loc, encLoc)
    <3> HIDE DEF loc
    <3> QED BY <2>1
  <2>6. SyncInv'
    <3> HIDE DEF loc
    <3> QED BY <1>1, <2>1, <2>2, <2>5 DEF SyncInv, SameRanges
  <2> QED BY <2>3, <2>4, <2>6 DEF ReadInv
<1> QED BY <1>2, <1>3

LEMMA PublishSafe ==
    ASSUME SInv, PublishLocation
    PROVE  SyncInv' /\ ReadInv'
<1>1. /\ IInv /\ TypeOK /\ SyncInv /\ ReadInv /\ state # "down" /\ w.step = "publish"
      /\ UNCHANGED <<ranges, wal, live, hit, state, cur, cache, rd>>
      /\ encLoc' = w.loc /\ w' = [w EXCEPT !.step = "write"] /\ w.loc \in Loc
  BY DEF SInv, IInv, PublishLocation, PosInv, NoWrite
<1>2. w'.step = "write" /\ w'.loc = w.loc /\ w'.usable = w.usable
  BY <1>1 DEF TypeOK
<1>3. SameRanges
  BY <1>1, RangesSame
<1>4. ReadInv'
  BY <1>1, <1>3, PagesSame, ReadsSame DEF ReadInv
<1>5. /\ cur.id # 0 /\ ranges[cur.id].start = w.loc /\ w.usable = TRUE
  BY <1>1 DEF SyncInv
<1>6. w.loc # Zero /\ ~Before(w.loc, w.loc)
  BY <1>1, ZeroFacts, BeforeOrder
<1>7. SyncInv'
  BY <1>1, <1>2, <1>3, <1>5, <1>6 DEF SyncInv, SameRanges
<1> QED BY <1>4, <1>7

\* A page is written with the range it will be read with.
LEMMA AppliedCovers ==
    ASSUME SInv, w.step = "write", NEW l \in Pages
    PROVE  l \in Loc /\ Applied(l) = Cover(Fetchable, l)
<1> USE WalKeysAssumption
<1>1. /\ IInv /\ TypeOK /\ FileInv /\ CacheInv /\ SyncInv /\ state # "down"
      /\ w.p \in Proc /\ w.loc \in Loc /\ w.n \in Nat
      /\ w.loc[2] + w.n <= MaxLsn + 1
  BY DEF SInv, IInv, PosInv, NoWrite, TypeOK
<1>2. PICK m \in w.loc[2] .. (w.loc[2] + w.n - 1) : l = <<w.loc[1], m>>
  BY DEF Pages
<1>3. l \in Loc /\ ~Before(l, w.loc)
  BY <1>1, <1>2 DEF Loc, Before
<1>4. CASE cur.type = "invalid"
  <2>1. ranges = << >>
    BY <1>1, <1>4 DEF SyncInv
  <2>2. Fetchable = {}
    BY <2>1 DEF Fetchable
  <2> QED BY <1>3, <1>4, <2>2 DEF Applied, WithOldKeys, Cover
<1>5. CASE cur.type # "invalid" /\ w.usable = FALSE
  BY <1>1, <1>3, <1>5, RefreshedAll DEF Applied, WithOldKeys
<1>6. CASE cur.type # "invalid" /\ w.usable = TRUE
  <2>1. /\ encLoc # Zero /\ ~Before(w.loc, encLoc) /\ cur.id # 0
        /\ ranges[cur.id].start = encLoc /\ cur.type = ranges[cur.id].type
        /\ cur.id = Len(ranges) /\ encLoc \in Loc
    BY <1>1, <1>6 DEF SyncInv, CacheInv, TypeOK
  <2>2. ~Before(l, encLoc)
    BY <1>1, <1>3, <2>1, BeforeOrder
  <2>3. Len(ranges) \in Fetchable
    BY <1>1, <2>1, RangesFacts, FetchableFacts
  <2>4. Cover(Fetchable, l) = IF cur.type = "encrypted" THEN {cur.id} ELSE {}
    BY <1>1, <1>3, <2>1, <2>2, <2>3, CoverOfLast
  <2> QED BY <1>3, <1>6, <2>4 DEF Applied, WithOldKeys
<1> QED BY <1>1, <1>4, <1>5, <1>6 DEF TypeOK

LEMMA WritePagesSafe ==
    ASSUME SInv, WritePages
    PROVE  SyncInv' /\ ReadInv'
<1>1. /\ IInv /\ TypeOK /\ FileInv /\ CacheInv /\ SyncInv /\ ReadInv /\ w.step = "write"
      /\ state # "down" /\ w.p \in Proc
      /\ UNCHANGED <<ranges, state, cur, encLoc, rd>> /\ w' = NoWrite
      /\ wal' = [l \in Loc |-> IF l \in Pages THEN Applied(l) ELSE wal[l]]
      /\ live' = live \cup Pages /\ hit' = hit \ Pages
      /\ live \subseteq Loc
  BY DEF SInv, IInv, WritePages, PosInv, NoWrite, TypeOK
<1>2. SameRanges
  BY <1>1, RangesSame
<1>3. \A p \in Proc : Fetchable \ {Len(ranges)} \subseteq cache'[p]
  <2>1. Refreshed(w.p) = Fetchable
    BY <1>1, RefreshedAll
  <2>2. \A p \in Proc : cache'[p] = cache[p] \/ cache'[p] = Fetchable
    BY <1>1, <2>1 DEF WritePages, TypeOK
  <2> QED BY <1>1, <2>2 DEF SyncInv
<1>4. SyncInv'
  BY <1>1, <1>2, <1>3 DEF SyncInv, SameRanges, NoWrite
<1>5. WalReadable'
  <2> SUFFICES ASSUME NEW l \in live' \ hit' PROVE Readable(l)'
    BY DEF WalReadable
  <2>1. CASE l \in Pages
    <3>1. l \in Loc /\ wal'[l] = Cover(Fetchable, l)
      BY <1>1, <2>1, AppliedCovers
    <3> QED BY <1>2, <3>1, CoverSame DEF Readable
  <2>2. CASE l \notin Pages
    <3>1. l \in live \ hit /\ l \in Loc /\ wal'[l] = wal[l]
      BY <1>1, <2>2
    <3>2. wal[l] = Cover(Fetchable, l)
      BY <1>1, <3>1 DEF ReadInv, WalReadable, Readable
    <3> QED BY <1>2, <3>1, <3>2, CoverSame DEF Readable
  <2> QED BY <2>1, <2>2
<1>6. \A p \in Proc : ReadOK(p)'
  BY <1>1, <1>2, ReadsSame DEF ReadInv
<1> QED BY <1>4, <1>5, <1>6 DEF ReadInv

\* A step of one reader.
LEMMA ReaderSafe ==
    ASSUME SInv, NEW p \in Proc, ReadOK(p)',
           UNCHANGED <<ranges, wal, live, hit, state, cur, encLoc, w>>,
           \A q \in Proc : q # p => rd'[q] = rd[q],
           \A q \in Proc : Fetchable \ {Len(ranges)} \subseteq cache[q] =>
                              Fetchable \ {Len(ranges)} \subseteq cache'[q],
           state # "down" /\ w.step = "publish" /\ rd'[p].step = "read" /\ rd'[p].hit = FALSE =>
                Before(rd'[p].loc, w.loc)
    PROVE  SyncInv' /\ ReadInv'
<1>1. SyncInv /\ ReadInv /\ SameRanges
  BY RangesSame DEF SInv
<1>2. WalReadable'
  BY <1>1, PagesSame
<1>3. \A q \in Proc : ReadOK(q)'
  BY <1>1, ReadsSame DEF ReadInv
<1>4. SyncInv'
  BY <1>1 DEF SyncInv, SameRanges
<1> QED BY <1>2, <1>3, <1>4 DEF ReadInv

LEMMA PreadSafe ==
    ASSUME SInv, NEW p \in Proc, NEW l \in Loc, Pread(p, l)
    PROVE  SyncInv' /\ ReadInv'
<1>1. /\ TypeOK /\ SyncInv /\ ReadInv /\ l \in live
      /\ UNCHANGED <<ranges, wal, live, hit, state, cur, encLoc, w, cache>>
      /\ rd' = [rd EXCEPT ![p] = [step |-> "read", loc |-> l, data |-> wal[l],
                                  hit |-> l \in hit]]
  BY DEF SInv, IInv, Pread
<1>2. /\ rd'[p].step = "read" /\ rd'[p].loc = l /\ rd'[p].data = wal[l]
      /\ rd'[p].hit = (l \in hit)
      /\ \A q \in Proc : q # p => rd'[q] = rd[q]
  BY <1>1 DEF TypeOK
<1>3. rd'[p].hit = FALSE => l \in live \ hit
  BY <1>1, <1>2
<1>4. l \in live \ hit => wal[l] = Cover(Fetchable, l)'
  <2>1. l \in live \ hit => wal[l] = Cover(Fetchable, l)
    BY <1>1 DEF ReadInv, WalReadable, Readable
  <2> QED BY <1>1, <2>1, RangesSame, CoverSame
<1>5. ReadOK(p)'
  BY <1>2, <1>3, <1>4 DEF ReadOK
<1>6. state # "down" /\ w.step = "publish" /\ rd'[p].hit = FALSE => Before(rd'[p].loc, w.loc)
  BY <1>1, <1>2, <1>3 DEF SyncInv
<1> QED BY <1>1, <1>2, <1>5, <1>6, ReaderSafe

LEMMA CryptBufferSafe ==
    ASSUME SInv, NEW p \in Proc, CryptBuffer(p)
    PROVE  SyncInv' /\ ReadInv'
<1>1. /\ IInv /\ TypeOK /\ CacheInv /\ FileInv /\ SyncInv /\ ReadInv /\ rd[p].step = "read"
      /\ state # "down"
      /\ UNCHANGED <<ranges, wal, live, hit, state, cur, encLoc, w>>
      /\ cache' = [cache EXCEPT ![p] = Refreshed(p)]
      /\ rd' = [rd EXCEPT ![p] = [step |-> "decrypted", loc |-> rd[p].loc,
                  data |-> SymDiff(rd[p].data, Cover(Refreshed(p), rd[p].loc)),
                  hit |-> rd[p].hit]]
  BY DEF SInv, IInv, QuietInv, CryptBuffer
<1>2. /\ rd'[p].step = "decrypted" /\ rd'[p].hit = rd[p].hit
      /\ rd'[p].data = SymDiff(rd[p].data, Cover(Refreshed(p), rd[p].loc))
      /\ \A q \in Proc : q # p => rd'[q] = rd[q] /\ cache'[q] = cache[q]
      /\ cache'[p] = Refreshed(p)
  BY <1>1 DEF TypeOK
<1>3. ASSUME rd[p].hit = FALSE
      PROVE  rd'[p].data = {}
  <2>1. rd[p].loc \in Loc /\ rd[p].data = Cover(Fetchable, rd[p].loc)
    BY <1>1, <1>3 DEF ReadInv, ReadOK
  <2>2. w.step = "publish" => Before(rd[p].loc, w.loc)
    BY <1>1, <1>3 DEF SyncInv
  <2>3. Cover(Refreshed(p), rd[p].loc) = rd[p].data
    BY <1>1, <2>1, <2>2, RefreshedCover
  <2> QED BY <1>2, <2>3 DEF SymDiff
<1>4. ReadOK(p)'
  BY <1>2, <1>3 DEF ReadOK
<1>5. Fetchable \ {Len(ranges)} \subseteq Refreshed(p)
  <2>1. w.step = "publish" => cur.id = Len(ranges)
    BY <1>1 DEF SyncInv, CacheInv
  <2> QED BY <1>1, <2>1, RefreshedAll, RefreshedMost
<1>6. \A q \in Proc : Fetchable \ {Len(ranges)} \subseteq cache[q] =>
                         Fetchable \ {Len(ranges)} \subseteq cache'[q]
  BY <1>2, <1>5
<1> QED BY <1>1, <1>2, <1>4, <1>6, ReaderSafe

LEMMA ReadReturnSafe ==
    ASSUME SInv, NEW p \in Proc, ReadReturn(p)
    PROVE  SyncInv' /\ ReadInv'
<1>1. /\ UNCHANGED <<ranges, wal, live, hit, state, cur, encLoc, w, cache>>
      /\ rd'[p] = NoRead /\ \A q \in Proc : q # p => rd'[q] = rd[q]
  BY DEF SInv, IInv, TypeOK, ReadReturn
<1>2. rd'[p].step = "idle"
  BY <1>1 DEF NoRead
<1>3. ReadOK(p)'
  BY <1>2 DEF ReadOK
<1> QED BY <1>1, <1>2, <1>3, ReaderSafe

\* A step that leaves pages, ranges and readers alone.
LEMMA IdleSafe ==
    ASSUME SInv, UNCHANGED <<ranges, wal, cache, cur, encLoc, w, rd>>,
           state' = "down" <=> state = "down", live' \ hit' \subseteq live \ hit
    PROVE  SyncInv' /\ ReadInv'
<1>1. SyncInv /\ ReadInv /\ SameRanges
  BY RangesSame DEF SInv
<1>2. WalReadable' /\ \A p \in Proc : ReadOK(p)'
  BY <1>1, PagesSame, ReadsSame DEF ReadInv
<1>3. SyncInv'
  BY <1>1 DEF SyncInv, SameRanges
<1> QED BY <1>2, <1>3 DEF ReadInv

LEMMA RestoreSafe ==
    ASSUME SInv, NEW s \in 1 .. MaxLsn, Restore(s)
    PROVE  SyncInv' /\ ReadInv'
<1> DEFINE seg == {l \in Loc : l[1] = tli /\ SegStart(l[2]) = s}
<1>1. /\ TypeOK /\ SyncInv /\ ReadInv /\ SameRanges /\ w = NoWrite
      /\ UNCHANGED <<ranges, cache, cur, encLoc, w, rd, state>>
      /\ wal' = [l \in Loc |-> IF l \in seg THEN Cover(Fetchable, l) ELSE wal[l]]
      /\ live' = live \cup seg /\ hit' = hit \ seg /\ live \subseteq Loc /\ seg \subseteq Loc
  BY RangesSame DEF SInv, IInv, TypeOK, Restore
<1> HIDE DEF seg
<1>2. WalReadable'
  <2> SUFFICES ASSUME NEW l \in live' \ hit' PROVE Readable(l)'
    BY DEF WalReadable
  <2>1. l \in seg => wal'[l] = Cover(Fetchable, l)
    BY <1>1
  <2>2. l \notin seg => wal'[l] = wal[l] /\ wal[l] = Cover(Fetchable, l)
    BY <1>1 DEF ReadInv, WalReadable, Readable
  <2> QED BY <1>1, <2>1, <2>2, CoverSame DEF Readable
<1>3. \A p \in Proc : ReadOK(p)'
  BY <1>1, ReadsSame DEF ReadInv
<1>4. SyncInv'
  BY <1>1 DEF SyncInv, SameRanges, NoWrite
<1> QED BY <1>2, <1>3, <1>4 DEF ReadInv

LEMMA RotateServerKeySafe ==
    ASSUME SInv, NEW k \in SKey, RotateServerKey(k)
    PROVE  SyncInv' /\ ReadInv'
<1>1. /\ FileInv /\ CacheInv /\ SyncInv /\ ReadInv /\ hdr' = k
      /\ ranges' = [i \in DOMAIN ranges |-> Rewrap(ranges[i], k)]
      /\ UNCHANGED <<wal, live, hit, state, cur, encLoc, cache, w, rd>>
  BY DEF SInv, IInv, RotateServerKey
<1>2. /\ Fetchable' = Fetchable /\ Len(ranges') = Len(ranges) /\ DOMAIN ranges' = DOMAIN ranges
      /\ \A i \in DOMAIN ranges : ranges'[i].start = ranges[i].start
  BY <1>1, RotateFile
<1>3. \A i \in DOMAIN ranges : ranges'[i].type = ranges[i].type
  BY <1>1 DEF Rewrap, NewRange
<1>4. SameRanges
  BY <1>1, <1>2, <1>3, RangesFacts DEF SameRanges
<1>5. ReadInv'
  BY <1>1, <1>4, PagesSame, ReadsSame DEF ReadInv
<1>6. cur.id # 0 => cur.id \in DOMAIN ranges
  <2>1. cur.id # 0 => cur.id = Len(ranges)
    BY <1>1 DEF CacheInv
  <2> QED BY <1>1, <2>1, RangesFacts
<1>7. ranges = << >> => ranges' = << >>
  <2>1. ranges = << >> => DOMAIN ranges = {}
    BY <1>1, RangesFacts
  <2>2. ranges = << >> => Len(ranges') = 0 /\ ranges' \in Seq(GoodRanges)
    BY <1>1, <1>2, RotateFile DEF FileInv
  <2> QED BY <2>1, <2>2
<1>8. SyncInv'
  BY <1>1, <1>2, <1>3, <1>6, <1>7 DEF SyncInv
<1> QED BY <1>5, <1>8

LEMMA HaltSafe ==
    ASSUME SInv, Halt
    PROVE  SyncInv' /\ ReadInv'
<1>1. /\ ReadInv /\ SameRanges /\ state' = "down" /\ UNCHANGED wal
      /\ live' \ hit' \subseteq live \ hit
      /\ \A p \in Proc : rd'[p].step = "idle"
  BY RangesSame DEF SInv, Halt, NoRead
<1>2. WalReadable'
  BY <1>1, PagesSame
<1>3. \A p \in Proc : ReadOK(p)'
  BY <1>1 DEF ReadOK
<1> QED BY <1>1, <1>2, <1>3 DEF SyncInv, ReadInv

LEMMA NextQuiet == SInv /\ [Next]_vars => QuietInv'
<1> SUFFICES ASSUME SInv, [Next]_vars, state' = "down", NEW p \in Proc
             PROVE  rd'[p].step = "idle"
  BY DEF QuietInv
<1>1. CASE Halt
  BY <1>1 DEF Halt, NoRead
<1>2. ASSUME state = "down", NEW q \in Proc, CryptBuffer(q)
      PROVE  FALSE
  BY <1>2 DEF CryptBuffer, SInv, QuietInv
<1>3. ASSUME state = "down", NEW q \in Proc, ReadReturn(q)
      PROVE  rd'[p].step = "idle"
  BY <1>3 DEF ReadReturn, SInv, QuietInv
<1>4. state = "down" /\ rd' = rd => rd'[p].step = "idle"
  BY DEF SInv, QuietInv
<1>5. CASE UNCHANGED vars
  BY <1>4, <1>5 DEF vars
<1>6. ASSUME NEW encrypt \in BOOLEAN, NEW standby \in Standbys, Start(encrypt, standby)
      PROVE  FALSE
  BY <1>6 DEF Start
<1>7. CASE PublishLocation \/ WritePages \/ Restream \/ Promote \/ EndRecovery
           \/ (\E s \in 1 .. MaxLsn : Restore(s)) \/ DeleteServerKey
           \/ (\E k \in SKey : SetServerKey(k) \/ RotateServerKey(k))
  <2>1. rd' = rd /\ state = "down"
    BY <1>7 DEF PublishLocation, WritePages, Restream, Promote, EndRecovery, Restore,
                DeleteServerKey, SetServerKey, RotateServerKey
  <2> QED BY <1>4, <2>1
<1>8. ASSUME NEW q \in Proc, NEW n \in 1 .. MaxCount, BeginWrite(q, n)
      PROVE  FALSE
  BY <1>8 DEF BeginWrite
<1>9. ASSUME NEW q \in Proc, NEW l \in Loc, Pread(q, l)
      PROVE  FALSE
  BY <1>9 DEF Pread
<1>10. ASSUME NEW q \in Proc, CryptBuffer(q) \/ ReadReturn(q)
       PROVE  rd'[p].step = "idle"
  <2>1. state = "down"
    BY <1>10 DEF CryptBuffer, ReadReturn
  <2> QED BY <1>2, <1>3, <1>10, <2>1
<1> QED BY <1>1, <1>5, <1>6, <1>7, <1>8, <1>9, <1>10 DEF Next

LEMMA InitSInv == Init => SInv
<1> SUFFICES ASSUME Init PROVE SInv
  OBVIOUS
<1>1. IInv
  BY InitIInv
<1>2. SyncInv
  BY DEF Init, SyncInv
<1>3. \A p \in Proc : rd[p].step = "idle"
  BY DEF Init, NoRead
<1>4. WalReadable
  <2>1. Fetchable = {}
    BY DEF Init, Fetchable
  <2>2. \A l \in live : wal[l] = {}
    BY <1>1 DEF Init, IInv, TypeOK
  <2> QED BY <2>1, <2>2 DEF WalReadable, Readable, Cover
<1> QED BY <1>1, <1>2, <1>3, <1>4 DEF SInv, ReadInv, ReadOK, QuietInv

LEMMA NextSInv == SInv /\ [Next]_vars => SInv'
<1> SUFFICES ASSUME SInv, [Next]_vars
             PROVE  SyncInv' /\ ReadInv'
  BY NextIInv, NextQuiet DEF SInv
<1>1. CASE UNCHANGED vars
  BY <1>1, IdleSafe DEF vars
<1>2. ASSUME NEW encrypt \in BOOLEAN, NEW standby \in Standbys, Start(encrypt, standby)
      PROVE  SyncInv' /\ ReadInv'
  BY <1>2, StartSafe, WalKeysAssumption
<1>3. ASSUME NEW p \in Proc, NEW n \in 1 .. MaxCount, BeginWrite(p, n)
      PROVE  SyncInv' /\ ReadInv'
  BY <1>3, BeginWriteSafe
<1>4. CASE PublishLocation \/ WritePages
  BY <1>4, PublishSafe, WritePagesSafe
<1>5. ASSUME NEW p \in Proc, NEW l \in Loc, Pread(p, l)
      PROVE  SyncInv' /\ ReadInv'
  BY <1>5, PreadSafe
<1>6. ASSUME NEW p \in Proc, CryptBuffer(p) \/ ReadReturn(p)
      PROVE  SyncInv' /\ ReadInv'
  BY <1>6, CryptBufferSafe, ReadReturnSafe
<1>7. CASE Restream \/ Promote \/ DeleteServerKey
  <2>1. /\ UNCHANGED <<ranges, wal, cache, cur, encLoc, w, rd, state, live, hit>>
    BY <1>7 DEF Restream, Promote, DeleteServerKey
  <2> QED BY <2>1, IdleSafe
<1>8. CASE EndRecovery
  <2>1. /\ UNCHANGED <<ranges, wal, cache, cur, encLoc, w, rd, live, hit>>
        /\ state' # "down" /\ state # "down"
    BY <1>8 DEF EndRecovery
  <2> QED BY <2>1, IdleSafe
<1>9. ASSUME NEW s \in 1 .. MaxLsn, Restore(s)
      PROVE  SyncInv' /\ ReadInv'
  BY <1>9, RestoreSafe
<1>10. ASSUME NEW k \in SKey, SetServerKey(k)
       PROVE  SyncInv' /\ ReadInv'
  <2>1. ranges = << >>
    BY <1>10 DEF SetServerKey, SInv, IInv, FileInv
  <2>2. UNCHANGED <<ranges, wal, cache, cur, encLoc, w, rd, state, live, hit>>
    BY <1>10, <2>1 DEF SetServerKey
  <2> QED BY <2>2, IdleSafe
<1>11. ASSUME NEW k \in SKey, RotateServerKey(k)
       PROVE  SyncInv' /\ ReadInv'
  BY <1>11, RotateServerKeySafe
<1>12. CASE Halt
  BY <1>12, HaltSafe
<1> QED BY <1>1, <1>2, <1>3, <1>4, <1>5, <1>6, <1>7, <1>8, <1>9, <1>10, <1>11, <1>12 DEF Next

LEMMA SafetyInvariance == Spec => []SInv
BY InitSInv, NextSInv, PTL DEF Spec

-----------------------------------------------------------------------------
(* Theorems.                                                               *)

\* WAL can be read back: in every reachable state, a page that holds WAL was
\* encrypted with the ranges of the key file that it falls into now, unless the
\* start of a new range was laid over it and the page is still to be rewritten.
\* Restarts, crash recovery, re-streaming, promotions, archive restores and
\* rotations of the server key are all covered.
THEOREM WalAlwaysReadable == Spec => []WalReadable
<1>1. SInv => WalReadable
  BY DEF SInv, ReadInv
<1> QED BY <1>1, SafetyInvariance, PTL

\* A process that reads a page gets it decrypted right although its list of keys
\* may be older than the page: TDEXLogCryptBuffer compares the last range it has
\* with the published location and fetches what is missing.
THEOREM ReadersAlwaysOK == Spec => []ReaderOK
<1>1. ASSUME SInv, NEW p \in Proc, rd[p].step = "decrypted"
      PROVE  rd[p].data = {} \/ rd[p].hit
  <2>1. rd[p].hit \in BOOLEAN
    BY <1>1 DEF SInv, IInv, TypeOK
  <2>2. rd[p].hit = FALSE => rd[p].data = {}
    BY <1>1 DEF SInv, ReadInv, ReadOK
  <2> QED BY <2>1, <2>2
<1>2. SInv => ReaderOK
  BY <1>1 DEF ReaderOK
<1> QED BY <1>2, SafetyInvariance, PTL

=============================================================================
