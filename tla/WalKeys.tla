------------------------------- MODULE WalKeys -------------------------------
(***************************************************************************)
(* The WAL keys of one server: the key file "wal_keys", whose entries each *)
(* start a range of the WAL, the cached copies of it in every process, the *)
(* shared location of the newest range, and the WAL pages themselves.      *)
(*                                                                         *)
(* Every start of the server appends a range to the file; its start is not *)
(* known until the first write that may use it, which records it in the    *)
(* file, publishes it in shared memory and only then writes its page.      *)
(* What a page is encrypted with is the set of the ranges whose keystream  *)
(* was applied to it (AES-CTR: applying a range again removes it), so      *)
(* decrypting is taking the symmetric difference, and a page read          *)
(* correctly comes out as {}.                                              *)
(*                                                                         *)
(* A WAL location is <<timeline, page number>>; a page is the unit of a    *)
(* write.  The server key stands for the principal key of                  *)
(* GLOBAL_DATA_TDE_OID.  Entries and keys are never removed, so an index   *)
(* in the file identifies a range and its key.                             *)
(***************************************************************************)
EXTENDS Naturals, Sequences

CONSTANTS
    SKey,        \* server (principal) keys
    Proc,        \* processes of the server
    Standbys,    \* whether the server starts with standby.signal: set of the cases
    MaxTli,      \* bound: timelines
    MaxLsn,      \* bound: pages of a timeline
    SegSize,     \* pages of a WAL segment
    MaxRanges,   \* bound: ranges in the key file, hence starts of the server
    MaxCount,    \* bound: pages written by one call
    None         \* "no value"

ASSUME WalKeysAssumption ==
    /\ None \notin SKey \cup Proc
    /\ Standbys \subseteq BOOLEAN
    /\ MaxTli \in Nat \ {0} /\ MaxLsn \in Nat \ {0} /\ MaxRanges \in Nat
    /\ SegSize \in Nat \ {0} /\ MaxCount \in Nat

VARIABLES
    hdr,      \* server key named by the header of the key file, or None
    ranges,   \* entries of the key file
    wal,      \* wal[l]: the ranges applied to page l
    live,     \* pages that hold WAL
    hit,      \* live pages a new range has been laid over since they were written
    state,    \* "down", or what GetRecoveryState() says
    cur,      \* CurrentWalEncryptionRange: its index (0 is none) and its type
    encLoc,   \* EncryptionState: published start of the newest range
    cache,    \* cache[p]: entries in process p's list, in the order of the file
    tli,      \* timeline written to
    base,     \* base[t]: first page of timeline t
    pos,      \* next page to write
    upto,     \* page up to which a promotion copies the last segment, or 0
    w,        \* the seg_write in progress
    rd        \* rd[p]: the seg_read of process p

vars == <<hdr, ranges, wal, live, hit, state, cur, encLoc, cache,
          tli, base, pos, upto, w, rd>>

-----------------------------------------------------------------------------
(* Locations.                                                              *)

Loc == (1 .. MaxTli) \X (1 .. MaxLsn)

Zero == <<0, 0>>

\* wal_location_cmp(a, b) < 0
Before(a, b) == a[1] < b[1] \/ (a[1] = b[1] /\ a[2] < b[2])

Valid(a) == a[1] # 0 /\ a[2] # 0

\* First page of the segment that page l is in.
SegStartFromZero(l) == l - (l % SegSize)
SegStart(l) == l - ((l - 1) % SegSize)

-----------------------------------------------------------------------------
(* Ranges.  The AAD of an entry covers its type but not its start.         *)

Types == {"encrypted", "unencrypted", "invalid"}

Ranges == [type : Types, aad : Types, start : Loc \cup {Zero}, by : SKey]

NewRange(t, l, k) == [type |-> t, aad |-> t, start |-> l, by |-> k]

\* open_pg_tde_wal_range_from_entry succeeds.
Opens(r) == r.by = hdr /\ r.aad = r.type

\* What open_pg_tde_fetch_wal_keys takes from the file.
Fetchable == {i \in DOMAIN ranges : ranges[i].type # "invalid" /\ Valid(ranges[i].start)}

\* Index i is the last one in the list c.
LastOf(c, i) == i \in c /\ \A j \in c : j <= i

\* The encrypted ranges of the list c that page l falls into; a range ends
\* where the next one in the list starts.
CoverOpenEnded(c, l) ==
    {i \in c : ranges[i].type = "encrypted" /\ ~Before(l, ranges[i].start)}
Cover(c, l) ==
    {i \in c : /\ ranges[i].type = "encrypted"
               /\ ~Before(l, ranges[i].start)
               /\ \A j \in c : (i < j /\ \A k \in c : ~(i < k /\ k < j))
                                   => Before(l, ranges[j].start)}

SymDiff(a, b) == (a \ b) \cup (b \ a)

\* The list of process p once TDEXLogCryptBuffer has brought it up to date.
RefreshedOnce(p) == IF cache[p] = {} THEN Fetchable ELSE cache[p]
Refreshed(p) ==
    LET c == IF cache[p] = {} THEN Fetchable ELSE cache[p] IN
    IF encLoc # Zero /\ \E i \in c : LastOf(c, i) /\ Before(ranges[i].start, encLoc)
    THEN c \cup {i \in Fetchable : ~Before(ranges[i].start, encLoc)}
    ELSE c

\* The entries that brings in open; else the call ends with an ERROR.
FetchSucceeds(p) == \A i \in Refreshed(p) \ cache[p] : Opens(ranges[i])

-----------------------------------------------------------------------------
(* Types and the initial state: a cluster fresh from initdb, shut down.    *)

NoWrite == [p |-> None, step |-> "idle", loc |-> Zero, n |-> 0, usable |-> FALSE]

NoRead == [step |-> "idle", loc |-> Zero, data |-> {}, hit |-> FALSE]

\* Every variable has its type.
TypeOK ==
    /\ hdr \in SKey \cup {None}
    /\ ranges \in Seq(Ranges)
    /\ wal \in [Loc -> SUBSET (1 .. MaxRanges)]
    /\ live \subseteq Loc
    /\ hit \subseteq Loc
    /\ state \in {"down", "crash", "archive", "done"}
    /\ cur \in [id : 0 .. MaxRanges, type : Types]
    /\ encLoc \in Loc \cup {Zero}
    /\ cache \in [Proc -> SUBSET (1 .. MaxRanges)]
    /\ tli \in 1 .. MaxTli
    /\ base \in [1 .. MaxTli -> 1 .. MaxLsn]
    /\ pos \in 1 .. MaxLsn
    /\ upto \in 0 .. MaxLsn
    /\ w \in [p : Proc \cup {None}, step : {"idle", "publish", "write"},
              loc : Loc \cup {Zero}, n : 0 .. MaxCount, usable : BOOLEAN]
    /\ rd \in [Proc -> [step : {"idle", "read", "decrypted"}, loc : Loc \cup {Zero},
                        data : SUBSET (1 .. MaxRanges), hit : BOOLEAN]]

Init ==
    /\ hdr = None
    /\ ranges = << >>
    /\ wal = [l \in Loc |-> {}]
    /\ live = {<<1, 1>>}
    /\ hit = {}
    /\ state = "down"
    /\ cur = [id |-> 0, type |-> "invalid"]
    /\ encLoc = Zero
    /\ cache = [p \in Proc |-> {}]
    /\ tli = 1
    /\ base = [t \in 1 .. MaxTli |-> 1]
    /\ pos = 1
    /\ upto = 0
    /\ w = NoWrite
    /\ rd = [p \in Proc |-> NoRead]

-----------------------------------------------------------------------------
(* Starting.                                                               *)

\* Page l comes out right when decrypted with the ranges of the file.
Readable(l) == wal[l] = Cover(Fetchable, l)

\* Recovery ends before the first page that holds no readable WAL; the page
\* before it may be only partly filled, and is then written again.
EndOfWal(e) ==
    /\ e \in base[tli] .. (MaxLsn + 1)
    /\ \A l \in base[tli] .. (e - 1) : <<tli, l>> \in live /\ Readable(<<tli, l>>)
    /\ e <= MaxLsn => ~(<<tli, e>> \in live /\ Readable(<<tli, e>>))

\* open_pg_tde_create_wal_range: the new range has no start yet.
CreateWalRange(t) ==
    /\ Len(ranges) < MaxRanges
    /\ hdr # None
    /\ ranges' = Append(ranges, NewRange(t, Zero, hdr))
    /\ cur' = [id |-> Len(ranges) + 1, type |-> t]

\* TDEXLogSmgrInitWrite in the postmaster: a new range whenever WAL is
\* encrypted, or was.  Every process inherits the postmaster's cache.
InitWrite(encrypt) ==
    LET n == Len(ranges) IN
    /\ \/ encrypt /\ CreateWalRange("encrypted") /\ encLoc' = Zero
       \/ /\ ~encrypt /\ n > 0 /\ ranges[n].type = "encrypted"
          /\ CreateWalRange("unencrypted") /\ encLoc' = Zero
       \/ /\ ~encrypt /\ n > 0 /\ ranges[n].type # "encrypted"
          /\ cur' = [id |-> n, type |-> ranges[n].type]
          /\ encLoc' = ranges[n].start
          /\ UNCHANGED ranges
       \/ /\ ~encrypt /\ n = 0
          /\ cur' = [id |-> 0, type |-> "invalid"]
          /\ encLoc' = Zero
          /\ UNCHANGED ranges
    /\ cache' = [p \in Proc |-> Fetchable]

\* A standby receives the last segment again from its beginning.
Start(encrypt, standby) ==
    /\ state = "down"
    /\ \A i \in DOMAIN ranges :
          i = Len(ranges) \/ i \in Fetchable => Opens(ranges[i])
    /\ InitWrite(encrypt)
    /\ \E e \in 1 .. (MaxLsn + 1) :
          /\ EndOfWal(e)
          /\ live' = {l \in live : l[1] < tli \/ (l[1] = tli /\ l[2] < e)}
          /\ hit' = hit \cap live'
          /\ \/ standby /\ pos' = SegStart(IF e > MaxLsn THEN MaxLsn ELSE e)
             \/ ~standby /\ pos' \in {e - 1, e} \cap (base[tli] .. MaxLsn)
    /\ state' = IF standby THEN "archive" ELSE "crash"
    /\ UNCHANGED <<hdr, wal, tli, base, upto, w, rd>>

-----------------------------------------------------------------------------
(* Writing: tdeheap_xlog_seg_write.  Only one process writes at a time:    *)
(* WALWriteLock, or the walreceiver or startup process alone.              *)

\* tde_ensure_xlog_key_location decides to fix the start of the newest range.
NeedsLocationAnywhere(p, loc) == cur.type # "invalid" /\ encLoc = Zero /\ state # "crash"
NeedsLocation(p, loc) ==
    /\ cur.type # "invalid"
    /\ encLoc = Zero
    /\ state # "crash"
    /\ \/ cache[p] = {}
       \/ \E i \in cache[p] : LastOf(cache[p], i) /\ Before(ranges[i].start, loc)

\* open_pg_tde_wal_last_range_set_location: the last entry gets its start; an
\* entry before it that does not start earlier is invalidated.
SetLocation(loc) ==
    LET n == Len(ranges) IN
    ranges' = [i \in DOMAIN ranges |->
        IF i = n THEN [ranges[i] EXCEPT !.start = loc]
        ELSE IF i = n - 1 /\ ~Before(ranges[i].start, loc)
        THEN [ranges[i] EXCEPT !.type = "invalid"]
        ELSE ranges[i]]

BeginWrite(p, n) ==
    LET loc == <<tli, pos>>
        call(step, usable) ==
            [p |-> p, step |-> step, loc |-> loc, n |-> n, usable |-> usable]
    IN  /\ state # "down"
        /\ w = NoWrite
        /\ pos + n <= MaxLsn + 1
        /\ \/ /\ NeedsLocation(p, loc)
              /\ SetLocation(loc)
              /\ hit' = hit \cup {l \in live : ~Before(l, loc)}
              /\ rd' = [q \in Proc |->
                          IF rd[q].step = "read" /\ ~Before(rd[q].loc, loc)
                          THEN [rd[q] EXCEPT !.hit = TRUE] ELSE rd[q]]
              /\ w' = call("publish", TRUE)
           \/ /\ ~NeedsLocation(p, loc)
              /\ w' = call("write", encLoc # Zero /\ ~Before(loc, encLoc))
              /\ UNCHANGED <<ranges, hit, rd>>
        /\ UNCHANGED <<hdr, wal, live, state, cur, encLoc, cache,
                       tli, base, pos, upto>>

\* TDEXLogSetEncKeyLocation
PublishLocation ==
    /\ w.step = "publish"
    /\ encLoc' = w.loc
    /\ w' = [w EXCEPT !.step = "write"]
    /\ UNCHANGED <<hdr, ranges, wal, live, hit, state, cur, cache,
                   tli, base, pos, upto, rd>>

Pages == {<<w.loc[1], l>> : l \in w.loc[2] .. (w.loc[2] + w.n - 1)}

\* Written with the keys of older ranges, with the newest key, or plain.
WithOldKeys == ~w.usable /\ cur.type # "invalid"

Applied(l) ==
    IF WithOldKeys THEN Cover(Refreshed(w.p), l)
    ELSE IF cur.type = "encrypted" THEN {cur.id} ELSE {}

WritePages ==
    LET last == w.loc[2] + w.n - 1 IN
    /\ w.step = "write"
    /\ WithOldKeys => FetchSucceeds(w.p)
    /\ wal' = [l \in Loc |-> IF l \in Pages THEN Applied(l) ELSE wal[l]]
    /\ cache' = IF WithOldKeys THEN [cache EXCEPT ![w.p] = Refreshed(w.p)] ELSE cache
    /\ live' = live \cup Pages
    /\ hit' = hit \ Pages
    /\ pos' \in {l \in {last, last + 1} : l <= MaxLsn}
    /\ w' = NoWrite
    /\ UNCHANGED <<hdr, ranges, state, cur, encLoc, tli, base, upto, rd>>

-----------------------------------------------------------------------------
(* Reading: tdeheap_xlog_seg_read.                                         *)

Pread(p, l) ==
    /\ state # "down"
    /\ rd[p].step = "idle"
    /\ w.p # p
    /\ l \in live
    /\ rd' = [rd EXCEPT ![p] = [step |-> "read", loc |-> l, data |-> wal[l],
                                hit |-> l \in hit]]
    /\ UNCHANGED <<hdr, ranges, wal, live, hit, state, cur, encLoc, cache,
                   tli, base, pos, upto, w>>

CryptBuffer(p) ==
    /\ rd[p].step = "read"
    /\ FetchSucceeds(p)
    /\ cache' = [cache EXCEPT ![p] = Refreshed(p)]
    /\ rd' = [rd EXCEPT ![p] = [step |-> "decrypted", loc |-> rd[p].loc,
                  data |-> SymDiff(rd[p].data, Cover(Refreshed(p), rd[p].loc)),
                  hit |-> rd[p].hit]]
    /\ UNCHANGED <<hdr, ranges, wal, live, hit, state, cur, encLoc,
                   tli, base, pos, upto, w>>

ReadReturn(p) ==
    /\ rd[p].step = "decrypted"
    /\ rd' = [rd EXCEPT ![p] = NoRead]
    /\ UNCHANGED <<hdr, ranges, wal, live, hit, state, cur, encLoc, cache,
                   tli, base, pos, upto, w>>

-----------------------------------------------------------------------------
(* Recovery.                                                               *)

\* The walreceiver reconnects: streaming resumes at the start of the segment.
Restream ==
    /\ state = "archive" /\ upto = 0 /\ w = NoWrite
    /\ pos # SegStart(pos)
    /\ SegStart(pos) >= base[tli]
    /\ pos' = SegStart(pos)
    /\ UNCHANGED <<hdr, ranges, wal, live, hit, state, cur, encLoc, cache,
                   tli, base, upto, w, rd>>

\* open_pg_tde_restore_encrypt brings a whole segment from the archive.  Its
\* dummy range starts at the end of all WAL, so only keys of the file are used.
Restore(s) ==
    LET seg == {l \in Loc : l[1] = tli /\ SegStart(l[2]) = s} IN
    /\ state = "archive" /\ upto = 0 /\ w = NoWrite
    /\ s = SegStart(pos) /\ s >= base[tli]
    /\ \A i \in Fetchable : Opens(ranges[i])
    /\ wal' = [l \in Loc |-> IF l \in seg THEN Cover(Fetchable, l) ELSE wal[l]]
    /\ live' = live \cup seg
    /\ hit' = hit \ seg
    /\ UNCHANGED <<hdr, ranges, state, cur, encLoc, cache, tli, base, pos,
                   upto, w, rd>>

\* A promotion copies the last segment to a new timeline, through seg_write.
Promote ==
    /\ state = "archive" /\ upto = 0 /\ w = NoWrite
    /\ tli < MaxTli
    /\ tli' = tli + 1
    /\ base' = [base EXCEPT ![tli + 1] = SegStart(pos)]
    /\ pos' = SegStart(pos)
    /\ upto' = pos
    /\ UNCHANGED <<hdr, ranges, wal, live, hit, state, cur, encLoc, cache, w, rd>>

EndRecovery ==
    /\ w = NoWrite
    /\ state = "crash" \/ (state = "archive" /\ upto # 0 /\ pos >= upto)
    /\ state' = "done"
    /\ upto' = 0
    /\ UNCHANGED <<hdr, ranges, wal, live, hit, cur, encLoc, cache,
                   tli, base, pos, w, rd>>

-----------------------------------------------------------------------------
(* The server key.                                                         *)

\* The first one, by SQL or by falling back to the default key: the file is
\* truncated and given a header.
SetServerKey(k) ==
    /\ state # "down"
    /\ hdr = None
    /\ hdr' = k
    /\ ranges' = << >>
    /\ UNCHANGED <<wal, live, hit, state, cur, encLoc, cache,
                   tli, base, pos, upto, w, rd>>

\* open_pg_tde_perform_rotate_server_key: every entry is opened and wrapped
\* again in a new file, which then replaces the old one.
RewrapUnderOld(r, k) == r
Rewrap(r, k) == NewRange(r.type, r.start, k)

RotateServerKey(k) ==
    /\ state # "down"
    /\ hdr # None
    /\ \A i \in DOMAIN ranges : Opens(ranges[i])
    /\ hdr' = k
    /\ ranges' = [i \in DOMAIN ranges |-> Rewrap(ranges[i], k)]
    /\ UNCHANGED <<wal, live, hit, state, cur, encLoc, cache,
                   tli, base, pos, upto, w, rd>>

\* Deleting the default key deletes the server key that equals it, unless the
\* file has entries.
DeleteServerKey ==
    /\ state = "done"
    /\ hdr # None
    /\ Len(ranges) = 0
    /\ hdr' = None
    /\ UNCHANGED <<ranges, wal, live, hit, state, cur, encLoc, cache,
                   tli, base, pos, upto, w, rd>>

-----------------------------------------------------------------------------
\* A crash or a shutdown.  A promotion that had not finished is forgotten.
Halt ==
    /\ state # "down"
    /\ Len(ranges) < MaxRanges
    /\ state' = "down"
    /\ tli' = IF upto # 0 THEN tli - 1 ELSE tli
    /\ live' = {l \in live : l[1] <= tli'}
    /\ hit' = hit \cap live'
    /\ pos' = 1
    /\ upto' = 0
    /\ cur' = [id |-> 0, type |-> "invalid"]
    /\ encLoc' = Zero
    /\ cache' = [p \in Proc |-> {}]
    /\ w' = NoWrite
    /\ rd' = [p \in Proc |-> NoRead]
    /\ UNCHANGED <<hdr, ranges, wal, base>>

Next ==
    \/ \E encrypt \in BOOLEAN, standby \in Standbys : Start(encrypt, standby)
    \/ \E p \in Proc, n \in 1 .. MaxCount : BeginWrite(p, n)
    \/ PublishLocation
    \/ WritePages
    \/ \E p \in Proc, l \in Loc : Pread(p, l)
    \/ \E p \in Proc : CryptBuffer(p) \/ ReadReturn(p)
    \/ Restream
    \/ \E s \in 1 .. MaxLsn : Restore(s)
    \/ Promote
    \/ EndRecovery
    \/ \E k \in SKey : SetServerKey(k) \/ RotateServerKey(k)
    \/ DeleteServerKey
    \/ Halt

Spec == Init /\ [][Next]_vars

-----------------------------------------------------------------------------
(* Safety.                                                                 *)

\* The ranges of the file that have a start follow each other: the entry
\* appended later starts later.  Both the end of a cached range and the test
\* whether a cache is up to date rely on it.
StartsIncrease ==
    \A i, j \in Fetchable : i < j => Before(ranges[i].start, ranges[j].start)

\* Every entry of the file opens under the server key of the header, so that
\* neither a start nor a fetch nor a rotation stops at it.  In particular no
\* entry is ever invalidated: its AAD would no longer match its type.
RangesOpen == \A i \in DOMAIN ranges : Opens(ranges[i])

\* WAL can be read back with the ranges of the file across restarts,
\* recoveries, promotions and key rotations: every page, except one a new
\* range was laid over and whose rewriting is still to come.
WalReadable == \A l \in live \ hit : Readable(l)

\* A reader whose cache lags behind the writer fetches what it misses: the
\* page it read comes out right unless a new range was laid over it.
ReaderOK == \A p \in Proc : rd[p].step = "decrypted" => rd[p].data = {} \/ rd[p].hit

-----------------------------------------------------------------------------
(* What the documentation says, and the model refutes.                     *)

\* variables.md: existing encrypted WAL can always be read as long as the keys
\* are there.  Looked at after a crash, before the server starts again.
AlwaysReadable == state = "down" => \A l \in live : wal[l] # {} => Readable(l)

\* variables.md: with WAL encryption on, all WAL writes are encrypted.
AllWritesEncrypted ==
    w.step = "write" /\ cur.type = "encrypted" => \A l \in Pages : Applied(l) # {}

=============================================================================
