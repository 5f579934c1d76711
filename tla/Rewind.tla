------------------------------- MODULE Rewind -------------------------------
(***************************************************************************)
(* pg_rewind with encrypted relations and encrypted WAL: the target, which *)
(* diverged from the source, is made a copy of it again by copying only    *)
(* what the target changed.                                                *)
(*                                                                         *)
(* The two clusters share the history up to the fork but not the keys: a   *)
(* server that replays the creation of a relation generates a key of its   *)
(* own.  A file that is kept and patched therefore mixes blocks of two     *)
(* keys, so every block taken from the source is re-encrypted with the     *)
(* target's key, and the target's key replaces the source's in a working   *)
(* copy (tmp) of the source's key files, which in the end becomes the      *)
(* target's key directory.  WAL of the target that must be kept goes the   *)
(* other way: it is re-encrypted with the source's WAL keys.               *)
(*                                                                         *)
(* A path is <<relation, part>>, ordered as the file names are: part s is  *)
(* segment s of the main fork, then come the fork files; WAL segment i is  *)
(* <<WalDir, i>>.  A block is its key and its content: "c" is what the     *)
(* source holds, "t" what the target wrote after the fork.  The WAL of a   *)
(* segment is the set of keystreams applied to it (AES-CTR: applying one   *)
(* twice removes it).                                                      *)
(***************************************************************************)
EXTENDS Integers, Sequences, FiniteSets

CONSTANTS
    Rels,        \* relation file numbers, in the order of their names
    LastSeg,     \* bound: last segment of a relation
    SegBlocks,   \* RELSEG_SIZE
    MaxLen,      \* MaxLen[r], bound: blocks of relation r
    Forks,       \* fork files besides the main fork: "fsm" (also for vm), "init"
    Kinds,       \* how the relations are encrypted
    Modes,       \* "local": a stopped data directory; "remote": a live server
    Queues,      \* values of MAX_CHUNKS_PER_QUERY
    ChunkBlocks, \* blocks in MAX_CHUNK_SIZE
    NWal,        \* WAL segments from the last common checkpoint to the target's end
    WalKeys,     \* keystreams: source's and target's choices
    WalDir,      \* the directory of WAL segments, whose name comes after the relations'
    None         \* no key

ASSUME RewindAssumption ==
    /\ Rels \subseteq Nat /\ LastSeg \in Nat /\ SegBlocks \in Nat \ {0}
    /\ MaxLen \in [Rels -> 1 .. (LastSeg + 1) * SegBlocks]
    /\ Forks \subseteq {"fsm", "init"} /\ Kinds \subseteq {"plain", "same", "own"}
    /\ Modes \subseteq {"local", "remote"} /\ Queues \subseteq Nat \ {0}
    /\ ChunkBlocks \in Nat \ {0} /\ NWal \in Nat \ {0}
    /\ WalDir \in Nat /\ \A r \in Rels : r < WalDir

ASSUME NoneIsNoKey ==
    /\ None \notin {"src", "tgt", "new"}
    /\ None \notin {"src", "tgt", "new", "garbled"} \X (Rels \cup {0})

VARIABLES
    mode,      \* how the source is read
    cap,       \* MAX_CHUNKS_PER_QUERY
    src,       \* main and fork files of the source
    skeys,     \* relation keys of the source
    created,   \* relations the source created after the fork: replay rebuilds them
    tgt,       \* main and fork files of the target
    tkeys,     \* relation keys in the target's key directory
    changed,   \* <<path, block>>: pages named by the target's WAL since the checkpoint
    wal,       \* WAL segments and WAL keys of both, where they fork, and the
               \* segments restored from the target's archive
    step,      \* how far main() is
    filemap,   \* entries still to be performed
    tmp,       \* relation keys in tde_tmp_source
    cur,       \* current_tde_file
    queue,     \* request_queue
    want,      \* the part of the range being requested that is not in the queue yet
    fetching,  \* whether the queue ran full and is being processed
    split      \* whether that has happened

vars == <<mode, cap, src, skeys, created, tgt, tkeys, changed, wal, step,
          filemap, tmp, cur, queue, want, fetching, split>>

\* What the source has, and what main() works on.
source == <<mode, cap, src, skeys, created, tkeys, changed>>
tdeKeys == <<tmp, cur>>
requests == <<queue, want, fetching, split>>

-----------------------------------------------------------------------------
(* Files.                                                                  *)

FsmPart == LastSeg + 1
InitPart == LastSeg + 2
ForkPart(k) == IF k = "fsm" THEN FsmPart ELSE InitPart

Parts == (0 .. LastSeg) \cup {ForkPart(k) : k \in Forks}
Paths == Rels \X Parts

IsRelFile(path) == path[1] \in Rels /\ path[2] <= LastSeg
IsWal(path) == path[1] = WalDir

\* Files f without path p, and with content c at path p.
Without(f, p) == [q \in DOMAIN f \ {p} |-> f[q]]
With(f, p, c) == [q \in DOMAIN f \cup {p} |-> IF q = p THEN c ELSE f[q]]

SizeOf(f, p) == IF p \in DOMAIN f THEN Len(f[p]) ELSE 0

Block(k, d) == [key |-> k, data |-> d]

\* The key that server s ("src", "tgt", or "new": at replay) made for relation r.
KeyOf(s, r) == IF s = None THEN None ELSE <<s, r>>
Garbled == <<"garbled", 0>>

\* tde_reencrypt_block: decrypts with the source's key and encrypts with the
\* target's, both with the tweak of block n.  Block b was written as block at.
\* With one key for both this gives back what was there, whatever it was.
ReencryptBlock(b, sk, tk, n, at) ==
    IF sk = None \/ sk = tk THEN b
    ELSE IF b.key = sk /\ n = at THEN [b EXCEPT !.key = tk]
    ELSE Block(Garbled, b.data)

\* What a server that has key k for the relation reads in block b.
Reads(k, b) == IF b.key = k THEN b.data ELSE "garbage"

-----------------------------------------------------------------------------
(* current_tde_file: the relation whose blocks are being re-encrypted.  It *)
(* is NoFile when the source has no key for it.                            *)

NoFile == [path |-> <<>>, sk |-> None, tk |-> None]

\* reencrypt_fork(): the block number is computed with the segment of the
\* file that is current, not of the fork.
ReencryptFork(files, part) ==
    LET p == <<cur.path[1], part>>
        n(i) == i - 1 + cur.path[2] * SegBlocks IN
    IF p \notin DOMAIN files THEN files
    ELSE [files EXCEPT ![p] =
             [i \in DOMAIN @ |-> ReencryptBlock(@[i], cur.sk, cur.tk, n(i), i - 1)]]

\* flush_current_tde_rel_key(): what it makes of the files and of the keys.
FlushFiles(files) == IF cur.sk = None THEN files ELSE ReencryptFork(files, FsmPart)
FlushRelKey == IF cur.sk = None THEN tmp ELSE [tmp EXCEPT ![cur.path[1]] = cur.tk]

\* Whether the keys of path are the current ones.
IsCurrentAny(c, path) == c.sk # None
IsCurrent(c, path) == c.path = path

\* ensure_tde_keys(): the source's key comes from tmp, the target's from its
\* own directory.  It dies when only the source has one.
EnsureTdeKeys(path) ==
    LET sk == FlushRelKey[path[1]] IN
    IF IsCurrent(cur, path) THEN UNCHANGED <<tmp, cur, step>>
    ELSE /\ tmp' = FlushRelKey
         /\ cur' = IF sk = None THEN NoFile
                   ELSE [path |-> path, sk |-> sk, tk |-> tkeys[path[1]]]
         /\ step' = IF sk # None /\ tkeys[path[1]] = None THEN "crashed" ELSE step

EnsureFiles(files, path) == IF IsCurrent(cur, path) THEN files ELSE FlushFiles(files)

\* write_target_range() of blocks off .. off+len-1 of the source's file (as far
\* as it still has them), re-encrypted for the current file c.
WriteRange(files, path, off, len, c) ==
    LET n(i) == i - 1 + path[2] * SegBlocks
        b(i) == ReencryptBlock(src[path][i], c.sk, c.tk, n(i), n(i))
        last == IF off + len < Len(src[path]) THEN off + len ELSE Len(src[path])
        old == IF path \in DOMAIN files THEN files[path] ELSE <<>>
        size == IF last > Len(old) THEN last ELSE Len(old) IN
    With(files, path,
         [i \in 1 .. size |-> IF i \in off + 1 .. last THEN b(i) ELSE old[i]])

CopyWal(i) == wal' = [wal EXCEPT !.tgt = With(@, i, wal.src[i])]

-----------------------------------------------------------------------------
(* A live source: requests are queued and fetched many at a time.          *)

NoRange == [path |-> <<>>, encrypt |-> FALSE, off |-> 0, len |-> 0]
Piece(path, encrypt, off, len) ==
    IF len = 0 THEN NoRange
    ELSE [path |-> path, encrypt |-> encrypt, off |-> off, len |-> len]

\* One turn of libpq_queue_process_fetch_range(): as much of the range as fits
\* extends the last request, which it continues, or is a request of its own.  A
\* full queue is processed first.  (The code tries to extend a request before
\* its loop only; none that the loop has made can be extended.)
QueueRange(path, encrypt, off, len) ==
    LET n == Len(queue)
        merges == /\ n > 0 /\ queue[n].path = path
                  /\ queue[n].off + queue[n].len = off
                  /\ queue[n].len < ChunkBlocks
        full == ~merges /\ n = cap
        room == IF merges THEN ChunkBlocks - queue[n].len ELSE ChunkBlocks
        taken == IF full THEN 0 ELSE IF len < room THEN len ELSE room IN
    /\ queue' = IF full THEN queue
                ELSE IF merges THEN [queue EXCEPT ![n].len = @ + taken]
                ELSE Append(queue, Piece(path, encrypt, off, taken))
    /\ want' = Piece(path, encrypt, off + taken, len - taken)
    /\ fetching' = full /\ split' = (split \/ full)

QueueFetchRange(path, off, len) ==
    \/ /\ mode = "remote"
       /\ QueueRange(path, TRUE, off, len)
       /\ UNCHANGED <<tgt, tdeKeys, step>>
    \/ /\ mode = "local"
       /\ EnsureTdeKeys(path)
       /\ tgt' = WriteRange(EnsureFiles(tgt, path), path, off, len, cur')
       /\ UNCHANGED requests

\* A live source truncates the target's file at once and fetches at least a
\* full chunk, for the file may have grown.
QueueFetchFile(path, len) ==
    \/ /\ mode = "remote"
       /\ tgt' = IF IsWal(path) THEN tgt ELSE With(tgt, path, <<>>)
       /\ QueueRange(path, FALSE, 0, IF len < ChunkBlocks THEN ChunkBlocks ELSE len)
       /\ UNCHANGED wal
    \/ /\ mode = "local" /\ IsWal(path)
       /\ CopyWal(path[2])
       /\ UNCHANGED <<tgt, requests>>
    \/ /\ mode = "local" /\ ~IsWal(path)
       /\ tgt' = With(tgt, path, src[path])
       /\ UNCHANGED <<wal, requests>>

-----------------------------------------------------------------------------
(* The file map.                                                           *)

ActionOrder == [COPY |-> 1, COPY_TAIL |-> 2, TRUNCATE |-> 3, REMOVE |-> 4,
                ENSURE_TDE_KEY |-> 5, ENSURE_WAL_SEG |-> 6]

\* decide_file_action() for a relation file or a fork.
DecideAction(path) ==
    IF path \notin DOMAIN tgt THEN "COPY"
    ELSE IF path \notin DOMAIN src THEN "REMOVE"
    ELSE IF ~IsRelFile(path) THEN "COPY"
    ELSE IF SizeOf(tgt, path) < SizeOf(src, path) THEN "COPY_TAIL"
    ELSE IF SizeOf(tgt, path) > SizeOf(src, path) THEN "TRUNCATE"
    ELSE "ENSURE_TDE_KEY"

\* process_target_wal_block_change(): only blocks that both files have.
PagesToOverwrite(path) ==
    {b \in 0 .. SegBlocks - 1 :
        /\ <<path, b>> \in changed
        /\ b < SizeOf(src, path) /\ b < SizeOf(tgt, path)}

\* An entry, and the pages that have not been asked for yet.
RelEntries ==
    {[path |-> p, action |-> DecideAction(p), pages |-> PagesToOverwrite(p),
      left |-> PagesToOverwrite(p), ssize |-> SizeOf(src, p), tsize |-> SizeOf(tgt, p)] :
        p \in DOMAIN src \cup DOMAIN tgt}

\* The WAL read before the directories are listed: the segment of the target's
\* last checkpoint, and from the fork back to the last common checkpoint.  The
\* latter are the ones to keep.
KeepWal == 1 .. wal.fork
Listed == DOMAIN wal.tgt \cup KeepWal \cup {NWal}

WalAction(i) ==
    IF i \in DOMAIN wal.src THEN "COPY"
    ELSE IF i \in KeepWal THEN "ENSURE_WAL_SEG"
    ELSE "REMOVE"

WalEntries ==
    {[path |-> <<WalDir, i>>, action |-> WalAction(i), pages |-> {}, left |-> {},
      ssize |-> 1, tsize |-> 1] :
        i \in DOMAIN wal.src \cup Listed}

\* final_filemap_cmp()
Precedes(e, f) ==
    LET less(p, q) == p[1] < q[1] \/ (p[1] = q[1] /\ p[2] < q[2]) IN
    \/ ActionOrder[e.action] < ActionOrder[f.action]
    \/ /\ e.action = f.action
       /\ IF e.action = "REMOVE" THEN less(f.path, e.path) ELSE less(e.path, f.path)

-----------------------------------------------------------------------------
(* WAL segments.                                                           *)

\* TDEXLogCryptBuffer(): AES-CTR with the keys of the directory that is set.
CryptWal(content, stream) == (content \ stream) \cup (stream \ content)

\* ensure_tde_wal_seg(): decrypt with the target's keys, encrypt with the source's.
EnsureWalSeg(content) == CryptWal(CryptWal(content, wal.tkeys), wal.skeys)

\* The segments the target no longer has are restored from its archive, as its
\* own keys encrypt them, when they are read.
RestoredWal == (1 .. NWal) \ DOMAIN wal.tgt

-----------------------------------------------------------------------------
(* Initial states: two clusters that share a history.                      *)

\* The blocks of a relation of n blocks that lie in segment s.
InSeg(n, s) == {b \in 0 .. n - 1 : s * SegBlocks <= b /\ b < (s + 1) * SegBlocks}

\* The files of relation r with n blocks (-1: it does not exist), with key k;
\* block b holds "t" when it is in ch.  Every fork file has one block.
FilesOf(r, n, k, fk, ch) ==
    LET parts == IF n = -1 THEN {}
                 ELSE {s \in 0 .. LastSeg : s = 0 \/ InSeg(n, s) # {}}
                      \cup {ForkPart(f) : f \in fk} IN
    [p \in {r} \X parts |->
        IF p[2] > LastSeg THEN <<Block(k, "c")>>
        ELSE [i \in 1 .. Cardinality(InSeg(n, p[2])) |->
                 Block(k, IF p[2] * SegBlocks + i - 1 \in ch THEN "t" ELSE "c")]]

\* A relation that existed at the fork has the same kind on both sides: plain,
\* or encrypted with the same key (the target's key file was copied from the
\* source, or the other way round), or with a key of each server's own.  A side
\* that dropped it has no key left.  A relation created by either side after
\* the fork has what that side chose; both may have used the same number.
Histories(r) ==
    {h \in [n : {-1} \cup 1 .. MaxLen[r], m : {-1} \cup 1 .. MaxLen[r],
            ch : SUBSET (0 .. MaxLen[r] - 1), fk : SUBSET Forks,
            sk : {None, "src"}, tk : {None, "src", "tgt"}, new : BOOLEAN] :
        /\ h.ch \subseteq 0 .. h.m - 1
        /\ h.n # -1 \/ h.m # -1
        /\ h.n = -1 => h.sk = None
        /\ h.m = -1 => h.tk = None
        /\ h.fk # {} => h.n # -1 \/ h.m # -1
        /\ IF h.new
           THEN /\ h.n # -1 /\ h.tk # "src"
                /\ h.ch = 0 .. h.m - 1 /\ h.fk = {}
           ELSE /\ h.n # -1 /\ h.m # -1 => (h.sk = None <=> h.tk = None)
                /\ h.sk = None /\ h.tk = None => "plain" \in Kinds
                /\ h.tk = "src" => "same" \in Kinds
                /\ h.tk = "tgt" \/ (h.m = -1 /\ h.sk # None) => "own" \in Kinds}

WalHistories ==
    {v \in [src : SUBSET (1 .. NWal), tgt : SUBSET (1 .. NWal), fork : 1 .. NWal,
            skeys : WalKeys, tkeys : WalKeys] :
        \A i \in v.src : i < v.fork}

Together(fs) == [p \in UNION {DOMAIN f : f \in fs} |-> (CHOOSE f \in fs : p \in DOMAIN f)[p]]

\* The relations' histories and the WAL's do not influence each other: they are
\* varied one at a time.
PlainHistory == [n |-> 1, m |-> 1, ch |-> {}, fk |-> {}, sk |-> "src", tk |-> "tgt", new |-> FALSE]
PlainWal == [src |-> {}, tgt |-> 1 .. NWal, fork |-> 1, skeys |-> {}, tkeys |-> {}]

Divergences ==
    {<<h, PlainWal>> : h \in {f \in [Rels -> UNION {Histories(r) : r \in Rels}] :
                                  \A r \in Rels : f[r] \in Histories(r)}}
    \cup {<<[r \in Rels |-> PlainHistory], v>> : v \in WalHistories}

Init ==
    /\ mode \in Modes /\ cap \in Queues
    /\ mode = "local" => cap = CHOOSE q \in Queues : TRUE
    /\ \E d \in Divergences : LET h == d[1] v == d[2] IN
        /\ skeys = [r \in Rels |-> KeyOf(h[r].sk, r)]
        /\ tkeys = [r \in Rels |-> KeyOf(h[r].tk, r)]
        /\ src = Together({FilesOf(r, h[r].n, skeys[r], h[r].fk, {}) : r \in Rels})
        /\ tgt = Together({FilesOf(r, h[r].m, tkeys[r], h[r].fk, h[r].ch) : r \in Rels})
        /\ created = {r \in Rels : h[r].new}
        /\ changed = {c \in (DOMAIN tgt) \X (0 .. SegBlocks - 1) :
                         /\ IsRelFile(c[1])
                         /\ c[1][2] * SegBlocks + c[2] \in h[c[1][1]].ch}
        /\ wal = [src |-> [i \in v.src |-> v.skeys], tgt |-> [i \in v.tgt |-> v.tkeys],
                  fork |-> v.fork, skeys |-> v.skeys, tkeys |-> v.tkeys, restored |-> {}]
    /\ step = "start" /\ filemap = {} /\ tmp = [r \in Rels |-> None]
    /\ cur = NoFile /\ queue = <<>> /\ want = NoRange
    /\ fetching = FALSE /\ split = FALSE

-----------------------------------------------------------------------------
(* main().                                                                 *)

\* init_libpq_source() or init_local_source(): the source's key files are
\* copied before anything else is read.
FetchTdeKeys ==
    /\ step = "start"
    /\ tmp' = skeys /\ step' = "keys"
    /\ UNCHANGED <<mode, cap, src, skeys, created, tgt, tkeys, changed, wal,
                   filemap, cur, requests>>

\* A live source creates a relation, encrypted or not, after its keys were
\* copied ...
SourceCreates(r, k) ==
    /\ mode = "remote" /\ step = "keys"
    /\ \A p \in DOMAIN src : p[1] # r
    /\ src' = With(src, <<r, 0>>, <<Block(k, "c")>>)
    /\ skeys' = [skeys EXCEPT ![r] = k]
    /\ created' = created \cup {r}
    /\ UNCHANGED <<mode, cap, tgt, tkeys, changed, wal, step, filemap, tdeKeys,
                   requests>>

\* ... or drops one while its files are fetched.
SourceDrops(r) ==
    /\ mode = "remote" /\ step = "perform"
    /\ \E p \in DOMAIN src : p[1] = r
    /\ src' = [p \in {q \in DOMAIN src : q[1] # r} |-> src[p]]
    /\ skeys' = [skeys EXCEPT ![r] = None]
    /\ UNCHANGED <<mode, cap, created, tgt, tkeys, changed, wal, step, filemap,
                   tdeKeys, requests>>

\* findLastCheckpoint(), the listing of both directories, extractPageMap() and
\* decide_file_actions().
BuildFilemap ==
    /\ step = "keys"
    /\ filemap' = RelEntries \cup WalEntries
    /\ wal' = [wal EXCEPT
                 !.tgt = [i \in 1 .. NWal |-> IF i \in DOMAIN @ THEN @[i] ELSE wal.tkeys],
                 !.restored = RestoredWal]
    /\ step' = "perform"
    /\ UNCHANGED <<source, tgt, tdeKeys, requests>>

\* perform_rewind() goes through the file map in its order, when no request is
\* being queued.
First(e) == \A f \in filemap : e = f \/ Precedes(e, f)
Ready == step = "perform" /\ want = NoRange /\ ~fetching

\* The blocks to overwrite, one request each, in the order of the page map.
OverwritePage(e) ==
    /\ \E b \in e.left :
        /\ \A c \in e.left : b <= c
        /\ QueueFetchRange(e.path, b, 1)
        /\ filemap' = (filemap \ {e}) \cup {[e EXCEPT !.left = @ \ {b}]}
    /\ UNCHANGED <<source, wal>>

\* Whether the keys of a file are looked up at once: for one that has pages to
\* overwrite they are when the pages arrive.
Always(e) == TRUE
Untouched(e) == e.pages = {}

EnsureUntouched(e, files) ==
    /\ IF Untouched(e)
       THEN EnsureTdeKeys(e.path) /\ tgt' = EnsureFiles(files, e.path)
       ELSE tgt' = files /\ UNCHANGED <<tdeKeys, step>>
    /\ UNCHANGED <<wal, requests>>

\* The action of an entry, after its pages.
EnsureKey(e) ==
    /\ e.action = "ENSURE_TDE_KEY"
    /\ EnsureUntouched(e, tgt)

EnsureWal(e) ==
    /\ e.action = "ENSURE_WAL_SEG"
    /\ wal' = [wal EXCEPT !.tgt[e.path[2]] = EnsureWalSeg(@)]
    /\ UNCHANGED <<tgt, tdeKeys, requests, step>>

Copy(e) ==
    /\ e.action = "COPY"
    /\ QueueFetchFile(e.path, e.ssize)
    /\ UNCHANGED <<tdeKeys, step>>

\* A file that a request has found gone cannot be truncated: pg_fatal().
Truncate(e) ==
    /\ e.action = "TRUNCATE"
    /\ IF e.path \in DOMAIN tgt
       THEN EnsureUntouched(e, [tgt EXCEPT ![e.path] = SubSeq(@, 1, e.ssize)])
       ELSE step' = "crashed" /\ UNCHANGED <<tgt, tdeKeys, wal, requests>>

CopyTail(e) ==
    /\ e.action = "COPY_TAIL"
    /\ QueueFetchRange(e.path, e.tsize, e.ssize - e.tsize)
    /\ UNCHANGED wal

Remove(e) ==
    /\ e.action = "REMOVE"
    /\ IF IsWal(e.path)
       THEN wal' = [wal EXCEPT !.tgt = Without(@, e.path[2])] /\ UNCHANGED tgt
       ELSE tgt' = Without(tgt, e.path) /\ UNCHANGED wal
    /\ UNCHANGED <<tdeKeys, requests, step>>

PerformAction(e) ==
    /\ e.left = {}
    /\ \/ EnsureKey(e) \/ EnsureWal(e) \/ Copy(e) \/ Truncate(e) \/ CopyTail(e) \/ Remove(e)
    /\ filemap' = filemap \ {e}
    /\ UNCHANGED source

\* The loop of perform_rewind().
PerformEntry ==
    /\ Ready
    /\ \E e \in filemap : First(e) /\ (OverwritePage(e) \/ PerformAction(e))

\* The loop of libpq_queue_process_fetch_range() goes on.
QueueRest ==
    /\ step = "perform" /\ want # NoRange /\ ~fetching
    /\ QueueRange(want.path, want.encrypt, want.off, want.len)
    /\ UNCHANGED <<source, tgt, wal, step, filemap, tdeKeys>>

Done == Ready /\ filemap = {}

\* One row of the result of process_queued_fetch_requests(), for a full queue
\* or in finish_fetch(): a file that is gone from the source is removed.
ProcessRow ==
    /\ (step = "perform" /\ fetching) \/ Done
    /\ queue # <<>>
    /\ LET rq == Head(queue)
           gone == ~IsWal(rq.path) /\ rq.path \notin DOMAIN src IN
       \/ /\ IsWal(rq.path)
          /\ CopyWal(rq.path[2])
          /\ UNCHANGED <<tgt, tdeKeys, step>>
       \/ /\ gone
          /\ tgt' = Without(tgt, rq.path)
          /\ UNCHANGED <<wal, tdeKeys, step>>
       \/ /\ ~IsWal(rq.path) /\ ~gone /\ ~rq.encrypt
          /\ tgt' = WriteRange(tgt, rq.path, rq.off, rq.len, NoFile)
          /\ UNCHANGED <<wal, tdeKeys, step>>
       \/ /\ ~IsWal(rq.path) /\ ~gone /\ rq.encrypt
          /\ EnsureTdeKeys(rq.path)
          /\ tgt' = WriteRange(EnsureFiles(tgt, rq.path), rq.path, rq.off, rq.len, cur')
          /\ UNCHANGED wal
    /\ queue' = Tail(queue)
    /\ fetching' = (fetching /\ Len(queue) > 1)
    /\ UNCHANGED <<source, filemap, want, split>>

\* source->finish_fetch(), when every request has been processed.
FinishFetch ==
    /\ Done /\ queue = <<>>
    /\ tgt' = FlushFiles(tgt) /\ tmp' = FlushRelKey /\ cur' = NoFile
    /\ step' = "fetched"
    /\ UNCHANGED <<source, wal, filemap, requests>>

\* ensure_tde_archive_wal(): the segments restored from the archive that no
\* entry of the file map has converted.
ArchivedAll == wal.restored
Archived == wal.restored \ KeepWal
ArchiveWal ==
    wal' = [wal EXCEPT !.tgt =
               [i \in DOMAIN @ |-> IF i \in Archived THEN EnsureWalSeg(@[i]) ELSE @[i]]]

\* fetch_tde_dir(): the working copy becomes the target's key directory.
InstallKeys ==
    /\ step = "fetched"
    /\ ArchiveWal
    /\ tkeys' = tmp
    /\ step' = "installed"
    /\ UNCHANGED <<mode, cap, src, skeys, created, tgt, changed, filemap, tdeKeys, requests>>

\* The target starts and replays the source's WAL from the last common
\* checkpoint.  A relation the source created is rebuilt: it gets a key unless
\* its number has one, and all of its pages are in the WAL.  What the source
\* dropped is dropped.
Replay ==
    /\ step = "installed"
    /\ LET key(r) == IF r \notin created \/ tkeys[r] # None \/ skeys[r] = None
                     THEN tkeys[r] ELSE KeyOf("new", r)
           gone == {r \in Rels : \A p \in DOMAIN src : p[1] # r}
           rebuilt == {p \in DOMAIN src : p[1] \in created} IN
       /\ tkeys' = [r \in Rels |-> IF r \in gone THEN None ELSE key(r)]
       /\ tgt' = [p \in {q \in DOMAIN tgt : q[1] \notin gone} \cup rebuilt |->
                     IF p \in rebuilt
                     THEN [i \in DOMAIN src[p] |-> Block(key(p[1]), "c")]
                     ELSE tgt[p]]
    /\ step' = "replayed"
    /\ UNCHANGED <<mode, cap, src, skeys, created, changed, wal, filemap, tdeKeys, requests>>

Next ==
    \/ FetchTdeKeys \/ BuildFilemap \/ PerformEntry \/ QueueRest \/ ProcessRow
    \/ FinishFetch \/ InstallKeys \/ Replay
    \/ \E r \in Rels, s \in {None, "src"} : SourceCreates(r, KeyOf(s, r))
    \/ \E r \in Rels : SourceDrops(r)

Spec == Init /\ [][Next]_vars

-----------------------------------------------------------------------------
(* Properties.                                                             *)

KeysMadeBy(servers) == {None} \cup (servers \X Rels)

IsFiles(f) ==
    /\ DOMAIN f \subseteq Paths
    /\ \A p \in DOMAIN f : f[p] \in Seq([key : KeysMadeBy({"src", "tgt", "new"}) \cup {Garbled}, data : {"c", "t"}])

\* Every variable stays within its type.
TypeOK ==
    /\ mode \in Modes /\ cap \in Queues /\ split \in BOOLEAN
    /\ IsFiles(src) /\ IsFiles(tgt)
    /\ skeys \in [Rels -> KeysMadeBy({"src"})]
    /\ tmp \in [Rels -> KeysMadeBy({"src", "tgt"})]
    /\ tkeys \in [Rels -> KeysMadeBy({"src", "tgt", "new"})]
    /\ created \subseteq Rels
    /\ changed \subseteq Paths \X (0 .. SegBlocks - 1)
    /\ DOMAIN wal.src \subseteq 1 .. NWal /\ DOMAIN wal.tgt \subseteq 1 .. NWal
    /\ step \in {"start", "keys", "perform", "fetched", "installed", "replayed", "crashed"}
    /\ cur = NoFile \/ (cur.path \in Paths /\ cur.sk # None)
    /\ Len(queue) <= cap

\* A relation whose main fork is one file on both sides.
OneFile(r) ==
    \A s \in 1 .. LastSeg : <<r, s>> \notin DOMAIN src \cup DOMAIN tgt

Intact(p) ==
    /\ p \in DOMAIN tgt /\ Len(tgt[p]) = Len(src[p])
    /\ \A i \in DOMAIN tgt[p] : Reads(tkeys[p[1]], tgt[p][i]) = "c"

\* pg_rewind gives the target the source's data: when the target has replayed
\* the source's WAL, every main fork file of the source is there, whole, and
\* each of its blocks decrypts, with the key that the target's key file holds
\* for the relation, to what the source has in it.  With a local source so do
\* the free space and visibility maps, which are re-encrypted with the main
\* fork.  This is for relations of one segment, and as long as the queue of a
\* live source did not run full.
RelationsIntact ==
    step = "replayed" /\ ~split =>
        \A p \in DOMAIN src :
            /\ OneFile(p[1])
            /\ IsRelFile(p) \/ (mode = "local" /\ p[2] = FsmPart)
            => Intact(p)

\* The same without the conditions: pg_rewind.c and tde_ops.c state none.
AllRelationsIntact ==
    step = "replayed" => \A p \in DOMAIN src : IsRelFile(p) => Intact(p)

\* However the requests are cut, merged and delayed, no block of a main fork is
\* ever encrypted over ciphertext: it is under the source's or the target's
\* key, so nothing is lost that the two key files cannot recover.  (The types
\* of the variables, with the length of the queue, are part of it.)
NeverEncryptedTwice ==
    /\ TypeOK
    /\ \A p \in DOMAIN tgt : IsRelFile(p) =>
           \A i \in DOMAIN tgt[p] : tgt[p][i].key # Garbled

\* Every WAL segment left on the target is readable with the keys the target
\* now has, the source's, and those from the last common checkpoint up to the
\* fork are there, wherever each was: in pg_wal, on the source, or restored
\* from the archive before or after the directories were listed.
WalIntact ==
    step = "installed" =>
        /\ KeepWal \subseteq DOMAIN wal.tgt
        /\ \A i \in DOMAIN wal.tgt : CryptWal(wal.tgt[i], wal.skeys) = {}

=============================================================================
