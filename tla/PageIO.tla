------------------------------- MODULE PageIO -------------------------------
(***************************************************************************)
(* The storage manager's reads and writes of relation files.               *)
(*                                                                         *)
(* Every process keeps, per relation file number, an SMgrRelation with the *)
(* encryption status and the key it found when it first needed them.  That *)
(* copy is used for every later block, by processes that evict a page as   *)
(* much as by those that work on the relation, so it must never outlive    *)
(* the relation it was made for: file numbers come back, with another key  *)
(* or with none.  An asynchronous read is issued by one process and        *)
(* completed by any; the key travels in a slot of shared memory.           *)
(*                                                                         *)
(* A block on disk is the key and the tweak it was encrypted with.  What   *)
(* is in it is not modelled: a block read with the same key and tweak is   *)
(* right, with others it is garbage.                                       *)
(*                                                                         *)
(* PostgreSQL's part is external: a relation is dropped with its buffers   *)
(* gone and nobody at work on it, and before its number is used again all  *)
(* processes have closed their SMgrRelations for it.                       *)
(***************************************************************************)
EXTENDS Integers, Sequences

CONSTANTS
    Proc,        \* processes
    Rel,         \* relation file numbers
    Key,         \* relation keys that can be generated
    IO,          \* asynchronous IO handles
    MaxBlocks,   \* bound: blocks of a fork
    MaxCrashes,  \* bound: restarts
    ShortReads,  \* whether an asynchronous read may return fewer blocks than asked
    None         \* no key

ASSUME PageIOAssumption ==
    /\ None \notin Key /\ MaxBlocks \in Nat \ {0} /\ MaxCrashes \in Nat
    /\ ShortReads \in BOOLEAN

VARIABLES
    rel,       \* rel[r]: what PostgreSQL knows of the relation with number r
    file,      \* file[r]: its forks on disk
    keyfile,   \* keyfile[r]: its entry in the key file
    temp,      \* temp[p][r]: the entry in TempRelKeys of process p
    handle,    \* handle[p][r]: SMgrRelation of process p
    ctx,       \* ctx[p]: the cached cipher context of process p
    slot,      \* slot[h]: tde_io_handle_keys
    io,        \* io[h]: the read that uses handle h
    bad,       \* <<r, fork, block>> that were given to the buffer manager as garbage
    made,      \* keys generated so far
    server     \* mode of the server, restarts so far

vars == <<rel, file, keyfile, temp, handle, ctx, slot, io, bad, made, server>>

-----------------------------------------------------------------------------
(* Relations, blocks and SMgrRelations.                                    *)

Fork == {"main", "init"}
Gone == [kind |-> "gone"]
NoFile == [f \in Fork |-> <<>>]

Exists(r) == rel[r] # Gone /\ rel[r].stage # "unlinking"

\* CalcBlockIv(): the init fork has the IVs of the main fork.
TweakOfFork(f, b) == <<f, b>>
Tweak(f, b) == <<IF f = "init" THEN "main" ELSE f, b>>

\* A page on disk: written by smgrzeroextend(), or encrypted with a key and a
\* tweak (None: plain).
Zero == [key |-> "zero", tweak |-> <<>>]
Page(k, t) == [key |-> k, tweak |-> t]
Garbled == Page("garbled", <<>>)

\* A TDESMgrRelation; open says that it may hold file descriptors.
Unknown == [open |-> FALSE, status |-> "UNKNOWN", key |-> None]
Known(k) == [open |-> TRUE, key |-> k,
             status |-> IF k = None THEN "NOT_ENCRYPTED" ELSE "ENCRYPTED"]

\* tde_smgr_get_key(): keys of temporary relations are kept by their process.
GetKey(p, r) == IF rel[r].kind = "temp" THEN temp[p][r] ELSE keyfile[r]

\* tde_mdopen() and tde_smgr_resolve_encryption_status()
Resolved(p, r) ==
    IF handle[p][r].status # "UNKNOWN"
    THEN [handle[p][r] EXCEPT !.open = TRUE]
    ELSE Known(GetKey(p, r))

\* tde_mdclose()
CloseOnly(hd) == [hd EXCEPT !.open = FALSE]
Close(hd) == Unknown

-----------------------------------------------------------------------------
(* aes_ctx_prepare(): the context of a cipher is kept, and loaded again    *)
(* when the key or the direction is another.                               *)

NoCtx == [key |-> None, enc |-> FALSE]

PrepareSameKey(c, k, enc) == IF c.key = k THEN c ELSE [key |-> k, enc |-> enc]
Prepare(c, k, enc) ==
    IF c.key = k /\ c.enc = enc THEN c ELSE [key |-> k, enc |-> enc]

\* The context of process p after blocks were encrypted or decrypted with k.
Used(p, k, enc) == IF k = None THEN ctx[p] ELSE Prepare(ctx[p], k, enc)

\* tde_encrypt_smgr_block() of process p with key k.
Encrypt(p, k, f, b) ==
    IF k = None THEN Page(None, <<>>)
    ELSE LET c == Used(p, k, TRUE) IN
         IF c.enc THEN Page(c.key, Tweak(f, b)) ELSE Garbled

\* Whether tde_decrypt_smgr_block() gives the page back.  A page that begins
\* with zeros was never encrypted and is left alone.
Opens(p, k, page, f, b) ==
    \/ page = Zero
    \/ k = None /\ page = Page(None, <<>>)
    \/ /\ k # None
       /\ LET c == Used(p, k, FALSE) IN ~c.enc /\ page = Page(c.key, Tweak(f, b))

-----------------------------------------------------------------------------
Init ==
    /\ rel = [r \in Rel |-> Gone]
    /\ file = [r \in Rel |-> NoFile]
    \* In a binary upgrade the key files of the old cluster are in place.
    /\ server \in [mode : {"normal", "upgrade"}, restarts : {0}]
    /\ keyfile \in [Rel -> Key \cup {None}]
    /\ server.mode = "normal" => keyfile = [r \in Rel |-> None]
    /\ \A r, s \in Rel : keyfile[r] = keyfile[s] => r = s \/ keyfile[r] = None
    /\ made = {keyfile[r] : r \in Rel} \ {None}
    /\ temp = [p \in Proc |-> [r \in Rel |-> None]]
    /\ handle = [p \in Proc |-> [r \in Rel |-> Unknown]]
    /\ ctx = [p \in Proc |-> NoCtx]
    /\ slot = [h \in IO |-> None]
    /\ io = [h \in IO |-> None]
    /\ bad = {}

-----------------------------------------------------------------------------
(* Creating and dropping relations.                                        *)

\* The number is free for use: no file has it, and no process has it open.
Unused(r) == rel[r] = Gone /\ \A q \in Proc : ~handle[q][r].open

\* tde_smgr_create_key() and tde_smgr_delete_leftover_key(): the new relation's
\* key, or none, takes the place of what a crash left under its number.  A
\* temporary relation has its key in the hash table of its process.
Store(kind, r, k) == IF kind = "temp" THEN keyfile ELSE [keyfile EXCEPT ![r] = k]

StoreTemp(kind, p, r, k) ==
    IF kind # "temp" \/ k = None THEN temp ELSE [temp EXCEPT ![p][r] = k]

\* tde_mdcreate() of the main fork, with the key k that was generated if the
\* relation is to be encrypted.
Create(p, r, kind, k) ==
    /\ server.mode = "normal" /\ Unused(r)
    /\ rel' = [rel EXCEPT ![r] = [kind |-> kind, owner |-> p, stage |-> "open"]]
    /\ keyfile' = Store(kind, r, k)
    /\ temp' = StoreTemp(kind, p, r, k)
    /\ handle' = [handle EXCEPT ![p][r] = Known(k)]
    /\ made' = made \cup ({k} \ {None})
    /\ UNCHANGED <<file, ctx, slot, io, bad, server>>

\* In a binary upgrade tde_mdcreate() leaves the keys alone, and the file is
\* replaced by the one of the old cluster.
CreateInUpgrade(p, r) ==
    /\ server.mode = "upgrade" /\ Unused(r)
    /\ rel' = [rel EXCEPT ![r] = [kind |-> "perm", owner |-> p, stage |-> "live"]]
    /\ file' = [file EXCEPT ![r]["main"] =
                   <<Page(keyfile[r], IF keyfile[r] = None THEN <<>> ELSE Tweak("main", 0))>>]
    /\ handle' = [handle EXCEPT ![p][r].open = TRUE]
    /\ UNCHANGED <<keyfile, temp, ctx, slot, io, bad, made, server>>

Commit(r) ==
    /\ rel[r] # Gone /\ rel[r].stage = "open"
    /\ rel' = [rel EXCEPT ![r].stage = "live"]
    /\ UNCHANGED <<file, keyfile, temp, handle, ctx, slot, io, bad, made, server>>

\* smgrdounlinkall() after commit or abort: p closes the relation, and its files
\* go.  No read is in progress, and its buffers are gone.
Unlink(p, r) ==
    /\ Exists(r) /\ (rel[r].stage = "open" \/ rel[r].kind = "temp" => p = rel[r].owner)
    /\ \A h \in IO : io[h] # None => io[h].rel # r
    /\ handle' = [handle EXCEPT ![p][r] = Close(@)]
    /\ file' = [file EXCEPT ![r] = NoFile]
    /\ rel' = [rel EXCEPT ![r].stage = "unlinking", ![r].owner = p]
    /\ UNCHANGED <<keyfile, temp, ctx, slot, io, bad, made, server>>

\* tde_smgr_delete_temp_key()
FreeTempSkipped(p, r) == temp
FreeTemp(p, r) == [temp EXCEPT ![p][r] = None]

\* The rest of tde_mdunlink(): the key.
DeleteKey(r) ==
    /\ rel[r] # Gone /\ rel[r].stage = "unlinking"
    /\ IF rel[r].kind = "temp"
       THEN /\ temp' = FreeTemp(rel[r].owner, r)
            /\ UNCHANGED keyfile
       ELSE /\ keyfile' = [keyfile EXCEPT ![r] = None]
            /\ UNCHANGED temp
    /\ rel' = [rel EXCEPT ![r] = Gone]
    /\ UNCHANGED <<file, handle, ctx, slot, io, bad, made, server>>

\* DROP DATABASE: all processes release their files, and the files are removed
\* without the storage manager, whose keys stay.
DropDatabase(r) ==
    /\ Exists(r) /\ rel[r].stage = "live" /\ rel[r].kind # "temp"
    /\ \A h \in IO : io[h] # None => io[h].rel # r
    /\ rel' = [rel EXCEPT ![r] = Gone]
    /\ file' = [file EXCEPT ![r] = NoFile]
    /\ handle' = [p \in Proc |-> [handle[p] EXCEPT ![r] = Close(@)]]
    /\ UNCHANGED <<keyfile, temp, ctx, slot, io, bad, made, server>>

\* An invalidation, the end of a transaction, smgrreleaseall().
Release(p, r) ==
    /\ handle[p][r].open
    /\ handle' = [handle EXCEPT ![p][r] = Close(@)]
    /\ UNCHANGED <<rel, file, keyfile, temp, ctx, slot, io, bad, made, server>>

\* The server stops or crashes and starts again.  Relations of open transactions
\* and files being removed are gone, their keys are not; unlogged relations are
\* reset: the init fork is copied over the main fork.
Restart ==
    /\ server.restarts < MaxCrashes
    /\ LET kept(r) == rel[r] # Gone /\ rel[r].kind # "temp" /\ rel[r].stage = "live" IN
       /\ rel' = [r \in Rel |-> IF kept(r) THEN rel[r] ELSE Gone]
       /\ file' = [r \in Rel |->
                     IF ~kept(r) THEN NoFile
                     ELSE IF rel[r].kind = "unlogged"
                     THEN [file[r] EXCEPT !["main"] = file[r]["init"]]
                     ELSE file[r]]
    /\ temp' = [p \in Proc |-> [r \in Rel |-> None]]
    /\ handle' = [p \in Proc |-> [r \in Rel |-> Unknown]]
    /\ ctx' = [p \in Proc |-> NoCtx]
    /\ slot' = [h \in IO |-> None]
    /\ io' = [h \in IO |-> None]
    /\ server' = [mode |-> "normal", restarts |-> server.restarts + 1]
    /\ UNCHANGED <<keyfile, bad, made>>

-----------------------------------------------------------------------------
(* Reading and writing.                                                    *)

\* Process p may work on fork f of relation r.  Any process may write a page:
\* the one that needs its buffer.
Accessible(p, r, f) ==
    /\ Exists(r)
    /\ rel[r].kind = "temp" => p = rel[r].owner
    /\ f = "init" => rel[r].kind = "unlogged"

InRead(r, f, b) ==
    \E h \in IO : io[h] # None /\ io[h].rel = r /\ io[h].fork = f
                  /\ b \in io[h].first .. io[h].first + io[h].n - 1

\* tde_mdextend()
Extend(p, r, f) ==
    LET hd == Resolved(p, r)
        b == Len(file[r][f]) IN
    /\ Accessible(p, r, f) /\ b < MaxBlocks
    /\ file' = [file EXCEPT ![r][f] = Append(@, Encrypt(p, hd.key, f, b))]
    /\ handle' = [handle EXCEPT ![p][r] = hd]
    /\ ctx' = [ctx EXCEPT ![p] = Used(p, hd.key, TRUE)]
    /\ UNCHANGED <<rel, keyfile, temp, slot, io, bad, made, server>>

\* mdzeroextend(): zeros are not encrypted.
ZeroExtend(p, r) ==
    /\ Accessible(p, r, "main") /\ Len(file[r]["main"]) < MaxBlocks
    /\ file' = [file EXCEPT ![r]["main"] = Append(@, Zero)]
    /\ UNCHANGED <<rel, keyfile, temp, handle, ctx, slot, io, bad, made, server>>

\* tde_mdwritev() of n blocks from block b.
Writev(p, r, f, b, n) ==
    LET hd == Resolved(p, r) IN
    /\ Accessible(p, r, f) /\ b + n <= Len(file[r][f])
    /\ \A i \in b .. b + n - 1 : ~InRead(r, f, i)
    /\ file' = [file EXCEPT ![r][f] =
                   [i \in DOMAIN @ |-> IF i - 1 \in b .. b + n - 1
                                       THEN Encrypt(p, hd.key, f, i - 1) ELSE @[i]]]
    /\ handle' = [handle EXCEPT ![p][r] = hd]
    /\ ctx' = [ctx EXCEPT ![p] = Used(p, hd.key, TRUE)]
    /\ UNCHANGED <<rel, keyfile, temp, slot, io, bad, made, server>>

\* The blocks of a read that process p does not get right with key k.
Misread(p, k, r, f, b, n) ==
    {<<r, f, i>> : i \in {j \in b .. b + n - 1 : ~Opens(p, k, file[r][f][j + 1], f, j)}}

\* tde_mdreadv()
Readv(p, r, f, b, n) ==
    LET hd == Resolved(p, r) IN
    /\ Accessible(p, r, f) /\ b + n <= Len(file[r][f])
    /\ bad' = bad \cup Misread(p, hd.key, r, f, b, n)
    /\ handle' = [handle EXCEPT ![p][r] = hd]
    /\ ctx' = [ctx EXCEPT ![p] = Used(p, hd.key, FALSE)]
    /\ UNCHANGED <<rel, file, keyfile, temp, slot, io, made, server>>

\* tde_mdstartreadv(): the key is put into the slot of the IO handle.  When
\* mdstartreadv() then fails to open the file, the slot keeps it.
StartReadv(p, h, r, f, b, n, opened) ==
    LET hd == Resolved(p, r) IN
    /\ io[h] = None
    /\ Accessible(p, r, f) /\ b + n <= Len(file[r][f])
    /\ \A i \in b .. b + n - 1 : ~InRead(r, f, i)
    /\ handle' = [handle EXCEPT ![p][r] = hd]
    /\ slot' = IF hd.key = None THEN slot ELSE [slot EXCEPT ![h] = hd.key]
    /\ io' = IF opened
             THEN [io EXCEPT ![h] = [rel |-> r, fork |-> f, first |-> b, n |-> n,
                                     decrypt |-> hd.key # None]]
             ELSE io
    /\ UNCHANGED <<rel, file, keyfile, temp, ctx, bad, made, server>>

\* The read ends with result blocks read, in any process.  tde_readv_complete()
\* decrypts them with the key in the slot, unless the read was short, and wipes
\* the slot.  The buffer manager then takes the blocks that were read.
Complete(p, h, result) ==
    /\ io[h] # None
    /\ LET d == io[h]
           k == IF d.decrypt /\ result = d.n THEN slot[h] ELSE None IN
       /\ result = d.n \/ result = 0 \/ (ShortReads /\ result < d.n)
       /\ bad' = bad \cup Misread(p, k, d.rel, d.fork, d.first, result)
       /\ ctx' = [ctx EXCEPT ![p] = Used(p, k, FALSE)]
       /\ slot' = IF d.decrypt THEN [slot EXCEPT ![h] = None] ELSE slot
       /\ io' = [io EXCEPT ![h] = None]
    /\ UNCHANGED <<rel, file, keyfile, temp, handle, made, server>>

Next ==
    \/ \E p \in Proc, r \in Rel :
        \/ \E kind \in {"perm", "unlogged", "temp"}, k \in (Key \ made) \cup {None} :
               Create(p, r, kind, k)
        \/ CreateInUpgrade(p, r) \/ Unlink(p, r) \/ Release(p, r) \/ ZeroExtend(p, r)
        \/ \E f \in Fork :
            \/ Extend(p, r, f)
            \/ \E b \in 0 .. MaxBlocks - 1, n \in 1 .. MaxBlocks :
                \/ Writev(p, r, f, b, n)
                \/ Readv(p, r, f, b, n)
                \/ \E h \in IO, opened \in BOOLEAN : StartReadv(p, h, r, f, b, n, opened)
    \/ \E r \in Rel : Commit(r) \/ DeleteKey(r) \/ DropDatabase(r)
    \/ \E p \in Proc, h \in IO, result \in 0 .. MaxBlocks : Complete(p, h, result)
    \/ Restart

Spec == Init /\ [][Next]_vars

-----------------------------------------------------------------------------
(* Properties.                                                             *)

Keys == Key \cup {None}

\* Every variable stays within its type.
TypeOK ==
    /\ rel \in [Rel -> {Gone} \cup [kind : {"perm", "unlogged", "temp"}, owner : Proc,
                                    stage : {"open", "live", "unlinking"}]]
    /\ \A r \in Rel, f \in Fork : Len(file[r][f]) <= MaxBlocks
    /\ keyfile \in [Rel -> Keys] /\ temp \in [Proc -> [Rel -> Keys]]
    /\ handle \in [Proc -> [Rel ->
           [open : BOOLEAN, status : {"UNKNOWN", "NOT_ENCRYPTED"}, key : {None}]
           \cup [open : BOOLEAN, status : {"ENCRYPTED"}, key : Key]]]
    /\ ctx \in [Proc -> [key : Keys, enc : BOOLEAN]]
    /\ slot \in [IO -> Keys] /\ made \subseteq Key
    /\ \A h \in IO : io[h] # None => io[h].rel \in Rel /\ io[h].fork \in Fork

\* What a process that opens the relation anew finds.
StoredKey(r) == IF rel[r].kind = "temp" THEN temp[rel[r].owner][r] ELSE keyfile[r]

\* Every block of a relation, whoever wrote it and however often the server
\* started since, is zeros or is encrypted with the key that is stored for the
\* relation and for the place it will be read from: after a restart, which
\* forgets every SMgrRelation and copies init forks, it can still be read.
StoredKeyOpens ==
    \A r \in Rel : Exists(r) =>
        \A f \in Fork : \A i \in DOMAIN file[r][f] :
            file[r][f][i] \in {Zero,
                IF StoredKey(r) = None THEN Page(None, <<>>)
                ELSE Page(StoredKey(r), Tweak(f, i - 1))}

\* What a process has found out about a relation is what is stored for it: no
\* SMgrRelation keeps the key of an earlier relation with the same number, and
\* (by its type) none keeps a key it does not know to be the relation's.
HandlesCurrent ==
    /\ TypeOK
    /\ \A p \in Proc, r \in Rel : Exists(r) /\ handle[p][r].status # "UNKNOWN" =>
           /\ rel[r].kind = "temp" => p = rel[r].owner
           /\ handle[p][r].key = StoredKey(r)

\* No block is given to the buffer manager other than decrypted, by direct reads
\* and by asynchronous ones completed in whatever process, in whatever order.
ReadsRight == bad = {}

\* A key in the hash table of temporary keys belongs to a temporary relation of
\* that process: the Assert in tde_smgr_save_temp_key() holds.
TempKeysOwned ==
    \A p \in Proc, r \in Rel : temp[p][r] # None =>
        rel[r] # Gone /\ rel[r].kind = "temp" /\ rel[r].owner = p

=============================================================================
