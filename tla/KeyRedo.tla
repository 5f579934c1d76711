------------------------------- MODULE KeyRedo -------------------------------
(***************************************************************************)
(* Replay of the key records, on a standby and in the crash recovery of    *)
(* the primary.  The standby is there from the start, or is made by a      *)
(* base backup of the running primary, file by file.  One                  *)
(* database and the default key have key files; a key file is its header   *)
(* and, per relation, the principal key that wraps the relation's key.     *)
(*                                                                         *)
(* Key files are changed and fsynced at once, not through WAL; the records *)
(* reach disk when WAL is flushed.  A crash loses the records that were    *)
(* not flushed but none of the changes, and recovery replays records whose *)
(* changes are on disk already.                                            *)
(*                                                                         *)
(* Locks and the order of steps within one server are KeyMap's subject:    *)
(* here an operation of the primary is its change of the files and its     *)
(* record, in that order or the other.  A relation's pages written since   *)
(* the last checkpoint are replayed with it, so a key generated again for  *)
(* it does no harm and key material is left out.                           *)
(***************************************************************************)
EXTENDS Naturals, Sequences

CONSTANTS
    Primary, Standby,
    Db, Default,     \* the database, and DEFAULT_DATA_TDE_OID
    Rel,             \* relations of the database
    PKey,            \* principal keys
    Prov,            \* key providers
    DbProv,          \* those that are in the database's own provider file
    ProvOf,          \* ProvOf[k]: the provider that has key k
    Scenarios,       \* what a behaviour may include: see env
    MaxLog,          \* bound: records written
    None

ASSUME KeyRedoAssumption ==
    /\ Primary # Standby /\ Db # Default
    /\ DbProv \subseteq Prov /\ ProvOf \in [PKey -> Prov]
    /\ Scenarios \subseteq [crash : SUBSET {Primary, Standby},
                            replay : SUBSET {Primary, Standby},
                            default : SUBSET PKey,
                            delete : SUBSET {Db, Default}, remove : SUBSET Prov,
                            backup : {"none", "between", "any"},
                            install : {"none", "committed", "any"}]
    /\ MaxLog \in Nat
    /\ None \notin PKey \cup Rel \cup Prov \cup {Db, Default}

VARIABLES
    log,      \* records inserted by the primary
    flushed,  \* how many of them are on disk, and so sent to the standby
    ckpt,     \* ckpt[n]: records before the redo point of server n
    at,       \* at[n]: records replayed by server n
    mode,     \* mode[n]: "up", "redo" or "failed"; of a standby still to be made, "none"
              \* or, when its backup is in progress, "backup"
    left,     \* the files which the backup has still to copy
    hdr,      \* hdr[n][o]: header of a key file, or None
    ents,     \* ents[n][r]: the key wrapping the entry of r, or None
    cache,    \* cache[n][o]: cached principal key, or None
    provs,    \* provs[n]: providers in the provider file
    live,     \* committed relations
    open,     \* relations created but not committed
    pend,     \* a record whose second half, file or log, is still to come
    env       \* the servers that may crash and those that replay the log (without
              \* Standby there is none), the keys that may be the default, the files
              \* whose key and the providers that may be deleted, whether the standby is
              \* made by a backup and may that begin within a key change, whether the
              \* extension is dropped and installed anew and may that be rolled back, as
              \* chosen for this behaviour

vars == <<log, flushed, ckpt, at, mode, left, hdr, ents, cache, provs, live, open, pend, env>>

Server == {Primary, Standby}

Oid == {Db, Default}

\* What a backup copies: the key files and the provider file.
Files == Oid \cup {"providers"}

-----------------------------------------------------------------------------
(* Types.                                                                  *)

Ops == {"add", "rotate", "delete", "create", "drop", "leftover", "provider",
        "addprovider", "install"}

Rec(op, o, k, r, v) == [op |-> op, oid |-> o, key |-> k, rel |-> r, prov |-> v]

Recs ==
    [op : Ops, oid : Oid \cup {None}, key : PKey \cup {None},
     rel : Rel \cup {None}, prov : Prov \cup {None}]

ASSUME NoneIsNoRecord == None \notin Recs

\* Every variable has its type.
TypeOK ==
    /\ log \in Seq(Recs)
    /\ flushed \in 0 .. Len(log)
    /\ ckpt \in [Server -> 0 .. Len(log)]
    /\ at \in [Server -> 0 .. Len(log)]
    /\ mode \in [Server -> {"up", "redo", "failed", "none", "backup"}]
    /\ left \subseteq Files
    /\ hdr \in [Server -> [Oid -> PKey \cup {None}]]
    /\ ents \in [Server -> [Rel -> PKey \cup {None}]]
    /\ cache \in [Server -> [Oid -> PKey \cup {None}]]
    /\ provs \in [Server -> SUBSET Prov]
    /\ live \subseteq Rel
    /\ open \subseteq Rel
    /\ pend \in Recs \cup {None}
    /\ env \in Scenarios

Init ==
    /\ log = << >>
    /\ flushed = 0
    /\ ckpt = [n \in Server |-> 0]
    /\ at = [n \in Server |-> 0]
    /\ hdr = [n \in Server |-> [o \in Oid |-> None]]
    /\ ents = [n \in Server |-> [r \in Rel |-> None]]
    /\ cache = [n \in Server |-> [o \in Oid |-> None]]
    /\ provs = [n \in Server |-> Prov]
    /\ live = {}
    /\ open = {}
    /\ pend = None
    /\ left = {}
    /\ env \in Scenarios
    /\ mode = [n \in Server |-> IF n = Primary THEN "up"
                               ELSE IF env.backup = "none" THEN "redo" ELSE "none"]

-----------------------------------------------------------------------------
(* Principal keys on server n.                                             *)

\* GetPrincipalKeyNoDefault: from the cache, else from header and provider.
Key(n, o) == IF cache[n][o] # None THEN cache[n][o] ELSE hdr[n][o]

CanLoad(n, o) ==
    cache[n][o] = None /\ hdr[n][o] # None => ProvOf[hdr[n][o]] \in provs[n]

\* GetPrincipalKey of the database: with fallback to the default key.
Effective(n) == IF Key(n, Db) # None THEN Key(n, Db) ELSE Key(n, Default)

CanLoadEffective(n) ==
    CanLoad(n, Db) /\ (Key(n, Db) = None => CanLoad(n, Default))

NoEntriesUncounted(n) == TRUE
NoEntries(n) == \A r \in Rel : ents[n][r] = None

\* open_pg_tde_save_smgr_key: the principal key is got, and cached; a file
\* without a header gets one; the entry is written unless it is to be kept.
SaveSmgrKey(n, r, replace) ==
    LET k == Effective(n) IN
    /\ cache' = [cache EXCEPT ![n] =
                    [o \in Oid |-> IF o = Db THEN k
                                   ELSE IF Key(n, Db) = None THEN Key(n, Default)
                                   ELSE cache[n][o]]]
    /\ hdr' = [hdr EXCEPT ![n][Db] = IF @ = None THEN k ELSE @]
    /\ ents' = [ents EXCEPT ![n][r] = IF replace \/ @ = None THEN k ELSE @]

\* open_pg_tde_perform_rotate_key and the cache update after it.
Openable(n, o) == o = Db => \A r \in Rel : ents[n][r] \in {None, Key(n, Db)}

RotateFileNotEntries(n, o, k) ==
    /\ hdr' = [hdr EXCEPT ![n][o] = k]
    /\ cache' = [cache EXCEPT ![n][o] = k]
    /\ UNCHANGED ents
RotateFile(n, o, k) ==
    /\ hdr' = [hdr EXCEPT ![n][o] = k]
    /\ ents' = IF o = Db
               THEN [ents EXCEPT ![n] = [r \in Rel |-> IF @[r] = None THEN None ELSE k]]
               ELSE ents
    /\ cache' = [cache EXCEPT ![n][o] = k]

\* Unlinking a key file.
Unlink(n, o) ==
    /\ hdr' = [hdr EXCEPT ![n][o] = None]
    /\ ents' = IF o = Db THEN [ents EXCEPT ![n] = [r \in Rel |-> None]] ELSE ents

-----------------------------------------------------------------------------
(* The primary.                                                            *)

Running == mode[Primary] = "up" /\ Len(log) < MaxLog

Settable(o) == IF o = Default THEN env.default ELSE PKey

\* The first principal key: the record comes before the file.  Moving the
\* database to a new default key is SetKey or RotateKey too.
SetKey(o, k) ==
    /\ Running /\ pend = None
    /\ k \in Settable(o) /\ ProvOf[k] \in provs[Primary]
    /\ Key(Primary, o) = None
    /\ log' = Append(log, Rec("add", o, k, None, None))
    /\ pend' = Rec("add", o, k, None, None)
    /\ UNCHANGED <<flushed, ckpt, at, mode, hdr, ents, cache, provs, live, open, left, env>>

WriteHeader ==
    /\ pend # None /\ pend.op = "add"
    /\ hdr' = [hdr EXCEPT ![Primary][pend.oid] = pend.key]
    /\ ents' = IF pend.oid = Db
               THEN [ents EXCEPT ![Primary] = [r \in Rel |-> None]] ELSE ents
    /\ cache' = [cache EXCEPT ![Primary][pend.oid] = pend.key]
    /\ pend' = None
    /\ UNCHANGED <<log, flushed, ckpt, at, mode, provs, live, open, left, env>>

\* A rotation: the file comes before the record.
RotateKey(o, k) ==
    /\ Running /\ pend = None
    /\ k \in Settable(o) /\ ProvOf[k] \in provs[Primary]
    /\ Key(Primary, o) # None /\ CanLoad(Primary, o) /\ Openable(Primary, o)
    /\ RotateFile(Primary, o, k)
    /\ pend' = Rec("rotate", o, k, None, None)
    /\ UNCHANGED <<log, flushed, ckpt, at, mode, provs, live, open, left, env>>

LogRotate ==
    /\ pend # None /\ pend.op = "rotate"
    /\ log' = Append(log, pend)
    /\ pend' = None
    /\ UNCHANGED <<flushed, ckpt, at, mode, hdr, ents, cache, provs, live, open, left, env>>

\* Deleting a principal key: the record comes before the file.  The default
\* key goes only when the database does not use it.
DeleteKey(o) ==
    /\ Running /\ pend = None
    /\ o \in env.delete
    /\ Key(Primary, o) # None /\ CanLoad(Primary, o)
    /\ o = Db => NoEntries(Primary)
    /\ o = Default => Key(Primary, Db) # Key(Primary, Default)
    /\ log' = Append(log, Rec("delete", o, None, None, None))
    /\ pend' = Rec("delete", o, None, None, None)
    /\ UNCHANGED <<flushed, ckpt, at, mode, hdr, ents, cache, provs, live, open, left, env>>

UnlinkFile ==
    /\ pend # None /\ pend.op = "delete"
    /\ Unlink(Primary, pend.oid)
    /\ cache' = [cache EXCEPT ![Primary][pend.oid] = None]
    /\ pend' = None
    /\ UNCHANGED <<log, flushed, ckpt, at, mode, provs, live, open, left, env>>

\* tde_smgr_create_key: the entry is written; the lock is then released.
CreateRel(r) ==
    /\ Running /\ pend = None
    /\ r \notin live \cup open
    /\ CanLoadEffective(Primary) /\ Effective(Primary) # None
    /\ SaveSmgrKey(Primary, r, TRUE)
    /\ open' = open \cup {r}
    /\ UNCHANGED <<log, flushed, ckpt, at, mode, provs, live, pend, left, env>>

\* The record is inserted and the transaction commits, which flushes WAL.
CommitRel(r) ==
    /\ Running
    /\ r \in open
    /\ log' = Append(log, Rec("create", None, None, r, None))
    /\ flushed' = Len(log) + 1
    /\ live' = live \cup {r}
    /\ open' = open \ {r}
    /\ UNCHANGED <<ckpt, at, mode, hdr, ents, cache, provs, pend, left, env>>

\* PostgreSQL's commit record of a drop, or its abort record of a creation,
\* names the storage; the storage is unlinked after it, and the entry freed.  An
\* aborted creation has had its record inserted.
DropRel(r) ==
    /\ Running /\ pend = None
    /\ r \in live \cup open
    /\ log' = log \o (IF r \in open THEN <<Rec("create", None, None, r, None)>> ELSE << >>)
                  \o <<Rec("drop", None, None, r, None)>>
    /\ Len(log') <= MaxLog
    /\ flushed' = Len(log')
    /\ live' = live \ {r}
    /\ open' = open \ {r}
    /\ pend' = Rec("drop", None, None, r, None)
    /\ UNCHANGED <<ckpt, at, mode, hdr, ents, cache, provs, left, env>>

FreeEntry ==
    /\ pend # None /\ pend.op = "drop"
    /\ ents' = [ents EXCEPT ![Primary][pend.rel] = None]
    /\ pend' = None
    /\ UNCHANGED <<log, flushed, ckpt, at, mode, hdr, cache, provs, live, open, left, env>>

\* tde_smgr_delete_leftover_key: an unencrypted relation takes the number of
\* one a crash left an entry of.
CreatePlain(r) ==
    /\ Running /\ pend = None
    /\ r \notin live \cup open
    /\ ents' = [ents EXCEPT ![Primary][r] = None]
    /\ log' = Append(log, Rec("leftover", None, None, r, None))
    /\ UNCHANGED <<flushed, ckpt, at, mode, hdr, cache, provs, live, open, pend, left, env>>

\* A provider that no key file uses is deleted.
DeleteProvider(v) ==
    /\ Running
    /\ v \in provs[Primary] \cap env.remove
    /\ pend = None
    /\ \A o \in Oid : Key(Primary, o) # None => ProvOf[Key(Primary, o)] # v
    /\ log' = Append(log, Rec("provider", None, None, None, v))
    /\ provs' = [provs EXCEPT ![Primary] = @ \ {v}]
    /\ UNCHANGED <<flushed, ckpt, at, mode, hdr, ents, cache, live, open, pend, left, env>>

\* A provider is added to the database's file, which an installation has removed;
\* the ids in it start again.
AddProvider(v) ==
    /\ Running /\ pend = None
    /\ env.install # "none" /\ v \in DbProv \ provs[Primary]
    /\ log' = Append(log, Rec("addprovider", None, None, None, v))
    /\ provs' = [provs EXCEPT ![Primary] = @ \cup {v}]
    /\ UNCHANGED <<flushed, ckpt, at, mode, hdr, ents, cache, live, open, pend, left, env>>

\* open_pg_tde_extension_initialize: CREATE EXTENSION, after a DROP EXTENSION that
\* took the relations with it, removes what the database had; its provider file,
\* then its key file, and inserts a record.  Where the two are one transaction,
\* relations come back if it is rolled back.
Install ==
    /\ Running /\ pend = None
    /\ env.install # "none" /\ open = {}
    /\ env.install = "committed" => live = {}
    /\ provs' = [provs EXCEPT ![Primary] = @ \ DbProv]
    /\ pend' = Rec("install", Db, None, None, None)
    /\ UNCHANGED <<log, flushed, ckpt, at, mode, hdr, ents, cache, live, open, left, env>>

ClearKey(n, o) == cache' = [cache EXCEPT ![n][o] = None]

CleanUp ==
    /\ pend # None /\ pend.op = "install"
    /\ ClearKey(Primary, pend.oid)
    /\ Unlink(Primary, pend.oid)
    /\ log' = Append(log, pend)
    /\ pend' = None
    /\ UNCHANGED <<flushed, ckpt, at, mode, provs, live, open, left, env>>

Flush ==
    /\ mode[Primary] = "up" /\ flushed < Len(log)
    /\ flushed' = Len(log)
    /\ UNCHANGED <<log, ckpt, at, mode, hdr, ents, cache, provs, live, open, pend, left, env>>

-----------------------------------------------------------------------------
(* Replay.                                                                 *)

\* The records server n may replay.
Limit(n) == IF n = Primary THEN Len(log) ELSE flushed

\* open_pg_tde_save_principal_key_redo: a file that has a header keeps it.
RedoAdd(n, rec) ==
    /\ hdr' = [hdr EXCEPT ![n][rec.oid] = IF @ = None THEN rec.key ELSE @]
    /\ UNCHANGED <<ents, cache, provs>>

\* open_pg_tde_delete_principal_key_redo: the file goes, the cache stays.
RedoDelete(n, rec) == Unlink(n, rec.oid) /\ UNCHANGED <<cache, provs>>

\* xl_tde_perform_rotate_key
CanRotate(n, rec) ==
    /\ CanLoad(n, rec.oid) /\ Key(n, rec.oid) # None
    /\ ProvOf[rec.key] \in provs[n]
    /\ Openable(n, rec.oid)

RedoRotateUnseen(n, rec) == UNCHANGED <<hdr, ents, cache, provs>>
RedoRotate(n, rec) == RotateFile(n, rec.oid, rec.key) /\ UNCHANGED provs

\* tde_smgr_create_key_redo: an entry that is there is kept.
CanCreate(n) == CanLoadEffective(n) /\ Effective(n) # None

RedoCreate(n, rec) == SaveSmgrKey(n, rec.rel, FALSE) /\ UNCHANGED provs

\* The storage is unlinked, or was found unencrypted, and the entry is freed.
RedoDrop(n, rec) ==
    /\ ents' = [ents EXCEPT ![n][rec.rel] = None]
    /\ UNCHANGED <<hdr, cache, provs>>

RedoProvider(n, rec) ==
    /\ provs' = [provs EXCEPT ![n] = @ \ {rec.prov}]
    /\ UNCHANGED <<hdr, ents, cache>>

RedoAddProvider(n, rec) ==
    /\ provs' = [provs EXCEPT ![n] = @ \cup {rec.prov}]
    /\ UNCHANGED <<hdr, ents, cache>>

\* extension_install_redo
RedoInstall(n, rec) ==
    /\ provs' = [provs EXCEPT ![n] = @ \ DbProv]
    /\ ClearKey(n, rec.oid)
    /\ Unlink(n, rec.oid)

Replaying(n) == n \in env.replay /\ mode[n] = "redo" /\ at[n] < Limit(n)

\* tdeheap_rmgr_redo
Redo(n) ==
    LET rec == log[at[n] + 1] IN
    /\ Replaying(n)
    /\ \/ rec.op = "add" /\ RedoAdd(n, rec)
       \/ rec.op = "delete" /\ RedoDelete(n, rec)
       \/ rec.op = "rotate" /\ CanRotate(n, rec) /\ RedoRotate(n, rec)
       \/ rec.op = "create" /\ CanCreate(n) /\ RedoCreate(n, rec)
       \/ rec.op \in {"drop", "leftover"} /\ RedoDrop(n, rec)
       \/ rec.op = "provider" /\ RedoProvider(n, rec)
       \/ rec.op = "addprovider" /\ RedoAddProvider(n, rec)
       \/ rec.op = "install" /\ RedoInstall(n, rec)
    /\ at' = [at EXCEPT ![n] = @ + 1]
    /\ UNCHANGED <<log, flushed, ckpt, mode, live, open, pend, left, env>>

\* An ERROR in redo, or a null keyring, ends the startup process and with it
\* the server; the record is met again at every start.
RedoFails(n) ==
    LET rec == log[at[n] + 1] IN
    /\ Replaying(n)
    /\ \/ rec.op = "rotate" /\ ~CanRotate(n, rec)
       \/ rec.op = "create" /\ ~CanCreate(n)
    /\ mode' = [mode EXCEPT ![n] = "failed"]
    /\ UNCHANGED <<log, flushed, ckpt, at, hdr, ents, cache, provs, live, open, pend, left, env>>

-----------------------------------------------------------------------------
(* Checkpoints and crashes.                                                *)

\* A checkpoint of the primary, a restartpoint of the standby.
Checkpoint(n) ==
    /\ n \in env.crash
    /\ \/ /\ n = Primary /\ mode[n] = "up"
          /\ ckpt' = [ckpt EXCEPT ![n] = Len(log)]
          /\ flushed' = Len(log)
       \/ /\ n = Standby /\ mode[n] = "redo"
          /\ ckpt' = [ckpt EXCEPT ![n] = at[n]]
          /\ UNCHANGED flushed
    /\ UNCHANGED <<log, at, mode, hdr, ents, cache, provs, live, open, pend, left, env>>

\* The primary loses the records that were not flushed.
Crash(n) ==
    /\ n \in env.crash
    /\ mode[n] \in {"up", "redo"}
    /\ mode[Standby] # "backup"
    /\ cache' = [cache EXCEPT ![n] = [o \in Oid |-> None]]
    /\ at' = [at EXCEPT ![n] = ckpt[n]]
    /\ mode' = [mode EXCEPT ![n] = "redo"]
    /\ \/ /\ n = Primary
          /\ log' = SubSeq(log, 1, flushed)
          /\ open' = {}
          /\ pend' = None
       \/ n = Standby /\ UNCHANGED <<log, open, pend>>
    /\ UNCHANGED <<flushed, ckpt, hdr, ents, provs, live, left, env>>

EndRecovery ==
    /\ mode[Primary] = "redo" /\ at[Primary] = Len(log)
    /\ mode' = [mode EXCEPT ![Primary] = "up"]
    /\ UNCHANGED <<log, flushed, ckpt, at, hdr, ents, cache, provs, live, open, pend, left, env>>

-----------------------------------------------------------------------------
(* A base backup of the primary, from which the standby starts.            *)

\* BaseBackup(): the backup begins with a checkpoint.  Its redo point may fall
\* between a record and the change of the file that belongs to it.
StartBackup ==
    /\ mode[Standby] = "none" /\ mode[Primary] = "up"
    /\ env.backup = "between" => pend = None
    /\ mode' = [mode EXCEPT ![Standby] = "backup"]
    /\ ckpt' = [ckpt EXCEPT ![Standby] = Len(log)]
    /\ at' = [at EXCEPT ![Standby] = Len(log)]
    /\ flushed' = Len(log)
    /\ left' = Files
    /\ UNCHANGED <<log, hdr, ents, cache, provs, live, open, pend, env>>

\* ReceiveArchiveStream(): the files come one by one, in any order, each as it is
\* when the primary reads it.
ReceiveFile(f) ==
    /\ f \in left
    /\ left' = left \ {f}
    /\ hdr' = IF f \in Oid THEN [hdr EXCEPT ![Standby][f] = hdr[Primary][f]] ELSE hdr
    /\ ents' = IF f = Db THEN [ents EXCEPT ![Standby] = ents[Primary]] ELSE ents
    /\ provs' = IF f = "providers" THEN [provs EXCEPT ![Standby] = provs[Primary]] ELSE provs
    /\ UNCHANGED <<log, flushed, ckpt, at, mode, cache, live, open, pend, env>>

\* The end of the backup waits for its WAL; the standby is then started.
EndBackup ==
    /\ mode[Standby] = "backup" /\ left = {}
    /\ mode' = [mode EXCEPT ![Standby] = "redo"]
    /\ flushed' = Len(log)
    /\ UNCHANGED <<log, ckpt, at, left, hdr, ents, cache, provs, live, open, pend, env>>

Next ==
    \/ \E o \in Oid, k \in PKey : SetKey(o, k) \/ RotateKey(o, k)
    \/ WriteHeader \/ LogRotate \/ UnlinkFile \/ FreeEntry
    \/ \E o \in Oid : DeleteKey(o)
    \/ \E r \in Rel : CreateRel(r) \/ CommitRel(r) \/ DropRel(r) \/ CreatePlain(r)
    \/ \E v \in Prov : DeleteProvider(v) \/ AddProvider(v)
    \/ Install \/ CleanUp
    \/ Flush
    \/ \E n \in Server : Redo(n) \/ RedoFails(n) \/ Checkpoint(n) \/ Crash(n)
    \/ EndRecovery
    \/ StartBackup \/ EndBackup
    \/ \E f \in Files : ReceiveFile(f)

Spec == Init /\ [][Next]_vars

-----------------------------------------------------------------------------
(* Safety.                                                                 *)

\* Every relation key of a server is wrapped with the principal key the header
\* names, which is the one the server will load after its next start; as long
\* as no principal key is deleted.
EntriesUnderHeader ==
    /\ TypeOK
    /\ env.delete = {} => \A n \in Server, r \in Rel : ents[n][r] \in {None, hdr[n][Db]}

\* Replaying records whose changes are on disk already, in whole or in part,
\* costs no committed relation its key: not even the deletion of a key file
\* that has been created anew.
RecoveryKeepsKeys ==
    mode[Primary] = "up" => \A r \in live : ents[Primary][r] # None

\* Replay never stops at a key record, as long as neither a principal key nor a
\* provider is deleted and the extension is not installed again: neither in the crash recovery of the primary nor, with a
\* primary that does not crash and without a default key, on a standby; that was
\* there from the start or comes from a backup during which keys were set and
\* rotated.
ReplayGoesOn ==
    env.delete = {} /\ env.remove = {} /\ env.install = "none" =>
        /\ mode[Primary] # "failed"
        /\ Primary \notin env.crash /\ env.default = {} => mode[Standby] # "failed"

\* A standby, however made and however often restarted, that has replayed all there is has the
\* headers of a primary that has not crashed, and an entry for every committed
\* relation and for no other; where there is no default key, whose copy into a
\* database's file is not logged.
StandbyFollows ==
    /\ at[Standby] = Len(log) /\ flushed = Len(log)
    /\ pend = None /\ open = {} /\ mode[Primary] = "up" /\ mode[Standby] = "redo"
    /\ Primary \notin env.crash /\ env.default = {}
    => /\ hdr[Standby] = hdr[Primary]
       /\ \A r \in Rel : ents[Standby][r] # None <=> r \in live

-----------------------------------------------------------------------------
(* What documentation and comments say, and the model refutes.             *)

\* encryption-architecture.md: every internal key of a database is encrypted with
\* its principal key; here, the one its key file names.
PrimaryEntriesUnderHeader ==
    \A r \in Rel : ents[Primary][r] \in {None, hdr[Primary][Db]}

\* The comment in xl_tde_perform_rotate_key, that it should not happen that there
\* is no current principal key to rotate: in the crash recovery of the primary.
RecoveryRotateHasKey ==
    Replaying(Primary) /\ log[at[Primary] + 1].op = "rotate" =>
        Key(Primary, log[at[Primary] + 1].oid) # None

\* functions.md: a principal key can be deleted when no relation needs it.  That the
\* creation of one, dropped since, is still to be replayed after a crash: there is
\* a key for it.
RecoveryCreateHasKey ==
    Replaying(Primary) /\ log[at[Primary] + 1].op = "create" => CanCreate(Primary)

=============================================================================
