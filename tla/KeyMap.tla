------------------------------- MODULE KeyMap -------------------------------
(***************************************************************************)
(* The relation keys and principal keys of one running server.             *)
(*                                                                         *)
(* Backends create and drop relations, load relation keys, set, rotate and *)
(* delete principal keys and the default principal key.  They share the    *)
(* key files, the principal key cache in shared memory and one LWLock,     *)
(* tde_lwlock_enc_keys().  A step is what happens under one acquisition of *)
(* that lock, split wherever a crash between two durable writes leaves     *)
(* something different on disk.  The lock's SHARED sections change nothing *)
(* and are single steps, so only the EXCLUSIVE holder is recorded.         *)
(*                                                                         *)
(* The server key (GLOBAL_DATA_TDE_OID) lives in the WAL key file and is   *)
(* not part of this module; neither are the WAL records the operations     *)
(* emit, which only matter to redo.                                        *)
(***************************************************************************)
EXTENDS KeyMapFile

CONSTANTS
    Db,           \* databases
    Default,      \* DEFAULT_DATA_TDE_OID, whose file holds only a header
    DbKey,        \* principal keys a database may be given explicitly
    DefaultKey,   \* principal keys that may be made the default
    Proc,         \* backends
    Faults,       \* whether the server may crash and file writes may fail
    Gone          \* abstract value of a relation that does not exist

ASSUME KeyMapAssumption ==
    /\ Default \notin Db
    /\ DbKey \subseteq PKey
    /\ DefaultKey \subseteq PKey
    /\ None \notin Proc
    /\ Faults \in BOOLEAN
    /\ None \notin Db \cup {Default}
    /\ Gone \notin RelKey \cup {None}

VARIABLES
    keyfile,   \* keyfile[o]: the key file of database o
    rotfile,   \* rotfile[o]: its ".r" companion, written during a rotation
    cache,     \* cache[o]: the principal key cached in shared memory, or None
    lock,      \* the EXCLUSIVE holder of tde_lwlock_enc_keys(), or None
    stat,      \* stat[<<d, r>>]: life of relation r of database d
    disk,      \* disk[<<d, r>>]: the key its blocks are encrypted with, or None
    pc,        \* where each backend is
    job        \* what each backend is doing

vars == <<keyfile, rotfile, cache, lock, stat, disk, pc, job>>

Oid == Db \cup {Default}

Loc == Db \X Rel

-----------------------------------------------------------------------------
(* Types.                                                                  *)

Stats == {"gone", "creating", "live", "dropping"}

\* Steps at which a backend holds the lock exclusively.
Holding ==
    {"saving", "save_header", "rotate", "renamed", "propagating", "deleting"}

Reading == {"find", "upgrade", "got_key", "got_null", "got_error"}

PCs ==
    {"idle", "create", "created", "copied", "propagate"} \cup Holding
        \cup Reading

Jobs ==
    [oid  : Oid \cup {None},         \* database worked on
     rel  : Rel \cup {None},         \* relation worked on
     cur  : PKey \cup {None},        \* principal key in force when the lock was taken
     new  : PKey \cup {None},        \* principal key being installed
     old  : PKey \cup {None},        \* copy of the previous default key
     idx  : Nat,                     \* next entry the rotation reads
     ent  : Entries,                 \* copy of a map entry
     todo : SUBSET Db,               \* databases still to be visited
     then : {"idle", "propagate", "propagating"}]   \* where a rotation returns to

NoJob ==
    [oid |-> None, rel |-> None, cur |-> None, new |-> None, old |-> None,
     idx |-> 0, ent |-> EmptyEntry, todo |-> {}, then |-> "idle"]

\* Every variable has its type.
TypeOK ==
    /\ keyfile \in [Oid -> KeyFiles]
    /\ rotfile \in [Oid -> KeyFiles]
    /\ cache \in [Oid -> PKey \cup {None}]
    /\ lock \in Proc \cup {None}
    /\ stat \in [Loc -> Stats]
    /\ disk \in [Loc -> RelKey \cup {None}]
    /\ pc \in [Proc -> PCs]
    /\ job \in [Proc -> Jobs]

Init ==
    /\ keyfile = [o \in Oid |-> NoFile]
    /\ rotfile = [o \in Oid |-> NoFile]
    /\ cache = [o \in Oid |-> None]
    /\ lock = None
    /\ stat = [l \in Loc |-> "gone"]
    /\ disk = [l \in Loc |-> None]
    /\ pc = [p \in Proc |-> "idle"]
    /\ job = [p \in Proc |-> NoJob]

-----------------------------------------------------------------------------
(* The principal key cache and GetPrincipalKey, lock held exclusively.     *)

\* push_principal_key_to_cache keeps an entry that is already there.
Push(c, o, k) == IF c[o] = None THEN [c EXCEPT ![o] = k] ELSE c

ClearSkipped(c, o) == c
Clear(c, o) == [c EXCEPT ![o] = None]

\* The database's own principal key: from the cache, else from the header.
KeyNoDefault(o) == IF cache[o] # None THEN cache[o] ELSE keyfile[o].hdr

\* Looking the key up leaves it in the cache.
CacheNoDefault(o) == [cache EXCEPT ![o] = KeyNoDefault(o)]

\* A database without a key of its own falls back to the default key ...
PrincipalKey(d) ==
    IF KeyNoDefault(d) # None THEN KeyNoDefault(d) ELSE KeyNoDefault(Default)

\* ... which is then written to the database's file (not WAL-logged) ...
FileAfterGet(d) ==
    IF KeyNoDefault(d) = None /\ KeyNoDefault(Default) # None
    THEN [keyfile EXCEPT ![d] = HeaderOnly(KeyNoDefault(Default))]
    ELSE keyfile

\* ... and cached under the database.
CacheAfterGet(d) ==
    IF KeyNoDefault(d) # None
    THEN CacheNoDefault(d)
    ELSE Push(CacheNoDefault(Default), d, KeyNoDefault(Default))

\* An SQL function or a storage manager call that only looks a key up.
LoadKey(o) ==
    /\ lock = None
    /\ cache[o] = None
    /\ keyfile[o].hdr # None
    /\ cache' = CacheNoDefault(o)
    /\ UNCHANGED <<keyfile, rotfile, lock, stat, disk, pc, job>>

Goto(p, step) == pc' = [pc EXCEPT ![p] = step]

Finish(p) == Goto(p, "idle") /\ job' = [job EXCEPT ![p] = NoJob]

-----------------------------------------------------------------------------
(* Creating a relation: tde_mdcreate of the main fork.                     *)

\* The storage file is created; the key is still to come.
StartCreate(p, d, r) ==
    /\ pc[p] = "idle"
    /\ stat[<<d, r>>] = "gone"
    /\ stat' = [stat EXCEPT ![<<d, r>>] = "creating"]
    /\ Goto(p, "create")
    /\ job' = [job EXCEPT ![p] = [NoJob EXCEPT !.oid = d, !.rel = r]]
    /\ UNCHANGED <<keyfile, rotfile, cache, lock, disk>>

\* open_pg_tde_free_key_map_entry: the first KEY entry for r is overwritten by
\* an EMPTY one.  Opening the file for write creates it if it is missing.
FreeKeyMapEntrySkipped(d, r) == UNCHANGED keyfile
FreeKeyMapEntry(d, r) ==
    LET f == OpenedForWrite(keyfile[d], None) IN
    \/ \E i \in DOMAIN f.slots :
          /\ FirstEntry(f, r, i)
          /\ keyfile' = [keyfile EXCEPT ![d] = PutEntry(f, i, EmptyEntry)]
    \/ /\ ~HasEntry(f, r)
       /\ keyfile' = [keyfile EXCEPT ![d] = f]

\* Not to be encrypted: a key left behind by a crash is removed.
CreatePlain(p) ==
    LET d == job[p].oid  r == job[p].rel IN
    /\ pc[p] = "create"
    /\ lock = None
    /\ FreeKeyMapEntry(d, r)
    /\ disk' = [disk EXCEPT ![<<d, r>>] = None]
    /\ Goto(p, "created")
    /\ UNCHANGED <<rotfile, cache, lock, stat, job>>

\* A principal key must be there to wrap the relation's key with.
ConfiguredUnchecked(d) == TRUE
Configured(d) == PrincipalKey(d) # None

\* To be encrypted: the lock is taken and the principal key fetched.
CreateLock(p) ==
    LET d == job[p].oid IN
    /\ pc[p] = "create"
    /\ lock = None
    /\ Configured(d)
    /\ lock' = p
    /\ keyfile' = FileAfterGet(d)
    /\ cache' = CacheAfterGet(d)
    /\ Goto(p, "saving")
    /\ job' = [job EXCEPT ![p].cur = PrincipalKey(d)]
    /\ UNCHANGED <<rotfile, stat, disk>>

\* No principal key is configured: the statement fails and the transaction
\* aborts, which unlinks the storage file.
CreateRefused(p) ==
    /\ pc[p] = "create"
    /\ lock = None
    /\ ~Configured(job[p].oid)
    /\ stat' = [stat EXCEPT ![<<job[p].oid, job[p].rel>>] = "dropping"]
    /\ Finish(p)
    /\ UNCHANGED <<keyfile, rotfile, cache, lock, disk>>

\* The fresh key k is written, over an existing entry if there is one.
CreateWrite(p, k) ==
    LET d == job[p].oid
        r == job[p].rel
        f == OpenedForWrite(keyfile[d], job[p].cur)
    IN  /\ pc[p] = "saving"
        /\ \E i \in 1 .. (Len(f.slots) + 1) :
              /\ WriteSlot(f, r, i)
              /\ keyfile' = [keyfile EXCEPT
                                ![d] = PutEntry(f, i, KeyEntry(r, k, job[p].cur))]
        /\ disk' = [disk EXCEPT ![<<d, r>>] = k]
        /\ lock' = None
        /\ Goto(p, "created")
        /\ UNCHANGED <<rotfile, cache, stat, job>>

\* Someone is loading the relation's key; PostgreSQL's relation locks and
\* buffer pins keep it from being unlinked meanwhile.
InUse(d, r) ==
    \E q \in Proc : pc[q] \in Reading /\ job[q].oid = d /\ job[q].rel = r

Commit(p) ==
    /\ pc[p] = "created"
    /\ stat' = [stat EXCEPT ![<<job[p].oid, job[p].rel>>] = "live"]
    /\ Finish(p)
    /\ UNCHANGED <<keyfile, rotfile, cache, lock, disk>>

Abort(p) ==
    /\ pc[p] = "created"
    /\ ~InUse(job[p].oid, job[p].rel)
    /\ stat' = [stat EXCEPT ![<<job[p].oid, job[p].rel>>] = "dropping"]
    /\ Finish(p)
    /\ UNCHANGED <<keyfile, rotfile, cache, lock, disk>>

-----------------------------------------------------------------------------
(* Dropping a relation.  The unlink comes after commit (or abort); after a *)
(* crash, recovery performs it.                                            *)

Drop(d, r) ==
    /\ stat[<<d, r>>] = "live"
    /\ ~InUse(d, r)
    /\ stat' = [stat EXCEPT ![<<d, r>>] = "dropping"]
    /\ UNCHANGED <<keyfile, rotfile, cache, lock, disk, pc, job>>

\* tde_mdunlink: frees the key if the relation has one.
Unlink(d, r) ==
    /\ stat[<<d, r>>] = "dropping"
    /\ lock = None
    /\ \/ HasEntry(keyfile[d], r) /\ FreeKeyMapEntry(d, r)
       \/ ~HasEntry(keyfile[d], r) /\ UNCHANGED keyfile
    /\ stat' = [stat EXCEPT ![<<d, r>>] = "gone"]
    /\ disk' = [disk EXCEPT ![<<d, r>>] = None]
    /\ UNCHANGED <<rotfile, cache, lock, pc, job>>

-----------------------------------------------------------------------------
(* Loading a relation's key: open_pg_tde_get_smgr_key, called on the first *)
(* block read or written through a storage manager handle.                 *)

\* Relations whose blocks may be read or written by any backend.
Accessible(d, r) ==
    \/ stat[<<d, r>>] = "live"
    \/ \E q \in Proc : pc[q] = "created" /\ job[q].oid = d /\ job[q].rel = r

\* access(2) on the key file, before the lock is taken.
GetSmgrKey(p, d, r) ==
    /\ pc[p] = "idle"
    /\ Accessible(d, r)
    /\ Goto(p, IF keyfile[d].present THEN "find" ELSE "got_null")
    /\ job' = [job EXCEPT ![p] = [NoJob EXCEPT !.oid = d, !.rel = r]]
    /\ UNCHANGED <<keyfile, rotfile, cache, lock, stat, disk>>

\* An entry opens under the principal key it was wrapped with, and no other.
Decrypted(e, k) == IF e.by = k THEN "got_key" ELSE "got_error"

\* The SHARED section: find the entry and, if the principal key is cached,
\* decrypt it.  Otherwise the lock is given up to get it exclusively.
FindEntry(p) ==
    LET d == job[p].oid  r == job[p].rel IN
    /\ pc[p] = "find"
    /\ lock = None
    /\ \/ /\ ~keyfile[d].present
          /\ Goto(p, "got_error")
          /\ UNCHANGED job
       \/ /\ keyfile[d].present /\ ~HasEntry(keyfile[d], r)
          /\ Goto(p, "got_null")
          /\ UNCHANGED job
       \/ \E i \in DOMAIN keyfile[d].slots :
             LET e == keyfile[d].slots[i] IN
             /\ keyfile[d].present /\ FirstEntry(keyfile[d], r, i)
             /\ Goto(p, IF cache[d] = None THEN "upgrade"
                                           ELSE Decrypted(e, cache[d]))
             /\ job' = [job EXCEPT ![p].ent = e]
    /\ UNCHANGED <<keyfile, rotfile, cache, lock, stat, disk>>

\* The EXCLUSIVE section after the gap: the principal key is loaded and the
\* entry copied before the gap is decrypted with it.
GetKeyUpgraded(p) ==
    LET d == job[p].oid IN
    /\ pc[p] = "upgrade"
    /\ lock = None
    /\ keyfile' = FileAfterGet(d)
    /\ cache' = CacheAfterGet(d)
    /\ Goto(p, IF PrincipalKey(d) = None
               THEN "got_error" ELSE Decrypted(job[p].ent, PrincipalKey(d)))
    /\ UNCHANGED <<rotfile, lock, stat, disk, job>>

GetKeyReturn(p) ==
    /\ pc[p] \in {"got_key", "got_null", "got_error"}
    /\ Finish(p)
    /\ UNCHANGED <<keyfile, rotfile, cache, lock, stat, disk>>

-----------------------------------------------------------------------------
(* Rotation of one key file: open_pg_tde_perform_rotate_key and the cache  *)
(* update that follows it.                                                 *)

\* The new file is opened truncated; the job then reads the old one.
BeginRotate(p, o, j) ==
    /\ rotfile' = [rotfile EXCEPT ![o] = HeaderOnly(j.new)]
    /\ Goto(p, "rotate")
    /\ job' = [job EXCEPT ![p] = [j EXCEPT !.oid = o, !.idx = 1]]

RotateEntry(p) ==
    LET o == job[p].oid
        i == job[p].idx
        e == keyfile[o].slots[i]
    IN  /\ pc[p] = "rotate"
        /\ i <= Len(keyfile[o].slots)
        /\ \/ e = EmptyEntry /\ UNCHANGED rotfile
           \/ /\ e # EmptyEntry
              /\ e.by = job[p].cur
              /\ rotfile' = [rotfile EXCEPT ![o].slots =
                                Append(rotfile[o].slots, Rewrap(e, job[p].new))]
        /\ job' = [job EXCEPT ![p].idx = i + 1]
        /\ UNCHANGED <<keyfile, cache, lock, stat, disk, pc>>

\* An entry does not open, or a write fails: ERROR, the lock is released and
\* the unfinished ".r" file stays.
RotateFail(p) ==
    LET f == keyfile[job[p].oid]  i == job[p].idx IN
    /\ pc[p] = "rotate"
    /\ \/ Faults
       \/ /\ i <= Len(f.slots)
          /\ f.slots[i].by \notin {None, job[p].cur}
    /\ lock' = None
    /\ Finish(p)
    /\ UNCHANGED <<keyfile, rotfile, cache, stat, disk>>

RotateRename(p) ==
    LET o == job[p].oid IN
    /\ pc[p] = "rotate"
    /\ job[p].idx > Len(keyfile[o].slots)
    /\ keyfile' = [keyfile EXCEPT ![o] = rotfile[o]]
    /\ rotfile' = [rotfile EXCEPT ![o] = NoFile]
    /\ Goto(p, "renamed")
    /\ UNCHANGED <<cache, lock, stat, disk, job>>

\* Where a backend goes, and whether it keeps the lock, when the file is done.
ReturnKeepingLock(p) ==
    /\ lock' = p
    /\ IF job[p].then = "idle" THEN Finish(p) ELSE Goto(p, job[p].then) /\ UNCHANGED job
Return(p) ==
    /\ lock' = IF job[p].then = "propagating" THEN p ELSE None
    /\ IF job[p].then = "idle" THEN Finish(p) ELSE Goto(p, job[p].then) /\ UNCHANGED job

RotatePublish(p) ==
    LET o == job[p].oid IN
    /\ pc[p] = "renamed"
    /\ cache' = Push(Clear(cache, o), o, job[p].new)
    /\ Return(p)
    /\ UNCHANGED <<keyfile, rotfile, stat, disk>>

-----------------------------------------------------------------------------
(* Setting a principal key: set_principal_key_with_keyring.                *)

BeginSet(p, o, j) ==
    /\ lock = None
    /\ lock' = p
    /\ cache' = CacheNoDefault(o)
    /\ \/ /\ KeyNoDefault(o) = None
          /\ keyfile' = [keyfile EXCEPT ![o] = Truncated]
          /\ Goto(p, "save_header")
          /\ job' = [job EXCEPT ![p] = [j EXCEPT !.oid = o]]
          /\ UNCHANGED rotfile
       \/ /\ KeyNoDefault(o) # None
          /\ BeginRotate(p, o, [j EXCEPT !.cur = KeyNoDefault(o)])
          /\ UNCHANGED keyfile
    /\ UNCHANGED <<stat, disk>>

SetKey(p, d, k) ==
    /\ pc[p] = "idle"
    /\ BeginSet(p, d, [NoJob EXCEPT !.new = k])

\* The first key of the database: the header completes the file.
SaveHeader(p) ==
    LET o == job[p].oid IN
    /\ pc[p] = "save_header"
    /\ keyfile' = [keyfile EXCEPT ![o] = HeaderOnly(job[p].new)]
    /\ cache' = Push(cache, o, job[p].new)
    /\ Return(p)
    /\ UNCHANGED <<rotfile, stat, disk>>

-----------------------------------------------------------------------------
(* Setting the default key: three separate lock sections.                  *)

\* 1. Copy the current default key, if there is one.
CopyDefault(p, k) ==
    /\ pc[p] = "idle"
    /\ lock = None
    /\ cache' = CacheNoDefault(Default)
    /\ Goto(p, "copied")
    /\ job' = [job EXCEPT ![p] = [NoJob EXCEPT !.new = k,
                                               !.old = KeyNoDefault(Default)]]
    /\ UNCHANGED <<keyfile, rotfile, lock, stat, disk>>

\* 2. Set the new one.
SetDefault(p) ==
    /\ pc[p] = "copied"
    /\ BeginSet(p, Default,
          [job[p] EXCEPT !.then = IF job[p].old = None THEN "idle"
                                                       ELSE "propagate"])

\* 3. Rotate every database that uses the copied key to the default key of
\*    now, all under one acquisition of the lock.
StartPropagate(p) ==
    /\ pc[p] = "propagate"
    /\ lock = None
    /\ lock' = p
    /\ cache' = CacheNoDefault(Default)
    /\ Goto(p, "propagating")
    /\ job' = [job EXCEPT ![p] = [@ EXCEPT !.new = KeyNoDefault(Default),
                                           !.todo = Db, !.then = "propagating"]]
    /\ UNCHANGED <<keyfile, rotfile, stat, disk>>

PropagateDb(p, d) ==
    /\ pc[p] = "propagating"
    /\ d \in job[p].todo
    /\ KeyNoDefault(d) = job[p].old => job[p].new # None
    /\ cache' = CacheNoDefault(d)
    /\ LET j == [job[p] EXCEPT !.todo = @ \ {d}, !.cur = KeyNoDefault(d)] IN
       \/ /\ KeyNoDefault(d) = job[p].old
          /\ BeginRotate(p, d, j)
       \/ /\ KeyNoDefault(d) # job[p].old
          /\ job' = [job EXCEPT ![p] = j]
          /\ UNCHANGED <<rotfile, pc>>
    /\ UNCHANGED <<keyfile, lock, stat, disk>>

PropagateDone(p) ==
    /\ pc[p] = "propagating"
    /\ job[p].todo = {}
    /\ lock' = None
    /\ Finish(p)
    /\ UNCHANGED <<keyfile, rotfile, cache, stat, disk>>

-----------------------------------------------------------------------------
(* Deleting principal keys.                                                *)

\* open_pg_tde_delete_key.  With relation keys in the file the database is
\* rotated to the default key instead, if that is another key.
DeleteKey(p, d) ==
    /\ pc[p] = "idle"
    /\ lock = None
    /\ KeyNoDefault(d) # None
    /\ \/ /\ NoKeys(keyfile[d])
          /\ keyfile' = [keyfile EXCEPT ![d] = NoFile]
          /\ cache' = Clear(cache, d)
          /\ UNCHANGED <<rotfile, lock, pc, job>>
       \/ /\ ~NoKeys(keyfile[d])
          /\ KeyNoDefault(Default) \notin {None, KeyNoDefault(d)}
          /\ cache' = [cache EXCEPT ![d] = KeyNoDefault(d),
                                    ![Default] = KeyNoDefault(Default)]
          /\ lock' = p
          /\ BeginRotate(p, d, [NoJob EXCEPT !.cur = KeyNoDefault(d),
                                             !.new = KeyNoDefault(Default)])
          /\ UNCHANGED keyfile
    /\ UNCHANGED <<stat, disk>>

\* open_pg_tde_delete_default_key: refused while a database that uses the
\* default key has relation keys.
DeleteDefault(p) ==
    LET users == {d \in Db : KeyNoDefault(d) = KeyNoDefault(Default)} IN
    /\ pc[p] = "idle"
    /\ lock = None
    /\ KeyNoDefault(Default) # None
    /\ \A d \in users : NoKeys(keyfile[d])
    /\ cache' = [o \in Oid |-> KeyNoDefault(o)]
    /\ lock' = p
    /\ Goto(p, "deleting")
    /\ job' = [job EXCEPT ![p] = [NoJob EXCEPT !.todo = users]]
    /\ UNCHANGED <<keyfile, rotfile, stat, disk>>

\* The files of the databases that used it go first, one by one ...
DeleteDefaultDb(p, d) ==
    /\ pc[p] = "deleting"
    /\ d \in job[p].todo
    /\ keyfile' = [keyfile EXCEPT ![d] = NoFile]
    /\ cache' = Clear(cache, d)
    /\ job' = [job EXCEPT ![p].todo = @ \ {d}]
    /\ UNCHANGED <<rotfile, lock, stat, disk, pc>>

\* ... and the default key's own file last.
DeleteDefaultDone(p) ==
    /\ pc[p] = "deleting"
    /\ job[p].todo = {}
    /\ keyfile' = [keyfile EXCEPT ![Default] = NoFile]
    /\ cache' = Clear(cache, Default)
    /\ lock' = None
    /\ Finish(p)
    /\ UNCHANGED <<rotfile, stat, disk>>

-----------------------------------------------------------------------------
(* A crash of the server, and the restart after it.  Files survive, the    *)
(* cache and the backends do not.  A relation whose transaction had not    *)
(* committed is gone, but its key stays in the key file.                   *)
Restart ==
    /\ cache' = [o \in Oid |-> None]
    /\ lock' = None
    /\ pc' = [p \in Proc |-> "idle"]
    /\ job' = [p \in Proc |-> NoJob]
    /\ stat' = [l \in Loc |-> IF stat[l] = "creating" THEN "gone" ELSE stat[l]]
    /\ disk' = [l \in Loc |-> IF stat[l] = "creating" THEN None ELSE disk[l]]
    /\ UNCHANGED <<keyfile, rotfile>>

Crash == Faults /\ Restart

\* A null key template is dereferenced, which brings the server down.
PropagateNull(p) ==
    /\ pc[p] = "propagating"
    /\ job[p].new = None
    /\ \E d \in job[p].todo : KeyNoDefault(d) = job[p].old
    /\ Restart

-----------------------------------------------------------------------------
RelationStep(p) ==
    \/ \E d \in Db, r \in Rel : StartCreate(p, d, r)
    \/ CreatePlain(p)
    \/ CreateLock(p)
    \/ CreateRefused(p)
    \/ \E k \in RelKey : CreateWrite(p, k)
    \/ Commit(p)
    \/ Abort(p)

ReadStep(p) ==
    \/ \E d \in Db, r \in Rel : GetSmgrKey(p, d, r)
    \/ FindEntry(p)
    \/ GetKeyUpgraded(p)
    \/ GetKeyReturn(p)

KeyStep(p) ==
    \/ \E d \in Db, k \in DbKey : SetKey(p, d, k)
    \/ SaveHeader(p)
    \/ RotateEntry(p)
    \/ RotateFail(p)
    \/ RotateRename(p)
    \/ RotatePublish(p)
    \/ \E d \in Db : DeleteKey(p, d)

DefaultStep(p) ==
    \/ \E k \in DefaultKey : CopyDefault(p, k)
    \/ SetDefault(p)
    \/ StartPropagate(p)
    \/ \E d \in Db : PropagateDb(p, d)
    \/ PropagateDone(p)
    \/ PropagateNull(p)
    \/ DeleteDefault(p)
    \/ \E d \in Db : DeleteDefaultDb(p, d)
    \/ DeleteDefaultDone(p)

Next ==
    \/ \E p \in Proc :
          RelationStep(p) \/ ReadStep(p) \/ KeyStep(p) \/ DefaultStep(p)
    \/ \E d \in Db, r \in Rel : Drop(d, r) \/ Unlink(d, r)
    \/ \E o \in Oid : LoadKey(o)
    \/ Crash

Spec == Init /\ [][Next]_vars

\* Fairness: a backend that holds the lock runs on.  It waits for no other
\* lock of this module, so the operating system's scheduling is enough.
HolderStep(p) ==
    \/ \E k \in RelKey : CreateWrite(p, k)
    \/ SaveHeader(p)
    \/ RotateEntry(p)
    \/ RotateFail(p)
    \/ RotateRename(p)
    \/ RotatePublish(p)
    \/ \E d \in Db : PropagateDb(p, d)
    \/ PropagateDone(p)
    \/ PropagateNull(p)
    \/ \E d \in Db : DeleteDefaultDb(p, d)
    \/ DeleteDefaultDone(p)

FairSpec == Spec /\ \A p \in Proc : WF_vars(HolderStep(p))

-----------------------------------------------------------------------------
(* Safety.                                                                 *)

\* Every relation key in a key file is wrapped with the principal key its
\* header names: the only key a later start of the server can load.  Saves,
\* rotations, fallbacks and crashes between their writes all keep it so.
EntriesUnderHeader ==
    \A o \in Oid : \A i \in DOMAIN keyfile[o].slots :
        keyfile[o].slots[i] # EmptyEntry =>
            keyfile[o].slots[i].by = keyfile[o].hdr

\* Reusing free slots, overwriting and compaction never leave two entries for
\* one relation, so it does not matter which of them a scan meets first.
OneEntryPerRelation ==
    \A o \in Oid : \A i, j \in DOMAIN keyfile[o].slots :
        /\ keyfile[o].slots[i] # EmptyEntry
        /\ keyfile[o].slots[i].rel = keyfile[o].slots[j].rel
        => i = j

\* What a load of relation r finds in the file of database d: its key, None
\* (not encrypted), or Gone when the entry does not open.
Lookup(d, r) ==
    LET f == keyfile[d] IN
    IF ~HasEntry(f, r) THEN None
    ELSE LET e == f.slots[CHOOSE i \in DOMAIN f.slots : FirstEntry(f, r, i)]
         IN  IF e.by = f.hdr THEN e.key ELSE Gone

\* A relation whose blocks are in use can be read back after a restart: the
\* file has the key its blocks are encrypted with, and has no key for a plain
\* relation, whose blocks would otherwise be "decrypted" to garbage.
KeysRetained ==
    \A d \in Db, r \in Rel : Accessible(d, r) => Lookup(d, r) = disk[<<d, r>>]

\* The shared cache never names another principal key than the file does,
\* except while the backend that renamed the file still holds the lock.
CacheCoherent ==
    \A o \in Oid :
        \/ cache[o] \in {None, keyfile[o].hdr}
        \/ \E p \in Proc : pc[p] = "renamed" /\ job[p].oid = o

\* A load that succeeds yields the key the blocks are encrypted with, and an
\* encrypted relation is never taken for a plain one, whatever happened
\* between the access(2) check, the shared and the exclusive section.
LoadNeverMisled ==
    \A p \in Proc :
        LET d == job[p].oid  r == job[p].rel IN
        /\ pc[p] = "got_key" => disk[<<d, r>>] = job[p].ent.key
        /\ pc[p] = "got_null" => disk[<<d, r>>] = None

-----------------------------------------------------------------------------
(* What the code says of itself, and the model refutes.                    *)

\* The comment in open_pg_tde_get_smgr_key: the lock is held until the internal
\* key is loaded, to be sure that the entry was encrypted with the principal
\* key obtained.  (A load that fails has an entry only if decryption failed.)
EntryMatchesKey ==
    \A p \in Proc : pc[p] = "got_error" => job[p].ent = EmptyEntry

\* The comment on open_pg_tde_update_default_principal_key_everywhere: all
\* databases that use the old default key are moved to the new one.  (Read
\* with DbKey and DefaultKey disjoint.)
DefaultFollowed ==
    (\A p \in Proc : pc[p] = "idle") =>
        \A d \in Db : keyfile[d].hdr \in DefaultKey =>
                          keyfile[d].hdr = keyfile[Default].hdr

\* The comment in open_pg_tde_set_principal_key_internal: after the second
\* section there is a new default key to start using in all databases.
NewDefaultKnown ==
    \A p \in Proc :
        /\ pc[p] = "propagating"
        /\ \E d \in job[p].todo : KeyNoDefault(d) = job[p].old
        => job[p].new # None

-----------------------------------------------------------------------------
(* Refinement and liveness.                                                *)

\* The key map implements the store the storage manager relies on.
Store ==
    INSTANCE RelKeyStore WITH
        store <- [l \in Loc |-> IF stat[l] = "live" THEN Lookup(l[1], l[2])
                                                    ELSE Gone]

\* Each relation keeps the key it was created with until it is dropped, and
\* that key can be loaded from the file at every moment in between; a
\* rotation, a fallback or a crash is a stuttering step of the store.
ImplementsStore == Store!StoreSpec

\* The exclusive lock is always released: the rotation and propagation loops
\* end and no failure leaves them.
LockReleased == lock # None ~> lock = None

=============================================================================
