------------------------------ MODULE Startup ------------------------------
(***************************************************************************)
(* The start of a server on a key directory that an older version wrote.   *)
(*                                                                         *)
(* Every start compares the version file with the versions of this build,  *)
(* and when they differ, or there is no such file, brings the WAL key file *)
(* and then every relation key file to the current format: each is copied, *)
(* entry by entry, to a file of its own that is renamed over it.  The      *)
(* version file is written last.  The start can be cut short anywhere, by  *)
(* a crash or by an error, and is then repeated.  The directory can also   *)
(* be the copy that open_pg_tde_upgrade makes of another cluster's.        *)
(*                                                                         *)
(* An entry is what can be read from it: the key, its cipher, and whether  *)
(* it is free ("empty") or was cut short by a crash ("torn"; the last one  *)
(* only).  The format of an entry is the version of its file.              *)
(***************************************************************************)
EXTENDS Integers, Sequences

CONSTANTS
    Dbs,            \* databases that may have a key file
    Current,        \* current version of relation key files
    WalCurrent,     \* current version of the WAL key file
    Directories,    \* key directories a server may be started on
    Versions,       \* version files it may be started with
    MaxFaults,      \* bound: crashes, unreachable key providers, failed writes
    MaxKeys,        \* bound: entries of a file that grows
    PartialCopy     \* whether cp may fail for a file without stopping the tool

Wal == "wal"
File == Dbs \cup {Wal}

\* Files: no file, a file without a header, and one with a header.
Absent == [ver |-> -1, entries |-> <<>>]
Headless == [ver |-> 0, entries |-> <<>>]

CipherNames == {"AES_128", "AES_256", "AES_128_XTS", "AES_256_XTS"}
Entry == [key : Nat, cipher : CipherNames, state : {"key", "empty", "torn"}]

\* At most the last entry of a file is cut short.
IsEntries(s) ==
    /\ \A i \in DOMAIN s : s[i].state \in {"key", "empty", "torn"}
    /\ \A i \in 1 .. Len(s) - 1 : s[i].state # "torn"

\* The version whose entries do not name their cipher: its keys are of 16 bytes.
WithoutCipher(f) == IF f = Wal THEN 1 ELSE 3
SixteenBytes(f, c) ==
    c.ver = WithoutCipher(f) => \A i \in DOMAIN c.entries : c.entries[i].cipher = "AES_128"

ASSUME StartupAssumption ==
    /\ Wal \notin Dbs
    /\ Current > 5 /\ WalCurrent > 2
    /\ Directories \subseteq [File -> [ver : Int, entries : Seq(Entry)]]
    /\ \A d \in Directories : \A f \in File : IsEntries(d[f].entries) /\ SixteenBytes(f, d[f])
    /\ Versions \subseteq {"absent", "old", "current"}
    /\ MaxFaults \in Nat /\ MaxKeys \in Nat /\ PartialCopy \in BOOLEAN

VARIABLES
    phase,     \* where the postmaster, or the upgrade tool, is
    hasDir,    \* whether the key directory exists
    dir,       \* dir[f]: key file f in it
    tmp,       \* tmp[f]: its ".r" file
    version,   \* the version file
    unsynced,  \* what else the version file may be after a crash
    left,      \* files that readdir() has not returned yet
    at,        \* the file being migrated and how many entries were read
    old,       \* key directory of the old cluster
    faults,    \* faults so far
    held       \* held[f]: what file f had at first, and the keys added since

vars == <<phase, hasDir, dir, tmp, version, unsynced, left, at, old, faults, held>>

Nothing == [f \in File |-> Absent]
NoFile == [file |-> Wal, read |-> 0]

VersionOf(f) == IF f = Wal THEN WalCurrent ELSE Current

\* Where the readers of its version find keys among the first n entries of a
\* file: all stop at an entry that is cut short.
IsKey(e) == e.state = "key"
KeyIn(e) == <<e.key, e.cipher>>
KeysAt(s, n) == {i \in 1 .. n : IsKey(s[i])}

\* Entries s give the keys that the first n of t give, with the same ciphers and
\* in the same order: where each key of s is among those of t.
KeysOf(s, t, n) ==
    \E place \in [KeysAt(s, Len(s)) -> KeysAt(t, n)] :
        /\ \A i \in DOMAIN place : KeyIn(s[i]) = KeyIn(t[place[i]])
        /\ \A i, j \in DOMAIN place : i < j => place[i] < place[j]
        /\ \A k \in KeysAt(t, n) : \E i \in DOMAIN place : place[i] = k

SameKeys(s, t) == KeysOf(s, t, Len(t))

Init ==
    /\ \E d \in Directories, v \in Versions :
        \* The version file says "current" only beside current files.
        /\ v = "current" => \A f \in File : d[f].ver \in {-1, 0, VersionOf(f)}
        /\ held = [f \in File |-> d[f].entries]
        /\ \/ \* This version is started on the directory itself.
              /\ phase = "down" /\ hasDir = TRUE
              /\ dir = d /\ version = v /\ old = Nothing
           \/ \* The directory is new.
              /\ d = Nothing /\ v = "absent"
              /\ phase = "down" /\ hasDir = FALSE
              /\ dir = d /\ version = v /\ old = Nothing
           \/ \* It is copied to a new cluster, which may have one already.
              /\ phase = "tool" /\ hasDir \in BOOLEAN
              /\ dir = Nothing /\ version = (IF hasDir THEN "current" ELSE "absent")
              /\ old = [files |-> d, version |-> v]
    /\ tmp = Nothing /\ unsynced = {} /\ left = {} /\ at = NoFile /\ faults = 0

-----------------------------------------------------------------------------
(* open_pg_tde_upgrade: copy_open_pg_tde().                                *)

\* rmtree(), unless there is nothing to remove.
RemoveDir ==
    /\ phase = "tool"
    /\ hasDir' = FALSE /\ dir' = Nothing /\ version' = "absent"
    /\ phase' = "copy" /\ left' = {f \in File : old.files[f] # Absent}
    /\ UNCHANGED <<tmp, unsynced, at, old, faults, held>>

\* "cp -Rf" makes the directory, the version file and the key files.  Only
\* system() failing stops the tool, not cp.
MakeDir ==
    /\ phase = "copy" /\ ~hasDir
    /\ hasDir' = TRUE
    /\ UNCHANGED <<phase, dir, tmp, version, unsynced, left, at, old, faults, held>>

CopyVersion ==
    /\ phase = "copy" /\ hasDir /\ version # old.version
    /\ version' = old.version
    /\ UNCHANGED <<phase, hasDir, dir, tmp, unsynced, left, at, old, faults, held>>

CopyResults == IF PartialCopy THEN BOOLEAN ELSE {TRUE}

CopyFile(f, ok) ==
    /\ phase = "copy" /\ hasDir /\ f \in left
    /\ dir' = IF ok THEN [dir EXCEPT ![f] = old.files[f]] ELSE dir
    /\ left' = left \ {f}
    /\ UNCHANGED <<phase, hasDir, tmp, version, unsynced, at, old, faults, held>>

\* pg_upgrade is run, and starts the new cluster.
Copied ==
    /\ phase = "copy" /\ hasDir /\ left = {} /\ version = old.version
    /\ phase' = "down"
    /\ UNCHANGED <<hasDir, dir, tmp, version, unsynced, left, at, old, faults, held>>

-----------------------------------------------------------------------------
(* _PG_init() and tde_shmem_startup().                                     *)

\* open_pg_tde_init_data_dir(): a new directory gets a version file at once.
InitDataDir ==
    /\ phase = "down"
    /\ hasDir' = TRUE
    /\ phase' = IF hasDir THEN "check" ELSE "first version"
    /\ UNCHANGED <<dir, tmp, version, unsynced, left, at, old, faults, held>>

\* open_pg_tde_migrate_internal_keys(): it stops when the version file cannot be
\* read, and has nothing to do when that is current.
CheckVersionExists ==
    /\ phase = "check"
    /\ phase' = CASE version = "empty"  -> "corrupted"
                  [] version = "absent" -> "migrate wal"
                  [] OTHER              -> "init write"
    /\ UNCHANGED <<hasDir, dir, tmp, version, unsynced, left, at, old, faults, held>>
CheckVersion ==
    /\ phase = "check"
    /\ phase' = CASE version = "empty"   -> "corrupted"
                  [] version = "current" -> "init write"
                  [] OTHER               -> "migrate wal"
    /\ UNCHANGED <<hasDir, dir, tmp, version, unsynced, left, at, old, faults, held>>

\* "Try to remove the file and restart server."
RemoveVersion ==
    /\ phase = "corrupted"
    /\ version' = "absent" /\ unsynced' = {} /\ phase' = "down"
    /\ UNCHANGED <<hasDir, dir, tmp, left, at, old, faults, held>>

\* Which versions of file f can be read, and whether a cut entry ends the file
\* or is an error.
Readable(f) == IF f = Wal THEN {1, 2} ELSE {3, 4, 5}
TornIsEndNever(f) == FALSE
TornIsEnd(f) == f = Wal \/ dir[f].ver = 3

Fails == phase' = "down" /\ UNCHANGED <<hasDir, dir, tmp, version, unsynced, left, at, old, held>>

\* The files readdir() will return after file f.
LeftAfter(f) == IF f = Wal THEN {g \in Dbs : dir[g] # Absent} ELSE left \ {f}

\* Versions that file f may be taken for.  A WAL key file without a header is
\* not recognized: what is compared is uninitialized memory.
TakenFor(f) ==
    IF f = Wal /\ dir[f].ver = 0 THEN {0, 1, 2, WalCurrent, WalCurrent + 1} ELSE {dir[f].ver}

\* A file that need not be migrated.
Skip(f, v) ==
    /\ v = VersionOf(f) \/ v = -1 \/ (v = 0 /\ f # Wal)
    /\ phase' = "scan"
    /\ left' = LeftAfter(f)
    /\ UNCHANGED <<hasDir, dir, tmp, version, unsynced, at, old, faults, held>>

\* A file of an older version: its principal key is fetched and the new file is
\* begun, with a header of its own.
BeginAppending(f, v) ==
    /\ v \in Readable(f)
    /\ tmp' = [tmp EXCEPT ![f].ver = VersionOf(f)]
    /\ at' = [file |-> f, read |-> 0]
    /\ phase' = "entries"
    /\ UNCHANGED <<hasDir, dir, version, unsynced, left, old, faults, held>>
Begin(f, v) ==
    /\ v \in Readable(f)
    /\ tmp' = [tmp EXCEPT ![f] = [ver |-> VersionOf(f), entries |-> <<>>]]
    /\ at' = [file |-> f, read |-> 0]
    /\ phase' = "entries"
    /\ UNCHANGED <<hasDir, dir, version, unsynced, left, old, faults, held>>

\* The key provider cannot be reached, or a file without a header names no key
\* and there is no default key.
NoPrincipalKey(f, v) ==
    /\ v \in Readable(f)
    /\ faults < MaxFaults /\ faults' = faults + 1
    /\ Fails

\* A version that no reader is for.
Unsupported(f, v) ==
    /\ v \notin Readable(f) \cup {-1, VersionOf(f)}
    /\ f = Wal \/ v # 0
    /\ Fails /\ UNCHANGED faults

\* open_pg_tde_update_wal_keys_file() and the loop of
\* open_pg_tde_migrate_smgr_keys_file(), which takes the files in any order.
Migrate(f) ==
    /\ \/ phase = "migrate wal" /\ f = Wal
       \/ phase = "scan" /\ f \in left
    /\ \E v \in TakenFor(f) :
           Skip(f, v) \/ Begin(f, v) \/ NoPrincipalKey(f, v) \/ Unsupported(f, v)

\* The cipher of an entry that is read from file f.
CipherReadDefault(f, e) == IF dir[f].ver = WithoutCipher(f) THEN "AES_256" ELSE e.cipher
CipherRead(f, e) == IF dir[f].ver = WithoutCipher(f) THEN "AES_128" ELSE e.cipher

\* The entry of the current format, with the same key, for one of an older: free
\* entries of relations are dropped.
Converted(f, e) ==
    IF f # Wal /\ e.state = "empty" THEN <<>>
    ELSE <<[e EXCEPT !.cipher = CipherRead(f, e)]>>

\* One turn of the loop over the entries.
MigrateEntry ==
    /\ phase = "entries" /\ at.read < Len(dir[at.file].entries)
    /\ LET f == at.file
           e == dir[f].entries[at.read + 1] IN
       IF e.state = "torn" /\ ~TornIsEnd(f)
       THEN Fails
       ELSE /\ tmp' = IF e.state = "torn" THEN tmp
                      ELSE [tmp EXCEPT ![f].entries = @ \o Converted(f, e)]
            /\ at' = [at EXCEPT !.read = @ + 1]
            /\ UNCHANGED <<phase, hasDir, dir, version, unsynced, left, old, held>>
    /\ UNCHANGED faults

\* durable_rename()
RenameMigrated ==
    /\ phase = "entries" /\ at.read = Len(dir[at.file].entries)
    /\ LET f == at.file IN
       /\ dir' = [dir EXCEPT ![f] = tmp[f]]
       /\ tmp' = [tmp EXCEPT ![f] = Absent]
       /\ left' = LeftAfter(f)
       /\ phase' = "scan"
    /\ at' = NoFile
    /\ UNCHANGED <<hasDir, version, unsynced, old, faults, held>>

AllMigratedEarly ==
    /\ phase = "scan"
    /\ phase' = "last version"
    /\ UNCHANGED <<hasDir, dir, tmp, version, unsynced, left, at, old, faults, held>>
AllMigrated ==
    /\ phase = "scan" /\ left = {}
    /\ phase' = "last version"
    /\ UNCHANGED <<hasDir, dir, tmp, version, unsynced, left, at, old, faults, held>>

\* open_pg_tde_create_keys_version_file(): the file is truncated, then written,
\* and never forced to disk.  A write that fails is only warned about.
TruncateVersion ==
    /\ phase \in {"first version", "last version"}
    /\ version' = "empty" /\ unsynced' = unsynced \cup {version}
    /\ phase' = IF phase = "first version" THEN "first write" ELSE "last write"
    /\ UNCHANGED <<hasDir, dir, tmp, left, at, old, faults, held>>

WriteVersion(ok) ==
    /\ phase \in {"first write", "last write"}
    /\ faults' = IF ok THEN faults ELSE faults + 1
    /\ faults' <= MaxFaults
    /\ version' = IF ok THEN "current" ELSE version
    /\ unsynced' = unsynced \cup {version}
    /\ phase' = IF phase = "first write" THEN "check" ELSE "init write"
    /\ UNCHANGED <<hasDir, dir, tmp, left, at, old, held>>

\* TDEXLogSmgrInitWrite() reads the WAL key file, and stops at one of another
\* version.
InitWrite ==
    /\ phase = "init write"
    /\ phase' = IF dir[Wal].ver \in {-1, 0, WalCurrent} THEN "up" ELSE "wrong version"
    /\ UNCHANGED <<hasDir, dir, tmp, version, unsynced, left, at, old, faults, held>>

-----------------------------------------------------------------------------
(* The server at work, and faults.                                         *)

\* A key is added to file f, by a backend or as a new WAL range: a file without
\* a header gets one, one of another version ends the process.  A crash may cut
\* the entry short; the next one takes its place.
NewEntry == [key |-> 0, cipher |-> "AES_256", state |-> "key"]

Entries(f) ==
    LET s == dir[f].entries
        n == Len(s) IN
    IF n > 0 /\ s[n].state = "torn" THEN SubSeq(s, 1, n - 1) ELSE s

AddKey(f) ==
    /\ phase = "up" /\ Len(Entries(f)) < MaxKeys
    /\ IF dir[f].ver \in {-1, 0, VersionOf(f)}
       THEN /\ dir' = [dir EXCEPT ![f] = [ver |-> VersionOf(f), entries |-> Append(Entries(f), NewEntry)]]
            /\ held' = [held EXCEPT ![f] = Append(@, NewEntry)]
            /\ UNCHANGED phase
       ELSE phase' = "wrong version" /\ UNCHANGED <<dir, held>>
    /\ UNCHANGED <<hasDir, tmp, version, unsynced, left, at, old, faults>>

\* The kernel writes the version file back.
SyncVersion ==
    /\ unsynced # {}
    /\ unsynced' = {}
    /\ UNCHANGED <<phase, hasDir, dir, tmp, version, left, at, old, faults, held>>

\* The server, the machine or the tool is stopped.  What it was adding to a file
\* may be there in part.
Crash ==
    /\ phase # "down" /\ faults < MaxFaults /\ faults' = faults + 1
    /\ phase' = IF phase \in {"tool", "copy"} THEN "tool" ELSE "down"
    /\ version' \in {version} \cup unsynced
    /\ unsynced' = {} /\ left' = {} /\ at' = NoFile
    /\ \/ dir' = dir
       \/ /\ phase = "up"
          /\ \E f \in File :
                /\ dir[f].ver = VersionOf(f)
                /\ dir' = [dir EXCEPT ![f].entries =
                              Append(Entries(f), [NewEntry EXCEPT !.state = "torn"])]
    /\ UNCHANGED <<hasDir, tmp, old, held>>

\* A shutdown.
Stop ==
    /\ phase = "up"
    /\ phase' = "down"
    /\ UNCHANGED <<hasDir, dir, tmp, version, unsynced, left, at, old, faults, held>>

Starting ==
    \/ RemoveDir \/ MakeDir \/ CopyVersion \/ Copied
    \/ \E f \in File, ok \in CopyResults : CopyFile(f, ok)
    \/ InitDataDir \/ CheckVersion \/ RemoveVersion
    \/ \E f \in File : Migrate(f)
    \/ MigrateEntry \/ RenameMigrated \/ AllMigrated
    \/ TruncateVersion \/ WriteVersion(TRUE) \/ InitWrite

Next ==
    \/ Starting
    \/ \E f \in File : AddKey(f)
    \/ WriteVersion(FALSE)
    \/ SyncVersion \/ Crash \/ Stop

Spec == Init /\ [][Next]_vars /\ WF_vars(Starting)

-----------------------------------------------------------------------------
(* Properties.                                                             *)

Phases == {"tool", "copy", "down", "first version", "first write", "check", "migrate wal",
           "scan", "entries", "last version", "last write", "init write", "up",
           "corrupted", "wrong version"}

\* Every variable stays within its type; at most the last entry of a file is cut
\* short, and no entry of a file being written.
TypeOK ==
    /\ phase \in Phases /\ hasDir \in BOOLEAN
    /\ \A f \in File : IsEntries(dir[f].entries)
    /\ \A f \in File : \A i \in DOMAIN tmp[f].entries : tmp[f].entries[i].state # "torn"
    /\ version \in {"absent", "empty", "old", "current"}
    /\ unsynced \subseteq {"absent", "empty", "old", "current"}
    /\ left \subseteq File /\ at.file \in File /\ at.read \in Nat
    /\ faults \in 0 .. MaxFaults

\* No start, whenever it was cut short and however often it is repeated, loses,
\* adds, reorders or alters a key: from the moment a server may use the
\* directory each file gives the keys, with their ciphers, that it gave to the
\* version that wrote it, and those added since.  (Only the last entry of a file
\* is ever cut short, and none of a file being written: TypeOK.)
KeysSurvive ==
    /\ TypeOK
    /\ phase \notin {"tool", "copy"} => \A f \in File : SameKeys(dir[f].entries, held[f])

\* The version file tells the truth.  Where it says that nothing need be done,
\* now or after a crash that undoes its last write, every key file is current,
\* although it is written without being forced to disk.
VersionFileTrue ==
    "current" \in {version} \cup unsynced /\ phase \notin {"tool", "copy"} =>
        \A f \in File : dir[f].ver \in {-1, 0, VersionOf(f)}

\* No process of a server that came up, nor the start itself, meets a key file
\* of another version: "key file has wrong version" is never raised.
NeverWrongVersion == phase # "wrong version"

\* A directory that this version can read: no version unknown to it, no WAL key
\* file without a header, and no relation key file of version 4 or 5 that ends
\* with a cut entry.
Startable ==
    /\ dir[Wal].ver \in {-1, 1, 2, WalCurrent}
    /\ \A f \in Dbs :
        /\ dir[f].ver \in {-1, 0, 3, 4, 5, Current}
        /\ dir[f].ver \in {4, 5} =>
              \A i \in DOMAIN dir[f].entries : dir[f].entries[i].state # "torn"

\* Whatever interrupts it, a start that is repeated succeeds in the end.
ComesUp == (phase = "down" /\ Startable) ~> phase = "up"

\* "The worst that may happen is that we will re-scan all *_keys on the next
\* start": a version file that was not written completely never stops a start.
RescanAtWorst == phase # "corrupted"

=============================================================================
