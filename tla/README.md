# Verification of open_pg_tde

`open_pg_tde` is a PostgreSQL extension that encrypts tables and the write-ahead
log on disk.  Every encrypted relation has an *internal key*; internal keys are
wrapped with the *principal key* of their database and kept in a key file; the
principal keys live in a key provider (a file, a KMIP server, OpenBao).  A
database without a principal key of its own falls back to the *default principal
key*.  WAL is encrypted with keys of its own, each valid for a range of the log,
wrapped with the *server key*.

The modules here describe the parts of the program whose correctness depends on
the order of steps: who holds which lock, what is on disk when the server
crashes, what is cached and when it is stale, which statement runs inside which.
Cryptography is a black box: what is wrapped with a key opens with that key and
with no other, and AES-CTR applied twice is undone.

Paths below are relative to `src/src/`, those of `pg_rewind/` to `src/fetools/pg18/`.

## Inventory

### Components

| Part | State it keeps | Operations | Hard because | What makes it correct |
|---|---|---|---|---|
| Relation key files, `access/open_pg_tde_tdemap.c` | a file `<oid>_keys` per database: a header that names the principal key, and slots with wrapped keys | save, find, free, rotate all, count, delete the file | slots are reused in place, a rotation copies and renames, a crash may fall between any two writes | every entry opens under the header; a relation keeps its key |
| Principal keys, `catalog/tde_principal_key.c` | a shared cache from database to principal key, the lock `tde_lwlock_enc_keys()` | set, rotate, delete; set, propagate and delete the default key; look up with fallback | the lock is given up inside a lookup; a change of the default key takes three sections; the fallback writes a file as part of a read | cache and file agree; no load is given the wrong key |
| Storage manager, `smgr/open_pg_tde_smgr.c` | status and key of each open relation, keys of temporary relations, a slot per asynchronous read | create, unlink, open, read, write | keys are made outside of the transaction that creates the relation; file numbers come back, a relation's key is copied into every process that opens it, an asynchronous read is completed by another process | a leftover key is never used for another relation; every block is under the stored key |
| WAL keys, `access/open_pg_tde_xlog_keys.c`, `access/open_pg_tde_xlog_smgr.c` | the file `wal_keys` of ranges, a private list of them per process, the published start of the newest | begin a range, locate it, write, read, rotate the server key | a range gets its start from whichever process writes first; readers lag behind | every page can be read with the recorded ranges |
| Replay, `access/open_pg_tde_xlog.c` | none of its own | add, rotate, delete a principal key; create or drop a relation key; write a provider record | key files are not written through WAL, so crash recovery replays over the outcome | recovery ends, and keeps every committed key |
| Key providers, `catalog/tde_keyring.c` | a file of provider records per database and a global one | add, change, delete, look up by name or id | checks and writes are under different locks; names compare with and without case | every key in use can be loaded from where its provider points |
| Keyrings, `keyring/` | the providers' storage | get, store | the file keyring appends without a lock; the others are remote services | a stored key stays what it was |
| Event triggers, `open_pg_tde_event_capture.c` | a stack of the DDL statements in progress, tagged with a transaction | push, pop, tell the storage manager the mode of a new file | statements nest, fail half way, and some are not captured | a file is encrypted exactly if its table is |
| Start-up, `open_pg_tde.c`, `open_pg_tde_guc.c` | a version file; key files of older formats | shared memory, migration, settings | a start may stop after any file, or within one, and is then repeated on what it left | no key is lost; the version file never promises more than the files hold |
| Command line tools, `bin/` | none | archive, restore, change a provider offline, copy the key directory for pg_upgrade, resetwal and others | run beside or instead of a server | |
| pg_rewind, `pg_rewind/` | a working copy of the source's key files, the relation being re-encrypted, a queue of requests | copy, patch, truncate, re-encrypt relations; keep, copy, convert WAL segments | the two clusters have different keys for the same relation; with a live source all work is delayed | the target can read everything with the keys it ends up with |
| Ciphers, `encryption/`, temporary files, `open_pg_tde_tempfile.c` | cipher contexts | encrypt a block, a WAL stream, a key | IV and counter arithmetic, a context that is kept between calls | the right byte of the right keystream; no vector used twice |

They meet in a few places.  The storage manager asks the event triggers for the
mode of a new file and the key map for its key; the key map asks the principal
keys, which ask the providers and these the keyrings.  All of them are under
`tde_lwlock_enc_keys()`, except the provider files (`tde_provider_info_lock()`)
and the file keyring (none).  Key changes and new relations insert WAL records;
inserting WAL may write WAL, which comes back into this extension through the WAL
storage manager and may need the key lock.  Recovery replays the records.
pg_rewind shares the key file code with the server and works on a stopped target.

The list of what is hard to test, each item with its line and the properties that
would catch it, is `hazards` in `PROJECT.json`.

### Plan

1. Key files, principal keys and the storage manager's use of them: `KeyMapFile`,
   `KeyMap`; the abstract store `RelKeyStore` it implements.  *Done.*
2. WAL ranges: `WalKeys`; the locks around WAL writes: `WalLockOrder`.  *Done.*
3. Providers and the file keyring: `KeyProviders`.  *Done.*
4. Replay on a standby and in crash recovery: `KeyRedo`.  *Done.*
5. The event triggers: `DdlEvents`.  *Done.*
6. Proofs: type correctness of `KeyMap` and `WalKeys`, order and integrity of the
   WAL ranges.  *Done.*
7. Page input and output: open handles, the asynchronous read callback, keys of
   temporary relations: `PageIO`.  *Done.*
8. Migrating key files of older versions: `Startup`.  Installing the extension and
   base backups: `KeyRedo`.  *Done.*
9. Pure algorithms against reference definitions: the block and WAL vectors
   (`CalcBlockIv`, `CalcXLogPageIVPrefix`) and the keystream at an offset:
   `Ciphers`, `WalCrypt`.  *Done.*  pg_rewind: `Rewind`.  *Done.*
10. Proofs: the safety invariants and the refinement of `KeyMap`; `WalReadable`
    and `ReaderOK`; the providers; pages; the version file; replay and what a standby
    ends up with.  *Done.*
11. Proofs: the event stack and the files of `DdlEvents`.  *Done.*
12. Proofs: what pg_rewind leaves on the target, `Rewind`; the keys of a directory
    that is brought up to date, `Startup`; which bytes of the WAL a range encrypts,
    `WalCrypt`.  *Done.*

## Modules

| Module | Extends or instantiates | Models |
|---|---|---|
| `KeyMapFile` | | a key file as a value: header and slots, and what each function of `tdemap.c` makes of it |
| `KeyMap` | `KeyMapFile`, instance of `RelKeyStore` | backends that create, drop and read relations and change principal keys |
| `RelKeyStore` | | what the storage manager relies on: a relation is bound to a key, or to none, from its creation to its removal |
| `WalKeys` | | the WAL key file, the private lists, WAL pages, starts, recovery, promotion, restore |
| `WalLockOrder` | | the key lock, WALWriteLock and the WAL buffers |
| `KeyProviders` | | provider files, file keyrings, headers that refer to them |
| `KeyRedo` | | a primary and a standby, the log between them |
| `DdlEvents` | | one session's statements and its event stack |
| `PageIO` | | relation files, the SMgrRelations of processes, asynchronous reads |
| `WalCrypt` | | one buffer of WAL, encrypted or decrypted range by range and batch by batch |
| `Ciphers` | | the vectors of WAL segments and of blocks, as functions |
| `Startup` | | a key directory of any version, the starts that bring it up to date, the copy for pg_upgrade |
| `Rewind` | | two diverged clusters and a run of pg_rewind |
| `MC*` | the above (`MCPageIO`: `PageIO`, `WalCrypt` and `Ciphers`) | symmetry sets and constants for TLC |
| `KeyMapProofs` | `KeyMap` | theorems: types, safety and refinement |
| `WalKeysProofs` | `WalKeys` | theorems: types and ranges; reading WAL back |
| `KeyProvidersProofs`, `StartupProofs`, `KeyRedoProofs`, `DdlEventsProofs`, `RewindProofs` | the module of that name | theorems |
| `PageIOProofs` | `PageIO`, `WalCrypt` | theorems: blocks and reads; the bytes of WAL ranges |

`PROJECT.json` maps every definition to the lines it stands for.  In each module a
mutated form stands before some of the definitions (`LargestIdOfLive` before
`LargestId`): the same operation with a plausible mistake in it, which the named
property finds.  `mutants` in `PROJECT.json` pairs them.  `TypeOK` is a property of
its own in `KeyMap` and `WalKeys`, where it is proved; in `KeyProviders`, `KeyRedo`,
`DdlEvents`, `Rewind`, `PageIO` and `Startup` it is a conjunct of one of the safety
invariants.

### KeyMap

`keyfile[o]` is the file of database `o` (`Default` included), `rotfile[o]` the
copy a rotation is making, `cache` the shared hash table, `lock` the exclusive
holder of `tde_lwlock_enc_keys()`.  `stat` and `disk` say of a file number whether
it is in use and what its blocks are encrypted with.  `pc` and `job` are a
backend's place in the code and its local variables.  A step of a backend is what
it does under one lock acquisition, cut where something durable happens, since a
crash may fall there.  A lookup that finds no cached key gives up its shared lock
to take the exclusive one: `GetSmgrKey`, `FindEntry` and `GetKeyUpgraded` are the
three parts of one call.  A set of a key is `BeginSet` and then either
`SaveHeader` or the rotation, entry by entry; a change of the default key adds
`CopyDefault`, `SetDefault`, `StartPropagate` and `PropagateDb`.  With `Faults`
writes may fail.  Commit, abort and drop of the creating transaction are
PostgreSQL's and marked external.

### WalKeys

A WAL page is the set of ranges whose keystream was applied to it; decrypting is
the symmetric difference, so a page read correctly comes out as `{}`.  A start
appends a range without a location (`InitWrite`, `CreateWalRange`).  The first
write that may use it gives it one in the file, publishes it and writes its pages:
`BeginWrite`, `PublishLocation` and `WritePages`, with crashes in between.  In
crash recovery older ranges are used until recovery ends.  A read is `Pread`,
then `CryptBuffer` with a cache that is brought up to date when the published
location is newer.  A standby receives its last segment again, may be given
restored segments, and is promoted to a new timeline.

`hit` is history: the pages on disk over which a newer range has been laid and
that have not been rewritten since.  The comment in `tde_ensure_xlog_key_location`
rests on such pages being rewritten by the write in progress; `WalReadable` says
that all others are readable, and `AlwaysReadable` shows what a crash does to
the encrypted ones among them.

### WalLockOrder

A key change inserts its WAL record with the key lock held; if the WAL buffers are
full it writes them itself, or waits for WALWriteLock.  The first WAL write after
a start takes the key lock with WALWriteLock held.

### KeyProviders

`prov[s]` is the provider file of a scope, deleted records included, `ring[f]` the
keyring file at place `f`, `hdr[o]` the provider id and key that a key file names.
Changing and deleting a provider are a check under one lock and a write under
another; creating a key is a search, a seek and a write without any.  `Fold` says
which names are equal but for their case.  `Changeable` names the scopes whose
providers are moved.

### KeyRedo

Key files are written when the operation happens and again when its record is
replayed.  Every operation of the primary is cut at its WAL insertion, so that a
crash falls between the record and the file, in both orders as the code has them.
Recovery starts from `ckpt`, a standby from its restartpoint.  A standby may be made
by a base backup: `StartBackup` fixes where its replay will start, `ReceiveFile`
copies one file as it is at that time, `EndBackup` starts it.  (PostgreSQL's server
sends the files; `wal_keys`, which `astreamer_inject.c` holds back, is not among
them.)  `Install` and `CleanUp` are CREATE EXTENSION, which removes what an earlier
installation left.  `env` is chosen at
the start: which server crashes, whether there is a standby and how it is made,
which default keys, deletions of keys and of providers and installations there are.

### DdlEvents

`xs` is the transaction and its savepoints, each with what it restores on abort;
`run` the statements in progress; `ev` and `evTid` are `ddlEventStack` and
`ddlEventStackTid`.  A statement's start trigger chooses a mode (`Mix`, `Chosen`,
`OwnerMode`), PostgreSQL then creates files, each under the mode of the top event,
and the end trigger pops.  Any statement may fail and leave its event; address
reuse is explored with two addresses.  `Paths` switches on the ways in which the
code is known to lose track.

### PageIO

`file[r]` holds the forks of the relation with number `r`, a block being the key and
the tweak it was encrypted with; `keyfile` and `temp` are the stored keys,
`handle[p][r]` is what process `p` keeps in its SMgrRelation, `ctx[p]` its cached
cipher context.  `Create` is `tde_mdcreate` with the key that is stored or the
leftover that is removed; `Unlink` and `DeleteKey` are the two halves of
`tde_mdunlink`, since a crash may fall between them.  Every read and write starts
by resolving the status (`Resolved`).  An asynchronous read is `StartReadv`, which
puts the key in the slot of its IO handle, and `Complete`, in any process.  A
restart empties all that processes keep and resets unlogged relations by copying
their init fork.  That a dropped relation has no buffers and no reads, and that its
number is used again only when no process has it open, are PostgreSQL's rules and
marked external, as are eviction (any process may write any block) and DROP
DATABASE, which removes files and leaves keys.

### WalCrypt

A call of `TDEXLogCryptBuffer` for a part of a segment (`job`): `NextKey` passes a range
that does not concern it, `StreamCrypt` enters `open_pg_tde_stream_crypt` for the part
that lies in the range, `CryptBatch` is one round of the loop there and `CryptedRange`
leaves it.  `DecOff` and `DecEnd` are `dec_off` and `dec_end`.  `buf` says of every byte
which bytes of which keystreams it was combined with, so that a byte done twice, left
out, or done with the keystream of another place shows.  Calls share nothing, so one is
enough; reads and writes are the same call.

### Ciphers

Operators with what they should compute beside them: `IvPrefix` and `IvPrefixHalves`
are the two forms of `CalcXLogPageIVPrefix`; `CalcBlockIv` and `TempFileIv` the vectors
of blocks.  Widths are scaled down with their proportions kept (a word of 4 bits for
64), and TLC tries every input of that width (in `MCPageIO`, in the initial states
of the `page_io` run, since no variable is involved).  The random salts of temporary
files are taken to differ in the bytes that no block number reaches.

### Startup

`dir` is the key directory: for the WAL key file and for each database a version
and its entries.  A start is one step per system call that leaves something behind:
`InitDataDir`, `CheckVersion`, then per file `Migrate`, one `MigrateEntry` per
entry and `RenameMigrated`, then the version file, which is truncated and written
(`TruncateVersion`, `WriteVersion`) and never synced: until `SyncVersion`, a crash
may bring back what it was.  `AddKey` is the running server adding a key, which a
crash may cut short.  `RemoveDir` to `Copied` are what `open_pg_tde_upgrade` does
before it runs `pg_upgrade`.  `held` is history: the entries a file had at first and
those added since.  `KeysOf` compares the keys of two files by a correspondence of
entries, from the keys of the one onto those of the other and in order, so that free
and torn entries, which a migration drops, do not count.  The first version of each
kind of file does not name the cipher of a key, which is AES-128: `CipherRead`.

### Rewind

`src` and `tgt` are the relation files of the two clusters: a block is its key and
whose content it has.  They have a common history and, for a relation that each
replayed or created by itself, keys of their own.  `FetchTdeKeys` copies the
source's key files to `tmp`; `BuildFilemap` lists both sides and decides on an
action for each file.  The loops of `perform_rewind` are steps: `OverwritePage` is one
page of the page map, `PerformEntry` the action of an entry.  `cur` is
`current_tde_file`, whose key is written to `tmp` when another file becomes current.
With a live source the blocks asked for go to `queue`: `QueueRange` is one turn of the
loop of `libpq_queue_process_fetch_range`, which appends to the last request, makes one, or
finds the queue full; what is left of the range is in `want` and goes on with
`QueueRest`.  A full queue (`fetching`), and the rest of it at the end, is carried out
one row of the source's answer at a time (`ProcessRow`), until `FinishFetch`.
A live source may create relations after its keys were copied and drop some while files
are fetched.  `InstallKeys` makes
`tmp` the target's key directory, and `Replay` is the target's recovery from the
source's WAL.  WAL segments are sets of keystreams, as in `WalKeys`.  The
histories of relations and of the WAL do not interact and are varied one at a time.

## Runs

| Run | Instance | Result |
|---|---|---|
| `rotation` | 2 backends, 2 relations, 2 internal keys, 2 principal keys, 1 database, failing writes, crashes | passes: no key lost, duplicated, misfiled or handed out for the wrong relation; implements `RelKeyStore` |
| `default_key` | 2 backends, 1 relation, a database key and 2 default keys | passes: the same under fallback, propagation and deletion of the default key; the exclusive lock is always released |
| `wal` | 2 processes, 2 server keys, primary and standby starts, 2 timelines of 2 pages, 3 starts, writes of up to 2 pages | passes: ranges in order, all entries open, pages readable, lagging readers read right |
| `wal_always_readable` | 1 process, 1 timeline of 2 pages, 3 ranges | violated, see below |
| `wal_lock_order` | 3 processes, 2 buffers | passes: once the newest range is located, key changes and writes return |
| `providers` | 1 backend, 2 names equal but for case, 2 places, 3 records per file, 2 keys | passes: keys in use stay loadable, providers in use are kept, ids are never reused |
| `redo` | 2 keys of 2 providers, one of them the database's own, 1 relation, 4 log records, nine environments | passes: recovery ends, keeps committed keys; a standby, also one made by a backup, has the primary's headers and committed entries |
| `ddl` | 2 tables, 1 sequence, 2 nested statements, up to 2 nested savepoints, 4 statements (SAVEPOINT counted), default `tde_heap` | passes: files match access methods, the stack mirrors the statements, enforcement holds |
| `page_io` | 2 processes, 1 file number, 2 keys, 1 IO handle, 2 blocks per fork, 1 restart; before that any part of a segment of 10 bytes, AES blocks of 2, batches of 2, 2 ranges on 3 timelines | passes: every block is under the stored key, no process holds a stale one, every read is right; every byte of WAL is combined with the keystream of its range, once and at its place; vectors are as they should be |
| `upgrade` | 2 databases and the WAL, every version with free and torn entries, 2 faults | passes: no key is lost, the version file is true, no file of another version is met, a start that is repeated succeeds |
| `rewind` | 2 relations of up to 3 blocks in segments of 2, maps, a local and a live source, queues of 2 and of 100, 3 WAL segments | passes: relations and WAL of the target can be read, no block is encrypted twice |
| `rewind_full_queue` | 2 relations, a live source, a queue of 1 | violated, see below |

Why the bounds are enough.  A rotation and a concurrent actor need two backends;
slot reuse and two entries for a relation need two relations; a third principal
key would behave as the first.  Ranges interact with their neighbours only, and
three starts give a range with one on either side (in `wal_always_readable` the third
is the one that would follow the crash); two timelines are needed for a promotion and
for ranges on either side of it, and with two pages to a segment a promotion copies
part of one.  (`wal` was also run with `MaxLsn = 3`,
5.6 million states, with the same result.)  Three provider records allow one to be
deleted, one added and one that only differs in case.  The shortest problem
in replay takes three records and a crash; five are needed for the stale cache.
Two statements nest; a third would meet the same stack one deeper.  (`ddl` was
also run with five statements, 5.3 million states, with the same result.)  A file number
that comes back, another process holding it open and a crash need one number, two
processes and two keys; a block before or after another in one read needs two.
Batches of two AES blocks and segments of five give a buffer a first, a middle and
a last batch, entered at any byte; two ranges that meet give a buffer every piece of
one or of both (they begin and end anywhere in the segment, one byte outside of it, and
before and after).  `MCPageIO` goes through the buffer of WAL first and uses the
relations after it, since the two share no state.  Two faults are enough to crash and
then meet the remains with a second fault; every file is met by itself and the order of
files is free, so a third database adds nothing.  In `rewind` one relation has every
length up to a second segment on each side and any blocks changed, the other is there to
make its key be written back; a queue of two is full after two requests and one of 100
never is.  In `providers` and `KeyRedo` the state space ends at the bound on ids or
records, and `CHECK_DEADLOCK FALSE` says so; pg_rewind ends.

Symmetry is used where the elements are only compared and no liveness is checked.

### Fairness

`KeyMap`'s `FairSpec` is weak fairness of the steps of the backend that holds the
exclusive lock: it waits for no other lock of this extension, so it runs on.
Nothing is assumed of backends that do not hold it.  `WalLockOrder` assumes weak
fairness of a process inside an operation, and strong fairness where one waits for
an LWLock or for room in the WAL buffers: LWLock waiters are queued and woken on
each release, but a newcomer may get in before them.  Nothing makes a process begin
an operation.  `Startup` assumes weak fairness of the steps of a start, taken
together: the postmaster is a single process that waits for nobody, the operator
starts it again after it stopped and removes the version file when told to.  Nothing
is assumed of faults; there are at most `MaxFaults`.

## What the runs refute

`findings` in `PROJECT.json` has the details.

- **`wal_always_readable`**: the first write records where the new range starts and
  syncs that before it rewrites the page there.  The page may be on disk already,
  encrypted with an older range: in the trace it was written in crash recovery, which
  uses the older range.  After a crash in between it is decrypted with the new one
  (`xlog_smgr.c:421`; `variables.md:18`).
- **`rewind_full_queue`**: with a live source a full queue is processed between the
  requests of one relation (`pg_rewind/libpq_source.c:423`), which makes that relation
  the current one while its tail is still to be fetched.  An entry without pages to
  fetch then calls `ensure_tde_keys`, which replaces the current relation's source key
  by the target's in the working copy (`pg_rewind/tde_ops.c:252`), and the tail is
  decrypted with the wrong key.  The comment at `pg_rewind/pg_rewind.c:617` guards
  against the call only for files that have pages of their own to fetch.

### Further disagreements

These are properties of the modules that no run includes.  Each is reproduced by the
config named, with the property as its only one and the changes given.

| Property | Config | Changes | What happens |
|---|---|---|---|
| `UsedProviderKept` | `KeyProvidersRace` | none | `tde_keyring.c:330`: a provider is found unused and deleted in two critical sections; a principal key set in between is stranded and cannot be loaded after a restart.  `functions.md:219`: "You can only delete key providers that are not currently in use." |
| `RecoveryRotateHasKey` | `KeyRedoRotate` | none | `tde_principal_key.c:338`: a rotation, a deletion of the key, a crash: replay of the rotation finds no key and the server does not start.  The comment at 337: "Should not happen". |
| `RecoveryCreateHasKey` | `KeyRedoDeleted` | none | `tdemap.c:121`: a table is created and dropped, the key deleted (`functions.md:330`: refused only "if the current database has any encrypted tables"), a crash: replay of the creation finds no key, and the server does not start.  Installing the extension anew does the same. |
| `RecoveryKeepsKeys` | `KeyRedoInstall` | none | `open_pg_tde.c:185`: BEGIN, DROP EXTENSION CASCADE, CREATE EXTENSION, ROLLBACK: the tables are back, the key file is not.  The comment at `tde_principal_key.c:446` calls the removal "a hack". |
| `ReplayGoesOn` | `KeyRedoBackup` | none | a backup that begins between the record of a first principal key and its file (`tdemap.c:252`) has neither, and a later rotation or creation stops its replay. |
| `PrimaryEntriesUnderHeader` | `KeyRedoStaleCache` | none | `tdemap.c:401`: replaying a deletion unlinks the file and leaves the key in the shared cache.  Set a key, rotate, delete, set again, crash: new relation keys are wrapped with the cached key and not with that of the header, and do not open after a restart (`encryption-architecture.md:14`). |
| `FilesMatchAM` | `DdlIndex` | none | `event_capture.c:227`: ALTER INDEX SET TABLESPACE is an AlterTableStmt of the index, whose access method is never `tde_heap`: the new file of an encrypted table's index is plain (`tde-encrypts.md:8`).  ALTER SEQUENCE SET LOGGED goes the same way. |
| `ReadsRight` | `PageIOShortRead` | none | `smgr.c:554`: a partial asynchronous read ends without decrypting anything, since it "will be retried on a fresh handle"; but only the blocks that were not read are, and those that were are taken as they are.  (That is the buffer manager's part, external here.) |
| `RescanAtWorst` | `StartupVersionFile` | none | `open_pg_tde.c:222`: a version file that could not be written is only warned about, as "the worst that may happen is that we will re-scan all *_keys on the next start"; it is left empty, and every start stops at it as corrupted (267), the present one first when the directory was new. |
| `KeysSurvive` | `Startup` | `PartialCopy = TRUE` | `bin/open_pg_tde_upgrade.c:155`: only `system()` failing is noticed, not `cp`: a key file that could not be copied is missing from the new cluster. |
| `EntryMatchesKey` | `KeyMapRotation` | none | `tdemap.c:886`: the entry is copied before the lock is given up to load the principal key; a rotation in the gap makes the load fail with a decryption error, against the comment at 878.  The next try succeeds. |
| `DefaultFollowed` | `KeyMapDefault` | `PKey` of 3, `DbKey = {}`, `DefaultKey = PKey` | `tde_principal_key.c:673`: two concurrent changes of the default key leave a database on a former one. |
| `NewDefaultKnown` | `KeyMapDefault` | none | `tde_principal_key.c:707`: the default key is deleted between the second and third section; the propagation has no key to propagate. |
| `DefaultLoadable` | `KeyProviders` | `Changeable = {Global}` | `tde_principal_key.c:1306`: the key of the default key file is not among those verified before a provider is changed. |
| `IdsAgree` | `KeyProviders` | none | `tde_keyring.c:804` finds a provider without regard to case, 513 with: the ids differ, which the comment excludes; the error is raised and nothing is written. |
| `WritesAtEnd` | `KeyProviders` | `Proc` of 2 | `keyring_file.c:120`: two sessions find the same end of the file, and the second overwrites the first one's key. |
| `AllWritesEncrypted` | `WalKeys` | none | `xlog_smgr.c:415`: WAL written in crash recovery (end-of-recovery records) takes the older range, which may be an unencrypted one. |
| `KeyChangeReturns` | `WalLockOrder` | none | `tdemap.c:389` against `xlog_keys.c:118`: a key change holds the key lock and waits for WALWriteLock; the first WAL write since the start holds WALWriteLock and waits for the key lock. |
| `FilesMatchAM` | `DdlEvents` | `Paths = {"attach"}` | ATTACH PARTITION builds the index of the new partition under the mode of the partitions that exist (`event_capture.c:392`). |
| `FilesMatchAM` | `DdlEvents` | `Paths = {"nested"}` | TRUNCATE, CLUSTER, REFRESH or REINDEX run by a function inside a captured statement takes the outer mode (line 83); `RecreatedInherits` fails as well (`encryption-architecture.md:59`). |
| `FilesMatchAM` | `DdlEvents` | `Paths = {"block"}` | DDL in a block with an exception handler inside ALTER TABLE throws the outer event away (line 137). |
| `FilesMatchAM` | `DdlEvents` | `Paths = {"schema"}` | CREATE TABLE inside CREATE SCHEMA fires no trigger. |

Seen while reading, without a property of their own:

- pg_rewind: `RelationsIntact` is about relations of one segment.  A second segment
  makes the first one's key be written back, and is then read with it as the
  source's (`tde_ops.c:249`, 257); `reencrypt_fork` numbers the blocks of a map from
  the segment that is current (51-122).  With a live source the maps are still in
  the queue when they are re-encrypted.  Init forks are not re-encrypted at all
  (136-137), although they have the key of the main fork.  `Assert` at 273 does not
  hold when both servers gave the same number to relations of their own of which
  only the source's is encrypted.
- An old key file of version 4 or 5 that ends in a torn entry stops every start
  (`tdemap.c:1033`, 1110), where version 3 and the current reader take it for the
  end.  An empty WAL key file makes `xlog_keys.c:1127` compare a header that was
  not read.  `ComesUp` leaves both out (`Startable`).
- The standby of a primary that crashed after writing a header whose record was
  lost is later sent a rotation it has no key for (`tde_principal_key.c:338`);
  likewise the replay of a rotation whose provider has been deleted since uses a
  null provider (344).  `RedoFails` models both ends; the environments of the
  `redo` run leave them out.
- Copying the default key into a database's file is not logged.  When another session
  rotates that database's key before the creation that copied it has inserted its
  record, a standby has no key to rotate; `ReplayGoesOn` is about standbys without a
  default key.
- The comment at `xlog_keys.c:134` describes replicas that invalidate an
  overtaken range.  `RangesAlwaysOpen` proves that the branch is never taken: a
  new range always starts after the last one.
- `variables.md:44` allows other ALTERs of unencrypted tables while encryption is
  enforced; `checkEncryptionStatus` refuses every ALTER TABLE of one
  (`event_capture.c:443`).  `variables.md:42` allows SET ACCESS METHOD to
  `tde_heap` only; on a partitioned table `heap` is accepted.

## Proofs

The theorems hold for every value of the constants that satisfies the named
assumption of the module (`KeyMapAssumption`, `WalKeysAssumption`, ...): any number
of backends, relations, keys, timelines, pages, ranges, providers, key files and log
records.  Every inductive invariant was checked by TLC as an invariant of a run
before it was proved.

| Module | Theorems | For |
|---|---|---|
| `KeyMapProofs` | `TypeCorrect` | `TypeOK` |
| | `AlwaysUnderHeader`, `AlwaysOneEntry`, `AlwaysCoherent`, `AlwaysRetained`, `NeverMisled` | `EntriesUnderHeader`, `OneEntryPerRelation`, `CacheCoherent`, `KeysRetained`, `LoadNeverMisled` |
| | `KeyMapImplementsStore` | `ImplementsStore`, the refinement of `RelKeyStore` |
| `WalKeysProofs` | `WalTypeCorrect`, `StartsAlwaysIncrease`, `RangesAlwaysOpen` | `TypeOK`, `StartsIncrease`, `RangesOpen` |
| | `WalAlwaysReadable`, `ReadersAlwaysOK` | `WalReadable`, `ReaderOK` |
| `KeyProvidersProofs` | `IdsAlwaysUnique`, `UsedAlwaysKept`, `AlwaysLoadable` | `IdsNeverReused`, `UsedProviderKept`, `KeysLoadable` |
| `PageIOProofs` | `BlocksAlwaysOpen`, `HandlesAlwaysCurrent`, `TempKeysAlwaysOwned`, `ReadsAlwaysRight` | `StoredKeyOpens`, `HandlesCurrent`, `TempKeysOwned`, `ReadsRight` |
| | `RangeBytesCrypted` | `RangeCryptsItsBytes` |
| `StartupProofs` | `VersionAlwaysTrue`, `VersionNeverWrong`, `KeysAlwaysSurvive` | `VersionFileTrue`, `NeverWrongVersion`, `KeysSurvive` |
| `KeyRedoProofs` | `RedoAlwaysUnderHeader`, `RecoveryAlwaysKeeps`, `ReplayAlwaysGoesOn`, `StandbyAlwaysFollows` | `EntriesUnderHeader`, `RecoveryKeepsKeys`, `ReplayGoesOn`, `StandbyFollows` |
| `DdlEventsProofs` | `EnforcedAlways`, `FilesAlwaysMatch`, `StackAlwaysMirrors` | `Enforced`, `FilesMatchAM`, `StackMirrorsRun` |
| `RewindProofs` | `OneKeyPerBlock`, `WalSegmentsIntact`, `RelationsRestored` | `NeverEncryptedTwice`, `WalIntact`, `RelationsIntact` |

`KeyMapProofs`.  `TypeOK` is not inductive, since a step reads
fields of a job that an earlier step of the same backend has filled in.  `TypeInv`
adds `Fits(job, step)`: what each place in the code can rely on, e.g. that a
rotation in progress has an old and a new key and a slot to go on with.  The proof
has one step per action; `OneJob`, `NewJob` and `FinishType` say how a step of
one backend leaves the jobs of the others alone.

For the rest of `KeyMap`, `IInv == TypeInv /\ FileInv /\ LifeInv /\ KeyInv`.  `FileInv` is
about the files and the cache, and about what the holder of the exclusive lock has
done so far (a rotated copy has the entries of the slots passed, under the new key);
it rests on the lock.  `LifeInv` says who creates and drops which relation, so that
no two backends work on one entry.  `KeyInv` says that a relation in use has in the
file the key its blocks are encrypted with, and what a load under way may have read:
the entry it copied may be wrapped with a principal key that was rotated since, and
then is found not to open and is read again.  The refinement maps the bound key of a
relation to what the file has for it; all steps but those that create, drop or save
are shown to stutter.

`WalKeysProofs`.  `IInv == TypeOK /\ FileInv /\ CacheInv /\ PosInv`.  A new range is
located by comparing with the newest one in the writer's *private* list, so its start
is larger than all others only if that list is up to date.  `CacheInv` says why it
is: as long as the location is neither published nor about to be, no range has
been located since the start, and every process still has what it inherited from
the postmaster, which is all of the file.  From there `LocateFile` shows that the branch
that invalidates a range is not taken, hence that types never differ from the
authenticated ones, and `RotateFile` that rotating opens and rewraps all.

For reading WAL back, `SInv == IInv /\ SyncInv /\ ReadInv /\ QuietInv`.  Which range a page
falls into changes, when a start is recorded, for pages at or after the location of
the write that records it and for no other; and a list of ranges that was brought up
to date lacks at most the newest one, and that only between its start being
recorded and being published.  The range a page falls into is a largest one of
finitely many, which is where induction over the numbers is needed
(`WellFoundedInduction`, used for a least counterexample).

`KeyProvidersProofs`.  Ids are unique for any number of backends, since a new id is
past the largest of the file and a deleted record keeps its own.  The other two are
false for two backends (`KeyProvidersRace.cfg`: a provider is deleted between the
check of another session and its write), so they are stated for `OneBackend`,
whatever is in the files.  The argument is about names: a
provider is looked up with the case of its name folded and written to by its
exact name; a record in use is the first one of its folded name, and stays it.
`AlwaysLoadable` also assumes `Vouching`: no default key, or no change of a global
provider, because `ALTER` of a provider checks the databases and the server but
not the default key (see *Further disagreements*).

`PageIOProofs`.  What an SMgrRelation knows of a relation that exists is what is
stored for it; it survives the reuse of a number because a closed one knows
nothing.  The slot of an asynchronous read holds the stored key until the read is
completed.  `ReadsAlwaysRight` assumes `ShortReads = FALSE`; with short reads it is
false (`PageIOShortRead.cfg`).

`RangeBytesCrypted`, in the same module, is about `WalCrypt`.  `CryptInv` says what each
byte has been combined with so far: the keystreams of the ranges gone through that it
lies in, and that of the current range if it comes before `data_index` (`Done`).
`PartInRange` shows that the part given to `open_pg_tde_stream_crypt` is what lies in the
range, also when its end, taken modulo the segment size, is zero; `BatchGoesOn` that a
batch goes on where the one before it ended, in the data and in the keystream; `AllDone`
that nothing is left after the last.  `WalCryptAssumption` has a range with a key end
after its start, as it ends where the next one starts: `StartsAlwaysIncrease`.

`StartupProofs`.  A start that has come past a file leaves it in the current format;
`Done` states that of the files already passed, `CopyTrue` of what
`open_pg_tde_upgrade` has copied so far.  So the version file is written only
when it is true, and stays true when a crash undoes its last write.

`KeysAlwaysSurvive` has an invariant of its own, `KInv == EntryTypes /\ Kept`.  `Kept`
says that each file gives the keys it has held, and that the file a migration is
writing gives the keys of the entries read so far (`KeysOf(tmp, dir, at.read)`).  When
all are read the two correspondences are put one after the other (`KeysOfKeys`) and
the new file takes the place of the old one.  A key entry extends the correspondence
on both sides (`KeysOfAppend`), a free or torn one leaves it as it is (`KeysOfSame`).
`CipherInv` says that the entries which do not name their cipher are still those of
the old directory, whose keys are of 16 bytes, so that they are read with the cipher
they have.
The assumption that at most the last entry of a file found at the start is torn is
what a crash leaves, since entries are written one after the other.  The theorem
assumes `PartialCopy = FALSE`: with a copy that `cp` left incomplete it is false
(*Further disagreements*).

`KeyRedoProofs`.  The invariant has a part per property and one about the log: which
records a scenario can contain, and that no server is past what is flushed.
For `RecoveryKeepsKeys` (`KeepInv`): every committed relation has a creation record
in the flushed part of the log, after which no record removes its entry; and where
recovery finds no entry, that record is still ahead.  For `ReplayGoesOn`
(`PrimaryInv`, `StandbyInv`): in crash recovery the files are those of a time after
every record, so there is a header wherever a record needs one; on a standby the
record that sets a key comes before every one that needs it, and what lies before the
backup's redo point is in the file that is copied.  The hypotheses are the
scenarios for which TLC refutes the properties: `env.install # "any"`
(`KeyRedoInstall.cfg`) and `env.backup # "any"` (`KeyRedoBackup.cfg`); the part about
crash recovery does not need the latter.

For `StandbyFollows` (`FollowInv`) the log is given a meaning: `HeaderIs` and `Made`
say which header and which entries the first *m* records leave.  The primary's files
are what its whole log leaves, but for the one change that is under way
(`FollowPrimary`).  The standby's are what the records before its position leave, or a
record that is still to come writes the header or the entry again (`FollowStandby`): so
a restart, which moves the position back, and a file copied later than the backup's
redo point, do no harm.  The delicate record is the one that sets a key, since replay
keeps a header that is there; `LogSound` says that the records before it leave none.

`DdlEventsProofs`.  `Enforced` rests on `EnfInv`: only the innermost statement is
about to act, and nothing comes between the check of its start trigger and the step in
which it acts, so it acts on what was checked.  It needs no more than that CREATE
TABLE inside CREATE SCHEMA, which fires no trigger, is left out (`"schema" \notin
Paths`).

The other two rest on `FilesInv` and are stated for `Paths = {}`; each path in `Paths`
is one on which TLC refutes `FilesMatchAM` (*Further disagreements*).  `Mirrored` says
that the events of the current transaction are those of its statements in progress,
shifted by one if the outermost of them is a rewrite without an event, and `EventOf`
what the event of each kind of statement says of the tables and sequences it works on:
e.g. that an ALTER TABLE's mode is that of all tables with storage below its table.
This would not last if a statement inside could change those tables, so `Apart` says
that none touches what one around it alters.  `TabsMatch` and `SeqsMatch` are
`FilesMatchAM` for every table and sequence, the ones being worked on included, with
the exceptions named: between the new heap and the reindexing of SET ACCESS METHOD,
and until the end trigger has rewritten the sequences.  `Tagged` and `Snapshots` are
for failure: identifiers of live transactions differ and an outer transaction has no
events on the stack, so what a failed statement left is never obeyed; and what a
rollback brings back matches.  The tables below a table are the least set closed under
children; the proofs use that it can only shrink when no child is added.

`RewindProofs`.  All three rest on what is still to be done: an entry of the file map, a
request in the queue and the range in between (`want`) each promise something about
a block, and no step may take a promise back before it is kept.

`SafeInv` is for `OneKeyPerBlock`.  A block is garbled when it is re-encrypted
under a key it is not under.  `WorkInv` says what the file map and the requests may
still assume of the two clusters although the live source changes: a file listed is
still there with its size, or its whole relation is gone (`Here`); blocks are written
without a gap (`Reached`, `Continues`).  `KeysInv` ties `tmp` and `cur` to the key each
file's blocks are under.

`WalInv` is for `WalSegmentsIntact`: every segment is readable with the keys the target
will have, or an entry or a request is left that will copy, convert or remove it, or it
was restored from the archive and will go back there (`SegmentOK`).

`DataInv` is for `RelationsRestored`.  A file is either copied as it is, and then its key
stays the source's (`Copied`), or kept and patched, and then all its blocks are under
the target's key at all times and every request for it asks for re-encryption
(`Patched`); `BlocksOK` says that each block has the source's content or is planned or
requested.  The key of a patched file is the source's as long as blocks of it are
awaited and the target's after that (`KeyState`: `Waiting`, `Current`, `Finished`), so
the requests for one file must not be separated by those for another: `OrderOK` says
that the queue has them in one run, in the order of the file map, and `CurOK` that the
current file is the one gone through last.  This is where a full queue breaks the
program (`rewind_full_queue`), and where the condition `~split` is used.

Only model-checked: `SegmentVectors` and `BlockVectors` of `Ciphers`.  The vectors are
exclusive ors and powers of two on fixed widths: bit-level arithmetic, and the laws of
powers, which need induction over data, are out of the prover's reach.  So are the
liveness properties (`LockReleased`, `ReturnsOnceLocated`, `WritesOnceLocated`,
`ComesUp`), since the prover has no rules for fairness.

## Not modelled

- Torn writes (but for the last entry of a file, in `Startup`) and an fsync that
  fails inside `durable_rename` after the rename (`tdemap.c:368`: the cache keeps the
  old key): a write or rename is done or not done.
- KMIP and OpenBao clients, JSON options, OpenSSL calls, the choice of the cipher and
  the key of temporary files: input and output, or a lookup in a table.
- Relations that skip WAL (`wal_level = minimal`) in replay; a cascading walsender.
- Heavyweight locks: opening `pg_database` under the key lock
  (`tde_principal_key.c:1453`), a wait the deadlock detector does not see.
- The CREATE and ALTER DATABASE checks (`event_capture.c:629-733`), which only read.
- The WAL of a base backup: with `-E` it is encrypted with a new range through the
  functions that `WalKeys` models, without it the tool only warns.
- Temporary relations of two sessions with the same number, which differ in the
  backend's number in their path.
- `src/fetools` apart from pg_rewind and the course of a base backup, which is more
  than four fifths of the lines of the repository: three versions each of
  pg_basebackup, pg_waldump, pg_checksums, pg_resetwal and others, PostgreSQL's own
  code with a few calls replaced (WAL is read and written through the functions that
  `WalKeys` models).  pg_rewind is
  modelled in its version for PostgreSQL 18; those for 16 and 17 have the same
  changes.

## Running

    tlc -workers 4 -config KeyMapRotation.cfg MCKeyMap
    tlapm KeyMapProofs.tla
    tlapm KeyRedoProofs.tla

`runs` in `PROJECT.json` pairs every config with its module.
