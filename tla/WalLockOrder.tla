---------------------------- MODULE WalLockOrder ----------------------------
(***************************************************************************)
(* The two locks a change of a principal key and a write of WAL take in    *)
(* opposite orders.  A backend that sets, rotates or deletes a principal   *)
(* key holds tde_lwlock_enc_keys() exclusively while it inserts the WAL    *)
(* record of the change; if the WAL buffers are full, the insertion itself *)
(* takes WALWriteLock and writes WAL.  The first write that uses the range *)
(* created at server start takes tde_lwlock_enc_keys() under WALWriteLock, *)
(* to record where the range starts.                                       *)
(*                                                                         *)
(* Neither lock is re-entrant and PostgreSQL detects no deadlock between   *)
(* LWLocks.  The model keeps the locks, the WAL buffers and whether the    *)
(* newest range has its location, and nothing else of the operations.      *)
(***************************************************************************)
EXTENDS Naturals

CONSTANTS
    Proc,       \* processes of the server
    Buffers,    \* WAL buffer pages; a record fills one
    None

ASSUME WalLockOrderAssumption ==
    /\ None \notin Proc
    /\ Buffers \in Nat \ {0}

VARIABLES
    enc,       \* exclusive holder of tde_lwlock_enc_keys(), or None
    walWrite,  \* holder of WALWriteLock, or None
    dirty,     \* WAL buffer pages not yet written
    located,   \* the newest range has a location (or WAL was never encrypted)
    inserting, \* processes in the middle of an insertion
    changing,  \* those of them that insert the record of a key change
    pc         \* where each process is

vars == <<enc, walWrite, dirty, located, inserting, changing, pc>>

Init ==
    /\ enc = None
    /\ walWrite = None
    /\ dirty = 0
    /\ located \in BOOLEAN
    /\ inserting = {}
    /\ changing = {}
    /\ pc = [p \in Proc |-> "idle"]

Goto(p, step) == pc' = [pc EXCEPT ![p] = step]

-----------------------------------------------------------------------------
(* Inserting a record.                                                     *)

\* Any transaction inserts WAL.
BeginInsert(p) ==
    /\ pc[p] = "idle"
    /\ inserting' = inserting \cup {p}
    /\ Goto(p, "insert")
    /\ UNCHANGED <<enc, walWrite, dirty, located, changing>>

\* A key change: the lock is taken and the key file written, then the record
\* is inserted with the lock held.
BeginKeyChange(p) ==
    /\ pc[p] = "idle"
    /\ enc = None
    /\ enc' = p
    /\ inserting' = inserting \cup {p}
    /\ changing' = changing \cup {p}
    /\ Goto(p, "insert")
    /\ UNCHANGED <<walWrite, dirty, located>>

\* There is room in the buffers; a key change then releases its lock.
Insert(p) ==
    /\ pc[p] = "insert"
    /\ dirty < Buffers
    /\ dirty' = dirty + 1
    /\ enc' = IF p \in changing THEN None ELSE enc
    /\ inserting' = inserting \ {p}
    /\ changing' = changing \ {p}
    /\ Goto(p, "idle")
    /\ UNCHANGED <<walWrite, located>>

BuffersFull(p) ==
    /\ pc[p] = "insert"
    /\ dirty = Buffers
    /\ Goto(p, "full")
    /\ UNCHANGED <<enc, walWrite, dirty, located, inserting, changing>>

-----------------------------------------------------------------------------
(* Writing WAL.                                                            *)

\* A full buffer is written by whoever needs the page, unless somebody else
\* has written it by the time the lock is granted.
LockToEvict(p) ==
    /\ pc[p] = "full"
    /\ walWrite = None
    /\ \/ dirty = Buffers /\ walWrite' = p /\ Goto(p, "write")
       \/ dirty < Buffers /\ Goto(p, "insert") /\ UNCHANGED walWrite
    /\ UNCHANGED <<enc, dirty, located, inserting, changing>>

\* A commit, the walwriter or the checkpointer flushes.
LockToFlush(p) ==
    /\ pc[p] = "idle"
    /\ dirty > 0
    /\ walWrite = None
    /\ walWrite' = p
    /\ Goto(p, "write")
    /\ UNCHANGED <<enc, dirty, located, inserting, changing>>

\* tde_ensure_xlog_key_location finds that the newest range has no location.
NeedLocation(p) ==
    /\ pc[p] = "write"
    /\ ~located
    /\ Goto(p, "locate")
    /\ UNCHANGED <<enc, walWrite, dirty, located, inserting, changing>>

\* open_pg_tde_wal_last_range_set_location takes and releases the lock.
SetLocation(p) ==
    /\ pc[p] = "locate"
    /\ enc = None
    /\ located' = TRUE
    /\ Goto(p, "write")
    /\ UNCHANGED <<enc, walWrite, dirty, inserting, changing>>

\* The buffers are written; a process that needed room goes on inserting.
WriteKeepingLock(p) ==
    /\ pc[p] = "write"
    /\ located
    /\ dirty' = 0
    /\ Goto(p, IF p \in inserting THEN "insert" ELSE "idle")
    /\ UNCHANGED <<enc, walWrite, located, inserting, changing>>
Write(p) ==
    /\ pc[p] = "write"
    /\ located
    /\ dirty' = 0
    /\ walWrite' = None
    /\ Goto(p, IF p \in inserting THEN "insert" ELSE "idle")
    /\ UNCHANGED <<enc, located, inserting, changing>>

-----------------------------------------------------------------------------
Next ==
    \E p \in Proc :
        \/ BeginInsert(p) \/ BeginKeyChange(p) \/ Insert(p) \/ BuffersFull(p)
        \/ LockToEvict(p) \/ LockToFlush(p) \/ NeedLocation(p)
        \/ SetLocation(p) \/ Write(p)

\* Fairness: a process inside an operation runs on, and one that waits for an
\* LWLock or for room in the buffers gets it if it becomes free again and
\* again (waiters are queued, and woken on every release).
FairSpec ==
    /\ Init /\ [][Next]_vars
    /\ \A p \in Proc :
          /\ WF_vars(BuffersFull(p)) /\ WF_vars(NeedLocation(p)) /\ WF_vars(Write(p))
          /\ SF_vars(Insert(p)) /\ SF_vars(LockToEvict(p)) /\ SF_vars(SetLocation(p))

-----------------------------------------------------------------------------
(* Liveness.                                                               *)

\* Once the newest range has its location, a change of a principal key always
\* returns, though it may have to write WAL with tde_lwlock_enc_keys() held:
\* nobody takes that lock under WALWriteLock any more.
ReturnsOnceLocated ==
    \A p \in Proc : located /\ p \in changing ~> p \notin changing

\* Likewise every WAL write then completes.
WritesOnceLocated ==
    \A p \in Proc : located /\ walWrite = p ~> walWrite # p

\* Every change of a principal key returns, and so releases the lock that all
\* loads of relation keys need.  The comment in open_pg_tde_perform_rotate_key
\* has WAL flushed only after the function has returned; the model refutes it.
KeyChangeReturns == \A p \in Proc : p \in changing ~> p \notin changing

=============================================================================
