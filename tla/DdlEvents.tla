------------------------------ MODULE DdlEvents ------------------------------
(***************************************************************************)
(* How a DDL statement decides whether the files it creates are encrypted. *)
(* One session.  The start trigger pushes an event with a mode on a stack  *)
(* of the backend, every file created until the end trigger pops it takes  *)
(* that mode, and a file created with no event on the stack keeps what the *)
(* file it replaces had.  A statement that fails leaves its event behind;  *)
(* the stack is tagged with the (sub)transaction that pushed, so that a    *)
(* later transaction does not obey it.                                     *)
(*                                                                         *)
(* Concurrent sessions are kept out by the relation locks the triggers     *)
(* hold to the end of the transaction.  The TOAST table and other indexes  *)
(* are created and rewritten with the main file and the index.  Which      *)
(* statements create which files, and that a statement may run functions   *)
(* with statements of their own, is PostgreSQL's, as its patches and the   *)
(* regression tests of this repository use it.                             *)
(***************************************************************************)
EXTENDS Naturals, Sequences, FiniteSets

CONSTANTS
    Table, Sqn,      \* names of tables and of sequences
    Addr,            \* addresses of parse trees
    MaxDepth,        \* bound: statements in progress, one inside the other
    MaxNest,         \* bound: a transaction and its subtransactions
    MaxStmts,        \* bound: statements and subtransactions started
    Defaults,        \* values of default_table_access_method
    Paths,           \* paths explored on which the code loses track
    None

ASSUME DdlEventsAssumption ==
    /\ MaxDepth \in Nat /\ MaxNest \in Nat /\ MaxStmts \in Nat
    /\ Defaults \subseteq {"heap", "tde_heap"}
    /\ Cardinality(Addr) >= MaxDepth
    /\ Paths \subseteq {"index", "attach", "nested", "block", "schema"}
    /\ None \notin Table \cup Sqn \cup Addr \cup Nat

VARIABLES
    tab,      \* tab[t]: the table and its files, or None
    seq,      \* seq[s]: the sequence, its file and owner, or None
    xs,       \* the transaction and the subtransactions in progress
    run,      \* statements in progress, the innermost last
    ev,       \* ddlEventStack
    evTid,    \* ddlEventStackTid
    dflt,     \* default_table_access_method
    enforce,  \* open_pg_tde.enforce_encryption
    keyed,    \* is a principal key configured
    stmts     \* how many statements and subtransactions were started

vars == <<tab, seq, xs, run, ev, evTid, dflt, enforce, keyed, stmts>>
settings == <<dflt, enforce, keyed>>

AM == {"heap", "tde_heap"}
File == {"none", "plain", "enc"}
Mode == {"retain", "encrypt", "plain"}

\* Identifiers of transactions: they are only compared with live ones and the tag.
Xid == 1..MaxNest + 1

Top(s) == s[Len(s)]
Pop(s) == SubSeq(s, 1, Len(s) - 1)

Tid == Top(xs).xid
HasStorage(t) == tab[t] # None /\ ~tab[t].part

\* t and the tables below it by inheritance or partitioning: the least set with t
\* and with the children of its members.
Children(S) == {c \in Table : tab[c] # None /\ tab[c].up \in S \ {None}}
Down(t) == {t} \cup {c \in Table : \A S \in SUBSET Table : Children(S \cup {t}) \subseteq S => c \in S}

\* What the statements in progress work on.
Busy == (UNION {Down(run[i].rel) \cup {run[i].up} : i \in DOMAIN run}) \ {None}
BusySqn == {run[i].sq : i \in DOMAIN run} \ {None}

-----------------------------------------------------------------------------
(* The event stack.                                                        *)

\* verify_event_stack: the events of another transaction are thrown away.
Kept == IF evTid = Tid THEN ev ELSE <<>>

CurrentMode == IF ev = <<>> THEN "retain" ELSE Top(ev).mode

\* Plausible error: the tag is not looked at.
ModeUnvalidated == CurrentMode
ModeValidated == IF evTid # Tid THEN "retain" ELSE CurrentMode

\* tde_smgr_should_encrypt and tde_mdcreate, for a file that replaces old.
NewFile(old) ==
    CASE ModeValidated = "plain" -> "plain"
      [] ModeValidated = "encrypt" -> "enc"
      [] OTHER -> IF old = "enc" THEN "enc" ELSE "plain"

\* Without a principal key tde_smgr_create_key fails.
CanCreate == ModeValidated = "encrypt" => keyed

ModeOf(am) == IF am = "tde_heap" THEN "encrypt" ELSE "plain"
HaveKeyFor(mode) == mode = "encrypt" => keyed

\* Plausible error: only the key is checked.
StatusKeyOnly(mode) == HaveKeyFor(mode)
\* checkEncryptionStatus, called with the event on the stack.
StatusOK(mode) == IF mode = "encrypt" THEN keyed ELSE ~enforce

\* alter_table_encryption_mix: the methods of the tables with storage.
Mix(t) == {tab[c].am : c \in {d \in Down(t) : HasStorage(d)}}
Mixed(t) == Cardinality(Mix(t)) > 1
MixMode(t) == IF Mix(t) = {} THEN "retain" ELSE ModeOf(CHOOSE m \in Mix(t) : TRUE)

Event(a, mode) == [addr |-> a, mode |-> mode, rebuildFor |-> None, rebuild |-> None]

-----------------------------------------------------------------------------
(* Transactions.                                                           *)

\* Functions, and so further statements, run in CREATE TABLE AS and in the
\* rewrite of a table.
RunsFunctions(s) ==
    /\ s.step # "started"
    /\ \/ s.kind \in {"alter", "rewrite"}
       \/ s.kind = "create" /\ ~s.part /\ s.up = None /\ s.sq = None

\* BEGIN, SAVEPOINT, or a block with an exception handler in a function.
Begin ==
    /\ Len(xs) < MaxNest /\ stmts < MaxStmts
    /\ run # <<>> => "block" \in Paths /\ RunsFunctions(Top(run))
    /\ LET used == {xs[i].xid : i \in DOMAIN xs} \cup {evTid}
           fresh == CHOOSE x \in Xid : x \notin used
       IN  xs' = Append(xs, [xid |-> fresh, tab |-> tab, seq |-> seq, depth |-> Len(run)])
    /\ stmts' = IF xs = <<>> THEN stmts ELSE stmts + 1
    /\ UNCHANGED <<tab, seq, run, ev, evTid, settings>>

Commit ==
    /\ xs # <<>>
    /\ Len(run) = Top(xs).depth
    /\ xs' = Pop(xs)
    /\ UNCHANGED <<tab, seq, run, ev, evTid, settings, stmts>>

RollBack ==
    /\ tab' = Top(xs).tab
    /\ seq' = Top(xs).seq
    /\ run' = SubSeq(run, 1, Top(xs).depth)
    /\ xs' = Pop(xs)

\* ROLLBACK, or an error in a statement: its end trigger does not fire.
Abort ==
    /\ xs # <<>>
    /\ RollBack
    /\ UNCHANGED <<ev, evTid, settings, stmts>>

\* Set between transactions; in one, it would only affect later statements too.
SetEnforce ==
    /\ xs = <<>>
    /\ enforce' = ~enforce
    /\ UNCHANGED <<tab, seq, xs, run, ev, evTid, dflt, keyed, stmts>>

-----------------------------------------------------------------------------
(* The start of a statement, with the start trigger.                       *)

\* Addresses for the parse tree of a statement that may start now.  It may be
\* the address of a tree freed after an error.
FreeAddr ==
    IF /\ xs # <<>>
       /\ Len(run) < MaxDepth
       /\ stmts < MaxStmts
       /\ run # <<>> => RunsFunctions(Top(run))
    THEN Addr \ {run[i].addr : i \in DOMAIN run}
    ELSE {}

Stmt(a, kind, t) ==
    [addr |-> a, kind |-> kind, rel |-> t, am |-> None, part |-> FALSE, up |-> None,
     sq |-> None, triggers |-> TRUE, step |-> "started"]

Enter(s) ==
    /\ run' = Append(run, s)
    /\ UNCHANGED <<tab, seq, xs>>

\* push_event_stack; the checks that follow it may fail.
Push(s, e, ok) ==
    /\ ev' = Append(Kept, e)
    /\ evTid' = Tid
    /\ IF ok THEN Enter(s) ELSE RollBack
    /\ UNCHANGED settings

\* The method of a new table: its own, its partitioned parent's, the default.
Chosen(using, up) ==
    CASE using # None -> using
      [] using = None /\ up # None /\ tab[up].part /\ tab[up].am # None -> tab[up].am
      [] OTHER -> dflt

\* CREATE TABLE and CREATE TABLE AS; with s # None it has a serial primary key.
\* A CREATE TABLE inside CREATE SCHEMA fires no triggers.
StartCreate(a, t, using, part, up, s, triggers) ==
    LET mode == ModeOf(Chosen(using, up))
        am == IF part /\ using = None /\ (up = None \/ tab[up].am = None)
                 THEN None ELSE Chosen(using, up)
        stmt == [Stmt(a, "create", t) EXCEPT !.am = am, !.part = part, !.up = up,
                                             !.sq = s, !.triggers = triggers]
    IN  /\ tab[t] = None
        /\ triggers \/ "schema" \in Paths
        /\ up # None => tab[up] # None /\ (part => tab[up].part)
        /\ s # None => seq[s] = None /\ s \notin BusySqn
        /\ {t, up} \cap Busy = {}
        /\ IF triggers
              THEN Push(stmt, Event(a, mode), StatusOK(mode))
              ELSE Enter(stmt) /\ UNCHANGED <<ev, evTid, settings>>

StartIndex(a, t) ==
    /\ tab[t] # None /\ tab[t].idx = "none" /\ Down(t) \cap Busy = {}
    /\ ~Mixed(t)
    /\ Push(Stmt(a, "index", t), Event(a, MixMode(t)), TRUE)

\* ALTER TABLE, with am # None SET ACCESS METHOD am.
StartAlter(a, t, am) ==
    LET own == am # None /\ HasStorage(t)
        mode == IF own THEN ModeOf(am) ELSE MixMode(t)
        e == [Event(a, mode) EXCEPT !.rebuildFor = IF own THEN t ELSE None]
    IN  /\ tab[t] # None /\ Down(t) \cap Busy = {}
        /\ ~Mixed(t)
        /\ HaveKeyFor(mode)
        /\ Push([Stmt(a, "alter", t) EXCEPT !.am = am], e, StatusOK(mode))

\* ALTER TABLE t ATTACH PARTITION c, which gives c the indexes of t.
StartAttach(a, t, c) ==
    /\ tab[t] # None /\ tab[t].part /\ HasStorage(c) /\ tab[c].up = None
    /\ (Down(t) \cup Down(c)) \cap Busy = {}
    /\ tab[t].idx = "none" \/ tab[c].idx # "none" \/ "attach" \in Paths
    /\ ~Mixed(t)
    /\ HaveKeyFor(MixMode(t))
    /\ Push([Stmt(a, "attach", t) EXCEPT !.up = c], Event(a, MixMode(t)), StatusOK(MixMode(t)))

\* ALTER INDEX SET TABLESPACE comes as an ALTER TABLE of the index, which has
\* storage and an access method other than tde_heap.
StartAlterIndex(a, t) ==
    /\ HasStorage(t) /\ t \notin Busy /\ tab[t].idx # "none"
    /\ tab[t].am = "heap" \/ "index" \in Paths
    /\ Push(Stmt(a, "alterindex", t), Event(a, "plain"), StatusOK("plain"))

OwnerMode(t) == IF t = None THEN "plain" ELSE ModeOf(tab[t].am)

\* CREATE SEQUENCE, OWNED BY t if t # None.
StartCreateSeq(a, s, t) ==
    /\ seq[s] = None /\ s \notin BusySqn
    /\ t # None => tab[t] # None
    /\ HaveKeyFor(OwnerMode(t))
    /\ Push([Stmt(a, "cseq", t) EXCEPT !.sq = s], Event(a, OwnerMode(t)), TRUE)

\* ALTER SEQUENCE OWNED BY t, or NONE: the end trigger rewrites the sequence.
StartAlterSeq(a, s, t) ==
    /\ seq[s] # None /\ s \notin BusySqn
    /\ t # None => tab[t] # None
    /\ HaveKeyFor(OwnerMode(t))
    /\ Push([Stmt(a, "aseq", t) EXCEPT !.sq = s],
            [Event(a, OwnerMode(t)) EXCEPT !.rebuild = s], TRUE)

\* ALTER SEQUENCE RESTART.
StartRestartSeq(a, s) ==
    /\ seq[s] # None /\ s \notin BusySqn
    /\ Push([Stmt(a, "restart", None) EXCEPT !.sq = s], Event(a, "retain"), TRUE)

\* Statements the start trigger does not look at.  TRUNCATE, CLUSTER, REFRESH
\* and REINDEX give a table new files.  TRUNCATE fires no triggers, and keeps the
\* files of a table that its own (sub)transaction created.
StartRewrite(a, t, triggers) ==
    /\ run # <<>> => "nested" \in Paths
    /\ HasStorage(t) /\ t \notin Busy
    /\ triggers \/ Top(xs).tab[t] # None
    /\ Enter([Stmt(a, "rewrite", t) EXCEPT !.triggers = triggers])
    /\ UNCHANGED <<ev, evTid, settings>>

StartDrop(a, t) ==
    /\ tab[t] # None /\ t \notin Busy /\ Down(t) = {t}
    /\ \A s \in BusySqn : seq[s] = None \/ seq[s].owner # t
    /\ Enter(Stmt(a, "drop", t))
    /\ UNCHANGED <<ev, evTid, settings>>

-----------------------------------------------------------------------------
(* The statements at work.                                                 *)

At(kind, step) == xs # <<>> /\ Len(run) > Top(xs).depth
                  /\ Top(run).kind \in kind /\ Top(run).step = step

Goto(step) == run' = [run EXCEPT ![Len(run)].step = step]

CreateTable ==
    LET s == Top(run)
        made == IF s.part THEN "shell" ELSE NewFile("none")
        indexed == s.sq # None \/ (s.up # None /\ tab[s.up].part /\ tab[s.up].idx # "none")
    IN  /\ At({"create"}, "started")
        /\ CanCreate
        /\ tab' = [tab EXCEPT ![s.rel] =
                      [am |-> s.am, part |-> s.part, up |-> s.up,
                       main |-> IF s.part THEN "none" ELSE made,
                       idx |-> IF indexed THEN made ELSE "none"]]
        /\ seq' = [q \in Sqn |-> IF q = s.sq THEN [file |-> NewFile("none"), owner |-> s.rel]
                                 ELSE seq[q]]
        /\ Goto("done")
        /\ UNCHANGED <<xs, ev, evTid, settings, stmts>>

\* An index on a partitioned table is created on its partitions too.
CreateIndex ==
    LET t == Top(run).rel
        on == {c \in IF tab[t].part THEN Down(t) ELSE {t} : tab[c].idx = "none"}
    IN  /\ At({"index"}, "started")
        /\ CanCreate
        /\ tab' = [c \in Table |->
                      IF c \in on
                         THEN [tab[c] EXCEPT !.idx = IF tab[c].part THEN "shell" ELSE NewFile("none")]
                         ELSE tab[c]]
        /\ Goto("done")
        /\ UNCHANGED <<seq, xs, ev, evTid, settings, stmts>>

\* The tables a rewrite gives new files: SET ACCESS METHOD does not recurse.
Rewritten(s) ==
    {c \in IF s.kind = "rewrite" \/ s.am # None THEN {s.rel} ELSE Down(s.rel) : HasStorage(c)}

\* The new heap replaces the old one, with its new access method; functions may
\* run before the indexes follow.
RewriteHeap ==
    LET s == Top(run) IN
    /\ At({"alter", "rewrite"}, "started")
    /\ CanCreate
    /\ tab' = [c \in Table |->
                  IF c = s.rel \/ c \in Rewritten(s)
                     THEN [tab[c] EXCEPT
                              !.am = IF c = s.rel /\ s.am # None THEN s.am ELSE @,
                              !.main = IF c \in Rewritten(s) THEN NewFile(@) ELSE @]
                     ELSE tab[c]]
    /\ Goto("heap")
    /\ UNCHANGED <<seq, xs, ev, evTid, settings, stmts>>

Reindex ==
    LET s == Top(run) IN
    /\ At({"alter", "rewrite"}, "heap")
    /\ CanCreate
    /\ tab' = [c \in Table |->
                  IF c \in Rewritten(s) /\ tab[c].idx # "none"
                     THEN [tab[c] EXCEPT !.idx = NewFile(@)] ELSE tab[c]]
    /\ Goto("done")
    /\ UNCHANGED <<seq, xs, ev, evTid, settings, stmts>>

MoveIndex ==
    LET t == Top(run).rel IN
    /\ At({"alterindex"}, "started")
    /\ CanCreate
    /\ tab' = [tab EXCEPT ![t].idx = NewFile(@)]
    /\ Goto("done")
    /\ UNCHANGED <<seq, xs, ev, evTid, settings, stmts>>

Attach ==
    LET t == Top(run).rel
        c == Top(run).up
        indexes == tab[t].idx # "none" /\ tab[c].idx = "none"
    IN  /\ At({"attach"}, "started")
        /\ indexes => CanCreate
        /\ tab' = [tab EXCEPT ![c].up = t,
                              ![c].idx = IF indexes THEN NewFile("none") ELSE @]
        /\ Goto("done")
        /\ UNCHANGED <<seq, xs, ev, evTid, settings, stmts>>

ChangeSeq ==
    LET s == Top(run) IN
    /\ At({"cseq", "aseq", "restart"}, "started")
    /\ s.kind # "aseq" => CanCreate
    /\ seq' = [seq EXCEPT ![s.sq] =
                  CASE s.kind = "cseq" -> [file |-> NewFile("none"), owner |-> s.rel]
                    [] s.kind = "aseq" -> [seq[s.sq] EXCEPT !.owner = s.rel]
                    [] OTHER -> [seq[s.sq] EXCEPT !.file = NewFile(seq[s.sq].file)]]
    /\ Goto("done")
    /\ UNCHANGED <<tab, xs, ev, evTid, settings, stmts>>

DropTable ==
    LET t == Top(run).rel IN
    /\ At({"drop"}, "started")
    /\ tab' = [tab EXCEPT ![t] = None]
    /\ seq' = [s \in Sqn |-> IF seq[s] # None /\ seq[s].owner = t THEN None ELSE seq[s]]
    /\ Goto("done")
    /\ UNCHANGED <<xs, ev, evTid, settings, stmts>>

-----------------------------------------------------------------------------
(* The end trigger.                                                        *)

\* Plausible error: whatever event is last ends.
EndsAnyEvent(s) == s.triggers /\ ev # <<>>
\* The last event is taken for the statement's own by the address of its tree.
EndsEvent(s) == s.triggers /\ ev # <<>> /\ Top(ev).addr = s.addr

\* The sequences SequenceChangePersistence rewrites.
Rebuilt(e) ==
    {s \in Sqn : \/ s = e.rebuild
                 \/ e.rebuildFor # None /\ seq[s] # None /\ seq[s].owner = e.rebuildFor}

\* open_pg_tde_ddl_command_end_capture: rewrite sequences under the mode, pop.  A
\* relation that is gone is an error.
End ==
    LET s == Top(run) IN
    /\ At({"create", "index", "alter", "alterindex", "attach", "cseq", "aseq", "restart",
           "rewrite", "drop"}, "done")
    /\ IF EndsEvent(s)
          THEN /\ Top(ev).rebuildFor # None => tab[Top(ev).rebuildFor] # None
               /\ \A q \in Rebuilt(Top(ev)) : seq[q] # None
               /\ Rebuilt(Top(ev)) # {} => CanCreate
               /\ seq' = [q \in Sqn |-> IF q \in Rebuilt(Top(ev))
                                           THEN [seq[q] EXCEPT !.file = NewFile(@)] ELSE seq[q]]
               /\ ev' = Pop(ev)
          ELSE UNCHANGED <<seq, ev>>
    /\ run' = Pop(run)
    /\ UNCHANGED <<tab, xs, evTid, settings, stmts>>

-----------------------------------------------------------------------------
Init ==
    /\ tab = [t \in Table |-> None]
    /\ seq = [s \in Sqn |-> None]
    /\ xs = <<>> /\ run = <<>> /\ ev = <<>> /\ evTid = None
    /\ dflt \in Defaults /\ enforce = FALSE /\ keyed \in BOOLEAN
    /\ stmts = 0

\* One statement more begins.
Start(a) ==
    /\ stmts' = stmts + 1
    /\ \/ \E t \in Table :
             \/ \E using \in AM \cup {None}, part \in BOOLEAN, up \in Table \cup {None},
                   s \in Sqn \cup {None}, triggers \in BOOLEAN :
                   StartCreate(a, t, using, part, up, s, triggers)
             \/ StartIndex(a, t)
             \/ \E am \in AM \cup {None} : StartAlter(a, t, am)
             \/ StartAlterIndex(a, t)
             \/ \E c \in Table : StartAttach(a, t, c)
             \/ \E triggers \in BOOLEAN : StartRewrite(a, t, triggers)
             \/ StartDrop(a, t)
       \/ \E s \in Sqn :
             \/ \E t \in Table \cup {None} : StartCreateSeq(a, s, t) \/ StartAlterSeq(a, s, t)
             \/ StartRestartSeq(a, s)

Next ==
    \/ Begin \/ Commit \/ Abort \/ SetEnforce
    \/ \E a \in FreeAddr : Start(a)
    \/ CreateTable \/ CreateIndex \/ RewriteHeap \/ Reindex \/ MoveIndex \/ Attach
    \/ ChangeSeq \/ DropTable
    \/ End

Spec == Init /\ [][Next]_vars

-----------------------------------------------------------------------------
TableRec == [am : AM \cup {None}, part : BOOLEAN, up : Table \cup {None},
             main : File, idx : File \cup {"shell"}]
SqnRec == [file : {"plain", "enc"}, owner : Table \cup {None}]

ASSUME NoRelationAssumption == None \notin TableRec \cup SqnRec

\* Types.  The stack of events is never deeper than the statements can nest: what
\* failed statements leave on it does not pile up.
TypeOK ==
    /\ tab \in [Table -> TableRec \cup {None}]
    /\ seq \in [Sqn -> SqnRec \cup {None}]
    /\ Len(ev) <= MaxDepth
    /\ \A i \in DOMAIN ev :
           /\ ev[i].addr \in Addr /\ ev[i].mode \in Mode
           /\ ev[i].rebuildFor \in Table \cup {None} /\ ev[i].rebuild \in Sqn \cup {None}
    /\ evTid \in Xid \cup {None}
    /\ Len(xs) <= MaxNest /\ Len(run) <= MaxDepth
    /\ dflt \in Defaults /\ enforce \in BOOLEAN /\ keyed \in BOOLEAN
    /\ stmts \in 0..MaxStmts

FileOf(t) == IF tab[t].am = "tde_heap" THEN "enc" ELSE "plain"

\* The files of a table no statement is working on, its index and its sequences
\* are encrypted exactly if its access method is tde_heap; a sequence without an
\* owner is not.  It is about the modes the triggers leave for tde_mdcreate, over
\* failed and nested statements.
FilesMatchAM ==
    /\ \A t \in Table \ Busy :
           HasStorage(t) => tab[t].main = FileOf(t) /\ tab[t].idx \in {"none", FileOf(t)}
    /\ \A s \in Sqn \ BusySqn : seq[s] # None =>
           IF seq[s].owner = None THEN seq[s].file = "plain"
           ELSE seq[s].owner \notin Busy /\ HasStorage(seq[s].owner)
                   => seq[s].file = FileOf(seq[s].owner)

\* The events tagged with the current transaction are those of its captured
\* statements in progress, in order: the last event is the innermost statement's.
StackMirrorsRun ==
    TypeOK /\ (xs # <<>> =>
        LET Captured(s) == s.triggers /\ s.kind \notin {"rewrite", "drop"}
            mine == {i \in Top(xs).depth + 1..Len(run) : Captured(run[i])}
        IN  /\ Len(Kept) = Cardinality(mine)
            /\ \A i \in mine :
                   Kept[Cardinality({j \in mine : j <= i})].addr = run[i].addr)

\* While encryption is enforced no statement makes a table with storage an
\* unencrypted one (a rollback may bring one back).
Enforced ==
    [][enforce /\ Len(xs') >= Len(xs) =>
          \A t \in Table : HasStorage(t)' /\ tab'[t].am # "tde_heap"
                              => HasStorage(t) /\ tab[t].am # "tde_heap"]_vars

-----------------------------------------------------------------------------
(* What the documentation says, and the model refutes with "nested" in Paths. *)

\* encryption-architecture.md: a file created again by TRUNCATE inherits the
\* encryption information of the file it replaces.
RecreatedInherits ==
    [][xs # <<>> /\ RewriteHeap /\ Top(run).kind = "rewrite" /\ ~Top(run).triggers =>
          tab'[Top(run).rel].main = tab[Top(run).rel].main]_vars

=============================================================================
