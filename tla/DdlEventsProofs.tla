-------------------------- MODULE DdlEventsProofs --------------------------
(***************************************************************************)
(* Proofs about DdlEvents, for any number of tables, sequences, nested     *)
(* statements and subtransactions.                                         *)
(*                                                                         *)
(* Enforced rests on EnfInv: only the innermost statement is about to act, *)
(* and it acts on what its start trigger has checked.  The other two rest  *)
(* on FilesInv: the events of a transaction are those of its statements,   *)
(* each event says what its statement creates, no statement touches the    *)
(* tables that one around it alters, and files match except where a        *)
(* statement in progress still has to rewrite them.                        *)
(***************************************************************************)
EXTENDS DdlEvents, FiniteSetTheorems, TLAPS

-----------------------------------------------------------------------------
(* Types.                                                                  *)

Kind == {"create", "index", "alter", "alterindex", "attach", "cseq", "aseq", "restart",
         "rewrite", "drop"}
Tabs == [Table -> TableRec \cup {None}]
Sqns == [Sqn -> SqnRec \cup {None}]
XactRec == [xid : Xid, tab : Tabs, seq : Sqns, depth : Nat]
StmtRec == [addr : Addr, kind : Kind, rel : Table \cup {None}, am : AM \cup {None},
            part : BOOLEAN, up : Table \cup {None}, sq : Sqn \cup {None},
            triggers : BOOLEAN, step : {"started", "heap", "done"}]
EventRec == [addr : Addr, mode : Mode, rebuildFor : Table \cup {None},
             rebuild : Sqn \cup {None}]

Types ==
    /\ tab \in Tabs /\ seq \in Sqns
    /\ xs \in Seq(XactRec) /\ run \in Seq(StmtRec) /\ ev \in Seq(EventRec)
    /\ Len(xs) <= MaxNest /\ Len(run) <= MaxDepth
    /\ evTid \in Xid \cup {None}
    /\ dflt \in Defaults /\ enforce \in BOOLEAN /\ keyed \in BOOLEAN
    /\ stmts \in 0..MaxStmts

\* A statement runs in a transaction, and only the innermost is about to act.
Nested ==
    /\ xs = <<>> => run = <<>>
    /\ xs # <<>> => xs[1].depth = 0
    /\ \A i \in DOMAIN xs :
           /\ xs[i].depth <= Len(run)
           /\ xs[i].depth > 0 => run[xs[i].depth].step # "started"
           /\ \A j \in DOMAIN xs : i <= j => xs[i].depth <= xs[j].depth
    /\ \A i \in DOMAIN run : run[i].step = "started" => i = Len(run)

Stored(t) == tab[t] # None /\ tab[t].part = FALSE

\* What a statement that is about to act relies on.
Ready(s) ==
    /\ s.kind \notin {"create", "alter"} => s.am = None
    /\ s.step = "started" =>
          /\ s.kind = "create" /\ s.part = FALSE /\ enforce = TRUE => s.am = "tde_heap"
          /\ s.kind = "create" => s.rel \in Table /\ tab[s.rel] = None
          /\ s.kind \in {"index", "alter", "rewrite", "alterindex", "attach"} =>
                 s.rel \in Table /\ tab[s.rel] # None
          /\ s.kind = "alter" /\ s.am # None /\ Stored(s.rel) /\ enforce = TRUE =>
                 s.am = "tde_heap"
          /\ s.kind = "alterindex" => tab[s.rel].idx # "none"
          /\ s.kind = "attach" => s.up \in Table /\ Stored(s.up)
          /\ s.kind \in {"cseq", "aseq"} => s.rel = None \/ tab[s.rel] # None
          /\ s.kind \in {"cseq", "aseq", "restart"} => s.sq \in Sqn
          /\ s.kind \in {"aseq", "restart"} => seq[s.sq] # None

EnfInv == Types /\ Nested /\ \A i \in DOMAIN run : Ready(run[i])

-----------------------------------------------------------------------------
(* The invariant of a session that stays off the paths in Paths.           *)

FileFor(am) == IF am = "tde_heap" THEN "enc" ELSE "plain"

\* Every transaction has its own identifier, and an outer one no events.
Tagged ==
    /\ \A i, j \in DOMAIN xs : xs[i].xid = xs[j].xid => i = j
    /\ \A i \in DOMAIN xs : xs[i].xid = evTid /\ i < Len(xs) => ev = <<>>

\* Subtransactions begin between statements.  Only the first statement in progress
\* can be one that rewrites without an event, only the last a DROP.
Lined ==
    /\ \A i \in DOMAIN xs : xs[i].depth = 0
    /\ \A i \in DOMAIN run :
           /\ i < Len(run) => run[i].kind \in {"alter", "rewrite", "create"}
           /\ run[i].kind = "rewrite" => i = 1
           /\ run[i].kind = "alter" => run[i].rel \in Table
           /\ run[i].kind # "rewrite" => run[i].triggers = TRUE
           /\ \A j \in DOMAIN run : run[i].addr = run[j].addr => i = j

Skipped == IF run # <<>> /\ run[1].kind = "rewrite" THEN 1 ELSE 0
Events == Len(run) - Skipped - IF run # <<>> /\ Top(run).kind = "drop" THEN 1 ELSE 0

\* What the event e says of the statement s it was pushed for.
EventOf(e, s) ==
    /\ e.addr = s.addr
    /\ e.rebuild = IF s.kind = "aseq" THEN s.sq ELSE None
    /\ s.kind # "alter" => e.rebuildFor = None
    /\ s.kind = "create" /\ s.part = FALSE => s.am \in AM /\ e.mode = ModeOf(s.am)
    /\ s.kind = "index" /\ s.step = "started" =>
           \A c \in Down(s.rel) : Stored(c) => e.mode = ModeOf(tab[c].am)
    /\ s.kind = "alter" =>
          /\ e.rebuildFor = IF s.am # None /\ Stored(s.rel) THEN s.rel ELSE None
          /\ s.am = None => \A c \in Down(s.rel) : Stored(c) => e.mode = ModeOf(tab[c].am)
          /\ s.am # None /\ Stored(s.rel) =>
                /\ e.mode = ModeOf(s.am)
                /\ s.step # "started" => tab[s.rel].am = s.am
    /\ s.kind = "alterindex" /\ s.step = "started" =>
          /\ tab[s.rel].am = "heap"
          /\ e.mode = "plain"
    /\ s.kind \in {"cseq", "aseq"} => e.mode = OwnerMode(s.rel)
    /\ s.kind = "aseq" /\ s.step = "done" =>
          s.sq \in Sqn /\ seq[s.sq] # None /\ seq[s.sq].owner = s.rel
    /\ s.kind = "restart" => e.mode = "retain"

\* The events of the transaction are those of its statements.
Mirrored ==
    /\ Len(ev) <= MaxDepth
    /\ xs # <<>> =>
          /\ Len(Kept) = Events
          /\ \A i \in 1..Events : EventOf(Kept[i], run[i + Skipped])

\* The tables a statement changes.
Touched(s) ==
    CASE s.kind \in {"index", "alter"} -> Down(s.rel)
      [] s.kind \in {"create", "attach", "alterindex", "rewrite", "drop"} -> {s.rel, s.up}
      [] OTHER -> {}

\* A statement does not touch what one around it alters.
Apart ==
    \A i, j \in DOMAIN run :
        i < j /\ run[i].kind = "alter" => Touched(run[j]) \cap Down(run[i].rel) = {}

\* An ATTACH that is about to act creates no index.
NoAttachedIndex ==
    \A i \in DOMAIN run : run[i].kind = "attach" /\ run[i].step = "started" =>
        tab[run[i].rel].idx = "none" \/ tab[run[i].up].idx # "none"

\* The statement s gives its table another access method.
Changing(s) == s.kind = "alter" /\ s.am # None /\ s.step # "started"

TabsMatch ==
    \A t \in Table : Stored(t) =>
        /\ tab[t].am \in AM
        /\ tab[t].main = FileFor(tab[t].am)
        /\ \/ tab[t].idx \in {"none", FileFor(tab[t].am)}
           \/ \E i \in DOMAIN run : Changing(run[i]) /\ run[i].step = "heap" /\ run[i].rel = t

SeqsMatch ==
    \A s \in Sqn : seq[s] # None =>
        /\ seq[s].owner # None => tab[seq[s].owner] # None
        /\ \/ \E i \in DOMAIN run :
                 \/ Changing(run[i]) /\ run[i].rel = seq[s].owner
                 \/ run[i].kind = "aseq" /\ run[i].step = "done" /\ run[i].sq = s
           \/ seq[s].owner = None /\ seq[s].file = "plain"
           \/ seq[s].owner # None
              /\ (Stored(seq[s].owner) => seq[s].file = FileFor(tab[seq[s].owner].am))

\* What a rollback brings back: the tables tb and the sequences sq.
Matched(tb, sq) ==
    /\ \A t \in Table : tb[t] # None /\ tb[t].part = FALSE =>
           /\ tb[t].am \in AM
           /\ tb[t].main = FileFor(tb[t].am)
           /\ tb[t].idx \in {"none", FileFor(tb[t].am)}
    /\ \A s \in Sqn : sq[s] # None =>
           \/ sq[s].owner = None /\ sq[s].file = "plain"
           \/ /\ sq[s].owner # None
              /\ tb[sq[s].owner] # None
              /\ tb[sq[s].owner].part = FALSE => sq[s].file = FileFor(tb[sq[s].owner].am)

Snapshots == \A i \in DOMAIN xs : Matched(xs[i].tab, xs[i].seq)

FilesInv ==
    /\ EnfInv /\ Lined /\ Tagged /\ Mirrored /\ Apart /\ NoAttachedIndex
    /\ TabsMatch /\ SeqsMatch /\ Snapshots

-----------------------------------------------------------------------------
(* Lemmas about sequences and the model's operators.                       *)

LEMMA Ends ==
    ASSUME NEW S, NEW s \in Seq(S), s # <<>>
    PROVE  /\ Len(s) \in Nat \ {0} /\ Len(s) \in DOMAIN s
           /\ Top(s) \in S /\ Top(s) = s[Len(s)]
           /\ Pop(s) \in Seq(S) /\ Len(Pop(s)) = Len(s) - 1
           /\ \A i \in 1..Len(s) - 1 : Pop(s)[i] = s[i]
<1>1. Len(s) \in Nat \ {0} /\ DOMAIN s = 1..Len(s)
  OBVIOUS
<1>2. s[Len(s)] \in S
  BY <1>1
<1>3. /\ SubSeq(s, 1, Len(s) - 1) \in Seq(S) /\ Len(SubSeq(s, 1, Len(s) - 1)) = Len(s) - 1
      /\ \A i \in 1..Len(s) - 1 : SubSeq(s, 1, Len(s) - 1)[i] = s[i]
  BY <1>1
<1>. QED
  BY <1>1, <1>2, <1>3 DEF Top, Pop

LEMMA Elems ==
    ASSUME Types
    PROVE  /\ Len(xs) \in Nat /\ Len(run) \in Nat /\ Len(ev) \in Nat
           /\ DOMAIN xs = 1..Len(xs) /\ DOMAIN run = 1..Len(run) /\ DOMAIN ev = 1..Len(ev)
           /\ \A i \in DOMAIN xs : xs[i] \in XactRec /\ xs[i].depth \in Nat
           /\ \A i \in DOMAIN run : run[i] \in StmtRec
           /\ \A i \in DOMAIN ev : ev[i] \in EventRec
<1>1. \A i \in DOMAIN xs : xs[i] \in XactRec
  BY DEF Types
<1>2. \A r \in XactRec : r.depth \in Nat
  BY DEF XactRec
<1>. QED
  BY <1>1, <1>2 DEF Types

LEMMA StoredIs ==
    ASSUME tab \in Tabs, NEW t \in Table
    PROVE  HasStorage(t) <=> Stored(t)
<1>1. CASE tab[t] = None
  BY <1>1 DEF HasStorage, Stored
<1>2. CASE tab[t] # None
  <2>1. tab[t].part \in BOOLEAN
    BY <1>2 DEF Tabs, TableRec
  <2>. QED
    BY <1>2, <2>1, Zenon DEF HasStorage, Stored
<1>. QED
  BY <1>1, <1>2

LEMMA StoredIsNext ==
    ASSUME tab' \in Tabs, NEW t \in Table
    PROVE  HasStorage(t)' <=> Stored(t)'
<1>1. CASE tab'[t] = None
  BY <1>1 DEF HasStorage, Stored
<1>2. CASE tab'[t] # None
  <2>1. tab'[t].part \in BOOLEAN
    BY <1>2 DEF Tabs, TableRec
  <2>. QED
    BY <1>2, <2>1, Zenon DEF HasStorage, Stored
<1>. QED
  BY <1>1, <1>2

LEMMA StoredRec ==
    ASSUME tab \in Tabs, NEW t \in Table, tab[t] # None
    PROVE  tab[t] \in TableRec
BY DEF Tabs

LEMMA NewFileType == \A old : NewFile(old) \in {"plain", "enc"}
BY DEF NewFile

LEMMA FileTypes == {"plain", "enc"} \subseteq File /\ "none" \in File
BY DEF File

LEMMA ModeTypes == \A am : ModeOf(am) \in Mode
BY DEF ModeOf, Mode

LEMMA MixModeType == \A t : MixMode(t) \in Mode
BY ModeTypes DEF MixMode, Mode

-----------------------------------------------------------------------------
(* The steps that keep EnfInv.                                             *)

LEMMA EnfRollBack ==
    ASSUME EnfInv, xs # <<>>, RollBack, UNCHANGED settings,
           ev' \in Seq(EventRec), evTid' \in Xid \cup {None}, stmts' \in 0..MaxStmts
    PROVE  EnfInv'
<1>. USE DEF EnfInv
<1>1. PICK n \in Nat \ {0} : n = Len(xs)
  BY Ends DEF Types
<1>2. /\ Len(xs') = n - 1 /\ xs' \in Seq(XactRec)
      /\ \A i \in 1..n - 1 : xs'[i] = xs[i]
  BY <1>1, Ends DEF Types, RollBack
<1>3. PICK x \in XactRec : x = xs[n]
  BY <1>1, Ends DEF Types
<1>4. tab' = x.tab /\ seq' = x.seq /\ run' = SubSeq(run, 1, x.depth)
  BY <1>1, <1>3 DEF RollBack, Top
<1>5. x.depth \in Nat /\ x.depth <= Len(run) /\ x.tab \in Tabs /\ x.seq \in Sqns
  BY <1>1, <1>3 DEF Nested, Types, XactRec
<1>6. /\ run' \in Seq(StmtRec) /\ Len(run') = x.depth
      /\ \A i \in 1..x.depth : run'[i] = run[i]
  BY <1>4, <1>5 DEF Types
<1>7. Types'
  <2>1. n - 1 <= MaxNest /\ x.depth <= MaxDepth
    BY <1>1, <1>5, DdlEventsAssumption, Elems DEF Types
  <2>. QED
    BY <2>1, <1>2, <1>4, <1>5, <1>6 DEF Types, settings
<1>8. \A i \in DOMAIN run' : run'[i].step # "started"
  <2>. SUFFICES ASSUME NEW i \in DOMAIN run' PROVE run'[i].step # "started"
    OBVIOUS
  <2>1. i \in 1..x.depth
    BY <1>6
  <2>2. CASE i = x.depth
    BY <2>1, <2>2, <1>1, <1>3, <1>6 DEF Nested, Types
  <2>3. CASE i # x.depth
    BY <2>1, <2>3, <1>5, <1>6 DEF Nested, Types
  <2>. QED
    BY <2>2, <2>3
<1>9. Nested'
  <2>0. n \in DOMAIN xs
    BY <1>1 DEF Types
  <2>1. xs' = <<>> => run' = <<>>
    <3>1. xs' = <<>> => n = 1
      BY <1>2
    <3>2. xs' = <<>> => x.depth = 0
      BY <3>1, <1>3 DEF Nested
    <3>. QED
      BY <3>2, <1>6
  <2>2. \A i \in DOMAIN xs' : i \in 1..n - 1 /\ xs'[i] = xs[i] /\ i \in DOMAIN xs /\ xs[i].depth <= x.depth
    <3>1. \A i \in DOMAIN xs' : i \in 1..n - 1 /\ xs'[i] = xs[i] /\ i \in DOMAIN xs
      BY <1>1, <1>2, Elems
    <3>. QED
      BY <3>1, <2>0, <1>3 DEF Nested
  <2>3. \A i \in DOMAIN xs' : xs'[i].depth <= Len(run')
    BY <2>2, <1>6
  <2>4. \A i \in DOMAIN xs' : xs'[i].depth \in Nat
    BY <2>2, Elems
  <2>5. xs' # <<>> => xs'[1].depth = 0
    BY <1>1, <1>2 DEF Nested
  <2>6. \A i \in DOMAIN xs' : xs'[i].depth > 0 => run'[xs'[i].depth].step # "started"
    BY <2>3, <2>4, <1>8, <1>6
  <2>7. \A i, j \in DOMAIN xs' : i <= j => xs'[i].depth <= xs'[j].depth
    BY <2>2 DEF Nested
  <2>. QED
    BY <2>1, <2>3, <2>5, <2>6, <2>7, <1>8 DEF Nested
<1>10. \A i \in DOMAIN run' : Ready(run[i])
  BY <1>5, <1>6 DEF Types
<1>11. (\A i \in DOMAIN run : Ready(run[i]))'
  <2>. SUFFICES ASSUME NEW i \in DOMAIN run' PROVE Ready(run[i])'
    OBVIOUS
  <2>1. run'[i] = run[i] /\ run'[i].step # "started"
    BY <1>6, <1>8
  <2>. QED
    BY <2>1, <1>10 DEF Ready
<1>. QED
  BY <1>7, <1>9, <1>11

LEMMA EnfEnter ==
    ASSUME EnfInv, xs # <<>>, Len(run) < MaxDepth, run # <<>> => Top(run).step # "started",
           NEW s \in StmtRec, Enter(s), UNCHANGED settings, Ready(s)',
           ev' \in Seq(EventRec), evTid' \in Xid \cup {None}, stmts' \in 0..MaxStmts
    PROVE  EnfInv'
<1>. USE DEF EnfInv
<1>1. /\ run' = Append(run, s) /\ run' \in Seq(StmtRec) /\ Len(run') = Len(run) + 1
      /\ Len(run) \in Nat /\ run'[Len(run) + 1] = s
      /\ \A i \in 1..Len(run) : run'[i] = run[i]
  BY DEF Enter, Types
<1>2. UNCHANGED <<tab, seq, xs>>
  BY DEF Enter
<1>3. Types'
  BY <1>1, <1>2, DdlEventsAssumption DEF Types, settings
<1>4. \A i \in DOMAIN run : run[i].step # "started"
  <2>. SUFFICES ASSUME NEW i \in DOMAIN run, run[i].step = "started" PROVE FALSE
    OBVIOUS
  <2>1. i = Len(run) /\ run # <<>>
    BY Elems DEF Nested
  <2>. QED
    BY <2>1 DEF Top
<1>5. Nested'
  <2>1. \A i \in DOMAIN xs : xs[i].depth \in Nat
    BY Elems
  <2>2. \A i \in DOMAIN xs : xs[i].depth <= Len(run') /\ (xs[i].depth > 0 => run'[xs[i].depth] = run[xs[i].depth])
    BY <2>1, <1>1 DEF Nested
  <2>3. (\A i \in DOMAIN run : run[i].step = "started" => i = Len(run))'
    BY <1>1, <1>4
  <2>. QED
    BY <1>2, <2>2, <2>3 DEF Nested
<1>6. \A i \in DOMAIN run : Ready(run[i])'
  <2>. SUFFICES ASSUME NEW i \in DOMAIN run, NEW r, r = run[i] PROVE Ready(r)'
    BY <1>1 
  <2>. QED
    BY <1>4 DEF Ready
<1>7. (\A i \in DOMAIN run : Ready(run[i]))'
  <2>. SUFFICES ASSUME NEW i \in DOMAIN run' PROVE Ready(run[i])'
    OBVIOUS
  <2>1. CASE i = Len(run) + 1
    BY <2>1, <1>1
  <2>2. CASE i # Len(run) + 1
    BY <2>2, <1>1, <1>6
  <2>. QED
    BY <2>1, <2>2
<1>. QED
  BY <1>3, <1>5, <1>7

LEMMA FreshXid ==
    ASSUME Types, Len(xs) < MaxNest
    PROVE  LET used == {xs[i].xid : i \in DOMAIN xs} \cup {evTid}
               fresh == CHOOSE x \in Xid : x \notin used
           IN  fresh \in Xid /\ fresh \notin used
<1>. DEFINE used == {xs[i].xid : i \in DOMAIN xs} \cup {evTid}
            At_(x) == {i \in DOMAIN xs : xs[i].xid = x}
            f == [x \in Xid |-> IF At_(x) = {} THEN 0 ELSE CHOOSE i \in At_(x) : TRUE]
<1>. SUFFICES ASSUME \A x \in Xid : x \in used PROVE FALSE
  OBVIOUS
<1>1. f \in [Xid -> 0..Len(xs)]
  BY Elems
<1>2. IsFiniteSet(Xid) /\ Cardinality(Xid) = MaxNest + 1
  <2>1. 1 \in Int /\ MaxNest + 1 \in Int /\ ~(1 > MaxNest + 1) /\ MaxNest + 1 - 1 + 1 = MaxNest + 1
    BY DdlEventsAssumption
  <2>2. IsFiniteSet(1..MaxNest + 1) /\ Cardinality(1..MaxNest + 1) = MaxNest + 1 - 1 + 1
    BY <2>1, FS_Interval
  <2>. QED
    BY <2>1, <2>2 DEF Xid
<1>3. IsFiniteSet(0..Len(xs)) /\ Cardinality(0..Len(xs)) = Len(xs) + 1
  BY FS_Interval, Elems
<1>4. Cardinality(0..Len(xs)) < Cardinality(Xid)
  BY <1>2, <1>3, Elems, DdlEventsAssumption
<1>5. PICK x, y \in Xid : x # y /\ f[x] = f[y]
  <2>. HIDE DEF f
  <2>. QED
    BY <1>1, <1>2, <1>3, <1>4, FS_PigeonHole, Zenon
<1>6. \A z \in Xid : IF At_(z) = {} THEN f[z] = 0 /\ z = evTid ELSE f[z] \in At_(z)
  <2>1. \A z \in Xid : At_(z) = {} => z = evTid
    OBVIOUS
  <2>. QED
    BY <2>1
<1>7. \A i : i \in At_(x) => i \in DOMAIN xs /\ i # 0 /\ xs[i].xid = x
  BY Elems
<1>8. \A i : i \in At_(y) => i \in DOMAIN xs /\ i # 0 /\ xs[i].xid = y
  BY Elems
<1>. HIDE DEF f, At_
<1>. QED
  BY <1>5, <1>6, <1>7, <1>8

LEMMA TidType ==
    ASSUME Types, xs # <<>>
    PROVE  Tid \in Xid /\ Tid = xs[Len(xs)].xid
<1>1. Top(xs) \in XactRec /\ Top(xs) = xs[Len(xs)]
  BY Ends DEF Types
<1>2. \A r \in XactRec : r.xid \in Xid
  BY DEF XactRec
<1>. QED
  BY <1>1, <1>2 DEF Tid

LEMMA Running ==
    ASSUME Types, xs # <<>>, Len(run) > Top(xs).depth
    PROVE  /\ run # <<>> /\ Len(run) \in Nat \ {0} /\ Len(run) \in DOMAIN run
           /\ Top(run) \in StmtRec /\ Top(run) = run[Len(run)]
<1>1. Len(xs) \in DOMAIN xs /\ Top(xs) = xs[Len(xs)]
  BY Ends DEF Types
<1>2. Len(run) > 0
  BY <1>1, Elems
<1>. QED
  BY <1>2, Ends DEF Types

LEMMA KeptType ==
    ASSUME Types
    PROVE  Kept \in Seq(EventRec)
BY DEF Types, Kept

LEMMA EnfBegin ==
    ASSUME EnfInv, Begin
    PROVE  EnfInv'
<1>. USE DEF EnfInv
<1>1. PICK x \in XactRec : xs' = Append(xs, x) /\ x.depth = Len(run)
  <2>. DEFINE fresh == CHOOSE y \in Xid : y \notin {xs[i].xid : i \in DOMAIN xs} \cup {evTid}
              x == [xid |-> fresh, tab |-> tab, seq |-> seq, depth |-> Len(run)]
  <2>1. fresh \in Xid
    BY FreshXid DEF Begin
  <2>2. xs' = Append(xs, x)
    BY DEF Begin
  <2>. HIDE DEF fresh
  <2>3. x \in XactRec
    BY <2>1, Elems DEF XactRec, Types
  <2>. QED
    BY <2>2, <2>3
<1>2. /\ xs' \in Seq(XactRec) /\ Len(xs') = Len(xs) + 1 /\ xs' # <<>>
      /\ xs'[Len(xs) + 1] = x /\ \A i \in 1..Len(xs) : xs'[i] = xs[i]
  BY <1>1, Elems DEF Types
<1>3. UNCHANGED <<tab, seq, run, ev, evTid, settings>> /\ stmts' \in 0..MaxStmts
  BY DdlEventsAssumption DEF Begin, Types
<1>4. Types'
  BY <1>2, <1>3, DdlEventsAssumption, Elems DEF Types, settings, Begin
<1>5. run # <<>> => Top(run).step # "started"
  BY DEF Begin, RunsFunctions
<1>6. Nested'
  <2>1. \A i \in DOMAIN xs' : i \in 1..Len(xs) + 1 /\ (i = Len(xs) + 1 \/ i \in DOMAIN xs)
    BY <1>2, Elems
  <2>2. xs'[1].depth = 0
    <3>1. CASE xs = <<>>
      BY <3>1, <1>1, <1>2 DEF Nested
    <3>2. CASE xs # <<>>
      BY <3>2, <1>2, Elems, Ends DEF Nested, Types
    <3>. QED
      BY <3>1, <3>2
  <2>3. Len(run) > 0 => run[Len(run)].step # "started"
    BY <1>5 DEF Top
  <2>4. \A i \in DOMAIN xs' : xs'[i].depth <= Len(run) /\ (xs'[i].depth > 0 => run[xs'[i].depth].step # "started")
    BY <2>1, <2>3, <1>1, <1>2, Elems DEF Nested
  <2>5. \A i, j \in DOMAIN xs' : i <= j => xs'[i].depth <= xs'[j].depth
    <3>. SUFFICES ASSUME NEW i \in DOMAIN xs', NEW j \in DOMAIN xs', i <= j
                  PROVE  xs'[i].depth <= xs'[j].depth
      OBVIOUS
    <3>1. CASE j = Len(xs) + 1
      BY <3>1, <2>4, <1>1, <1>2
    <3>2. CASE j # Len(xs) + 1
      <4>1. i \in DOMAIN xs /\ j \in DOMAIN xs /\ xs'[i] = xs[i] /\ xs'[j] = xs[j]
        BY <3>2, <2>1, <1>2, Elems
      <4>. QED
        BY <4>1 DEF Nested
    <3>. QED
      BY <3>1, <3>2
  <2>. QED
    BY <1>2, <1>3, <2>2, <2>4, <2>5 DEF Nested
<1>7. (\A i \in DOMAIN run : Ready(run[i]))'
  BY <1>3 DEF Ready, Stored, settings
<1>. QED
  BY <1>4, <1>6, <1>7

LEMMA EnfCommit ==
    ASSUME EnfInv, Commit
    PROVE  EnfInv'
<1>. USE DEF EnfInv
<1>1. /\ Len(xs') = Len(xs) - 1 /\ xs' \in Seq(XactRec) /\ xs # <<>> /\ Len(xs) \in Nat \ {0}
      /\ \A i \in 1..Len(xs) - 1 : xs'[i] = xs[i]
  BY Ends DEF Types, Commit
<1>2. UNCHANGED <<tab, seq, run, ev, evTid, settings, stmts>>
  BY DEF Commit
<1>3. Types'
  BY <1>1, <1>2, DdlEventsAssumption DEF Types, settings
<1>4. Nested'
  <2>1. \A i \in DOMAIN xs' : i \in DOMAIN xs /\ xs'[i] = xs[i]
    BY <1>1, Elems
  <2>2. xs' = <<>> => run' = <<>>
    <3>1. xs' = <<>> => Len(run) = 0
      BY <1>1, Elems DEF Commit, Nested, Top
    <3>. QED
      BY <3>1, <1>2 DEF Types
  <2>3. xs' # <<>> => xs'[1].depth = 0
    BY <2>1, <1>1 DEF Nested
  <2>. QED
    BY <2>1, <2>2, <2>3, <1>2 DEF Nested
<1>5. (\A i \in DOMAIN run : Ready(run[i]))'
  BY <1>2 DEF Ready, Stored, settings
<1>. QED
  BY <1>3, <1>4, <1>5

LEMMA EnfSetEnforce ==
    ASSUME EnfInv, SetEnforce
    PROVE  EnfInv'
<1>. USE DEF EnfInv
<1>1. run = <<>> /\ UNCHANGED <<tab, seq, xs, run, ev, evTid, dflt, keyed, stmts>>
  BY DEF SetEnforce, Nested
<1>2. enforce' \in BOOLEAN
  BY DEF SetEnforce
<1>3. Types'
  BY <1>1, <1>2 DEF Types
<1>4. Nested'
  BY <1>1 DEF Nested
<1>5. (\A i \in DOMAIN run : Ready(run[i]))'
  BY <1>1
<1>. QED
  BY <1>3, <1>4, <1>5

LEMMA EnfAbort ==
    ASSUME EnfInv, Abort
    PROVE  EnfInv'
BY EnfRollBack DEF Abort, EnfInv, Types

\* A statement has acted, and stands at another step.
LEMMA EnfWork ==
    ASSUME EnfInv, xs # <<>>, Len(run) > Top(xs).depth, UNCHANGED <<xs, settings, stmts>>,
           NEW st \in {"heap", "done"}, Goto(st),
           tab' \in Tabs, seq' \in Sqns,
           ev' \in Seq(EventRec), evTid' \in Xid \cup {None}
    PROVE  EnfInv'
<1>. USE DEF EnfInv
<1>1. PICK n \in Nat \ {0} : n = Len(run) /\ n \in DOMAIN run
  BY Running
<1>2. PICK s \in StmtRec : s = run[n]
  BY <1>1, Elems
<1>3. [s EXCEPT !.step = st] \in StmtRec /\ [s EXCEPT !.step = st].step = st
      /\ [s EXCEPT !.step = st].kind = s.kind /\ [s EXCEPT !.step = st].am = s.am
  BY DEF StmtRec
<1>4. run' = [run EXCEPT ![n] = [s EXCEPT !.step = st]]
  BY <1>1, <1>2 DEF Goto, Types
<1>5. /\ run' \in Seq(StmtRec) /\ Len(run') = n /\ DOMAIN run' = DOMAIN run
      /\ run'[n] = [s EXCEPT !.step = st]
      /\ \A i \in DOMAIN run : i # n => run'[i] = run[i]
  BY <1>1, <1>3, <1>4 DEF Types
<1>6. Types'
  BY <1>1, <1>5 DEF Types, settings
<1>7. \A i \in DOMAIN run' : run'[i].step # "started"
  BY <1>1, <1>3, <1>5 DEF Nested
<1>8. Nested'
  <2>1. \A i \in DOMAIN xs : xs[i].depth \in 0..n
    BY <1>1, Elems DEF Nested
  <2>2. \A i \in DOMAIN xs : xs[i].depth > 0 => run'[xs[i].depth].step # "started"
    BY <2>1, <1>1, <1>7, <1>5, Elems
  <2>. QED
    BY <2>1, <2>2, <1>7, <1>5, <1>1 DEF Nested
<1>9. (\A i \in DOMAIN run : Ready(run[i]))'
  <2>. SUFFICES ASSUME NEW i \in DOMAIN run' PROVE Ready(run[i])'
    OBVIOUS
  <2>1. run'[i].step # "started" /\ run'[i].kind = run[i].kind /\ run'[i].am = run[i].am /\ Ready(run[i])
    BY <1>1, <1>2, <1>3, <1>5, <1>7
  <2>. QED
    BY <2>1 DEF Ready
<1>. QED
  BY <1>6, <1>8, <1>9

LEMMA EnfEnd ==
    ASSUME EnfInv, End
    PROVE  EnfInv'
<1>. USE DEF EnfInv
<1>1. xs # <<>> /\ Len(run) > Top(xs).depth /\ UNCHANGED <<tab, xs, evTid, settings, stmts>> /\ run' = Pop(run)
  BY DEF End, At
<1>2. PICK n \in Nat \ {0} : n = Len(run) /\ run # <<>>
  BY <1>1, Running
<1>3. /\ run' \in Seq(StmtRec) /\ Len(run') = n - 1 /\ DOMAIN run' = 1..n - 1
      /\ \A i \in 1..n - 1 : run'[i] = run[i]
  <2>1. run' \in Seq(StmtRec) /\ Len(run') = n - 1 /\ \A i \in 1..n - 1 : run'[i] = run[i]
    BY <1>1, <1>2, Ends DEF Types
  <2>. QED
    BY <2>1
<1>4. seq' \in Sqns /\ ev' \in Seq(EventRec)
  <2>1. CASE UNCHANGED <<seq, ev>>
    BY <2>1 DEF Types
  <2>2. CASE ~UNCHANGED <<seq, ev>>
    <3>1. /\ ev # <<>> /\ ev' = Pop(ev)
          /\ \A q \in Rebuilt(Top(ev)) : seq[q] # None
          /\ seq' = [q \in Sqn |-> IF q \in Rebuilt(Top(ev))
                                       THEN [seq[q] EXCEPT !.file = NewFile(@)] ELSE seq[q]]
      BY <2>2 DEF End, EndsEvent
    <3>2. \A r \in SqnRec, f \in {"plain", "enc"} : [r EXCEPT !.file = f] \in SqnRec
      BY DEF SqnRec
    <3>3. seq' \in Sqns
      BY <3>1, <3>2, NewFileType DEF Types, Sqns
    <3>. QED
      BY <3>1, <3>3, Ends DEF Types
  <2>. QED
    BY <2>1, <2>2
<1>5. Types'
  BY <1>1, <1>2, <1>3, <1>4, DdlEventsAssumption DEF Types, settings
<1>6. \A i \in DOMAIN run' : i \in DOMAIN run /\ run'[i] = run[i] /\ run'[i].step # "started"
  BY <1>2, <1>3, Elems DEF Nested
<1>7. Nested'
  <2>1. \A i \in DOMAIN xs : xs[i].depth <= n - 1
    <3>1. Len(xs) \in DOMAIN xs /\ xs[Len(xs)].depth < n
      BY <1>1, <1>2, Elems, Ends DEF Types, Top
    <3>2. \A i \in DOMAIN xs : xs[i].depth <= xs[Len(xs)].depth
      BY <3>1, Elems DEF Nested
    <3>. QED
      BY <3>1, <3>2, Elems
  <2>2. \A i \in DOMAIN xs : xs[i].depth > 0 => run'[xs[i].depth].step # "started"
    BY <2>1, <1>6, <1>3, <1>2, Elems
  <2>. QED
    BY <2>1, <2>2, <1>1, <1>3, <1>6 DEF Nested
<1>8. (\A i \in DOMAIN run : Ready(run[i]))'
  <2>. SUFFICES ASSUME NEW i \in DOMAIN run' PROVE Ready(run[i])'
    OBVIOUS
  <2>. QED
    BY <1>6 DEF Ready
<1>. QED
  BY <1>5, <1>7, <1>8

-----------------------------------------------------------------------------
(* Statements that start keep EnfInv.                                      *)

LEMMA Free ==
    ASSUME Types, NEW a \in FreeAddr
    PROVE  /\ a \in Addr /\ xs # <<>> /\ Len(run) < MaxDepth /\ stmts + 1 \in 0..MaxStmts
           /\ run # <<>> => RunsFunctions(Top(run)) /\ Top(run).step # "started"
           /\ \A i \in DOMAIN run : run[i].addr # a
<1>1. /\ xs # <<>> /\ Len(run) < MaxDepth /\ stmts < MaxStmts
      /\ run # <<>> => RunsFunctions(Top(run))
      /\ a \in Addr \ {run[i].addr : i \in DOMAIN run}
  BY DEF FreeAddr
<1>. QED
  BY <1>1, DdlEventsAssumption DEF Types, RunsFunctions

LEMMA EnfEnters ==
    ASSUME EnfInv, NEW a \in FreeAddr, stmts' = stmts + 1,
           NEW s \in StmtRec, Ready(s), Enter(s), UNCHANGED settings,
           ev' \in Seq(EventRec), evTid' \in Xid \cup {None}
    PROVE  EnfInv'
<1>1. Ready(s)'
  BY DEF Enter, Ready, Stored, settings
<1>. QED
  BY <1>1, Free, EnfEnter DEF EnfInv

LEMMA EnfPush ==
    ASSUME EnfInv, NEW a \in FreeAddr, stmts' = stmts + 1,
           NEW s \in StmtRec, NEW e \in EventRec,
           ev' = Append(Kept, e), evTid' = Tid, UNCHANGED settings,
           (Enter(s) /\ Ready(s)) \/ RollBack
    PROVE  EnfInv'
<1>1. xs # <<>> /\ stmts' \in 0..MaxStmts
  BY Free DEF EnfInv
<1>2. ev' \in Seq(EventRec) /\ evTid' \in Xid \cup {None}
  BY <1>1, KeptType, TidType DEF EnfInv
<1>3. CASE Enter(s) /\ Ready(s)
  BY <1>2, <1>3, EnfEnters
<1>4. CASE RollBack
  BY <1>1, <1>2, <1>4, EnfRollBack
<1>. QED
  BY <1>3, <1>4

LEMMA StatusEnforced ==
    ASSUME NEW m, StatusOK(m), enforce = TRUE
    PROVE  m = "encrypt"
BY Zenon DEF StatusOK

LEMMA StmtType ==
    ASSUME NEW a \in Addr, NEW k \in Kind, NEW t \in Table \cup {None}
    PROVE  Stmt(a, k, t) \in StmtRec
BY DEF Stmt, StmtRec

LEMMA EventType ==
    ASSUME NEW a \in Addr, NEW m \in Mode
    PROVE  Event(a, m) \in EventRec
BY DEF Event, EventRec

LEMMA ChosenType ==
    ASSUME Types, NEW using \in AM \cup {None}, NEW up \in Table \cup {None},
           up # None => tab[up] # None
    PROVE  Chosen(using, up) \in AM
<1>1. up # None => tab[up].am \in AM \cup {None}
  BY StoredRec DEF TableRec, Types
<1>2. dflt \in AM
  BY DdlEventsAssumption DEF Types, AM
<1>3. CASE using # None
  BY <1>3 DEF Chosen
<1>4. CASE using = None /\ up # None /\ tab[up].part /\ tab[up].am # None
  BY <1>1, <1>4, Zenon DEF Chosen
<1>5. CASE ~(using # None) /\ ~(using = None /\ up # None /\ tab[up].part /\ tab[up].am # None)
  BY <1>2, <1>5, Zenon DEF Chosen
<1>. QED
  BY <1>3, <1>4, <1>5, Zenon

LEMMA EnfStartCreate ==
    ASSUME EnfInv, "schema" \notin Paths, NEW a \in FreeAddr, stmts' = stmts + 1,
           \E t \in Table : \E using \in AM \cup {None}, part \in BOOLEAN,
              up \in Table \cup {None}, s \in Sqn \cup {None}, triggers \in BOOLEAN :
              StartCreate(a, t, using, part, up, s, triggers)
    PROVE  EnfInv'
<1>0. PICK t \in Table, using \in AM \cup {None}, part \in BOOLEAN,
           up \in Table \cup {None}, sq \in Sqn \cup {None}, triggers \in BOOLEAN :
           StartCreate(a, t, using, part, up, sq, triggers)
  OBVIOUS
<1>1. PICK ch \in AM : ch = Chosen(using, up)
  BY <1>0, ChosenType DEF StartCreate, EnfInv
<1>2. PICK am \in AM \cup {None} :
          /\ am = IF part /\ using = None /\ (up = None \/ tab[up].am = None) THEN None ELSE ch
          /\ part = FALSE => am = ch
  OBVIOUS
<1>3. triggers = TRUE
  BY <1>0, Zenon DEF StartCreate
<1>4. PICK s : s = [Stmt(a, "create", t) EXCEPT !.am = am, !.part = part, !.up = up,
                                                !.sq = sq, !.triggers = triggers]
  OBVIOUS
<1>5. /\ s \in StmtRec /\ s.kind = "create" /\ s.am = am /\ s.part = part /\ s.rel = t
      /\ s.step = "started"
  BY <1>4, Free DEF Stmt, StmtRec, Kind, EnfInv
<1>6. Event(a, ModeOf(ch)) \in EventRec
  BY EventType, ModeTypes, Free DEF EnfInv
<1>7. tab[t] = None /\ Push(s, Event(a, ModeOf(ch)), StatusOK(ModeOf(ch)))
  BY <1>0, <1>1, <1>2, <1>3, <1>4, Zenon DEF StartCreate
<1>8. StatusOK(ModeOf(ch)) => Ready(s)
  <2>. SUFFICES ASSUME StatusOK(ModeOf(ch)) PROVE Ready(s)
    OBVIOUS
  <2>1. enforce = TRUE => ch = "tde_heap"
    BY StatusEnforced DEF ModeOf
  <2>. QED
    BY <2>1, <1>2, <1>5, <1>7 DEF Ready
<1>9. (Enter(s) /\ Ready(s)) \/ RollBack
  BY <1>7, <1>8, Zenon DEF Push
<1>10. ev' = Append(Kept, Event(a, ModeOf(ch))) /\ evTid' = Tid /\ UNCHANGED settings
  BY <1>7 DEF Push
<1>11. PICK e \in EventRec : e = Event(a, ModeOf(ch))
  BY <1>6
<1>. QED
  BY <1>5, <1>9, <1>10, <1>11, EnfPush

LEMMA EnfStartIndex ==
    ASSUME EnfInv, NEW a \in FreeAddr, stmts' = stmts + 1, NEW t \in Table, StartIndex(a, t)
    PROVE  EnfInv'
<1>1. PICK s : s = Stmt(a, "index", t)
  OBVIOUS
<1>2. /\ s \in StmtRec /\ s.kind = "index" /\ s.am = None /\ s.rel = t /\ s.step = "started"
  BY <1>1, Free, StmtType DEF Stmt, Kind, EnfInv
<1>3. PICK e \in EventRec : e = Event(a, MixMode(t))
  BY EventType, MixModeType, Free DEF EnfInv
<1>4. tab[t] # None /\ Push(s, e, TRUE)
  BY <1>1, <1>3 DEF StartIndex
<1>5. Ready(s)
  BY <1>2, <1>4 DEF Ready
<1>. QED
  BY <1>2, <1>4, <1>5, EnfPush DEF Push

LEMMA EnfStartAlter ==
    ASSUME EnfInv, NEW a \in FreeAddr, stmts' = stmts + 1, NEW t \in Table,
           NEW am \in AM \cup {None}, StartAlter(a, t, am)
    PROVE  EnfInv'
<1>. DEFINE own == am # None /\ HasStorage(t)
            mode == IF own THEN ModeOf(am) ELSE MixMode(t)
<1>1. PICK s : s = [Stmt(a, "alter", t) EXCEPT !.am = am]
  OBVIOUS
<1>2. s \in StmtRec /\ s.kind = "alter" /\ s.am = am /\ s.rel = t /\ s.step = "started"
  BY <1>1, Free DEF Stmt, StmtRec, Kind, EnfInv
<1>3. PICK m \in Mode : m = mode
  BY ModeTypes, MixModeType
<1>4. PICK e \in EventRec : e = [Event(a, m) EXCEPT !.rebuildFor = IF own THEN t ELSE None]
  <2>1. PICK r \in Table \cup {None} : r = IF own THEN t ELSE None
    OBVIOUS
  <2>2. [Event(a, m) EXCEPT !.rebuildFor = r] \in EventRec
    BY Free DEF EnfInv, Event, EventRec
  <2>. QED
    BY <2>1, <2>2
<1>5. tab[t] # None /\ Push(s, e, StatusOK(m))
  BY <1>1, <1>3, <1>4 DEF StartAlter
<1>6. StatusOK(m) => Ready(s)
  <2>. SUFFICES ASSUME StatusOK(m) PROVE Ready(s)
    OBVIOUS
  <2>1. enforce = TRUE => m = "encrypt"
    BY StatusEnforced
  <2>2. enforce = TRUE /\ am # None /\ Stored(t) => am = "tde_heap"
    BY <2>1, <1>3, StoredIs DEF ModeOf, EnfInv, Types
  <2>. QED
    BY <2>2, <1>2, <1>5 DEF Ready
<1>7. (Enter(s) /\ Ready(s)) \/ RollBack
  BY <1>5, <1>6, Zenon DEF Push
<1>. QED
  BY <1>2, <1>5, <1>7, EnfPush DEF Push

LEMMA EnfStartAttach ==
    ASSUME EnfInv, NEW a \in FreeAddr, stmts' = stmts + 1, NEW t \in Table, NEW c \in Table,
           StartAttach(a, t, c)
    PROVE  EnfInv'
<1>1. PICK s : s = [Stmt(a, "attach", t) EXCEPT !.up = c]
  OBVIOUS
<1>2. /\ s \in StmtRec /\ s.kind = "attach" /\ s.am = None /\ s.rel = t /\ s.up = c
      /\ s.step = "started"
  BY <1>1, Free DEF Stmt, StmtRec, Kind, EnfInv
<1>3. PICK e \in EventRec : e = Event(a, MixMode(t))
  BY EventType, MixModeType, Free DEF EnfInv
<1>4. tab[t] # None /\ HasStorage(c) /\ Push(s, e, StatusOK(MixMode(t)))
  BY <1>1, <1>3 DEF StartAttach
<1>5. Ready(s)
  BY <1>2, <1>4, StoredIs DEF Ready, EnfInv, Types
<1>6. (Enter(s) /\ Ready(s)) \/ RollBack
  BY <1>4, <1>5, Zenon DEF Push
<1>. QED
  BY <1>2, <1>4, <1>6, EnfPush DEF Push

LEMMA EnfStartAlterIndex ==
    ASSUME EnfInv, NEW a \in FreeAddr, stmts' = stmts + 1, NEW t \in Table,
           StartAlterIndex(a, t)
    PROVE  EnfInv'
<1>1. PICK s : s = Stmt(a, "alterindex", t)
  OBVIOUS
<1>2. s \in StmtRec /\ s.kind = "alterindex" /\ s.am = None /\ s.rel = t /\ s.step = "started"
  BY <1>1, Free, StmtType DEF Stmt, Kind, EnfInv
<1>3. PICK e \in EventRec : e = Event(a, "plain")
  BY EventType, Free DEF EnfInv, Mode
<1>4. HasStorage(t) /\ tab[t].idx # "none" /\ Push(s, e, StatusOK("plain"))
  BY <1>1, <1>3 DEF StartAlterIndex
<1>5. Ready(s)
  BY <1>2, <1>4, StoredIs DEF Ready, EnfInv, Types, Stored
<1>6. (Enter(s) /\ Ready(s)) \/ RollBack
  BY <1>4, <1>5, Zenon DEF Push
<1>. QED
  BY <1>2, <1>4, <1>6, EnfPush DEF Push

LEMMA OwnerModeType == \A t : OwnerMode(t) \in Mode
BY ModeTypes DEF OwnerMode, Mode

LEMMA EnfStartSeq ==
    ASSUME EnfInv, NEW a \in FreeAddr, stmts' = stmts + 1, NEW q \in Sqn,
           \/ \E t \in Table \cup {None} : StartCreateSeq(a, q, t) \/ StartAlterSeq(a, q, t)
           \/ StartRestartSeq(a, q)
    PROVE  EnfInv'
<1>1. ASSUME NEW t \in Table \cup {None}, StartCreateSeq(a, q, t) PROVE EnfInv'
  <2>1. PICK s : s = [Stmt(a, "cseq", t) EXCEPT !.sq = q]
    OBVIOUS
  <2>2. /\ s \in StmtRec /\ s.kind = "cseq" /\ s.am = None /\ s.rel = t /\ s.sq = q
        /\ s.step = "started"
    BY <2>1, Free DEF Stmt, StmtRec, Kind, EnfInv
  <2>3. PICK e \in EventRec : e = Event(a, OwnerMode(t))
    BY EventType, OwnerModeType, Free DEF EnfInv
  <2>4. (t # None => tab[t] # None) /\ Push(s, e, TRUE)
    BY <1>1, <2>1, <2>3 DEF StartCreateSeq
  <2>5. Ready(s)
    BY <2>2, <2>4 DEF Ready
  <2>. QED
    BY <2>2, <2>4, <2>5, EnfPush DEF Push
<1>2. ASSUME NEW t \in Table \cup {None}, StartAlterSeq(a, q, t) PROVE EnfInv'
  <2>1. PICK s : s = [Stmt(a, "aseq", t) EXCEPT !.sq = q]
    OBVIOUS
  <2>2. /\ s \in StmtRec /\ s.kind = "aseq" /\ s.am = None /\ s.rel = t /\ s.sq = q
        /\ s.step = "started"
    BY <2>1, Free DEF Stmt, StmtRec, Kind, EnfInv
  <2>3. PICK m \in Mode : m = OwnerMode(t)
    BY OwnerModeType
  <2>4. PICK e \in EventRec : e = [Event(a, m) EXCEPT !.rebuild = q]
    BY Free DEF EnfInv, Event, EventRec
  <2>5. (t # None => tab[t] # None) /\ seq[q] # None /\ Push(s, e, TRUE)
    BY <1>2, <2>1, <2>3, <2>4 DEF StartAlterSeq
  <2>6. Ready(s)
    BY <2>2, <2>5 DEF Ready
  <2>. QED
    BY <2>2, <2>5, <2>6, EnfPush DEF Push
<1>3. ASSUME StartRestartSeq(a, q) PROVE EnfInv'
  <2>1. PICK s : s = [Stmt(a, "restart", None) EXCEPT !.sq = q]
    OBVIOUS
  <2>2. /\ s \in StmtRec /\ s.kind = "restart" /\ s.am = None /\ s.sq = q /\ s.step = "started"
    BY <2>1, Free DEF Stmt, StmtRec, Kind, EnfInv
  <2>3. PICK e \in EventRec : e = Event(a, "retain")
    BY EventType, Free DEF EnfInv, Mode
  <2>4. seq[q] # None /\ Push(s, e, TRUE)
    BY <1>3, <2>1, <2>3 DEF StartRestartSeq
  <2>5. Ready(s)
    BY <2>2, <2>4 DEF Ready
  <2>. QED
    BY <2>2, <2>4, <2>5, EnfPush DEF Push
<1>. QED
  BY <1>1, <1>2, <1>3

LEMMA EnfStartPlain ==
    ASSUME EnfInv, NEW a \in FreeAddr, stmts' = stmts + 1, NEW t \in Table,
           (\E triggers \in BOOLEAN : StartRewrite(a, t, triggers)) \/ StartDrop(a, t)
    PROVE  EnfInv'
<1>0. ev' = ev /\ evTid' = evTid => ev' \in Seq(EventRec) /\ evTid' \in Xid \cup {None}
  BY DEF EnfInv, Types
<1>1. ASSUME NEW triggers \in BOOLEAN, StartRewrite(a, t, triggers) PROVE EnfInv'
  <2>1. PICK s : s = [Stmt(a, "rewrite", t) EXCEPT !.triggers = triggers]
    OBVIOUS
  <2>2. s \in StmtRec /\ s.kind = "rewrite" /\ s.am = None /\ s.rel = t /\ s.step = "started"
    BY <2>1, Free DEF Stmt, StmtRec, Kind, EnfInv
  <2>3. HasStorage(t) /\ Enter(s) /\ UNCHANGED <<ev, evTid, settings>>
    BY <1>1, <2>1 DEF StartRewrite
  <2>4. Ready(s)
    BY <2>2, <2>3 DEF Ready, HasStorage
  <2>. QED
    BY <1>0, <2>2, <2>3, <2>4, EnfEnters
<1>2. ASSUME StartDrop(a, t) PROVE EnfInv'
  <2>1. PICK s : s = Stmt(a, "drop", t)
    OBVIOUS
  <2>2. s \in StmtRec /\ s.kind = "drop" /\ s.am = None
    BY <2>1, Free, StmtType DEF Stmt, Kind, EnfInv
  <2>3. Enter(s) /\ UNCHANGED <<ev, evTid, settings>>
    BY <1>2, <2>1 DEF StartDrop
  <2>4. Ready(s)
    BY <2>2 DEF Ready
  <2>. QED
    BY <1>0, <2>2, <2>3, <2>4, EnfEnters
<1>. QED
  BY <1>1, <1>2

-----------------------------------------------------------------------------
(* The statements at work: types, and what Enforced says of the step.      *)

\* No table becomes one with storage that is not encrypted.
Stays == \A t \in Table : Stored(t)' /\ tab'[t].am # "tde_heap" => Stored(t) /\ tab[t].am # "tde_heap"

LEMMA AtWork ==
    ASSUME EnfInv, NEW kinds, NEW st, At(kinds, st)
    PROVE  /\ xs # <<>> /\ Len(run) > Top(xs).depth
           /\ Top(run).kind \in kinds /\ Top(run).step = st
           /\ Top(run) \in StmtRec /\ Top(run) = run[Len(run)] /\ Len(run) \in DOMAIN run
           /\ run # <<>>
           /\ Ready(Top(run))
BY Running DEF At, EnfInv

LEMMA TableFields ==
    ASSUME NEW r \in TableRec
    PROVE  /\ r.am \in AM \cup {None} /\ r.part \in BOOLEAN /\ r.up \in Table \cup {None}
           /\ r.main \in File /\ r.idx \in File \cup {"shell"}
BY DEF TableRec

LEMMA SqnFields ==
    ASSUME NEW r \in SqnRec
    PROVE  r.file \in {"plain", "enc"} /\ r.owner \in Table \cup {None}
BY DEF SqnRec

LEMMA StmtFields ==
    ASSUME NEW s \in StmtRec
    PROVE  /\ s.addr \in Addr /\ s.kind \in Kind /\ s.rel \in Table \cup {None}
           /\ s.am \in AM \cup {None} /\ s.part \in BOOLEAN /\ s.up \in Table \cup {None}
           /\ s.sq \in Sqn \cup {None} /\ s.triggers \in BOOLEAN
BY DEF StmtRec

LEMMA CreatedTable ==
    ASSUME EnfInv, CreateTable
    PROVE  LET s == Top(run) IN
           \E r \in TableRec : 
              /\ r.am = s.am /\ r.part = s.part /\ r.up = s.up
              /\ s.part = FALSE => r.main = NewFile("none") /\ r.idx \in {"none", NewFile("none")}
              /\ tab' = [tab EXCEPT ![s.rel] = r]
<1>1. PICK s \in StmtRec : s = Top(run)
  BY AtWork DEF CreateTable
<1>. DEFINE made == IF s.part THEN "shell" ELSE NewFile("none")
            indexed == s.sq # None \/ (s.up # None /\ tab[s.up].part /\ tab[s.up].idx # "none")
<1>2. PICK m \in {"shell", "plain", "enc"} : m = made /\ (s.part = FALSE => m = NewFile("none"))
  BY NewFileType
<1>3. PICK x : x = IF indexed THEN m ELSE "none"
  OBVIOUS
<1>4. x \in {"none", m}
  BY <1>3, Zenon
<1>5. PICK mm \in File : mm = (IF s.part THEN "none" ELSE made) /\ (s.part = FALSE => mm = NewFile("none"))
  BY NewFileType, FileTypes
<1>6. tab' = [tab EXCEPT ![s.rel] = [am |-> s.am, part |-> s.part, up |-> s.up, main |-> mm, idx |-> x]]
  <2>. HIDE DEF made, indexed
  <2>1. tab' = [tab EXCEPT ![s.rel] = [am |-> s.am, part |-> s.part, up |-> s.up,
                 main |-> IF s.part THEN "none" ELSE made, idx |-> IF indexed THEN made ELSE "none"]]
    BY <1>1 DEF CreateTable, made, indexed
  <2>. QED
    BY <2>1, <1>2, <1>3, <1>5
<1>7. PICK r : r = [am |-> s.am, part |-> s.part, up |-> s.up, main |-> mm, idx |-> x]
  OBVIOUS
<1>8. r \in TableRec
  BY <1>2, <1>4, <1>7, StmtFields, FileTypes DEF TableRec
<1>9. r.am = s.am /\ r.part = s.part /\ r.up = s.up /\ r.main = mm /\ r.idx = x
  BY <1>7
<1>. QED
  BY <1>1, <1>2, <1>4, <1>5, <1>6, <1>7, <1>8, <1>9

LEMMA EnfCreateTable ==
    ASSUME EnfInv, CreateTable
    PROVE  EnfInv' /\ (enforce = TRUE => Stays)
<1>1. PICK s \in StmtRec : s = Top(run) /\ s.kind = "create" /\ s.step = "started" /\ Ready(s)
  BY AtWork DEF CreateTable
<1>2. PICK r \in TableRec : r.am = s.am /\ r.part = s.part /\ tab' = [tab EXCEPT ![s.rel] = r]
  BY <1>1, CreatedTable
<1>3. tab' \in Tabs
  BY <1>2 DEF EnfInv, Types, Tabs
<1>4. seq' \in Sqns
  <2>1. seq' = [q \in Sqn |-> IF q = s.sq THEN [file |-> NewFile("none"), owner |-> s.rel] ELSE seq[q]]
    BY <1>1 DEF CreateTable
  <2>2. PICK f \in {"plain", "enc"} : f = NewFile("none")
    BY NewFileType
  <2>3. [file |-> f, owner |-> s.rel] \in SqnRec
    BY StmtFields DEF SqnRec
  <2>. QED
    BY <2>1, <2>2, <2>3 DEF EnfInv, Types, Sqns
<1>5. EnfInv'
  <2>1. /\ xs # <<>> /\ Len(run) > Top(xs).depth
        /\ UNCHANGED <<xs, settings, stmts, ev, evTid>> /\ Goto("done")
    BY DEF CreateTable, At
  <2>2. ev' \in Seq(EventRec) /\ evTid' \in Xid \cup {None}
    BY <2>1 DEF EnfInv, Types
  <2>. QED
    BY <2>1, <2>2, <1>3, <1>4, EnfWork
<1>6. ASSUME enforce = TRUE, NEW t \in Table, Stored(t)', tab'[t].am # "tde_heap"
      PROVE  Stored(t) /\ tab[t].am # "tde_heap"
  <2>1. CASE t = s.rel
    <3>1. tab'[t] = r
      BY <2>1, <1>2 DEF EnfInv, Types, Tabs
    <3>2. r.part = FALSE /\ r.am # "tde_heap"
      BY <3>1, <1>6 DEF Stored
    <3>. QED
      BY <3>2, <1>1, <1>2, <1>6 DEF Ready
  <2>2. CASE t # s.rel
    <3>1. tab'[t] = tab[t]
      BY <2>2, <1>2 DEF EnfInv, Types, Tabs
    <3>. QED
      BY <3>1, <1>6 DEF Stored
  <2>. QED
    BY <2>1, <2>2
<1>. QED
  BY <1>5, <1>6 DEF Stays

\* A step that changes at most the indexes and the parents of tables.
LEMMA StaysSame ==
    ASSUME \A t \in Table :
               \/ tab'[t] = tab[t]
               \/ tab'[t] = None
               \/ tab[t] # None /\ tab'[t].part = tab[t].part /\ tab'[t].am = tab[t].am
    PROVE  Stays
BY DEF Stays, Stored

LEMMA EnfTabStep ==
    ASSUME EnfInv, NEW kinds, NEW from, At(kinds, from), NEW st \in {"heap", "done"}, Goto(st),
           UNCHANGED <<xs, ev, evTid, settings, stmts>>, tab' \in Tabs, seq' \in Sqns
    PROVE  EnfInv'
<1>1. xs # <<>> /\ Len(run) > Top(xs).depth
  BY DEF At
<1>2. ev' \in Seq(EventRec) /\ evTid' \in Xid \cup {None}
  BY DEF EnfInv, Types
<1>. QED
  BY <1>1, <1>2, EnfWork

LEMMA IndexesCreated ==
    ASSUME EnfInv, CreateIndex, NEW c \in Table
    PROVE  LET t == Top(run).rel
           IN  \/ tab'[c] = tab[c]
               \/ /\ c \in Down(t) /\ tab[c] # None
                  /\ \E x \in File \cup {"shell"} :
                        /\ tab'[c] = [tab[c] EXCEPT !.idx = x]
                        /\ tab[c].part = FALSE => x = NewFile("none")
<1>1. PICK t \in Table : t = Top(run).rel /\ tab[t] # None
  BY AtWork DEF CreateIndex, Ready
<1>. DEFINE on == {d \in IF tab[t].part THEN Down(t) ELSE {t} : tab[d].idx = "none"}
<1>2. tab' = [d \in Table |->
                 IF d \in on
                    THEN [tab[d] EXCEPT !.idx = IF tab[d].part THEN "shell" ELSE NewFile("none")]
                    ELSE tab[d]]
  BY <1>1 DEF CreateIndex
<1>3. \A d \in Down(t) : d = t \/ tab[d] # None
  <2>. SUFFICES ASSUME NEW d \in Down(t), d # t PROVE tab[d] # None
    OBVIOUS
  <2>1. PICK S : S = {b \in Table : tab[b] # None}
    OBVIOUS
  <2>2. Children(S \cup {t}) \subseteq S /\ S \in SUBSET Table
    BY <2>1 DEF Children
  <2>3. d \in S
    BY <2>2 DEF Down
  <2>. QED
    BY <2>1, <2>3
<1>4. on \subseteq Down(t)
  BY DEF Down
<1>. HIDE DEF on
<1>5. CASE c \in on
  <2>1. PICK x : x = IF tab[c].part THEN "shell" ELSE NewFile("none")
    OBVIOUS
  <2>2. tab'[c] = [tab[c] EXCEPT !.idx = x]
    BY <1>2, <1>5, <2>1
  <2>3. x \in File \cup {"shell"} /\ (tab[c].part = FALSE => x = NewFile("none"))
    BY <2>1, NewFileType, FileTypes, Zenon
  <2>. QED
    BY <2>2, <2>3, <1>1, <1>3, <1>4, <1>5
<1>6. CASE c \notin on
  BY <1>2, <1>6
<1>. QED
  BY <1>5, <1>6

LEMMA EnfCreateIndex ==
    ASSUME EnfInv, CreateIndex
    PROVE  EnfInv' /\ Stays
<1>0. tab \in Tabs
  BY DEF EnfInv, Types
<1>1. \A c \in Table : tab[c] # None => tab[c] \in TableRec
  BY <1>0, StoredRec
<1>2. tab' = [c \in Table |-> tab'[c]] /\ seq' = seq
  BY DEF CreateIndex
<1>3. ASSUME NEW c \in Table
      PROVE  /\ tab'[c] \in TableRec \cup {None}
             /\ \/ tab'[c] = tab[c]
                \/ tab[c] # None /\ tab'[c].part = tab[c].part /\ tab'[c].am = tab[c].am
  <2>1. CASE tab'[c] = tab[c]
    BY <2>1, <1>0 DEF Tabs
  <2>2. CASE tab'[c] # tab[c]
    <3>1. PICK x \in File \cup {"shell"} : tab[c] # None /\ tab'[c] = [tab[c] EXCEPT !.idx = x]
      BY <2>2, IndexesCreated
    <3>2. PICK r \in TableRec : r = tab[c]
      BY <3>1, <1>1
    <3>3. [r EXCEPT !.idx = x] \in TableRec /\ [r EXCEPT !.idx = x].part = r.part /\ [r EXCEPT !.idx = x].am = r.am
      BY DEF TableRec
    <3>. QED
      BY <3>1, <3>2, <3>3
  <2>. QED
    BY <2>1, <2>2
<1>4. tab' \in Tabs
  BY <1>2, <1>3 DEF Tabs
<1>5. EnfInv'
  BY <1>2, <1>4, EnfTabStep DEF CreateIndex, EnfInv, Types
<1>. QED
  BY <1>3, <1>5, StaysSame

LEMMA HeapRewritten ==
    ASSUME EnfInv, RewriteHeap, NEW c \in Table
    PROVE  LET s == Top(run)
               am == IF c = s.rel /\ s.am # None THEN s.am ELSE tab[c].am
               main == IF c \in Rewritten(s) THEN NewFile(tab[c].main) ELSE tab[c].main
           IN  \/ tab'[c] = tab[c] /\ c # s.rel /\ c \notin Rewritten(s)
               \/ /\ tab[c] # None /\ (c = s.rel \/ c \in Rewritten(s))
                  /\ tab'[c] = [tab[c] EXCEPT !.am = am, !.main = main]
                  /\ am \in AM \cup {None} /\ main \in File
<1>1. PICK s \in StmtRec : /\ s = Top(run) /\ s.step = "started" /\ s.kind \in {"alter", "rewrite"}
                           /\ Ready(s)
  BY AtWork DEF RewriteHeap
<1>2. tab' = [d \in Table |->
                  IF d = s.rel \/ d \in Rewritten(s)
                     THEN [tab[d] EXCEPT
                              !.am = IF d = s.rel /\ s.am # None THEN s.am ELSE @,
                              !.main = IF d \in Rewritten(s) THEN NewFile(@) ELSE @]
                     ELSE tab[d]]
  BY <1>1 DEF RewriteHeap
<1>3. PICK R : R = Rewritten(s)
  OBVIOUS
<1>4. c \in R => tab[c] # None
  BY <1>3 DEF Rewritten, HasStorage
<1>5. c = s.rel => tab[c] # None
  BY <1>1 DEF Ready
<1>6. CASE c # s.rel /\ c \notin R
  BY <1>1, <1>2, <1>3, <1>6
<1>7. CASE c = s.rel \/ c \in R
  <2>1. PICK am : am = IF c = s.rel /\ s.am # None THEN s.am ELSE tab[c].am
    OBVIOUS
  <2>2. PICK main : main = IF c \in R THEN NewFile(tab[c].main) ELSE tab[c].main
    OBVIOUS
  <2>3. tab[c] # None /\ tab[c] \in TableRec
    BY <1>4, <1>5, <1>7, StoredRec DEF EnfInv, Types
  <2>4. am \in AM \cup {None} /\ main \in File
    BY <2>1, <2>2, <2>3, TableFields, StmtFields, NewFileType, FileTypes
  <2>5. tab'[c] = [tab[c] EXCEPT !.am = IF c = s.rel /\ s.am # None THEN s.am ELSE @,
                                 !.main = IF c \in R THEN NewFile(@) ELSE @]
    BY <1>2, <1>3, <1>7
  <2>6. tab'[c] = [tab[c] EXCEPT !.am = am, !.main = main]
    BY <2>5, <2>1, <2>2
  <2>. QED
    BY <2>1, <2>2, <2>3, <2>4, <2>6, <1>1, <1>3, <1>7
<1>. QED
  BY <1>6, <1>7

LEMMA EnfRewriteHeap ==
    ASSUME EnfInv, RewriteHeap
    PROVE  EnfInv' /\ (enforce = TRUE => Stays)
<1>0. tab \in Tabs
  BY DEF EnfInv, Types
<1>1. PICK s \in StmtRec : /\ s = Top(run) /\ s.step = "started" /\ s.kind \in {"alter", "rewrite"}
                           /\ Ready(s)
  BY AtWork DEF RewriteHeap
<1>2. tab' = [c \in Table |-> tab'[c]] /\ seq' = seq
  BY DEF RewriteHeap
<1>3. ASSUME NEW c \in Table
      PROVE  /\ tab'[c] \in TableRec \cup {None}
             /\ enforce = TRUE /\ Stored(c)' /\ tab'[c].am # "tde_heap"
                   => Stored(c) /\ tab[c].am # "tde_heap"
  <2>1. CASE tab'[c] = tab[c]
    BY <2>1, <1>0 DEF Tabs, Stored
  <2>2. CASE tab'[c] # tab[c]
    <3>a. PICK am : am = IF c = s.rel /\ s.am # None THEN s.am ELSE tab[c].am
      OBVIOUS
    <3>b. PICK m : m = IF c \in Rewritten(s) THEN NewFile(tab[c].main) ELSE tab[c].main
      OBVIOUS
    <3>1. /\ tab[c] # None /\ tab'[c] = [tab[c] EXCEPT !.am = am, !.main = m]
          /\ am \in AM \cup {None} /\ m \in File
          /\ am = IF c = s.rel /\ s.am # None THEN s.am ELSE tab[c].am
      BY <2>2, <1>1, <3>a, <3>b, HeapRewritten
    <3>2. PICK r \in TableRec : r = tab[c]
      BY <3>1, <1>0, StoredRec
    <3>c. PICK n : n = [r EXCEPT !.am = am, !.main = m]
      OBVIOUS
    <3>3. n \in TableRec /\ n = [r EXCEPT !.am = am, !.main = m] /\ n.am = am /\ n.part = r.part
      BY <3>1, <3>c DEF TableRec
    <3>4. tab'[c] = n
      BY <3>1, <3>2, <3>3
    <3>5. ASSUME enforce = TRUE, Stored(c)', tab'[c].am # "tde_heap"
          PROVE  Stored(c) /\ tab[c].am # "tde_heap"
      <4>1. Stored(c)
        BY <3>1, <3>2, <3>3, <3>4, <3>5 DEF Stored
      <4>2. am # "tde_heap"
        BY <3>3, <3>4, <3>5
      <4>3. CASE c = s.rel /\ s.am # None
        BY <4>1, <4>2, <4>3, <3>1, <3>5, <1>1 DEF Ready
      <4>4. CASE ~(c = s.rel /\ s.am # None)
        BY <4>1, <4>2, <4>4, <3>1
      <4>. QED
        BY <4>3, <4>4
    <3>. QED
      BY <3>3, <3>4, <3>5
  <2>. QED
    BY <2>1, <2>2
<1>4. tab' \in Tabs
  BY <1>2, <1>3 DEF Tabs
<1>5. EnfInv'
  BY <1>2, <1>4, EnfTabStep DEF RewriteHeap, EnfInv, Types
<1>. QED
  BY <1>3, <1>5 DEF Stays

LEMMA Reindexed ==
    ASSUME EnfInv, Reindex, NEW c \in Table
    PROVE  LET s == Top(run)
           IN  \/ tab'[c] = tab[c] /\ (c \notin Rewritten(s) \/ tab[c].idx = "none")
               \/ /\ tab[c] # None /\ c \in Rewritten(s) /\ tab[c].idx # "none"
                  /\ tab'[c] = [tab[c] EXCEPT !.idx = NewFile(tab[c].idx)]
<1>1. PICK s : s = Top(run)
  OBVIOUS
<1>2. tab' = [d \in Table |->
                  IF d \in Rewritten(s) /\ tab[d].idx # "none"
                     THEN [tab[d] EXCEPT !.idx = NewFile(@)] ELSE tab[d]]
  BY <1>1 DEF Reindex
<1>3. c \in Rewritten(s) => tab[c] # None
  BY DEF Rewritten, HasStorage
<1>. QED
  BY <1>1, <1>2, <1>3

LEMMA EnfReindex ==
    ASSUME EnfInv, Reindex
    PROVE  EnfInv' /\ Stays
<1>0. tab \in Tabs
  BY DEF EnfInv, Types
<1>2. tab' = [c \in Table |-> tab'[c]] /\ seq' = seq
  BY DEF Reindex
<1>3. ASSUME NEW c \in Table
      PROVE  /\ tab'[c] \in TableRec \cup {None}
             /\ \/ tab'[c] = tab[c]
                \/ tab[c] # None /\ tab'[c].part = tab[c].part /\ tab'[c].am = tab[c].am
  <2>1. CASE tab'[c] = tab[c]
    BY <2>1, <1>0 DEF Tabs
  <2>2. CASE tab'[c] # tab[c]
    <3>1. PICK x \in File : tab[c] # None /\ tab'[c] = [tab[c] EXCEPT !.idx = x]
      BY <2>2, Reindexed, NewFileType, FileTypes
    <3>2. PICK r \in TableRec : r = tab[c]
      BY <3>1, <1>0, StoredRec
    <3>3. [r EXCEPT !.idx = x] \in TableRec /\ [r EXCEPT !.idx = x].part = r.part /\ [r EXCEPT !.idx = x].am = r.am
      BY DEF TableRec
    <3>. QED
      BY <3>1, <3>2, <3>3
  <2>. QED
    BY <2>1, <2>2
<1>4. tab' \in Tabs
  BY <1>2, <1>3 DEF Tabs
<1>5. EnfInv'
  BY <1>2, <1>4, EnfTabStep DEF Reindex, EnfInv, Types
<1>. QED
  BY <1>3, <1>5, StaysSame

\* Moving an index and attaching a partition change one table.
LEMMA EnfMoveIndex ==
    ASSUME EnfInv, MoveIndex
    PROVE  EnfInv' /\ Stays
<1>0. tab \in Tabs
  BY DEF EnfInv, Types
<1>1. PICK t \in Table : t = Top(run).rel /\ tab[t] # None
  BY AtWork DEF MoveIndex, Ready
<1>2. PICK r \in TableRec : r = tab[t]
  BY <1>0, <1>1, StoredRec
<1>3. PICK x \in File \cup {"shell"} : x = NewFile(tab[t].idx)
  BY NewFileType, FileTypes
<1>a. PICK n : n = [r EXCEPT !.idx = x]
  OBVIOUS
<1>4. n \in TableRec /\ n = [r EXCEPT !.idx = x] /\ n.am = r.am /\ n.part = r.part
  BY <1>a DEF TableRec
<1>5. tab' = [tab EXCEPT ![t] = n]
  BY <1>0, <1>1, <1>2, <1>3, <1>4 DEF MoveIndex, Tabs
<1>6. tab' \in Tabs /\ tab'[t] = n /\ \A c \in Table : c # t => tab'[c] = tab[c]
  BY <1>0, <1>4, <1>5 DEF Tabs
<1>7. EnfInv'
  BY <1>6, EnfTabStep DEF MoveIndex, EnfInv, Types
<1>. QED
  BY <1>1, <1>2, <1>4, <1>6, <1>7, StaysSame

LEMMA Attached ==
    ASSUME EnfInv, Attach
    PROVE  LET t == Top(run).rel
               c == Top(run).up
           IN  /\ t \in Table /\ c \in Table /\ tab[c] \in TableRec /\ tab[c] # None
               /\ \E x \in File \cup {"shell"} :
                    /\ tab' = [tab EXCEPT ![c] = [tab[c] EXCEPT !.up = t, !.idx = x]]
                    /\ tab[t].idx = "none" \/ tab[c].idx # "none" => x = tab[c].idx
<1>0. tab \in Tabs
  BY DEF EnfInv, Types
<1>1. PICK t, c : t = Top(run).rel /\ c = Top(run).up /\ t \in Table /\ c \in Table /\ tab[c] # None
  BY AtWork DEF Attach, Ready, Stored
<1>2. tab[c] \in TableRec
  BY <1>0, <1>1, StoredRec
<1>3. PICK x : x = IF tab[t].idx # "none" /\ tab[c].idx = "none" THEN NewFile("none") ELSE tab[c].idx
  OBVIOUS
<1>4. x \in File \cup {"shell"}
  BY <1>2, <1>3, TableFields, NewFileType, FileTypes
<1>5. tab' = [tab EXCEPT ![c] = [tab[c] EXCEPT !.up = t, !.idx = x]]
  <2>1. tab' = [tab EXCEPT ![c].up = t,
                              ![c].idx = IF tab[t].idx # "none" /\ tab[c].idx = "none"
                                            THEN NewFile("none") ELSE @]
    BY <1>1 DEF Attach
  <2>. QED
    BY <2>1, <1>0, <1>1, <1>2, <1>3 DEF Tabs, TableRec
<1>6. tab[t].idx = "none" \/ tab[c].idx # "none" => x = tab[c].idx
  BY <1>3
<1>. QED
  BY <1>1, <1>2, <1>4, <1>5, <1>6

LEMMA EnfAttach ==
    ASSUME EnfInv, Attach
    PROVE  EnfInv' /\ Stays
<1>0. tab \in Tabs
  BY DEF EnfInv, Types
<1>1. PICK t \in Table, c \in Table, x \in File \cup {"shell"} :
         /\ tab[c] \in TableRec /\ tab[c] # None
         /\ tab' = [tab EXCEPT ![c] = [tab[c] EXCEPT !.up = t, !.idx = x]]
  BY Attached
<1>2. PICK r \in TableRec : r = tab[c]
  BY <1>1
<1>a. PICK n : n = [r EXCEPT !.up = t, !.idx = x]
  OBVIOUS
<1>4. n \in TableRec /\ n = [r EXCEPT !.up = t, !.idx = x] /\ n.am = r.am /\ n.part = r.part
  BY <1>a DEF TableRec
<1>6. tab' \in Tabs /\ tab'[c] = n /\ \A d \in Table : d # c => tab'[d] = tab[d]
  BY <1>0, <1>1, <1>2, <1>4 DEF Tabs
<1>7. EnfInv'
  BY <1>6, EnfTabStep DEF Attach, EnfInv, Types
<1>. QED
  BY <1>1, <1>2, <1>4, <1>6, <1>7, StaysSame

LEMMA SeqChanged ==
    ASSUME EnfInv, ChangeSeq
    PROVE  LET s == Top(run)
           IN  /\ s.sq \in Sqn
               /\ \E r \in SqnRec :
                    /\ seq' = [seq EXCEPT ![s.sq] = r]
                    /\ s.kind = "cseq" => r.file = NewFile("none") /\ r.owner = s.rel
                    /\ s.kind = "aseq" => seq[s.sq] # None /\ r.file = seq[s.sq].file /\ r.owner = s.rel
                    /\ s.kind = "restart" => /\ seq[s.sq] # None /\ r.owner = seq[s.sq].owner
                                             /\ r.file = NewFile(seq[s.sq].file)
<1>1. PICK s \in StmtRec : /\ s = Top(run) /\ s.step = "started" /\ Ready(s)
                           /\ s.kind \in {"cseq", "aseq", "restart"}
  BY AtWork DEF ChangeSeq
<1>2. s.sq \in Sqn /\ (s.kind # "cseq" => seq[s.sq] \in SqnRec /\ seq[s.sq] # None)
  BY <1>1 DEF Ready, EnfInv, Types, Sqns
<1>3. seq' = [seq EXCEPT ![s.sq] =
                  CASE s.kind = "cseq" -> [file |-> NewFile("none"), owner |-> s.rel]
                    [] s.kind = "aseq" -> [seq[s.sq] EXCEPT !.owner = s.rel]
                    [] OTHER -> [seq[s.sq] EXCEPT !.file = NewFile(seq[s.sq].file)]]
  BY <1>1 DEF ChangeSeq
<1>4. CASE s.kind = "cseq"
  <2>1. PICK f \in {"plain", "enc"} : f = NewFile("none")
    BY NewFileType
  <2>a. PICK r : r = [file |-> f, owner |-> s.rel]
    OBVIOUS
  <2>2. r \in SqnRec /\ r.file = f /\ r.owner = s.rel
    BY <2>a, StmtFields DEF SqnRec
  <2>3. seq' = [seq EXCEPT ![s.sq] = r]
    BY <1>3, <1>4, <2>1, <2>a
  <2>. QED
    BY <1>1, <1>2, <1>4, <2>1, <2>2, <2>3
<1>5. CASE s.kind = "aseq"
  <2>1. PICK o \in SqnRec : o = seq[s.sq] /\ seq[s.sq] # None
    BY <1>2, <1>5
  <2>a. PICK r : r = [o EXCEPT !.owner = s.rel]
    OBVIOUS
  <2>2. r \in SqnRec /\ r.file = o.file /\ r.owner = s.rel
    BY <2>a, StmtFields DEF SqnRec
  <2>3. seq' = [seq EXCEPT ![s.sq] = r]
    BY <1>3, <1>5, <2>1, <2>a
  <2>. QED
    BY <1>1, <1>2, <1>5, <2>1, <2>2, <2>3
<1>6. CASE s.kind = "restart"
  <2>1. PICK o \in SqnRec : o = seq[s.sq] /\ seq[s.sq] # None
    BY <1>2, <1>6
  <2>2. PICK f \in {"plain", "enc"} : f = NewFile(o.file)
    BY NewFileType
  <2>a. PICK r : r = [o EXCEPT !.file = f]
    OBVIOUS
  <2>3. r \in SqnRec /\ r.file = f /\ r.owner = o.owner
    BY <2>a DEF SqnRec
  <2>4. seq' = [seq EXCEPT ![s.sq] = r]
    <3>2. seq' = [seq EXCEPT ![s.sq] = [seq[s.sq] EXCEPT !.file = NewFile(seq[s.sq].file)]]
      BY <1>3, <1>6
    <3>. QED
      BY <3>2, <2>1, <2>2, <2>a
  <2>. QED
    BY <1>1, <1>2, <1>6, <2>1, <2>2, <2>3, <2>4
<1>. QED
  BY <1>1, <1>4, <1>5, <1>6

LEMMA EnfChangeSeq ==
    ASSUME EnfInv, ChangeSeq
    PROVE  EnfInv' /\ Stays
<1>1. PICK q \in Sqn, r \in SqnRec : seq' = [seq EXCEPT ![q] = r]
  BY SeqChanged
<1>2. seq' \in Sqns /\ tab' = tab
  BY <1>1 DEF ChangeSeq, EnfInv, Types, Sqns
<1>3. EnfInv'
  BY <1>2, EnfTabStep DEF ChangeSeq, EnfInv, Types
<1>. QED
  BY <1>2, <1>3, StaysSame

LEMMA EnfDropTable ==
    ASSUME EnfInv, DropTable
    PROVE  EnfInv' /\ Stays
<1>1. PICK t : t = Top(run).rel /\ tab' = [tab EXCEPT ![t] = None]
  BY DEF DropTable
<1>2. tab' \in Tabs /\ \A c \in Table : tab'[c] = tab[c] \/ tab'[c] = None
  BY <1>1 DEF EnfInv, Types, Tabs
<1>3. seq' \in Sqns
  BY DEF DropTable, EnfInv, Types, Sqns
<1>4. EnfInv'
  BY <1>2, <1>3, EnfTabStep DEF DropTable
<1>. QED
  BY <1>2, <1>4, StaysSame

LEMMA EnfInit == Init => EnfInv
<1>. SUFFICES ASSUME Init PROVE EnfInv
  OBVIOUS
<1>1. tab \in Tabs /\ seq \in Sqns
  BY DEF Init, Tabs, Sqns
<1>2. /\ xs = <<>> /\ run = <<>> /\ ev = <<>> /\ evTid = None
      /\ dflt \in Defaults /\ enforce \in BOOLEAN /\ keyed \in BOOLEAN /\ stmts = 0
  BY DEF Init
<1>3. Types
  BY <1>1, <1>2, DdlEventsAssumption DEF Types
<1>. QED
  BY <1>2, <1>3 DEF EnfInv, Nested

LEMMA EnfStart ==
    ASSUME "schema" \notin Paths, EnfInv, NEW a \in FreeAddr, Start(a)
    PROVE  EnfInv'
<1>1. stmts' = stmts + 1
  BY DEF Start
<1>2. CASE \E t \in Table : \E using \in AM \cup {None}, part \in BOOLEAN,
              up \in Table \cup {None}, s \in Sqn \cup {None}, triggers \in BOOLEAN :
              StartCreate(a, t, using, part, up, s, triggers)
  BY <1>1, <1>2, EnfStartCreate
<1>3. CASE \E t \in Table : StartIndex(a, t)
  BY <1>1, <1>3, EnfStartIndex
<1>4. CASE \E t \in Table : \E am \in AM \cup {None} : StartAlter(a, t, am)
  BY <1>1, <1>4, EnfStartAlter
<1>5. CASE \E t \in Table : StartAlterIndex(a, t)
  BY <1>1, <1>5, EnfStartAlterIndex
<1>6. CASE \E t \in Table, c \in Table : StartAttach(a, t, c)
  BY <1>1, <1>6, EnfStartAttach
<1>7. CASE \E t \in Table : (\E triggers \in BOOLEAN : StartRewrite(a, t, triggers)) \/ StartDrop(a, t)
  BY <1>1, <1>7, EnfStartPlain
<1>8. CASE \E s \in Sqn : \/ \E t \in Table \cup {None} : StartCreateSeq(a, s, t) \/ StartAlterSeq(a, s, t)
                          \/ StartRestartSeq(a, s)
  BY <1>1, <1>8, EnfStartSeq
<1>. QED
  BY <1>2, <1>3, <1>4, <1>5, <1>6, <1>7, <1>8 DEF Start

LEMMA EnfNext ==
    ASSUME "schema" \notin Paths, EnfInv, [Next]_vars
    PROVE  EnfInv'
<1>1. CASE UNCHANGED vars
  <2>1. UNCHANGED <<tab, seq, xs, run, ev, evTid, dflt, enforce, keyed, stmts>>
    BY <1>1 DEF vars
  <2>2. Types' /\ Nested'
    BY <2>1 DEF EnfInv, Types, Nested
  <2>3. (\A i \in DOMAIN run : Ready(run[i]))'
    BY <2>1 DEF EnfInv, Ready, Stored
  <2>. QED
    BY <2>2, <2>3 DEF EnfInv
<1>2. CASE Begin \/ Commit \/ Abort \/ SetEnforce \/ End
  BY <1>2, EnfBegin, EnfCommit, EnfAbort, EnfSetEnforce, EnfEnd
<1>3. CASE \E a \in FreeAddr : Start(a)
  BY <1>3, EnfStart
<1>4. CASE CreateTable \/ CreateIndex \/ RewriteHeap \/ Reindex \/ MoveIndex \/ Attach
              \/ ChangeSeq \/ DropTable
  BY <1>4, EnfCreateTable, EnfCreateIndex, EnfRewriteHeap, EnfReindex, EnfMoveIndex, EnfAttach,
     EnfChangeSeq, EnfDropTable
<1>. QED
  BY <1>1, <1>2, <1>3, <1>4 DEF Next

\* A step that does not act on a table leaves them alone, or ends a transaction.
LEMMA StartLeaves ==
    ASSUME EnfInv, NEW a \in FreeAddr, Start(a)
    PROVE  tab' = tab \/ Len(xs') < Len(xs)
<1>1. RollBack => Len(xs') < Len(xs)
  <2>1. xs # <<>>
    BY Free DEF EnfInv
  <2>2. Len(Pop(xs)) = Len(xs) - 1 /\ Len(xs) \in Nat
    BY <2>1, Ends DEF EnfInv, Types
  <2>. QED
    BY <2>2 DEF RollBack
<1>2. \A s : Enter(s) => tab' = tab
  BY DEF Enter
<1>3. \A s, e, ok : Push(s, e, ok) => tab' = tab \/ Len(xs') < Len(xs)
  BY <1>1, <1>2, Zenon DEF Push
<1>4. CASE \E t \in Table : \E using \in AM \cup {None}, part \in BOOLEAN,
              up \in Table \cup {None}, s \in Sqn \cup {None}, triggers \in BOOLEAN :
              StartCreate(a, t, using, part, up, s, triggers)
  <2>1. PICK t \in Table, using \in AM \cup {None}, part \in BOOLEAN,
             up \in Table \cup {None}, s \in Sqn \cup {None}, triggers \in BOOLEAN :
             StartCreate(a, t, using, part, up, s, triggers)
    BY <1>4
  <2>2. CASE triggers
    BY <2>1, <2>2, <1>1, Zenon DEF StartCreate, Push, Enter
  <2>3. CASE ~triggers
    BY <2>1, <2>3, Zenon DEF StartCreate, Enter
  <2>. QED
    BY <2>2, <2>3, Zenon
<1>5. CASE \E t \in Table : StartIndex(a, t) \/ StartAlterIndex(a, t)
  BY <1>1, <1>5, Zenon DEF StartIndex, StartAlterIndex, Push, Enter
<1>6. CASE \E t \in Table : \E am \in AM \cup {None} : StartAlter(a, t, am)
  BY <1>1, <1>6, Zenon DEF StartAlter, Push, Enter
<1>7. CASE \E t \in Table, c \in Table : StartAttach(a, t, c)
  BY <1>1, <1>7, Zenon DEF StartAttach, Push, Enter
<1>8. CASE \E t \in Table : (\E triggers \in BOOLEAN : StartRewrite(a, t, triggers)) \/ StartDrop(a, t)
  BY <1>8, Zenon DEF StartRewrite, StartDrop, Enter
<1>9. CASE \E s \in Sqn : \/ \E t \in Table \cup {None} : StartCreateSeq(a, s, t) \/ StartAlterSeq(a, s, t)
                          \/ StartRestartSeq(a, s)
  BY <1>1, <1>9, Zenon DEF StartCreateSeq, StartAlterSeq, StartRestartSeq, Push, Enter
<1>. QED
  BY <1>4, <1>5, <1>6, <1>7, <1>8, <1>9 DEF Start

LEMMA StaysStep ==
    ASSUME EnfInv, EnfInv', Next, enforce = TRUE, Len(xs') >= Len(xs)
    PROVE  Stays
<1>1. Len(xs) \in Nat
  BY Elems DEF EnfInv
<1>2. CASE tab' = tab
  BY <1>2, StaysSame
<1>3. CASE Begin \/ Commit \/ SetEnforce \/ End
  BY <1>2, <1>3 DEF Begin, Commit, SetEnforce, End
<1>4. CASE Abort
  <2>1. Len(xs') = Len(xs) - 1
    BY <1>4, Ends DEF Abort, RollBack, EnfInv, Types
  <2>. QED
    BY <2>1, <1>1
<1>5. CASE \E a \in FreeAddr : Start(a)
  <2>1. tab' = tab \/ Len(xs') < Len(xs)
    BY <1>5, StartLeaves
  <2>2. ~(Len(xs') < Len(xs))
    <3>1. Len(xs') \in Nat
      BY DEF EnfInv, Types
    <3>. QED
      BY <3>1, <1>1
  <2>. QED
    BY <2>1, <2>2, <1>2
<1>6. CASE CreateTable \/ CreateIndex \/ RewriteHeap \/ Reindex \/ MoveIndex \/ Attach
              \/ ChangeSeq \/ DropTable
  BY <1>6, EnfCreateTable, EnfCreateIndex, EnfRewriteHeap, EnfReindex, EnfMoveIndex, EnfAttach,
     EnfChangeSeq, EnfDropTable
<1>. QED
  BY <1>3, <1>4, <1>5, <1>6 DEF Next


\* While open_pg_tde.enforce_encryption is on, the start trigger lets no statement
\* give a table with storage an access method other than tde_heap, however the
\* statements nest and fail; only a CREATE TABLE inside CREATE SCHEMA, for which it
\* does not fire, is left out.
THEOREM EnforcedAlways ==
    ASSUME "schema" \notin Paths
    PROVE  Spec => Enforced
<1>1. Init => EnfInv
  BY EnfInit
<1>2. EnfInv /\ [Next]_vars => EnfInv'
  BY EnfNext
<1>3. EnfInv /\ EnfInv' /\ [Next]_vars =>
          [enforce /\ Len(xs') >= Len(xs) =>
              \A t \in Table : HasStorage(t)' /\ tab'[t].am # "tde_heap"
                                  => HasStorage(t) /\ tab[t].am # "tde_heap"]_vars
  <2>. SUFFICES ASSUME EnfInv, EnfInv', Next, enforce, Len(xs') >= Len(xs), NEW t \in Table,
                       HasStorage(t)', tab'[t].am # "tde_heap"
                PROVE  HasStorage(t) /\ tab[t].am # "tde_heap"
    OBVIOUS
  <2>1. enforce = TRUE
    BY Zenon DEF EnfInv, Types
  <2>2. Stays
    BY <2>1, StaysStep
  <2>3. tab \in Tabs /\ tab' \in Tabs
    BY DEF EnfInv, Types
  <2>4. (HasStorage(t) <=> Stored(t)) /\ (HasStorage(t)' <=> Stored(t)')
    BY <2>3, StoredIs, StoredIsNext
  <2>. QED
    BY <2>2, <2>4 DEF Stays
<1>. QED
  BY <1>1, <1>2, <1>3, PTL DEF Spec, Enforced

-----------------------------------------------------------------------------
(* Tables below a table.                                                   *)

LEMMA DownIn ==
    ASSUME NEW t
    PROVE  /\ t \in Down(t) /\ Down(t) \subseteq Table \cup {t}
           /\ \A d \in Down(t) : d = t \/ tab[d] # None
<1>1. ASSUME NEW d \in Down(t), d # t PROVE tab[d] # None
  <2>1. PICK S : S = {b \in Table : tab[b] # None}
    OBVIOUS
  <2>2. Children(S \cup {t}) \subseteq S /\ S \in SUBSET Table
    BY <2>1 DEF Children
  <2>3. d \in S
    BY <1>1, <2>2 DEF Down
  <2>. QED
    BY <2>1, <2>3
<1>. QED
  BY <1>1 DEF Down

LEMMA DownChild ==
    ASSUME NEW t, NEW c \in Table, tab[c] # None, tab[c].up \in Down(t) \ {None}
    PROVE  c \in Down(t)
<1>. SUFFICES ASSUME NEW S \in SUBSET Table, Children(S \cup {t}) \subseteq S
              PROVE  c \in S
  BY DEF Down
<1>1. tab[c].up \in (S \cup {t}) \ {None}
  BY DEF Down
<1>. QED
  BY <1>1 DEF Children

\* No table that comes under one of Down(t) is a new one.
LEMMA DownShrinks ==
    ASSUME NEW t,
           \A c \in Table : tab'[c] # None /\ tab'[c].up \in Down(t) \ {None} => c \in Down(t)
    PROVE  Down(t)' \subseteq Down(t)
<1>1. PICK S \in SUBSET Table : S = Down(t) \cap Table
  OBVIOUS
<1>2. S \cup {t} = Down(t)
  BY <1>1, DownIn
<1>3. (Children(S \cup {t}) \subseteq S)'
  BY <1>1, <1>2 DEF Children
<1>. SUFFICES ASSUME NEW c \in Down(t)', c # t PROVE c \in S
  BY <1>1, <1>2
<1>. QED
  BY <1>3 DEF Down

LEMMA DownSame ==
    ASSUME tab' = tab, NEW t
    PROVE  Down(t)' = Down(t)
BY DEF Down, Children

LEMMA AlterBusy ==
    ASSUME Lined, NEW i \in DOMAIN run, run[i].kind = "alter"
    PROVE  Down(run[i].rel) \subseteq Busy
<1>1. run[i].rel \in Table
  BY DEF Lined
<1>2. None \notin Down(run[i].rel)
  BY <1>1, DownIn, DdlEventsAssumption
<1>. SUFFICES ASSUME NEW d \in Down(run[i].rel) PROVE d \in Busy
  OBVIOUS
<1>3. PICK D : D = Down(run[i].rel) \cup {run[i].up}
  OBVIOUS
<1>4. D \in {Down(run[j].rel) \cup {run[j].up} : j \in DOMAIN run} /\ d \in D /\ d # None
  BY <1>2, <1>3
<1>5. PICK U : U = {Down(run[j].rel) \cup {run[j].up} : j \in DOMAIN run}
  OBVIOUS
<1>6. d \in (UNION U) \ {None}
  BY <1>4, <1>5
<1>7. Busy = (UNION U) \ {None}
  BY <1>5 DEF Busy
<1>. QED
  BY <1>6, <1>7

LEMMA MixModeOf ==
    ASSUME tab \in Tabs, NEW t \in Table, ~Mixed(t), NEW c \in Down(t), Stored(c)
    PROVE  MixMode(t) = ModeOf(tab[c].am)
<1>1. c \in Table
  BY DownIn
<1>2. PICK M : M = Mix(t)
  OBVIOUS
<1>3. \A d \in Table : HasStorage(d) => tab[d].am \in AM \cup {None}
  BY StoredIs, StoredRec, TableFields DEF Stored
<1>4. M \subseteq {"heap", "tde_heap", None}
  BY <1>2, <1>3, DownIn DEF Mix, AM
<1>5. IsFiniteSet({"heap", "tde_heap", None})
  <2>1. IsFiniteSet({None})
    BY FS_Singleton
  <2>2. IsFiniteSet({None} \cup {"heap"})
    BY <2>1, FS_AddElement
  <2>3. IsFiniteSet(({None} \cup {"heap"}) \cup {"tde_heap"})
    BY <2>2, FS_AddElement
  <2>4. {"heap", "tde_heap", None} = ({None} \cup {"heap"}) \cup {"tde_heap"}
    OBVIOUS
  <2>. QED
    BY <2>3, <2>4
<1>6. IsFiniteSet(M) /\ Cardinality(M) \in Nat
  BY <1>4, <1>5, FS_Subset, FS_CardinalityType
<1>7. tab[c].am \in M
  BY <1>1, <1>2, StoredIs DEF Mix
<1>8. Cardinality(M) # 0
  BY <1>6, <1>7, FS_EmptySet
<1>9. Cardinality(M) = 1
  BY <1>2, <1>6, <1>8 DEF Mixed
<1>10. PICK m : M = {m}
  BY <1>6, <1>9, FS_Singleton
<1>11. (CHOOSE x \in M : TRUE) = tab[c].am
  BY <1>7, <1>10
<1>. QED
  BY <1>2, <1>7, <1>11 DEF MixMode

-----------------------------------------------------------------------------
(* The event of the innermost statement gives the mode.                    *)

LEMMA NewFileOf ==
    ASSUME NEW am, ModeValidated = ModeOf(am)
    PROVE  \A x : NewFile(x) = FileFor(am)
BY DEF NewFile, ModeOf, FileFor

LEMMA NewFileRetains ==
    ASSUME ModeValidated = "retain", NEW f \in {"plain", "enc"}
    PROVE  NewFile(f) = f
BY DEF NewFile

LEMMA Counts ==
    ASSUME Types, Lined
    PROVE  /\ Skipped \in {0, 1} /\ Skipped <= Len(run) /\ Len(run) \in Nat
           /\ run = <<>> => Events = 0
           /\ run # <<>> => /\ Len(run) >= 1 /\ Top(run) = run[Len(run)]
                            /\ Top(run).kind = "drop" => Events = Len(run) - Skipped - 1
                            /\ Top(run).kind # "drop" => Events = Len(run) - Skipped
                            /\ Top(run).kind = "rewrite" => Events = 0 /\ Len(run) = 1
                            /\ Top(run).kind \notin {"rewrite", "drop"} => Events >= 1
           /\ Events \in Nat
           /\ \A i \in DOMAIN run : run[i].kind \notin {"rewrite", "drop"} <=> i \in Skipped + 1..Skipped + Events
<1>1. CASE run = <<>>
  BY <1>1, Elems DEF Skipped, Events
<1>2. CASE run # <<>>
  <2>1. PICK n \in Nat \ {0} : n = Len(run) /\ n \in DOMAIN run /\ Top(run) = run[n] /\ DOMAIN run = 1..n
    BY <1>2, Ends, Elems DEF Types
  <2>2. PICK k \in {0, 1} : k = Skipped /\ (k = 1 <=> run[1].kind = "rewrite")
    BY <1>2 DEF Skipped
  <2>3. k = 1 /\ Top(run).kind = "drop" => n > 1
    BY <2>1, <2>2
  <2>4. Top(run).kind = "rewrite" => n = 1
    BY <2>1 DEF Lined
  <2>5. \A i \in 1..n : /\ run[i].kind = "rewrite" <=> k = 1 /\ i = 1
                        /\ run[i].kind = "drop" => i = n
    BY <2>1, <2>2 DEF Lined
  <2>6. CASE Top(run).kind = "drop"
    <3>1. Events = n - k - 1
      BY <1>2, <2>1, <2>2, <2>6 DEF Events
    <3>2. \A i \in 1..n : run[i].kind \notin {"rewrite", "drop"} <=> i \in k + 1..k + (n - k - 1)
      BY <2>5, <2>1, <2>2, <2>6
    <3>. QED
      BY <3>1, <3>2, <2>1, <2>2, <2>3, <1>2, <2>6
  <2>7. CASE Top(run).kind # "drop"
    <3>1. Events = n - k
      BY <1>2, <2>1, <2>2, <2>7 DEF Events
    <3>2. \A i \in 1..n : run[i].kind \notin {"rewrite", "drop"} <=> i \in k + 1..k + (n - k)
      BY <2>5, <2>1, <2>2, <2>7
    <3>3. Top(run).kind = "rewrite" => Events = 0 /\ n = 1
      <4>1. Top(run).kind = "rewrite" => n = 1 /\ k = 1
        BY <2>1, <2>2, <2>4
      <4>. QED
        BY <4>1, <3>1
    <3>4. Top(run).kind # "rewrite" => n - k >= 1
      BY <2>1, <2>2
    <3>. QED
      BY <3>1, <3>2, <3>3, <3>4, <2>1, <2>2, <1>2, <2>7
  <2>. QED
    BY <2>6, <2>7
<1>. QED
  BY <1>1, <1>2

LEMMA TopEvent ==
    ASSUME Types, Lined, Mirrored, xs # <<>>, run # <<>>, Top(run).kind \notin {"rewrite", "drop"}
    PROVE  /\ evTid = Tid /\ Kept = ev /\ ev # <<>> /\ Len(ev) = Events
           /\ Top(ev) \in EventRec /\ Top(ev) = ev[Len(ev)]
           /\ EventOf(Top(ev), Top(run)) /\ ModeValidated = Top(ev).mode
<1>1. Events \in Nat /\ Events >= 1 /\ Events = Len(run) - Skipped /\ Len(run) \in Nat /\ Skipped \in {0, 1}
  BY Counts
<1>2. Len(Kept) = Events /\ EventOf(Kept[Events], run[Events + Skipped])
  BY <1>1 DEF Mirrored
<1>3. evTid = Tid /\ Kept = ev /\ ev # <<>>
  BY <1>1, <1>2 DEF Kept
<1>4. Top(ev) \in EventRec /\ Top(ev) = ev[Len(ev)]
  BY <1>3, Ends DEF Types
<1>5. Events + Skipped = Len(run)
  BY <1>1
<1>6. EventOf(Top(ev), Top(run))
  BY <1>2, <1>3, <1>4, <1>5 DEF Top
<1>. QED
  BY <1>2, <1>3, <1>4, <1>6 DEF ModeValidated, CurrentMode

LEMMA NoEvent ==
    ASSUME Types, Lined, Mirrored, xs # <<>>, Events = 0
    PROVE  Kept = <<>> /\ ModeValidated = "retain"
<1>1. Kept = <<>>
  BY KeptType DEF Mirrored
<1>. QED
  BY <1>1 DEF Kept, ModeValidated, CurrentMode

-----------------------------------------------------------------------------
(* Transactions keep FilesInv.                                             *)

LEMMA MatchesSnapshot ==
    ASSUME TabsMatch, SeqsMatch, run = <<>>
    PROVE  Matched(tab, seq)
<1>1. ASSUME NEW t \in Table, tab[t] # None, tab[t].part = FALSE
      PROVE  /\ tab[t].am \in AM
             /\ tab[t].main = FileFor(tab[t].am)
             /\ tab[t].idx \in {"none", FileFor(tab[t].am)}
  BY <1>1 DEF TabsMatch, Stored
<1>2. ASSUME NEW s \in Sqn, seq[s] # None
      PROVE  \/ seq[s].owner = None /\ seq[s].file = "plain"
             \/ /\ seq[s].owner # None
                /\ tab[seq[s].owner] # None
                /\ tab[seq[s].owner].part = FALSE => seq[s].file = FileFor(tab[seq[s].owner].am)
  BY <1>2 DEF SeqsMatch, Stored
<1>. QED
  BY <1>1, <1>2 DEF Matched

LEMMA SnapshotMatches ==
    ASSUME run' = <<>>, NEW tb, NEW sq, tab' = tb, seq' = sq, Matched(tb, sq)
    PROVE  TabsMatch' /\ SeqsMatch' /\ Apart' /\ NoAttachedIndex'
<1>1. TabsMatch'
  BY DEF TabsMatch, Matched, Stored
<1>2. SeqsMatch'
  BY DEF SeqsMatch, Matched, Stored
<1>3. Apart' /\ NoAttachedIndex'
  BY DEF Apart, NoAttachedIndex
<1>. QED
  BY <1>1, <1>2, <1>3

\* With no statement in progress there are no events of the transaction.
LEMMA MirrorsNothing ==
    ASSUME run' = <<>>, Len(ev') <= MaxDepth, xs' # <<>> => Kept' = <<>>
    PROVE  Mirrored'
<1>1. Events' = 0
  BY DEF Events, Skipped
<1>. QED
  BY <1>1 DEF Mirrored

LEMMA FilesRollBack ==
    ASSUME FilesInv, EnfInv', xs # <<>>, RollBack, Len(ev') <= MaxDepth,
           \/ ev' = ev /\ evTid' = evTid
           \/ evTid' = Tid
    PROVE  FilesInv'
<1>. USE DEF FilesInv, EnfInv
<1>1. PICK n \in Nat \ {0} : n = Len(xs) /\ n \in DOMAIN xs
  BY Ends DEF Types
<1>2. /\ Len(xs') = n - 1 /\ xs' \in Seq(XactRec)
      /\ \A i \in 1..n - 1 : xs'[i] = xs[i]
  BY <1>1, Ends DEF Types, RollBack
<1>3. DOMAIN xs' = 1..n - 1 /\ DOMAIN xs = 1..n
  BY <1>1, <1>2, Elems
<1>4. tab' = xs[n].tab /\ seq' = xs[n].seq /\ run' = SubSeq(run, 1, 0)
  BY <1>1 DEF RollBack, Top, Lined
<1>5. run' = <<>>
  BY <1>4 DEF Types
<1>6. TabsMatch' /\ SeqsMatch' /\ Apart' /\ NoAttachedIndex'
  BY <1>1, <1>4, <1>5, SnapshotMatches DEF Snapshots
<1>7. Lined'
  BY <1>2, <1>3, <1>5 DEF Lined
<1>8. Snapshots'
  BY <1>2, <1>3 DEF Snapshots
<1>9. Tagged' /\ (xs' # <<>> => Kept' = <<>>)
  <2>1. \A i, j \in DOMAIN xs' : xs'[i].xid = xs'[j].xid => i = j
    BY <1>2, <1>3 DEF Tagged
  <2>2. \A i \in DOMAIN xs' : xs'[i].xid = evTid' => ev' = <<>>
    <3>1. CASE ev' = ev /\ evTid' = evTid
      BY <3>1, <1>1, <1>2, <1>3 DEF Tagged
    <3>2. CASE evTid' = Tid
      <4>1. Tid = xs[n].xid
        BY <1>1, TidType
      <4>. QED
        BY <3>2, <4>1, <1>1, <1>2, <1>3 DEF Tagged
    <3>. QED
      BY <3>1, <3>2
  <2>3. ASSUME xs' # <<>> PROVE Kept' = <<>>
    <3>1. Tid' = xs'[Len(xs')].xid /\ Len(xs') \in DOMAIN xs'
      BY <2>3, <1>2, Ends DEF Tid
    <3>. QED
      BY <3>1, <2>2 DEF Kept
  <2>. QED
    BY <2>1, <2>2, <2>3 DEF Tagged
<1>10. Mirrored'
  BY <1>5, <1>9, MirrorsNothing
<1>. QED
  BY <1>6, <1>7, <1>8, <1>9, <1>10

LEMMA FilesBegin ==
    ASSUME FilesInv, EnfInv', Begin, Paths = {}
    PROVE  FilesInv'
<1>. USE DEF FilesInv, EnfInv
<1>. DEFINE fresh == CHOOSE y \in Xid : y \notin {xs[i].xid : i \in DOMAIN xs} \cup {evTid}
<1>1. PICK n \in Nat : n = Len(xs) /\ DOMAIN xs = 1..n
  BY Elems
<1>2. PICK f \in Xid : f = fresh /\ f # evTid /\ \A i \in DOMAIN xs : xs[i].xid # f
  BY FreshXid DEF Begin
<1>3. PICK x : x = [xid |-> f, tab |-> tab, seq |-> seq, depth |-> Len(run)]
  OBVIOUS
<1>4. xs' = Append(xs, x) /\ run = <<>> /\ UNCHANGED <<tab, seq, run, ev, evTid, settings>>
  BY <1>2, <1>3 DEF Begin
<1>5. x.xid = f /\ x.tab = tab /\ x.seq = seq /\ x.depth = 0
  BY <1>3, <1>4
<1>6. /\ DOMAIN xs' = 1..n + 1 /\ Len(xs') = n + 1 /\ xs' # <<>>
      /\ xs'[n + 1] = x /\ \A i \in 1..n : xs'[i] = xs[i]
  <2>1. xs' \in Seq(XactRec) /\ Len(xs') = n + 1 /\ xs'[n + 1] = x /\ \A i \in 1..n : xs'[i] = xs[i]
    BY <1>1, <1>4 DEF Types
  <2>. QED
    BY <2>1
<1>7. Matched(tab, seq)
  BY <1>4, MatchesSnapshot
<1>8. Snapshots'
  BY <1>1, <1>5, <1>6, <1>7 DEF Snapshots
<1>9. TabsMatch' /\ SeqsMatch' /\ Apart' /\ NoAttachedIndex'
  BY <1>4, <1>7, SnapshotMatches
<1>10. Lined'
  BY <1>1, <1>4, <1>5, <1>6 DEF Lined
<1>11. \A i \in DOMAIN xs : xs[i].xid = evTid => ev = <<>>
  <2>. SUFFICES ASSUME NEW i \in DOMAIN xs, xs[i].xid = evTid PROVE ev = <<>>
    OBVIOUS
  <2>1. CASE i < n
    BY <2>1, <1>1 DEF Tagged
  <2>2. CASE i = n
    <3>1. xs # <<>> /\ Tid = xs[n].xid
      BY <2>2, <1>1, TidType
    <3>2. Events = 0
      BY <1>4 DEF Events, Skipped
    <3>3. Kept = <<>>
      BY <3>1, <3>2, NoEvent
    <3>. QED
      BY <3>1, <3>3, <2>2 DEF Kept
  <2>. QED
    BY <2>1, <2>2, <1>1
<1>12. Tagged'
  <2>1. \A i, j \in DOMAIN xs' : xs'[i].xid = xs'[j].xid => i = j
    <3>. SUFFICES ASSUME NEW i \in 1..n + 1, NEW j \in 1..n + 1, xs'[i].xid = xs'[j].xid PROVE i = j
      BY <1>6
    <3>1. CASE i = n + 1 \/ j = n + 1
      BY <3>1, <1>1, <1>2, <1>5, <1>6
    <3>2. CASE i # n + 1 /\ j # n + 1
      BY <3>2, <1>1, <1>6 DEF Tagged
    <3>. QED
      BY <3>1, <3>2
  <2>2. \A i \in DOMAIN xs' : xs'[i].xid = evTid /\ i < Len(xs') => ev = <<>>
    BY <1>1, <1>6, <1>11
  <2>. QED
    BY <2>1, <2>2, <1>4 DEF Tagged
<1>13. Kept' = <<>>
  <2>1. Tid' = f
    BY <1>5, <1>6 DEF Tid, Top
  <2>. QED
    BY <2>1, <1>2, <1>4 DEF Kept
<1>14. Mirrored'
  BY <1>4, <1>13, MirrorsNothing DEF Mirrored
<1>. QED
  BY <1>8, <1>9, <1>10, <1>12, <1>14

LEMMA FilesCommit ==
    ASSUME FilesInv, EnfInv', Commit
    PROVE  FilesInv'
<1>. USE DEF FilesInv, EnfInv
<1>1. PICK n \in Nat \ {0} : n = Len(xs) /\ n \in DOMAIN xs /\ xs # <<>>
  BY Ends DEF Types, Commit
<1>2. /\ Len(xs') = n - 1 /\ xs' \in Seq(XactRec)
      /\ \A i \in 1..n - 1 : xs'[i] = xs[i]
  BY <1>1, Ends DEF Types, Commit
<1>3. DOMAIN xs' = 1..n - 1 /\ DOMAIN xs = 1..n
  BY <1>1, <1>2, Elems
<1>4. UNCHANGED <<tab, seq, run, ev, evTid, settings, stmts>>
  BY DEF Commit
<1>5. run = <<>>
  <2>1. Len(run) = 0
    BY <1>1 DEF Commit, Top, Lined
  <2>. QED
    BY <2>1 DEF Types
<1>6. TabsMatch' /\ SeqsMatch' /\ Apart' /\ NoAttachedIndex'
  <2>1. Matched(tab, seq)
    BY <1>5, MatchesSnapshot
  <2>. QED
    BY <2>1, <1>4, <1>5, SnapshotMatches
<1>7. Lined'
  BY <1>2, <1>3, <1>4, <1>5 DEF Lined
<1>8. Snapshots'
  BY <1>2, <1>3 DEF Snapshots
<1>9. Tagged' /\ (xs' # <<>> => Kept' = <<>>)
  <2>1. \A i, j \in DOMAIN xs' : xs'[i].xid = xs'[j].xid => i = j
    BY <1>2, <1>3 DEF Tagged
  <2>2. \A i \in DOMAIN xs' : xs'[i].xid = evTid' => ev' = <<>>
    BY <1>1, <1>2, <1>3, <1>4 DEF Tagged
  <2>3. ASSUME xs' # <<>> PROVE Kept' = <<>>
    <3>1. Tid' = xs'[Len(xs')].xid /\ Len(xs') \in DOMAIN xs'
      BY <2>3, <1>2, Ends DEF Tid
    <3>. QED
      BY <3>1, <2>2 DEF Kept
  <2>. QED
    BY <2>1, <2>2, <2>3 DEF Tagged
<1>10. Mirrored'
  BY <1>4, <1>5, <1>9, MirrorsNothing DEF Mirrored
<1>. QED
  BY <1>6, <1>7, <1>8, <1>9, <1>10

-----------------------------------------------------------------------------
(* Statements that start keep FilesInv.                                    *)

LEMMA EventSame ==
    ASSUME tab' = tab, seq' = seq, NEW e, NEW s, EventOf(e, s)
    PROVE  EventOf(e, s)'
<1>1. PICK D : D = Down(s.rel) /\ D = Down(s.rel)'
  BY DownSame
<1>2. \A c : Stored(c)' <=> Stored(c)
  BY DEF Stored
<1>3. OwnerMode(s.rel)' = OwnerMode(s.rel)
  BY DEF OwnerMode
<1>. QED
  BY <1>1, <1>2, <1>3 DEF EventOf

LEMMA TouchedSame ==
    ASSUME tab' = tab, NEW s
    PROVE  Touched(s)' = Touched(s)
<1>1. Down(s.rel)' = Down(s.rel)
  BY DownSame
<1>. QED
  BY <1>1 DEF Touched

LEMMA FilesEnter ==
    ASSUME FilesInv, NEW a \in FreeAddr, NEW s \in StmtRec, s.addr = a, s.step = "started",
           Enter(s),
           s.kind = "rewrite" => run = <<>>,
           s.kind # "rewrite" => s.triggers = TRUE,
           s.kind = "alter" => s.rel \in Table,
           \A i \in DOMAIN run : run[i].kind = "alter" => Touched(s) \cap Down(run[i].rel) = {},
           s.kind = "attach" => tab[s.rel].idx = "none" \/ tab[s.up].idx # "none"
    PROVE  /\ Lined' /\ Apart' /\ NoAttachedIndex' /\ TabsMatch' /\ SeqsMatch' /\ Snapshots'
           /\ Len(run') = Len(run) + 1 /\ run'[Len(run) + 1] = s
           /\ \A i \in 1..Len(run) : run'[i] = run[i]
<1>. USE DEF FilesInv, EnfInv
<1>1. PICK n \in Nat : n = Len(run) /\ DOMAIN run = 1..n
  BY Elems
<1>2. /\ Len(run') = n + 1 /\ DOMAIN run' = 1..n + 1 /\ run'[n + 1] = s
      /\ \A i \in 1..n : run'[i] = run[i]
  <2>1. run' \in Seq(StmtRec) /\ Len(run') = n + 1 /\ run'[n + 1] = s /\ \A i \in 1..n : run'[i] = run[i]
    BY <1>1 DEF Enter, Types
  <2>. QED
    BY <2>1
<1>3. UNCHANGED <<tab, seq, xs>>
  BY DEF Enter
<1>4. \A i \in DOMAIN run : run[i].addr # a
  BY Free
<1>5. n > 0 => run[n].kind \in {"alter", "rewrite", "create"}
  <2>1. n > 0 => run # <<>> /\ Top(run) = run[n]
    BY <1>1 DEF Top
  <2>2. run # <<>> => RunsFunctions(Top(run))
    BY Free
  <2>. QED
    BY <2>1, <2>2, Zenon DEF RunsFunctions
<1>6. Lined'
  <2>1. \A i \in DOMAIN xs' : xs'[i].depth = 0
    BY <1>3 DEF Lined
  <2>2. ASSUME NEW i \in 1..n + 1
        PROVE  /\ i < n + 1 => run'[i].kind \in {"alter", "rewrite", "create"}
               /\ run'[i].kind = "rewrite" => i = 1
               /\ run'[i].kind = "alter" => run'[i].rel \in Table
               /\ run'[i].kind # "rewrite" => run'[i].triggers = TRUE
               /\ \A j \in 1..n + 1 : run'[i].addr = run'[j].addr => i = j
    <3>1. CASE i = n + 1
      <4>1. run = <<>> => n = 0
        BY <1>1
      <4>2. \A j \in 1..n + 1 : run'[i].addr = run'[j].addr => i = j
        BY <3>1, <1>1, <1>2, <1>4
      <4>. QED
        BY <3>1, <4>1, <4>2, <1>1, <1>2
    <3>2. CASE i # n + 1
      <4>1. i \in 1..n /\ i \in DOMAIN run /\ run'[i] = run[i]
        BY <3>2, <1>1, <1>2
      <4>2. run[i].kind \in {"alter", "rewrite", "create"}
        BY <4>1, <1>1, <1>5 DEF Lined
      <4>3. \A j \in 1..n + 1 : run'[i].addr = run'[j].addr => i = j
        <5>. SUFFICES ASSUME NEW j \in 1..n + 1, run'[i].addr = run'[j].addr PROVE i = j
          OBVIOUS
        <5>1. j # n + 1
          BY <4>1, <1>2, <1>4
        <5>2. j \in DOMAIN run /\ run'[j] = run[j]
          BY <5>1, <1>1, <1>2
        <5>. QED
          BY <5>2, <4>1 DEF Lined
      <4>. QED
        BY <4>1, <4>2, <4>3 DEF Lined
    <3>. QED
      BY <3>1, <3>2
  <2>. QED
    BY <2>1, <2>2, <1>2 DEF Lined
<1>7. Apart'
  <2>. SUFFICES ASSUME NEW i \in 1..n + 1, NEW j \in 1..n + 1, i < j, run'[i].kind = "alter"
                PROVE  (Touched(run[j]) \cap Down(run[i].rel) = {})'
    BY <1>2 DEF Apart
  <2>1. i \in DOMAIN run /\ run'[i] = run[i]
    BY <1>1, <1>2
  <2>2. PICK r : r = run[i].rel /\ r = run'[i].rel /\ Down(r)' = Down(r)
    BY <2>1, <1>3, DownSame
  <2>3. PICK z : z = run'[j] /\ Touched(z)' = Touched(z)
    BY <1>3, TouchedSame
  <2>4. Touched(z) \cap Down(r) = {}
    <3>1. CASE j = n + 1
      BY <3>1, <2>1, <2>2, <2>3, <1>2
    <3>2. CASE j # n + 1
      <4>1. j \in DOMAIN run /\ run'[j] = run[j]
        BY <3>2, <1>1, <1>2
      <4>. QED
        BY <4>1, <2>1, <2>2, <2>3 DEF Apart
    <3>. QED
      BY <3>1, <3>2
  <2>. QED
    BY <2>2, <2>3, <2>4
<1>8. NoAttachedIndex'
  BY <1>1, <1>2, <1>3 DEF NoAttachedIndex
<1>9. TabsMatch'
  <2>. SUFFICES ASSUME NEW t \in Table, Stored(t)'
                PROVE  (/\ tab[t].am \in AM
                        /\ tab[t].main = FileFor(tab[t].am)
                        /\ \/ tab[t].idx \in {"none", FileFor(tab[t].am)}
                           \/ \E i \in DOMAIN run : /\ Changing(run[i]) /\ run[i].step = "heap"
                                                    /\ run[i].rel = t)'
    BY DEF TabsMatch
  <2>1. Stored(t)
    BY <1>3 DEF Stored
  <2>. QED
    BY <2>1, <1>1, <1>2, <1>3 DEF TabsMatch, Changing
<1>10. SeqsMatch'
  <2>. SUFFICES ASSUME NEW q \in Sqn, seq'[q] # None
                PROVE (/\ seq[q].owner # None => tab[seq[q].owner] # None
                       /\ \/ \E i \in DOMAIN run :
                                \/ Changing(run[i]) /\ run[i].rel = seq[q].owner
                                \/ run[i].kind = "aseq" /\ run[i].step = "done" /\ run[i].sq = q
                          \/ seq[q].owner = None /\ seq[q].file = "plain"
                          \/ /\ seq[q].owner # None
                             /\ (Stored(seq[q].owner) => seq[q].file = FileFor(tab[seq[q].owner].am)))'
    BY DEF SeqsMatch
  <2>. QED
    BY <1>1, <1>2, <1>3 DEF SeqsMatch, Changing, Stored
<1>11. Snapshots'
  BY <1>3 DEF Snapshots
<1>. QED
  BY <1>1, <1>2, <1>6, <1>7, <1>8, <1>9, <1>10, <1>11

LEMMA FilesPush ==
    ASSUME FilesInv, EnfInv', NEW a \in FreeAddr, NEW s \in StmtRec, NEW e \in EventRec,
           s.addr = a, s.step = "started", s.kind \notin {"rewrite", "drop"}, s.triggers = TRUE,
           ev' = Append(Kept, e), evTid' = Tid, UNCHANGED settings,
           \/ RollBack
           \/ /\ Enter(s) /\ EventOf(e, s)
              /\ s.kind = "alter" => s.rel \in Table
              /\ \A i \in DOMAIN run : run[i].kind = "alter" => Touched(s) \cap Down(run[i].rel) = {}
              /\ s.kind = "attach" => tab[s.rel].idx = "none" \/ tab[s.up].idx # "none"
    PROVE  FilesInv'
<1>. USE DEF FilesInv, EnfInv
<1>0. xs # <<>> /\ Len(run) < MaxDepth
  BY Free
<1>1. Kept \in Seq(EventRec) /\ Len(Kept) = Events
  BY <1>0, KeptType DEF Mirrored
<1>2. /\ Len(ev') = Events + 1 /\ ev'[Events + 1] = e /\ \A i \in 1..Events : ev'[i] = Kept[i]
  BY <1>1
<1>3. PICK n \in Nat : n = Len(run) /\ DOMAIN run = 1..n
  BY Elems
<1>4. PICK k \in {0, 1} : k = Skipped /\ k <= n
  BY <1>3, Counts
<1>5. Events = n - k
  <2>1. CASE run = <<>>
    BY <2>1, <1>3, <1>4, Counts
  <2>2. CASE run # <<>>
    <3>1. RunsFunctions(Top(run))
      BY <2>2, Free
    <3>2. Top(run).kind # "drop"
      BY <3>1, Zenon DEF RunsFunctions
    <3>. QED
      BY <2>2, <3>2, <1>3, <1>4, Counts
  <2>. QED
    BY <2>1, <2>2
<1>6. Len(ev') <= MaxDepth
  BY <1>0, <1>2, <1>3, <1>4, <1>5, DdlEventsAssumption
<1>7. CASE RollBack
  BY <1>0, <1>6, <1>7, FilesRollBack
<1>8. CASE /\ Enter(s) /\ EventOf(e, s)
           /\ s.kind = "alter" => s.rel \in Table
           /\ \A i \in DOMAIN run : run[i].kind = "alter" => Touched(s) \cap Down(run[i].rel) = {}
           /\ s.kind = "attach" => tab[s.rel].idx = "none" \/ tab[s.up].idx # "none"
  <2>1. /\ Lined' /\ Apart' /\ NoAttachedIndex' /\ TabsMatch' /\ SeqsMatch' /\ Snapshots'
        /\ Len(run') = n + 1 /\ run'[n + 1] = s
        /\ \A i \in 1..n : run'[i] = run[i]
    BY <1>3, <1>8, FilesEnter
  <2>2. UNCHANGED <<tab, seq, xs>>
    BY <1>8 DEF Enter
  <2>3. Tagged'
    <3>1. \A i \in DOMAIN xs : i < Len(xs) => xs[i].xid # Tid
      BY <1>0, TidType, Ends, Elems DEF Tagged
    <3>. QED
      BY <2>2, <3>1 DEF Tagged
  <2>4. Kept' = ev'
    BY <2>2 DEF Kept, Tid
  <2>5. run' # <<>> /\ (n > 0 => run'[1] = run[1])
    BY <2>1, <1>3
  <2>6. Skipped' = k
    <3>1. CASE n = 0
      <4>1. run = <<>>
        BY <3>1, <1>3 DEF Types
      <4>2. k = 0
        BY <1>4, <3>1
      <4>. QED
        BY <3>1, <4>2, <2>1, <2>5 DEF Skipped
    <3>2. CASE n # 0
      <4>1. run # <<>>
        BY <3>2, <1>3
      <4>. QED
        BY <3>2, <4>1, <2>5, <1>3, <1>4 DEF Skipped
    <3>. QED
      BY <3>1, <3>2
  <2>7. Top(run)' = s
    BY <2>1, <1>3 DEF Top
  <2>8. Events' = Events + 1
    BY <2>1, <2>5, <2>6, <2>7, <1>3, <1>4, <1>5 DEF Events
  <2>9. ASSUME NEW i \in 1..Events + 1 PROVE EventOf(Kept[i], run[i + Skipped])'
    <3>1. CASE i = Events + 1
      <4>1. ev'[i] = e /\ run'[i + Skipped'] = s
        BY <3>1, <2>1, <2>6, <1>2, <1>3, <1>4, <1>5
      <4>2. EventOf(e, s)'
        BY <2>2, <1>8, EventSame
      <4>. QED
        BY <4>1, <4>2, <2>4
    <3>2. CASE i # Events + 1
      <4>1. i \in 1..Events /\ i + k \in 1..n
        BY <3>2, <2>9, <1>3, <1>4, <1>5
      <4>2. PICK x, y : x = Kept[i] /\ y = run[i + k] /\ EventOf(x, y)
        BY <4>1, <1>0, <1>4 DEF Mirrored
      <4>3. EventOf(x, y)'
        BY <4>2, <2>2, EventSame
      <4>4. ev'[i] = x /\ run'[i + k] = y
        BY <4>1, <4>2, <1>2, <2>1
      <4>. QED
        BY <4>3, <4>4, <2>4, <2>6
    <3>. QED
      BY <3>1, <3>2
  <2>10. Mirrored'
    BY <2>4, <2>8, <2>9, <1>2, <1>6 DEF Mirrored
  <2>. QED
    BY <2>1, <2>3, <2>10
<1>. QED
  BY <1>7, <1>8

LEMMA BusyApart ==
    ASSUME Lined, NEW S, \A x \in S : x \notin Busy
    PROVE  \A i \in DOMAIN run : run[i].kind = "alter" => S \cap Down(run[i].rel) = {}
BY AlterBusy

LEMMA NoneFree == None \notin Busy
BY DEF Busy

LEMMA FilesStartCreate ==
    ASSUME FilesInv, EnfInv', Paths = {}, NEW a \in FreeAddr,
           \E t \in Table : \E using \in AM \cup {None}, part \in BOOLEAN,
              up \in Table \cup {None}, s \in Sqn \cup {None}, triggers \in BOOLEAN :
              StartCreate(a, t, using, part, up, s, triggers)
    PROVE  FilesInv'
<1>. USE DEF FilesInv, EnfInv
<1>0. PICK t \in Table, using \in AM \cup {None}, part \in BOOLEAN,
           up \in Table \cup {None}, sq \in Sqn \cup {None}, triggers \in BOOLEAN :
           StartCreate(a, t, using, part, up, sq, triggers)
  OBVIOUS
<1>1. PICK ch \in AM : ch = Chosen(using, up)
  BY <1>0, ChosenType DEF StartCreate
<1>2. PICK am \in AM \cup {None} :
          /\ am = IF part /\ using = None /\ (up = None \/ tab[up].am = None) THEN None ELSE ch
          /\ part = FALSE => am = ch
  OBVIOUS
<1>3. triggers = TRUE
  BY <1>0, Zenon DEF StartCreate
<1>4. PICK s : s = [Stmt(a, "create", t) EXCEPT !.am = am, !.part = part, !.up = up,
                                                !.sq = sq, !.triggers = triggers]
  OBVIOUS
<1>5. /\ s \in StmtRec /\ s.kind = "create" /\ s.am = am /\ s.part = part /\ s.rel = t /\ s.up = up
      /\ s.step = "started" /\ s.triggers = TRUE /\ s.addr = a
  BY <1>3, <1>4, Free DEF Stmt, StmtRec, Kind
<1>6. PICK e : e = Event(a, ModeOf(ch))
  OBVIOUS
<1>7. e \in EventRec /\ e.addr = a /\ e.mode = ModeOf(ch) /\ e.rebuildFor = None /\ e.rebuild = None
  BY <1>6, EventType, ModeTypes, Free DEF Event
<1>8. {t, up} \cap Busy = {} /\ Push(s, e, StatusOK(ModeOf(ch)))
  BY <1>0, <1>1, <1>2, <1>3, <1>4, <1>6, Zenon DEF StartCreate
<1>9. Enter(s) \/ RollBack
  BY <1>8, Zenon DEF Push
<1>10. EventOf(e, s)
  BY <1>2, <1>5, <1>7 DEF EventOf
<1>11. \A i \in DOMAIN run : run[i].kind = "alter" => Touched(s) \cap Down(run[i].rel) = {}
  <2>1. Touched(s) = {t, up}
    BY <1>5 DEF Touched
  <2>. QED
    BY <2>1, <1>8, BusyApart
<1>12. ev' = Append(Kept, e) /\ evTid' = Tid /\ UNCHANGED settings
  BY <1>8 DEF Push
<1>. QED
  BY <1>5, <1>7, <1>9, <1>10, <1>11, <1>12, FilesPush

LEMMA FilesStartIndex ==
    ASSUME FilesInv, EnfInv', NEW a \in FreeAddr, NEW t \in Table, StartIndex(a, t)
    PROVE  FilesInv'
<1>. USE DEF FilesInv, EnfInv
<1>1. PICK s : s = Stmt(a, "index", t)
  OBVIOUS
<1>2. /\ s \in StmtRec /\ s.kind = "index" /\ s.rel = t
      /\ s.step = "started" /\ s.triggers = TRUE /\ s.addr = a
  BY <1>1, Free, StmtType DEF Stmt, Kind
<1>3. PICK e : e = Event(a, MixMode(t))
  OBVIOUS
<1>4. e \in EventRec /\ e.addr = a /\ e.mode = MixMode(t) /\ e.rebuildFor = None /\ e.rebuild = None
  BY <1>3, EventType, MixModeType, Free DEF Event
<1>5. Down(t) \cap Busy = {} /\ ~Mixed(t) /\ Push(s, e, TRUE)
  BY <1>1, <1>3 DEF StartIndex
<1>6. \A c \in Down(t) : Stored(c) => e.mode = ModeOf(tab[c].am)
  BY <1>4, <1>5, MixModeOf DEF Types
<1>7. EventOf(e, s)
  BY <1>2, <1>4, <1>6 DEF EventOf
<1>8. \A i \in DOMAIN run : run[i].kind = "alter" => Touched(s) \cap Down(run[i].rel) = {}
  <2>1. Touched(s) = Down(t)
    BY <1>2 DEF Touched
  <2>. QED
    BY <2>1, <1>5, BusyApart
<1>9. ev' = Append(Kept, e) /\ evTid' = Tid /\ UNCHANGED settings /\ Enter(s)
  BY <1>5 DEF Push
<1>. QED
  BY <1>2, <1>4, <1>7, <1>8, <1>9, FilesPush

LEMMA FilesStartAlter ==
    ASSUME FilesInv, EnfInv', NEW a \in FreeAddr, NEW t \in Table,
           NEW am \in AM \cup {None}, StartAlter(a, t, am)
    PROVE  FilesInv'
<1>. USE DEF FilesInv, EnfInv
<1>. DEFINE own == am # None /\ HasStorage(t)
            mode == IF own THEN ModeOf(am) ELSE MixMode(t)
<1>1. PICK s : s = [Stmt(a, "alter", t) EXCEPT !.am = am]
  OBVIOUS
<1>2. /\ s \in StmtRec /\ s.kind = "alter" /\ s.am = am /\ s.rel = t
      /\ s.step = "started" /\ s.triggers = TRUE /\ s.addr = a
  BY <1>1, Free DEF Stmt, StmtRec, Kind
<1>3. PICK m \in Mode : m = mode
  BY ModeTypes, MixModeType
<1>4. PICK r \in Table \cup {None} : r = IF own THEN t ELSE None
  OBVIOUS
<1>5. PICK e : e = [Event(a, m) EXCEPT !.rebuildFor = r]
  OBVIOUS
<1>6. e \in EventRec /\ e.addr = a /\ e.mode = m /\ e.rebuildFor = r /\ e.rebuild = None
  BY <1>5, Free DEF Event, EventRec
<1>7. Down(t) \cap Busy = {} /\ ~Mixed(t) /\ Push(s, e, StatusOK(m))
  BY <1>1, <1>3, <1>4, <1>5 DEF StartAlter
<1>8. Enter(s) \/ RollBack
  BY <1>7, Zenon DEF Push
<1>9. own <=> am # None /\ Stored(t)
  BY StoredIs DEF Types
<1>10. am = None => \A c \in Down(t) : Stored(c) => m = ModeOf(tab[c].am)
  BY <1>3, <1>7, MixModeOf DEF Types
<1>11. am # None /\ Stored(t) => m = ModeOf(am)
  BY <1>3, <1>9
<1>12. r = IF am # None /\ Stored(t) THEN t ELSE None
  BY <1>4, <1>9
<1>13. EventOf(e, s)
  BY <1>2, <1>6, <1>10, <1>11, <1>12 DEF EventOf
<1>14. \A i \in DOMAIN run : run[i].kind = "alter" => Touched(s) \cap Down(run[i].rel) = {}
  <2>1. Touched(s) = Down(t)
    BY <1>2 DEF Touched
  <2>. QED
    BY <2>1, <1>7, BusyApart
<1>15. ev' = Append(Kept, e) /\ evTid' = Tid /\ UNCHANGED settings
  BY <1>7 DEF Push
<1>. QED
  BY <1>2, <1>6, <1>8, <1>13, <1>14, <1>15, FilesPush

LEMMA FilesStartAttach ==
    ASSUME FilesInv, EnfInv', Paths = {}, NEW a \in FreeAddr, NEW t \in Table, NEW c \in Table,
           StartAttach(a, t, c)
    PROVE  FilesInv'
<1>. USE DEF FilesInv, EnfInv
<1>1. PICK s : s = [Stmt(a, "attach", t) EXCEPT !.up = c]
  OBVIOUS
<1>2. /\ s \in StmtRec /\ s.kind = "attach" /\ s.rel = t /\ s.up = c
      /\ s.step = "started" /\ s.triggers = TRUE /\ s.addr = a
  BY <1>1, Free DEF Stmt, StmtRec, Kind
<1>3. PICK e : e = Event(a, MixMode(t))
  OBVIOUS
<1>4. e \in EventRec /\ e.addr = a /\ e.mode = MixMode(t) /\ e.rebuildFor = None /\ e.rebuild = None
  BY <1>3, EventType, MixModeType, Free DEF Event
<1>5. /\ (Down(t) \cup Down(c)) \cap Busy = {} /\ Push(s, e, StatusOK(MixMode(t)))
      /\ tab[t].idx = "none" \/ tab[c].idx # "none"
  BY <1>1, <1>3 DEF StartAttach
<1>6. Enter(s) \/ RollBack
  BY <1>5, Zenon DEF Push
<1>7. EventOf(e, s)
  BY <1>2, <1>4 DEF EventOf
<1>8. \A i \in DOMAIN run : run[i].kind = "alter" => Touched(s) \cap Down(run[i].rel) = {}
  <2>1. Touched(s) = {t, c}
    BY <1>2 DEF Touched
  <2>2. t \in Down(t) /\ c \in Down(c)
    BY DownIn
  <2>. QED
    BY <2>1, <2>2, <1>5, BusyApart
<1>9. ev' = Append(Kept, e) /\ evTid' = Tid /\ UNCHANGED settings
  BY <1>5 DEF Push
<1>. QED
  BY <1>2, <1>4, <1>5, <1>6, <1>7, <1>8, <1>9, FilesPush

LEMMA FilesStartAlterIndex ==
    ASSUME FilesInv, EnfInv', Paths = {}, NEW a \in FreeAddr, NEW t \in Table,
           StartAlterIndex(a, t)
    PROVE  FilesInv'
<1>. USE DEF FilesInv, EnfInv
<1>1. PICK s : s = Stmt(a, "alterindex", t)
  OBVIOUS
<1>2. /\ s \in StmtRec /\ s.kind = "alterindex" /\ s.rel = t /\ s.up = None
      /\ s.step = "started" /\ s.triggers = TRUE /\ s.addr = a
  BY <1>1, Free, StmtType DEF Stmt, Kind
<1>3. PICK e : e = Event(a, "plain")
  OBVIOUS
<1>4. e \in EventRec /\ e.addr = a /\ e.mode = "plain" /\ e.rebuildFor = None /\ e.rebuild = None
  BY <1>3, EventType, Free DEF Event, Mode
<1>5. t \notin Busy /\ tab[t].am = "heap" /\ Push(s, e, StatusOK("plain"))
  BY <1>1, <1>3 DEF StartAlterIndex
<1>6. Enter(s) \/ RollBack
  BY <1>5, Zenon DEF Push
<1>7. EventOf(e, s)
  BY <1>2, <1>4, <1>5 DEF EventOf
<1>8. \A i \in DOMAIN run : run[i].kind = "alter" => Touched(s) \cap Down(run[i].rel) = {}
  <2>1. Touched(s) = {t, None}
    BY <1>2 DEF Touched
  <2>. QED
    BY <2>1, <1>5, BusyApart, NoneFree
<1>9. ev' = Append(Kept, e) /\ evTid' = Tid /\ UNCHANGED settings
  BY <1>5 DEF Push
<1>. QED
  BY <1>2, <1>4, <1>6, <1>7, <1>8, <1>9, FilesPush

LEMMA FilesStartSeq ==
    ASSUME FilesInv, EnfInv', NEW a \in FreeAddr, NEW q \in Sqn,
           \/ \E t \in Table \cup {None} : StartCreateSeq(a, q, t) \/ StartAlterSeq(a, q, t)
           \/ StartRestartSeq(a, q)
    PROVE  FilesInv'
<1>. USE DEF FilesInv, EnfInv
<1>0. ASSUME NEW s, s.kind \in {"cseq", "aseq", "restart"}
      PROVE  \A i \in DOMAIN run : run[i].kind = "alter" => Touched(s) \cap Down(run[i].rel) = {}
  BY <1>0 DEF Touched
<1>1. ASSUME NEW t \in Table \cup {None}, StartCreateSeq(a, q, t) PROVE FilesInv'
  <2>1. PICK s : s = [Stmt(a, "cseq", t) EXCEPT !.sq = q]
    OBVIOUS
  <2>2. /\ s \in StmtRec /\ s.kind = "cseq" /\ s.rel = t /\ s.sq = q
        /\ s.step = "started" /\ s.triggers = TRUE /\ s.addr = a
    BY <2>1, Free DEF Stmt, StmtRec, Kind
  <2>3. PICK m \in Mode : m = OwnerMode(t)
    BY OwnerModeType
  <2>4. PICK e : e = Event(a, m)
    OBVIOUS
  <2>5. e \in EventRec /\ e.addr = a /\ e.mode = m /\ e.rebuildFor = None /\ e.rebuild = None
    BY <2>4, EventType, Free DEF Event
  <2>6. Push(s, e, TRUE)
    BY <1>1, <2>1, <2>3, <2>4 DEF StartCreateSeq
  <2>7. EventOf(e, s)
    BY <2>2, <2>3, <2>5 DEF EventOf
  <2>8. \A i \in DOMAIN run : run[i].kind = "alter" => Touched(s) \cap Down(run[i].rel) = {}
    BY <2>2, <1>0
  <2>9. ev' = Append(Kept, e) /\ evTid' = Tid /\ UNCHANGED settings /\ Enter(s)
    BY <2>6 DEF Push
  <2>. QED
    BY <2>2, <2>5, <2>7, <2>8, <2>9, FilesPush
<1>2. ASSUME NEW t \in Table \cup {None}, StartAlterSeq(a, q, t) PROVE FilesInv'
  <2>1. PICK s : s = [Stmt(a, "aseq", t) EXCEPT !.sq = q]
    OBVIOUS
  <2>2. /\ s \in StmtRec /\ s.kind = "aseq" /\ s.rel = t /\ s.sq = q
        /\ s.step = "started" /\ s.triggers = TRUE /\ s.addr = a
    BY <2>1, Free DEF Stmt, StmtRec, Kind
  <2>3. PICK m \in Mode : m = OwnerMode(t)
    BY OwnerModeType
  <2>4. PICK e : e = [Event(a, m) EXCEPT !.rebuild = q]
    OBVIOUS
  <2>5. e \in EventRec /\ e.addr = a /\ e.mode = m /\ e.rebuildFor = None /\ e.rebuild = q
    BY <2>4, Free DEF Event, EventRec
  <2>6. Push(s, e, TRUE)
    BY <1>2, <2>1, <2>3, <2>4 DEF StartAlterSeq
  <2>7. EventOf(e, s)
    BY <2>2, <2>3, <2>5 DEF EventOf
  <2>8. \A i \in DOMAIN run : run[i].kind = "alter" => Touched(s) \cap Down(run[i].rel) = {}
    BY <2>2, <1>0
  <2>9. ev' = Append(Kept, e) /\ evTid' = Tid /\ UNCHANGED settings /\ Enter(s)
    BY <2>6 DEF Push
  <2>. QED
    BY <2>2, <2>5, <2>7, <2>8, <2>9, FilesPush
<1>3. ASSUME StartRestartSeq(a, q) PROVE FilesInv'
  <2>1. PICK s : s = [Stmt(a, "restart", None) EXCEPT !.sq = q]
    OBVIOUS
  <2>2. /\ s \in StmtRec /\ s.kind = "restart" /\ s.sq = q
        /\ s.step = "started" /\ s.triggers = TRUE /\ s.addr = a
    BY <2>1, Free DEF Stmt, StmtRec, Kind
  <2>4. PICK e : e = Event(a, "retain")
    OBVIOUS
  <2>5. e \in EventRec /\ e.addr = a /\ e.mode = "retain" /\ e.rebuildFor = None /\ e.rebuild = None
    BY <2>4, EventType, Free DEF Event, Mode
  <2>6. Push(s, e, TRUE)
    BY <1>3, <2>1, <2>4 DEF StartRestartSeq
  <2>7. EventOf(e, s)
    BY <2>2, <2>5 DEF EventOf
  <2>8. \A i \in DOMAIN run : run[i].kind = "alter" => Touched(s) \cap Down(run[i].rel) = {}
    BY <2>2, <1>0
  <2>9. ev' = Append(Kept, e) /\ evTid' = Tid /\ UNCHANGED settings /\ Enter(s)
    BY <2>6 DEF Push
  <2>. QED
    BY <2>2, <2>5, <2>7, <2>8, <2>9, FilesPush
<1>. QED
  BY <1>1, <1>2, <1>3

LEMMA FilesStartPlain ==
    ASSUME FilesInv, EnfInv', Paths = {}, NEW a \in FreeAddr, NEW t \in Table,
           (\E triggers \in BOOLEAN : StartRewrite(a, t, triggers)) \/ StartDrop(a, t)
    PROVE  FilesInv'
<1>. USE DEF FilesInv, EnfInv
<1>0. xs # <<>> /\ (run # <<>> => RunsFunctions(Top(run)))
  BY Free
<1>1. PICK s \in StmtRec :
         /\ s.kind \in {"rewrite", "drop"} /\ s.step = "started" /\ s.addr = a
         /\ s.kind = "rewrite" => run = <<>>
         /\ s.kind = "drop" => s.triggers = TRUE /\ Touched(s) = {t, None} /\ t \notin Busy
         /\ Enter(s) /\ UNCHANGED <<ev, evTid, settings>>
  <2>1. ASSUME NEW triggers \in BOOLEAN, StartRewrite(a, t, triggers)
        PROVE  \E s \in StmtRec :
                  /\ s.kind = "rewrite" /\ s.step = "started" /\ s.addr = a /\ run = <<>>
                  /\ Enter(s) /\ UNCHANGED <<ev, evTid, settings>>
    <3>1. PICK s : s = [Stmt(a, "rewrite", t) EXCEPT !.triggers = triggers]
      OBVIOUS
    <3>2. s \in StmtRec /\ s.kind = "rewrite" /\ s.step = "started" /\ s.addr = a
      BY <3>1, Free DEF Stmt, StmtRec, Kind
    <3>3. run = <<>> /\ Enter(s) /\ UNCHANGED <<ev, evTid, settings>>
      BY <2>1, <3>1 DEF StartRewrite
    <3>. QED
      BY <3>2, <3>3
  <2>2. ASSUME StartDrop(a, t)
        PROVE  \E s \in StmtRec :
                  /\ s.kind = "drop" /\ s.step = "started" /\ s.addr = a /\ s.triggers = TRUE
                  /\ Touched(s) = {t, None} /\ t \notin Busy
                  /\ Enter(s) /\ UNCHANGED <<ev, evTid, settings>>
    <3>1. PICK s : s = Stmt(a, "drop", t)
      OBVIOUS
    <3>2. /\ s \in StmtRec /\ s.kind = "drop" /\ s.step = "started" /\ s.addr = a /\ s.triggers = TRUE
          /\ s.rel = t /\ s.up = None
      BY <3>1, Free, StmtType DEF Stmt, Kind
    <3>3. Touched(s) = {t, None}
      BY <3>2 DEF Touched
    <3>4. t \notin Busy /\ Enter(s) /\ UNCHANGED <<ev, evTid, settings>>
      BY <2>2, <3>1 DEF StartDrop
    <3>. QED
      BY <3>2, <3>3, <3>4
  <2>. QED
    BY <2>1, <2>2
<1>2. \A i \in DOMAIN run : run[i].kind = "alter" => Touched(s) \cap Down(run[i].rel) = {}
  <2>1. CASE s.kind = "drop"
    BY <2>1, <1>1, BusyApart, NoneFree
  <2>2. CASE s.kind = "rewrite"
    BY <2>2, <1>1
  <2>. QED
    BY <2>1, <2>2, <1>1
<1>3. PICK n \in Nat : n = Len(run) /\ DOMAIN run = 1..n
  BY Elems
<1>4. /\ Lined' /\ Apart' /\ NoAttachedIndex' /\ TabsMatch' /\ SeqsMatch' /\ Snapshots'
      /\ Len(run') = n + 1 /\ run'[n + 1] = s
      /\ \A i \in 1..n : run'[i] = run[i]
  BY <1>1, <1>2, <1>3, FilesEnter
<1>5. UNCHANGED <<tab, seq, xs>>
  BY <1>1 DEF Enter
<1>6. Tagged' /\ Kept' = Kept
  BY <1>1, <1>5 DEF Tagged, Kept, Tid
<1>7. PICK k \in {0, 1} : k = Skipped /\ k <= n
  BY <1>3, Counts
<1>8. run' # <<>> /\ Top(run)' = s /\ (n > 0 => run'[1] = run[1])
  BY <1>3, <1>4 DEF Top
<1>9. Events' = Events /\ (Skipped' = k \/ Events = 0)
  <2>1. CASE s.kind = "rewrite"
    <3>1. n = 0 /\ Events = 0
      BY <2>1, <1>1, <1>3, Counts
    <3>2. Skipped' = 1
      BY <2>1, <3>1, <1>4, <1>8 DEF Skipped
    <3>. QED
      BY <3>1, <3>2, <2>1, <1>4, <1>8 DEF Events
  <2>2. CASE s.kind = "drop"
    <3>1. Events = n - k
      <4>1. CASE run = <<>>
        BY <4>1, <1>3, <1>7, Counts
      <4>2. CASE run # <<>>
        <5>1. Top(run).kind # "drop"
          BY <4>2, <1>0, Zenon DEF RunsFunctions
        <5>. QED
          BY <4>2, <5>1, <1>3, <1>7, Counts
      <4>. QED
        BY <4>1, <4>2
    <3>2. Skipped' = k
      <4>1. CASE n = 0
        BY <4>1, <2>2, <1>4, <1>7, <1>8 DEF Skipped
      <4>2. CASE n # 0
        <5>1. run # <<>>
          BY <4>2, <1>3
        <5>. QED
          BY <4>2, <5>1, <1>3, <1>7, <1>8 DEF Skipped
      <4>. QED
        BY <4>1, <4>2
    <3>. QED
      BY <3>1, <3>2, <2>2, <1>3, <1>4, <1>7, <1>8 DEF Events
  <2>. QED
    BY <2>1, <2>2, <1>1
<1>10. ASSUME NEW i \in 1..Events PROVE EventOf(Kept[i], run[i + Skipped])'
  <2>1. Events \in Nat /\ Skipped' = k /\ i + k \in 1..n
    <3>1. Skipped + Events <= n /\ Events \in Nat
      BY <1>3, Counts
    <3>. QED
      BY <3>1, <1>3, <1>7, <1>9, <1>10
  <2>2. PICK x, y : x = Kept[i] /\ y = run[i + k] /\ EventOf(x, y)
    BY <1>0, <1>7, <1>10 DEF Mirrored
  <2>3. EventOf(x, y)'
    BY <2>2, <1>5, EventSame
  <2>4. run'[i + Skipped'] = y
    BY <2>1, <2>2, <1>4
  <2>. QED
    BY <2>2, <2>3, <2>4, <1>6
<1>11. Mirrored'
  BY <1>1, <1>5, <1>6, <1>9, <1>10 DEF Mirrored
<1>. QED
  BY <1>4, <1>6, <1>11

-----------------------------------------------------------------------------
(* The statements at work keep FilesInv.                                   *)

LEMMA LowerEvent ==
    ASSUME NEW e, NEW s, EventOf(e, s), s.kind \in {"alter", "create"},
           s.kind = "alter" => /\ s.rel \in Table
                               /\ Down(s.rel)' \subseteq Down(s.rel)
                               /\ \A c \in Down(s.rel) : tab'[c] = tab[c]
    PROVE  EventOf(e, s)'
<1>1. CASE s.kind = "create"
  BY <1>1 DEF EventOf
<1>2. CASE s.kind = "alter"
  <2>1. tab'[s.rel] = tab[s.rel]
    BY <1>2, DownIn
  <2>2. Stored(s.rel)' <=> Stored(s.rel)
    BY <2>1 DEF Stored
  <2>3. s.am = None => \A c \in Down(s.rel)' : Stored(c)' => e.mode = ModeOf(tab'[c].am)
    <3>. SUFFICES ASSUME s.am = None, NEW c \in Down(s.rel)', Stored(c)' PROVE e.mode = ModeOf(tab'[c].am)
      OBVIOUS
    <3>1. c \in Down(s.rel) /\ tab'[c] = tab[c]
      BY <1>2
    <3>2. Stored(c)
      BY <3>1 DEF Stored
    <3>. QED
      BY <3>1, <3>2, <1>2 DEF EventOf
  <2>4. e.addr = s.addr /\ e.rebuild = None
    BY <1>2 DEF EventOf
  <2>5. e.rebuildFor = IF s.am # None /\ Stored(s.rel)' THEN s.rel ELSE None
    BY <1>2, <2>2 DEF EventOf
  <2>6. s.am # None /\ Stored(s.rel)' => /\ e.mode = ModeOf(s.am)
                                         /\ s.step # "started" => tab'[s.rel].am = s.am
    BY <1>2, <2>1, <2>2 DEF EventOf
  <2>. QED
    BY <1>2, <2>3, <2>4, <2>5, <2>6 DEF EventOf
<1>. QED
  BY <1>1, <1>2

LEMMA LastChanged ==
    ASSUME Types, NEW n \in DOMAIN run, NEW y \in StmtRec, run' = [run EXCEPT ![n] = y]
    PROVE  /\ Len(run') = Len(run) /\ DOMAIN run' = DOMAIN run /\ run'[n] = y
           /\ \A i \in DOMAIN run : i # n => run'[i] = run[i]
<1>0. run \in Seq(StmtRec)
  BY DEF Types
<1>1. run' \in Seq(StmtRec) /\ Len(run') = Len(run)
  BY <1>0
<1>2. DOMAIN run' = DOMAIN run /\ run'[n] = y /\ \A i \in DOMAIN run : i # n => run'[i] = run[i]
  BY <1>0
<1>. QED
  BY <1>1, <1>2

LEMMA FilesWork ==
    ASSUME FilesInv, xs # <<>>, run # <<>>, NEW st \in {"heap", "done"},
           NEW s \in StmtRec, s = Top(run), Goto(st),
           UNCHANGED <<xs, ev, evTid>>,
           NEW z, z = [s EXCEPT !.step = st],
           \A c \in Table : c \notin Touched(s) => tab'[c] = tab[c],
           \A c \in Table : tab'[c] # None =>
               tab'[c].up \in Touched(s) \cup {None} \/ (tab[c] # None /\ tab'[c].up = tab[c].up),
           Touched(z)' \subseteq Touched(s),
           \A e : e = Top(ev) /\ s.kind \notin {"rewrite", "drop"} => EventOf(e, z)'
    PROVE  /\ Lined' /\ Apart' /\ NoAttachedIndex' /\ Snapshots' /\ Tagged' /\ Mirrored'
           /\ Len(run') = Len(run) /\ DOMAIN run' = DOMAIN run /\ run'[Len(run)] = z
           /\ z.step = st /\ z.kind = s.kind /\ z.rel = s.rel /\ z.am = s.am /\ z.sq = s.sq
           /\ \A i \in DOMAIN run : i # Len(run) => run'[i] = run[i]
<1>. USE DEF FilesInv, EnfInv
<1>1. PICK n \in Nat \ {0} : n = Len(run) /\ DOMAIN run = 1..n /\ s = run[n] /\ n \in DOMAIN run
  BY Ends, Elems DEF Types
<1>2. /\ z \in StmtRec /\ z.step = st /\ z.kind = s.kind /\ z.rel = s.rel /\ z.am = s.am /\ z.sq = s.sq
      /\ z.addr = s.addr /\ z.triggers = s.triggers /\ z.up = s.up
  BY DEF StmtRec
<1>3. run' = [run EXCEPT ![n] = z]
  BY <1>1 DEF Goto, Types
<1>4. /\ Len(run') = n /\ DOMAIN run' = 1..n /\ run'[n] = z
      /\ \A i \in 1..n : i # n => run'[i] = run[i]
  <2>2. n \in DOMAIN run /\ n = Len(run) /\ DOMAIN run = 1..n /\ z \in StmtRec
    BY <1>1, <1>2
  <2>3. \A y \in StmtRec : run' = [run EXCEPT ![n] = y] =>
           /\ Len(run') = Len(run) /\ DOMAIN run' = DOMAIN run /\ run'[n] = y
           /\ \A i \in DOMAIN run : i # n => run'[i] = run[i]
    BY <2>2, LastChanged
  <2>4. /\ Len(run') = Len(run) /\ DOMAIN run' = DOMAIN run /\ run'[n] = z
        /\ \A i \in DOMAIN run : i # n => run'[i] = run[i]
    BY <2>2, <2>3, <1>3, Zenon
  <2>. QED
    BY <2>2, <2>4
<1>5. \A i \in 1..n : /\ run'[i].kind = run[i].kind /\ run'[i].addr = run[i].addr
                      /\ run'[i].triggers = run[i].triggers /\ run'[i].rel = run[i].rel
                      /\ run'[i].up = run[i].up
  BY <1>1, <1>2, <1>4
<1>6. Lined'
  <2>1. \A i \in DOMAIN xs' : xs'[i].depth = 0
    BY DEF Lined
  <2>2. \A i \in 1..n : /\ i < n => run'[i].kind \in {"alter", "rewrite", "create"}
                        /\ run'[i].kind = "rewrite" => i = 1
                        /\ run'[i].kind = "alter" => run'[i].rel \in Table
                        /\ run'[i].kind # "rewrite" => run'[i].triggers = TRUE
    BY <1>1, <1>5 DEF Lined
  <2>3. \A i, j \in 1..n : run'[i].addr = run'[j].addr => i = j
    BY <1>1, <1>5 DEF Lined
  <2>. QED
    BY <2>1, <2>2, <2>3, <1>4 DEF Lined
<1>7. ASSUME NEW i \in 1..n - 1, run[i].kind = "alter"
      PROVE  /\ run[i].rel \in Table
             /\ Down(run[i].rel) \cap Touched(s) = {}
             /\ \A r : r = run[i].rel => Down(r)' \subseteq Down(r)
             /\ \A c \in Down(run[i].rel) : tab'[c] = tab[c]
  <2>1. PICK r : r = run[i].rel
    OBVIOUS
  <2>2. r \in Table /\ i \in DOMAIN run /\ i < n
    BY <2>1, <1>1, <1>7 DEF Lined
  <2>3. Down(r) \cap Touched(s) = {}
    BY <2>1, <2>2, <1>1, <1>7 DEF Apart
  <2>4. Down(r) \subseteq Table
    BY <2>2, DownIn
  <2>5. \A c \in Down(r) : tab'[c] = tab[c]
    BY <2>3, <2>4
  <2>6. ASSUME NEW c \in Table, tab'[c] # None, tab'[c].up \in Down(r) \ {None}
        PROVE  c \in Down(r)
    <3>1. tab[c] # None /\ tab[c].up \in Down(r) \ {None}
      BY <2>3, <2>6
    <3>. QED
      BY <3>1, DownChild
  <2>7. Down(r)' \subseteq Down(r)
    BY <2>6, DownShrinks
  <2>. QED
    BY <2>1, <2>2, <2>3, <2>5, <2>7
<1>8. Apart'
  <2>. SUFFICES ASSUME NEW i \in 1..n, NEW j \in 1..n, i < j, run'[i].kind = "alter"
                PROVE  (Touched(run[j]) \cap Down(run[i].rel) = {})'
    BY <1>4 DEF Apart
  <2>1. i \in 1..n - 1 /\ i \in DOMAIN run /\ j \in DOMAIN run /\ run'[i] = run[i] /\ run[i].kind = "alter"
    BY <1>1, <1>4
  <2>2. PICK r : r = run[i].rel /\ r = run'[i].rel
    BY <2>1
  <2>3. Down(r)' \subseteq Down(r)
    BY <2>1, <2>2, <1>7
  <2>4. PICK y : y = run'[j]
    OBVIOUS
  <2>5. Touched(y)' \subseteq Touched(run[j])
    <3>1. CASE j = n
      BY <3>1, <2>4, <1>1, <1>4
    <3>2. CASE j # n
      <4>1. y = run[j] /\ j \in 1..n - 1
        BY <3>2, <2>4, <1>1, <1>4
      <4>2. y.kind \in {"alter", "rewrite", "create"}
        BY <4>1, <1>1 DEF Lined
      <4>3. CASE y.kind = "alter"
        <5>1. Down(y.rel)' \subseteq Down(y.rel)
          <6>1. PICK q : q = y.rel /\ q = run[j].rel
            BY <4>1
          <6>2. Down(q)' \subseteq Down(q)
            BY <4>1, <4>3, <6>1, <1>7
          <6>. QED
            BY <6>1, <6>2
        <5>. QED
          BY <4>1, <4>3, <5>1 DEF Touched
      <4>4. CASE y.kind # "alter"
        BY <4>1, <4>2, <4>4 DEF Touched
      <4>. QED
        BY <4>3, <4>4
    <3>. QED
      BY <3>1, <3>2
  <2>6. Touched(run[j]) \cap Down(r) = {}
    BY <2>1, <2>2 DEF Apart
  <2>7. Touched(y)' \cap Down(r)' = {}
    BY <2>3, <2>5, <2>6
  <2>. QED
    BY <2>2, <2>4, <2>7
<1>9. NoAttachedIndex'
  <2>1. \A i \in 1..n : run'[i].step # "started"
    BY <1>1, <1>2, <1>4, ZenonT(40) DEF Nested
  <2>. QED
    BY <2>1, <1>4 DEF NoAttachedIndex
<1>10. Snapshots' /\ Tagged' /\ Kept' = Kept
  BY DEF Snapshots, Tagged, Kept, Tid
<1>11. Skipped' = Skipped /\ Events' = Events
  <2>1. run' # <<>> /\ 1 \in 1..n /\ n \in 1..n
    BY <1>1, <1>4
  <2>2. Top(run)' = run'[n] /\ Top(run) = run[n]
    BY <1>1, <1>4 DEF Top
  <2>3. Skipped' = Skipped
    BY <2>1, <1>5 DEF Skipped
  <2>4. Top(run)'.kind = Top(run).kind
    BY <2>1, <2>2, <1>5
  <2>. QED
    BY <2>1, <2>3, <2>4, <1>1, <1>4 DEF Events
<1>12. ASSUME NEW i \in 1..Events PROVE EventOf(Kept[i], run[i + Skipped])'
  <2>1. PICK k \in {0, 1} : k = Skipped
    BY Counts
  <2>2. Events \in Nat /\ i + k \in 1..n /\ run[i + k].kind \notin {"rewrite", "drop"}
    <3>1. Events \in Nat /\ Skipped + Events <= n
      BY <1>1, Counts
    <3>2. i + k \in 1..n /\ i + k \in k + 1..k + Events
      BY <3>1, <2>1, <1>12, <1>1
    <3>. QED
      BY <3>1, <3>2, <2>1, <1>1, Counts
  <2>3. PICK x, y : x = Kept[i] /\ y = run[i + k] /\ EventOf(x, y)
    BY <2>1, <1>12 DEF Mirrored
  <2>4. CASE i + k = n
    <3>1. s.kind \notin {"rewrite", "drop"}
      BY <2>2, <2>4, <1>1
    <3>2. Kept = ev /\ Len(ev) = Events /\ Top(ev) = ev[Len(ev)]
      BY <3>1, TopEvent
    <3>3. Events = n - k
      BY <3>1, <2>1, <1>1, Counts
    <3>4. x = Top(ev)
      BY <3>2, <3>3, <2>1, <2>2, <2>3, <2>4
    <3>5. EventOf(x, z)'
      BY <3>1, <3>4
    <3>. QED
      BY <3>5, <2>1, <2>3, <2>4, <1>4, <1>10, <1>11
  <2>5. CASE i + k # n
    <3>1. i + k \in 1..n - 1 /\ run'[i + k] = y
      BY <2>2, <2>3, <2>5, <1>1, <1>4
    <3>2. y.kind \in {"alter", "create"}
      BY <3>1, <2>2, <2>3, <1>1 DEF Lined
    <3>3. ASSUME y.kind = "alter"
          PROVE  y.rel \in Table /\ Down(y.rel)' \subseteq Down(y.rel) /\ \A c \in Down(y.rel) : tab'[c] = tab[c]
      <4>1. PICK q : q = y.rel /\ q = run[i + k].rel
        BY <2>3
      <4>2. q \in Table /\ Down(q)' \subseteq Down(q) /\ \A c \in Down(q) : tab'[c] = tab[c]
        BY <3>1, <3>3, <2>3, <4>1, <1>7
      <4>. QED
        BY <4>1, <4>2
    <3>4. EventOf(x, y)'
      BY <3>2, <3>3, <2>3, LowerEvent
    <3>. QED
      BY <3>1, <3>4, <2>1, <2>3, <1>10, <1>11
  <2>. QED
    BY <2>4, <2>5
<1>13. Mirrored'
  BY <1>10, <1>11, <1>12 DEF Mirrored
<1>. QED
  BY <1>1, <1>2, <1>4, <1>6, <1>8, <1>9, <1>10, <1>13

\* The files of the table t after a step of the statement s, which leaves it as z.
TabAfter(t, s, z) ==
    \/ tab'[t] = tab[t] /\ (s.step = "started" \/ t # s.rel)
    \/ /\ tab'[t].am \in AM
       /\ tab'[t].main = FileFor(tab'[t].am)
       /\ \/ tab'[t].idx \in {"none", FileFor(tab'[t].am)}
          \/ Stored(t) /\ tab'[t].idx = tab[t].idx /\ tab'[t].am = tab[t].am /\ s.step = "started"
          \/ z.kind = "alter" /\ z.am # None /\ z.step = "heap" /\ z.rel = t

\* The sequence q after it.
SeqAfter(q, z) ==
    LET o == seq'[q].owner IN
    /\ o # None => tab'[o] # None
    /\ \/ /\ seq'[q] = seq[q]
          /\ \/ o = None
             \/ tab[o] # None /\ tab'[o].part = tab[o].part /\ tab'[o].am = tab[o].am
             \/ z.kind = "alter" /\ z.am # None /\ z.rel = o
       \/ o = None /\ seq'[q].file = "plain"
       \/ o # None /\ (tab'[o].part = FALSE => seq'[q].file = FileFor(tab'[o].am))
       \/ z.kind = "aseq" /\ z.step = "done" /\ z.sq = q

LEMMA TabsWorked ==
    ASSUME TabsMatch, NEW n \in DOMAIN run, DOMAIN run' = DOMAIN run, NEW s, NEW z,
           s = run[n], run'[n] = z, \A i \in DOMAIN run : i # n => run'[i] = run[i],
           \A c \in Table : tab'[c] # None /\ tab'[c].part = FALSE => TabAfter(c, s, z)
    PROVE  TabsMatch'
<1>. SUFFICES ASSUME NEW t \in Table, tab'[t] # None, tab'[t].part = FALSE
              PROVE  /\ tab'[t].am \in AM
                     /\ tab'[t].main = FileFor(tab'[t].am)
                     /\ \/ tab'[t].idx \in {"none", FileFor(tab'[t].am)}
                        \/ \E i \in DOMAIN run' : /\ run'[i].kind = "alter" /\ run'[i].am # None
                                                  /\ run'[i].step = "heap" /\ run'[i].rel = t
  BY ZenonT(40) DEF TabsMatch, Stored, Changing
<1>1. ASSUME Stored(t), s.step = "started" \/ t # s.rel
      PROVE  /\ tab[t].am \in AM
             /\ tab[t].main = FileFor(tab[t].am)
             /\ \/ tab[t].idx \in {"none", FileFor(tab[t].am)}
                \/ \E i \in DOMAIN run' : /\ run'[i].kind = "alter" /\ run'[i].am # None
                                          /\ run'[i].step = "heap" /\ run'[i].rel = t
  <2>1. /\ tab[t].am \in AM
        /\ tab[t].main = FileFor(tab[t].am)
        /\ \/ tab[t].idx \in {"none", FileFor(tab[t].am)}
           \/ \E i \in DOMAIN run : Changing(run[i]) /\ run[i].step = "heap" /\ run[i].rel = t
    BY <1>1 DEF TabsMatch
  <2>2. ASSUME NEW i \in DOMAIN run, Changing(run[i]), run[i].step = "heap", run[i].rel = t
        PROVE  i # n
    BY <1>1, <2>2
  <2>. QED
    BY <2>1, <2>2 DEF Changing
<1>2. CASE tab'[t] = tab[t] /\ (s.step = "started" \/ t # s.rel)
  BY <1>1, <1>2 DEF Stored
<1>3. CASE ~(tab'[t] = tab[t] /\ (s.step = "started" \/ t # s.rel))
  <2>1. /\ tab'[t].am \in AM
        /\ tab'[t].main = FileFor(tab'[t].am)
        /\ \/ tab'[t].idx \in {"none", FileFor(tab'[t].am)}
           \/ Stored(t) /\ tab'[t].idx = tab[t].idx /\ tab'[t].am = tab[t].am /\ s.step = "started"
           \/ z.kind = "alter" /\ z.am # None /\ z.step = "heap" /\ z.rel = t
    BY <1>3 DEF TabAfter
  <2>2. CASE z.kind = "alter" /\ z.am # None /\ z.step = "heap" /\ z.rel = t
    BY <2>1, <2>2
  <2>3. CASE Stored(t) /\ tab'[t].idx = tab[t].idx /\ tab'[t].am = tab[t].am /\ s.step = "started"
    BY <2>1, <2>3, <1>1
  <2>. QED
    BY <2>1, <2>2, <2>3
<1>. QED
  BY <1>2, <1>3

\* A statement in progress that sees to the sequence q, owned by o.
Sees(q, o) ==
    \E i \in DOMAIN run :
        \/ Changing(run[i]) /\ run[i].rel = o
        \/ run[i].kind = "aseq" /\ run[i].step = "done" /\ run[i].sq = q

LEMMA SeqsWorked ==
    ASSUME SeqsMatch, NEW n \in DOMAIN run, DOMAIN run' = DOMAIN run, NEW s, NEW z,
           s = run[n], run'[n] = z, \A i \in DOMAIN run : i # n => run'[i] = run[i],
           s.step # "done", z.step # "started",
           z.kind = s.kind, z.rel = s.rel, z.am = s.am, z.sq = s.sq,
           \A q \in Sqn : seq'[q] # None => SeqAfter(q, z)
    PROVE  SeqsMatch'
<1>. SUFFICES ASSUME NEW q \in Sqn, seq'[q] # None
              PROVE  (/\ seq[q].owner # None => tab[seq[q].owner] # None
                      /\ \/ Sees(q, seq[q].owner)
                         \/ seq[q].owner = None /\ seq[q].file = "plain"
                         \/ seq[q].owner # None
                            /\ (Stored(seq[q].owner) => seq[q].file = FileFor(tab[seq[q].owner].am)))'
  BY DEF SeqsMatch, Sees
<1>0. PICK o : o = seq'[q].owner
  OBVIOUS
<1>1. SeqAfter(q, z)
  OBVIOUS
<1>2. ASSUME Sees(q, o) PROVE Sees(q, o)'
  <2>1. PICK i \in DOMAIN run : \/ Changing(run[i]) /\ run[i].rel = o
                                \/ run[i].kind = "aseq" /\ run[i].step = "done" /\ run[i].sq = q
    BY <1>2 DEF Sees
  <2>2. i \in DOMAIN run'
    OBVIOUS
  <2>3. \/ run'[i].kind = "alter" /\ run'[i].am # None /\ run'[i].step # "started" /\ run'[i].rel = o
        \/ run'[i].kind = "aseq" /\ run'[i].step = "done" /\ run'[i].sq = q
    BY <2>1 DEF Changing
  <2>. QED
    BY <2>2, <2>3 DEF Sees, Changing
<1>3. ASSUME \/ z.kind = "alter" /\ z.am # None /\ z.rel = o
             \/ z.kind = "aseq" /\ z.step = "done" /\ z.sq = q
      PROVE  Sees(q, o)'
  BY <1>3 DEF Sees, Changing
<1>4. o # None => tab'[o] # None
  BY <1>0, <1>1 DEF SeqAfter
<1>5. ASSUME /\ seq'[q] = seq[q]
             /\ o = None \/ (tab[o] # None /\ tab'[o].part = tab[o].part /\ tab'[o].am = tab[o].am)
      PROVE  \/ Sees(q, o)'
             \/ o = None /\ seq'[q].file = "plain"
             \/ o # None /\ (Stored(o)' => seq'[q].file = FileFor(tab'[o].am))
  <2>1. \/ Sees(q, o)
        \/ o = None /\ seq[q].file = "plain"
        \/ o # None /\ (Stored(o) => seq[q].file = FileFor(tab[o].am))
    BY <1>0, <1>5 DEF SeqsMatch, Sees
  <2>2. CASE Sees(q, o)
    BY <2>2, <1>2
  <2>3. CASE o = None /\ seq[q].file = "plain"
    BY <2>3, <1>5
  <2>4. CASE o # None /\ (Stored(o) => seq[q].file = FileFor(tab[o].am))
    <3>1. Stored(o)' => Stored(o) /\ tab'[o].am = tab[o].am
      BY <2>4, <1>5 DEF Stored
    <3>. QED
      BY <2>4, <3>1, <1>5
  <2>. QED
    BY <2>1, <2>2, <2>3, <2>4
<1>6. ASSUME ~(/\ seq'[q] = seq[q]
               /\ o = None \/ (tab[o] # None /\ tab'[o].part = tab[o].part /\ tab'[o].am = tab[o].am))
      PROVE  \/ Sees(q, o)'
             \/ o = None /\ seq'[q].file = "plain"
             \/ o # None /\ (Stored(o)' => seq'[q].file = FileFor(tab'[o].am))
  <2>1. \/ z.kind = "alter" /\ z.am # None /\ z.rel = o
        \/ o = None /\ seq'[q].file = "plain"
        \/ o # None /\ (tab'[o].part = FALSE => seq'[q].file = FileFor(tab'[o].am))
        \/ z.kind = "aseq" /\ z.step = "done" /\ z.sq = q
    BY <1>0, <1>1, <1>6 DEF SeqAfter
  <2>. QED
    BY <2>1, <1>3 DEF Stored
<1>7. \/ Sees(q, o)'
      \/ o = None /\ seq'[q].file = "plain"
      \/ o # None /\ (Stored(o)' => seq'[q].file = FileFor(tab'[o].am))
  BY <1>5, <1>6
<1>8. (Stored(seq[q].owner) <=> Stored(o))'
  BY <1>0 DEF Stored
<1>9. (Sees(q, seq[q].owner) <=> Sees(q, o))'
  BY <1>0 DEF Sees
<1>. QED
  BY <1>0, <1>4, <1>7, <1>8, <1>9

LEMMA FilesWorked ==
    ASSUME FilesInv, EnfInv', xs # <<>>, run # <<>>, NEW st \in {"heap", "done"},
           NEW s \in StmtRec, s = Top(run), s.step # "done", Goto(st),
           UNCHANGED <<xs, ev, evTid>>,
           NEW z, z = [s EXCEPT !.step = st],
           \A c \in Table : c \notin Touched(s) => tab'[c] = tab[c],
           \A c \in Table : tab'[c] # None =>
               tab'[c].up \in Touched(s) \cup {None} \/ (tab[c] # None /\ tab'[c].up = tab[c].up),
           Touched(z)' \subseteq Touched(s),
           \A e : e = Top(ev) /\ s.kind \notin {"rewrite", "drop"} => EventOf(e, z)',
           \A c \in Table : tab'[c] # None /\ tab'[c].part = FALSE => TabAfter(c, s, z),
           \A q \in Sqn : seq'[q] # None => SeqAfter(q, z)
    PROVE  FilesInv'
<1>1. PICK n : n = Len(run) /\ s = run[n] /\ n \in DOMAIN run
  BY Ends DEF FilesInv, EnfInv, Types, Top
<1>2. /\ Lined' /\ Apart' /\ NoAttachedIndex' /\ Snapshots' /\ Tagged' /\ Mirrored'
      /\ DOMAIN run' = DOMAIN run /\ run'[n] = z
      /\ z.step = st /\ z.kind = s.kind /\ z.rel = s.rel /\ z.am = s.am /\ z.sq = s.sq
      /\ \A i \in DOMAIN run : i # n => run'[i] = run[i]
  BY <1>1, FilesWork
<1>3. TabsMatch'
  BY <1>1, <1>2, TabsWorked DEF FilesInv
<1>4. SeqsMatch'
  BY <1>1, <1>2, SeqsWorked, ZenonT(40) DEF FilesInv
<1>. QED
  BY <1>2, <1>3, <1>4 DEF FilesInv

LEMMA StepFields ==
    ASSUME NEW s \in StmtRec, NEW st \in {"heap", "done"}
    PROVE  \E z \in StmtRec :
              /\ z = [s EXCEPT !.step = st] /\ z.step = st
              /\ z.addr = s.addr /\ z.kind = s.kind /\ z.rel = s.rel /\ z.am = s.am
              /\ z.part = s.part /\ z.up = s.up /\ z.sq = s.sq
<1>1. PICK z : z = [s EXCEPT !.step = st]
  OBVIOUS
<1>2. /\ z \in StmtRec /\ z.step = st
      /\ z.addr = s.addr /\ z.kind = s.kind /\ z.rel = s.rel /\ z.am = s.am
      /\ z.part = s.part /\ z.up = s.up /\ z.sq = s.sq
  BY <1>1 DEF StmtRec
<1>. QED
  BY <1>1, <1>2

LEMMA DownKept ==
    ASSUME \A c \in Table : tab'[c] # None => tab[c] # None /\ tab'[c].up = tab[c].up, NEW t
    PROVE  Down(t)' \subseteq Down(t)
<1>1. \A c \in Table : tab'[c] # None /\ tab'[c].up \in Down(t) \ {None} => c \in Down(t)
  BY DownChild
<1>. QED
  BY <1>1, DownShrinks

LEMMA SeqKept ==
    ASSUME SeqsMatch, NEW q \in Sqn, seq[q] # None, seq'[q] = seq[q], NEW z,
           \A o : o = seq[q].owner /\ o # None /\ tab[o] # None =>
                /\ tab'[o] # None /\ tab'[o].part = tab[o].part
                /\ tab'[o].am = tab[o].am \/ (z.kind = "alter" /\ z.am # None /\ z.rel = o)
    PROVE  SeqAfter(q, z)
<1>1. PICK o : o = seq[q].owner
  OBVIOUS
<1>2. o # None => tab[o] # None
  BY <1>1 DEF SeqsMatch
<1>. QED
  BY <1>1, <1>2 DEF SeqAfter

LEMMA NewTable ==
    ASSUME NEW r \in TableRec \cup SqnRec
    PROVE  r # None
BY NoRelationAssumption

LEMMA FilesCreateTable ==
    ASSUME FilesInv, EnfInv', CreateTable
    PROVE  FilesInv'
<1>1. PICK s \in StmtRec : /\ s = Top(run) /\ s.kind = "create" /\ s.step = "started"
                           /\ Ready(s) /\ xs # <<>> /\ run # <<>>
  BY AtWork DEF CreateTable, FilesInv
<1>2. PICK r \in TableRec :
         /\ r.am = s.am /\ r.part = s.part /\ r.up = s.up
         /\ s.part = FALSE => r.main = NewFile("none") /\ r.idx \in {"none", NewFile("none")}
         /\ tab' = [tab EXCEPT ![s.rel] = r]
  BY <1>1, CreatedTable DEF FilesInv
<1>3. s.rel \in Table /\ tab[s.rel] = None /\ s.rel # None /\ r # None
  BY <1>1, NewTable, DdlEventsAssumption DEF Ready
<1>4. tab'[s.rel] = r /\ \A c \in Table : c # s.rel => tab'[c] = tab[c]
  BY <1>2, <1>3 DEF FilesInv, EnfInv, Types, Tabs
<1>5. PICK z \in StmtRec :
              /\ z = [s EXCEPT !.step = "done"] /\ z.step = "done"
              /\ z.addr = s.addr /\ z.kind = s.kind /\ z.rel = s.rel /\ z.am = s.am
              /\ z.part = s.part /\ z.up = s.up /\ z.sq = s.sq
  BY StepFields
<1>6. PICK e : e = Top(ev) /\ EventOf(e, s) /\ ModeValidated = e.mode
  BY <1>1, TopEvent DEF FilesInv, EnfInv
<1>7. s.part = FALSE => s.am \in AM /\ NewFile("none") = FileFor(s.am)
  BY <1>1, <1>6, NewFileOf DEF EventOf
<1>8. Touched(s) = {s.rel, s.up} /\ Touched(z)' = {s.rel, s.up}
  BY <1>1, <1>5 DEF Touched
<1>9. EventOf(e, z)'
  BY <1>1, <1>5, <1>6 DEF EventOf
<1>10. \A c \in Table : c \notin Touched(s) => tab'[c] = tab[c]
  BY <1>4, <1>8
<1>11. \A c \in Table : tab'[c] # None =>
           tab'[c].up \in Touched(s) \cup {None} \/ (tab[c] # None /\ tab'[c].up = tab[c].up)
  BY <1>2, <1>4, <1>8
<1>12. ASSUME NEW c \in Table, tab'[c].part = FALSE PROVE TabAfter(c, s, z)
  BY <1>1, <1>2, <1>4, <1>7, <1>12 DEF TabAfter
<1>13. ASSUME NEW q \in Sqn, seq'[q] # None PROVE SeqAfter(q, z)
  <2>1. seq'[q] = IF q = s.sq THEN [file |-> NewFile("none"), owner |-> s.rel] ELSE seq[q]
    BY <1>1 DEF CreateTable
  <2>2. CASE q = s.sq
    <3>1. PICK f : f = NewFile("none")
      OBVIOUS
    <3>2. seq'[q].file = f /\ seq'[q].owner = s.rel
      BY <2>1, <2>2, <3>1
    <3>. QED
      BY <3>1, <3>2, <1>2, <1>3, <1>4, <1>7 DEF SeqAfter
  <2>3. CASE q # s.sq
    <3>1. seq'[q] = seq[q] /\ seq[q] # None /\ seq[q] \in SqnRec
      BY <1>13, <2>1, <2>3 DEF FilesInv, EnfInv, Types, Sqns
    <3>2. ASSUME NEW o, o = seq[q].owner, o # None, tab[o] # None PROVE tab'[o] = tab[o]
      BY <3>1, <3>2, <1>3, <1>4, SqnFields
    <3>. QED
      BY <3>1, <3>2, SeqKept DEF FilesInv
  <2>. QED
    BY <2>2, <2>3
<1>14. UNCHANGED <<xs, ev, evTid>> /\ Goto("done")
  BY DEF CreateTable
<1>. QED
  <2>1. /\ Touched(z)' \subseteq Touched(s) /\ s.step # "done"
        /\ \A x : x = Top(ev) /\ s.kind \notin {"rewrite", "drop"} => EventOf(x, z)'
        /\ \A c \in Table : tab'[c] # None /\ tab'[c].part = FALSE => TabAfter(c, s, z)
        /\ \A q \in Sqn : seq'[q] # None => SeqAfter(q, z)
    BY <1>1, <1>6, <1>8, <1>9, <1>12, <1>13
  <2>. QED
    BY <2>1, <1>1, <1>5, <1>10, <1>11, <1>14, FilesWorked

LEMMA FilesCreateIndex ==
    ASSUME FilesInv, EnfInv', CreateIndex
    PROVE  FilesInv'
<1>1. PICK s \in StmtRec : /\ s = Top(run) /\ s.kind = "index" /\ s.step = "started"
                           /\ Ready(s) /\ xs # <<>> /\ run # <<>>
  BY AtWork DEF CreateIndex, FilesInv
<1>2. ASSUME NEW c \in Table
      PROVE  \/ tab'[c] = tab[c]
             \/ /\ c \in Down(s.rel) /\ tab[c] # None /\ tab'[c] # None
                /\ tab'[c].am = tab[c].am /\ tab'[c].part = tab[c].part
                /\ tab'[c].up = tab[c].up /\ tab'[c].main = tab[c].main
                /\ tab[c].part = FALSE => tab'[c].idx = NewFile("none")
  <2>1. CASE tab'[c] # tab[c]
    <3>1. PICK x \in File \cup {"shell"} :
             /\ c \in Down(s.rel) /\ tab[c] # None
             /\ tab'[c] = [tab[c] EXCEPT !.idx = x]
             /\ tab[c].part = FALSE => x = NewFile("none")
      BY <2>1, <1>1, IndexesCreated DEF FilesInv
    <3>2. PICK r \in TableRec : r = tab[c]
      BY <3>1, StoredRec DEF FilesInv, EnfInv, Types
    <3>3. PICK n : n = [r EXCEPT !.idx = x]
      OBVIOUS
    <3>4. /\ n \in TableRec /\ n.am = r.am /\ n.part = r.part /\ n.up = r.up /\ n.main = r.main
          /\ n.idx = x
      BY <3>3 DEF TableRec
    <3>5. tab'[c] = n /\ n # None
      BY <3>1, <3>2, <3>3, <3>4, NewTable
    <3>. QED
      BY <3>1, <3>2, <3>4, <3>5
  <2>. QED
    BY <2>1
<1>3. PICK z \in StmtRec :
              /\ z = [s EXCEPT !.step = "done"] /\ z.step = "done"
              /\ z.addr = s.addr /\ z.kind = s.kind /\ z.rel = s.rel /\ z.am = s.am
              /\ z.part = s.part /\ z.up = s.up /\ z.sq = s.sq
  BY StepFields
<1>4. PICK e : e = Top(ev) /\ EventOf(e, s) /\ ModeValidated = e.mode
  BY <1>1, TopEvent DEF FilesInv, EnfInv
<1>5. Touched(z)' \subseteq Touched(s) /\ Touched(s) = Down(s.rel)
  <2>1. PICK t : t = s.rel /\ t = z.rel
    BY <1>3
  <2>2. Down(t)' \subseteq Down(t)
    BY <1>2, DownKept
  <2>. QED
    BY <2>1, <2>2, <1>1, <1>3 DEF Touched
<1>6. EventOf(e, z)'
  BY <1>1, <1>3, <1>4 DEF EventOf
<1>7. ASSUME NEW c \in Table, tab'[c].part = FALSE, tab'[c] # None PROVE TabAfter(c, s, z)
  <2>1. CASE tab'[c] = tab[c]
    BY <2>1, <1>1 DEF TabAfter
  <2>2. CASE tab'[c] # tab[c]
    <3>1. Stored(c) /\ c \in Down(s.rel)
      BY <2>2, <1>2, <1>7 DEF Stored
    <3>2. e.mode = ModeOf(tab[c].am)
      BY <3>1, <1>1, <1>4 DEF EventOf
    <3>3. NewFile("none") = FileFor(tab[c].am)
      BY <3>2, <1>4, NewFileOf
    <3>4. tab[c].am \in AM /\ tab[c].main = FileFor(tab[c].am)
      BY <3>1 DEF FilesInv, TabsMatch
    <3>. QED
      BY <3>1, <3>3, <3>4, <2>2, <1>2 DEF TabAfter, Stored
  <2>. QED
    BY <2>1, <2>2
<1>8. ASSUME NEW q \in Sqn, seq'[q] # None PROVE SeqAfter(q, z)
  <2>1. seq'[q] = seq[q] /\ seq[q] # None /\ seq[q] \in SqnRec
    BY <1>8 DEF CreateIndex, FilesInv, EnfInv, Types, Sqns
  <2>2. ASSUME NEW o, o = seq[q].owner, o # None, tab[o] # None
        PROVE  tab'[o] # None /\ tab'[o].part = tab[o].part /\ tab'[o].am = tab[o].am
    BY <2>1, <2>2, <1>2, SqnFields
  <2>. QED
    BY <2>1, <2>2, SeqKept DEF FilesInv
<1>9. UNCHANGED <<xs, ev, evTid>> /\ Goto("done")
  BY DEF CreateIndex
<1>. QED
  <2>1. /\ s.step # "done"
        /\ \A x : x = Top(ev) /\ s.kind \notin {"rewrite", "drop"} => EventOf(x, z)'
        /\ \A c \in Table : tab'[c] # None /\ tab'[c].part = FALSE => TabAfter(c, s, z)
        /\ \A q \in Sqn : seq'[q] # None => SeqAfter(q, z)
    BY <1>1, <1>4, <1>6, <1>7, <1>8
  <2>2. /\ \A c \in Table : c \notin Touched(s) => tab'[c] = tab[c]
        /\ \A c \in Table : tab'[c] # None => tab[c] # None /\ tab'[c].up = tab[c].up
    BY <1>2, <1>5
  <2>. QED
    BY <2>1, <2>2, <1>1, <1>3, <1>5, <1>9, FilesWorked

LEMMA RewrittenIn ==
    ASSUME NEW s
    PROVE  /\ Rewritten(s) \subseteq Down(s.rel)
           /\ s.kind = "rewrite" \/ s.am # None => Rewritten(s) \subseteq {s.rel}
           /\ \A c \in Rewritten(s) : HasStorage(c)
           /\ HasStorage(s.rel) => s.rel \in Rewritten(s)
BY DownIn DEF Rewritten

\* The mode in which a rewrite creates the files of the table c.
LEMMA RewriteMode ==
    ASSUME FilesInv, xs # <<>>, run # <<>>, NEW s, s = Top(run), s.kind \in {"alter", "rewrite"},
           NEW c \in Rewritten(s), Stored(c)
    PROVE  /\ s.kind = "rewrite" => ModeValidated = "retain"
           /\ s.kind = "alter" /\ s.am = None => ModeValidated = ModeOf(tab[c].am)
           /\ s.kind = "alter" /\ s.am # None => ModeValidated = ModeOf(s.am) /\ c = s.rel
<1>1. s.kind = "rewrite" => ModeValidated = "retain"
  BY Counts, NoEvent DEF FilesInv, EnfInv
<1>2. ASSUME s.kind = "alter"
      PROVE  /\ s.am = None => ModeValidated = ModeOf(tab[c].am)
             /\ s.am # None => ModeValidated = ModeOf(s.am) /\ c = s.rel
  <2>1. PICK e : EventOf(e, s) /\ ModeValidated = e.mode
    BY <1>2, TopEvent DEF FilesInv, EnfInv
  <2>2. c \in Down(s.rel) /\ (s.am # None => c = s.rel)
    BY RewrittenIn
  <2>. QED
    BY <2>1, <2>2, <1>2 DEF EventOf
<1>. QED
  BY <1>1, <1>2

LEMMA FilesRewriteHeap ==
    ASSUME FilesInv, EnfInv', RewriteHeap
    PROVE  FilesInv'
<1>1. PICK s \in StmtRec : /\ s = Top(run) /\ s.kind \in {"alter", "rewrite"} /\ s.step = "started"
                           /\ Ready(s) /\ xs # <<>> /\ run # <<>>
  BY AtWork DEF RewriteHeap, FilesInv
<1>2. ASSUME NEW c \in Table
      PROVE  \/ tab'[c] = tab[c] /\ c # s.rel /\ c \notin Rewritten(s)
             \/ /\ c = s.rel \/ c \in Rewritten(s)
                /\ tab[c] # None /\ tab'[c] # None
                /\ tab'[c].am = IF c = s.rel /\ s.am # None THEN s.am ELSE tab[c].am
                /\ tab'[c].part = tab[c].part /\ tab'[c].up = tab[c].up
                /\ tab'[c].main = IF c \in Rewritten(s) THEN NewFile(tab[c].main) ELSE tab[c].main
                /\ tab'[c].idx = tab[c].idx
  <2>1. CASE c = s.rel \/ c \in Rewritten(s)
    <3>1. PICK am : am = IF c = s.rel /\ s.am # None THEN s.am ELSE tab[c].am
      OBVIOUS
    <3>2. PICK m : m = IF c \in Rewritten(s) THEN NewFile(tab[c].main) ELSE tab[c].main
      OBVIOUS
    <3>3. /\ tab[c] # None /\ tab'[c] = [tab[c] EXCEPT !.am = am, !.main = m]
          /\ am \in AM \cup {None} /\ m \in File
      BY <2>1, <3>1, <3>2, <1>1, HeapRewritten DEF FilesInv
    <3>4. PICK r \in TableRec : r = tab[c]
      BY <3>3, StoredRec DEF FilesInv, EnfInv, Types
    <3>5. PICK n : n = [r EXCEPT !.am = am, !.main = m]
      OBVIOUS
    <3>6. /\ n \in TableRec /\ n.am = am /\ n.part = r.part /\ n.up = r.up /\ n.main = m
          /\ n.idx = r.idx
      BY <3>3, <3>5 DEF TableRec
    <3>7. tab'[c] = n /\ n # None
      BY <3>3, <3>4, <3>5, <3>6, NewTable
    <3>. QED
      BY <2>1, <3>1, <3>2, <3>3, <3>4, <3>6, <3>7
  <2>2. CASE ~(c = s.rel \/ c \in Rewritten(s))
    BY <2>2, <1>1, HeapRewritten DEF FilesInv
  <2>. QED
    BY <2>1, <2>2
<1>3. PICK z \in StmtRec :
              /\ z = [s EXCEPT !.step = "heap"] /\ z.step = "heap"
              /\ z.addr = s.addr /\ z.kind = s.kind /\ z.rel = s.rel /\ z.am = s.am
              /\ z.part = s.part /\ z.up = s.up /\ z.sq = s.sq
  BY StepFields
<1>4. \A c \in Table : tab'[c] # None => tab[c] # None /\ tab'[c].up = tab[c].up
  BY <1>2
<1>5. /\ Touched(z)' \subseteq Touched(s)
      /\ \A c \in Table : c \notin Touched(s) => tab'[c] = tab[c]
  <2>1. PICK t : t = s.rel /\ t = z.rel
    BY <1>3
  <2>2. Down(t)' \subseteq Down(t) /\ t \in Down(t)
    BY <1>4, DownKept, DownIn
  <2>3. CASE s.kind = "alter"
    <3>1. Touched(z)' = Down(t)' /\ Touched(s) = Down(t)
      BY <2>1, <2>3, <1>3 DEF Touched
    <3>. QED
      BY <3>1, <2>1, <2>2, <1>2, RewrittenIn, ZenonT(40)
  <2>4. CASE s.kind = "rewrite"
    <3>1. Touched(z)' = {s.rel, s.up} /\ Touched(s) = {s.rel, s.up}
      BY <2>4, <1>3 DEF Touched
    <3>. QED
      BY <3>1, <2>4, <1>2, RewrittenIn
  <2>. QED
    BY <2>3, <2>4, <1>1
<1>6. ASSUME NEW e, e = Top(ev), s.kind = "alter" PROVE EventOf(e, z)'
  <2>1. EventOf(e, s)
    BY <1>1, <1>6, TopEvent DEF FilesInv, EnfInv
  <2>2. PICK t \in Table : t = s.rel /\ t = z.rel /\ tab[t] # None
    BY <1>1, <1>3, <1>6 DEF Ready
  <2>3. \A c \in Table : Stored(c)' <=> Stored(c)
    BY <1>2 DEF Stored
  <2>4. s.am = None => \A c \in Down(t)' : Stored(c)' => e.mode = ModeOf(tab'[c].am)
    <3>. SUFFICES ASSUME s.am = None, NEW c \in Down(t)', Stored(c)'
                  PROVE  e.mode = ModeOf(tab'[c].am)
      OBVIOUS
    <3>1. c \in Down(t) /\ c \in Table
      BY <1>4, DownKept, DownIn
    <3>2. tab'[c].am = tab[c].am /\ Stored(c)
      BY <3>1, <2>3, <1>2
    <3>. QED
      BY <3>1, <3>2, <2>1, <2>2, <1>6 DEF EventOf
  <2>5. s.am # None => tab'[t].am = s.am
    BY <2>2, <1>2
  <2>6. e.addr = z.addr /\ e.rebuild = None
    BY <2>1, <1>3, <1>6 DEF EventOf
  <2>7. e.rebuildFor = IF s.am # None /\ Stored(t)' THEN t ELSE None
    BY <2>1, <2>2, <2>3, <1>6 DEF EventOf
  <2>8. s.am # None /\ Stored(t)' => e.mode = ModeOf(s.am)
    BY <2>1, <2>2, <2>3, <1>6 DEF EventOf
  <2>. QED
    BY <2>2, <2>4, <2>5, <2>6, <2>7, <2>8, <1>3, <1>6 DEF EventOf
<1>7. ASSUME NEW c \in Table, tab'[c].part = FALSE, tab'[c] # None PROVE TabAfter(c, s, z)
  <2>1. CASE tab'[c] = tab[c]
    BY <2>1, <1>1 DEF TabAfter
  <2>2. CASE tab'[c] # tab[c]
    <3>1. Stored(c) /\ c \in Rewritten(s)
      <4>1. Stored(c) /\ (c = s.rel \/ c \in Rewritten(s))
        BY <2>2, <1>2, <1>7 DEF Stored
      <4>2. HasStorage(c)
        BY <4>1, StoredIs DEF FilesInv, EnfInv, Types
      <4>. QED
        BY <4>1, <4>2, RewrittenIn
    <3>2. /\ tab'[c].main = NewFile(tab[c].main) /\ tab'[c].idx = tab[c].idx
          /\ tab'[c].am = IF c = s.rel /\ s.am # None THEN s.am ELSE tab[c].am
      BY <3>1, <2>2, <1>2
    <3>3. tab[c].am \in AM /\ tab[c].main = FileFor(tab[c].am)
      BY <3>1 DEF FilesInv, TabsMatch
    <3>4. CASE s.kind = "rewrite"
      <4>1. NewFile(tab[c].main) = tab[c].main
        BY <3>1, <3>3, <3>4, <1>1, RewriteMode, NewFileRetains DEF FileFor
      <4>2. s.am = None
        BY <3>4, <1>1 DEF Ready
      <4>. QED
        BY <4>1, <4>2, <3>1, <3>2, <3>3, <1>1 DEF TabAfter
    <3>5. CASE s.kind = "alter" /\ s.am = None
      <4>1. NewFile(tab[c].main) = FileFor(tab[c].am)
        BY <3>1, <3>5, <1>1, RewriteMode, NewFileOf
      <4>. QED
        BY <4>1, <3>1, <3>2, <3>3, <3>5, <1>1 DEF TabAfter
    <3>6. CASE s.kind = "alter" /\ s.am # None
      <4>1. c = s.rel /\ NewFile(tab[c].main) = FileFor(s.am) /\ s.am \in AM
        BY <3>1, <3>6, <1>1, RewriteMode, NewFileOf, StmtFields
      <4>. QED
        BY <4>1, <3>2, <3>6, <1>3 DEF TabAfter
    <3>. QED
      BY <3>4, <3>5, <3>6, <1>1
  <2>. QED
    BY <2>1, <2>2
<1>8. ASSUME NEW q \in Sqn, seq'[q] # None PROVE SeqAfter(q, z)
  <2>1. seq'[q] = seq[q] /\ seq[q] # None /\ seq[q] \in SqnRec
    BY <1>8 DEF RewriteHeap, FilesInv, EnfInv, Types, Sqns
  <2>2. s.am # None => z.kind = "alter" /\ z.am # None /\ z.rel = s.rel
    BY <1>1, <1>3 DEF Ready
  <2>3. ASSUME NEW o, o = seq[q].owner, o # None, tab[o] # None
        PROVE  /\ tab'[o] # None /\ tab'[o].part = tab[o].part
               /\ tab'[o].am = tab[o].am \/ (z.kind = "alter" /\ z.am # None /\ z.rel = o)
    BY <2>1, <2>2, <2>3, <1>2, SqnFields
  <2>. QED
    BY <2>1, <2>3, SeqKept DEF FilesInv
<1>9. UNCHANGED <<xs, ev, evTid>> /\ Goto("heap")
  BY DEF RewriteHeap
<1>. QED
  <2>1. /\ s.step # "done"
        /\ \A x : x = Top(ev) /\ s.kind \notin {"rewrite", "drop"} => EventOf(x, z)'
        /\ \A c \in Table : tab'[c] # None /\ tab'[c].part = FALSE => TabAfter(c, s, z)
        /\ \A q \in Sqn : seq'[q] # None => SeqAfter(q, z)
    BY <1>1, <1>6, <1>7, <1>8
  <2>. QED
    BY <2>1, <1>1, <1>3, <1>4, <1>5, <1>9, FilesWorked

LEMMA FilesReindex ==
    ASSUME FilesInv, EnfInv', Reindex
    PROVE  FilesInv'
<1>1. PICK s \in StmtRec : /\ s = Top(run) /\ s.kind \in {"alter", "rewrite"} /\ s.step = "heap"
                           /\ xs # <<>> /\ run # <<>>
  BY AtWork DEF Reindex, FilesInv
<1>2. ASSUME NEW c \in Table
      PROVE  \/ tab'[c] = tab[c] /\ (c \notin Rewritten(s) \/ tab[c].idx = "none")
             \/ /\ c \in Rewritten(s) /\ tab[c].idx # "none"
                /\ tab[c] # None /\ tab'[c] # None
                /\ tab'[c].am = tab[c].am /\ tab'[c].part = tab[c].part
                /\ tab'[c].up = tab[c].up /\ tab'[c].main = tab[c].main
                /\ tab'[c].idx = NewFile(tab[c].idx)
  <2>1. CASE c \in Rewritten(s) /\ tab[c].idx # "none"
    <3>1. PICK x \in File \cup {"shell"} : x = NewFile(tab[c].idx)
      BY NewFileType, FileTypes
    <3>2. tab[c] # None /\ tab'[c] = [tab[c] EXCEPT !.idx = x]
      BY <2>1, <3>1, <1>1, Reindexed DEF FilesInv
    <3>3. PICK r \in TableRec : r = tab[c]
      BY <3>2, StoredRec DEF FilesInv, EnfInv, Types
    <3>4. PICK n : n = [r EXCEPT !.idx = x]
      OBVIOUS
    <3>5. /\ n \in TableRec /\ n.am = r.am /\ n.part = r.part /\ n.up = r.up /\ n.main = r.main
          /\ n.idx = x
      BY <3>4 DEF TableRec
    <3>6. tab'[c] = n /\ n # None
      BY <3>2, <3>3, <3>4, <3>5, NewTable
    <3>. QED
      BY <2>1, <3>1, <3>2, <3>3, <3>5, <3>6
  <2>2. CASE ~(c \in Rewritten(s) /\ tab[c].idx # "none")
    BY <2>2, <1>1, Reindexed DEF FilesInv
  <2>. QED
    BY <2>1, <2>2
<1>3. PICK z \in StmtRec :
              /\ z = [s EXCEPT !.step = "done"] /\ z.step = "done"
              /\ z.addr = s.addr /\ z.kind = s.kind /\ z.rel = s.rel /\ z.am = s.am
              /\ z.part = s.part /\ z.up = s.up /\ z.sq = s.sq
  BY StepFields
<1>4. \A c \in Table : tab'[c] # None => tab[c] # None /\ tab'[c].up = tab[c].up
  BY <1>2
<1>5. /\ Touched(z)' \subseteq Touched(s)
      /\ \A c \in Table : c \notin Touched(s) => tab'[c] = tab[c]
  <2>1. PICK t : t = s.rel /\ t = z.rel
    BY <1>3
  <2>2. Down(t)' \subseteq Down(t) /\ t \in Down(t)
    BY <1>4, DownKept, DownIn
  <2>3. CASE s.kind = "alter"
    <3>1. Touched(z)' = Down(t)' /\ Touched(s) = Down(t)
      BY <2>1, <2>3, <1>3 DEF Touched
    <3>. QED
      BY <3>1, <2>1, <2>2, <1>2, RewrittenIn, ZenonT(40)
  <2>4. CASE s.kind = "rewrite"
    <3>1. Touched(z)' = {s.rel, s.up} /\ Touched(s) = {s.rel, s.up}
      BY <2>4, <1>3 DEF Touched
    <3>. QED
      BY <3>1, <2>4, <1>2, RewrittenIn
  <2>. QED
    BY <2>3, <2>4, <1>1
<1>6. ASSUME NEW e, e = Top(ev), s.kind = "alter" PROVE EventOf(e, z)'
  <2>1. EventOf(e, s)
    BY <1>1, <1>6, TopEvent DEF FilesInv, EnfInv
  <2>2. PICK t \in Table : t = s.rel /\ t = z.rel
    <3>1. Len(run) \in DOMAIN run /\ s = run[Len(run)]
      BY <1>1, Ends DEF FilesInv, EnfInv, Types
    <3>. QED
      BY <3>1, <1>3, <1>6 DEF FilesInv, Lined
  <2>3. \A c \in Table : Stored(c)' <=> Stored(c)
    BY <1>2 DEF Stored
  <2>4. s.am = None => \A c \in Down(t)' : Stored(c)' => e.mode = ModeOf(tab'[c].am)
    <3>. SUFFICES ASSUME s.am = None, NEW c \in Down(t)', Stored(c)'
                  PROVE  e.mode = ModeOf(tab'[c].am)
      OBVIOUS
    <3>1. c \in Down(t) /\ c \in Table
      BY <1>4, DownKept, DownIn
    <3>2. tab'[c].am = tab[c].am /\ Stored(c)
      BY <3>1, <2>3, <1>2
    <3>. QED
      BY <3>1, <3>2, <2>1, <2>2, <1>6 DEF EventOf
  <2>5. s.am # None /\ Stored(t)' => tab'[t].am = s.am
    <3>1. tab'[t].am = tab[t].am
      BY <1>2
    <3>2. s.am # None /\ Stored(t) => tab[t].am = s.am
      BY <2>1, <2>2, <1>1, <1>6 DEF EventOf
    <3>. QED
      BY <3>1, <3>2, <2>3
  <2>6. e.addr = z.addr /\ e.rebuild = None
    BY <2>1, <1>3, <1>6 DEF EventOf
  <2>7. e.rebuildFor = IF s.am # None /\ Stored(t)' THEN t ELSE None
    BY <2>1, <2>2, <2>3, <1>6 DEF EventOf
  <2>8. s.am # None /\ Stored(t)' => e.mode = ModeOf(s.am)
    BY <2>1, <2>2, <2>3, <1>6 DEF EventOf
  <2>. QED
    BY <2>2, <2>4, <2>5, <2>6, <2>7, <2>8, <1>3, <1>6 DEF EventOf
<1>7. ASSUME NEW c \in Table, tab'[c].part = FALSE, tab'[c] # None PROVE TabAfter(c, s, z)
  <2>0. Stored(c)
    BY <1>2, <1>7 DEF Stored
  <2>1. tab[c].am \in AM /\ tab[c].main = FileFor(tab[c].am)
    BY <2>0 DEF FilesInv, TabsMatch
  <2>2. CASE tab'[c] = tab[c] /\ (c \notin Rewritten(s) \/ tab[c].idx = "none")
    <3>1. CASE c # s.rel
      BY <3>1, <2>2 DEF TabAfter
    <3>2. CASE c = s.rel
      <4>1. HasStorage(c)
        BY <2>0, StoredIs DEF FilesInv, EnfInv, Types
      <4>2. tab[c].idx = "none"
        BY <4>1, <3>2, <2>2, RewrittenIn
      <4>. QED
        BY <4>2, <2>1, <2>2 DEF TabAfter
    <3>. QED
      BY <3>1, <3>2
  <2>3. CASE ~(tab'[c] = tab[c] /\ (c \notin Rewritten(s) \/ tab[c].idx = "none"))
    <3>1. /\ tab'[c].main = tab[c].main /\ tab'[c].idx = NewFile(tab[c].idx)
          /\ tab'[c].am = tab[c].am /\ c \in Rewritten(s) /\ tab[c].idx # "none"
      BY <2>3, <1>2
    <3>2. NewFile(tab[c].idx) = FileFor(tab[c].am)
      <4>1. CASE s.kind = "rewrite"
        <5>1. Len(run) = 1 /\ DOMAIN run = 1..1 /\ s = run[1]
          <6>1. Len(run) = 1 /\ Top(run) = run[Len(run)]
            BY <4>1, <1>1, Counts DEF FilesInv, EnfInv
          <6>. QED
            BY <6>1, <1>1, Elems DEF FilesInv, EnfInv
        <5>2. \A i \in DOMAIN run : ~Changing(run[i])
          BY <5>1, <4>1 DEF Changing
        <5>3. tab[c].idx = FileFor(tab[c].am)
          BY <5>2, <3>1, <2>0 DEF FilesInv, TabsMatch
        <5>. QED
          BY <5>3, <4>1, <3>1, <2>0, <1>1, RewriteMode, NewFileRetains DEF FileFor
      <4>2. CASE s.kind = "alter" /\ s.am = None
        BY <4>2, <3>1, <2>0, <1>1, RewriteMode, NewFileOf
      <4>3. CASE s.kind = "alter" /\ s.am # None
        <5>1. c = s.rel /\ NewFile(tab[c].idx) = FileFor(s.am)
          BY <4>3, <3>1, <2>0, <1>1, RewriteMode, NewFileOf
        <5>2. PICK e : EventOf(e, s)
          BY <4>3, <1>1, TopEvent DEF FilesInv, EnfInv
        <5>3. tab[c].am = s.am
          BY <5>1, <5>2, <4>3, <2>0, <1>1 DEF EventOf
        <5>. QED
          BY <5>1, <5>3
      <4>. QED
        BY <4>1, <4>2, <4>3, <1>1
    <3>. QED
      BY <3>1, <3>2, <2>1 DEF TabAfter
  <2>. QED
    BY <2>2, <2>3
<1>8. ASSUME NEW q \in Sqn, seq'[q] # None PROVE SeqAfter(q, z)
  <2>1. seq'[q] = seq[q] /\ seq[q] # None /\ seq[q] \in SqnRec
    BY <1>8 DEF Reindex, FilesInv, EnfInv, Types, Sqns
  <2>2. ASSUME NEW o, o = seq[q].owner, o # None, tab[o] # None
        PROVE  tab'[o] # None /\ tab'[o].part = tab[o].part /\ tab'[o].am = tab[o].am
    BY <2>1, <2>2, <1>2, SqnFields
  <2>. QED
    BY <2>1, <2>2, SeqKept DEF FilesInv
<1>9. UNCHANGED <<xs, ev, evTid>> /\ Goto("done")
  BY DEF Reindex
<1>. QED
  <2>1. /\ s.step # "done"
        /\ \A x : x = Top(ev) /\ s.kind \notin {"rewrite", "drop"} => EventOf(x, z)'
        /\ \A c \in Table : tab'[c] # None /\ tab'[c].part = FALSE => TabAfter(c, s, z)
        /\ \A q \in Sqn : seq'[q] # None => SeqAfter(q, z)
    BY <1>1, <1>6, <1>7, <1>8
  <2>. QED
    BY <2>1, <1>1, <1>3, <1>4, <1>5, <1>9, FilesWorked

LEMMA FilesMoveIndex ==
    ASSUME FilesInv, EnfInv', MoveIndex
    PROVE  FilesInv'
<1>1. PICK s \in StmtRec : /\ s = Top(run) /\ s.kind = "alterindex" /\ s.step = "started"
                           /\ Ready(s) /\ xs # <<>> /\ run # <<>>
  BY AtWork DEF MoveIndex, FilesInv
<1>2. PICK t \in Table : t = s.rel /\ tab[t] # None
  BY <1>1 DEF Ready
<1>3. PICK r \in TableRec : r = tab[t]
  BY <1>2, StoredRec DEF FilesInv, EnfInv, Types
<1>4. PICK x \in File \cup {"shell"} : x = NewFile(tab[t].idx)
  BY NewFileType, FileTypes
<1>5. PICK n : n = [r EXCEPT !.idx = x]
  OBVIOUS
<1>6. /\ n \in TableRec /\ n.am = r.am /\ n.part = r.part /\ n.up = r.up /\ n.main = r.main
      /\ n.idx = x
  BY <1>5 DEF TableRec
<1>7. tab'[t] = n /\ n # None /\ \A c \in Table : c # t => tab'[c] = tab[c]
  <2>1. tab \in Tabs
    BY DEF FilesInv, EnfInv, Types
  <2>2. tab' = [tab EXCEPT ![t] = n]
    BY <2>1, <1>1, <1>2, <1>3, <1>4, <1>5 DEF MoveIndex, Tabs
  <2>. QED
    BY <2>1, <2>2, <1>6, NewTable DEF Tabs
<1>8. PICK z \in StmtRec :
              /\ z = [s EXCEPT !.step = "done"] /\ z.step = "done"
              /\ z.addr = s.addr /\ z.kind = s.kind /\ z.rel = s.rel /\ z.am = s.am
              /\ z.part = s.part /\ z.up = s.up /\ z.sq = s.sq
  BY StepFields
<1>9. PICK e : e = Top(ev) /\ EventOf(e, s) /\ ModeValidated = e.mode
  BY <1>1, TopEvent DEF FilesInv, EnfInv
<1>10. Touched(s) = {s.rel, s.up} /\ Touched(z)' = {s.rel, s.up}
  BY <1>1, <1>8 DEF Touched
<1>11. EventOf(e, z)'
  BY <1>1, <1>8, <1>9 DEF EventOf
<1>12. ASSUME NEW c \in Table, tab'[c].part = FALSE, tab'[c] # None PROVE TabAfter(c, s, z)
  <2>1. CASE c # t
    BY <2>1, <1>1, <1>7 DEF TabAfter
  <2>2. CASE c = t
    <3>1. Stored(t)
      BY <2>2, <1>2, <1>3, <1>6, <1>7, <1>12 DEF Stored
    <3>2. tab[t].am = "heap" /\ e.mode = ModeOf("heap")
      BY <1>1, <1>2, <1>9 DEF EventOf, ModeOf
    <3>3. x = FileFor("heap")
      BY <3>2, <1>4, <1>9, NewFileOf
    <3>4. tab[t].am \in AM /\ tab[t].main = FileFor(tab[t].am)
      BY <3>1 DEF FilesInv, TabsMatch
    <3>. QED
      BY <3>2, <3>3, <3>4, <2>2, <1>3, <1>6, <1>7 DEF TabAfter
  <2>. QED
    BY <2>1, <2>2
<1>13. ASSUME NEW q \in Sqn, seq'[q] # None PROVE SeqAfter(q, z)
  <2>1. seq'[q] = seq[q] /\ seq[q] # None /\ seq[q] \in SqnRec
    BY <1>13 DEF MoveIndex, FilesInv, EnfInv, Types, Sqns
  <2>2. ASSUME NEW o, o = seq[q].owner, o # None, tab[o] # None
        PROVE  tab'[o] # None /\ tab'[o].part = tab[o].part /\ tab'[o].am = tab[o].am
    BY <2>1, <2>2, <1>3, <1>6, <1>7, SqnFields
  <2>. QED
    BY <2>1, <2>2, SeqKept DEF FilesInv
<1>14. UNCHANGED <<xs, ev, evTid>> /\ Goto("done")
  BY DEF MoveIndex
<1>. QED
  <2>1. /\ s.step # "done" /\ Touched(z)' \subseteq Touched(s)
        /\ \A y : y = Top(ev) /\ s.kind \notin {"rewrite", "drop"} => EventOf(y, z)'
        /\ \A c \in Table : tab'[c] # None /\ tab'[c].part = FALSE => TabAfter(c, s, z)
        /\ \A q \in Sqn : seq'[q] # None => SeqAfter(q, z)
    BY <1>1, <1>9, <1>10, <1>11, <1>12, <1>13
  <2>2. /\ \A c \in Table : c \notin Touched(s) => tab'[c] = tab[c]
        /\ \A c \in Table : tab'[c] # None => tab[c] # None /\ tab'[c].up = tab[c].up
    BY <1>2, <1>3, <1>6, <1>7, <1>10
  <2>. QED
    BY <2>1, <2>2, <1>1, <1>8, <1>14, FilesWorked

LEMMA FilesAttach ==
    ASSUME FilesInv, EnfInv', Attach
    PROVE  FilesInv'
<1>1. PICK s \in StmtRec : /\ s = Top(run) /\ s.kind = "attach" /\ s.step = "started"
                           /\ Ready(s) /\ xs # <<>> /\ run # <<>>
                           /\ s = run[Len(run)] /\ Len(run) \in DOMAIN run
  BY AtWork DEF Attach, FilesInv
<1>2. PICK t \in Table, b \in Table : t = s.rel /\ b = s.up /\ tab[b] \in TableRec /\ tab[b] # None
  BY <1>1, Attached DEF FilesInv
<1>3. PICK r \in TableRec : r = tab[b]
  BY <1>2
<1>4. tab' = [tab EXCEPT ![b] = [r EXCEPT !.up = t, !.idx = r.idx]]
  <2>1. PICK x : /\ tab' = [tab EXCEPT ![b] = [tab[b] EXCEPT !.up = t, !.idx = x]]
                 /\ tab[t].idx = "none" \/ tab[b].idx # "none" => x = tab[b].idx
    BY <1>1, <1>2, Attached DEF FilesInv
  <2>2. tab[t].idx = "none" \/ tab[b].idx # "none"
    BY <1>1, <1>2 DEF FilesInv, NoAttachedIndex
  <2>. QED
    BY <2>1, <2>2, <1>3
<1>5. PICK n : n = [r EXCEPT !.up = t, !.idx = r.idx]
  OBVIOUS
<1>6. /\ n \in TableRec /\ n.am = r.am /\ n.part = r.part /\ n.up = t /\ n.main = r.main
      /\ n.idx = r.idx
  BY <1>5 DEF TableRec
<1>7. tab'[b] = n /\ n # None /\ \A c \in Table : c # b => tab'[c] = tab[c]
  BY <1>4, <1>5, <1>6, NewTable DEF FilesInv, EnfInv, Types, Tabs
<1>8. PICK z \in StmtRec :
              /\ z = [s EXCEPT !.step = "done"] /\ z.step = "done"
              /\ z.addr = s.addr /\ z.kind = s.kind /\ z.rel = s.rel /\ z.am = s.am
              /\ z.part = s.part /\ z.up = s.up /\ z.sq = s.sq
  BY StepFields
<1>9. PICK e : e = Top(ev) /\ EventOf(e, s)
  BY <1>1, TopEvent DEF FilesInv, EnfInv
<1>10. Touched(s) = {s.rel, s.up} /\ Touched(z)' = {s.rel, s.up}
  BY <1>1, <1>8 DEF Touched
<1>11. EventOf(e, z)'
  BY <1>1, <1>8, <1>9 DEF EventOf
<1>12. ASSUME NEW c \in Table, tab'[c].part = FALSE, tab'[c] # None PROVE TabAfter(c, s, z)
  <2>1. CASE c # b
    BY <2>1, <1>1, <1>7 DEF TabAfter
  <2>2. CASE c = b
    <3>1. Stored(b)
      BY <2>2, <1>2, <1>3, <1>6, <1>7, <1>12 DEF Stored
    <3>2. tab[b].am \in AM /\ tab[b].main = FileFor(tab[b].am)
      BY <3>1 DEF FilesInv, TabsMatch
    <3>. QED
      BY <3>1, <3>2, <2>2, <1>1, <1>3, <1>6, <1>7 DEF TabAfter
  <2>. QED
    BY <2>1, <2>2
<1>13. ASSUME NEW q \in Sqn, seq'[q] # None PROVE SeqAfter(q, z)
  <2>1. seq'[q] = seq[q] /\ seq[q] # None /\ seq[q] \in SqnRec
    BY <1>13 DEF Attach, FilesInv, EnfInv, Types, Sqns
  <2>2. ASSUME NEW o, o = seq[q].owner, o # None, tab[o] # None
        PROVE  tab'[o] # None /\ tab'[o].part = tab[o].part /\ tab'[o].am = tab[o].am
    BY <2>1, <2>2, <1>3, <1>6, <1>7, SqnFields
  <2>. QED
    BY <2>1, <2>2, SeqKept DEF FilesInv
<1>14. UNCHANGED <<xs, ev, evTid>> /\ Goto("done")
  BY DEF Attach
<1>. QED
  <2>1. /\ s.step # "done" /\ Touched(z)' \subseteq Touched(s)
        /\ \A y : y = Top(ev) /\ s.kind \notin {"rewrite", "drop"} => EventOf(y, z)'
        /\ \A c \in Table : tab'[c] # None /\ tab'[c].part = FALSE => TabAfter(c, s, z)
        /\ \A q \in Sqn : seq'[q] # None => SeqAfter(q, z)
    BY <1>1, <1>9, <1>10, <1>11, <1>12, <1>13
  <2>2. /\ \A c \in Table : c \notin Touched(s) => tab'[c] = tab[c]
        /\ \A c \in Table : tab'[c] # None =>
               tab'[c].up \in Touched(s) \cup {None} \/ (tab[c] # None /\ tab'[c].up = tab[c].up)
    BY <1>2, <1>6, <1>7, <1>10
  <2>. QED
    BY <2>1, <2>2, <1>1, <1>8, <1>14, FilesWorked

LEMMA FilesChangeSeq ==
    ASSUME FilesInv, EnfInv', ChangeSeq
    PROVE  FilesInv'
<1>1. PICK s \in StmtRec : /\ s = Top(run) /\ s.kind \in {"cseq", "aseq", "restart"}
                           /\ s.step = "started" /\ Ready(s) /\ xs # <<>> /\ run # <<>>
  BY AtWork DEF ChangeSeq, FilesInv
<1>2. PICK r \in SqnRec :
         /\ seq' = [seq EXCEPT ![s.sq] = r] /\ s.sq \in Sqn
         /\ s.kind = "cseq" => r.file = NewFile("none") /\ r.owner = s.rel
         /\ s.kind = "aseq" => seq[s.sq] # None /\ r.file = seq[s.sq].file /\ r.owner = s.rel
         /\ s.kind = "restart" => /\ seq[s.sq] # None /\ r.owner = seq[s.sq].owner
                                  /\ r.file = NewFile(seq[s.sq].file)
  BY <1>1, SeqChanged DEF FilesInv
<1>3. seq'[s.sq] = r /\ r # None /\ \A q \in Sqn : q # s.sq => seq'[q] = seq[q]
  BY <1>2, NewTable DEF FilesInv, EnfInv, Types, Sqns
<1>4. tab' = tab /\ UNCHANGED <<xs, ev, evTid>> /\ Goto("done")
  BY DEF ChangeSeq
<1>5. PICK z \in StmtRec :
              /\ z = [s EXCEPT !.step = "done"] /\ z.step = "done"
              /\ z.addr = s.addr /\ z.kind = s.kind /\ z.rel = s.rel /\ z.am = s.am
              /\ z.part = s.part /\ z.up = s.up /\ z.sq = s.sq
  BY StepFields
<1>6. PICK e : e = Top(ev) /\ EventOf(e, s) /\ ModeValidated = e.mode
  BY <1>1, TopEvent DEF FilesInv, EnfInv
<1>7. Touched(s) = {} /\ Touched(z)' = {}
  BY <1>1, <1>5 DEF Touched
<1>8. EventOf(e, z)'
  <2>1. OwnerMode(z.rel)' = OwnerMode(s.rel)
    BY <1>4, <1>5 DEF OwnerMode
  <2>2. z.kind = "aseq" => z.sq \in Sqn /\ seq'[z.sq] # None /\ seq'[z.sq].owner = z.rel
    BY <1>2, <1>3, <1>5
  <2>. QED
    BY <2>1, <2>2, <1>1, <1>5, <1>6 DEF EventOf
<1>9. ASSUME NEW q \in Sqn, seq'[q] # None PROVE SeqAfter(q, z)
  <2>1. CASE q # s.sq
    <3>1. seq'[q] = seq[q] /\ seq[q] # None
      BY <2>1, <1>3, <1>9
    <3>. QED
      BY <3>1, <1>4, SeqKept DEF FilesInv
  <2>2. CASE q = s.sq /\ s.kind = "cseq"
    <3>1. seq'[q].file = NewFile("none") /\ seq'[q].owner = s.rel
      BY <2>2, <1>2, <1>3
    <3>2. e.mode = OwnerMode(s.rel)
      BY <2>2, <1>6 DEF EventOf
    <3>3. CASE s.rel = None
      <4>1. NewFile("none") = "plain"
        BY <3>2, <3>3, <1>6 DEF OwnerMode, NewFile
      <4>. QED
        BY <4>1, <3>1, <3>3 DEF SeqAfter
    <3>4. CASE s.rel # None
      <4>1. tab[s.rel] # None /\ NewFile("none") = FileFor(tab[s.rel].am)
        BY <3>2, <3>4, <2>2, <1>1, <1>6, NewFileOf DEF OwnerMode, Ready
      <4>. QED
        BY <4>1, <3>1, <3>4, <1>4 DEF SeqAfter
    <3>. QED
      BY <3>3, <3>4
  <2>3. CASE q = s.sq /\ s.kind = "aseq"
    <3>1. seq'[q].owner = s.rel /\ (s.rel # None => tab[s.rel] # None)
      BY <2>3, <1>1, <1>2, <1>3 DEF Ready
    <3>. QED
      BY <3>1, <2>3, <1>4, <1>5 DEF SeqAfter
  <2>4. CASE q = s.sq /\ s.kind = "restart"
    <3>1. seq[q] \in SqnRec /\ seq[q] # None
      BY <2>4, <1>2 DEF FilesInv, EnfInv, Types, Sqns
    <3>2. e.mode = "retain" /\ NewFile(seq[q].file) = seq[q].file
      BY <3>1, <2>4, <1>6, SqnFields, NewFileRetains DEF EventOf
    <3>3. r.file = seq[q].file /\ r.owner = seq[q].owner
      BY <3>2, <2>4, <1>2
    <3>4. seq'[q] = seq[q]
      BY <3>1, <3>3, <2>4, <1>3 DEF SqnRec
    <3>. QED
      BY <3>1, <3>4, <1>4, SeqKept DEF FilesInv
  <2>. QED
    BY <2>1, <2>2, <2>3, <2>4, <1>1
<1>. QED
  <2>1. /\ s.step # "done" /\ Touched(z)' \subseteq Touched(s)
        /\ \A y : y = Top(ev) /\ s.kind \notin {"rewrite", "drop"} => EventOf(y, z)'
        /\ \A c \in Table : tab'[c] # None /\ tab'[c].part = FALSE => TabAfter(c, s, z)
        /\ \A q \in Sqn : seq'[q] # None => SeqAfter(q, z)
    BY <1>1, <1>4, <1>6, <1>7, <1>8, <1>9 DEF TabAfter
  <2>2. /\ \A c \in Table : c \notin Touched(s) => tab'[c] = tab[c]
        /\ \A c \in Table : tab'[c] # None => tab[c] # None /\ tab'[c].up = tab[c].up
    BY <1>4
  <2>. QED
    BY <2>1, <2>2, <1>1, <1>4, <1>5, FilesWorked

LEMMA FilesDropTable ==
    ASSUME FilesInv, EnfInv', DropTable
    PROVE  FilesInv'
<1>1. PICK s \in StmtRec : /\ s = Top(run) /\ s.kind = "drop"
                           /\ s.step = "started" /\ xs # <<>> /\ run # <<>>
  BY AtWork DEF DropTable, FilesInv
<1>2. \A c \in Table : tab'[c] = IF c = s.rel THEN None ELSE tab[c]
  BY <1>1 DEF DropTable, FilesInv, EnfInv, Types, Tabs
<1>3. UNCHANGED <<xs, ev, evTid>> /\ Goto("done")
  BY DEF DropTable
<1>4. PICK z \in StmtRec :
              /\ z = [s EXCEPT !.step = "done"] /\ z.step = "done"
              /\ z.addr = s.addr /\ z.kind = s.kind /\ z.rel = s.rel /\ z.am = s.am
              /\ z.part = s.part /\ z.up = s.up /\ z.sq = s.sq
  BY StepFields
<1>5. Touched(s) = {s.rel, s.up} /\ Touched(z)' = {s.rel, s.up}
  BY <1>1, <1>4 DEF Touched
<1>6. ASSUME NEW q \in Sqn, seq'[q] # None PROVE SeqAfter(q, z)
  <2>1. seq'[q] = IF seq[q] # None /\ seq[q].owner = s.rel THEN None ELSE seq[q]
    BY <1>1 DEF DropTable
  <2>2. seq'[q] = seq[q] /\ seq[q] # None /\ seq[q].owner # s.rel
    BY <2>1, <1>6
  <2>3. seq[q] \in SqnRec
    BY <2>2 DEF FilesInv, EnfInv, Types, Sqns
  <2>4. ASSUME NEW o, o = seq[q].owner, o # None, tab[o] # None
        PROVE  tab'[o] # None /\ tab'[o].part = tab[o].part /\ tab'[o].am = tab[o].am
    BY <2>2, <2>3, <2>4, <1>2, SqnFields
  <2>. QED
    BY <2>2, <2>4, SeqKept DEF FilesInv
<1>. QED
  <2>1. /\ s.step # "done" /\ Touched(z)' \subseteq Touched(s)
        /\ \A y : y = Top(ev) /\ s.kind \notin {"rewrite", "drop"} => EventOf(y, z)'
        /\ \A c \in Table : tab'[c] # None /\ tab'[c].part = FALSE => TabAfter(c, s, z)
        /\ \A q \in Sqn : seq'[q] # None => SeqAfter(q, z)
    BY <1>1, <1>2, <1>5, <1>6 DEF TabAfter
  <2>2. /\ \A c \in Table : c \notin Touched(s) => tab'[c] = tab[c]
        /\ \A c \in Table : tab'[c] # None => tab[c] # None /\ tab'[c].up = tab[c].up
    BY <1>2, <1>5
  <2>. QED
    BY <2>1, <2>2, <1>1, <1>3, <1>4, FilesWorked

-----------------------------------------------------------------------------
(* The end trigger keeps FilesInv.                                         *)

\* A statement with an event finds it on top; one without finds none of its
\* transaction's with its address, and rewrites nothing.
LEMMA EndOfCaptured ==
    ASSUME FilesInv, End, NEW s, s = Top(run), s.kind \notin {"rewrite", "drop"}
    PROVE  /\ ev # <<>> /\ ev' = Pop(ev)
           /\ \A q \in Rebuilt(Top(ev)) : seq[q] # None
           /\ seq' = [q \in Sqn |-> IF q \in Rebuilt(Top(ev))
                                        THEN [seq[q] EXCEPT !.file = NewFile(@)] ELSE seq[q]]
<1>1. xs # <<>> /\ run # <<>> /\ Top(run) = run[Len(run)] /\ Len(run) \in DOMAIN run
  BY AtWork DEF End, FilesInv
<1>2. s.triggers = TRUE
  BY <1>1 DEF FilesInv, Lined
<1>3. ev # <<>> /\ Top(ev).addr = s.addr
  BY <1>1, TopEvent DEF FilesInv, EnfInv, EventOf
<1>4. EndsEvent(s)
  BY <1>2, <1>3 DEF EndsEvent
<1>. QED
  BY <1>3, <1>4, Zenon DEF End

LEMMA RebuiltSame ==
    ASSUME FilesInv, ModeValidated = "retain", NEW e,
           \A q \in Rebuilt(e) : seq[q] # None,
           seq' = [q \in Sqn |-> IF q \in Rebuilt(e)
                                    THEN [seq[q] EXCEPT !.file = NewFile(@)] ELSE seq[q]]
    PROVE  seq' = seq
<1>0. seq \in Sqns
  BY DEF FilesInv, EnfInv, Types
<1>1. ASSUME NEW q \in Rebuilt(e) PROVE [seq[q] EXCEPT !.file = NewFile(@)] = seq[q]
  <2>1. PICK r \in SqnRec : r = seq[q]
    BY <1>0 DEF Sqns, Rebuilt
  <2>2. NewFile(r.file) = r.file
    BY SqnFields, NewFileRetains
  <2>3. [r EXCEPT !.file = r.file] = r
    BY DEF SqnRec
  <2>. QED
    BY <2>1, <2>2, <2>3
<1>2. seq' = [q \in Sqn |-> seq[q]]
  BY <1>1
<1>. QED
  BY <1>0, <1>2 DEF Sqns

LEMMA EndOfPlain ==
    ASSUME FilesInv, End, NEW s, s = Top(run), s.kind \in {"rewrite", "drop"}
    PROVE  /\ seq' = seq
           /\ Len(ev') <= MaxDepth
           /\ ev' = ev \/ (evTid # Tid /\ ev # <<>> /\ ev' = Pop(ev))
<1>. USE DEF FilesInv, EnfInv
<1>1. xs # <<>> /\ run # <<>> /\ Top(run) = run[Len(run)] /\ Len(run) \in DOMAIN run
  BY AtWork DEF End
<1>2. CASE ~EndsEvent(s)
  <2>1. UNCHANGED <<seq, ev>>
    BY <1>2, Zenon DEF End
  <2>. QED
    BY <2>1 DEF Mirrored
<1>3. CASE EndsEvent(s)
  <2>1. /\ ev' = Pop(ev) /\ \A q \in Rebuilt(Top(ev)) : seq[q] # None
        /\ seq' = [q \in Sqn |-> IF q \in Rebuilt(Top(ev))
                                        THEN [seq[q] EXCEPT !.file = NewFile(@)] ELSE seq[q]]
    BY <1>3, Zenon DEF End
  <2>2. ev # <<>> /\ Top(ev).addr = s.addr
    BY <1>3, Zenon DEF EndsEvent
  <2>3. evTid # Tid
    <3>. SUFFICES ASSUME evTid = Tid PROVE FALSE
      OBVIOUS
    <3>1. Kept = ev /\ Len(ev) = Events /\ Len(ev) \in Nat \ {0} /\ Top(ev) = ev[Len(ev)]
      BY <2>2, <1>1, Ends DEF Kept, Mirrored, Types
    <3>2. PICK m, k : m = Events /\ k = Skipped /\ k \in {0, 1}
      BY Counts
    <3>3. m \in Nat \ {0} /\ s.kind = "drop" /\ m = Len(run) - k - 1 /\ Len(run) \in Nat
      BY <3>1, <3>2, <1>1, Counts
    <3>4. Top(ev).addr = run[m + k].addr
      <4>1. EventOf(Kept[m], run[m + k])
        BY <3>2, <3>3, <1>1 DEF Mirrored
      <4>. QED
        BY <4>1, <3>1, <3>2 DEF EventOf
    <3>5. m + k \in DOMAIN run /\ m + k # Len(run)
      <4>1. PICK n \in Nat : n = Len(run) /\ DOMAIN run = 1..n
        BY Elems
      <4>2. m + k = n - 1 /\ m + k \in 1..n
        BY <3>2, <3>3, <4>1
      <4>. QED
        BY <4>1, <4>2
    <3>. QED
      BY <3>4, <3>5, <2>2, <1>1 DEF Lined
  <2>4. ModeValidated = "retain"
    BY <2>3 DEF ModeValidated
  <2>5. seq' = seq
    BY <2>1, <2>4, RebuiltSame
  <2>6. Len(ev') <= MaxDepth
    <3>1. Len(ev') = Len(ev) - 1 /\ Len(ev) \in Nat /\ Len(ev) <= MaxDepth
      BY <2>1, <2>2, Ends DEF Types, Mirrored
    <3>. QED
      BY <3>1, DdlEventsAssumption
  <2>. QED
    BY <2>1, <2>2, <2>3, <2>5, <2>6
<1>. QED
  BY <1>2, <1>3

\* What the end trigger leaves in the sequences it rewrites.
LEMMA RebuiltMatch ==
    ASSUME FilesInv, End, NEW s, s = Top(run), s.kind \notin {"rewrite", "drop"},
           NEW q \in Sqn, seq'[q] # None
    PROVE  /\ seq[q] # None /\ seq'[q].owner = seq[q].owner
           /\ \/ seq'[q] = seq[q] /\ q \notin Rebuilt(Top(ev))
              \/ /\ seq[q].owner = None
                 /\ seq'[q].file = "plain"
              \/ /\ seq[q].owner # None
                 /\ seq'[q].file = FileFor(tab[seq[q].owner].am)
<1>. USE DEF FilesInv, EnfInv
<1>1. xs # <<>> /\ run # <<>> /\ s.step = "done"
  BY AtWork DEF End
<1>2. PICK e : e = Top(ev) /\ EventOf(e, s) /\ ModeValidated = e.mode
  BY <1>1, TopEvent
<1>3. /\ \A p \in Rebuilt(e) : seq[p] # None
      /\ seq' = [p \in Sqn |-> IF p \in Rebuilt(e)
                                  THEN [seq[p] EXCEPT !.file = NewFile(@)] ELSE seq[p]]
  BY <1>2, EndOfCaptured
<1>4. CASE q \notin Rebuilt(e)
  BY <1>2, <1>3, <1>4
<1>5. CASE q \in Rebuilt(e)
  <2>1. PICK r \in SqnRec : r = seq[q] /\ seq[q] # None
    BY <1>3, <1>5 DEF Types, Sqns
  <2>2. PICK f \in {"plain", "enc"} : f = NewFile(r.file)
    BY NewFileType
  <2>3. seq'[q] = [r EXCEPT !.file = f]
    BY <2>1, <2>2, <1>3, <1>5
  <2>4. seq'[q].owner = r.owner /\ seq'[q].file = f
    BY <2>3 DEF SqnRec
  <2>5. CASE q = e.rebuild
    <3>1. s.kind = "aseq" /\ q = s.sq
      BY <2>5, <1>2, DdlEventsAssumption DEF EventOf
    <3>2. r.owner = s.rel /\ e.mode = OwnerMode(s.rel)
      BY <3>1, <2>1, <1>1, <1>2 DEF EventOf
    <3>3. CASE s.rel = None
      <4>1. f = "plain"
        BY <3>2, <3>3, <2>2, <1>2 DEF OwnerMode, NewFile
      <4>. QED
        BY <4>1, <3>2, <3>3, <2>1, <2>4
    <3>4. CASE s.rel # None
      <4>1. f = FileFor(tab[s.rel].am)
        BY <3>2, <3>4, <2>2, <1>2, NewFileOf DEF OwnerMode
      <4>. QED
        BY <4>1, <3>2, <3>4, <2>1, <2>4
    <3>. QED
      BY <3>3, <3>4
  <2>6. CASE q # e.rebuild
    <3>1. e.rebuildFor # None /\ r.owner = e.rebuildFor
      BY <2>1, <2>6, <1>5 DEF Rebuilt
    <3>2. s.kind = "alter" /\ s.am # None /\ Stored(s.rel) /\ e.rebuildFor = s.rel
      BY <3>1, <1>2 DEF EventOf
    <3>3. e.mode = ModeOf(s.am) /\ tab[s.rel].am = s.am
      BY <3>2, <1>1, <1>2 DEF EventOf
    <3>4. f = FileFor(tab[s.rel].am)
      BY <3>3, <2>2, <1>2, NewFileOf
    <3>. QED
      BY <3>1, <3>2, <3>4, <2>1, <2>4
  <2>. QED
    BY <2>5, <2>6
<1>. QED
  BY <1>4, <1>5

\* A sequence the statement that ends saw to is one its event rewrites.
LEMMA SeenIsRebuilt ==
    ASSUME FilesInv, xs # <<>>, run # <<>>, NEW s, s = Top(run), NEW q \in Sqn, seq[q] # None,
           \/ Changing(s) /\ s.rel = seq[q].owner
           \/ s.kind = "aseq" /\ s.sq = q
    PROVE  \/ q \in Rebuilt(Top(ev))
           \/ seq[q].owner # None /\ ~Stored(seq[q].owner)
<1>. USE DEF FilesInv, EnfInv
<1>1. s.kind \in {"alter", "aseq"}
  BY DEF Changing
<1>2. PICK e : e = Top(ev) /\ EventOf(e, s)
  BY <1>1, TopEvent
<1>3. CASE s.kind = "aseq"
  BY <1>2, <1>3 DEF EventOf, Rebuilt, Changing
<1>4. CASE s.kind = "alter"
  <2>1. s.am # None /\ s.rel = seq[q].owner
    BY <1>4 DEF Changing
  <2>2. s.rel # None
    <3>1. Len(run) \in DOMAIN run /\ s = run[Len(run)]
      BY Ends DEF Types
    <3>. QED
      BY <3>1, <1>4, DdlEventsAssumption DEF Lined
  <2>3. Stored(s.rel) => e.rebuildFor = s.rel
    BY <2>1, <1>2, <1>4 DEF EventOf
  <2>. QED
    BY <2>1, <2>2, <2>3, <1>2 DEF Rebuilt
<1>. QED
  BY <1>1, <1>3, <1>4

LEMMA FilesEnd ==
    ASSUME FilesInv, EnfInv', End
    PROVE  FilesInv'
<1>. USE DEF FilesInv, EnfInv
<1>1. PICK s \in StmtRec : /\ s = Top(run) /\ s.step = "done" /\ xs # <<>> /\ run # <<>>
  BY AtWork DEF End
<1>2. UNCHANGED <<tab, xs, evTid>> /\ run' = Pop(run)
  BY DEF End
<1>3. PICK n \in Nat \ {0} : n = Len(run) /\ DOMAIN run = 1..n /\ s = run[n] /\ n \in DOMAIN run
  BY <1>1, Ends, Elems DEF Types
<1>4. Len(run') = n - 1 /\ DOMAIN run' = 1..n - 1 /\ \A i \in 1..n - 1 : run'[i] = run[i]
  <2>1. run' \in Seq(StmtRec) /\ Len(run') = n - 1 /\ \A i \in 1..n - 1 : run'[i] = run[i]
    BY <1>1, <1>2, <1>3, Ends DEF Types
  <2>. QED
    BY <2>1
<1>5. \A i \in DOMAIN run' : i \in DOMAIN run /\ i < n /\ run'[i] = run[i]
  BY <1>3, <1>4
<1>6. PICK k \in {0, 1} : k = Skipped /\ k <= n
  BY <1>3, Counts
<1>7. Lined'
  <2>1. \A i \in DOMAIN xs' : xs'[i].depth = 0
    BY <1>2 DEF Lined
  <2>2. \A i \in DOMAIN run' :
           /\ i < Len(run') => run'[i].kind \in {"alter", "rewrite", "create"}
           /\ run'[i].kind = "rewrite" => i = 1
           /\ run'[i].kind = "alter" => run'[i].rel \in Table
           /\ run'[i].kind # "rewrite" => run'[i].triggers = TRUE
           /\ \A j \in DOMAIN run' : run'[i].addr = run'[j].addr => i = j
    BY <1>3, <1>5 DEF Lined
  <2>. QED
    BY <2>1, <2>2 DEF Lined
<1>8. Apart' /\ NoAttachedIndex' /\ Snapshots'
  <2>1. Apart'
    <3>. SUFFICES ASSUME NEW i \in DOMAIN run', NEW j \in DOMAIN run', i < j, run'[i].kind = "alter"
                  PROVE  (Touched(run[j]) \cap Down(run[i].rel) = {})'
      BY DEF Apart
    <3>1. PICK x, t : x = run[j] /\ x = run'[j] /\ t = run[i].rel /\ t = run'[i].rel
      BY <1>5
    <3>2. Touched(x) \cap Down(t) = {}
      BY <3>1, <1>5 DEF Apart
    <3>3. Touched(x)' = Touched(x) /\ Down(t)' = Down(t)
      BY <1>2, TouchedSame, DownSame
    <3>. QED
      BY <3>1, <3>2, <3>3
  <2>2. NoAttachedIndex'
    BY <1>2, <1>5 DEF NoAttachedIndex
  <2>. QED
    BY <2>1, <2>2, <1>2 DEF Snapshots
<1>9. TabsMatch'
  <2>. SUFFICES ASSUME NEW t \in Table, Stored(t)'
                PROVE  (/\ tab[t].am \in AM
                        /\ tab[t].main = FileFor(tab[t].am)
                        /\ \/ tab[t].idx \in {"none", FileFor(tab[t].am)}
                           \/ \E i \in DOMAIN run : Changing(run[i]) /\ run[i].step = "heap" /\ run[i].rel = t)'
    BY DEF TabsMatch
  <2>1. Stored(t)
    BY <1>2 DEF Stored
  <2>2. /\ tab[t].am \in AM
        /\ tab[t].main = FileFor(tab[t].am)
        /\ \/ tab[t].idx \in {"none", FileFor(tab[t].am)}
           \/ \E i \in DOMAIN run : Changing(run[i]) /\ run[i].step = "heap" /\ run[i].rel = t
    BY <2>1 DEF TabsMatch
  <2>3. ASSUME NEW i \in DOMAIN run, Changing(run[i]), run[i].step = "heap", run[i].rel = t
        PROVE  i \in DOMAIN run' /\ run'[i] = run[i]
    BY <2>3, <1>1, <1>3, <1>4
  <2>. QED
    BY <2>2, <2>3, <1>2 DEF Changing
<1>10. CASE s.kind \notin {"rewrite", "drop"}
  <2>1. ev # <<>> /\ ev' = Pop(ev)
    BY <1>1, <1>10, EndOfCaptured
  <2>2. /\ evTid = Tid /\ Kept = ev /\ Len(ev) = Events /\ Events = n - k
    BY <1>1, <1>3, <1>6, <1>10, TopEvent, Counts
  <2>3. Len(ev') = Len(ev) - 1 /\ \A i \in 1..Len(ev) - 1 : ev'[i] = ev[i]
    BY <2>1, Ends DEF Types
  <2>4. Kept' = ev'
    BY <2>2, <1>2 DEF Kept, Tid
  <2>5. Tagged'
    BY <2>1, <1>2 DEF Tagged
  <2>6. n - k \in Nat \ {0} /\ Skipped' = k /\ Events' = n - k - 1
    <3>1. n - k >= 1
      BY <2>2, <1>1, <1>10, Counts
    <3>2. CASE n = 1
      <4>1. k = 0 /\ run' = <<>>
        BY <3>1, <3>2, <1>6, <1>4, <1>2, <1>1, Ends DEF Types
      <4>. QED
        BY <4>1, <3>2 DEF Skipped, Events
    <3>3. CASE n # 1
      <4>1. run' # <<>> /\ run'[1] = run[1] /\ run # <<>> /\ n - 1 \in 1..n - 1
        BY <3>3, <1>1, <1>3, <1>4
      <4>2. Top(run)' = run[n - 1] /\ run[n - 1].kind # "drop"
        <5>1. Top(run)' = run[n - 1]
          BY <4>1, <1>4 DEF Top
        <5>2. run[n - 1].kind \in {"alter", "rewrite", "create"}
          BY <4>1, <1>3 DEF Lined
        <5>. QED
          BY <5>1, <5>2
      <4>3. Skipped' = k
        BY <4>1, <1>6 DEF Skipped
      <4>. QED
        BY <4>1, <4>2, <4>3, <3>1, <1>3, <1>4, <1>6 DEF Events
    <3>. QED
      BY <3>2, <3>3, <3>1, <1>3, <1>6
  <2>7. ASSUME NEW i \in 1..(n - k - 1) PROVE EventOf(Kept[i], run[i + Skipped])'
    <3>1. i + k \in 1..n - 1 /\ i \in 1..Events /\ i \in 1..Len(ev) - 1 /\ i + k \in k + 1..k + Events
      BY <2>2, <2>6, <2>7, <1>3, <1>6
    <3>2. PICK x, y : x = ev[i] /\ y = run[i + k] /\ EventOf(x, y)
      BY <3>1, <2>2, <1>1, <1>6 DEF Mirrored
    <3>3. y.kind \in {"alter", "create"} /\ (y.kind = "alter" => y.rel \in Table)
      <4>1. i + k \in DOMAIN run /\ i + k < n
        BY <3>1, <1>3
      <4>2. y.kind \notin {"rewrite", "drop"}
        BY <4>1, <3>1, <3>2, <1>6, Counts
      <4>. QED
        BY <4>1, <4>2, <3>2, <1>3 DEF Lined
    <3>4. EventOf(x, y)'
      <4>1. \A t : Down(t)' = Down(t)
        BY <1>2, DownSame
      <4>2. Down(y.rel)' \subseteq Down(y.rel)
        <5>1. PICK t : t = y.rel
          OBVIOUS
        <5>. QED
          BY <4>1, <5>1
      <4>. QED
        BY <4>2, <3>2, <3>3, <1>2, LowerEvent
    <3>5. ev'[i] = x /\ run'[i + Skipped'] = y
      BY <3>1, <3>2, <2>3, <2>6, <1>4
    <3>. QED
      BY <3>4, <3>5, <2>4
  <2>8. Mirrored'
    <3>1. Len(ev') <= MaxDepth /\ Len(Kept') = Events'
      BY <2>2, <2>3, <2>4, <2>6, DdlEventsAssumption DEF Mirrored
    <3>. QED
      BY <3>1, <2>6, <2>7 DEF Mirrored
  <2>9. SeqsMatch'
    <3>. SUFFICES ASSUME NEW q \in Sqn, seq'[q] # None
                  PROVE  (/\ seq[q].owner # None => tab[seq[q].owner] # None
                          /\ \/ Sees(q, seq[q].owner)
                             \/ seq[q].owner = None /\ seq[q].file = "plain"
                             \/ seq[q].owner # None
                                /\ (Stored(seq[q].owner) => seq[q].file = FileFor(tab[seq[q].owner].am)))'
      BY DEF SeqsMatch, Sees
    <3>1. PICK o : o = seq[q].owner
      OBVIOUS
    <3>2. /\ seq[q] # None /\ seq'[q].owner = o
          /\ \/ seq'[q] = seq[q] /\ q \notin Rebuilt(Top(ev))
             \/ o = None /\ seq'[q].file = "plain"
             \/ o # None /\ seq'[q].file = FileFor(tab[o].am)
      BY <3>1, <1>1, <1>10, RebuiltMatch
    <3>3. /\ o # None => tab[o] # None
          /\ \/ Sees(q, o)
             \/ o = None /\ seq[q].file = "plain"
             \/ o # None /\ (Stored(o) => seq[q].file = FileFor(tab[o].am))
      BY <3>1, <3>2 DEF SeqsMatch, Sees
    <3>4. ASSUME seq'[q] = seq[q], q \notin Rebuilt(Top(ev)), Sees(q, o)
          PROVE  Sees(q, o)' \/ (o # None /\ ~Stored(o))
      <4>1. PICK i \in DOMAIN run : \/ Changing(run[i]) /\ run[i].rel = o
                                    \/ run[i].kind = "aseq" /\ run[i].step = "done" /\ run[i].sq = q
        BY <3>4 DEF Sees
      <4>2. CASE i # n
        <5>1. i \in DOMAIN run' /\ run'[i] = run[i]
          BY <4>2, <1>3, <1>4
        <5>. QED
          BY <4>1, <5>1 DEF Sees, Changing
      <4>3. CASE i = n
        <5>1. \/ Changing(s) /\ s.rel = seq[q].owner
              \/ s.kind = "aseq" /\ s.sq = q
          BY <4>1, <4>3, <3>1, <1>3
        <5>. QED
          BY <5>1, <3>1, <3>2, <3>4, <1>1, SeenIsRebuilt
      <4>. QED
        BY <4>2, <4>3
    <3>5. \/ Sees(q, o)'
          \/ o = None /\ seq'[q].file = "plain"
          \/ o # None /\ (Stored(o) => seq'[q].file = FileFor(tab[o].am))
      BY <3>2, <3>3, <3>4
    <3>6. (Stored(seq[q].owner) <=> Stored(o))' /\ (Stored(o)' <=> Stored(o))
      BY <3>2, <1>2 DEF Stored
    <3>7. (Sees(q, seq[q].owner) <=> Sees(q, o))'
      BY <3>2 DEF Sees
    <3>. QED
      BY <3>2, <3>3, <3>5, <3>6, <3>7, <1>2
  <2>. QED
    BY <2>5, <2>8, <2>9, <1>7, <1>8, <1>9
<1>11. CASE s.kind \in {"rewrite", "drop"}
  <2>1. /\ seq' = seq /\ Len(ev') <= MaxDepth
        /\ ev' = ev \/ (evTid # Tid /\ ev # <<>> /\ ev' = Pop(ev))
    BY <1>1, <1>11, EndOfPlain
  <2>2. Kept' = Kept
    BY <2>1, <1>2 DEF Kept, Tid
  <2>3. Tagged'
    BY <2>1, <1>2 DEF Tagged
  <2>4. SeqsMatch'
    <3>. SUFFICES ASSUME NEW q \in Sqn, seq'[q] # None
                  PROVE  (/\ seq[q].owner # None => tab[seq[q].owner] # None
                          /\ \/ Sees(q, seq[q].owner)
                             \/ seq[q].owner = None /\ seq[q].file = "plain"
                             \/ seq[q].owner # None
                                /\ (Stored(seq[q].owner) => seq[q].file = FileFor(tab[seq[q].owner].am)))'
      BY DEF SeqsMatch, Sees
    <3>1. PICK o : o = seq[q].owner /\ o = seq'[q].owner
      BY <2>1
    <3>2. /\ o # None => tab[o] # None
          /\ \/ Sees(q, o)
             \/ o = None /\ seq[q].file = "plain"
             \/ o # None /\ (Stored(o) => seq[q].file = FileFor(tab[o].am))
      BY <3>1, <2>1 DEF SeqsMatch, Sees
    <3>3. ASSUME Sees(q, o) PROVE Sees(q, o)'
      <4>1. PICK i \in DOMAIN run : \/ Changing(run[i]) /\ run[i].rel = o
                                    \/ run[i].kind = "aseq" /\ run[i].step = "done" /\ run[i].sq = q
        BY <3>3 DEF Sees
      <4>2. i # n
        BY <4>1, <1>3, <1>11 DEF Changing
      <4>3. i \in DOMAIN run' /\ run'[i] = run[i]
        BY <4>2, <1>3, <1>4
      <4>. QED
        BY <4>1, <4>3 DEF Sees, Changing
    <3>4. (Stored(seq[q].owner) <=> Stored(o))' /\ (Stored(o)' <=> Stored(o))
      BY <3>1, <1>2 DEF Stored
    <3>5. (Sees(q, seq[q].owner) <=> Sees(q, o))'
      BY <3>1 DEF Sees
    <3>. QED
      BY <3>1, <3>2, <3>3, <3>4, <3>5, <2>1, <1>2
  <2>5. Mirrored'
    <3>1. CASE n = 1
      <4>1. run' = <<>>
        BY <3>1, <1>1, <1>2, <1>3, <1>4, Ends DEF Types
      <4>2. Events = 0
        BY <3>1, <1>1, <1>3, <1>6, <1>11, Counts DEF Skipped
      <4>3. Kept = <<>>
        BY <4>2, <1>1, NoEvent
      <4>. QED
        BY <4>1, <4>3, <2>1, <2>2, MirrorsNothing
    <3>2. CASE n # 1
      <4>0. s.kind = "drop" /\ Events = n - k - 1
        BY <3>2, <1>1, <1>3, <1>6, <1>11, Counts
      <4>1. run' # <<>> /\ run'[1] = run[1] /\ run # <<>> /\ n - 1 \in 1..n - 1
        BY <3>2, <1>1, <1>3, <1>4
      <4>2. Top(run)' = run[n - 1] /\ run[n - 1].kind # "drop"
        <5>1. Top(run)' = run[n - 1]
          BY <4>1, <1>4 DEF Top
        <5>2. run[n - 1].kind \in {"alter", "rewrite", "create"}
          BY <4>1, <1>3 DEF Lined
        <5>. QED
          BY <5>1, <5>2
      <4>3. Skipped' = k
        BY <4>1, <1>6 DEF Skipped
      <4>4. Events' = n - k - 1
        BY <4>1, <4>2, <4>3, <1>3, <1>4, <1>6 DEF Events
      <4>5. ASSUME NEW i \in 1..(n - k - 1) PROVE EventOf(Kept[i], run[i + Skipped])'
        <5>1. i + k \in 1..n - 1 /\ i \in 1..Events
          BY <4>0, <4>5, <1>3, <1>6
        <5>2. PICK x, y : x = Kept[i] /\ y = run[i + k] /\ EventOf(x, y)
          BY <5>1, <1>1, <1>6 DEF Mirrored
        <5>3. EventOf(x, y)'
          BY <5>2, <2>1, <1>2, EventSame
        <5>4. Kept'[i] = x /\ run'[i + Skipped'] = y
          BY <5>1, <5>2, <4>3, <2>2, <1>4
        <5>. QED
          BY <5>3, <5>4
      <4>. QED
        <5>1. Len(Kept') = Events'
          BY <4>0, <4>4, <2>2, <1>1 DEF Mirrored
        <5>. QED
          BY <5>1, <4>4, <4>5, <2>1 DEF Mirrored
    <3>. QED
      BY <3>1, <3>2
  <2>. QED
    BY <2>3, <2>4, <2>5, <1>7, <1>8, <1>9
<1>. QED
  BY <1>10, <1>11

-----------------------------------------------------------------------------
(* FilesInv is inductive, and what it implies.                             *)

LEMMA FilesInit == Init => FilesInv
<1>. SUFFICES ASSUME Init PROVE FilesInv
  OBVIOUS
<1>1. EnfInv
  BY EnfInit
<1>2. /\ xs = <<>> /\ run = <<>> /\ ev = <<>>
      /\ tab = [t \in Table |-> None] /\ seq = [s \in Sqn |-> None]
  BY DEF Init
<1>3. Lined /\ Tagged /\ Apart /\ NoAttachedIndex /\ Snapshots
  BY <1>2 DEF Lined, Tagged, Apart, NoAttachedIndex, Snapshots
<1>4. Mirrored
  BY <1>2, DdlEventsAssumption DEF Mirrored
<1>5. TabsMatch /\ SeqsMatch
  BY <1>2 DEF TabsMatch, SeqsMatch, Stored
<1>. QED
  BY <1>1, <1>3, <1>4, <1>5 DEF FilesInv

LEMMA FilesStart ==
    ASSUME Paths = {}, FilesInv, EnfInv', NEW a \in FreeAddr, Start(a)
    PROVE  FilesInv'
<1>2. CASE \E t \in Table : \E using \in AM \cup {None}, part \in BOOLEAN,
              up \in Table \cup {None}, s \in Sqn \cup {None}, triggers \in BOOLEAN :
              StartCreate(a, t, using, part, up, s, triggers)
  BY <1>2, FilesStartCreate
<1>3. CASE \E t \in Table : StartIndex(a, t)
  BY <1>3, FilesStartIndex
<1>4. CASE \E t \in Table : \E am \in AM \cup {None} : StartAlter(a, t, am)
  BY <1>4, FilesStartAlter
<1>5. CASE \E t \in Table : StartAlterIndex(a, t)
  BY <1>5, FilesStartAlterIndex
<1>6. CASE \E t \in Table, c \in Table : StartAttach(a, t, c)
  BY <1>6, FilesStartAttach
<1>7. CASE \E t \in Table : (\E triggers \in BOOLEAN : StartRewrite(a, t, triggers)) \/ StartDrop(a, t)
  BY <1>7, FilesStartPlain
<1>8. CASE \E s \in Sqn : \/ \E t \in Table \cup {None} : StartCreateSeq(a, s, t) \/ StartAlterSeq(a, s, t)
                          \/ StartRestartSeq(a, s)
  BY <1>8, FilesStartSeq
<1>. QED
  BY <1>2, <1>3, <1>4, <1>5, <1>6, <1>7, <1>8 DEF Start

LEMMA FilesStay ==
    ASSUME FilesInv, EnfInv', UNCHANGED <<tab, seq, xs, run, ev, evTid>>
    PROVE  FilesInv'
<1>1. Lined' /\ Tagged' /\ NoAttachedIndex' /\ Snapshots'
  BY DEF FilesInv, Lined, Tagged, NoAttachedIndex, Snapshots
<1>2. TabsMatch' /\ SeqsMatch'
  BY DEF FilesInv, TabsMatch, SeqsMatch, Stored, Changing
<1>3. Apart'
  <2>. SUFFICES ASSUME NEW i \in DOMAIN run, NEW j \in DOMAIN run, i < j, run[i].kind = "alter"
                PROVE  (Touched(run[j]) \cap Down(run[i].rel) = {})'
    BY DEF Apart
  <2>1. PICK x, t : x = run[j] /\ t = run[i].rel
    OBVIOUS
  <2>2. Touched(x) \cap Down(t) = {}
    BY <2>1 DEF FilesInv, Apart
  <2>3. Touched(x)' = Touched(x) /\ Down(t)' = Down(t)
    BY TouchedSame, DownSame
  <2>. QED
    BY <2>1, <2>2, <2>3
<1>4. Mirrored'
  <2>1. Kept' = Kept /\ Events' = Events /\ Skipped' = Skipped
    BY DEF Kept, Tid, Events, Skipped
  <2>2. ASSUME xs # <<>>, NEW i \in 1..Events PROVE EventOf(Kept[i], run[i + Skipped])'
    <3>1. PICK x, y : x = Kept[i] /\ y = run[i + Skipped] /\ EventOf(x, y)
      BY <2>2 DEF FilesInv, Mirrored
    <3>2. EventOf(x, y)'
      BY <3>1, EventSame
    <3>. QED
      BY <3>1, <3>2, <2>1
  <2>. QED
    BY <2>1, <2>2 DEF FilesInv, Mirrored
<1>. QED
  BY <1>1, <1>2, <1>3, <1>4 DEF FilesInv

LEMMA FilesNext ==
    ASSUME Paths = {}, FilesInv, [Next]_vars
    PROVE  FilesInv'
<1>1. EnfInv'
  BY EnfNext DEF FilesInv
<1>2. CASE UNCHANGED vars \/ SetEnforce
  BY <1>1, <1>2, FilesStay DEF vars, SetEnforce
<1>3. CASE Abort
  BY <1>1, <1>3, FilesRollBack DEF Abort, FilesInv, Mirrored
<1>4. CASE Begin \/ Commit \/ End
  BY <1>1, <1>4, FilesBegin, FilesCommit, FilesEnd
<1>5. CASE \E a \in FreeAddr : Start(a)
  BY <1>1, <1>5, FilesStart
<1>6. CASE CreateTable \/ CreateIndex \/ RewriteHeap \/ Reindex \/ MoveIndex \/ Attach
              \/ ChangeSeq \/ DropTable
  BY <1>1, <1>6, FilesCreateTable, FilesCreateIndex, FilesRewriteHeap, FilesReindex,
     FilesMoveIndex, FilesAttach, FilesChangeSeq, FilesDropTable
<1>. QED
  BY <1>2, <1>3, <1>4, <1>5, <1>6 DEF Next

LEMMA FilesInvMatch ==
    ASSUME FilesInv
    PROVE  FilesMatchAM
<1>0. tab \in Tabs /\ Lined
  BY DEF FilesInv, EnfInv, Types
<1>1. \A t \in Table : FileOf(t) = FileFor(tab[t].am) /\ (HasStorage(t) <=> Stored(t))
  BY <1>0, StoredIs DEF FileOf, FileFor
<1>2. \A i \in DOMAIN run : Changing(run[i]) => run[i].rel \in Busy /\ run[i].rel \in Table
  BY <1>0, AlterBusy, DownIn DEF Changing, Lined
<1>3. ASSUME NEW t \in Table \ Busy, Stored(t)
      PROVE  tab[t].main = FileOf(t) /\ tab[t].idx \in {"none", FileOf(t)}
  BY <1>1, <1>2, <1>3 DEF FilesInv, TabsMatch
<1>4. ASSUME NEW s \in Sqn \ BusySqn, seq[s] # None
      PROVE  IF seq[s].owner = None THEN seq[s].file = "plain"
             ELSE seq[s].owner \notin Busy /\ HasStorage(seq[s].owner)
                     => seq[s].file = FileOf(seq[s].owner)
  <2>1. \A i \in DOMAIN run : run[i].sq # s
    BY <1>4, DdlEventsAssumption DEF BusySqn
  <2>2. PICK o : o = seq[s].owner
    OBVIOUS
  <2>3. o \in Table \cup {None}
    BY <2>2, <1>4, SqnFields DEF FilesInv, EnfInv, Types, Sqns
  <2>4. \/ \E i \in DOMAIN run : Changing(run[i]) /\ run[i].rel = o
        \/ o = None /\ seq[s].file = "plain"
        \/ o # None /\ (Stored(o) => seq[s].file = FileFor(tab[o].am))
    BY <2>1, <2>2, <1>4 DEF FilesInv, SeqsMatch
  <2>5. CASE o = None
    BY <2>2, <2>4, <2>5, <1>2, DdlEventsAssumption
  <2>6. CASE o # None
    BY <2>2, <2>3, <2>4, <2>6, <1>1, <1>2
  <2>. QED
    BY <2>5, <2>6
<1>. QED
  BY <1>1, <1>3, <1>4 DEF FilesMatchAM

LEMMA FilesInvMirrors ==
    ASSUME FilesInv
    PROVE  StackMirrorsRun
<1>. USE DEF FilesInv, EnfInv
<1>1. TypeOK
  <2>1. \A i \in DOMAIN ev :
           /\ ev[i].addr \in Addr /\ ev[i].mode \in Mode
           /\ ev[i].rebuildFor \in Table \cup {None} /\ ev[i].rebuild \in Sqn \cup {None}
    BY Elems DEF EventRec
  <2>. QED
    BY <2>1 DEF TypeOK, Types, Mirrored, Tabs, Sqns
<1>2. ASSUME xs # <<>>, NEW mine,
             mine = {i \in Top(xs).depth + 1..Len(run) :
                        run[i].triggers /\ run[i].kind \notin {"rewrite", "drop"}}
      PROVE  /\ Len(Kept) = Cardinality(mine)
             /\ \A i \in mine :
                   Kept[Cardinality({j \in mine : j <= i})].addr = run[i].addr
  <2>1. Top(xs).depth = 0
    <3>1. Len(xs) \in DOMAIN xs /\ Top(xs) = xs[Len(xs)]
      BY <1>2, Ends DEF Types
    <3>. QED
      BY <3>1 DEF Lined
  <2>2. PICK n, m \in Nat, k \in {0, 1} : n = Len(run) /\ m = Events /\ k = Skipped /\ k + m <= n
                               /\ n \in Nat /\ DOMAIN run = 1..n
    <3>1. DOMAIN run = 1..Len(run)
      BY Elems
    <3>2. Len(run) \in Nat /\ Events \in Nat /\ Skipped \in {0, 1} /\ Skipped + Events <= Len(run)
      BY Counts
    <3>. QED
      BY <3>1, <3>2, Zenon
  <2>3. mine = k + 1..k + m
    <3>1. \A i \in 1..n : run[i].kind \notin {"rewrite", "drop"} <=> i \in k + 1..k + m
      BY <2>2, Counts
    <3>2. \A i \in 1..n : run[i].kind \notin {"rewrite", "drop"} => run[i].triggers = TRUE
      BY <2>2 DEF Lined
    <3>3. \A i \in 1..n : (run[i].triggers /\ run[i].kind \notin {"rewrite", "drop"}) <=> i \in k + 1..k + m
      BY <3>1, <3>2, Zenon
    <3>4. mine = {i \in 1..n : run[i].triggers /\ run[i].kind \notin {"rewrite", "drop"}}
      BY <1>2, <2>1, <2>2
    <3>5. mine = {i \in 1..n : i \in k + 1..k + m}
      BY <3>3, <3>4, Zenon
    <3>. QED
      BY <3>5, <2>2
  <2>4. Cardinality(mine) = m
    BY <2>2, <2>3, FS_Interval
  <2>5. ASSUME NEW i \in mine
        PROVE  Kept[Cardinality({j \in mine : j <= i})].addr = run[i].addr
    <3>1. i \in k + 1..k + m /\ {j \in mine : j <= i} = k + 1..i
      BY <2>2, <2>3, <2>5
    <3>2. Cardinality({j \in mine : j <= i}) = i - k
      <4>1. k + 1 \in Int /\ i \in Int /\ ~(k + 1 > i) /\ i - (k + 1) + 1 = i - k
        BY <3>1, <2>2
      <4>2. Cardinality(k + 1..i) = i - (k + 1) + 1
        BY <4>1, FS_Interval
      <4>. QED
        BY <4>1, <4>2, <3>1
    <3>3. EventOf(Kept[i - k], run[(i - k) + k]) /\ (i - k) + k = i
      BY <3>1, <2>2, <1>2 DEF Mirrored
    <3>. QED
      BY <3>2, <3>3 DEF EventOf
  <2>. QED
    BY <2>2, <2>4, <2>5, <1>2 DEF Mirrored
<1>. QED
  BY <1>1, <1>2, Zenon DEF StackMirrorsRun

\* Whatever statements fail, nest and roll back, the files of a table no statement
\* is working on, of its index and of its sequences are encrypted exactly if its
\* access method is tde_heap: the mode that tde_mdcreate finds on ddlEventStack is
\* that of the statement creating the file, or none.  Only the paths in Paths, on
\* which the triggers lose track, are left out.
THEOREM FilesAlwaysMatch ==
    ASSUME Paths = {}
    PROVE  Spec => []FilesMatchAM
<1>1. Init => FilesInv
  BY FilesInit
<1>2. FilesInv /\ [Next]_vars => FilesInv'
  BY FilesNext
<1>3. FilesInv => FilesMatchAM
  BY FilesInvMatch
<1>. QED
  BY <1>1, <1>2, <1>3, PTL DEF Spec

\* The events of ddlEventStack tagged with the current transaction are those that
\* the start trigger pushed for its statements in progress, in order, and the stack
\* is never deeper than statements can nest: verify_event_stack throws away what
\* failed statements left, and the end trigger pops its own event.
THEOREM StackAlwaysMirrors ==
    ASSUME Paths = {}
    PROVE  Spec => []StackMirrorsRun
<1>1. Init => FilesInv
  BY FilesInit
<1>2. FilesInv /\ [Next]_vars => FilesInv'
  BY FilesNext
<1>3. FilesInv => StackMirrorsRun
  BY FilesInvMirrors
<1>. QED
  BY <1>1, <1>2, <1>3, PTL DEF Spec

=============================================================================
