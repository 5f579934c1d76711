--------------------------- MODULE KeyRedoProofs ---------------------------
(***************************************************************************)
(* Proofs about KeyRedo, for any relations, principal keys, providers and  *)
(* scenarios, and logs of any length.                                      *)
(*                                                                         *)
(* The argument, for the keys of committed relations: the record of the    *)
(* creation is in the flushed part of the log, and no record after it      *)
(* removes the entry.  So an entry that replay has removed, because the    *)
(* record of an earlier removal was met again, is made again further on.   *)
(*                                                                         *)
(* For the progress of replay: in the crash recovery of the primary the    *)
(* files are those of a time after every record, and have a header since a *)
(* record that needs one was written.  On a standby, the record that sets  *)
(* a principal key comes before any that needs it, or before the backup.   *)
(*                                                                         *)
(* For what a standby ends up with: a log leaves a header in every file    *)
(* and entries for some relations.  The primary's files are what its log   *)
(* leaves, but for the change that is under way; the standby's are what    *)
(* the records before its position leave, unless one after it writes the   *)
(* header or entry again.                                                  *)
(***************************************************************************)
EXTENDS KeyRedo, TLAPS

-----------------------------------------------------------------------------
(* The log, and the modes of the servers.                                  *)

\* What records are about, and which a scenario can have.
RecOK(rec) ==
    /\ rec.op \in {"add", "rotate"} => rec.key \in PKey
    /\ rec.op \in {"add", "rotate", "delete", "install"} => rec.oid \in Oid
    /\ rec.op \in {"create", "drop", "leftover"} => rec.rel \in Rel
    /\ rec.op = "install" => rec.oid = Db /\ env.install # "none"
    /\ rec.op = "delete" => env.delete # {}
    /\ rec.op = "provider" => env.remove # {}
    /\ rec.op = "addprovider" => rec.prov \in Prov /\ env.install # "none"
    /\ rec.op \in {"add", "rotate"} /\ rec.oid = Default => env.default # {}

LogOK ==
    /\ \A i \in 1 .. Len(log) : RecOK(log[i])
    /\ pend # None => RecOK(pend) /\ pend.op \in {"add", "rotate", "delete", "drop", "install"}

\* Only a primary that is up is in the middle of a change; a standby still to be
\* made has no cache.  No server starts from, or has replayed, more than is on
\* disk.
ModeOK ==
    /\ mode[Primary] \in {"up", "redo", "failed"}
    /\ mode[Standby] # "up"
    /\ mode[Standby] = "none" => env.backup # "none"
    /\ pend # None \/ open # {} => mode[Primary] = "up"
    /\ left # {} => mode[Standby] = "backup"
    /\ mode[Standby] \in {"none", "backup"} => \A o \in Oid : cache[Standby][o] = None
    /\ mode[Primary] = "redo" => ckpt[Primary] <= at[Primary]
    /\ ckpt[Standby] <= at[Standby]
    /\ \A n \in Server : ckpt[n] <= flushed /\ at[n] <= flushed
    /\ mode[Primary] # "up" => flushed = Len(log)

TypeInv == TypeOK /\ LogOK /\ ModeOK

-----------------------------------------------------------------------------
(* The files of one server.                                                *)

\* Neither principal keys nor providers are deleted, and the extension stays.
Simple == env.delete = {} /\ env.remove = {} /\ env.install = "none"

ServerOK(n) ==
    /\ hdr[n][Db] = None => NoEntries(n)
    /\ env.delete = {} => \A o \in Oid : cache[n][o] \in {None, hdr[n][o]}
    /\ env.delete = {} => \A r \in Rel : ents[n][r] \in {None, hdr[n][Db]}
    /\ env.default = {} => hdr[n][Default] = None /\ cache[n][Default] = None
    /\ Simple => provs[n] = Prov

FileInv == \A n \in Server : ServerOK(n)

-----------------------------------------------------------------------------
(* The keys of committed relations.                                        *)

\* A record whose replay removes the entry of r.
Removes(rec, r) ==
    \/ rec.op \in {"drop", "leftover"} /\ rec.rel = r
    \/ rec.op \in {"delete", "install"} /\ rec.oid = Db

\* Record c makes the entry of r, and none after it removes that.
Makes(c, r) ==
    /\ log[c].op = "create" /\ log[c].rel = r
    /\ \A j \in c + 1 .. Len(log) : ~Removes(log[j], r)

\* A change that is under way takes no key that is in use.
PendClean ==
    pend # None =>
        /\ pend.op = "drop" => pend.rel \notin live \cup open
        /\ pend.op \in {"add", "delete", "install"} /\ pend.oid = Db => live \cup open = {}

KeepInv ==
    /\ PendClean
    /\ mode[Primary] = "up" => \A r \in live \cup open : ents[Primary][r] # None
    /\ \A r \in live : \E c \in 1 .. flushed :
           /\ Makes(c, r)
           /\ mode[Primary] # "up" /\ ents[Primary][r] = None => at[Primary] < c

-----------------------------------------------------------------------------
(* The progress of replay.                                                 *)

\* The key file a record needs a header of.
Needs(rec, o) ==
    \/ rec.op = "rotate" /\ rec.oid = o
    \/ rec.op = "create" /\ o = Db

Adds(rec, o) == rec.op = "add" /\ rec.oid = o

\* The headers of the primary.
PrimaryInv ==
    Simple => \A o \in Oid :
        /\ \A i \in 1 .. Len(log) : Needs(log[i], o) => hdr[Primary][o] # None
        /\ pend # None /\ pend.op = "rotate" /\ pend.oid = o => hdr[Primary][o] # None

\* What a standby relies on.
Followed == Simple /\ Primary \notin env.crash /\ env.default = {} /\ env.backup # "any"

\* The primary has a key, or is about to.
HasKey(o) == hdr[Primary][o] # None \/ (pend # None /\ Adds(pend, o))

StandbyInv ==
    Followed => \A o \in Oid :
        /\ HasKey(o) <=> \E j \in 1 .. Len(log) : Adds(log[j], o)
        /\ \A i \in 1 .. Len(log) : Needs(log[i], o) => \E j \in 1 .. i - 1 : Adds(log[j], o)
        /\ \A j \in 1 .. at[Standby] : Adds(log[j], o) =>
               IF o \in left THEN hdr[Primary][o] # None ELSE hdr[Standby][o] # None

GoesOn ==
    /\ Simple => mode[Primary] # "failed"
    /\ Followed => mode[Standby] # "failed"

IInv == TypeInv /\ FileInv /\ (env.install # "any" => KeepInv) /\ PrimaryInv /\ StandbyInv /\ GoesOn

-----------------------------------------------------------------------------
(* The log.                                                                *)

LogType ==
    /\ log \in Seq(Recs) /\ flushed \in 0 .. Len(log)
    /\ ckpt \in [Server -> 0 .. Len(log)] /\ at \in [Server -> 0 .. Len(log)]
    /\ pend \in Recs \cup {None}

FileType ==
    /\ mode \in [Server -> {"up", "redo", "failed", "none", "backup"}] /\ left \subseteq Files
    /\ hdr \in [Server -> [Oid -> PKey \cup {None}]]
    /\ ents \in [Server -> [Rel -> PKey \cup {None}]]
    /\ cache \in [Server -> [Oid -> PKey \cup {None}]]
    /\ provs \in [Server -> SUBSET Prov]
    /\ live \subseteq Rel /\ open \subseteq Rel /\ env \in Scenarios

LEMMA TypeParts == TypeOK <=> LogType /\ FileType
BY DEF TypeOK, LogType, FileType

LEMMA Names ==
    /\ Primary \in Server /\ Standby \in Server /\ Primary # Standby
    /\ Db \in Oid /\ Default \in Oid /\ Db # Default
    /\ \A n \in Server : n = Primary \/ n = Standby
    /\ \A o \in Oid : o = Db \/ o = Default
    /\ None \notin PKey /\ None \notin Rel /\ None \notin Prov /\ None \notin Oid
BY KeyRedoAssumption DEF Server, Oid

\* A record is no None.
LEMMA RecFacts ==
    ASSUME NEW op \in Ops, NEW o \in Oid \cup {None}, NEW k \in PKey \cup {None},
           NEW r \in Rel \cup {None}, NEW v \in Prov \cup {None}
    PROVE  /\ Rec(op, o, k, r, v) \in Recs
           /\ Rec(op, o, k, r, v).op = op /\ Rec(op, o, k, r, v).oid = o
           /\ Rec(op, o, k, r, v).key = k /\ Rec(op, o, k, r, v).rel = r
           /\ Rec(op, o, k, r, v).prov = v
BY DEF Rec, Recs

\* A step that writes no record.
LEMMA SameLog ==
    ASSUME LogType, LogOK, UNCHANGED <<log, flushed, ckpt, at, env>>, pend' = pend \/ pend' = None
    PROVE  LogType' /\ LogOK'
<1>1. LogType'
  BY DEF LogType
<1>2. LogOK'
  BY DEF LogOK, RecOK
<1> QED BY <1>1, <1>2

\* A step that writes one.
LEMMA AppendLog ==
    ASSUME LogType, LogOK, NEW rec \in Recs, RecOK(rec), log' = Append(log, rec),
           flushed' = flushed \/ flushed' = Len(log) + 1, UNCHANGED <<ckpt, at, env>>,
           \/ pend' = None \/ pend' = pend
           \/ pend' = rec /\ rec.op \in {"add", "rotate", "delete", "drop", "install"}
    PROVE  LogType' /\ LogOK'
<1>1. /\ log' \in Seq(Recs) /\ Len(log') = Len(log) + 1 /\ log'[Len(log) + 1] = rec
      /\ \A i \in 1 .. Len(log) : log'[i] = log[i]
      /\ Len(log) \in Nat
  BY DEF LogType
<1>2. flushed' \in 0 .. Len(log')
  BY <1>1 DEF LogType
<1>3. ckpt' \in [Server -> 0 .. Len(log')] /\ at' \in [Server -> 0 .. Len(log')]
  <2>1. \A i \in 0 .. Len(log) : i \in 0 .. Len(log')
    BY <1>1
  <2> QED BY <2>1 DEF LogType
<1>4. LogType'
  BY <1>1, <1>2, <1>3 DEF LogType
<1>5. \A i \in 1 .. Len(log') : RecOK(log'[i])
  <2> TAKE i \in 1 .. Len(log')
  <2>1. CASE i = Len(log) + 1
    BY <1>1, <2>1
  <2>2. CASE i # Len(log) + 1
    <3>1. i \in 1 .. Len(log)
      BY <1>1, <2>2
    <3> QED BY <1>1, <3>1 DEF LogOK
  <2> QED BY <2>1, <2>2
<1>6. pend' # None => RecOK(pend') /\ pend'.op \in {"add", "rotate", "delete", "drop", "install"}
  BY DEF LogOK
<1>7. LogOK'
  BY <1>5, <1>6 DEF LogOK, RecOK
<1> QED BY <1>4, <1>7

LEMMA LogSetKey ==
    ASSUME TypeInv, NEW o \in Oid, NEW k \in PKey, SetKey(o, k)
    PROVE  LogType' /\ LogOK'
<1>1. PICK rec : rec = Rec("add", o, k, None, None)
  OBVIOUS
<1>2. rec \in Recs /\ rec.op = "add" /\ rec.oid = o /\ rec.key = k
  BY <1>1, RecFacts DEF Ops
<1>3. RecOK(rec)
  BY <1>2, Names DEF RecOK, SetKey, Settable
<1>4. log' = Append(log, rec) /\ pend' = rec /\ UNCHANGED <<flushed, ckpt, at, env>>
  BY <1>1 DEF SetKey
<1> QED BY <1>2, <1>3, <1>4, AppendLog, TypeParts DEF TypeInv

LEMMA LogDeleteKey ==
    ASSUME TypeInv, NEW o \in Oid, DeleteKey(o)
    PROVE  LogType' /\ LogOK'
<1>1. PICK rec : rec = Rec("delete", o, None, None, None)
  OBVIOUS
<1>2. rec \in Recs /\ rec.op = "delete" /\ rec.oid = o
  BY <1>1, RecFacts DEF Ops
<1>3. RecOK(rec)
  BY <1>2, Names DEF RecOK, DeleteKey
<1>4. log' = Append(log, rec) /\ pend' = rec /\ UNCHANGED <<flushed, ckpt, at, env>>
  BY <1>1 DEF DeleteKey
<1> QED BY <1>2, <1>3, <1>4, AppendLog, TypeParts DEF TypeInv

\* The record of a change whose file came first.
LEMMA LogPending ==
    ASSUME TypeInv, LogRotate \/ CleanUp
    PROVE  LogType' /\ LogOK'
<1>1. /\ pend # None /\ log' = Append(log, pend) /\ pend' = None
      /\ UNCHANGED <<flushed, ckpt, at, env>>
  BY DEF LogRotate, CleanUp
<1>2. pend \in Recs /\ RecOK(pend) /\ LogType /\ LogOK
  BY <1>1, TypeParts DEF TypeInv, LogType, LogOK
<1>3. PICK rec \in Recs : rec = pend
  BY <1>2
<1> QED BY <1>1, <1>2, <1>3, AppendLog

LEMMA LogCommitRel ==
    ASSUME TypeInv, NEW r \in Rel, CommitRel(r)
    PROVE  LogType' /\ LogOK'
<1>1. PICK rec : rec = Rec("create", None, None, r, None)
  OBVIOUS
<1>2. rec \in Recs /\ rec.op = "create" /\ rec.rel = r
  BY <1>1, RecFacts DEF Ops
<1>3. RecOK(rec)
  BY <1>2 DEF RecOK
<1>4. /\ log' = Append(log, rec) /\ flushed' = Len(log) + 1 /\ pend' = pend
      /\ UNCHANGED <<ckpt, at, env>>
  BY <1>1 DEF CommitRel
<1> QED BY <1>2, <1>3, <1>4, AppendLog, TypeParts DEF TypeInv

\* The records of a drop, the first of them only for a creation that is undone.
LEMMA DropRecords ==
    ASSUME TypeInv, NEW r \in Rel, DropRel(r)
    PROVE  \E c \in Recs, d \in Recs :
               /\ c.op = "create" /\ c.rel = r /\ d.op = "drop" /\ d.rel = r
               /\ RecOK(c) /\ RecOK(d) /\ pend' = d /\ UNCHANGED <<ckpt, at, env>>
               /\ flushed' = Len(log')
               /\ \/ r \in live /\ r \notin open /\ log' = Append(log, d)
                  \/ r \in open /\ log' = Append(Append(log, c), d)
<1>1. PICK c, d : c = Rec("create", None, None, r, None) /\ d = Rec("drop", None, None, r, None)
  OBVIOUS
<1>2. /\ c \in Recs /\ c.op = "create" /\ c.rel = r
      /\ d \in Recs /\ d.op = "drop" /\ d.rel = r
  BY <1>1, RecFacts DEF Ops
<1>3. RecOK(c) /\ RecOK(d)
  BY <1>2 DEF RecOK
<1>4. log \in Seq(Recs)
  BY TypeParts DEF TypeInv, LogType
<1>5. /\ log' = log \o (IF r \in open THEN <<c>> ELSE << >>) \o <<d>>
      /\ r \in live \cup open /\ flushed' = Len(log') /\ pend' = d /\ UNCHANGED <<ckpt, at, env>>
  BY <1>1 DEF DropRel
<1>6. /\ log \o << >> \o <<d>> = Append(log, d)
      /\ log \o <<c>> \o <<d>> = Append(Append(log, c), d)
  BY <1>2, <1>4
<1>7. \/ r \in live /\ r \notin open /\ log' = Append(log, d)
      \/ r \in open /\ log' = Append(Append(log, c), d)
  BY <1>5, <1>6
<1> QED BY <1>2, <1>3, <1>5, <1>7

LEMMA LogDropRel ==
    ASSUME TypeInv, NEW r \in Rel, DropRel(r)
    PROVE  LogType' /\ LogOK'
<1>1. PICK c \in Recs, d \in Recs :
               /\ c.op = "create" /\ c.rel = r /\ d.op = "drop" /\ d.rel = r
               /\ RecOK(c) /\ RecOK(d) /\ pend' = d /\ UNCHANGED <<ckpt, at, env>>
               /\ flushed' = Len(log')
               /\ \/ r \in live /\ r \notin open /\ log' = Append(log, d)
                  \/ r \in open /\ log' = Append(Append(log, c), d)
  BY DropRecords
<1>2. LogType /\ LogOK /\ log \in Seq(Recs) /\ Len(log) \in Nat
  BY TypeParts DEF TypeInv, LogType
<1>3. CASE log' = Append(log, d)
  <2>1. flushed' = Len(log) + 1
    BY <1>1, <1>2, <1>3
  <2> QED BY <1>1, <1>2, <1>3, <2>1, AppendLog
<1>4. CASE log' = Append(Append(log, c), d)
  <2>1. /\ log' \in Seq(Recs) /\ Len(log') = Len(log) + 2
        /\ log'[Len(log) + 1] = c /\ log'[Len(log) + 2] = d
        /\ \A i \in 1 .. Len(log) : log'[i] = log[i]
    BY <1>2, <1>4
  <2>2. \A i \in 0 .. Len(log) : i \in 0 .. Len(log')
    BY <1>2, <2>1
  <2>3. ckpt' \in [Server -> 0 .. Len(log')] /\ at' \in [Server -> 0 .. Len(log')]
    BY <1>1, <1>2, <2>2 DEF LogType
  <2>4. flushed' \in 0 .. Len(log')
    BY <1>1, <1>2, <2>1
  <2>5. LogType'
    BY <1>1, <2>1, <2>3, <2>4 DEF LogType
  <2>6. \A i \in 1 .. Len(log') : RecOK(log'[i])
    <3> TAKE i \in 1 .. Len(log')
    <3>1. i \in 1 .. Len(log) \/ i = Len(log) + 1 \/ i = Len(log) + 2
      BY <1>2, <2>1
    <3> QED BY <1>1, <1>2, <2>1, <3>1 DEF LogOK
  <2>7. LogOK'
    BY <1>1, <2>6 DEF LogOK, RecOK
  <2> QED BY <2>5, <2>7
<1> QED BY <1>1, <1>3, <1>4

LEMMA LogOthers ==
    ASSUME TypeInv, \/ \E r \in Rel : CreatePlain(r)
                    \/ \E v \in Prov : DeleteProvider(v) \/ AddProvider(v)
    PROVE  LogType' /\ LogOK'
<1>1. ASSUME NEW r \in Rel, CreatePlain(r) PROVE LogType' /\ LogOK'
  <2>1. PICK rec : rec = Rec("leftover", None, None, r, None)
    OBVIOUS
  <2>2. rec \in Recs /\ rec.op = "leftover" /\ rec.rel = r
    BY <2>1, RecFacts DEF Ops
  <2>3. RecOK(rec)
    BY <2>2 DEF RecOK
  <2>4. log' = Append(log, rec) /\ pend' = pend /\ UNCHANGED <<flushed, ckpt, at, env>>
    BY <1>1, <2>1 DEF CreatePlain
  <2> QED BY <2>2, <2>3, <2>4, AppendLog, TypeParts DEF TypeInv
<1>2. ASSUME NEW v \in Prov, DeleteProvider(v) PROVE LogType' /\ LogOK'
  <2>1. PICK rec : rec = Rec("provider", None, None, None, v)
    OBVIOUS
  <2>2. rec \in Recs /\ rec.op = "provider"
    BY <2>1 DEF Rec, Recs, Ops
  <2>3. RecOK(rec)
    BY <1>2, <2>2 DEF RecOK, DeleteProvider
  <2>4. log' = Append(log, rec) /\ pend' = pend /\ UNCHANGED <<flushed, ckpt, at, env>>
    BY <1>2, <2>1 DEF DeleteProvider
  <2> QED BY <2>2, <2>3, <2>4, AppendLog, TypeParts DEF TypeInv
<1>3. ASSUME NEW v \in Prov, AddProvider(v) PROVE LogType' /\ LogOK'
  <2>1. PICK rec : rec = Rec("addprovider", None, None, None, v)
    OBVIOUS
  <2>2. rec \in Recs /\ rec.op = "addprovider" /\ rec.prov = v
    BY <2>1 DEF Rec, Recs, Ops
  <2>3. RecOK(rec)
    BY <1>3, <2>2 DEF RecOK, AddProvider
  <2>4. log' = Append(log, rec) /\ pend' = pend /\ UNCHANGED <<flushed, ckpt, at, env>>
    BY <1>3, <2>1 DEF AddProvider
  <2> QED BY <2>2, <2>3, <2>4, AppendLog, TypeParts DEF TypeInv
<1> QED BY <1>1, <1>2, <1>3

\* A change that begins with the file.
LEMMA LogBegun ==
    ASSUME TypeInv, (\E o \in Oid, k \in PKey : RotateKey(o, k)) \/ Install
    PROVE  LogType' /\ LogOK'
<1>1. LogType /\ LogOK
  BY TypeParts DEF TypeInv
<1>2. \E rec \in Recs : /\ RecOK(rec) /\ rec.op \in {"rotate", "install"} /\ pend' = rec
                        /\ UNCHANGED <<log, flushed, ckpt, at, env>>
  <2>1. ASSUME NEW o \in Oid, NEW k \in PKey, RotateKey(o, k)
        PROVE  \E rec \in Recs : /\ RecOK(rec) /\ rec.op \in {"rotate", "install"} /\ pend' = rec
                                 /\ UNCHANGED <<log, flushed, ckpt, at, env>>
    <3>1. PICK rec : rec = Rec("rotate", o, k, None, None)
      OBVIOUS
    <3>2. rec \in Recs /\ rec.op = "rotate" /\ rec.oid = o /\ rec.key = k
      BY <3>1, RecFacts DEF Ops
    <3>3. RecOK(rec)
      BY <2>1, <3>2, Names DEF RecOK, RotateKey, Settable
    <3> QED BY <2>1, <3>1, <3>2, <3>3 DEF RotateKey
  <2>2. CASE Install
    <3>1. PICK rec : rec = Rec("install", Db, None, None, None)
      OBVIOUS
    <3>2. rec \in Recs /\ rec.op = "install" /\ rec.oid = Db
      BY <3>1, RecFacts, Names DEF Ops
    <3>3. RecOK(rec)
      BY <2>2, <3>2, Names DEF RecOK, Install
    <3> QED BY <2>2, <3>1, <3>2, <3>3 DEF Install
  <2> QED BY <2>1, <2>2
<1>3. LogType'
  BY <1>1, <1>2 DEF LogType
<1>4. LogOK'
  BY <1>1, <1>2 DEF LogOK, RecOK
<1> QED BY <1>3, <1>4

\* The server moves in the log, or flushes it.
LEMMA LogMoves ==
    ASSUME TypeInv, UNCHANGED <<log, env>>, pend' = pend \/ pend' = None,
           flushed' = flushed \/ flushed' = Len(log),
           ckpt' \in [Server -> 0 .. Len(log)], at' \in [Server -> 0 .. Len(log)]
    PROVE  LogType' /\ LogOK'
<1>1. LogType /\ LogOK /\ Len(log) \in Nat
  BY TypeParts DEF TypeInv, LogType
<1>2. LogType'
  BY <1>1 DEF LogType
<1>3. LogOK'
  BY <1>1 DEF LogOK, RecOK
<1> QED BY <1>2, <1>3

LEMMA LogRedo ==
    ASSUME TypeInv, NEW n \in Server, Redo(n)
    PROVE  LogType' /\ LogOK'
<1>1. /\ at[n] < Limit(n) /\ at' = [at EXCEPT ![n] = @ + 1]
      /\ UNCHANGED <<log, flushed, ckpt, pend, env>>
  BY DEF Redo, Replaying
<1>2. LogType
  BY TypeParts DEF TypeInv
<1>3. at[n] + 1 \in 0 .. Len(log)
  BY <1>1, <1>2 DEF LogType, Limit
<1>4. at' \in [Server -> 0 .. Len(log)] /\ ckpt' \in [Server -> 0 .. Len(log)]
  BY <1>1, <1>2, <1>3 DEF LogType
<1> QED BY <1>1, <1>4, LogMoves

LEMMA LogCheckpoint ==
    ASSUME TypeInv, NEW n \in Server, Checkpoint(n)
    PROVE  LogType' /\ LogOK'
<1>1. /\ ckpt' = [ckpt EXCEPT ![n] = Len(log)] \/ ckpt' = [ckpt EXCEPT ![n] = at[n]]
      /\ flushed' = flushed \/ flushed' = Len(log)
      /\ UNCHANGED <<log, at, pend, env>>
  BY DEF Checkpoint
<1>2. LogType /\ Len(log) \in 0 .. Len(log)
  BY TypeParts DEF TypeInv, LogType
<1>3. ckpt' \in [Server -> 0 .. Len(log)] /\ at' \in [Server -> 0 .. Len(log)]
  BY <1>1, <1>2 DEF LogType
<1> QED BY <1>1, <1>3, LogMoves

LEMMA LogStartBackup ==
    ASSUME TypeInv, StartBackup
    PROVE  LogType' /\ LogOK'
<1>1. /\ ckpt' = [ckpt EXCEPT ![Standby] = Len(log)] /\ at' = [at EXCEPT ![Standby] = Len(log)]
      /\ flushed' = Len(log) /\ UNCHANGED <<log, pend, env>>
  BY DEF StartBackup
<1>2. LogType /\ Len(log) \in 0 .. Len(log)
  BY TypeParts DEF TypeInv, LogType
<1>3. ckpt' \in [Server -> 0 .. Len(log)] /\ at' \in [Server -> 0 .. Len(log)]
  BY <1>1, <1>2 DEF LogType
<1> QED BY <1>1, <1>3, LogMoves

\* A crash of the primary cuts the log where it is flushed; nobody has gone
\* further.
LEMMA CrashLog ==
    ASSUME TypeInv, NEW n \in Server, Crash(n)
    PROVE  /\ Len(log') \in Nat /\ flushed \in 0 .. Len(log') /\ Len(log') <= Len(log)
           /\ \A i \in 1 .. Len(log') : log'[i] = log[i]
           /\ n = Primary => Len(log') = flushed
           /\ n = Standby => log' = log
           /\ log' \in Seq(Recs)
<1>1. LogType /\ log \in Seq(Recs) /\ flushed \in 0 .. Len(log) /\ flushed \in Nat
  BY TypeParts DEF TypeInv, LogType
<1>2. CASE n = Standby
  BY <1>1, <1>2, Names DEF Crash
<1>3. CASE n = Primary
  <2>1. log' = SubSeq(log, 1, flushed)
    BY <1>3, Names DEF Crash
  <2>2. /\ log' \in Seq(Recs) /\ Len(log') = flushed
        /\ \A i \in 1 .. flushed : log'[i] = log[i]
    BY <1>1, <2>1
  <2> QED BY <1>1, <1>3, <2>2, Names
<1> QED BY <1>2, <1>3, Names

LEMMA LogCrash ==
    ASSUME TypeInv, NEW n \in Server, Crash(n)
    PROVE  LogType' /\ LogOK'
<1>1. LogType /\ LogOK /\ \A m \in Server : ckpt[m] <= flushed /\ at[m] <= flushed
  BY TypeParts DEF TypeInv, ModeOK
<1>2. /\ Len(log') \in Nat /\ flushed \in 0 .. Len(log') /\ Len(log') <= Len(log)
      /\ \A i \in 1 .. Len(log') : log'[i] = log[i]
      /\ log' \in Seq(Recs)
  BY CrashLog
<1>3. /\ UNCHANGED <<flushed, ckpt, env>> /\ at' = [at EXCEPT ![n] = ckpt[n]]
      /\ pend' = pend \/ pend' = None
  BY DEF Crash
<1>4. \A m \in Server : ckpt[m] \in 0 .. Len(log') /\ at[m] \in 0 .. Len(log')
  BY <1>1, <1>2 DEF LogType
<1>5. ckpt' \in [Server -> 0 .. Len(log')] /\ at' \in [Server -> 0 .. Len(log')]
  BY <1>1, <1>3, <1>4 DEF LogType
<1>6. LogType'
  BY <1>1, <1>2, <1>3, <1>5 DEF LogType
<1>7. \A i \in 1 .. Len(log') : i \in 1 .. Len(log)
  BY <1>1, <1>2 DEF LogType
<1>8. LogOK'
  BY <1>1, <1>2, <1>3, <1>7 DEF LogOK, RecOK
<1> QED BY <1>6, <1>8

LEMMA LogNext ==
    ASSUME TypeInv, Next
    PROVE  LogType' /\ LogOK'
<1>1. LogType /\ LogOK /\ Len(log) \in Nat
      /\ ckpt \in [Server -> 0 .. Len(log)] /\ at \in [Server -> 0 .. Len(log)]
  BY TypeParts DEF TypeInv, LogType
<1>2. CASE \E o \in Oid, k \in PKey : SetKey(o, k) \/ RotateKey(o, k)
  BY <1>2, LogSetKey, LogBegun
<1>3. CASE WriteHeader \/ UnlinkFile \/ FreeEntry \/ \E r \in Rel : CreateRel(r)
  <2>1. UNCHANGED <<log, flushed, ckpt, at, env>> /\ (pend' = pend \/ pend' = None)
    BY <1>3 DEF WriteHeader, UnlinkFile, FreeEntry, CreateRel
  <2> QED BY <1>1, <2>1, SameLog
<1>4. CASE LogRotate \/ CleanUp
  BY <1>4, LogPending
<1>5. CASE \E o \in Oid : DeleteKey(o)
  BY <1>5, LogDeleteKey
<1>6. CASE \E r \in Rel : CommitRel(r) \/ DropRel(r)
  BY <1>6, LogCommitRel, LogDropRel
<1>7. CASE \/ \E r \in Rel : CreatePlain(r)
           \/ \E v \in Prov : DeleteProvider(v) \/ AddProvider(v)
  BY <1>7, LogOthers
<1>8. CASE Install
  BY <1>8, LogBegun
<1>9. CASE Flush \/ EndBackup
  <2>1. UNCHANGED <<log, ckpt, at, env, pend>> /\ flushed' = Len(log)
    BY <1>9 DEF Flush, EndBackup
  <2> QED BY <1>1, <2>1, LogMoves
<1>10. CASE \E n \in Server : Redo(n) \/ Checkpoint(n) \/ Crash(n)
  BY <1>10, LogRedo, LogCheckpoint, LogCrash
<1>11. CASE (\E n \in Server : RedoFails(n)) \/ EndRecovery \/ \E f \in Files : ReceiveFile(f)
  <2>1. UNCHANGED <<log, flushed, ckpt, at, env, pend>>
    BY <1>11 DEF RedoFails, EndRecovery, ReceiveFile
  <2> QED BY <1>1, <2>1, SameLog
<1>12. CASE StartBackup
  BY <1>12, LogStartBackup
<1> QED BY <1>2, <1>3, <1>4, <1>5, <1>6, <1>7, <1>8, <1>9, <1>10, <1>11, <1>12 DEF Next

-----------------------------------------------------------------------------
(* The types of files and caches.                                          *)

MaybeKey == PKey \cup {None}

LEMMA KeyTypes ==
    ASSUME FileType, NEW n \in Server
    PROVE  /\ \A o \in Oid : Key(n, o) \in MaybeKey /\ hdr[n][o] \in MaybeKey /\ cache[n][o] \in MaybeKey
           /\ Effective(n) \in MaybeKey
           /\ \A r \in Rel : ents[n][r] \in MaybeKey
BY Names DEF FileType, Key, Effective, MaybeKey

\* What each way to change the files of a server leaves in them.
LEMMA Saved ==
    ASSUME FileType, NEW n \in Server, NEW r \in Rel, NEW replace \in BOOLEAN,
           SaveSmgrKey(n, r, replace)
    PROVE  /\ cache' \in [Server -> [Oid -> MaybeKey]] /\ hdr' \in [Server -> [Oid -> MaybeKey]]
           /\ ents' \in [Server -> [Rel -> MaybeKey]]
           /\ \A m \in Server : m # n => cache'[m] = cache[m] /\ hdr'[m] = hdr[m] /\ ents'[m] = ents[m]
           /\ cache'[n][Db] = Effective(n)
           /\ cache'[n][Default] = cache[n][Default]
              \/ (Key(n, Db) = None /\ cache'[n][Default] = Key(n, Default))
           /\ hdr'[n][Db] = IF hdr[n][Db] = None THEN Effective(n) ELSE hdr[n][Db]
           /\ hdr'[n][Default] = hdr[n][Default]
           /\ ents'[n][r] = Effective(n) \/ (ents'[n][r] = ents[n][r] /\ ents[n][r] # None)
           /\ \A s \in Rel : s # r => ents'[n][s] = ents[n][s]
<1>1. PICK k \in MaybeKey : k = Effective(n)
  BY KeyTypes
<1>2. PICK c \in [Oid -> MaybeKey] :
          /\ c = [o \in Oid |-> IF o = Db THEN k
                                ELSE IF Key(n, Db) = None THEN Key(n, Default)
                                ELSE cache[n][o]]
  <2>1. \A o \in Oid : (IF o = Db THEN k ELSE IF Key(n, Db) = None THEN Key(n, Default)
                                ELSE cache[n][o]) \in MaybeKey
    BY <1>1, KeyTypes, Names
  <2> QED BY <2>1
<1>3. /\ cache' = [cache EXCEPT ![n] = c]
      /\ hdr' = [hdr EXCEPT ![n][Db] = IF @ = None THEN k ELSE @]
      /\ ents' = [ents EXCEPT ![n][r] = IF replace \/ @ = None THEN k ELSE @]
  BY <1>1, <1>2 DEF SaveSmgrKey
<1>4. /\ cache \in [Server -> [Oid -> MaybeKey]] /\ hdr \in [Server -> [Oid -> MaybeKey]]
      /\ ents \in [Server -> [Rel -> MaybeKey]]
  BY DEF FileType, MaybeKey
<1>5. /\ cache' \in [Server -> [Oid -> MaybeKey]] /\ cache'[n] = c
      /\ \A m \in Server : m # n => cache'[m] = cache[m]
  BY <1>3, <1>4
<1>6. /\ c[Db] = k
      /\ c[Default] = cache[n][Default] \/ (Key(n, Db) = None /\ c[Default] = Key(n, Default))
  BY <1>2, Names
<1>7. /\ hdr' \in [Server -> [Oid -> MaybeKey]]
      /\ \A m \in Server : m # n => hdr'[m] = hdr[m]
      /\ hdr'[n][Db] = IF hdr[n][Db] = None THEN k ELSE hdr[n][Db]
      /\ hdr'[n][Default] = hdr[n][Default]
  BY <1>3, <1>4, Names
<1>8. PICK e \in MaybeKey : e = IF replace \/ ents[n][r] = None THEN k ELSE ents[n][r]
  BY <1>1, <1>4
<1>9. ents' = [ents EXCEPT ![n][r] = e]
  BY <1>3, <1>8
<1>10. /\ ents' \in [Server -> [Rel -> MaybeKey]] /\ ents'[n][r] = e
       /\ \A m \in Server : m # n => ents'[m] = ents[m]
       /\ \A s \in Rel : s # r => ents'[n][s] = ents[n][s]
  BY <1>4, <1>9
<1> QED BY <1>1, <1>5, <1>6, <1>7, <1>8, <1>10

LEMMA Rotated ==
    ASSUME FileType, NEW n \in Server, NEW o \in Oid, NEW k \in PKey, RotateFile(n, o, k)
    PROVE  /\ cache' \in [Server -> [Oid -> MaybeKey]] /\ hdr' \in [Server -> [Oid -> MaybeKey]]
           /\ ents' \in [Server -> [Rel -> MaybeKey]]
           /\ \A m \in Server : m # n => cache'[m] = cache[m] /\ hdr'[m] = hdr[m] /\ ents'[m] = ents[m]
           /\ cache'[n][o] = k /\ hdr'[n][o] = k
           /\ \A p \in Oid : p # o => cache'[n][p] = cache[n][p] /\ hdr'[n][p] = hdr[n][p]
           /\ o # Db => ents' = ents
           /\ o = Db => \A r \in Rel : ents'[n][r] = IF ents[n][r] = None THEN None ELSE k
<1>1. /\ cache \in [Server -> [Oid -> MaybeKey]] /\ hdr \in [Server -> [Oid -> MaybeKey]]
      /\ ents \in [Server -> [Rel -> MaybeKey]] /\ k \in MaybeKey /\ None \in MaybeKey
  BY DEF FileType, MaybeKey
<1>2. /\ hdr' = [hdr EXCEPT ![n][o] = k] /\ cache' = [cache EXCEPT ![n][o] = k]
      /\ o # Db => ents' = ents
  BY DEF RotateFile
<1>3. /\ cache' \in [Server -> [Oid -> MaybeKey]] /\ hdr' \in [Server -> [Oid -> MaybeKey]]
      /\ \A m \in Server : m # n => cache'[m] = cache[m] /\ hdr'[m] = hdr[m]
      /\ cache'[n][o] = k /\ hdr'[n][o] = k
      /\ \A p \in Oid : p # o => cache'[n][p] = cache[n][p] /\ hdr'[n][p] = hdr[n][p]
  BY <1>1, <1>2
<1>4. PICK e : e = [r \in Rel |-> IF ents[n][r] = None THEN None ELSE k]
  OBVIOUS
<1>5. e \in [Rel -> MaybeKey] /\ \A r \in Rel : e[r] = IF ents[n][r] = None THEN None ELSE k
  BY <1>1, <1>4
<1>6. o = Db => ents' = [ents EXCEPT ![n] = e]
  BY <1>4 DEF RotateFile
<1>7. /\ ents' \in [Server -> [Rel -> MaybeKey]]
      /\ \A m \in Server : m # n => ents'[m] = ents[m]
      /\ o = Db => ents'[n] = e
  BY <1>1, <1>2, <1>5, <1>6
<1> QED BY <1>2, <1>3, <1>5, <1>7

\* A header is written into a file that has no entries after it.
LEMMA Unlinked ==
    ASSUME FileType, NEW n \in Server, NEW o \in Oid, NEW k \in MaybeKey,
           hdr' = [hdr EXCEPT ![n][o] = k],
           ents' = IF o = Db THEN [ents EXCEPT ![n] = [r \in Rel |-> None]] ELSE ents
    PROVE  /\ hdr' \in [Server -> [Oid -> MaybeKey]] /\ ents' \in [Server -> [Rel -> MaybeKey]]
           /\ \A m \in Server : m # n => hdr'[m] = hdr[m] /\ ents'[m] = ents[m]
           /\ hdr'[n][o] = k /\ \A p \in Oid : p # o => hdr'[n][p] = hdr[n][p]
           /\ o # Db => ents' = ents
           /\ o = Db => \A r \in Rel : ents'[n][r] = None
<1>1. /\ hdr \in [Server -> [Oid -> MaybeKey]] /\ ents \in [Server -> [Rel -> MaybeKey]]
      /\ None \in MaybeKey
  BY DEF FileType, MaybeKey
<1>2. /\ hdr' \in [Server -> [Oid -> MaybeKey]]
      /\ \A m \in Server : m # n => hdr'[m] = hdr[m]
      /\ hdr'[n][o] = k /\ \A p \in Oid : p # o => hdr'[n][p] = hdr[n][p]
  BY <1>1
<1>3. PICK e \in [Rel -> MaybeKey] : e = [r \in Rel |-> None]
  BY <1>1
<1>4. ents' = ents \/ ents' = [ents EXCEPT ![n] = e]
  BY <1>3
<1>5. /\ ents' \in [Server -> [Rel -> MaybeKey]]
      /\ \A m \in Server : m # n => ents'[m] = ents[m]
  BY <1>1, <1>4
<1>6. o = Db => \A r \in Rel : ents'[n][r] = None
  <2> SUFFICES ASSUME o = Db, NEW r \in Rel PROVE ents'[n][r] = None
    OBVIOUS
  <2>1. ents' = [ents EXCEPT ![n] = e]
    BY <1>3
  <2> QED BY <1>1, <1>3, <2>1
<1> QED BY <1>2, <1>5, <1>6

LEMMA Cached ==
    ASSUME FileType, NEW n \in Server, NEW o \in Oid, NEW k \in MaybeKey,
           cache' = [cache EXCEPT ![n][o] = k]
    PROVE  /\ cache' \in [Server -> [Oid -> MaybeKey]]
           /\ \A m \in Server : m # n => cache'[m] = cache[m]
           /\ cache'[n][o] = k /\ \A p \in Oid : p # o => cache'[n][p] = cache[n][p]
BY DEF FileType, MaybeKey

LEMMA Freed ==
    ASSUME FileType, NEW n \in Server, NEW r \in Rel, ents' = [ents EXCEPT ![n][r] = None]
    PROVE  /\ ents' \in [Server -> [Rel -> MaybeKey]]
           /\ \A m \in Server : m # n => ents'[m] = ents[m]
           /\ ents'[n][r] = None /\ \A s \in Rel : s # r => ents'[n][s] = ents[n][s]
BY DEF FileType, MaybeKey

-----------------------------------------------------------------------------
(* The files of both servers stay in order.                                *)

FilesOK ==
    /\ hdr \in [Server -> [Oid -> MaybeKey]] /\ ents \in [Server -> [Rel -> MaybeKey]]
    /\ cache \in [Server -> [Oid -> MaybeKey]] /\ provs \in [Server -> SUBSET Prov]
    /\ FileInv

\* The server a step does not touch.
LEMMA OtherServer ==
    ASSUME FileInv, NEW m \in Server, hdr'[m] = hdr[m], ents'[m] = ents[m], cache'[m] = cache[m],
           provs'[m] = provs[m], env' = env
    PROVE  ServerOK(m)'
BY DEF FileInv, ServerOK, NoEntries, Simple

LEMMA OneServer ==
    ASSUME FileInv, NEW n \in Server, ServerOK(n)', env' = env,
           \A m \in Server : m # n => /\ hdr'[m] = hdr[m] /\ ents'[m] = ents[m]
                                      /\ cache'[m] = cache[m] /\ provs'[m] = provs[m],
           hdr' \in [Server -> [Oid -> MaybeKey]], ents' \in [Server -> [Rel -> MaybeKey]],
           cache' \in [Server -> [Oid -> MaybeKey]], provs' \in [Server -> SUBSET Prov]
    PROVE  FilesOK'
<1>1. \A m \in Server : ServerOK(m)'
  BY OtherServer
<1> QED BY <1>1 DEF FilesOK, FileInv, MaybeKey

LEMMA SaveOK ==
    ASSUME FileType, FileInv, NEW n \in Server, NEW r \in Rel, NEW replace \in BOOLEAN,
           SaveSmgrKey(n, r, replace), Effective(n) # None, UNCHANGED <<provs, env>>
    PROVE  FilesOK'
<1>1. /\ cache' \in [Server -> [Oid -> MaybeKey]] /\ hdr' \in [Server -> [Oid -> MaybeKey]]
      /\ ents' \in [Server -> [Rel -> MaybeKey]]
      /\ \A m \in Server : m # n => cache'[m] = cache[m] /\ hdr'[m] = hdr[m] /\ ents'[m] = ents[m]
      /\ cache'[n][Db] = Effective(n)
      /\ cache'[n][Default] = cache[n][Default]
         \/ (Key(n, Db) = None /\ cache'[n][Default] = Key(n, Default))
      /\ hdr'[n][Db] = IF hdr[n][Db] = None THEN Effective(n) ELSE hdr[n][Db]
      /\ hdr'[n][Default] = hdr[n][Default]
      /\ ents'[n][r] = Effective(n) \/ (ents'[n][r] = ents[n][r] /\ ents[n][r] # None)
      /\ \A s \in Rel : s # r => ents'[n][s] = ents[n][s]
  BY Saved
<1>2. ServerOK(n)
  BY DEF FileInv
<1>3. hdr'[n][Db] # None
  BY <1>1
<1>4. env.delete = {} => Effective(n) = hdr'[n][Db]
  BY <1>1, <1>2, Names DEF ServerOK, Effective, Key
<1>5. env.delete = {} => \A o \in Oid : cache'[n][o] \in {None, hdr'[n][o]}
  <2> SUFFICES ASSUME env.delete = {}
               PROVE  cache'[n][Db] \in {None, hdr'[n][Db]}
                      /\ cache'[n][Default] \in {None, hdr'[n][Default]}
    BY Names
  <2>1. cache[n][Default] \in {None, hdr[n][Default]}
    BY <1>2, Names DEF ServerOK
  <2> QED BY <1>1, <1>4, <2>1 DEF Key
<1>6. env.delete = {} => \A s \in Rel : ents'[n][s] \in {None, hdr'[n][Db]}
  <2> SUFFICES ASSUME env.delete = {}, NEW s \in Rel
               PROVE  ents'[n][s] \in {None, hdr'[n][Db]}
    OBVIOUS
  <2>1. ents[n][s] \in {None, hdr[n][Db]}
    BY <1>2 DEF ServerOK
  <2>2. ents[n][s] \in {None, hdr'[n][Db]}
    BY <1>1, <2>1
  <2> QED BY <1>1, <1>4, <2>2
<1>7. env.default = {} => hdr'[n][Default] = None /\ cache'[n][Default] = None
  BY <1>1, <1>2 DEF ServerOK, Key
<1>8. ServerOK(n)'
  BY <1>2, <1>3, <1>5, <1>6, <1>7 DEF ServerOK, Simple, NoEntries
<1>9. provs' \in [Server -> SUBSET Prov]
  BY DEF FileType
<1> QED BY <1>1, <1>8, <1>9, OneServer

LEMMA RotateOK ==
    ASSUME FileType, FileInv, NEW n \in Server, NEW o \in Oid, NEW k \in PKey,
           RotateFile(n, o, k), o = Default => env.default # {}, UNCHANGED <<provs, env>>
    PROVE  FilesOK'
<1>1. /\ cache' \in [Server -> [Oid -> MaybeKey]] /\ hdr' \in [Server -> [Oid -> MaybeKey]]
      /\ ents' \in [Server -> [Rel -> MaybeKey]]
      /\ \A m \in Server : m # n => cache'[m] = cache[m] /\ hdr'[m] = hdr[m] /\ ents'[m] = ents[m]
      /\ cache'[n][o] = k /\ hdr'[n][o] = k
      /\ \A p \in Oid : p # o => cache'[n][p] = cache[n][p] /\ hdr'[n][p] = hdr[n][p]
      /\ o # Db => ents' = ents
      /\ o = Db => \A r \in Rel : ents'[n][r] = IF ents[n][r] = None THEN None ELSE k
  BY Rotated
<1>2. ServerOK(n)
  BY DEF FileInv
<1>3. hdr'[n][Db] = None => \A r \in Rel : ents'[n][r] = None
  BY <1>1, <1>2, Names DEF ServerOK, NoEntries
<1>4. env.delete = {} => \A p \in Oid : cache'[n][p] \in {None, hdr'[n][p]}
  BY <1>1, <1>2 DEF ServerOK
<1>5. env.delete = {} => \A s \in Rel : ents'[n][s] \in {None, hdr'[n][Db]}
  BY <1>1, <1>2, Names DEF ServerOK
<1>6. env.default = {} => hdr'[n][Default] = None /\ cache'[n][Default] = None
  BY <1>1, <1>2, Names DEF ServerOK
<1>7. ServerOK(n)'
  BY <1>2, <1>3, <1>4, <1>5, <1>6 DEF ServerOK, Simple, NoEntries
<1>8. provs' \in [Server -> SUBSET Prov]
  BY DEF FileType
<1> QED BY <1>1, <1>7, <1>8, OneServer

\* A file without entries is written: with a header and cached key, or with none
\* (k = None), where the cached key may stay if keys are deleted at all.
LEMMA HeaderOK ==
    ASSUME FileType, FileInv, NEW n \in Server, NEW o \in Oid, NEW k \in MaybeKey,
           hdr' = [hdr EXCEPT ![n][o] = k],
           ents' = IF o = Db THEN [ents EXCEPT ![n] = [r \in Rel |-> None]] ELSE ents,
           cache' = [cache EXCEPT ![n][o] = k] \/ (cache' = cache /\ k = None /\ env.delete # {}),
           o = Default => env.default # {} \/ k = None,
           provs' = provs \/ (~Simple /\ provs' \in [Server -> SUBSET Prov]
                              /\ \A m \in Server : m # n => provs'[m] = provs[m]),
           env' = env
    PROVE  FilesOK'
<1>1. /\ hdr' \in [Server -> [Oid -> MaybeKey]] /\ ents' \in [Server -> [Rel -> MaybeKey]]
      /\ \A m \in Server : m # n => hdr'[m] = hdr[m] /\ ents'[m] = ents[m]
      /\ hdr'[n][o] = k /\ \A p \in Oid : p # o => hdr'[n][p] = hdr[n][p]
      /\ o # Db => ents' = ents
      /\ o = Db => \A r \in Rel : ents'[n][r] = None
  BY Unlinked
<1>2. /\ cache' \in [Server -> [Oid -> MaybeKey]]
      /\ \A m \in Server : m # n => cache'[m] = cache[m]
      /\ \A p \in Oid : p # o => cache'[n][p] = cache[n][p]
      /\ cache'[n][o] = k \/ (cache'[n][o] = cache[n][o] /\ k = None /\ env.delete # {})
  <2>1. CASE cache' = [cache EXCEPT ![n][o] = k]
    BY <2>1, Cached, ZenonT(40)
  <2>2. CASE cache' = cache /\ k = None /\ env.delete # {}
    BY <2>2 DEF FileType, MaybeKey
  <2> QED BY <2>1, <2>2
<1>3. ServerOK(n)
  BY DEF FileInv
<1>4. hdr'[n][Db] = None => \A r \in Rel : ents'[n][r] = None
  BY <1>1, <1>3, Names DEF ServerOK, NoEntries
<1>5. env.delete = {} => \A p \in Oid : cache'[n][p] \in {None, hdr'[n][p]}
  BY <1>1, <1>2, <1>3 DEF ServerOK
<1>6. env.delete = {} => \A s \in Rel : ents'[n][s] \in {None, hdr'[n][Db]}
  BY <1>1, <1>3, Names DEF ServerOK
<1>7. env.default = {} => hdr'[n][Default] = None /\ cache'[n][Default] = None
  BY <1>1, <1>2, <1>3, Names DEF ServerOK
<1>8. Simple => provs'[n] = Prov
  BY <1>3 DEF ServerOK
<1>9. ServerOK(n)'
  BY <1>4, <1>5, <1>6, <1>7, <1>8 DEF ServerOK, Simple, NoEntries
<1>10. provs' \in [Server -> SUBSET Prov] /\ \A m \in Server : m # n => provs'[m] = provs[m]
  BY DEF FileType
<1> QED BY <1>1, <1>2, <1>9, <1>10, OneServer

LEMMA RedoAddOK ==
    ASSUME FileType, FileInv, NEW n \in Server, NEW o \in Oid, NEW k \in PKey,
           hdr' = [hdr EXCEPT ![n][o] = IF @ = None THEN k ELSE @],
           o = Default => env.default # {}, UNCHANGED <<ents, cache, provs, env>>
    PROVE  FilesOK'
<1>1. hdr \in [Server -> [Oid -> MaybeKey]] /\ k \in MaybeKey
  BY DEF FileType, MaybeKey
<1>2. /\ hdr' \in [Server -> [Oid -> MaybeKey]]
      /\ \A m \in Server : m # n => hdr'[m] = hdr[m]
      /\ hdr'[n][o] = IF hdr[n][o] = None THEN k ELSE hdr[n][o]
      /\ \A p \in Oid : p # o => hdr'[n][p] = hdr[n][p]
  BY <1>1
<1>3. ServerOK(n)
  BY DEF FileInv
<1>4. hdr'[n][Db] = None => \A r \in Rel : ents'[n][r] = None
  BY <1>2, <1>3, Names DEF ServerOK, NoEntries
<1>5. env.delete = {} => \A p \in Oid : cache'[n][p] \in {None, hdr'[n][p]}
  BY <1>2, <1>3 DEF ServerOK
<1>6. env.delete = {} => \A s \in Rel : ents'[n][s] \in {None, hdr'[n][Db]}
  BY <1>2, <1>3, Names DEF ServerOK
<1>7. env.default = {} => hdr'[n][Default] = None /\ cache'[n][Default] = None
  BY <1>2, <1>3, Names DEF ServerOK
<1>8. ServerOK(n)'
  BY <1>3, <1>4, <1>5, <1>6, <1>7 DEF ServerOK, Simple, NoEntries
<1>9. /\ ents' \in [Server -> [Rel -> MaybeKey]] /\ cache' \in [Server -> [Oid -> MaybeKey]]
      /\ provs' \in [Server -> SUBSET Prov]
  BY DEF FileType, MaybeKey
<1> QED BY <1>2, <1>8, <1>9, OneServer

LEMMA FreeOK ==
    ASSUME FileType, FileInv, NEW n \in Server, NEW r \in Rel,
           ents' = [ents EXCEPT ![n][r] = None], UNCHANGED <<hdr, cache, provs, env>>
    PROVE  FilesOK'
<1>1. /\ ents' \in [Server -> [Rel -> MaybeKey]]
      /\ \A m \in Server : m # n => ents'[m] = ents[m]
      /\ ents'[n][r] = None /\ \A s \in Rel : s # r => ents'[n][s] = ents[n][s]
  BY Freed
<1>2. ServerOK(n)
  BY DEF FileInv
<1>3. ServerOK(n)'
  BY <1>1, <1>2 DEF ServerOK, Simple, NoEntries
<1>4. /\ hdr' \in [Server -> [Oid -> MaybeKey]] /\ cache' \in [Server -> [Oid -> MaybeKey]]
      /\ provs' \in [Server -> SUBSET Prov]
  BY DEF FileType, MaybeKey
<1> QED BY <1>1, <1>3, <1>4, OneServer

LEMMA ProvsOK ==
    ASSUME FileType, FileInv, NEW n \in Server, NEW ps \in SUBSET Prov,
           provs' = [provs EXCEPT ![n] = ps], ~Simple, UNCHANGED <<hdr, ents, cache, env>>
    PROVE  FilesOK'
<1>1. provs' \in [Server -> SUBSET Prov] /\ \A m \in Server : m # n => provs'[m] = provs[m]
  BY DEF FileType
<1>2. ServerOK(n)
  BY DEF FileInv
<1>3. ServerOK(n)'
  BY <1>1, <1>2 DEF ServerOK, Simple, NoEntries
<1>4. /\ hdr' \in [Server -> [Oid -> MaybeKey]] /\ cache' \in [Server -> [Oid -> MaybeKey]]
      /\ ents' \in [Server -> [Rel -> MaybeKey]]
  BY DEF FileType, MaybeKey
<1> QED BY <1>1, <1>3, <1>4, OneServer

LEMMA SameOK ==
    ASSUME FileType, FileInv, UNCHANGED <<hdr, ents, cache, provs, env>>
    PROVE  FilesOK'
<1>1. \A m \in Server : ServerOK(m)'
  BY OtherServer
<1> QED BY <1>1 DEF FilesOK, FileInv, FileType, MaybeKey

\* The record a server replays next.
LEMMA NextRecord ==
    ASSUME TypeInv, NEW n \in Server, Replaying(n)
    PROVE  /\ at[n] + 1 \in 1 .. Len(log)
           /\ log[at[n] + 1] \in Recs /\ RecOK(log[at[n] + 1])
<1>1. LogType /\ LogOK /\ at[n] < Limit(n)
  BY TypeParts DEF TypeInv, Replaying
<1>2. at[n] + 1 \in 1 .. Len(log)
  BY <1>1 DEF LogType, Limit
<1> QED BY <1>1, <1>2 DEF LogType, LogOK

LEMMA FilesRedo ==
    ASSUME TypeInv, FileInv, NEW n \in Server, Redo(n)
    PROVE  FilesOK'
<1>1. PICK rec : rec = log[at[n] + 1]
  OBVIOUS
<1>2. rec \in Recs /\ RecOK(rec) /\ FileType
  BY <1>1, NextRecord, TypeParts DEF TypeInv, Redo
<1>3. /\ env' = env
      /\ \/ rec.op = "add" /\ RedoAdd(n, rec)
         \/ rec.op = "delete" /\ RedoDelete(n, rec)
         \/ rec.op = "rotate" /\ CanRotate(n, rec) /\ RedoRotate(n, rec)
         \/ rec.op = "create" /\ CanCreate(n) /\ RedoCreate(n, rec)
         \/ rec.op \in {"drop", "leftover"} /\ RedoDrop(n, rec)
         \/ rec.op = "provider" /\ RedoProvider(n, rec)
         \/ rec.op = "addprovider" /\ RedoAddProvider(n, rec)
         \/ rec.op = "install" /\ RedoInstall(n, rec)
  BY <1>1 DEF Redo
<1>4. CASE rec.op = "add" /\ RedoAdd(n, rec)
  <2>1. /\ rec.oid \in Oid /\ rec.key \in PKey /\ (rec.oid = Default => env.default # {})
        /\ hdr' = [hdr EXCEPT ![n][rec.oid] = IF @ = None THEN rec.key ELSE @]
        /\ UNCHANGED <<ents, cache, provs>>
    BY <1>2, <1>4 DEF RecOK, RedoAdd
  <2> QED BY <1>2, <1>3, <2>1, RedoAddOK
<1>5. CASE rec.op = "delete" /\ RedoDelete(n, rec)
  <2>1. /\ rec.oid \in Oid /\ env.delete # {} /\ None \in MaybeKey
        /\ hdr' = [hdr EXCEPT ![n][rec.oid] = None]
        /\ ents' = IF rec.oid = Db THEN [ents EXCEPT ![n] = [r \in Rel |-> None]] ELSE ents
        /\ UNCHANGED <<cache, provs>>
    BY <1>2, <1>5 DEF RecOK, RedoDelete, Unlink, MaybeKey
  <2> QED BY <1>2, <1>3, <2>1, HeaderOK
<1>6. CASE rec.op = "rotate" /\ RedoRotate(n, rec)
  <2>1. /\ rec.oid \in Oid /\ rec.key \in PKey /\ (rec.oid = Default => env.default # {})
        /\ RotateFile(n, rec.oid, rec.key) /\ UNCHANGED provs
    BY <1>2, <1>6 DEF RecOK, RedoRotate
  <2> QED BY <1>2, <1>3, <2>1, RotateOK
<1>7. CASE rec.op = "create" /\ CanCreate(n) /\ RedoCreate(n, rec)
  <2>1. /\ rec.rel \in Rel /\ SaveSmgrKey(n, rec.rel, FALSE) /\ Effective(n) # None
        /\ UNCHANGED provs
    BY <1>2, <1>7 DEF RecOK, RedoCreate, CanCreate
  <2> QED BY <1>2, <1>3, <2>1, SaveOK
<1>8. CASE rec.op \in {"drop", "leftover"} /\ RedoDrop(n, rec)
  <2>1. /\ rec.rel \in Rel /\ ents' = [ents EXCEPT ![n][rec.rel] = None]
        /\ UNCHANGED <<hdr, cache, provs>>
    BY <1>2, <1>8 DEF RecOK, RedoDrop
  <2> QED BY <1>2, <1>3, <2>1, FreeOK
<1>9. CASE rec.op = "provider" /\ RedoProvider(n, rec)
  <2>1. /\ ~Simple /\ provs' = [provs EXCEPT ![n] = provs[n] \ {rec.prov}]
        /\ provs[n] \ {rec.prov} \in SUBSET Prov
        /\ UNCHANGED <<hdr, ents, cache>>
    BY <1>2, <1>9 DEF RecOK, RedoProvider, Simple, FileType
  <2> QED BY <1>2, <1>3, <2>1, ProvsOK
<1>10. CASE rec.op = "addprovider" /\ RedoAddProvider(n, rec)
  <2>1. /\ ~Simple /\ provs' = [provs EXCEPT ![n] = provs[n] \cup {rec.prov}]
        /\ provs[n] \cup {rec.prov} \in SUBSET Prov
        /\ UNCHANGED <<hdr, ents, cache>>
    BY <1>2, <1>10 DEF RecOK, RedoAddProvider, Simple, FileType
  <2> QED BY <1>2, <1>3, <2>1, ProvsOK
<1>11. CASE rec.op = "install" /\ RedoInstall(n, rec)
  <2>1. /\ rec.oid \in Oid /\ ~Simple /\ None \in MaybeKey
        /\ hdr' = [hdr EXCEPT ![n][rec.oid] = None]
        /\ ents' = IF rec.oid = Db THEN [ents EXCEPT ![n] = [r \in Rel |-> None]] ELSE ents
        /\ cache' = [cache EXCEPT ![n][rec.oid] = None]
        /\ provs' = [provs EXCEPT ![n] = provs[n] \ DbProv]
    BY <1>2, <1>11 DEF RecOK, RedoInstall, Unlink, ClearKey, Simple, MaybeKey
  <2>2. provs' \in [Server -> SUBSET Prov] /\ \A m \in Server : m # n => provs'[m] = provs[m]
    BY <1>2, <2>1 DEF FileType
  <2> QED BY <1>2, <1>3, <2>1, <2>2, HeaderOK
<1> QED BY <1>3, <1>4, <1>5, <1>6, <1>7, <1>8, <1>9, <1>10, <1>11

\* A copy of a file of the primary, on a standby that has cached nothing yet.
LEMMA FilesReceive ==
    ASSUME TypeInv, FileInv, NEW f \in Files, ReceiveFile(f)
    PROVE  FilesOK'
<1>1. FileType /\ ModeOK /\ ServerOK(Primary) /\ ServerOK(Standby)
  BY TypeParts, Names DEF TypeInv, FileInv
<1>2. \A o \in Oid : cache[Standby][o] = None
  BY <1>1 DEF ModeOK, ReceiveFile
<1>3. /\ hdr' = IF f \in Oid THEN [hdr EXCEPT ![Standby][f] = hdr[Primary][f]] ELSE hdr
      /\ ents' = IF f = Db THEN [ents EXCEPT ![Standby] = ents[Primary]] ELSE ents
      /\ provs' = IF f = "providers" THEN [provs EXCEPT ![Standby] = provs[Primary]] ELSE provs
      /\ UNCHANGED <<cache, env>>
  BY DEF ReceiveFile
<1>4. /\ hdr \in [Server -> [Oid -> MaybeKey]] /\ ents \in [Server -> [Rel -> MaybeKey]]
      /\ provs \in [Server -> SUBSET Prov] /\ cache' \in [Server -> [Oid -> MaybeKey]]
  BY <1>1, <1>3 DEF FileType, MaybeKey
<1>5. /\ hdr' \in [Server -> [Oid -> MaybeKey]] /\ hdr'[Primary] = hdr[Primary]
      /\ \A o \in Oid : hdr'[Standby][o] = IF f = o THEN hdr[Primary][o] ELSE hdr[Standby][o]
  <2>1. CASE f \in Oid
    BY <1>3, <1>4, <2>1, Names
  <2>2. CASE f \notin Oid
    BY <1>3, <1>4, <2>2, Names
  <2> QED BY <2>1, <2>2
<1>6. /\ ents' \in [Server -> [Rel -> MaybeKey]] /\ ents'[Primary] = ents[Primary]
      /\ ents'[Standby] = IF f = Db THEN ents[Primary] ELSE ents[Standby]
  <2>1. CASE f = Db
    BY <1>3, <1>4, <2>1, Names
  <2>2. CASE f # Db
    BY <1>3, <1>4, <2>2, Names
  <2> QED BY <2>1, <2>2
<1>7. /\ provs' \in [Server -> SUBSET Prov] /\ provs'[Primary] = provs[Primary]
      /\ provs'[Standby] = provs[Primary] \/ provs'[Standby] = provs[Standby]
  <2>1. CASE f = "providers"
    BY <1>3, <1>4, <2>1, Names
  <2>2. CASE f # "providers"
    BY <1>3, <1>4, <2>2, Names
  <2> QED BY <2>1, <2>2
<1>8. hdr'[Standby][Db] = None => \A r \in Rel : ents'[Standby][r] = None
  BY <1>1, <1>5, <1>6, Names DEF ServerOK, NoEntries
<1>9. env.delete = {} => \A r \in Rel : ents'[Standby][r] \in {None, hdr'[Standby][Db]}
  BY <1>1, <1>5, <1>6, Names DEF ServerOK
<1>10. env.default = {} => hdr'[Standby][Default] = None
  BY <1>1, <1>5, Names DEF ServerOK
<1>11. ServerOK(Standby)'
  BY <1>1, <1>2, <1>3, <1>7, <1>8, <1>9, <1>10, Names DEF ServerOK, NoEntries, Simple
<1>12. \A m \in Server : m # Standby => /\ hdr'[m] = hdr[m] /\ ents'[m] = ents[m]
                                        /\ cache'[m] = cache[m] /\ provs'[m] = provs[m]
  BY <1>3, <1>5, <1>6, <1>7, Names
<1> QED BY <1>3, <1>4, <1>5, <1>6, <1>7, <1>11, <1>12, OneServer, Names

\* A crash loses the cache.
LEMMA FilesCrash ==
    ASSUME TypeInv, FileInv, NEW n \in Server, Crash(n)
    PROVE  FilesOK'
<1>1. FileType /\ ServerOK(n) /\ None \in MaybeKey
  BY TypeParts DEF TypeInv, FileInv, MaybeKey
<1>2. PICK e \in [Oid -> MaybeKey] : e = [o \in Oid |-> None]
  BY <1>1
<1>3. cache' = [cache EXCEPT ![n] = e] /\ UNCHANGED <<hdr, ents, provs, env>>
  BY <1>2 DEF Crash
<1>4. /\ cache' \in [Server -> [Oid -> MaybeKey]] /\ \A o \in Oid : cache'[n][o] = None
      /\ \A m \in Server : m # n => cache'[m] = cache[m]
  BY <1>1, <1>2, <1>3 DEF FileType, MaybeKey
<1>5. ServerOK(n)'
  BY <1>1, <1>3, <1>4, Names DEF ServerOK, NoEntries, Simple
<1>6. /\ hdr' \in [Server -> [Oid -> MaybeKey]] /\ ents' \in [Server -> [Rel -> MaybeKey]]
      /\ provs' \in [Server -> SUBSET Prov]
  BY <1>1, <1>3 DEF FileType, MaybeKey
<1> QED BY <1>3, <1>4, <1>5, <1>6, OneServer

LEMMA FilesNext ==
    ASSUME TypeInv, FileInv, Next
    PROVE  FilesOK'
<1>1. FileType /\ LogOK /\ None \in MaybeKey /\ Primary \in Server
  BY TypeParts, Names DEF TypeInv, MaybeKey
<1>2. CASE \/ LogRotate \/ Flush \/ EndRecovery \/ StartBackup \/ EndBackup
           \/ \E o \in Oid, k \in PKey : SetKey(o, k)
           \/ \E o \in Oid : DeleteKey(o)
           \/ \E r \in Rel : CommitRel(r) \/ DropRel(r)
           \/ \E n \in Server : RedoFails(n) \/ Checkpoint(n)
  <2>1. UNCHANGED <<hdr, ents, cache, provs, env>>
    BY <1>2 DEF LogRotate, Flush, EndRecovery, StartBackup, EndBackup, SetKey, DeleteKey,
                CommitRel, DropRel, RedoFails, Checkpoint
  <2> QED BY <1>1, <2>1, SameOK
<1>3. ASSUME NEW o \in Oid, NEW k \in PKey, RotateKey(o, k) PROVE FilesOK'
  <2>1. RotateFile(Primary, o, k) /\ (o = Default => env.default # {}) /\ UNCHANGED <<provs, env>>
    BY <1>3 DEF RotateKey, Settable
  <2> QED BY <1>1, <2>1, RotateOK
<1>4. CASE WriteHeader
  <2>1. /\ pend.oid \in Oid /\ pend.key \in PKey /\ (pend.oid = Default => env.default # {})
        /\ hdr' = [hdr EXCEPT ![Primary][pend.oid] = pend.key]
        /\ ents' = IF pend.oid = Db
                   THEN [ents EXCEPT ![Primary] = [r \in Rel |-> None]] ELSE ents
        /\ cache' = [cache EXCEPT ![Primary][pend.oid] = pend.key]
        /\ UNCHANGED <<provs, env>>
    BY <1>1, <1>4 DEF WriteHeader, LogOK, RecOK
  <2>2. pend.key \in MaybeKey
    BY <2>1 DEF MaybeKey
  <2> QED BY <1>1, <2>1, <2>2, HeaderOK
<1>5. CASE UnlinkFile \/ CleanUp
  <2>1. /\ pend.oid \in Oid
        /\ hdr' = [hdr EXCEPT ![Primary][pend.oid] = None]
        /\ ents' = IF pend.oid = Db
                   THEN [ents EXCEPT ![Primary] = [r \in Rel |-> None]] ELSE ents
        /\ cache' = [cache EXCEPT ![Primary][pend.oid] = None]
        /\ UNCHANGED <<provs, env>>
    BY <1>1, <1>5 DEF UnlinkFile, CleanUp, ClearKey, Unlink, LogOK, RecOK
  <2> QED BY <1>1, <2>1, HeaderOK
<1>6. CASE FreeEntry
  <2>1. /\ pend.rel \in Rel /\ ents' = [ents EXCEPT ![Primary][pend.rel] = None]
        /\ UNCHANGED <<hdr, cache, provs, env>>
    BY <1>1, <1>6 DEF FreeEntry, LogOK, RecOK
  <2> QED BY <1>1, <2>1, FreeOK
<1>7. ASSUME NEW r \in Rel, CreateRel(r) PROVE FilesOK'
  <2>1. SaveSmgrKey(Primary, r, TRUE) /\ Effective(Primary) # None /\ UNCHANGED <<provs, env>>
    BY <1>7 DEF CreateRel
  <2> QED BY <1>1, <2>1, SaveOK
<1>8. ASSUME NEW r \in Rel, CreatePlain(r) PROVE FilesOK'
  <2>1. ents' = [ents EXCEPT ![Primary][r] = None] /\ UNCHANGED <<hdr, cache, provs, env>>
    BY <1>8 DEF CreatePlain
  <2> QED BY <1>1, <2>1, FreeOK
<1>9. ASSUME NEW v \in Prov, DeleteProvider(v) \/ AddProvider(v) PROVE FilesOK'
  <2>1. PICK ps \in SUBSET Prov : provs' = [provs EXCEPT ![Primary] = ps]
    <3>1. provs[Primary] \ {v} \in SUBSET Prov /\ provs[Primary] \cup {v} \in SUBSET Prov
      BY <1>1 DEF FileType
    <3> QED BY <1>9, <3>1 DEF DeleteProvider, AddProvider
  <2>2. ~Simple /\ UNCHANGED <<hdr, ents, cache, env>>
    BY <1>9 DEF DeleteProvider, AddProvider, Simple
  <2> QED BY <1>1, <2>1, <2>2, ProvsOK
<1>10. CASE Install
  <2>1. PICK ps \in SUBSET Prov : provs' = [provs EXCEPT ![Primary] = ps]
    <3>1. provs[Primary] \ DbProv \in SUBSET Prov
      BY <1>1 DEF FileType
    <3> QED BY <1>10, <3>1 DEF Install
  <2>2. ~Simple /\ UNCHANGED <<hdr, ents, cache, env>>
    BY <1>10 DEF Install, Simple
  <2> QED BY <1>1, <2>1, <2>2, ProvsOK
<1> QED BY <1>2, <1>3, <1>4, <1>5, <1>6, <1>7, <1>8, <1>9, <1>10, FilesRedo, FilesReceive, FilesCrash
        DEF Next

-----------------------------------------------------------------------------
(* The other types, and the modes.                                         *)

OtherType ==
    /\ mode \in [Server -> {"up", "redo", "failed", "none", "backup"}] /\ left \subseteq Files
    /\ live \subseteq Rel /\ open \subseteq Rel /\ env \in Scenarios

LEMMA OtherNext ==
    ASSUME TypeInv, Next
    PROVE  OtherType'
<1>1. OtherType
  BY TypeParts DEF TypeInv, FileType, OtherType
<1>2. env' = env
  BY DEF Next, SetKey, RotateKey, WriteHeader, LogRotate, DeleteKey, UnlinkFile, CreateRel, CommitRel,
         DropRel, FreeEntry, CreatePlain, DeleteProvider, AddProvider, Install, CleanUp, Flush,
         Redo, RedoFails, Checkpoint, Crash, EndRecovery, StartBackup, ReceiveFile, EndBackup
<1>3. mode' = mode \/ \E n \in Server, s \in {"up", "redo", "failed", "backup"} :
                          mode' = [mode EXCEPT ![n] = s]
  BY Names
     DEF Next, SetKey, RotateKey, WriteHeader, LogRotate, DeleteKey, UnlinkFile, CreateRel, CommitRel,
         DropRel, FreeEntry, CreatePlain, DeleteProvider, AddProvider, Install, CleanUp, Flush,
         Redo, RedoFails, Checkpoint, Crash, EndRecovery, StartBackup, ReceiveFile, EndBackup
<1>4. left' \subseteq left \/ left' = Files
  BY DEF Next, SetKey, RotateKey, WriteHeader, LogRotate, DeleteKey, UnlinkFile, CreateRel, CommitRel,
         DropRel, FreeEntry, CreatePlain, DeleteProvider, AddProvider, Install, CleanUp, Flush,
         Redo, RedoFails, Checkpoint, Crash, EndRecovery, StartBackup, ReceiveFile, EndBackup
<1>5. /\ live' \subseteq live \cup Rel
      /\ open' \subseteq open \cup Rel
  BY <1>1 DEF OtherType,
         Next, SetKey, RotateKey, WriteHeader, LogRotate, DeleteKey, UnlinkFile, CreateRel, CommitRel,
         DropRel, FreeEntry, CreatePlain, DeleteProvider, AddProvider, Install, CleanUp, Flush,
         Redo, RedoFails, Checkpoint, Crash, EndRecovery, StartBackup, ReceiveFile, EndBackup
<1>6. mode' \in [Server -> {"up", "redo", "failed", "none", "backup"}]
  BY <1>1, <1>3 DEF OtherType
<1> QED BY <1>1, <1>2, <1>4, <1>5, <1>6 DEF OtherType

\* The steps of a primary that is up.
PrimaryStep ==
    \/ \E o \in Oid, k \in PKey : SetKey(o, k) \/ RotateKey(o, k)
    \/ WriteHeader \/ LogRotate \/ UnlinkFile \/ FreeEntry
    \/ \E o \in Oid : DeleteKey(o)
    \/ \E r \in Rel : CreateRel(r) \/ CommitRel(r) \/ DropRel(r) \/ CreatePlain(r)
    \/ \E v \in Prov : DeleteProvider(v) \/ AddProvider(v)
    \/ Install \/ CleanUp \/ Flush

\* They leave the standby alone.
LEMMA PrimaryFrame ==
    ASSUME TypeInv, PrimaryStep
    PROVE  /\ mode[Primary] = "up" /\ UNCHANGED <<mode, left, ckpt, at, env>>
           /\ hdr'[Standby] = hdr[Standby] /\ ents'[Standby] = ents[Standby]
           /\ cache'[Standby] = cache[Standby] /\ provs'[Standby] = provs[Standby]
           /\ flushed' = flushed \/ flushed' = Len(log')
<1>1. FileType /\ LogOK /\ ModeOK
  BY TypeParts DEF TypeInv
<1>2. mode[Primary] = "up"
  BY <1>1 DEF PrimaryStep, ModeOK, SetKey, RotateKey, WriteHeader, LogRotate, DeleteKey, UnlinkFile,
         CreateRel, CommitRel, DropRel, FreeEntry, CreatePlain, DeleteProvider, AddProvider, Install,
         CleanUp, Flush, Running
<1>3. UNCHANGED <<mode, left, ckpt, at, env>>
  BY DEF PrimaryStep, SetKey, RotateKey, WriteHeader, LogRotate, DeleteKey, UnlinkFile,
         CreateRel, CommitRel, DropRel, FreeEntry, CreatePlain, DeleteProvider, AddProvider, Install,
         CleanUp, Flush
<1>4. flushed' = flushed \/ flushed' = Len(log')
  <2>1. ASSUME NEW r \in Rel, CommitRel(r) PROVE flushed' = Len(log')
    <3>1. log \in Seq(Recs)
      BY TypeParts DEF TypeInv, LogType
    <3> QED BY <2>1, <3>1 DEF CommitRel
  <2> QED BY <2>1
      DEF PrimaryStep, SetKey, RotateKey, WriteHeader, LogRotate, DeleteKey, UnlinkFile,
         CreateRel, DropRel, FreeEntry, CreatePlain, DeleteProvider, AddProvider, Install,
         CleanUp, Flush
<1>5. hdr'[Standby] = hdr[Standby]
  BY <1>1, Names DEF FileType, PrimaryStep, SetKey, RotateKey, RotateFile, WriteHeader, LogRotate,
         DeleteKey, UnlinkFile, Unlink,
         CreateRel, SaveSmgrKey, CommitRel, DropRel, FreeEntry, CreatePlain, DeleteProvider,
         AddProvider, Install, CleanUp, Flush
<1>6. ents'[Standby] = ents[Standby]
  BY <1>1, Names, ZenonT(40) DEF FileType, PrimaryStep, SetKey, RotateKey, RotateFile, WriteHeader, LogRotate,
         DeleteKey, UnlinkFile, Unlink,
         CreateRel, SaveSmgrKey, CommitRel, DropRel, FreeEntry, CreatePlain, DeleteProvider,
         AddProvider, Install, CleanUp, Flush
<1>7. cache'[Standby] = cache[Standby]
  BY <1>1, Names DEF FileType, PrimaryStep, SetKey, RotateKey, RotateFile, WriteHeader, LogRotate,
         DeleteKey, UnlinkFile, ClearKey,
         CreateRel, SaveSmgrKey, CommitRel, DropRel, FreeEntry, CreatePlain, DeleteProvider,
         AddProvider, Install, CleanUp, Flush
<1>8. provs'[Standby] = provs[Standby]
  BY <1>1, Names DEF FileType, PrimaryStep, SetKey, RotateKey, WriteHeader, LogRotate,
         DeleteKey, UnlinkFile,
         CreateRel, CommitRel, DropRel, FreeEntry, CreatePlain, DeleteProvider,
         AddProvider, Install, CleanUp, Flush
<1> QED BY <1>2, <1>3, <1>4, <1>5, <1>6, <1>7, <1>8

\* Replay by a server leaves the other one alone.
LEMMA RedoFrame ==
    ASSUME TypeInv, NEW n \in Server, Redo(n)
    PROVE  \A m \in Server : m # n => /\ hdr'[m] = hdr[m] /\ ents'[m] = ents[m]
                                      /\ cache'[m] = cache[m] /\ provs'[m] = provs[m] /\ at'[m] = at[m]
<1> TAKE m \in Server
<1> HAVE m # n
<1>1. FileType /\ LogType
  BY TypeParts DEF TypeInv
<1>2. PICK rec : rec = log[at[n] + 1]
  OBVIOUS
<1>3. /\ \/ RedoAdd(n, rec) \/ RedoDelete(n, rec) \/ RedoRotate(n, rec) \/ RedoCreate(n, rec)
         \/ RedoDrop(n, rec) \/ RedoProvider(n, rec) \/ RedoAddProvider(n, rec) \/ RedoInstall(n, rec)
      /\ at' = [at EXCEPT ![n] = @ + 1]
  BY <1>2 DEF Redo
<1>4. hdr'[m] = hdr[m]
  BY <1>1, <1>3 DEF FileType, RedoAdd, RedoDelete, RedoRotate, RedoCreate, RedoDrop, RedoProvider,
         RedoAddProvider, RedoInstall, Unlink, RotateFile, SaveSmgrKey
<1>5. ents'[m] = ents[m]
  BY <1>1, <1>3 DEF FileType, RedoAdd, RedoDelete, RedoRotate, RedoCreate, RedoDrop, RedoProvider,
         RedoAddProvider, RedoInstall, Unlink, RotateFile, SaveSmgrKey
<1>6. cache'[m] = cache[m]
  BY <1>1, <1>3 DEF FileType, RedoAdd, RedoDelete, RedoRotate, RedoCreate, RedoDrop, RedoProvider,
         RedoAddProvider, RedoInstall, ClearKey, RotateFile, SaveSmgrKey
<1>7. provs'[m] = provs[m]
  BY <1>1, <1>3 DEF FileType, RedoAdd, RedoDelete, RedoRotate, RedoCreate, RedoDrop, RedoProvider,
         RedoAddProvider, RedoInstall
<1>8. at'[m] = at[m]
  BY <1>1, <1>3 DEF LogType
<1> QED BY <1>4, <1>5, <1>6, <1>7, <1>8

\* The steps of replay, of failures and of the backup.
LEMMA ModeRest ==
    ASSUME TypeInv, LogType',
           \/ \E n \in Server : Redo(n) \/ RedoFails(n) \/ Checkpoint(n) \/ Crash(n)
           \/ EndRecovery \/ StartBackup \/ EndBackup
           \/ \E f \in Files : ReceiveFile(f)
    PROVE  ModeOK'
<1>1. FileType /\ LogType /\ ModeOK
  BY TypeParts DEF TypeInv
<1>2. /\ mode \in [Server -> {"up", "redo", "failed", "none", "backup"}]
      /\ ckpt \in [Server -> 0 .. Len(log)] /\ at \in [Server -> 0 .. Len(log)]
      /\ flushed \in 0 .. Len(log) /\ Len(log) \in Nat
      /\ ckpt[Primary] \in Nat /\ ckpt[Standby] \in Nat /\ at[Primary] \in Nat /\ at[Standby] \in Nat
  BY <1>1, Names, SMTT(30) DEF FileType, LogType
<1>3. ASSUME NEW n \in Server, Redo(n) PROVE ModeOK'
  <2>1. /\ UNCHANGED <<log, flushed, ckpt, mode, open, pend, left, env>>
        /\ at' = [at EXCEPT ![n] = @ + 1] /\ mode[n] = "redo" /\ at[n] < Limit(n)
    BY <1>3 DEF Redo, Replaying
  <2>2. /\ at'[n] = at[n] + 1 /\ \A m \in Server : m # n => at'[m] = at[m]
    BY <1>2, <2>1
  <2>3. at[n] + 1 <= flushed
    BY <1>1, <1>2, <2>1, Names DEF ModeOK, Limit
  <2>4. mode[Standby] \in {"none", "backup"} => cache'[Standby] = cache[Standby]
    BY <1>3, <2>1, RedoFrame, Names
  <2> QED BY <1>1, <1>2, <2>1, <2>2, <2>3, <2>4, Names DEF ModeOK
<1>4. ASSUME NEW n \in Server, RedoFails(n) PROVE ModeOK'
  <2>1. /\ UNCHANGED <<log, flushed, ckpt, at, cache, open, pend, left, env>>
        /\ mode' = [mode EXCEPT ![n] = "failed"] /\ mode[n] = "redo"
    BY <1>4 DEF RedoFails, Replaying
  <2>2. mode'[n] = "failed" /\ \A m \in Server : m # n => mode'[m] = mode[m]
    BY <1>2, <2>1
  <2> QED BY <1>1, <1>2, <2>1, <2>2, Names DEF ModeOK
<1>5. ASSUME NEW n \in Server, Checkpoint(n) PROVE ModeOK'
  <2>1. /\ UNCHANGED <<log, at, mode, cache, open, pend, left, env>>
        /\ \/ /\ n = Primary /\ mode[n] = "up" /\ ckpt' = [ckpt EXCEPT ![n] = Len(log)]
              /\ flushed' = Len(log)
           \/ n = Standby /\ ckpt' = [ckpt EXCEPT ![n] = at[n]] /\ flushed' = flushed
    BY <1>5 DEF Checkpoint
  <2>2. CASE n = Primary /\ mode[n] = "up" /\ ckpt' = [ckpt EXCEPT ![n] = Len(log)] /\ flushed' = Len(log)
    <3>1. ckpt'[Primary] = Len(log) /\ ckpt'[Standby] = ckpt[Standby]
      BY <1>2, <2>2, Names
    <3> QED BY <1>1, <1>2, <2>1, <2>2, <3>1, Names DEF ModeOK
  <2>3. CASE n = Standby /\ ckpt' = [ckpt EXCEPT ![n] = at[n]] /\ flushed' = flushed
    <3>1. ckpt'[Standby] = at[Standby] /\ ckpt'[Primary] = ckpt[Primary]
      BY <1>2, <2>3, Names
    <3> QED BY <1>1, <1>2, <2>1, <2>3, <3>1, Names DEF ModeOK
  <2> QED BY <2>1, <2>2, <2>3
<1>6. ASSUME NEW n \in Server, Crash(n) PROVE ModeOK'
  <2>1. /\ UNCHANGED <<flushed, ckpt, left, env>> /\ mode[n] \in {"up", "redo"}
        /\ at' = [at EXCEPT ![n] = ckpt[n]] /\ mode' = [mode EXCEPT ![n] = "redo"]
        /\ cache' = [cache EXCEPT ![n] = [o \in Oid |-> None]]
        /\ n = Primary => open' = {} /\ pend' = None
        /\ n = Standby => UNCHANGED <<open, pend>>
    BY <1>6, Names DEF Crash
  <2>2. /\ at'[n] = ckpt[n] /\ mode'[n] = "redo"
        /\ \A m \in Server : m # n => at'[m] = at[m] /\ mode'[m] = mode[m] /\ cache'[m] = cache[m]
    BY <1>1, <1>2, <2>1 DEF FileType
  <2>3. /\ n = Primary => Len(log') = flushed
        /\ n = Standby => log' = log
    BY <1>6, CrashLog
  <2>4. CASE n = Primary
    BY <1>1, <1>2, <2>1, <2>2, <2>3, <2>4, Names DEF ModeOK
  <2>5. CASE n = Standby
    BY <1>1, <1>2, <2>1, <2>2, <2>3, <2>5, Names DEF ModeOK
  <2> QED BY <2>4, <2>5, Names
<1>7. CASE EndRecovery
  <2>1. /\ UNCHANGED <<log, flushed, ckpt, at, cache, open, pend, left, env>>
        /\ mode' = [mode EXCEPT ![Primary] = "up"]
    BY <1>7 DEF EndRecovery
  <2>2. mode'[Primary] = "up" /\ mode'[Standby] = mode[Standby]
    BY <1>2, <2>1, Names
  <2> QED BY <1>1, <1>2, <2>1, <2>2, Names DEF ModeOK
<1>8. CASE StartBackup
  <2>1. /\ UNCHANGED <<log, cache, open, pend, env>> /\ flushed' = Len(log)
        /\ mode[Standby] = "none" /\ mode[Primary] = "up"
        /\ mode' = [mode EXCEPT ![Standby] = "backup"]
        /\ ckpt' = [ckpt EXCEPT ![Standby] = Len(log)] /\ at' = [at EXCEPT ![Standby] = Len(log)]
    BY <1>8 DEF StartBackup
  <2>2. /\ mode'[Standby] = "backup" /\ mode'[Primary] = mode[Primary]
        /\ ckpt'[Standby] = Len(log) /\ ckpt'[Primary] = ckpt[Primary]
        /\ at'[Standby] = Len(log) /\ at'[Primary] = at[Primary]
    BY <1>2, <2>1, Names
  <2> QED BY <1>1, <1>2, <2>1, <2>2, Names DEF ModeOK
<1>9. CASE EndBackup
  <2>1. /\ UNCHANGED <<log, ckpt, at, cache, open, pend, left, env>> /\ flushed' = Len(log)
        /\ left = {} /\ mode' = [mode EXCEPT ![Standby] = "redo"]
    BY <1>9 DEF EndBackup
  <2>2. mode'[Standby] = "redo" /\ mode'[Primary] = mode[Primary]
    BY <1>2, <2>1, Names
  <2> QED BY <1>1, <1>2, <2>1, <2>2, Names DEF ModeOK
<1>10. ASSUME NEW f \in Files, ReceiveFile(f) PROVE ModeOK'
  <2>1. /\ UNCHANGED <<log, flushed, ckpt, at, mode, cache, open, pend, env>>
        /\ left # {}
    BY <1>10 DEF ReceiveFile
  <2> QED BY <1>1, <1>2, <2>1, Names DEF ModeOK
<1> QED BY <1>3, <1>4, <1>5, <1>6, <1>7, <1>8, <1>9, <1>10

LEMMA ModeNext ==
    ASSUME TypeInv, Next
    PROVE  ModeOK'
<1>1. LogType' /\ LogType /\ ModeOK
  BY LogNext, TypeParts DEF TypeInv
<1>2. CASE PrimaryStep
  <2>1. /\ mode[Primary] = "up" /\ UNCHANGED <<mode, left, ckpt, at, env>>
        /\ cache'[Standby] = cache[Standby] /\ (flushed' = flushed \/ flushed' = Len(log'))
    BY <1>2, PrimaryFrame
  <2>2. /\ ckpt' \in [Server -> 0 .. Len(log')] /\ at' \in [Server -> 0 .. Len(log')]
        /\ Len(log') \in Nat
    BY <1>1 DEF LogType
  <2>3. \A n \in Server : ckpt'[n] <= flushed' /\ at'[n] <= flushed'
    BY <1>1, <2>1, <2>2 DEF ModeOK
  <2> QED BY <1>1, <2>1, <2>3, Names DEF ModeOK
<1> QED BY <1>1, <1>2, ModeRest DEF Next, PrimaryStep

\* The first part of the invariant.
LEMMA TypeNext ==
    ASSUME TypeInv, FileInv, Next
    PROVE  TypeInv' /\ FileInv'
<1>1. LogType' /\ LogOK' /\ FilesOK' /\ OtherType' /\ ModeOK'
  BY LogNext, FilesNext, OtherNext, ModeNext
<1>2. FileType'
  BY <1>1 DEF FileType, FilesOK, OtherType, MaybeKey
<1>3. TypeOK'
  BY <1>1, <1>2 DEF TypeOK, LogType, FileType
<1> QED BY <1>1, <1>3 DEF TypeInv, FilesOK

-----------------------------------------------------------------------------
(* The keys of committed relations are kept.                               *)

\* Records are only added, and none that removes the entry of r.
Extends == Len(log') >= Len(log) /\ \A i \in 1 .. Len(log) : log'[i] = log[i]

Spares(r) == \A i \in Len(log) + 1 .. Len(log') : ~Removes(log'[i], r)

LEMMA MakesKept ==
    ASSUME LogType, LogType', NEW r \in Rel, NEW c \in 1 .. Len(log), Makes(c, r), Extends, Spares(r)
    PROVE  Makes(c, r)'
<1>1. Len(log) \in Nat /\ Len(log') \in Nat /\ c \in Nat
  BY DEF LogType
<1>2. log'[c].op = "create" /\ log'[c].rel = r
  BY DEF Makes, Extends
<1>3. ASSUME NEW j \in c + 1 .. Len(log') PROVE ~Removes(log'[j], r)
  <2>1. j \in c + 1 .. Len(log) \/ j \in Len(log) + 1 .. Len(log')
    BY <1>1
  <2>2. CASE j \in c + 1 .. Len(log)
    <3>1. j \in 1 .. Len(log)
      BY <1>1, <2>2
    <3>2. log'[j] = log[j]
      BY <3>1 DEF Extends
    <3> QED BY <2>2, <3>2 DEF Makes
  <2>3. CASE j \in Len(log) + 1 .. Len(log')
    BY <2>3 DEF Spares
  <2> QED BY <2>1, <2>2, <2>3
<1> QED BY <1>2, <1>3 DEF Makes

\* One more record.
LEMMA OneMore ==
    ASSUME LogType, NEW rec \in Recs, log' = Append(log, rec)
    PROVE  /\ Extends /\ Len(log') = Len(log) + 1 /\ log'[Len(log) + 1] = rec
           /\ \A r \in Rel : ~Removes(rec, r) => Spares(r)
<1>1. /\ Len(log') = Len(log) + 1 /\ log'[Len(log) + 1] = rec
      /\ \A i \in 1 .. Len(log) : log'[i] = log[i]
      /\ Len(log) \in Nat
  BY DEF LogType
<1>2. Extends
  BY <1>1 DEF Extends
<1>3. \A i \in Len(log) + 1 .. Len(log') : i = Len(log) + 1
  BY <1>1
<1>4. \A r \in Rel : ~Removes(rec, r) => Spares(r)
  BY <1>1, <1>3 DEF Spares
<1> QED BY <1>1, <1>2, <1>4

LEMMA NoMore ==
    ASSUME LogType, log' = log
    PROVE  Extends /\ \A r \in Rel : Spares(r)
<1>1. Len(log) \in Nat
  BY DEF LogType
<1>2. Extends
  BY <1>1 DEF Extends
<1>3. Len(log) + 1 .. Len(log') = {}
  BY <1>1
<1> QED BY <1>2, <1>3 DEF Spares

\* A step between two states in which the primary is up.
LEMMA KeepUp ==
    ASSUME KeepInv, LogType, LogType', live' \subseteq live, live \subseteq Rel,
           mode'[Primary] = "up", flushed' >= flushed,
           Extends, \A r \in live' : Spares(r), PendClean',
           \A r \in live' \cup open' : ents'[Primary][r] # None
    PROVE  KeepInv'
<1>1. ASSUME NEW r \in live' PROVE \E c \in 1 .. flushed' : Makes(c, r)'
  <2>1. r \in live /\ r \in Rel /\ Spares(r)
    OBVIOUS
  <2>2. PICK c \in 1 .. flushed : Makes(c, r)
    BY <2>1 DEF KeepInv
  <2>3. c \in 1 .. Len(log) /\ c \in 1 .. flushed'
    BY <2>2 DEF LogType
  <2>4. Makes(c, r)'
    BY <2>1, <2>2, <2>3, MakesKept
  <2> QED BY <2>3, <2>4
<1>2. \A r \in live' : \E c \in 1 .. flushed' :
          /\ Makes(c, r)'
          /\ mode'[Primary] # "up" /\ ents'[Primary][r] = None => at'[Primary] < c
  BY <1>1
<1> QED BY <1>2 DEF KeepInv

\* A step that concerns neither the files nor the log.
LEMMA KeepSame ==
    ASSUME KeepInv, LogType, LogType', UNCHANGED <<log, live, open, pend>>, flushed' >= flushed,
           mode'[Primary] = mode[Primary] \/ (mode[Primary] # "up" /\ mode'[Primary] # "up"),
           ents'[Primary] = ents[Primary], at'[Primary] = at[Primary]
    PROVE  KeepInv'
<1>1. \A c, r : Makes(c, r)' <=> Makes(c, r)
  BY DEF Makes, Removes
<1>2. \A c \in 1 .. flushed : c \in 1 .. flushed'
  BY DEF LogType
<1>3. PendClean'
  BY DEF KeepInv, PendClean
<1>4. \A r \in live' : \E c \in 1 .. flushed' :
          /\ Makes(c, r)'
          /\ mode'[Primary] # "up" /\ ents'[Primary][r] = None => at'[Primary] < c
  BY <1>1, <1>2 DEF KeepInv
<1> QED BY <1>3, <1>4 DEF KeepInv

\* Where the database's file has no entries, no relation uses it.
LEMMA NoneInUse ==
    ASSUME TypeInv, FileInv, KeepInv, mode[Primary] = "up",
           Key(Primary, Db) = None \/ NoEntries(Primary)
    PROVE  live \cup open = {}
<1>1. ServerOK(Primary) /\ live \subseteq Rel /\ open \subseteq Rel
  BY Names, TypeParts DEF FileInv, TypeInv, FileType
<1>2. NoEntries(Primary)
  BY <1>1 DEF ServerOK, Key
<1>3. \A r \in live \cup open : ents[Primary][r] # None
  BY DEF KeepInv
<1> QED BY <1>1, <1>2, <1>3 DEF NoEntries

\* The steps that begin a change.
LEMMA KeepBegin ==
    ASSUME TypeInv, FileInv, KeepInv, LogType', env.install # "any",
           \/ \E o \in Oid, k \in PKey : SetKey(o, k) \/ RotateKey(o, k)
           \/ \E o \in Oid : DeleteKey(o)
           \/ Install
    PROVE  KeepInv'
<1>1. FileType /\ LogType /\ live \subseteq Rel /\ open \subseteq Rel
  BY TypeParts DEF TypeInv, FileType
<1>2. mode[Primary] = "up" /\ mode' = mode /\ UNCHANGED <<flushed, live, open>>
  BY DEF SetKey, RotateKey, DeleteKey, Install, Running
<1>3. \A r \in live \cup open : ents[Primary][r] # None
  BY <1>2 DEF KeepInv
<1>4. flushed' >= flushed
  BY <1>1, <1>2 DEF LogType
<1>5. ASSUME NEW o \in Oid, NEW k \in PKey, SetKey(o, k) PROVE KeepInv'
  <2>1. PICK rec : rec = Rec("add", o, k, None, None)
    OBVIOUS
  <2>2. rec \in Recs /\ rec.op = "add" /\ rec.oid = o
    BY <2>1, RecFacts DEF Ops
  <2>3. log' = Append(log, rec) /\ pend' = rec /\ ents' = ents /\ Key(Primary, o) = None
    BY <1>5, <2>1 DEF SetKey
  <2>4. Extends /\ \A r \in live' : Spares(r)
    BY <1>1, <1>2, <2>2, <2>3, OneMore DEF Removes
  <2>5. o = Db => live \cup open = {}
    BY <1>2, <2>3, NoneInUse
  <2>6. PendClean'
    BY <1>2, <2>2, <2>3, <2>5 DEF PendClean
  <2> QED BY <1>1, <1>2, <1>3, <1>4, <2>3, <2>4, <2>6, KeepUp
<1>6. ASSUME NEW o \in Oid, NEW k \in PKey, RotateKey(o, k) PROVE KeepInv'
  <2>1. PICK rec : rec = Rec("rotate", o, k, None, None)
    OBVIOUS
  <2>2. rec \in Recs /\ rec.op = "rotate" /\ rec.oid = o
    BY <2>1, RecFacts DEF Ops
  <2>3. log' = log /\ pend' = rec /\ RotateFile(Primary, o, k)
    BY <1>6, <2>1 DEF RotateKey
  <2>4. /\ o # Db => ents' = ents
        /\ o = Db => \A r \in Rel : ents'[Primary][r] = IF ents[Primary][r] = None THEN None ELSE k
    BY <1>1, <2>3, Rotated, Names
  <2>5. \A r \in live' \cup open' : ents'[Primary][r] # None
    BY <1>1, <1>2, <1>3, <2>4, Names
  <2>6. PendClean'
    BY <2>2, <2>3 DEF PendClean
  <2>7. Extends /\ \A r \in live' : Spares(r)
    BY <1>1, <1>2, <2>3, NoMore
  <2> QED BY <1>1, <1>2, <1>4, <2>5, <2>6, <2>7, KeepUp
<1>7. ASSUME NEW o \in Oid, DeleteKey(o) PROVE KeepInv'
  <2>1. PICK rec : rec = Rec("delete", o, None, None, None)
    OBVIOUS
  <2>2. rec \in Recs /\ rec.op = "delete" /\ rec.oid = o
    BY <2>1, RecFacts DEF Ops
  <2>3. log' = Append(log, rec) /\ pend' = rec /\ ents' = ents /\ (o = Db => NoEntries(Primary))
    BY <1>7, <2>1 DEF DeleteKey
  <2>4. o = Db => live \cup open = {}
    BY <1>2, <2>3, NoneInUse
  <2>5. Extends /\ \A r \in live' : Spares(r)
    BY <1>1, <1>2, <2>2, <2>3, <2>4, OneMore DEF Removes
  <2>6. PendClean'
    BY <1>2, <2>2, <2>3, <2>4 DEF PendClean
  <2> QED BY <1>1, <1>2, <1>3, <1>4, <2>3, <2>5, <2>6, KeepUp
<1>8. CASE Install
  <2>1. env.install = "committed"
    BY <1>1, <1>8, KeyRedoAssumption DEF FileType, Install
  <2>2. live \cup open = {} /\ log' = log
    BY <1>8, <2>1 DEF Install
  <2>3. PendClean'
    BY <1>2, <2>2 DEF PendClean
  <2>4. Extends
    BY <1>1, <2>2, NoMore
  <2> QED BY <1>1, <1>2, <1>4, <2>2, <2>3, <2>4, KeepUp
<1> QED BY <1>5, <1>6, <1>7, <1>8

\* Those that complete one.
LEMMA KeepComplete ==
    ASSUME TypeInv, FileInv, KeepInv, LogType',
           WriteHeader \/ LogRotate \/ UnlinkFile \/ FreeEntry \/ CleanUp
    PROVE  KeepInv'
<1>1. FileType /\ LogType /\ LogOK /\ live \subseteq Rel /\ open \subseteq Rel /\ None \in MaybeKey
  BY TypeParts DEF TypeInv, FileType, MaybeKey
<1>2. pend # None /\ pend' = None /\ mode' = mode /\ UNCHANGED <<flushed, live, open>>
  BY DEF WriteHeader, LogRotate, UnlinkFile, FreeEntry, CleanUp
<1>3. mode[Primary] = "up"
  BY <1>2 DEF TypeInv, ModeOK
<1>4. \A r \in live \cup open : ents[Primary][r] # None
  BY <1>3 DEF KeepInv
<1>5. flushed' >= flushed /\ PendClean'
  BY <1>1, <1>2 DEF LogType, PendClean
<1>6. pend \in Recs /\ PendClean /\ RecOK(pend)
  BY <1>1, <1>2 DEF LogType, KeepInv, LogOK
<1>7. Extends /\ \A r \in live' : Spares(r)
  <2>1. CASE log' = log
    BY <1>1, <1>2, <2>1, NoMore
  <2>2. CASE LogRotate \/ CleanUp
    <3>1. log' = Append(log, pend) /\ pend.op \in {"rotate", "install"}
      BY <2>2 DEF LogRotate, CleanUp
    <3>2. \A r \in live : ~Removes(pend, r)
      BY <1>2, <1>6, <3>1 DEF Removes, PendClean
    <3> QED BY <1>1, <1>2, <1>6, <3>1, <3>2, OneMore
  <2> QED BY <2>1, <2>2 DEF WriteHeader, UnlinkFile, FreeEntry
<1>8. \A r \in live' \cup open' : ents'[Primary][r] # None
  <2>1. CASE WriteHeader \/ UnlinkFile \/ CleanUp
    <3>1. /\ pend.op \in {"add", "delete", "install"}
          /\ ents' = IF pend.oid = Db
                     THEN [ents EXCEPT ![Primary] = [r \in Rel |-> None]] ELSE ents
      BY <2>1 DEF WriteHeader, UnlinkFile, CleanUp, Unlink
    <3>2. pend.oid = Db => live \cup open = {}
      BY <1>2, <1>6, <3>1 DEF PendClean
    <3> QED BY <1>2, <1>4, <3>1, <3>2
  <2>2. CASE LogRotate
    BY <1>2, <1>4, <2>2 DEF LogRotate
  <2>3. CASE FreeEntry
    <3>1. pend.rel \in Rel /\ pend.rel \notin live \cup open
      BY <1>2, <1>6, <2>3 DEF FreeEntry, PendClean, RecOK
    <3>2. ents' = [ents EXCEPT ![Primary][pend.rel] = None]
      BY <2>3 DEF FreeEntry
    <3>3. \A s \in Rel : s # pend.rel => ents'[Primary][s] = ents[Primary][s]
      BY <1>1, <3>1, <3>2, Freed, Names
    <3> QED BY <1>1, <1>2, <1>4, <3>1, <3>3
  <2> QED BY <2>1, <2>2, <2>3
<1> QED BY <1>1, <1>2, <1>3, <1>5, <1>7, <1>8, KeepUp

\* The steps that are about a relation or a provider.
LEMMA KeepRelation ==
    ASSUME TypeInv, FileInv, KeepInv, LogType',
           \/ \E r \in Rel : CreateRel(r) \/ CommitRel(r) \/ DropRel(r) \/ CreatePlain(r)
           \/ \E v \in Prov : DeleteProvider(v) \/ AddProvider(v)
           \/ Flush
    PROVE  KeepInv'
<1>1. FileType /\ LogType /\ live \subseteq Rel /\ open \subseteq Rel /\ PendClean
      /\ log \in Seq(Recs) /\ Len(log) \in Nat
  BY TypeParts DEF TypeInv, FileType, KeepInv, LogType
<1>2. mode[Primary] = "up" /\ mode' = mode
  BY DEF CreateRel, CommitRel, DropRel, CreatePlain, DeleteProvider, AddProvider, Flush, Running
<1>3. \A r \in live \cup open : ents[Primary][r] # None
  BY <1>2 DEF KeepInv
<1>4. ASSUME NEW r \in Rel, CreateRel(r) PROVE KeepInv'
  <2>1. /\ UNCHANGED <<log, flushed, live, pend>> /\ open' = open \cup {r} /\ pend = None
        /\ SaveSmgrKey(Primary, r, TRUE) /\ Effective(Primary) # None
    BY <1>4 DEF CreateRel
  <2>2. /\ ents'[Primary][r] = Effective(Primary) \/ (ents'[Primary][r] = ents[Primary][r] /\ ents[Primary][r] # None)
        /\ \A s \in Rel : s # r => ents'[Primary][s] = ents[Primary][s]
    BY <1>1, <2>1, Saved, Names
  <2>3. \A s \in live' \cup open' : ents'[Primary][s] # None
    BY <1>1, <1>3, <2>1, <2>2
  <2>4. PendClean' /\ flushed' >= flushed
    BY <1>1, <2>1 DEF PendClean, LogType
  <2>5. Extends /\ \A s \in live' : Spares(s)
    BY <1>1, <2>1, NoMore
  <2> QED BY <1>1, <1>2, <2>1, <2>3, <2>4, <2>5, KeepUp
<1>5. ASSUME NEW r \in Rel, CommitRel(r) PROVE KeepInv'
  <2>1. PICK rec : rec = Rec("create", None, None, r, None)
    OBVIOUS
  <2>2. rec \in Recs /\ rec.op = "create" /\ rec.rel = r
    BY <2>1, RecFacts DEF Ops
  <2>3. /\ log' = Append(log, rec) /\ flushed' = Len(log) + 1 /\ UNCHANGED <<ents, pend>>
        /\ live' = live \cup {r} /\ open' = open \ {r} /\ r \in open
    BY <1>5, <2>1 DEF CommitRel
  <2>4. /\ Extends /\ Len(log') = Len(log) + 1 /\ log'[Len(log) + 1] = rec
        /\ \A s \in Rel : Spares(s)
    BY <1>1, <2>2, <2>3, OneMore DEF Removes
  <2>5. live' \cup open' = live \cup open
    BY <2>3
  <2>6. PendClean'
    BY <1>1, <2>3, <2>5 DEF PendClean
  <2>7. \A s \in live' \cup open' : ents'[Primary][s] # None
    BY <1>3, <2>3, <2>5
  <2>8. \A s \in live' : \E c \in 1 .. flushed' : Makes(c, s)'
    <3> TAKE s \in live'
    <3>1. CASE s = r
      <4>1. PICK c \in 1 .. flushed' : c = Len(log) + 1
        BY <1>1, <2>3
      <4>2. c + 1 .. Len(log') = {}
        BY <1>1, <2>4, <4>1
      <4>3. Makes(c, r)'
        BY <2>2, <2>4, <4>1, <4>2 DEF Makes
      <4> QED BY <3>1, <4>3
    <3>2. CASE s # r
      <4>1. s \in live /\ s \in Rel
        BY <1>1, <2>3, <3>2
      <4>2. PICK c \in 1 .. flushed : Makes(c, s)
        BY <4>1 DEF KeepInv
      <4>3. c \in 1 .. Len(log) /\ c \in 1 .. flushed'
        BY <1>1, <2>3, <4>2 DEF LogType
      <4> QED BY <1>1, <2>4, <4>1, <4>2, <4>3, MakesKept
    <3> QED BY <3>1, <3>2
  <2> QED BY <1>2, <2>6, <2>7, <2>8 DEF KeepInv
<1>6. ASSUME NEW r \in Rel, DropRel(r) PROVE KeepInv'
  <2>1. PICK c \in Recs, d \in Recs :
               /\ c.op = "create" /\ c.rel = r /\ d.op = "drop" /\ d.rel = r
               /\ pend' = d /\ flushed' = Len(log')
               /\ log' = Append(log, d) \/ log' = Append(Append(log, c), d)
    BY <1>6, DropRecords
  <2>2. live' = live \ {r} /\ open' = open \ {r} /\ ents' = ents
    BY <1>6 DEF DropRel
  <2>3. /\ Len(log') \in Nat /\ Len(log') >= Len(log)
        /\ \A i \in 1 .. Len(log) : log'[i] = log[i]
        /\ \A i \in Len(log) + 1 .. Len(log') : log'[i] = c \/ log'[i] = d
    <3>1. CASE log' = Append(log, d)
      <4>1. Len(log') = Len(log) + 1 /\ log'[Len(log) + 1] = d /\ \A i \in 1 .. Len(log) : log'[i] = log[i]
        BY <1>1, <3>1
      <4>2. \A i \in Len(log) + 1 .. Len(log') : i = Len(log) + 1
        BY <1>1, <4>1
      <4> QED BY <1>1, <4>1, <4>2
    <3>2. CASE log' = Append(Append(log, c), d)
      <4>1. /\ Len(log') = Len(log) + 2 /\ log'[Len(log) + 1] = c /\ log'[Len(log) + 2] = d
            /\ \A i \in 1 .. Len(log) : log'[i] = log[i]
        BY <1>1, <3>2
      <4>2. \A i \in Len(log) + 1 .. Len(log') : i = Len(log) + 1 \/ i = Len(log) + 2
        BY <1>1, <4>1
      <4> QED BY <1>1, <4>1, <4>2
    <3> QED BY <2>1, <3>1, <3>2
  <2>4. Extends
    BY <2>3 DEF Extends
  <2>5. \A s \in live' : Spares(s)
    BY <2>1, <2>2, <2>3 DEF Spares, Removes
  <2>6. flushed' >= flushed
    BY <1>1, <2>1, <2>3 DEF LogType
  <2>7. PendClean'
    BY <2>1, <2>2 DEF PendClean
  <2>8. \A s \in live' \cup open' : ents'[Primary][s] # None
    BY <1>3, <2>2
  <2>9. live' \subseteq live /\ mode'[Primary] = "up"
    BY <1>2, <2>2
  <2> QED BY <1>1, <2>4, <2>5, <2>6, <2>7, <2>8, <2>9, KeepUp
<1>7. ASSUME NEW r \in Rel, CreatePlain(r) PROVE KeepInv'
  <2>1. PICK rec : rec = Rec("leftover", None, None, r, None)
    OBVIOUS
  <2>2. rec \in Recs /\ rec.op = "leftover" /\ rec.rel = r
    BY <2>1, RecFacts DEF Ops
  <2>3. /\ log' = Append(log, rec) /\ UNCHANGED <<flushed, live, open, pend>>
        /\ r \notin live \cup open /\ ents' = [ents EXCEPT ![Primary][r] = None]
    BY <1>7, <2>1 DEF CreatePlain
  <2>4. Extends /\ \A s \in live' : Spares(s)
    <3>1. \A s \in live : ~Removes(rec, s)
      BY <2>2, <2>3 DEF Removes
    <3> QED BY <1>1, <2>2, <2>3, <3>1, OneMore
  <2>5. \A s \in Rel : s # r => ents'[Primary][s] = ents[Primary][s]
    BY <1>1, <2>3, Freed, Names
  <2>6. \A s \in live' \cup open' : ents'[Primary][s] # None
    BY <1>1, <1>3, <2>3, <2>5
  <2>7. PendClean' /\ flushed' >= flushed
    BY <1>1, <2>3 DEF PendClean, LogType
  <2> QED BY <1>1, <1>2, <2>3, <2>4, <2>6, <2>7, KeepUp
<1>8. ASSUME NEW v \in Prov, DeleteProvider(v) \/ AddProvider(v) PROVE KeepInv'
  <2>1. PICK rec : /\ rec = Rec("provider", None, None, None, v) \/ rec = Rec("addprovider", None, None, None, v)
                   /\ log' = Append(log, rec)
    BY <1>8 DEF DeleteProvider, AddProvider
  <2>2. rec \in Recs /\ rec.op \in {"provider", "addprovider"}
    BY <2>1 DEF Rec, Recs, Ops
  <2>3. UNCHANGED <<flushed, live, open, pend, ents>>
    BY <1>8 DEF DeleteProvider, AddProvider
  <2>4. Extends /\ \A s \in live' : Spares(s)
    <3>1. \A s \in live : ~Removes(rec, s)
      BY <2>2 DEF Removes
    <3> QED BY <1>1, <2>1, <2>2, <2>3, <3>1, OneMore
  <2>5. PendClean' /\ flushed' >= flushed
    BY <1>1, <2>3 DEF PendClean, LogType
  <2> QED BY <1>1, <1>2, <1>3, <2>3, <2>4, <2>5, KeepUp
<1>9. CASE Flush
  <2>1. UNCHANGED <<log, live, open, pend, ents, at, mode>> /\ flushed' = Len(log)
    BY <1>9 DEF Flush
  <2>2. flushed' >= flushed
    BY <1>1, <2>1 DEF LogType
  <2> QED BY <1>1, <2>1, <2>2, KeepSame
<1> QED BY <1>4, <1>5, <1>6, <1>7, <1>8, <1>9

\* What replay does to the entry of a relation.
LEMMA RedoEntry ==
    ASSUME TypeInv, NEW n \in Server, Redo(n), NEW r \in Rel, ents'[n][r] = None,
           NEW rec, rec = log[at[n] + 1]
    PROVE  \/ Removes(rec, r)
           \/ ents[n][r] = None /\ ~(rec.op = "create" /\ rec.rel = r)
<1>1. rec \in Recs /\ RecOK(rec) /\ FileType
  BY NextRecord, TypeParts DEF TypeInv, Redo
<1>2. \/ rec.op = "add" /\ RedoAdd(n, rec)
      \/ rec.op = "delete" /\ RedoDelete(n, rec)
      \/ rec.op = "rotate" /\ CanRotate(n, rec) /\ RedoRotate(n, rec)
      \/ rec.op = "create" /\ CanCreate(n) /\ RedoCreate(n, rec)
      \/ rec.op \in {"drop", "leftover"} /\ RedoDrop(n, rec)
      \/ rec.op = "provider" /\ RedoProvider(n, rec)
      \/ rec.op = "addprovider" /\ RedoAddProvider(n, rec)
      \/ rec.op = "install" /\ RedoInstall(n, rec)
  BY DEF Redo
<1>3. CASE \/ rec.op = "add" /\ RedoAdd(n, rec)
           \/ rec.op = "provider" /\ RedoProvider(n, rec)
           \/ rec.op = "addprovider" /\ RedoAddProvider(n, rec)
  BY <1>3 DEF RedoAdd, RedoProvider, RedoAddProvider
<1>4. CASE (rec.op = "delete" /\ RedoDelete(n, rec)) \/ (rec.op = "install" /\ RedoInstall(n, rec))
  BY <1>4 DEF RedoDelete, RedoInstall, Unlink, Removes
<1>5. CASE rec.op = "rotate" /\ RedoRotate(n, rec)
  <2>1. rec.oid \in Oid /\ rec.key \in PKey /\ RotateFile(n, rec.oid, rec.key)
    BY <1>1, <1>5 DEF RecOK, RedoRotate
  <2>2. /\ rec.oid # Db => ents' = ents
        /\ rec.oid = Db => ents'[n][r] = IF ents[n][r] = None THEN None ELSE rec.key
    BY <1>1, <2>1, Rotated
  <2> QED BY <1>5, <2>1, <2>2, Names
<1>6. CASE rec.op = "create" /\ CanCreate(n) /\ RedoCreate(n, rec)
  <2>1. rec.rel \in Rel /\ SaveSmgrKey(n, rec.rel, FALSE) /\ Effective(n) # None
    BY <1>1, <1>6 DEF RecOK, RedoCreate, CanCreate
  <2>2. /\ ents'[n][rec.rel] = Effective(n)
           \/ (ents'[n][rec.rel] = ents[n][rec.rel] /\ ents[n][rec.rel] # None)
        /\ \A s \in Rel : s # rec.rel => ents'[n][s] = ents[n][s]
    BY <1>1, <2>1, Saved
  <2> QED BY <2>1, <2>2
<1>7. CASE rec.op \in {"drop", "leftover"} /\ RedoDrop(n, rec)
  <2>1. rec.rel \in Rel /\ ents' = [ents EXCEPT ![n][rec.rel] = None]
    BY <1>1, <1>7 DEF RecOK, RedoDrop
  <2>2. \A s \in Rel : s # rec.rel => ents'[n][s] = ents[n][s]
    BY <1>1, <2>1, Freed
  <2> QED BY <1>7, <2>2 DEF Removes
<1> QED BY <1>2, <1>3, <1>4, <1>5, <1>6, <1>7

LEMMA KeepRedo ==
    ASSUME TypeInv, KeepInv, LogType', NEW n \in Server, Redo(n)
    PROVE  KeepInv'
<1>1. LogType /\ ModeOK /\ live \subseteq Rel /\ Len(log) \in Nat /\ flushed \in 0 .. Len(log)
  BY TypeParts DEF TypeInv, FileType, LogType
<1>2. /\ UNCHANGED <<log, flushed, live, open, pend, mode>> /\ at' = [at EXCEPT ![n] = @ + 1]
      /\ mode[n] = "redo" /\ Replaying(n)
  BY DEF Redo, Replaying
<1>3. CASE n = Standby
  <2>1. ents'[Primary] = ents[Primary] /\ at'[Primary] = at[Primary]
    BY <1>3, RedoFrame, Names
  <2>2. flushed' >= flushed
    BY <1>1, <1>2
  <2> QED BY <1>1, <1>2, <2>1, <2>2, KeepSame
<1>4. CASE n = Primary
  <2>1. at[Primary] \in Nat /\ at'[Primary] = at[Primary] + 1 /\ at[Primary] + 1 \in 1 .. Len(log)
    BY <1>1, <1>2, <1>4, NextRecord, Names DEF LogType
  <2>2. PendClean'
    BY <1>2 DEF KeepInv, PendClean
  <2>3. ASSUME NEW r \in live
        PROVE  \E c \in 1 .. flushed : Makes(c, r) /\ (ents'[Primary][r] = None => at[Primary] + 1 < c)
    <3>1. PICK c \in 1 .. flushed : Makes(c, r) /\ (ents[Primary][r] = None => at[Primary] < c)
      BY <1>2, <1>4 DEF KeepInv
    <3>2. c \in 1 .. Len(log) /\ c \in Nat
      BY <1>1, <3>1
    <3>3. PICK rec : rec = log[at[Primary] + 1]
      OBVIOUS
    <3>4. ASSUME ents'[Primary][r] = None PROVE at[Primary] + 1 < c
      <4>1. r \in Rel
        BY <1>1
      <4>2. CASE Removes(rec, r)
        <5>1. at[Primary] + 1 \notin c + 1 .. Len(log)
          BY <3>1, <3>3, <4>2 DEF Makes
        <5>2. at[Primary] + 1 # c
          BY <3>1, <3>3, <4>2 DEF Makes, Removes
        <5> QED BY <1>1, <2>1, <3>2, <5>1, <5>2
      <4>3. CASE ents[Primary][r] = None /\ ~(rec.op = "create" /\ rec.rel = r)
        <5>1. at[Primary] + 1 # c
          BY <3>1, <3>3, <4>3 DEF Makes
        <5> QED BY <2>1, <3>1, <3>2, <4>3, <5>1
      <4> QED BY <1>4, <3>3, <3>4, <4>1, <4>2, <4>3, RedoEntry
    <3> QED BY <3>1, <3>4
  <2>4. \A c, r : Makes(c, r)' <=> Makes(c, r)
    BY <1>2 DEF Makes, Removes
  <2>5. \A r \in live' : \E c \in 1 .. flushed' :
            /\ Makes(c, r)'
            /\ mode'[Primary] # "up" /\ ents'[Primary][r] = None => at'[Primary] < c
    BY <1>2, <2>1, <2>3, <2>4
  <2>6. mode'[Primary] # "up"
    BY <1>2, <1>4
  <2> QED BY <2>2, <2>5, <2>6 DEF KeepInv
<1> QED BY <1>3, <1>4, Names

\* The records of committed relations are flushed, and the redo point is before
\* all that recovery has replayed.
LEMMA KeepCrash ==
    ASSUME TypeInv, KeepInv, LogType', NEW n \in Server, Crash(n)
    PROVE  KeepInv'
<1>1. LogType /\ ModeOK /\ FileType /\ live \subseteq Rel /\ Len(log) \in Nat /\ flushed \in 0 .. Len(log)
  BY TypeParts DEF TypeInv, FileType, LogType
<1>2. /\ UNCHANGED <<flushed, ents, live>> /\ at' = [at EXCEPT ![n] = ckpt[n]]
      /\ mode' = [mode EXCEPT ![n] = "redo"] /\ mode[n] \in {"up", "redo"}
      /\ n = Primary => open' = {} /\ pend' = None
      /\ n = Standby => UNCHANGED <<open, pend, log>>
  BY Names DEF Crash
<1>3. CASE n = Standby
  <2>1. at'[Primary] = at[Primary] /\ mode'[Primary] = mode[Primary]
    BY <1>1, <1>2, <1>3, Names DEF LogType, FileType
  <2>2. flushed' >= flushed
    BY <1>1, <1>2
  <2> QED BY <1>1, <1>2, <1>3, <2>1, <2>2, KeepSame
<1>4. CASE n = Primary
  <2>1. at'[Primary] = ckpt[Primary] /\ mode'[Primary] = "redo"
    BY <1>1, <1>2, <1>4, Names DEF LogType, FileType
  <2>2. Len(log') = flushed /\ \A i \in 1 .. Len(log') : log'[i] = log[i]
    BY <1>4, CrashLog
  <2>3. PendClean'
    BY <1>2, <1>4 DEF PendClean
  <2>4. ASSUME NEW r \in live
        PROVE  \E c \in 1 .. flushed' : Makes(c, r)' /\ (ents'[Primary][r] = None => at'[Primary] < c)
    <3>1. PICK c \in 1 .. flushed : /\ Makes(c, r)
                                    /\ mode[Primary] # "up" /\ ents[Primary][r] = None => at[Primary] < c
      BY DEF KeepInv
    <3>2. c \in Nat /\ c \in 1 .. Len(log')
      BY <1>1, <2>2, <3>1
    <3>3. \A j \in c + 1 .. Len(log') : j \in 1 .. Len(log') /\ j \in c + 1 .. Len(log)
      BY <1>1, <2>2, <3>2
    <3>4. Makes(c, r)'
      BY <2>2, <3>1, <3>2, <3>3 DEF Makes, Removes
    <3>5. ASSUME ents[Primary][r] = None PROVE ckpt[Primary] < c
      <4>1. mode[Primary] = "redo"
        BY <1>2, <1>4, <3>5 DEF KeepInv
      <4>2. at[Primary] < c /\ ckpt[Primary] <= at[Primary]
        BY <1>1, <3>1, <3>5, <4>1 DEF ModeOK
      <4>3. at[Primary] \in Nat /\ ckpt[Primary] \in Nat
        BY <1>1, Names DEF LogType
      <4> QED BY <3>2, <4>2, <4>3
    <3> QED BY <1>2, <2>1, <3>1, <3>4, <3>5
  <2>5. \A r \in live' : \E c \in 1 .. flushed' :
            /\ Makes(c, r)'
            /\ mode'[Primary] # "up" /\ ents'[Primary][r] = None => at'[Primary] < c
    BY <1>2, <2>4
  <2> QED BY <2>1, <2>3, <2>5 DEF KeepInv
<1> QED BY <1>3, <1>4, Names

LEMMA KeepEndRecovery ==
    ASSUME TypeInv, KeepInv, LogType', EndRecovery
    PROVE  KeepInv'
<1>1. LogType /\ ModeOK /\ FileType /\ live \subseteq Rel /\ Len(log) \in Nat /\ flushed \in 0 .. Len(log)
  BY TypeParts DEF TypeInv, FileType, LogType
<1>2. /\ UNCHANGED <<log, flushed, ents, live, open, pend>> /\ mode' = [mode EXCEPT ![Primary] = "up"]
      /\ mode[Primary] = "redo" /\ at[Primary] = Len(log)
  BY DEF EndRecovery
<1>3. mode'[Primary] = "up" /\ open = {}
  BY <1>1, <1>2, Names DEF FileType, ModeOK
<1>4. ASSUME NEW r \in live PROVE ents[Primary][r] # None /\ \E c \in 1 .. flushed : Makes(c, r)
  <2>1. PICK c \in 1 .. flushed : Makes(c, r) /\ (ents[Primary][r] = None => at[Primary] < c)
    BY <1>2 DEF KeepInv
  <2>2. ~(Len(log) < c)
    BY <1>1, <2>1
  <2> QED BY <1>2, <2>1, <2>2
<1>5. \A c, r : Makes(c, r)' <=> Makes(c, r)
  BY <1>2 DEF Makes, Removes
<1>6. PendClean'
  BY <1>2 DEF KeepInv, PendClean
<1> QED BY <1>2, <1>3, <1>4, <1>5, <1>6 DEF KeepInv

LEMMA KeepNext ==
    ASSUME TypeInv, FileInv, KeepInv, env.install # "any", Next
    PROVE  KeepInv'
<1>1. LogType' /\ LogType /\ FileType /\ Len(log) \in Nat /\ flushed \in 0 .. Len(log) /\ ModeOK
  BY LogNext, TypeParts DEF TypeInv, LogType
<1>2. ASSUME \/ StartBackup \/ EndBackup
             \/ \E f \in Files : ReceiveFile(f)
             \/ \E n \in Server : RedoFails(n) \/ Checkpoint(n)
      PROVE  KeepInv'
  <2>1. UNCHANGED <<log, live, open, pend>> /\ (flushed' = flushed \/ flushed' = Len(log))
    BY <1>2 DEF StartBackup, EndBackup, ReceiveFile, RedoFails, Checkpoint
  <2>2. ents'[Primary] = ents[Primary]
    BY <1>1, <1>2, Names DEF FileType, StartBackup, EndBackup, ReceiveFile, RedoFails, Checkpoint
  <2>3. at'[Primary] = at[Primary]
    BY <1>1, <1>2, Names DEF LogType, StartBackup, EndBackup, ReceiveFile, RedoFails, Checkpoint
  <2>4. mode'[Primary] = mode[Primary] \/ (mode[Primary] # "up" /\ mode'[Primary] # "up")
    BY <1>1, <1>2, Names DEF FileType, StartBackup, EndBackup, ReceiveFile, RedoFails, Checkpoint,
                             Replaying
  <2>5. flushed' >= flushed
    BY <1>1, <2>1
  <2> QED BY <1>1, <2>1, <2>2, <2>3, <2>4, <2>5, KeepSame
<1> QED BY <1>1, <1>2, KeepBegin, KeepComplete, KeepRelation, KeepRedo, KeepCrash, KeepEndRecovery DEF Next

-----------------------------------------------------------------------------
(* Replay goes on.                                                         *)

LEMMA SameEnv ==
    ASSUME Next
    PROVE  env' = env
BY DEF Next, SetKey, RotateKey, WriteHeader, LogRotate, DeleteKey, UnlinkFile, CreateRel, CommitRel,
       DropRel, FreeEntry, CreatePlain, DeleteProvider, AddProvider, Install, CleanUp, Flush,
       Redo, RedoFails, Checkpoint, Crash, EndRecovery, StartBackup, ReceiveFile, EndBackup

\* The key a server uses is the one its file names, and can be loaded.
LEMMA SimpleKey ==
    ASSUME FileType, FileInv, Simple, NEW n \in Server, NEW o \in Oid
    PROVE  Key(n, o) = hdr[n][o] /\ CanLoad(n, o)
<1>1. ServerOK(n) /\ hdr[n][o] \in PKey \cup {None} /\ ProvOf \in [PKey -> Prov]
  BY KeyRedoAssumption DEF FileInv, FileType
<1>2. cache[n][o] \in {None, hdr[n][o]} /\ provs[n] = Prov
  BY <1>1 DEF ServerOK, Simple
<1> QED BY <1>1, <1>2 DEF Key, CanLoad

\* With a header, a record that needs one can be replayed.
LEMMA CanDo ==
    ASSUME FileType, FileInv, Simple, NEW n \in Server, NEW rec \in Recs, RecOK(rec), NEW o \in Oid,
           Needs(rec, o), hdr[n][o] # None
    PROVE  /\ rec.op = "rotate" => CanRotate(n, rec)
           /\ rec.op = "create" => CanCreate(n)
<1>1. ServerOK(n) /\ provs[n] = Prov /\ ProvOf \in [PKey -> Prov]
  BY KeyRedoAssumption DEF FileInv, ServerOK
<1>2. \A p \in Oid : Key(n, p) = hdr[n][p] /\ CanLoad(n, p)
  BY SimpleKey
<1>3. ASSUME rec.op = "rotate" PROVE CanRotate(n, rec)
  <2>1. rec.oid = o /\ rec.key \in PKey
    BY <1>3 DEF Needs, RecOK
  <2>2. Openable(n, o)
    BY <1>1, <1>2, Names DEF Openable, ServerOK, Simple
  <2> QED BY <1>1, <1>2, <2>1, <2>2 DEF CanRotate
<1>4. ASSUME rec.op = "create" PROVE CanCreate(n)
  <2>1. o = Db
    BY <1>4 DEF Needs
  <2> QED BY <1>2, <2>1, Names DEF CanCreate, CanLoadEffective, Effective
<1> QED BY <1>3, <1>4

\* What a step writes into the log.
Inserted(rec) ==
    \/ rec.op = "add" /\ pend' = rec
    \/ rec.op = "rotate" /\ pend = rec
    \/ rec.op = "create" /\ open # {}
    \/ rec.op \in Ops \ {"add", "rotate", "create"}

LEMMA Written ==
    ASSUME TypeInv, Next
    PROVE  \/ log' = log
           \/ Crash(Primary)
           \/ \E rec \in Recs : log' = Append(log, rec) /\ Inserted(rec)
           \/ \E c \in Recs, d \in Recs : /\ log' = Append(Append(log, c), d)
                                          /\ Inserted(c) /\ Inserted(d)
<1> DEFINE Goal == \/ log' = log
                   \/ Crash(Primary)
                   \/ \E rec \in Recs : log' = Append(log, rec) /\ Inserted(rec)
                   \/ \E c \in Recs, d \in Recs : /\ log' = Append(Append(log, c), d)
                                                  /\ Inserted(c) /\ Inserted(d)
<1>1. LogType /\ LogOK
  BY TypeParts DEF TypeInv
<1>2. ASSUME NEW o \in Oid, NEW k \in PKey, SetKey(o, k) PROVE Goal
  <2>1. PICK rec : rec = Rec("add", o, k, None, None)
    OBVIOUS
  <2>2. rec \in Recs /\ rec.op = "add"
    BY <2>1, RecFacts DEF Ops
  <2> QED BY <1>2, <2>1, <2>2 DEF SetKey, Inserted
<1>3. CASE LogRotate \/ CleanUp
  <2>1. pend \in Recs /\ log' = Append(log, pend) /\ pend.op \in {"rotate", "install"}
    BY <1>1, <1>3 DEF LogType, LogRotate, CleanUp
  <2> QED BY <2>1 DEF Inserted, Ops
<1>4. ASSUME NEW o \in Oid, DeleteKey(o) PROVE Goal
  <2>1. PICK rec : rec = Rec("delete", o, None, None, None)
    OBVIOUS
  <2>2. rec \in Recs /\ rec.op = "delete"
    BY <2>1, RecFacts DEF Ops
  <2> QED BY <1>4, <2>1, <2>2 DEF DeleteKey, Inserted, Ops
<1>5. ASSUME NEW r \in Rel, CommitRel(r) PROVE Goal
  <2>1. PICK rec : rec = Rec("create", None, None, r, None)
    OBVIOUS
  <2>2. rec \in Recs /\ rec.op = "create"
    BY <2>1, RecFacts DEF Ops
  <2> QED BY <1>5, <2>1, <2>2 DEF CommitRel, Inserted
<1>6. ASSUME NEW r \in Rel, DropRel(r) PROVE Goal
  <2>1. PICK c \in Recs, d \in Recs :
               /\ c.op = "create" /\ d.op = "drop"
               /\ \/ log' = Append(log, d)
                  \/ r \in open /\ log' = Append(Append(log, c), d)
    BY <1>6, DropRecords
  <2>2. Inserted(d) /\ (r \in open => Inserted(c))
    BY <2>1 DEF Inserted, Ops
  <2> QED BY <2>1, <2>2
<1>7. ASSUME NEW r \in Rel, CreatePlain(r) PROVE Goal
  <2>1. PICK rec : rec = Rec("leftover", None, None, r, None)
    OBVIOUS
  <2>2. rec \in Recs /\ rec.op = "leftover"
    BY <2>1, RecFacts DEF Ops
  <2> QED BY <1>7, <2>1, <2>2 DEF CreatePlain, Inserted, Ops
<1>8. ASSUME NEW v \in Prov, DeleteProvider(v) \/ AddProvider(v) PROVE Goal
  <2>1. PICK rec : /\ rec = Rec("provider", None, None, None, v) \/ rec = Rec("addprovider", None, None, None, v)
                   /\ log' = Append(log, rec)
    BY <1>8 DEF DeleteProvider, AddProvider
  <2>2. rec \in Recs /\ rec.op \in {"provider", "addprovider"}
    BY <2>1 DEF Rec, Recs, Ops
  <2> QED BY <2>1, <2>2 DEF Inserted, Ops
<1>9. ASSUME \/ \E o \in Oid, k \in PKey : RotateKey(o, k)
             \/ WriteHeader \/ UnlinkFile \/ FreeEntry \/ Install \/ Flush
             \/ \E r \in Rel : CreateRel(r)
             \/ \E n \in Server : Redo(n) \/ RedoFails(n) \/ Checkpoint(n)
             \/ Crash(Standby) \/ EndRecovery \/ StartBackup \/ EndBackup
             \/ \E f \in Files : ReceiveFile(f)
      PROVE  log' = log
  BY <1>9, Names DEF RotateKey, WriteHeader, UnlinkFile, FreeEntry, Install, Flush, CreateRel, Redo,
           RedoFails, Checkpoint, Crash, EndRecovery, StartBackup, EndBackup, ReceiveFile
<1>10. Goal
  BY <1>2, <1>3, <1>4, <1>5, <1>6, <1>7, <1>8, <1>9, Names DEF Next
<1> QED BY <1>10

\* A record that needs a header is written when there is one; that a key is set,
\* before the file is.
NewRecord(rec) ==
    \A o \in Oid : /\ Needs(rec, o) => hdr[Primary][o] # None
                   /\ Adds(rec, o) => pend' # None /\ Adds(pend', o)

LEMMA InsertedNew ==
    ASSUME TypeInv, FileInv, KeepInv, PrimaryInv, Simple, NEW rec \in Recs, Inserted(rec)
    PROVE  NewRecord(rec)
<1>1. rec # None
  BY NoneIsNoRecord
<1>2. open # {} => hdr[Primary][Db] # None
  <2> SUFFICES ASSUME open # {} PROVE hdr[Primary][Db] # None
    OBVIOUS
  <2>1. mode[Primary] = "up" /\ open \subseteq Rel /\ ServerOK(Primary)
    BY Names DEF TypeInv, ModeOK, TypeOK, FileInv
  <2>2. \E r \in Rel : ents[Primary][r] # None
    BY <2>1 DEF KeepInv
  <2> QED BY <2>1, <2>2 DEF ServerOK, NoEntries
<1>3. \A o \in Oid : Needs(rec, o) => hdr[Primary][o] # None
  BY <1>1, <1>2, Names DEF Needs, Inserted, PrimaryInv
<1>4. \A o \in Oid : Adds(rec, o) => pend' # None /\ Adds(pend', o)
  BY <1>1, Names DEF Adds, Inserted
<1> QED BY <1>3, <1>4 DEF NewRecord

\* Every record of the next log is one of the old or a new one.
LEMMA OldOrNew ==
    ASSUME TypeInv, FileInv, KeepInv, PrimaryInv, Simple, Next, NEW i \in 1 .. Len(log')
    PROVE  \/ i \in 1 .. Len(log) /\ log'[i] = log[i]
           \/ i > Len(log) /\ ~Crash(Primary) /\ NewRecord(log'[i])
<1>1. log \in Seq(Recs) /\ Len(log) \in Nat
  BY TypeParts DEF TypeInv, LogType
<1>2. CASE log' = log
  BY <1>1, <1>2
<1>3. CASE Crash(Primary)
  <2>1. /\ Len(log') \in Nat /\ Len(log') <= Len(log) /\ \A j \in 1 .. Len(log') : log'[j] = log[j]
    BY <1>3, CrashLog, Names
  <2> QED BY <1>1, <2>1
<1>4. CASE ~Crash(Primary) /\ \E rec \in Recs : log' = Append(log, rec) /\ Inserted(rec)
  <2>1. PICK rec \in Recs : log' = Append(log, rec) /\ Inserted(rec)
    BY <1>4
  <2>2. /\ Len(log') = Len(log) + 1 /\ log'[Len(log) + 1] = rec
        /\ \A j \in 1 .. Len(log) : log'[j] = log[j]
    BY <1>1, <2>1
  <2>3. i \in 1 .. Len(log) \/ (i = Len(log) + 1 /\ i > Len(log))
    BY <1>1, <2>2
  <2> QED BY <1>4, <2>1, <2>2, <2>3, InsertedNew
<1>5. CASE ~Crash(Primary) /\ \E c \in Recs, d \in Recs : /\ log' = Append(Append(log, c), d)
                                                         /\ Inserted(c) /\ Inserted(d)
  <2>1. PICK c \in Recs, d \in Recs : /\ log' = Append(Append(log, c), d)
                                      /\ Inserted(c) /\ Inserted(d)
    BY <1>5
  <2>2. /\ Len(log') = Len(log) + 2 /\ log'[Len(log) + 1] = c /\ log'[Len(log) + 2] = d
        /\ \A j \in 1 .. Len(log) : log'[j] = log[j]
    BY <1>1, <2>1
  <2>3. i \in 1 .. Len(log) \/ ((i = Len(log) + 1 \/ i = Len(log) + 2) /\ i > Len(log))
    BY <1>1, <2>2
  <2> QED BY <1>5, <2>1, <2>2, <2>3, InsertedNew
<1> QED BY <1>2, <1>3, <1>4, <1>5, Written

LEMMA OnlyMore ==
    ASSUME TypeInv, Next, Primary \notin env.crash
    PROVE  Extends
<1>1. LogType /\ log \in Seq(Recs) /\ Len(log) \in Nat /\ ~Crash(Primary)
  BY TypeParts DEF TypeInv, LogType, Crash
<1>2. CASE log' = log
  BY <1>1, <1>2 DEF Extends
<1>3. CASE \E rec \in Recs : log' = Append(log, rec)
  BY <1>1, <1>3 DEF Extends
<1>4. CASE \E c \in Recs, d \in Recs : log' = Append(Append(log, c), d)
  <2>1. Len(log') = Len(log) + 2 /\ \A j \in 1 .. Len(log) : log'[j] = log[j]
    BY <1>1, <1>4
  <2> QED BY <1>1, <2>1 DEF Extends
<1> QED BY <1>1, <1>2, <1>3, <1>4, Written

\* The headers of server n, as a record of the log changes them.
LEMMA RedoHeader ==
    ASSUME TypeInv, FileInv, Simple, NEW n \in Server, Redo(n), NEW o \in Oid,
           NEW rec, rec = log[at[n] + 1]
    PROVE  /\ hdr[n][o] # None => hdr'[n][o] # None
           /\ Adds(rec, o) => hdr'[n][o] # None
           /\ hdr[n][o] = None /\ hdr'[n][o] # None /\ env.default = {} => Adds(rec, o)
<1>1. rec \in Recs /\ RecOK(rec) /\ FileType /\ hdr \in [Server -> [Oid -> MaybeKey]]
  BY NextRecord, TypeParts DEF TypeInv, Redo, FileType, MaybeKey
<1>2. rec.op # "delete" /\ rec.op # "install"
  BY <1>1 DEF RecOK, Simple
<1>3. \/ rec.op = "add" /\ RedoAdd(n, rec)
      \/ rec.op = "rotate" /\ CanRotate(n, rec) /\ RedoRotate(n, rec)
      \/ rec.op = "create" /\ CanCreate(n) /\ RedoCreate(n, rec)
      \/ rec.op \in {"drop", "leftover"} /\ RedoDrop(n, rec)
      \/ rec.op = "provider" /\ RedoProvider(n, rec)
      \/ rec.op = "addprovider" /\ RedoAddProvider(n, rec)
  BY <1>2 DEF Redo
<1>4. CASE rec.op = "add" /\ RedoAdd(n, rec)
  <2>1. rec.key \in MaybeKey /\ rec.key # None /\ rec.oid \in Oid
    BY <1>1, <1>4, Names DEF RecOK, MaybeKey
  <2>2. hdr' = [hdr EXCEPT ![n][rec.oid] = IF @ = None THEN rec.key ELSE @]
    BY <1>4 DEF RedoAdd
  <2>3. /\ hdr'[n][rec.oid] = IF hdr[n][rec.oid] = None THEN rec.key ELSE hdr[n][rec.oid]
        /\ \A p \in Oid : p # rec.oid => hdr'[n][p] = hdr[n][p]
    BY <1>1, <2>1, <2>2
  <2> QED BY <1>4, <2>1, <2>3 DEF Adds
<1>5. CASE rec.op = "rotate" /\ CanRotate(n, rec) /\ RedoRotate(n, rec)
  <2>1. rec.key \in PKey /\ rec.key # None /\ rec.oid \in Oid /\ RotateFile(n, rec.oid, rec.key)
    BY <1>1, <1>5, Names DEF RecOK, RedoRotate
  <2>2. /\ hdr'[n][rec.oid] = rec.key
        /\ \A p \in Oid : p # rec.oid => hdr'[n][p] = hdr[n][p]
    BY <1>1, <2>1, Rotated
  <2>3. hdr[n][rec.oid] # None
    BY <1>1, <1>5, <2>1, SimpleKey DEF CanRotate
  <2> QED BY <1>5, <2>1, <2>2, <2>3 DEF Adds
<1>6. CASE rec.op = "create" /\ CanCreate(n) /\ RedoCreate(n, rec)
  <2>1. rec.rel \in Rel /\ SaveSmgrKey(n, rec.rel, FALSE) /\ Effective(n) # None
    BY <1>1, <1>6 DEF RecOK, RedoCreate, CanCreate
  <2>2. /\ hdr'[n][Db] = IF hdr[n][Db] = None THEN Effective(n) ELSE hdr[n][Db]
        /\ hdr'[n][Default] = hdr[n][Default]
    BY <1>1, <2>1, Saved
  <2>3. env.default = {} => hdr[n][Default] = None
    BY DEF FileInv, ServerOK
  <2>4. env.default = {} => hdr[n][Db] # None
    BY <1>1, <2>1, <2>3, SimpleKey, Names DEF Effective
  <2> QED BY <1>6, <2>1, <2>2, <2>4, Names DEF Adds
<1>7. CASE rec.op \notin {"add", "rotate", "create"} /\ hdr' = hdr
  BY <1>7 DEF Adds
<1> QED BY <1>3, <1>4, <1>5, <1>6, <1>7 DEF RedoDrop, RedoProvider, RedoAddProvider

\* The headers of the primary, and its change under way.
Headers(o) ==
    /\ hdr[Primary][o] # None => hdr'[Primary][o] # None
    /\ hdr[Primary][o] = None /\ hdr'[Primary][o] # None /\ env.default = {} =>
           (pend # None /\ Adds(pend, o)) \/ \E j \in 1 .. Len(log) : Adds(log[j], o)
    /\ pend # None /\ Adds(pend, o) => hdr'[Primary][o] # None \/ pend' = pend \/ Crash(Primary)
    /\ pend' # None /\ pend'.op = "rotate" /\ pend'.oid = o => hdr'[Primary][o] # None \/ pend' = pend
    /\ pend' # None /\ Adds(pend', o) => pend' = pend \/ log' = Append(log, pend')

LEMMA PrimaryHeader ==
    ASSUME TypeInv, FileInv, Simple, Next, NEW o \in Oid
    PROVE  Headers(o)
<1>1. /\ FileType /\ LogType /\ LogOK /\ hdr \in [Server -> [Oid -> MaybeKey]] /\ Primary \in Server
      /\ ServerOK(Primary)
  BY TypeParts, Names DEF TypeInv, FileType, MaybeKey, FileInv
<1>2. CASE WriteHeader
  <2>1. /\ pend.oid \in Oid /\ pend.key \in MaybeKey /\ pend.key # None /\ pend.op = "add" /\ pend # None
    BY <1>1, <1>2, Names DEF WriteHeader, LogOK, RecOK, MaybeKey
  <2>2. hdr' = [hdr EXCEPT ![Primary][pend.oid] = pend.key] /\ pend' = None
    BY <1>2 DEF WriteHeader
  <2>3. /\ hdr'[Primary][pend.oid] = pend.key
        /\ \A p \in Oid : p # pend.oid => hdr'[Primary][p] = hdr[Primary][p]
    BY <1>1, <2>1, <2>2
  <2> QED BY <2>1, <2>2, <2>3 DEF Headers, Adds
<1>3. ASSUME NEW p \in Oid, NEW k \in PKey, RotateKey(p, k) PROVE Headers(o)
  <2>1. PICK rec : rec = Rec("rotate", p, k, None, None)
    OBVIOUS
  <2>2. rec \in Recs /\ rec.op = "rotate" /\ rec.oid = p /\ rec.key = k
    BY <2>1, RecFacts DEF Ops
  <2>3. /\ RotateFile(Primary, p, k) /\ pend' = rec /\ Key(Primary, p) # None /\ pend = None
    BY <1>3, <2>1 DEF RotateKey
  <2>4. hdr'[Primary][p] = k /\ \A q \in Oid : q # p => hdr'[Primary][q] = hdr[Primary][q]
    BY <1>1, <2>3, Rotated
  <2>5. hdr[Primary][p] # None /\ k # None
    BY <1>1, <2>3, SimpleKey, Names
  <2> QED BY <2>2, <2>3, <2>4, <2>5 DEF Headers, Adds
<1>4. CASE UnlinkFile \/ CleanUp
  <2>1. pend # None /\ pend.op \in {"delete", "install"} /\ RecOK(pend)
    BY <1>1, <1>4 DEF UnlinkFile, CleanUp, LogOK
  <2> QED BY <2>1 DEF RecOK, Simple
<1>5. ASSUME NEW r \in Rel, CreateRel(r) PROVE Headers(o)
  <2>1. /\ SaveSmgrKey(Primary, r, TRUE) /\ Effective(Primary) # None /\ pend' = pend /\ pend = None
    BY <1>5 DEF CreateRel
  <2>2. /\ hdr'[Primary][Db] = IF hdr[Primary][Db] = None THEN Effective(Primary) ELSE hdr[Primary][Db]
        /\ hdr'[Primary][Default] = hdr[Primary][Default]
    BY <1>1, <2>1, Saved
  <2>3. env.default = {} => hdr[Primary][Default] = None
    BY <1>1 DEF ServerOK
  <2>4. env.default = {} => hdr[Primary][Db] # None
    BY <1>1, <2>1, <2>3, SimpleKey, Names DEF Effective
  <2> QED BY <2>1, <2>2, <2>4, Names DEF Headers
<1>6. ASSUME NEW n \in Server, Redo(n) PROVE Headers(o)
  <2>1. pend' = pend
    BY <1>6 DEF Redo
  <2>2. CASE n = Primary
    <3>1. PICK rec : rec = log[at[n] + 1]
      OBVIOUS
    <3>2. at[n] + 1 \in 1 .. Len(log)
      BY <1>6, NextRecord DEF Redo
    <3>3. /\ hdr[Primary][o] # None => hdr'[Primary][o] # None
          /\ hdr[Primary][o] = None /\ hdr'[Primary][o] # None /\ env.default = {} => Adds(rec, o)
      BY <1>6, <2>2, <3>1, RedoHeader
    <3> QED BY <2>1, <3>1, <3>2, <3>3 DEF Headers
  <2>3. CASE n # Primary
    <3>1. hdr'[Primary] = hdr[Primary]
      BY <1>1, <1>6, <2>3, RedoFrame
    <3> QED BY <2>1, <3>1 DEF Headers
  <2> QED BY <2>2, <2>3
<1>7. ASSUME NEW p \in Oid, NEW k \in PKey, SetKey(p, k) PROVE Headers(o)
  <2>1. PICK rec : rec = Rec("add", p, k, None, None)
    OBVIOUS
  <2>2. rec \in Recs /\ rec.op = "add"
    BY <2>1, RecFacts DEF Ops
  <2>3. hdr' = hdr /\ pend = None /\ pend' = rec /\ log' = Append(log, rec)
    BY <1>7, <2>1 DEF SetKey
  <2> QED BY <2>2, <2>3 DEF Headers
<1>8. ASSUME (\E p \in Oid : DeleteKey(p)) \/ (\E r \in Rel : DropRel(r)) \/ Install PROVE Headers(o)
  <2>1. hdr' = hdr /\ pend = None /\ \E op \in {"delete", "drop", "install"} :
                                         \E p \in Oid \cup {None}, r \in Rel \cup {None} :
                                             pend' = Rec(op, p, None, r, None)
    BY <1>8, Names DEF DeleteKey, DropRel, Install
  <2>2. pend'.op \in {"delete", "drop", "install"}
    BY <2>1 DEF Rec
  <2> QED BY <2>1, <2>2 DEF Headers, Adds
<1>9. ASSUME FreeEntry \/ LogRotate PROVE Headers(o)
  <2>1. hdr' = hdr /\ pend' = None /\ pend.op \in {"drop", "rotate"}
    BY <1>9 DEF FreeEntry, LogRotate
  <2> QED BY <2>1 DEF Headers, Adds
<1>10. ASSUME \/ Flush \/ EndRecovery \/ StartBackup \/ EndBackup
              \/ \E r \in Rel : CommitRel(r) \/ CreatePlain(r)
              \/ \E v \in Prov : DeleteProvider(v) \/ AddProvider(v)
              \/ \E n \in Server : RedoFails(n) \/ Checkpoint(n)
              \/ \E f \in Files : ReceiveFile(f)
       PROVE  Headers(o)
  <2>1. hdr'[Primary] = hdr[Primary]
    BY <1>1, <1>10, Names DEF Flush, EndRecovery, StartBackup, EndBackup, CommitRel, CreatePlain,
           DeleteProvider, AddProvider, RedoFails, Checkpoint, ReceiveFile
  <2>2. pend' = pend
    BY <1>10 DEF Flush, EndRecovery, StartBackup, EndBackup, CommitRel, CreatePlain,
           DeleteProvider, AddProvider, RedoFails, Checkpoint, ReceiveFile
  <2> QED BY <2>1, <2>2 DEF Headers
<1>11. ASSUME NEW n \in Server, Crash(n) PROVE Headers(o)
  <2>1. hdr' = hdr /\ (n = Standby => pend' = pend) /\ (n = Primary => pend' = None)
    BY <1>11, Names DEF Crash
  <2> QED BY <1>11, <2>1, Names DEF Headers
<1> QED BY <1>2, <1>3, <1>4, <1>5, <1>6, <1>7, <1>8, <1>9, <1>10, <1>11 DEF Next

LEMMA PrimaryNext ==
    ASSUME TypeInv, FileInv, env.install # "any" => KeepInv, PrimaryInv, Next
    PROVE  PrimaryInv'
<1>1. env' = env
  BY SameEnv
<1> SUFFICES ASSUME Simple, NEW o \in Oid
             PROVE  /\ \A i \in 1 .. Len(log') : Needs(log'[i], o) => hdr'[Primary][o] # None
                    /\ pend' # None /\ pend'.op = "rotate" /\ pend'.oid = o => hdr'[Primary][o] # None
  BY <1>1 DEF PrimaryInv, Simple, Needs
<1>2. KeepInv /\ Headers(o)
  BY PrimaryHeader DEF Simple
<1>3. ASSUME NEW i \in 1 .. Len(log'), Needs(log'[i], o) PROVE hdr'[Primary][o] # None
  <2>1. CASE i \in 1 .. Len(log) /\ log'[i] = log[i]
    BY <1>2, <1>3, <2>1 DEF PrimaryInv, Headers
  <2>2. CASE NewRecord(log'[i])
    BY <1>2, <1>3, <2>2 DEF NewRecord, Headers
  <2> QED BY <1>2, <2>1, <2>2, OldOrNew
<1>4. pend' # None /\ pend'.op = "rotate" /\ pend'.oid = o => hdr'[Primary][o] # None
  BY <1>2 DEF PrimaryInv, Headers
<1> QED BY <1>3, <1>4

\* The part of StandbyInv that is about the primary and its log.
KeyLogged(o) ==
    /\ HasKey(o) <=> \E j \in 1 .. Len(log) : Adds(log[j], o)
    /\ \A i \in 1 .. Len(log) : Needs(log[i], o) => \E j \in 1 .. i - 1 : Adds(log[j], o)

KeyCopied(o) ==
    \A j \in 1 .. at[Standby] : Adds(log[j], o) =>
        IF o \in left THEN hdr[Primary][o] # None ELSE hdr[Standby][o] # None

LEMMA StandbyParts == StandbyInv <=> (Followed => \A o \in Oid : KeyLogged(o) /\ KeyCopied(o))
BY DEF StandbyInv, KeyLogged, KeyCopied

LEMMA LoggedNext ==
    ASSUME TypeInv, FileInv, KeepInv, PrimaryInv, Followed, Next, NEW o \in Oid, KeyLogged(o)
    PROVE  KeyLogged(o)'
<1>1. Simple /\ Primary \notin env.crash /\ env.default = {} /\ ~Crash(Primary)
  BY DEF Followed, Crash
<1>2. Headers(o) /\ Extends /\ Len(log) \in Nat /\ LogType /\ LogType'
  BY <1>1, PrimaryHeader, OnlyMore, LogNext, TypeParts DEF TypeInv, LogType
<1>3. Len(log') \in Nat /\ Len(log') >= Len(log) /\ \A j \in 1 .. Len(log) : log'[j] = log[j]
  BY <1>2 DEF Extends, LogType
<1>4. ASSUME NEW j \in 1 .. Len(log), Adds(log[j], o)
      PROVE  \E i \in 1 .. Len(log') : Adds(log'[i], o)
  <2>1. j \in 1 .. Len(log') /\ log'[j] = log[j]
    BY <1>2, <1>3
  <2> QED BY <1>4, <2>1
<1>5. ASSUME HasKey(o)' PROVE \E i \in 1 .. Len(log') : Adds(log'[i], o)
  <2>1. CASE hdr'[Primary][o] # None
    <3>1. HasKey(o) \/ \E j \in 1 .. Len(log) : Adds(log[j], o)
      BY <1>1, <1>2, <2>1 DEF Headers, HasKey
    <3> QED BY <1>4, <3>1 DEF KeyLogged
  <2>2. CASE pend' # None /\ Adds(pend', o)
    <3>1. CASE pend' = pend
      <4>1. HasKey(o)
        BY <2>2, <3>1 DEF HasKey
      <4> QED BY <1>4, <4>1 DEF KeyLogged
    <3>2. CASE log' = Append(log, pend')
      <4>1. pend' \in Recs /\ log \in Seq(Recs)
        BY <1>2, <2>2 DEF LogType
      <4>2. log'[Len(log) + 1] = pend' /\ Len(log') = Len(log) + 1
        BY <3>2, <4>1
      <4>3. Len(log) + 1 \in 1 .. Len(log')
        BY <1>2, <4>2
      <4> QED BY <2>2, <4>2, <4>3
    <3> QED BY <1>2, <2>2, <3>1, <3>2 DEF Headers
  <2> QED BY <1>5, <2>1, <2>2 DEF HasKey, Adds
<1>6. ASSUME NEW j \in 1 .. Len(log'), Adds(log'[j], o) PROVE HasKey(o)'
  <2>1. CASE j \in 1 .. Len(log) /\ log'[j] = log[j]
    <3>1. HasKey(o)
      BY <1>6, <2>1 DEF KeyLogged
    <3> QED BY <1>1, <1>2, <3>1 DEF HasKey, Headers, Adds
  <2>2. CASE NewRecord(log'[j])
    BY <1>6, <2>2 DEF NewRecord, HasKey, Adds
  <2> QED BY <1>1, <2>1, <2>2, OldOrNew
<1>7. ASSUME NEW i \in 1 .. Len(log'), Needs(log'[i], o)
      PROVE  \E j \in 1 .. i - 1 : Adds(log'[j], o)
  <2>1. CASE i \in 1 .. Len(log) /\ log'[i] = log[i]
    <3>1. PICK j \in 1 .. i - 1 : Adds(log[j], o)
      BY <1>7, <2>1 DEF KeyLogged
    <3>2. j \in 1 .. Len(log)
      BY <1>2, <2>1, <3>1
    <3> QED BY <1>3, <3>1, <3>2
  <2>2. CASE i > Len(log) /\ NewRecord(log'[i])
    <3>1. HasKey(o)
      BY <1>7, <2>2 DEF NewRecord, HasKey
    <3>2. PICK j \in 1 .. Len(log) : Adds(log[j], o)
      BY <3>1 DEF KeyLogged
    <3>3. j \in 1 .. i - 1
      BY <1>2, <1>3, <2>2, <3>2
    <3> QED BY <1>3, <3>2, <3>3
  <2> QED BY <1>1, <2>1, <2>2, OldOrNew
<1>8. (HasKey(o)' <=> \E j \in 1 .. Len(log') : Adds(log'[j], o))
  BY <1>5, <1>6
<1> QED BY <1>7, <1>8 DEF KeyLogged, Needs, Adds

LEMMA CopiedNext ==
    ASSUME TypeInv, FileInv, PrimaryInv, Followed, Next, NEW o \in Oid, KeyLogged(o), KeyCopied(o)
    PROVE  KeyCopied(o)'
<1>1. /\ Simple /\ Primary \notin env.crash /\ env.default = {} /\ ~Crash(Primary)
      /\ env.backup # "any"
  BY DEF Followed, Crash
<1>2. Headers(o) /\ Extends /\ Len(log) \in Nat /\ LogType /\ FileType /\ ModeOK
  BY <1>1, PrimaryHeader, OnlyMore, TypeParts DEF TypeInv, LogType
<1>3. at[Standby] \in 0 .. Len(log) /\ at[Standby] \in Nat
  BY <1>2, Names DEF LogType
<1>4. hdr[Primary][o] # None => hdr'[Primary][o] # None
  BY <1>2 DEF Headers
<1>5. ASSUME at'[Standby] \in Nat, at'[Standby] <= at[Standby], left' = left,
             hdr[Standby][o] # None => hdr'[Standby][o] # None
      PROVE  KeyCopied(o)'
  <2>1. \A j \in 1 .. at'[Standby] : j \in 1 .. at[Standby] /\ log'[j] = log[j]
    BY <1>2, <1>3, <1>5 DEF Extends
  <2> QED BY <1>4, <1>5, <2>1 DEF KeyCopied, Adds
<1>6. CASE PrimaryStep
  BY <1>3, <1>5, <1>6, PrimaryFrame
<1>7. CASE Redo(Standby)
  <2>1. PICK rec : rec = log[at[Standby] + 1]
    OBVIOUS
  <2>2. /\ hdr[Standby][o] # None => hdr'[Standby][o] # None
        /\ Adds(rec, o) => hdr'[Standby][o] # None
    BY <1>1, <1>7, <2>1, RedoHeader, Names
  <2>3. at' = [at EXCEPT ![Standby] = @ + 1] /\ mode[Standby] = "redo" /\ UNCHANGED <<log, left>>
    BY <1>7 DEF Redo, Replaying
  <2>4. left = {} /\ at'[Standby] = at[Standby] + 1
    BY <1>2, <2>3, Names DEF ModeOK, LogType
  <2>5. ASSUME NEW j \in 1 .. at'[Standby], Adds(log'[j], o) PROVE hdr'[Standby][o] # None
    <3>1. j \in 1 .. at[Standby] \/ j = at[Standby] + 1
      BY <1>3, <2>4
    <3>2. log'[j] = log[j]
      BY <2>3
    <3> QED BY <2>1, <2>2, <2>4, <2>5, <3>1, <3>2 DEF KeyCopied
  <2> QED BY <2>3, <2>4, <2>5 DEF KeyCopied, Adds
<1>8. ASSUME Redo(Primary) PROVE KeyCopied(o)'
  <2>1. hdr'[Standby] = hdr[Standby] /\ at'[Standby] = at[Standby] /\ left' = left
    BY <1>8, RedoFrame, Names DEF Redo
  <2> QED BY <1>3, <1>5, <2>1
<1>9. ASSUME \/ EndBackup \/ EndRecovery
             \/ \E n \in Server : RedoFails(n) \/ Checkpoint(n)
      PROVE  KeyCopied(o)'
  <2>1. UNCHANGED <<hdr, at, left>>
    BY <1>9 DEF EndBackup, EndRecovery, RedoFails, Checkpoint
  <2> QED BY <1>3, <1>5, <2>1
<1>10. CASE Crash(Standby)
  <2>1. at' = [at EXCEPT ![Standby] = ckpt[Standby]] /\ UNCHANGED <<hdr, left>>
    BY <1>10 DEF Crash
  <2>2. at'[Standby] = ckpt[Standby] /\ ckpt[Standby] \in Nat /\ ckpt[Standby] <= at[Standby]
    BY <1>2, <2>1, Names DEF LogType, ModeOK
  <2> QED BY <1>5, <2>1, <2>2
<1>11. CASE StartBackup
  <2>1. /\ mode[Standby] = "none" /\ (env.backup = "between" => pend = None)
        /\ at' = [at EXCEPT ![Standby] = Len(log)] /\ left' = Files /\ UNCHANGED <<log, hdr>>
    BY <1>11 DEF StartBackup
  <2>2. pend = None
    <3>1. env.backup # "none" /\ env \in Scenarios
      BY <1>2, <2>1 DEF ModeOK, FileType
    <3>2. env.backup \in {"none", "between", "any"}
      BY <3>1, KeyRedoAssumption
    <3> QED BY <1>1, <2>1, <3>1, <3>2
  <2>3. at'[Standby] = Len(log) /\ o \in left'
    BY <1>2, <2>1, Names DEF LogType, Files
  <2>4. \A j \in 1 .. Len(log) : Adds(log[j], o) => hdr[Primary][o] # None
    BY <2>2 DEF KeyLogged, HasKey
  <2> QED BY <2>1, <2>3, <2>4 DEF KeyCopied, Adds
<1>12. ASSUME NEW f \in Files, ReceiveFile(f) PROVE KeyCopied(o)'
  <2>1. /\ f \in left /\ left' = left \ {f} /\ UNCHANGED <<log, at>>
        /\ hdr' = IF f \in Oid THEN [hdr EXCEPT ![Standby][f] = hdr[Primary][f]] ELSE hdr
    BY <1>12 DEF ReceiveFile
  <2>2. CASE f = o
    <3>1. hdr'[Standby][o] = hdr[Primary][o]
      BY <1>2, <2>1, <2>2, Names DEF FileType
    <3>2. o \notin left' /\ o \in left
      BY <2>1, <2>2
    <3> QED BY <2>1, <3>1, <3>2 DEF KeyCopied, Adds
  <2>3. CASE f # o
    <3>1. hdr'[Standby][o] = hdr[Standby][o] /\ hdr'[Primary][o] = hdr[Primary][o]
      BY <1>2, <2>1, <2>3, Names DEF FileType
    <3>2. o \in left' <=> o \in left
      BY <2>1, <2>3
    <3> QED BY <2>1, <3>1, <3>2 DEF KeyCopied, Adds
  <2> QED BY <2>2, <2>3
<1> QED BY <1>1, <1>6, <1>7, <1>8, <1>9, <1>10, <1>11, <1>12, Names DEF Next, PrimaryStep

LEMMA StandbyNext ==
    ASSUME TypeInv, FileInv, env.install # "any" => KeepInv, PrimaryInv, StandbyInv, Next
    PROVE  StandbyInv'
<1>1. env' = env
  BY SameEnv
<1>2. ASSUME Followed, NEW o \in Oid PROVE KeyLogged(o)' /\ KeyCopied(o)'
  <2>1. KeepInv /\ KeyLogged(o) /\ KeyCopied(o)
    BY <1>2, StandbyParts DEF Followed, Simple
  <2> QED BY <1>2, <2>1, LoggedNext, CopiedNext
<1>3. Followed' <=> Followed
  BY <1>1 DEF Followed, Simple
<1> QED BY <1>2, <1>3 DEF StandbyInv, KeyLogged, KeyCopied

LEMMA GoesOnNext ==
    ASSUME TypeInv, FileInv, PrimaryInv, StandbyInv, GoesOn, Next
    PROVE  GoesOn'
<1>1. FileType /\ LogType /\ ModeOK /\ Len(log) \in Nat
  BY TypeParts DEF TypeInv, LogType
<1>2. env' = env
  BY SameEnv
<1>3. ASSUME NEW n \in Server, RedoFails(n), Simple, n = Standby => Followed PROVE FALSE
  <2>1. PICK i, rec : i = at[n] + 1 /\ rec = log[at[n] + 1]
    OBVIOUS
  <2>2. i \in 1 .. Len(log) /\ rec \in Recs /\ RecOK(rec) /\ at[n] \in Nat
    BY <1>1, <1>3, <2>1, NextRecord DEF RedoFails, LogType
  <2>3. (rec.op = "rotate" /\ ~CanRotate(n, rec)) \/ (rec.op = "create" /\ ~CanCreate(n))
    BY <1>3, <2>1 DEF RedoFails
  <2>4. PICK o \in Oid : Needs(rec, o)
    BY <2>2, <2>3, Names DEF Needs, RecOK
  <2>5. CASE n = Primary
    <3>1. hdr[n][o] # None
      BY <1>3, <2>1, <2>2, <2>4, <2>5 DEF PrimaryInv
    <3> QED BY <1>1, <1>3, <2>2, <2>3, <2>4, <3>1, CanDo
  <2>6. CASE n = Standby
    <3>1. KeyLogged(o) /\ KeyCopied(o)
      BY <1>3, <2>6, StandbyParts
    <3>2. PICK j \in 1 .. i - 1 : Adds(log[j], o)
      BY <2>1, <2>2, <2>4, <3>1 DEF KeyLogged
    <3>3. j \in 1 .. at[Standby]
      BY <2>1, <2>2, <2>6, <3>2
    <3>4. left = {}
      BY <1>1, <1>3, <2>6 DEF ModeOK, RedoFails, Replaying
    <3>5. hdr[n][o] # None
      BY <2>6, <3>1, <3>2, <3>3, <3>4 DEF KeyCopied
    <3> QED BY <1>1, <1>3, <2>2, <2>3, <2>4, <3>5, CanDo
  <2> QED BY <2>5, <2>6, Names
<1>4. ASSUME ~\E n \in Server : RedoFails(n), NEW n \in Server, mode[n] # "failed"
      PROVE  mode'[n] # "failed"
  <2>1. mode' = mode \/ \E m \in Server, s \in {"up", "redo", "backup"} :
                            mode' = [mode EXCEPT ![m] = s]
    BY <1>4, Names
       DEF Next, SetKey, RotateKey, WriteHeader, LogRotate, DeleteKey, UnlinkFile, CreateRel, CommitRel,
           DropRel, FreeEntry, CreatePlain, DeleteProvider, AddProvider, Install, CleanUp, Flush,
           Redo, Checkpoint, Crash, EndRecovery, StartBackup, ReceiveFile, EndBackup
  <2> QED BY <1>1, <1>4, <2>1 DEF FileType
<1>5. ASSUME NEW n \in Server, RedoFails(n), NEW m \in Server, m # n
      PROVE  mode'[m] = mode[m]
  BY <1>1, <1>5 DEF FileType, RedoFails
<1>6. Simple => mode'[Primary] # "failed"
  <2> SUFFICES ASSUME Simple PROVE mode'[Primary] # "failed"
    OBVIOUS
  <2>1. mode[Primary] # "failed" /\ ~RedoFails(Primary)
    BY <1>3, Names DEF GoesOn
  <2> QED BY <1>4, <1>5, <2>1, Names
<1>7. Followed => mode'[Standby] # "failed"
  <2> SUFFICES ASSUME Followed PROVE mode'[Standby] # "failed"
    OBVIOUS
  <2>1. mode[Standby] # "failed" /\ ~RedoFails(Standby)
    BY <1>3, Names DEF GoesOn, Followed
  <2> QED BY <1>4, <1>5, <2>1, Names
<1> QED BY <1>2, <1>6, <1>7 DEF GoesOn, Followed, Simple

-----------------------------------------------------------------------------
(* The invariant.                                                          *)

LEMMA InitIInv ==
    ASSUME Init
    PROVE  IInv
<1>1. /\ log = << >> /\ Len(log) = 0 /\ pend = None /\ live = {} /\ open = {} /\ left = {}
      /\ \A n \in Server : /\ \A o \in Oid : hdr[n][o] = None /\ cache[n][o] = None
                           /\ \A r \in Rel : ents[n][r] = None
                           /\ provs[n] = Prov /\ ckpt[n] = 0 /\ at[n] = 0
      /\ flushed = 0
  BY DEF Init
<1>2. /\ mode[Primary] = "up" /\ mode[Standby] \in {"redo", "none"}
      /\ mode[Standby] = "none" => env.backup # "none"
      /\ mode \in [Server -> {"up", "redo", "failed", "none", "backup"}]
  BY Names DEF Init
<1>3. LogType /\ FileType
  <2>1. log \in Seq(Recs) /\ Len(log) = 0
    BY <1>1
  <2>2. LogType
    BY <2>1 DEF Init, LogType
  <2>3. FileType
    BY <1>1, <1>2 DEF Init, FileType
  <2> QED BY <2>2, <2>3
<1>4. TypeInv
  <2>1. LogOK
    BY <1>1 DEF LogOK
  <2>2. ModeOK
    BY <1>1, <1>2, Names DEF ModeOK
  <2> QED BY <1>3, <2>1, <2>2, TypeParts DEF TypeInv
<1>5. FileInv
  BY <1>1, Names DEF FileInv, ServerOK, NoEntries
<1>6. KeepInv
  BY <1>1 DEF KeepInv, PendClean
<1>7. PrimaryInv
  BY <1>1 DEF PrimaryInv
<1>8. StandbyInv
  <2>1. 1 .. Len(log) = {} /\ 1 .. at[Standby] = {}
    BY <1>1, Names
  <2> QED BY <1>1, <2>1, Names DEF StandbyInv, HasKey
<1>9. GoesOn
  BY <1>2 DEF GoesOn
<1> QED BY <1>4, <1>5, <1>6, <1>7, <1>8, <1>9 DEF IInv

LEMMA NextIInv ==
    ASSUME IInv, [Next]_vars
    PROVE  IInv'
<1>1. CASE Next
  <2>1. TypeInv' /\ FileInv' /\ env' = env
    BY <1>1, TypeNext, SameEnv DEF IInv
  <2>2. env.install # "any" => KeepInv'
    BY <1>1, KeepNext DEF IInv
  <2>3. PrimaryInv' /\ StandbyInv' /\ GoesOn'
    BY <1>1, PrimaryNext, StandbyNext, GoesOnNext DEF IInv
  <2> QED BY <2>1, <2>2, <2>3 DEF IInv
<1>2. CASE UNCHANGED vars
  <2>1. TypeInv' /\ FileInv'
    BY <1>2, ZenonT(40) DEF vars, IInv, TypeInv, TypeOK, LogOK, RecOK, ModeOK, FileInv, ServerOK, NoEntries, Simple
  <2>2. env'.install # "any" => KeepInv'
    BY <1>2 DEF vars, IInv, KeepInv, PendClean, Makes, Removes
  <2>3. PrimaryInv' /\ StandbyInv' /\ GoesOn'
    BY <1>2 DEF vars, IInv, PrimaryInv, StandbyInv, GoesOn, Followed, Simple, Needs, Adds, HasKey
  <2> QED BY <2>1, <2>2, <2>3 DEF IInv
<1> QED BY <1>1, <1>2

LEMMA AlwaysIInv == Spec => []IInv
<1>1. Init => IInv
  BY InitIInv
<1>2. IInv /\ [Next]_vars => IInv'
  BY NextIInv
<1> QED BY <1>1, <1>2, PTL DEF Spec

\* On the primary and on the standby, whatever was replayed twice, lost in a crash
\* or copied by a backup, every relation key is wrapped with the principal key
\* the header of its file names, as long as no principal key is deleted.
THEOREM RedoAlwaysUnderHeader == Spec => []EntriesUnderHeader
<1>1. IInv => EntriesUnderHeader
  BY DEF IInv, TypeInv, FileInv, ServerOK, EntriesUnderHeader
<1> QED BY <1>1, AlwaysIInv, PTL

\* No crash recovery costs a committed relation its key, unless a rolled-back
\* transaction has dropped the extension and installed it: that removes the key
\* file of relations that come back.
THEOREM RecoveryAlwaysKeeps == Spec => [](env.install # "any" => RecoveryKeepsKeys)
<1>1. IInv => (env.install # "any" => RecoveryKeepsKeys)
  BY DEF IInv, KeepInv, RecoveryKeepsKeys
<1> QED BY <1>1, AlwaysIInv, PTL

\* Replay never stops at a key record: not in the crash recovery of the primary,
\* however the standby is made, and not on the standby, unless its backup may begin
\* between the record of a key and the file.
THEOREM ReplayAlwaysGoesOn ==
    Spec => []((env.backup # "any" => ReplayGoesOn) /\ (Simple => mode[Primary] # "failed"))
<1>1. IInv => (env.backup # "any" => ReplayGoesOn) /\ (Simple => mode[Primary] # "failed")
  BY DEF IInv, GoesOn, Followed, Simple, ReplayGoesOn
<1> QED BY <1>1, AlwaysIInv, PTL

-----------------------------------------------------------------------------
(* A standby that has replayed everything has what the primary has.        *)

\* A record that is about the header of file o, and what it leaves there.
About(rec, o) == rec.op \in {"add", "rotate", "delete", "install"} /\ rec.oid = o

Left(rec) == IF rec.op \in {"add", "rotate"} THEN rec.key ELSE None

\* The first m records of l leave header h in file o.
HeaderIs(l, m, o, h) ==
    \/ h = None /\ \A j \in 1 .. m : ~About(l[j], o)
    \/ \E j \in 1 .. m : /\ About(l[j], o) /\ h = Left(l[j])
                         /\ \A i \in j + 1 .. m : ~About(l[i], o)

\* The first m records of l leave an entry for r.
Creates(rec, r) == rec.op = "create" /\ rec.rel = r

Made(l, m, r) ==
    \E c \in 1 .. m : Creates(l[c], r) /\ \A j \in c + 1 .. m : ~Removes(l[j], r)

\* The header of the primary, while its change and its record are apart.
Setting(o) == pend # None /\ pend.op \in {"add", "delete"} /\ pend.oid = o

Rotating(o) == pend # None /\ pend.op = "rotate" /\ pend.oid = o

Dropping(r) == pend # None /\ pend.op = "drop" /\ pend.rel = r

PrimaryHeaderOK(o) ==
    /\ Setting(o) => HeaderIs(log, Len(log), o, Left(pend)) /\ (pend.op = "add" => hdr[Primary][o] = None)
    /\ Rotating(o) => hdr[Primary][o] = pend.key /\ \E h \in PKey : HeaderIs(log, Len(log), o, h)
    /\ ~Setting(o) /\ ~Rotating(o) => HeaderIs(log, Len(log), o, hdr[Primary][o])
    /\ cache[Primary][o] \in {None, hdr[Primary][o]}

PrimaryEntryOK(r) ==
    /\ r \in live <=> Made(log, Len(log), r)
    /\ r \in live => r \notin open
    /\ r \in open \/ Dropping(r) \/ (ents[Primary][r] # None <=> Made(log, Len(log), r))

\* A key is set where there is none, and needed where there is one.
SoundAt(l, i) ==
    /\ \A o \in Oid : Adds(l[i], o) => HeaderIs(l, i - 1, o, None)
    /\ l[i].op = "create" => \E h \in PKey : HeaderIs(l, i - 1, Db, h)

LogSound == \A i \in 1 .. Len(log) : SoundAt(log, i)

FollowPrimary ==
    /\ \A o \in Oid : PrimaryHeaderOK(o)
    /\ \A r \in Rel : PrimaryEntryOK(r)
    /\ LogSound

\* A standby's header is what the records it has replayed leave, or will be
\* written again by one that comes.
StandbyHeaderOK(o) ==
    \/ o \in left \/ Rotating(o)
    \/ HeaderIs(log, at[Standby], o, hdr[Standby][o])
    \/ \E x \in at[Standby] + 1 .. Len(log) :
           About(log[x], o) /\ (log[x].op = "add" => hdr[Standby][o] = log[x].key)

StandbyEntryOK(r) ==
    \/ Db \in left \/ r \in open
    \/ ents[Standby][r] # None <=> Made(log, at[Standby], r)
    \/ \E x \in at[Standby] + 1 .. Len(log) : Creates(log[x], r) \/ Removes(log[x], r)

\* A change that was begun during the backup has its record after the redo point.
BackupOK ==
    mode[Standby] = "backup" /\ pend # None /\ pend.op \in {"add", "delete", "drop"} =>
        \E x \in at[Standby] + 1 .. Len(log) : log[x] = pend

Watched ==
    Primary \notin env.crash /\ env.default = {} /\ env.install # "any" /\ env.backup # "any"

FollowStandby ==
    /\ \A o \in Oid : StandbyHeaderOK(o)
    /\ \A r \in Rel : StandbyEntryOK(r)
    /\ BackupOK

FollowInv == Watched => mode[Primary] = "up" /\ FollowPrimary /\ FollowStandby

-----------------------------------------------------------------------------
(* What records leave.                                                     *)

\* k continues l, the first m records of it.
Continues(l, m, k, n) ==
    m \in Nat /\ n \in Nat /\ m <= n /\ \A j \in 1 .. m : k[j] = l[j]

LEMMA HeaderKeep ==
    ASSUME NEW l, NEW m, NEW k, NEW n, NEW o, NEW h, Continues(l, m, k, n),
           \A j \in m + 1 .. n : ~About(k[j], o), HeaderIs(l, m, o, h)
    PROVE  HeaderIs(k, n, o, h)
<1>1. \A j \in 1 .. n : j \in 1 .. m \/ j \in m + 1 .. n
  BY DEF Continues
<1>2. CASE h = None /\ \A j \in 1 .. m : ~About(l[j], o)
  BY <1>1, <1>2 DEF Continues, HeaderIs
<1>3. ASSUME NEW j \in 1 .. m, About(l[j], o), h = Left(l[j]), \A i \in j + 1 .. m : ~About(l[i], o)
      PROVE  HeaderIs(k, n, o, h)
  <2>1. j \in 1 .. n /\ k[j] = l[j]
    BY DEF Continues
  <2>2. ASSUME NEW i \in j + 1 .. n PROVE ~About(k[i], o)
    <3>1. i \in 1 .. n /\ (i \in 1 .. m => i \in j + 1 .. m)
      BY DEF Continues
    <3> QED BY <1>1, <1>3, <3>1 DEF Continues
  <2> QED BY <1>3, <2>1, <2>2 DEF HeaderIs
<1> QED BY <1>2, <1>3 DEF HeaderIs

LEMMA HeaderLast ==
    ASSUME NEW k, NEW n \in Nat \ {0}, NEW o, About(k[n], o)
    PROVE  HeaderIs(k, n, o, Left(k[n]))
<1>1. n \in 1 .. n /\ n + 1 .. n = {}
  OBVIOUS
<1> QED BY <1>1 DEF HeaderIs

LEMMA HeaderUnique ==
    ASSUME NEW l, NEW m \in Nat, NEW o, NEW h, NEW g, HeaderIs(l, m, o, h), HeaderIs(l, m, o, g)
    PROVE  h = g
<1>1. CASE (\A j \in 1 .. m : ~About(l[j], o))
  BY <1>1 DEF HeaderIs
<1>2. CASE \E j \in 1 .. m : About(l[j], o)
  <2>1. PICK i \in 1 .. m : /\ About(l[i], o) /\ h = Left(l[i])
                            /\ \A x \in i + 1 .. m : ~About(l[x], o)
    BY <1>2 DEF HeaderIs
  <2>2. PICK j \in 1 .. m : /\ About(l[j], o) /\ g = Left(l[j])
                            /\ \A x \in j + 1 .. m : ~About(l[x], o)
    BY <1>2 DEF HeaderIs
  <2>3. ~(i < j) /\ ~(j < i)
    BY <2>1, <2>2
  <2>4. i = j
    BY <2>3
  <2> QED BY <2>1, <2>2, <2>4
<1> QED BY <1>1, <1>2

LEMMA HeaderBack ==
    ASSUME NEW l, NEW m \in Nat, NEW c \in Nat, c <= m, NEW o, NEW h, HeaderIs(l, m, o, h)
    PROVE  \/ HeaderIs(l, c, o, h)
           \/ \E x \in c + 1 .. m : About(l[x], o) /\ h = Left(l[x])
<1>1. \A j \in 1 .. c : j \in 1 .. m
  OBVIOUS
<1>2. CASE h = None /\ \A j \in 1 .. m : ~About(l[j], o)
  BY <1>1, <1>2 DEF HeaderIs
<1>3. ASSUME NEW j \in 1 .. m, About(l[j], o), h = Left(l[j]), \A i \in j + 1 .. m : ~About(l[i], o)
      PROVE  \/ HeaderIs(l, c, o, h)
             \/ \E x \in c + 1 .. m : About(l[x], o) /\ h = Left(l[x])
  <2>1. CASE j \in c + 1 .. m
    BY <1>3, <2>1
  <2>2. CASE j \in 1 .. c
    <3>1. \A i \in j + 1 .. c : i \in j + 1 .. m
      OBVIOUS
    <3> QED BY <1>3, <2>2, <3>1 DEF HeaderIs
  <2> QED BY <2>1, <2>2
<1> QED BY <1>2, <1>3 DEF HeaderIs

LEMMA MadeKeep ==
    ASSUME NEW l, NEW m, NEW k, NEW n, NEW r, Continues(l, m, k, n),
           \A j \in m + 1 .. n : ~Creates(k[j], r) /\ ~Removes(k[j], r)
    PROVE  Made(l, m, r) <=> Made(k, n, r)
<1>1. \A j \in 1 .. n : j \in 1 .. m \/ j \in m + 1 .. n
  BY DEF Continues
<1>2. ASSUME Made(l, m, r) PROVE Made(k, n, r)
  <2>1. PICK c \in 1 .. m : Creates(l[c], r) /\ \A j \in c + 1 .. m : ~Removes(l[j], r)
    BY <1>2 DEF Made
  <2>2. c \in 1 .. n /\ k[c] = l[c]
    BY DEF Continues
  <2>3. ASSUME NEW j \in c + 1 .. n PROVE ~Removes(k[j], r)
    <3>1. j \in 1 .. n /\ (j \in 1 .. m => j \in c + 1 .. m)
      BY DEF Continues
    <3> QED BY <1>1, <2>1, <3>1 DEF Continues
  <2> QED BY <2>1, <2>2, <2>3 DEF Made
<1>3. ASSUME Made(k, n, r) PROVE Made(l, m, r)
  <2>1. PICK c \in 1 .. n : Creates(k[c], r) /\ \A j \in c + 1 .. n : ~Removes(k[j], r)
    BY <1>3 DEF Made
  <2>2. c \in 1 .. m /\ k[c] = l[c]
    BY <1>1, <2>1 DEF Continues
  <2>3. ASSUME NEW j \in c + 1 .. m PROVE ~Removes(l[j], r)
    <3>1. j \in 1 .. m /\ j \in c + 1 .. n
      BY <2>2 DEF Continues
    <3> QED BY <2>1, <3>1 DEF Continues
  <2> QED BY <2>1, <2>2, <2>3 DEF Made
<1> QED BY <1>2, <1>3

LEMMA MadeLast ==
    ASSUME NEW k, NEW n \in Nat \ {0}, NEW r
    PROVE  /\ Creates(k[n], r) => Made(k, n, r)
           /\ Removes(k[n], r) => ~Made(k, n, r)
<1>1. n \in 1 .. n /\ n + 1 .. n = {}
  OBVIOUS
<1>2. ASSUME Removes(k[n], r), NEW c \in 1 .. n, Creates(k[c], r), \A j \in c + 1 .. n : ~Removes(k[j], r)
      PROVE  FALSE
  <2>1. c # n
    BY <1>2 DEF Creates, Removes
  <2>2. n \in c + 1 .. n
    BY <2>1
  <2> QED BY <1>2, <2>2
<1> QED BY <1>1, <1>2 DEF Made

LEMMA MadeBack ==
    ASSUME NEW l, NEW m \in Nat, NEW c \in Nat, c <= m, NEW r
    PROVE  \/ Made(l, m, r) <=> Made(l, c, r)
           \/ \E x \in c + 1 .. m : Creates(l[x], r) \/ Removes(l[x], r)
<1>1. Continues(l, c, l, m)
  BY DEF Continues
<1> QED BY <1>1, MadeKeep

-----------------------------------------------------------------------------
(* What a step of the primary writes, and does to its files.               *)

\* A step that is not about the header of file o.
LEMMA HeadersQuiet ==
    ASSUME LogType, LogType', Extends, NEW o \in Oid, PrimaryHeaderOK(o),
           \A i \in Len(log) + 1 .. Len(log') : ~About(log'[i], o),
           hdr'[Primary][o] = hdr[Primary][o], cache'[Primary][o] \in {None, hdr[Primary][o]},
           Setting(o) \/ Rotating(o) \/ Setting(o)' \/ Rotating(o)' => pend' = pend
    PROVE  PrimaryHeaderOK(o)'
<1>1. Continues(log, Len(log), log', Len(log'))
  BY DEF Continues, Extends, LogType
<1>2. \A h : HeaderIs(log, Len(log), o, h) => HeaderIs(log', Len(log'), o, h)
  BY <1>1, HeaderKeep
<1>3. CASE pend' = pend
  BY <1>2, <1>3 DEF PrimaryHeaderOK, Setting, Rotating
<1>4. CASE ~Setting(o) /\ ~Rotating(o) /\ ~Setting(o)' /\ ~Rotating(o)'
  BY <1>2, <1>4 DEF PrimaryHeaderOK
<1> QED BY <1>3, <1>4

\* One that is not about the entry of r.
LEMMA EntriesQuiet ==
    ASSUME LogType, LogType', Extends, NEW r \in Rel, PrimaryEntryOK(r),
           \A i \in Len(log) + 1 .. Len(log') : ~Creates(log'[i], r) /\ ~Removes(log'[i], r),
           r \in live' <=> r \in live, r \in open' <=> r \in open, Dropping(r)' <=> Dropping(r),
           ents'[Primary][r] # None <=> ents[Primary][r] # None
    PROVE  PrimaryEntryOK(r)'
<1>1. Continues(log, Len(log), log', Len(log'))
  BY DEF Continues, Extends, LogType
<1>2. Made(log, Len(log), r) <=> Made(log', Len(log'), r)
  BY <1>1, MadeKeep
<1> QED BY <1>2 DEF PrimaryEntryOK

LEMMA SoundKeep ==
    ASSUME LogType, LogType', Extends, LogSound, \A i \in Len(log) + 1 .. Len(log') : SoundAt(log', i)
    PROVE  LogSound'
<1>1. Len(log) \in Nat /\ Len(log') \in Nat
  BY DEF LogType
<1>2. ASSUME NEW i \in 1 .. Len(log) PROVE SoundAt(log', i)
  <2>1. Continues(log, i - 1, log', i - 1) /\ log'[i] = log[i]
    BY <1>1 DEF Continues, Extends
  <2>2. i - 1 + 1 .. i - 1 = {}
    OBVIOUS
  <2>3. \A o, h : HeaderIs(log, i - 1, o, h) => HeaderIs(log', i - 1, o, h)
    BY <2>1, <2>2, HeaderKeep
  <2> QED BY <2>1, <2>3 DEF LogSound, SoundAt
<1>3. \A i \in 1 .. Len(log') : i \in 1 .. Len(log) \/ i \in Len(log) + 1 .. Len(log')
  BY <1>1
<1> QED BY <1>2, <1>3 DEF LogSound

\* No record, or one, or two.
LEMMA Nothing ==
    ASSUME LogType, log' = log
    PROVE  Extends /\ Len(log) + 1 .. Len(log') = {}
BY NoMore DEF LogType

LEMMA OneOnly ==
    ASSUME LogType, NEW rec \in Recs, log' = Append(log, rec)
    PROVE  /\ Extends /\ Len(log) \in Nat /\ Len(log') = Len(log) + 1 /\ log'[Len(log')] = rec
           /\ \A i \in Len(log) + 1 .. Len(log') : i = Len(log') /\ log'[i] = rec
BY OneMore DEF LogType

LEMMA TwoOnly ==
    ASSUME LogType, NEW c \in Recs, NEW d \in Recs, log' = Append(Append(log, c), d)
    PROVE  /\ Extends /\ Len(log) \in Nat /\ Len(log') = Len(log) + 2
           /\ log'[Len(log) + 1] = c /\ log'[Len(log')] = d
           /\ \A i \in Len(log) + 1 .. Len(log') :
                  (i = Len(log) + 1 /\ log'[i] = c) \/ (i = Len(log') /\ log'[i] = d)
<1>1. /\ Len(log') = Len(log) + 2 /\ log'[Len(log) + 1] = c /\ log'[Len(log) + 2] = d
      /\ Len(log) \in Nat /\ \A i \in 1 .. Len(log) : log'[i] = log[i]
  BY DEF LogType
<1>2. Extends
  BY <1>1 DEF Extends
<1> QED BY <1>1, <1>2

\* The log so far, as the beginning of the next.
LEMMA HeaderBefore ==
    ASSUME LogType, LogType', Extends, NEW o, NEW h, HeaderIs(log, Len(log), o, h)
    PROVE  HeaderIs(log', Len(log), o, h)
<1>1. Continues(log, Len(log), log', Len(log)) /\ Len(log) + 1 .. Len(log) = {}
  BY DEF Continues, Extends, LogType
<1> QED BY <1>1, HeaderKeep

-----------------------------------------------------------------------------
(* The primary's side, action by action.                                   *)

\* What these lemmas rely on.
Base == TypeInv /\ FileInv /\ KeepInv /\ FollowPrimary /\ Watched /\ mode[Primary] = "up" /\ LogType'

LEMMA BaseFacts ==
    ASSUME Base
    PROVE  /\ LogType /\ FileType /\ ModeOK /\ LogOK /\ PendClean /\ LogSound
           /\ \A o \in Oid : PrimaryHeaderOK(o)
           /\ \A r \in Rel : PrimaryEntryOK(r)
           /\ \A o \in Oid : Key(Primary, o) = hdr[Primary][o] /\ hdr[Primary][o] \in MaybeKey
           /\ hdr[Primary][Default] = None /\ cache[Primary][Default] = None
           /\ hdr[Primary][Db] = None => NoEntries(Primary)
           /\ pend # None => RecOK(pend) /\ pend \in Recs
<1>1. LogType /\ FileType /\ ModeOK /\ LogOK /\ PendClean /\ LogSound
  BY TypeParts DEF Base, TypeInv, KeepInv, FollowPrimary
<1>2. ASSUME NEW o \in Oid PROVE Key(Primary, o) = hdr[Primary][o] /\ hdr[Primary][o] \in MaybeKey
  <2>1. cache[Primary][o] \in {None, hdr[Primary][o]}
    BY DEF Base, FollowPrimary, PrimaryHeaderOK
  <2> QED BY <1>1, <2>1, KeyTypes, Names DEF Key
<1>3. /\ hdr[Primary][Default] = None /\ cache[Primary][Default] = None
      /\ hdr[Primary][Db] = None => NoEntries(Primary)
  BY Names DEF Base, Watched, FileInv, ServerOK
<1> QED BY <1>1, <1>2, <1>3 DEF Base, FollowPrimary, LogOK, LogType

\* A record that needs the key of the database is written while there is one.
LEMMA KeyInLog ==
    ASSUME Base, NEW r \in open
    PROVE  \E h \in PKey : HeaderIs(log, Len(log), Db, h)
<1>1. r \in Rel /\ ents[Primary][r] # None
  BY BaseFacts DEF Base, KeepInv, FileType
<1>2. hdr[Primary][Db] \in PKey
  BY <1>1, BaseFacts, Names DEF NoEntries, MaybeKey
<1>3. ~Setting(Db)
  BY BaseFacts DEF Setting, PendClean
<1>4. PrimaryHeaderOK(Db)
  BY BaseFacts, Names
<1>5. CASE Rotating(Db)
  BY <1>4, <1>5 DEF PrimaryHeaderOK
<1>6. CASE ~Rotating(Db)
  BY <1>2, <1>3, <1>4, <1>6 DEF PrimaryHeaderOK
<1> QED BY <1>5, <1>6

LEMMA FollowSetKey ==
    ASSUME Base, NEW o \in Oid, NEW k \in PKey, SetKey(o, k)
    PROVE  FollowPrimary'
<1>1. PICK rec : rec = Rec("add", o, k, None, None)
  OBVIOUS
<1>2. rec \in Recs /\ rec.op = "add" /\ rec.oid = o /\ rec.key = k
  BY <1>1, RecFacts DEF Ops
<1>3. /\ log' = Append(log, rec) /\ pend' = rec /\ pend = None /\ Key(Primary, o) = None
      /\ UNCHANGED <<hdr, ents, cache, live, open>>
  BY <1>1 DEF SetKey
<1>4. LogType /\ LogType' /\ rec # None /\ hdr[Primary][o] = None
  BY <1>2, <1>3, BaseFacts, NoneIsNoRecord DEF Base
<1>5. /\ Extends /\ Len(log) \in Nat /\ Len(log') = Len(log) + 1 /\ log'[Len(log')] = rec
      /\ \A i \in Len(log) + 1 .. Len(log') : i = Len(log') /\ log'[i] = rec
  BY <1>2, <1>3, <1>4, OneOnly
<1>6. ASSUME NEW p \in Oid PROVE PrimaryHeaderOK(p)'
  <2>1. PrimaryHeaderOK(p)
    BY BaseFacts
  <2>2. CASE p = o
    <3>1. About(log'[Len(log')], o) /\ Len(log') \in Nat \ {0}
      BY <1>2, <1>5 DEF About
    <3>2. HeaderIs(log', Len(log'), o, Left(rec))
      BY <1>5, <3>1, HeaderLast
    <3>3. Setting(o)' /\ ~Rotating(o)'
      BY <1>2, <1>3, <1>4 DEF Setting, Rotating
    <3> QED BY <1>3, <1>4, <2>1, <2>2, <3>2, <3>3 DEF PrimaryHeaderOK
  <2>3. CASE p # o
    <3>1. ~About(rec, p) /\ ~Setting(p) /\ ~Rotating(p) /\ ~Setting(p)' /\ ~Rotating(p)'
      BY <1>2, <1>3, <2>3 DEF About, Setting, Rotating
    <3>2. \A i \in Len(log) + 1 .. Len(log') : ~About(log'[i], p)
      BY <1>5, <3>1
    <3>3. hdr'[Primary][p] = hdr[Primary][p] /\ cache'[Primary][p] \in {None, hdr[Primary][p]}
      BY <1>3, <2>1 DEF PrimaryHeaderOK
    <3> QED BY <1>4, <1>5, <2>1, <3>1, <3>2, <3>3, HeadersQuiet
  <2> QED BY <2>2, <2>3
<1>7. ASSUME NEW r \in Rel PROVE PrimaryEntryOK(r)'
  <2>1. ~Creates(rec, r) /\ ~Removes(rec, r) /\ ~Dropping(r) /\ ~Dropping(r)'
    BY <1>2, <1>3 DEF Creates, Removes, Dropping
  <2>2. \A i \in Len(log) + 1 .. Len(log') : ~Creates(log'[i], r) /\ ~Removes(log'[i], r)
    BY <1>5, <2>1
  <2> QED BY <1>3, <1>4, <1>5, <2>1, <2>2, BaseFacts, EntriesQuiet
<1>8. LogSound'
  <2>1. HeaderIs(log, Len(log), o, None)
    BY <1>3, <1>4, BaseFacts DEF PrimaryHeaderOK, Setting, Rotating
  <2>2. HeaderIs(log', Len(log), o, None)
    BY <1>4, <1>5, <2>1, HeaderBefore
  <2>3. SoundAt(log', Len(log'))
    BY <1>2, <1>5, <2>2 DEF SoundAt, Adds
  <2> QED BY <1>4, <1>5, <2>3, BaseFacts, SoundKeep
<1> QED BY <1>6, <1>7, <1>8 DEF FollowPrimary

LEMMA FollowRotateKey ==
    ASSUME Base, NEW o \in Oid, NEW k \in PKey, RotateKey(o, k)
    PROVE  FollowPrimary'
<1>1. PICK rec : rec = Rec("rotate", o, k, None, None)
  OBVIOUS
<1>2. rec \in Recs /\ rec.op = "rotate" /\ rec.oid = o /\ rec.key = k
  BY <1>1, RecFacts DEF Ops
<1>3. /\ log' = log /\ pend' = rec /\ pend = None /\ Key(Primary, o) # None
      /\ RotateFile(Primary, o, k) /\ UNCHANGED <<live, open>>
  BY <1>1 DEF RotateKey
<1>4. LogType /\ LogType' /\ rec # None /\ hdr[Primary][o] \in PKey
  BY <1>2, <1>3, BaseFacts, NoneIsNoRecord DEF Base, MaybeKey
<1>5. Extends /\ Len(log) + 1 .. Len(log') = {}
  BY <1>3, <1>4, Nothing
<1>6. /\ cache'[Primary][o] = k /\ hdr'[Primary][o] = k
      /\ \A p \in Oid : p # o => /\ cache'[Primary][p] = cache[Primary][p]
                                 /\ hdr'[Primary][p] = hdr[Primary][p]
      /\ \A r \in Rel : ents'[Primary][r] # None <=> ents[Primary][r] # None
  BY <1>3, BaseFacts, Names, Rotated
<1>7. ASSUME NEW p \in Oid PROVE PrimaryHeaderOK(p)'
  <2>1. PrimaryHeaderOK(p)
    BY BaseFacts
  <2>2. CASE p = o
    <3>1. HeaderIs(log, Len(log), o, hdr[Primary][o])
      BY <1>3, <2>1, <2>2 DEF PrimaryHeaderOK, Setting, Rotating
    <3>2. Rotating(o)' /\ ~Setting(o)'
      BY <1>2, <1>3, <1>4 DEF Setting, Rotating
    <3> QED BY <1>2, <1>3, <1>4, <1>6, <2>2, <3>1, <3>2 DEF PrimaryHeaderOK
  <2>3. CASE p # o
    <3>1. ~Setting(p) /\ ~Rotating(p) /\ ~Setting(p)' /\ ~Rotating(p)'
      BY <1>2, <1>3, <2>3 DEF Setting, Rotating
    <3>2. hdr'[Primary][p] = hdr[Primary][p] /\ cache'[Primary][p] \in {None, hdr[Primary][p]}
      BY <1>6, <2>1, <2>3 DEF PrimaryHeaderOK
    <3> QED BY <1>4, <1>5, <2>1, <3>1, <3>2, HeadersQuiet
  <2> QED BY <2>2, <2>3
<1>8. ASSUME NEW r \in Rel PROVE PrimaryEntryOK(r)'
  <2>1. ~Dropping(r) /\ ~Dropping(r)'
    BY <1>2, <1>3 DEF Dropping
  <2> QED BY <1>3, <1>4, <1>5, <1>6, <2>1, BaseFacts, EntriesQuiet
<1>9. LogSound'
  BY <1>4, <1>5, BaseFacts, SoundKeep
<1> QED BY <1>7, <1>8, <1>9 DEF FollowPrimary

\* The file is written, or removed, after the record.
LEMMA FollowFile ==
    ASSUME Base, WriteHeader \/ UnlinkFile
    PROVE  FollowPrimary'
<1>1. PICK o, k : o = pend.oid /\ k = Left(pend)
  OBVIOUS
<1>2. pend # None /\ pend.op \in {"add", "delete"} /\ o \in Oid /\ k \in MaybeKey
  BY <1>1, BaseFacts DEF WriteHeader, UnlinkFile, RecOK, Left, MaybeKey
<1>3. /\ log' = log /\ pend' = None /\ UNCHANGED <<live, open>>
      /\ hdr' = [hdr EXCEPT ![Primary][o] = k]
      /\ ents' = IF o = Db THEN [ents EXCEPT ![Primary] = [r \in Rel |-> None]] ELSE ents
      /\ cache' = [cache EXCEPT ![Primary][o] = k]
  BY <1>1, <1>2 DEF WriteHeader, UnlinkFile, Unlink, Left
<1>4. LogType /\ LogType' /\ FileType
  BY BaseFacts DEF Base
<1>5. Extends /\ Len(log) + 1 .. Len(log') = {}
  BY <1>3, <1>4, Nothing
<1>6. /\ cache'[Primary][o] = k /\ hdr'[Primary][o] = k
      /\ \A p \in Oid : p # o => /\ cache'[Primary][p] = cache[Primary][p]
                                 /\ hdr'[Primary][p] = hdr[Primary][p]
      /\ o # Db => ents' = ents
      /\ o = Db => \A r \in Rel : ents'[Primary][r] = None
  <2>1. cache'[Primary][o] = k /\ \A p \in Oid : p # o => cache'[Primary][p] = cache[Primary][p]
    BY <1>2, <1>3, <1>4, Names, Cached, ZenonT(40)
  <2>2. /\ hdr'[Primary][o] = k /\ \A p \in Oid : p # o => hdr'[Primary][p] = hdr[Primary][p]
        /\ o # Db => ents' = ents
        /\ o = Db => \A r \in Rel : ents'[Primary][r] = None
    BY <1>2, <1>3, <1>4, Names, Unlinked, ZenonT(40)
  <2> QED BY <2>1, <2>2
<1>7. ASSUME NEW p \in Oid PROVE PrimaryHeaderOK(p)'
  <2>1. PrimaryHeaderOK(p) /\ ~Setting(p)' /\ ~Rotating(p)' /\ ~Rotating(p)
    BY <1>2, <1>3, BaseFacts DEF Setting, Rotating
  <2>2. CASE p = o
    <3>1. Setting(o)
      BY <1>1, <1>2 DEF Setting
    <3>2. HeaderIs(log, Len(log), o, k)
      BY <1>1, <2>1, <2>2, <3>1 DEF PrimaryHeaderOK
    <3> QED BY <1>3, <1>6, <2>1, <2>2, <3>2 DEF PrimaryHeaderOK
  <2>3. CASE p # o
    <3>1. ~Setting(p)
      BY <1>1, <2>3 DEF Setting
    <3>2. hdr'[Primary][p] = hdr[Primary][p] /\ cache'[Primary][p] \in {None, hdr[Primary][p]}
      BY <1>6, <2>1, <2>3 DEF PrimaryHeaderOK
    <3> QED BY <1>4, <1>5, <2>1, <3>1, <3>2, HeadersQuiet
  <2> QED BY <2>2, <2>3
<1>8. ASSUME NEW r \in Rel PROVE PrimaryEntryOK(r)'
  <2>1. ~Dropping(r) /\ ~Dropping(r)' /\ PrimaryEntryOK(r)
    BY <1>2, <1>3, BaseFacts DEF Dropping
  <2>2. CASE o = Db
    <3>1. r \notin live /\ r \notin open
      BY <1>1, <1>2, <2>2, BaseFacts DEF PendClean
    <3>2. ~Made(log, Len(log), r)
      BY <2>1, <3>1 DEF PrimaryEntryOK
    <3> QED BY <1>3, <1>6, <2>2, <3>1, <3>2 DEF PrimaryEntryOK
  <2>3. CASE o # Db
    BY <1>3, <1>4, <1>5, <1>6, <2>1, <2>3, EntriesQuiet
  <2> QED BY <2>2, <2>3
<1>9. LogSound'
  BY <1>4, <1>5, BaseFacts, SoundKeep
<1> QED BY <1>7, <1>8, <1>9 DEF FollowPrimary

LEMMA FollowLogRotate ==
    ASSUME Base, LogRotate
    PROVE  FollowPrimary'
<1>1. PICK rec, o : rec = pend /\ o = pend.oid
  OBVIOUS
<1>2. rec \in Recs /\ pend # None /\ rec.op = "rotate" /\ rec.oid = o /\ o \in Oid
  BY <1>1, BaseFacts DEF LogRotate, RecOK
<1>3. log' = Append(log, rec) /\ pend' = None /\ UNCHANGED <<hdr, ents, cache, live, open>>
  BY <1>1 DEF LogRotate
<1>4. LogType /\ LogType'
  BY BaseFacts DEF Base
<1>5. /\ Extends /\ Len(log) \in Nat /\ Len(log') = Len(log) + 1 /\ log'[Len(log')] = rec
      /\ \A i \in Len(log) + 1 .. Len(log') : i = Len(log') /\ log'[i] = rec
  BY <1>2, <1>3, <1>4, OneOnly
<1>6. ASSUME NEW p \in Oid PROVE PrimaryHeaderOK(p)'
  <2>1. PrimaryHeaderOK(p) /\ ~Setting(p)' /\ ~Rotating(p)' /\ ~Setting(p)
    BY <1>1, <1>2, <1>3, BaseFacts DEF Setting, Rotating
  <2>2. CASE p = o
    <3>1. About(log'[Len(log')], o) /\ Len(log') \in Nat \ {0} /\ Left(rec) = rec.key
      BY <1>2, <1>5 DEF About, Left
    <3>2. HeaderIs(log', Len(log'), o, rec.key)
      BY <1>5, <3>1, HeaderLast
    <3>3. Rotating(o)
      BY <1>1, <1>2 DEF Rotating
    <3> QED BY <1>1, <1>3, <2>1, <2>2, <3>2, <3>3 DEF PrimaryHeaderOK
  <2>3. CASE p # o
    <3>1. ~About(rec, p) /\ ~Rotating(p)
      BY <1>1, <1>2, <2>3 DEF About, Rotating
    <3>2. \A i \in Len(log) + 1 .. Len(log') : ~About(log'[i], p)
      BY <1>5, <3>1
    <3>3. hdr'[Primary][p] = hdr[Primary][p] /\ cache'[Primary][p] \in {None, hdr[Primary][p]}
      BY <1>3, <2>1 DEF PrimaryHeaderOK
    <3> QED BY <1>4, <1>5, <2>1, <3>1, <3>2, <3>3, HeadersQuiet
  <2> QED BY <2>2, <2>3
<1>7. ASSUME NEW r \in Rel PROVE PrimaryEntryOK(r)'
  <2>1. ~Creates(rec, r) /\ ~Removes(rec, r) /\ ~Dropping(r) /\ ~Dropping(r)'
    BY <1>1, <1>2, <1>3 DEF Creates, Removes, Dropping
  <2>2. \A i \in Len(log) + 1 .. Len(log') : ~Creates(log'[i], r) /\ ~Removes(log'[i], r)
    BY <1>5, <2>1
  <2> QED BY <1>3, <1>4, <1>5, <2>1, <2>2, BaseFacts, EntriesQuiet
<1>8. LogSound'
  <2>1. SoundAt(log', Len(log'))
    BY <1>2, <1>5 DEF SoundAt, Adds
  <2> QED BY <1>4, <1>5, <2>1, BaseFacts, SoundKeep
<1> QED BY <1>6, <1>7, <1>8 DEF FollowPrimary

LEMMA FollowDeleteKey ==
    ASSUME Base, NEW o \in Oid, DeleteKey(o)
    PROVE  FollowPrimary'
<1>1. PICK rec : rec = Rec("delete", o, None, None, None)
  OBVIOUS
<1>2. rec \in Recs /\ rec.op = "delete" /\ rec.oid = o
  BY <1>1, RecFacts DEF Ops
<1>3. /\ log' = Append(log, rec) /\ pend' = rec /\ pend = None
      /\ o = Db => NoEntries(Primary)
      /\ UNCHANGED <<hdr, ents, cache, live, open>>
  BY <1>1 DEF DeleteKey
<1>4. LogType /\ LogType' /\ rec # None
  BY <1>2, BaseFacts, NoneIsNoRecord DEF Base
<1>5. /\ Extends /\ Len(log) \in Nat /\ Len(log') = Len(log) + 1 /\ log'[Len(log')] = rec
      /\ \A i \in Len(log) + 1 .. Len(log') : i = Len(log') /\ log'[i] = rec
  BY <1>2, <1>3, <1>4, OneOnly
<1>6. ASSUME NEW p \in Oid PROVE PrimaryHeaderOK(p)'
  <2>1. PrimaryHeaderOK(p)
    BY BaseFacts
  <2>2. CASE p = o
    <3>1. About(log'[Len(log')], o) /\ Len(log') \in Nat \ {0}
      BY <1>2, <1>5 DEF About
    <3>2. HeaderIs(log', Len(log'), o, Left(rec))
      BY <1>5, <3>1, HeaderLast
    <3>3. Setting(o)' /\ ~Rotating(o)'
      BY <1>2, <1>3, <1>4 DEF Setting, Rotating
    <3> QED BY <1>2, <1>3, <1>4, <2>1, <2>2, <3>2, <3>3 DEF PrimaryHeaderOK
  <2>3. CASE p # o
    <3>1. ~About(rec, p) /\ ~Setting(p) /\ ~Rotating(p) /\ ~Setting(p)' /\ ~Rotating(p)'
      BY <1>2, <1>3, <2>3 DEF About, Setting, Rotating
    <3>2. \A i \in Len(log) + 1 .. Len(log') : ~About(log'[i], p)
      BY <1>5, <3>1
    <3>3. hdr'[Primary][p] = hdr[Primary][p] /\ cache'[Primary][p] \in {None, hdr[Primary][p]}
      BY <1>3, <2>1 DEF PrimaryHeaderOK
    <3> QED BY <1>4, <1>5, <2>1, <3>1, <3>2, <3>3, HeadersQuiet
  <2> QED BY <2>2, <2>3
<1>7. ASSUME NEW r \in Rel PROVE PrimaryEntryOK(r)'
  <2>1. ~Dropping(r) /\ ~Dropping(r)' /\ PrimaryEntryOK(r)
    BY <1>2, <1>3, BaseFacts DEF Dropping
  <2>2. CASE o = Db
    <3>1. live \cup open = {}
      BY <1>3, <2>2, NoneInUse DEF Base
    <3>2. Removes(log'[Len(log')], r) /\ Len(log') \in Nat \ {0}
      BY <1>2, <1>5, <2>2 DEF Removes
    <3>3. ~Made(log', Len(log'), r)
      BY <3>2, MadeLast
    <3>4. ents'[Primary][r] = None
      BY <1>3, <2>2 DEF NoEntries
    <3> QED BY <1>3, <3>1, <3>3, <3>4 DEF PrimaryEntryOK
  <2>3. CASE o # Db
    <3>1. ~Creates(rec, r) /\ ~Removes(rec, r)
      BY <1>2, <2>3 DEF Creates, Removes
    <3>2. \A i \in Len(log) + 1 .. Len(log') : ~Creates(log'[i], r) /\ ~Removes(log'[i], r)
      BY <1>5, <3>1
    <3> QED BY <1>3, <1>4, <1>5, <2>1, <3>2, EntriesQuiet
  <2> QED BY <2>2, <2>3
<1>8. LogSound'
  <2>1. SoundAt(log', Len(log'))
    BY <1>2, <1>5 DEF SoundAt, Adds
  <2> QED BY <1>4, <1>5, <2>1, BaseFacts, SoundKeep
<1> QED BY <1>6, <1>7, <1>8 DEF FollowPrimary

\* Without a default key, the database's own is used, and no header written.
LEMMA FollowCreateRel ==
    ASSUME Base, NEW r \in Rel, CreateRel(r)
    PROVE  FollowPrimary'
<1>1. /\ log' = log /\ pend = None /\ pend' = None /\ live' = live /\ open' = open \cup {r}
      /\ r \notin live /\ r \notin open /\ Effective(Primary) # None
      /\ SaveSmgrKey(Primary, r, TRUE)
  BY DEF CreateRel
<1>2. LogType /\ LogType' /\ FileType
  BY BaseFacts DEF Base
<1>3. Extends /\ Len(log) + 1 .. Len(log') = {}
  BY <1>1, <1>2, Nothing
<1>4. Key(Primary, Db) = hdr[Primary][Db] /\ hdr[Primary][Db] # None /\ Effective(Primary) = hdr[Primary][Db]
  BY <1>1, BaseFacts, Names DEF Effective
<1>5. /\ cache'[Primary][Db] = hdr[Primary][Db] /\ cache'[Primary][Default] = cache[Primary][Default]
      /\ hdr'[Primary][Db] = hdr[Primary][Db] /\ hdr'[Primary][Default] = hdr[Primary][Default]
      /\ \A s \in Rel : s # r => ents'[Primary][s] = ents[Primary][s]
  <2>1. /\ cache'[Primary][Db] = Effective(Primary)
        /\ cache'[Primary][Default] = cache[Primary][Default]
           \/ (Key(Primary, Db) = None /\ cache'[Primary][Default] = Key(Primary, Default))
        /\ hdr'[Primary][Db] = IF hdr[Primary][Db] = None THEN Effective(Primary) ELSE hdr[Primary][Db]
        /\ hdr'[Primary][Default] = hdr[Primary][Default]
        /\ \A s \in Rel : s # r => ents'[Primary][s] = ents[Primary][s]
    BY <1>1, <1>2, Names, Saved
  <2> QED BY <1>4, <2>1
<1>6. ASSUME NEW p \in Oid PROVE PrimaryHeaderOK(p)'
  <2>1. PrimaryHeaderOK(p) /\ ~Setting(p) /\ ~Rotating(p) /\ ~Setting(p)' /\ ~Rotating(p)'
    BY <1>1, BaseFacts DEF Setting, Rotating
  <2>2. hdr'[Primary][p] = hdr[Primary][p] /\ cache'[Primary][p] \in {None, hdr[Primary][p]}
    BY <1>5, <2>1, Names DEF PrimaryHeaderOK
  <2> QED BY <1>2, <1>3, <2>1, <2>2, HeadersQuiet
<1>7. ASSUME NEW s \in Rel PROVE PrimaryEntryOK(s)'
  <2>1. ~Dropping(s) /\ ~Dropping(s)' /\ PrimaryEntryOK(s)
    BY <1>1, BaseFacts DEF Dropping
  <2>2. CASE s = r
    BY <1>1, <2>1, <2>2 DEF PrimaryEntryOK
  <2>3. CASE s # r
    BY <1>1, <1>2, <1>3, <1>5, <2>1, <2>3, EntriesQuiet
  <2> QED BY <2>2, <2>3
<1>8. LogSound'
  BY <1>2, <1>3, BaseFacts, SoundKeep
<1> QED BY <1>6, <1>7, <1>8 DEF FollowPrimary

\* Records that are about no header leave the headers as they are.
LEMMA NoHeaders ==
    ASSUME Base, Extends, \A i \in Len(log) + 1 .. Len(log'), o \in Oid : ~About(log'[i], o),
           UNCHANGED <<hdr, cache>>,
           pend' = pend \/ /\ pend # None => pend.op \in {"drop", "install"}
                           /\ pend' # None => pend'.op \in {"drop", "install"}
    PROVE  \A o \in Oid : PrimaryHeaderOK(o)'
<1> SUFFICES ASSUME NEW o \in Oid PROVE PrimaryHeaderOK(o)'
  OBVIOUS
<1>1. LogType /\ LogType' /\ PrimaryHeaderOK(o)
  BY BaseFacts DEF Base
<1>2. Setting(o) \/ Rotating(o) \/ Setting(o)' \/ Rotating(o)' => pend' = pend
  BY DEF Setting, Rotating
<1>3. hdr'[Primary][o] = hdr[Primary][o] /\ cache'[Primary][o] \in {None, hdr[Primary][o]}
  BY <1>1 DEF PrimaryHeaderOK
<1> QED BY <1>1, <1>2, <1>3, HeadersQuiet

LEMMA FollowCommitRel ==
    ASSUME Base, NEW r \in Rel, CommitRel(r)
    PROVE  FollowPrimary'
<1>1. PICK rec : rec = Rec("create", None, None, r, None)
  OBVIOUS
<1>2. rec \in Recs /\ rec.op = "create" /\ rec.rel = r
  BY <1>1, RecFacts DEF Ops
<1>3. /\ log' = Append(log, rec) /\ pend' = pend /\ r \in open
      /\ live' = live \cup {r} /\ open' = open \ {r} /\ UNCHANGED <<hdr, ents, cache>>
  BY <1>1 DEF CommitRel
<1>4. LogType /\ LogType'
  BY BaseFacts DEF Base
<1>5. /\ Extends /\ Len(log) \in Nat /\ Len(log') = Len(log) + 1 /\ log'[Len(log')] = rec
      /\ \A i \in Len(log) + 1 .. Len(log') : i = Len(log') /\ log'[i] = rec
  BY <1>2, <1>3, <1>4, OneOnly
<1>6. \A o \in Oid : PrimaryHeaderOK(o)'
  <2>1. \A i \in Len(log) + 1 .. Len(log'), o \in Oid : ~About(log'[i], o)
    BY <1>2, <1>5 DEF About
  <2> QED BY <1>3, <1>5, <2>1, NoHeaders
<1>7. ASSUME NEW s \in Rel PROVE PrimaryEntryOK(s)'
  <2>1. PrimaryEntryOK(s) /\ (Dropping(s)' <=> Dropping(s))
    BY <1>3, BaseFacts DEF Dropping
  <2>2. CASE s = r
    <3>1. Creates(log'[Len(log')], r) /\ Len(log') \in Nat \ {0}
      BY <1>2, <1>5 DEF Creates
    <3>2. Made(log', Len(log'), r)
      BY <3>1, MadeLast
    <3>3. ents'[Primary][r] # None
      BY <1>3 DEF Base, KeepInv
    <3> QED BY <1>3, <2>2, <3>2, <3>3 DEF PrimaryEntryOK
  <2>3. CASE s # r
    <3>1. ~Creates(rec, s) /\ ~Removes(rec, s)
      BY <1>2, <2>3 DEF Creates, Removes
    <3>2. \A i \in Len(log) + 1 .. Len(log') : ~Creates(log'[i], s) /\ ~Removes(log'[i], s)
      BY <1>5, <3>1
    <3>3. (s \in live' <=> s \in live) /\ (s \in open' <=> s \in open)
      BY <1>3, <2>3
    <3> QED BY <1>3, <1>4, <1>5, <2>1, <3>2, <3>3, EntriesQuiet
  <2> QED BY <2>2, <2>3
<1>8. LogSound'
  <2>1. PICK h \in PKey : HeaderIs(log, Len(log), Db, h)
    BY <1>3, KeyInLog
  <2>2. HeaderIs(log', Len(log), Db, h)
    BY <1>4, <1>5, <2>1, HeaderBefore
  <2>3. SoundAt(log', Len(log'))
    BY <1>2, <1>5, <2>2 DEF SoundAt, Adds
  <2> QED BY <1>4, <1>5, <2>3, BaseFacts, SoundKeep
<1> QED BY <1>6, <1>7, <1>8 DEF FollowPrimary

LEMMA FollowDropRel ==
    ASSUME Base, NEW r \in Rel, DropRel(r)
    PROVE  FollowPrimary'
<1>1. PICK c \in Recs, d \in Recs :
               /\ c.op = "create" /\ c.rel = r /\ d.op = "drop" /\ d.rel = r
               /\ pend' = d
               /\ \/ r \in live /\ r \notin open /\ log' = Append(log, d)
                  \/ r \in open /\ log' = Append(Append(log, c), d)
  BY DropRecords DEF Base
<1>2. /\ pend = None /\ live' = live \ {r} /\ open' = open \ {r} /\ UNCHANGED <<hdr, ents, cache>>
  BY DEF DropRel
<1>3. LogType /\ LogType' /\ d # None
  BY <1>1, BaseFacts, NoneIsNoRecord DEF Base
<1>4. /\ Extends /\ Len(log) \in Nat /\ Len(log') > Len(log) /\ log'[Len(log')] = d
      /\ \A i \in Len(log) + 1 .. Len(log') :
             (i = Len(log) + 1 /\ log'[i] = c /\ r \in open) \/ (i = Len(log') /\ log'[i] = d)
  <2>1. CASE log' = Append(log, d)
    BY <1>1, <1>3, <2>1, OneOnly
  <2>2. CASE r \in open /\ log' = Append(Append(log, c), d)
    BY <1>1, <1>3, <2>2, TwoOnly
  <2> QED BY <1>1, <2>1, <2>2
<1>5. \A o \in Oid : PrimaryHeaderOK(o)'
  <2>1. \A i \in Len(log) + 1 .. Len(log'), o \in Oid : ~About(log'[i], o)
    BY <1>1, <1>4 DEF About
  <2> QED BY <1>1, <1>2, <1>4, <2>1, NoHeaders
<1>6. ASSUME NEW s \in Rel PROVE PrimaryEntryOK(s)'
  <2>1. PrimaryEntryOK(s) /\ ~Dropping(s)
    BY <1>2, BaseFacts DEF Dropping
  <2>2. CASE s = r
    <3>1. Removes(log'[Len(log')], r) /\ Len(log') \in Nat \ {0}
      BY <1>1, <1>3, <1>4 DEF Removes, LogType
    <3>2. ~Made(log', Len(log'), r)
      BY <3>1, MadeLast
    <3>3. Dropping(r)'
      BY <1>1, <1>3 DEF Dropping
    <3> QED BY <1>2, <2>2, <3>2, <3>3 DEF PrimaryEntryOK
  <2>3. CASE s # r
    <3>1. \A i \in Len(log) + 1 .. Len(log') : ~Creates(log'[i], s) /\ ~Removes(log'[i], s)
      BY <1>1, <1>4, <2>3 DEF Creates, Removes
    <3>2. (s \in live' <=> s \in live) /\ (s \in open' <=> s \in open) /\ ~Dropping(s)'
      BY <1>1, <1>2, <2>3 DEF Dropping
    <3> QED BY <1>2, <1>3, <1>4, <2>1, <3>1, <3>2, EntriesQuiet
  <2> QED BY <2>2, <2>3
<1>7. LogSound'
  <2>1. ASSUME NEW i \in Len(log) + 1 .. Len(log') PROVE SoundAt(log', i)
    <3>1. CASE i = Len(log) + 1 /\ log'[i] = c /\ r \in open
      <4>1. PICK h \in PKey : HeaderIs(log, Len(log), Db, h)
        BY <3>1, KeyInLog
      <4>2. HeaderIs(log', Len(log), Db, h) /\ i - 1 = Len(log)
        BY <1>3, <1>4, <3>1, <4>1, HeaderBefore
      <4> QED BY <1>1, <3>1, <4>2 DEF SoundAt, Adds
    <3>2. CASE log'[i] = d
      BY <1>1, <3>2 DEF SoundAt, Adds
    <3> QED BY <1>4, <3>1, <3>2
  <2> QED BY <1>3, <1>4, <2>1, BaseFacts, SoundKeep
<1> QED BY <1>5, <1>6, <1>7 DEF FollowPrimary

\* An entry that no relation uses is freed.
LEMMA FollowFree ==
    ASSUME Base, FreeEntry \/ \E r \in Rel : CreatePlain(r)
    PROVE  FollowPrimary'
<1>1. ASSUME NEW r \in Rel, r \notin live, r \notin open, Extends, NEW s \in Rel,
             ents' = [ents EXCEPT ![Primary][r] = None], UNCHANGED <<live, open>>,
             ~Made(log', Len(log'), r),
             s # r => ~Dropping(s) /\ ~Dropping(s)',
             \A i \in Len(log) + 1 .. Len(log') :
                 s # r => ~Creates(log'[i], s) /\ ~Removes(log'[i], s)
      PROVE  PrimaryEntryOK(s)'
  <2>1. ents'[Primary][r] = None /\ (s # r => ents'[Primary][s] = ents[Primary][s])
    BY <1>1, BaseFacts, Names, Freed
  <2>2. CASE s = r
    BY <1>1, <2>1, <2>2 DEF PrimaryEntryOK
  <2>3. CASE s # r
    BY <1>1, <2>1, <2>3, BaseFacts, EntriesQuiet DEF Base
  <2> QED BY <2>2, <2>3
<1>2. CASE FreeEntry
  <2>1. PICK r : r = pend.rel
    OBVIOUS
  <2>2. /\ pend # None /\ pend.op = "drop" /\ r \in Rel /\ r \notin live /\ r \notin open
        /\ ents' = [ents EXCEPT ![Primary][r] = None] /\ pend' = None /\ log' = log
        /\ UNCHANGED <<hdr, cache, live, open>>
    BY <1>2, <2>1, BaseFacts DEF FreeEntry, RecOK, PendClean
  <2>3. Extends /\ Len(log) + 1 .. Len(log') = {}
    BY <2>2, BaseFacts, Nothing
  <2>4. ~Made(log', Len(log'), r)
    BY <2>2, BaseFacts DEF PrimaryEntryOK
  <2>5. ASSUME NEW s \in Rel PROVE PrimaryEntryOK(s)'
    <3>1. s # r => ~Dropping(s) /\ ~Dropping(s)'
      BY <2>1, <2>2 DEF Dropping
    <3> QED BY <1>1, <2>2, <2>3, <2>4, <3>1
  <2>6. \A o \in Oid : PrimaryHeaderOK(o)'
    BY <2>2, <2>3, NoHeaders
  <2>7. LogSound'
    BY <2>3, BaseFacts, SoundKeep DEF Base
  <2> QED BY <2>5, <2>6, <2>7 DEF FollowPrimary
<1>3. ASSUME NEW r \in Rel, CreatePlain(r) PROVE FollowPrimary'
  <2>1. PICK rec : rec = Rec("leftover", None, None, r, None)
    OBVIOUS
  <2>2. rec \in Recs /\ rec.op = "leftover" /\ rec.rel = r
    BY <2>1, RecFacts DEF Ops
  <2>3. /\ log' = Append(log, rec) /\ pend = None /\ pend' = None /\ r \notin live /\ r \notin open
        /\ ents' = [ents EXCEPT ![Primary][r] = None] /\ UNCHANGED <<hdr, cache, live, open>>
    BY <1>3, <2>1 DEF CreatePlain
  <2>4. /\ Extends /\ Len(log) \in Nat /\ Len(log') = Len(log) + 1 /\ log'[Len(log')] = rec
        /\ \A i \in Len(log) + 1 .. Len(log') : i = Len(log') /\ log'[i] = rec
    BY <2>2, <2>3, BaseFacts, OneOnly
  <2>5. Removes(log'[Len(log')], r) /\ Len(log') \in Nat \ {0}
    BY <2>2, <2>4 DEF Removes
  <2>6. ~Made(log', Len(log'), r)
    BY <2>5, MadeLast
  <2>7. ASSUME NEW s \in Rel PROVE PrimaryEntryOK(s)'
    <3>1. ~Dropping(s) /\ ~Dropping(s)'
      BY <2>3 DEF Dropping
    <3>2. \A i \in Len(log) + 1 .. Len(log') :
              s # r => ~Creates(log'[i], s) /\ ~Removes(log'[i], s)
      BY <2>2, <2>4 DEF Creates, Removes
    <3> QED BY <1>1, <2>3, <2>4, <2>6, <3>1, <3>2
  <2>8. \A o \in Oid : PrimaryHeaderOK(o)'
    <3>1. \A i \in Len(log) + 1 .. Len(log'), o \in Oid : ~About(log'[i], o)
      BY <2>2, <2>4 DEF About
    <3> QED BY <2>3, <2>4, <3>1, NoHeaders
  <2>9. LogSound'
    <3>1. SoundAt(log', Len(log'))
      BY <2>2, <2>4 DEF SoundAt, Adds
    <3> QED BY <2>4, <3>1, BaseFacts, SoundKeep DEF Base
  <2> QED BY <2>7, <2>8, <2>9 DEF FollowPrimary
<1> QED BY <1>2, <1>3

\* Providers, the flush, and an installation that begins, concern neither headers
\* nor entries.
LEMMA FollowQuiet ==
    ASSUME Base, (\E v \in Prov : DeleteProvider(v) \/ AddProvider(v)) \/ Install \/ Flush
    PROVE  FollowPrimary'
<1>1. /\ UNCHANGED <<hdr, ents, cache, live, open>>
      /\ pend' = pend \/ (pend = None /\ pend'.op = "install")
      /\ \/ log' = log
         \/ \E rec \in Recs : log' = Append(log, rec) /\ rec.op \in {"provider", "addprovider"}
  <2>1. ASSUME NEW v \in Prov, NEW op \in {"provider", "addprovider"}
        PROVE  Rec(op, None, None, None, v) \in Recs /\ Rec(op, None, None, None, v).op = op
    BY DEF Rec, Recs, Ops
  <2>2. Rec("install", Db, None, None, None).op = "install"
    BY DEF Rec
  <2>3. ASSUME NEW v \in Prov, DeleteProvider(v) \/ AddProvider(v)
        PROVE  /\ UNCHANGED <<hdr, ents, cache, live, open, pend>>
               /\ \E rec \in Recs : log' = Append(log, rec) /\ rec.op \in {"provider", "addprovider"}
    BY <2>1, <2>3 DEF DeleteProvider, AddProvider
  <2> QED BY <2>2, <2>3 DEF Install, Flush
<1>2. /\ Extends
      /\ \A i \in Len(log) + 1 .. Len(log') : log'[i].op \in {"provider", "addprovider"}
  <2>1. CASE log' = log
    BY <2>1, BaseFacts, Nothing
  <2>2. ASSUME NEW rec \in Recs, log' = Append(log, rec), rec.op \in {"provider", "addprovider"}
        PROVE  /\ Extends
               /\ \A i \in Len(log) + 1 .. Len(log') : log'[i].op \in {"provider", "addprovider"}
    BY <2>2, BaseFacts, OneOnly
  <2> QED BY <1>1, <2>1, <2>2
<1>3. ASSUME NEW s \in Rel PROVE PrimaryEntryOK(s)'
  <2>1. Dropping(s)' <=> Dropping(s)
    BY <1>1 DEF Dropping
  <2>2. \A i \in Len(log) + 1 .. Len(log') : ~Creates(log'[i], s) /\ ~Removes(log'[i], s)
    BY <1>2 DEF Creates, Removes
  <2> QED BY <1>1, <1>2, <2>1, <2>2, BaseFacts, EntriesQuiet DEF Base
<1>4. \A o \in Oid : PrimaryHeaderOK(o)'
  <2>1. \A i \in Len(log) + 1 .. Len(log'), o \in Oid : ~About(log'[i], o)
    BY <1>2 DEF About
  <2> QED BY <1>1, <1>2, <2>1, NoHeaders
<1>5. LogSound'
  <2>1. \A i \in Len(log) + 1 .. Len(log') : SoundAt(log', i)
    BY <1>2 DEF SoundAt, Adds
  <2> QED BY <1>2, <2>1, BaseFacts, SoundKeep DEF Base
<1> QED BY <1>3, <1>4, <1>5 DEF FollowPrimary

LEMMA FollowCleanUp ==
    ASSUME Base, CleanUp
    PROVE  FollowPrimary'
<1>1. PICK rec, o, k : rec = pend /\ o = pend.oid /\ k = None
  OBVIOUS
<1>2. pend # None /\ rec \in Recs /\ rec.op = "install" /\ rec.oid = Db /\ o = Db
  BY <1>1, BaseFacts, Names DEF CleanUp, RecOK
<1>3. /\ log' = Append(log, rec) /\ pend' = None /\ UNCHANGED <<live, open>>
      /\ hdr' = [hdr EXCEPT ![Primary][o] = k]
      /\ ents' = IF o = Db THEN [ents EXCEPT ![Primary] = [r \in Rel |-> None]] ELSE ents
      /\ cache' = [cache EXCEPT ![Primary][o] = k]
  BY <1>1, <1>2 DEF CleanUp, Unlink, ClearKey
<1>4. LogType /\ LogType' /\ FileType /\ o \in Oid /\ k \in MaybeKey
  BY <1>1, <1>2, BaseFacts, Names DEF Base, MaybeKey
<1>5. /\ Extends /\ Len(log) \in Nat /\ Len(log') = Len(log) + 1 /\ log'[Len(log')] = rec
      /\ \A i \in Len(log) + 1 .. Len(log') : i = Len(log') /\ log'[i] = rec
  BY <1>2, <1>3, <1>4, OneOnly
<1>6. cache'[Primary][Db] = None /\ \A p \in Oid : p # Db => cache'[Primary][p] = cache[Primary][p]
  <2>1. cache'[Primary][o] = k /\ \A p \in Oid : p # o => cache'[Primary][p] = cache[Primary][p]
    BY <1>3, <1>4, Names, Cached, ZenonT(40)
  <2> QED BY <1>1, <1>2, <2>1
<1>7. /\ hdr'[Primary][Db] = None /\ \A p \in Oid : p # Db => hdr'[Primary][p] = hdr[Primary][p]
      /\ \A r \in Rel : ents'[Primary][r] = None
  <2>1. /\ hdr' = [hdr EXCEPT ![Primary][o] = k]
        /\ ents' = IF o = Db THEN [ents EXCEPT ![Primary] = [r \in Rel |-> None]] ELSE ents
    BY <1>3, Zenon
  <2>2. FileType /\ Primary \in Server /\ o \in Oid /\ k \in MaybeKey
    BY <1>4, Names, Zenon
  <2>3. /\ hdr'[Primary][o] = k /\ \A p \in Oid : p # o => hdr'[Primary][p] = hdr[Primary][p]
        /\ o = Db => \A r \in Rel : ents'[Primary][r] = None
    BY <2>1, <2>2, Unlinked, ZenonT(40)
  <2> QED BY <1>1, <1>2, <2>3
<1>8. Len(log') \in Nat \ {0}
  BY <1>5
<1>9. ASSUME NEW p \in Oid PROVE PrimaryHeaderOK(p)'
  <2>1. PrimaryHeaderOK(p) /\ ~Setting(p) /\ ~Rotating(p) /\ ~Setting(p)' /\ ~Rotating(p)'
    BY <1>1, <1>2, <1>3, BaseFacts DEF Setting, Rotating
  <2>2. CASE p = Db
    <3>1. About(log'[Len(log')], Db) /\ Left(rec) = None
      BY <1>2, <1>5 DEF About, Left
    <3>2. HeaderIs(log', Len(log'), Db, None)
      BY <1>5, <1>8, <3>1, HeaderLast
    <3> QED BY <1>6, <1>7, <2>1, <2>2, <3>2 DEF PrimaryHeaderOK
  <2>3. CASE p # Db
    <3>1. \A i \in Len(log) + 1 .. Len(log') : ~About(log'[i], p)
      BY <1>2, <1>5, <2>3 DEF About
    <3>2. hdr'[Primary][p] = hdr[Primary][p] /\ cache'[Primary][p] \in {None, hdr[Primary][p]}
      BY <1>6, <1>7, <2>1, <2>3 DEF PrimaryHeaderOK
    <3> QED BY <1>4, <1>5, <2>1, <3>1, <3>2, HeadersQuiet
  <2> QED BY <2>2, <2>3
<1>10. ASSUME NEW r \in Rel PROVE PrimaryEntryOK(r)'
  <2>1. r \notin live /\ r \notin open
    BY <1>1, <1>2, BaseFacts DEF PendClean
  <2>2. Removes(log'[Len(log')], r)
    BY <1>2, <1>5 DEF Removes
  <2>3. ~Made(log', Len(log'), r)
    BY <1>8, <2>2, MadeLast
  <2> QED BY <1>3, <1>7, <2>1, <2>3 DEF PrimaryEntryOK
<1>11. LogSound'
  <2>1. SoundAt(log', Len(log'))
    BY <1>2, <1>5 DEF SoundAt, Adds
  <2> QED BY <1>4, <1>5, <2>1, BaseFacts, SoundKeep
<1> QED BY <1>9, <1>10, <1>11 DEF FollowPrimary

LEMMA PrimaryFollows ==
    ASSUME Base, PrimaryStep
    PROVE  FollowPrimary'
BY FollowSetKey, FollowRotateKey, FollowFile, FollowLogRotate, FollowDeleteKey, FollowCreateRel,
   FollowCommitRel, FollowDropRel, FollowFree, FollowQuiet, FollowCleanUp DEF PrimaryStep

-----------------------------------------------------------------------------
(* The standby's side, while the primary goes on.                          *)

\* A change under way goes on or has its record, and so has a creation.
Progress ==
    /\ Extends
    /\ \A o \in Oid : Rotating(o) => Rotating(o)' \/ \E x \in Len(log) + 1 .. Len(log') : log'[x] = pend
    /\ \A r \in open : r \in open' \/ \E x \in Len(log) + 1 .. Len(log') : Creates(log'[x], r)
    /\ pend' # None /\ pend'.op \in {"add", "delete", "drop"} =>
           pend' = pend \/ \E x \in Len(log) + 1 .. Len(log') : log'[x] = pend'

LEMMA ProgressOne ==
    ASSUME LogType, NEW rec \in Recs, log' = Append(log, rec),
           pend' = pend \/ (pend = None /\ pend' = rec) \/ (pend = rec /\ pend' = None),
           open' = open \/ \E r \in Rel : open' = open \ {r} /\ Creates(rec, r)
    PROVE  Progress
<1>1. Extends /\ Len(log) \in Nat /\ Len(log') = Len(log) + 1 /\ log'[Len(log')] = rec
  BY OneOnly
<1>2. PICK x : x = Len(log')
  OBVIOUS
<1>3. x \in Len(log) + 1 .. Len(log') /\ log'[x] = rec
  BY <1>1, <1>2
<1>4. \A o \in Oid : Rotating(o) => Rotating(o)' \/ log'[x] = pend
  BY <1>3 DEF Rotating
<1>5. \A r \in open : r \in open' \/ Creates(log'[x], r)
  BY <1>3
<1>6. pend' # None => pend' = pend \/ log'[x] = pend'
  BY <1>3
<1> QED BY <1>1, <1>3, <1>4, <1>5, <1>6 DEF Progress

LEMMA ProgressNone ==
    ASSUME LogType, log' = log, open \subseteq open',
           \/ pend' = pend
           \/ pend = None /\ pend'.op \in {"rotate", "install"}
           \/ pend' = None /\ pend.op # "rotate"
    PROVE  Progress
<1>1. Extends
  BY Nothing
<1> QED BY <1>1 DEF Progress, Rotating

LEMMA PrimaryProgress ==
    ASSUME TypeInv, PrimaryStep
    PROVE  Progress
<1>1. LogType /\ LogOK /\ FileType
  BY TypeParts DEF TypeInv
<1>2. ASSUME NEW o \in Oid, NEW k \in PKey, SetKey(o, k) PROVE Progress
  <2>1. PICK rec : rec = Rec("add", o, k, None, None)
    OBVIOUS
  <2>2. rec \in Recs
    BY <2>1, RecFacts DEF Ops
  <2> QED BY <1>1, <1>2, <2>1, <2>2, ProgressOne DEF SetKey
<1>3. ASSUME NEW o \in Oid, DeleteKey(o) PROVE Progress
  <2>1. PICK rec : rec = Rec("delete", o, None, None, None)
    OBVIOUS
  <2>2. rec \in Recs
    BY <2>1, RecFacts DEF Ops
  <2> QED BY <1>1, <1>3, <2>1, <2>2, ProgressOne DEF DeleteKey
<1>4. CASE LogRotate \/ CleanUp
  <2>1. PICK rec : rec = pend
    OBVIOUS
  <2>2. rec \in Recs /\ log' = Append(log, rec) /\ pend' = None /\ open' = open
    BY <1>1, <1>4, <2>1 DEF LogRotate, CleanUp, LogType
  <2> QED BY <1>1, <2>1, <2>2, ProgressOne
<1>5. ASSUME NEW r \in Rel, CommitRel(r) PROVE Progress
  <2>1. PICK rec : rec = Rec("create", None, None, r, None)
    OBVIOUS
  <2>2. rec \in Recs /\ Creates(rec, r)
    BY <2>1, RecFacts DEF Ops, Creates
  <2>3. log' = Append(log, rec) /\ pend' = pend /\ open' = open \ {r}
    BY <1>5, <2>1 DEF CommitRel
  <2> QED BY <1>1, <2>2, <2>3, ProgressOne
<1>6. ASSUME NEW r \in Rel, DropRel(r) PROVE Progress
  <2>1. PICK c \in Recs, d \in Recs :
                 /\ c.op = "create" /\ c.rel = r /\ pend' = d
                 /\ \/ r \in live /\ r \notin open /\ log' = Append(log, d)
                    \/ r \in open /\ log' = Append(Append(log, c), d)
    BY <1>6, DropRecords
  <2>2. pend = None /\ open' = open \ {r}
    BY <1>6 DEF DropRel
  <2>3. CASE r \notin open /\ log' = Append(log, d)
    <3>1. open' = open
      BY <2>2, <2>3
    <3> QED BY <1>1, <2>1, <2>2, <2>3, <3>1, ProgressOne
  <2>4. CASE r \in open /\ log' = Append(Append(log, c), d)
    <3>1. PICK x, y : x = Len(log) + 1 /\ y = Len(log')
      OBVIOUS
    <3>2. /\ Extends /\ log'[x] = c /\ log'[y] = d
          /\ x \in Len(log) + 1 .. Len(log') /\ y \in Len(log) + 1 .. Len(log')
      BY <1>1, <2>1, <2>4, <3>1, TwoOnly
    <3>3. \A s \in open : s \in open' \/ Creates(log'[x], s)
      BY <2>1, <2>2, <3>2 DEF Creates
    <3>4. \A o \in Oid : ~Rotating(o)
      BY <2>2 DEF Rotating
    <3> QED BY <2>1, <3>2, <3>3, <3>4 DEF Progress
  <2> QED BY <2>1, <2>3, <2>4
<1>7. ASSUME NEW r \in Rel, CreatePlain(r) PROVE Progress
  <2>1. PICK rec : rec = Rec("leftover", None, None, r, None)
    OBVIOUS
  <2>2. rec \in Recs
    BY <2>1, RecFacts DEF Ops
  <2>3. log' = Append(log, rec) /\ pend' = pend /\ open' = open
    BY <1>7, <2>1 DEF CreatePlain
  <2> QED BY <1>1, <2>2, <2>3, ProgressOne
<1>8. ASSUME NEW v \in Prov, DeleteProvider(v) \/ AddProvider(v) PROVE Progress
  <2>1. PICK rec : /\ rec = Rec("provider", None, None, None, v) \/ rec = Rec("addprovider", None, None, None, v)
                   /\ log' = Append(log, rec)
    BY <1>8 DEF DeleteProvider, AddProvider
  <2>2. rec \in Recs
    BY <2>1 DEF Rec, Recs, Ops
  <2>3. pend' = pend /\ open' = open
    BY <1>8 DEF DeleteProvider, AddProvider
  <2> QED BY <1>1, <2>1, <2>2, <2>3, ProgressOne
<1>9. ASSUME \/ \E o \in Oid, k \in PKey : RotateKey(o, k)
             \/ WriteHeader \/ UnlinkFile \/ FreeEntry \/ Install \/ Flush
             \/ \E r \in Rel : CreateRel(r)
      PROVE  Progress
  <2>1. \A o, k : Rec("rotate", o, k, None, None).op = "rotate" /\ Rec("install", o, None, None, None).op = "install"
    BY DEF Rec
  <2>2. log' = log /\ open \subseteq open'
    BY <1>9 DEF RotateKey, WriteHeader, UnlinkFile, FreeEntry, Install, Flush, CreateRel
  <2>3. \/ pend' = pend
        \/ pend = None /\ pend'.op \in {"rotate", "install"}
        \/ pend' = None /\ pend.op # "rotate"
    BY <1>9, <2>1 DEF RotateKey, WriteHeader, UnlinkFile, FreeEntry, Install, Flush, CreateRel
  <2> QED BY <1>1, <2>2, <2>3, ProgressNone
<1> QED BY <1>2, <1>3, <1>4, <1>5, <1>6, <1>7, <1>8, <1>9 DEF PrimaryStep

\* The standby may have replayed no more than there was.
LEMMA StandbyWaits ==
    ASSUME TypeInv, LogType', PrimaryStep, FollowStandby
    PROVE  FollowStandby'
<1>1. Progress /\ LogType /\ FileType
  BY PrimaryProgress, TypeParts DEF TypeInv
<1>2. /\ left' = left /\ at' = at /\ mode' = mode
      /\ hdr'[Standby] = hdr[Standby] /\ ents'[Standby] = ents[Standby]
  BY PrimaryFrame
<1>3. PICK a : a = at[Standby]
  OBVIOUS
<1>4. /\ a \in 0 .. Len(log) /\ Len(log) \in Nat /\ Len(log') \in Nat /\ Len(log') >= Len(log)
      /\ \A i \in 1 .. Len(log) : log'[i] = log[i]
  BY <1>1, <1>3, Names, SMTT(30) DEF LogType, Progress, Extends
<1>5. Continues(log, a, log', a) /\ a + 1 .. a = {}
  BY <1>4 DEF Continues
<1>6. /\ \A x \in a + 1 .. Len(log) : x \in a + 1 .. Len(log') /\ log'[x] = log[x]
      /\ \A x \in Len(log) + 1 .. Len(log') : x \in a + 1 .. Len(log')
  BY <1>4
<1>7. ASSUME NEW o \in Oid PROVE StandbyHeaderOK(o)'
  <2>1. StandbyHeaderOK(o)
    BY DEF FollowStandby
  <2>2. CASE o \in left
    BY <1>2, <2>2 DEF StandbyHeaderOK
  <2>3. CASE Rotating(o)
    <3>1. CASE Rotating(o)'
      BY <3>1 DEF StandbyHeaderOK
    <3>2. ASSUME NEW x \in Len(log) + 1 .. Len(log'), log'[x] = pend PROVE StandbyHeaderOK(o)'
      <4>1. x \in a + 1 .. Len(log') /\ About(log'[x], o) /\ log'[x].op # "add"
        BY <1>6, <2>3, <3>2 DEF Rotating, About
      <4> QED BY <1>2, <1>3, <4>1 DEF StandbyHeaderOK
    <3> QED BY <1>1, <2>3, <3>1, <3>2 DEF Progress
  <2>4. CASE HeaderIs(log, at[Standby], o, hdr[Standby][o])
    <3>1. HeaderIs(log', a, o, hdr[Standby][o])
      BY <1>3, <1>5, <2>4, HeaderKeep
    <3> QED BY <1>2, <1>3, <3>1 DEF StandbyHeaderOK
  <2>5. ASSUME NEW x \in at[Standby] + 1 .. Len(log), About(log[x], o),
               log[x].op = "add" => hdr[Standby][o] = log[x].key
        PROVE  StandbyHeaderOK(o)'
    <3>1. x \in a + 1 .. Len(log') /\ log'[x] = log[x]
      BY <1>3, <1>6
    <3> QED BY <1>2, <1>3, <2>5, <3>1 DEF StandbyHeaderOK
  <2> QED BY <2>1, <2>2, <2>3, <2>4, <2>5 DEF StandbyHeaderOK
<1>8. ASSUME NEW r \in Rel PROVE StandbyEntryOK(r)'
  <2>1. StandbyEntryOK(r)
    BY DEF FollowStandby
  <2>2. CASE Db \in left
    BY <1>2, <2>2 DEF StandbyEntryOK
  <2>3. CASE r \in open
    <3>1. CASE r \in open'
      BY <3>1 DEF StandbyEntryOK
    <3>2. ASSUME NEW x \in Len(log) + 1 .. Len(log'), Creates(log'[x], r) PROVE StandbyEntryOK(r)'
      BY <1>2, <1>3, <1>6, <3>2 DEF StandbyEntryOK
    <3> QED BY <1>1, <2>3, <3>1, <3>2 DEF Progress
  <2>4. CASE ents[Standby][r] # None <=> Made(log, at[Standby], r)
    <3>1. Made(log, a, r) <=> Made(log', a, r)
      BY <1>5, MadeKeep
    <3> QED BY <1>2, <1>3, <2>4, <3>1 DEF StandbyEntryOK
  <2>5. ASSUME NEW x \in at[Standby] + 1 .. Len(log), Creates(log[x], r) \/ Removes(log[x], r)
        PROVE  StandbyEntryOK(r)'
    <3>1. x \in a + 1 .. Len(log') /\ log'[x] = log[x]
      BY <1>3, <1>6
    <3> QED BY <1>2, <1>3, <2>5, <3>1 DEF StandbyEntryOK
  <2> QED BY <2>1, <2>2, <2>3, <2>4, <2>5 DEF StandbyEntryOK
<1>9. BackupOK'
  <2> SUFFICES ASSUME mode[Standby] = "backup", pend' # None, pend'.op \in {"add", "delete", "drop"}
               PROVE  \E x \in a + 1 .. Len(log') : log'[x] = pend'
    BY <1>2, <1>3 DEF BackupOK
  <2>1. CASE pend' = pend
    <3>1. PICK x \in a + 1 .. Len(log) : log[x] = pend
      BY <1>3, <2>1 DEF FollowStandby, BackupOK
    <3> QED BY <1>6, <2>1, <3>1
  <2>2. CASE \E x \in Len(log) + 1 .. Len(log') : log'[x] = pend'
    BY <1>6, <2>2
  <2> QED BY <1>1, <2>1, <2>2 DEF Progress
<1> QED BY <1>7, <1>8, <1>9 DEF FollowStandby

-----------------------------------------------------------------------------
(* The standby's own steps.                                                *)

\* They leave the primary and its log as they are.
LEMMA PrimarySame ==
    ASSUME FollowPrimary, UNCHANGED <<log, pend, live, open>>, hdr'[Primary] = hdr[Primary],
           ents'[Primary] = ents[Primary], cache'[Primary] = cache[Primary]
    PROVE  FollowPrimary'
<1>1. \A o \in Oid : PrimaryHeaderOK(o)'
  BY DEF FollowPrimary, PrimaryHeaderOK, Setting, Rotating
<1>2. \A r \in Rel : PrimaryEntryOK(r)'
  BY DEF FollowPrimary, PrimaryEntryOK, Dropping
<1>3. LogSound'
  BY DEF FollowPrimary, LogSound
<1> QED BY <1>1, <1>2, <1>3 DEF FollowPrimary

\* A step that does not move the standby.
LEMMA StandbySame ==
    ASSUME FollowStandby, UNCHANGED <<log, pend, open, left>>, at'[Standby] = at[Standby],
           hdr'[Standby] = hdr[Standby], ents'[Standby] = ents[Standby],
           mode'[Standby] = "backup" => mode[Standby] = "backup"
    PROVE  FollowStandby'
<1>1. \A o \in Oid : StandbyHeaderOK(o)'
  BY DEF FollowStandby, StandbyHeaderOK, Rotating
<1>2. \A r \in Rel : StandbyEntryOK(r)'
  BY DEF FollowStandby, StandbyEntryOK
<1>3. BackupOK'
  BY DEF FollowStandby, BackupOK
<1> QED BY <1>1, <1>2, <1>3 DEF FollowStandby

\* A restart goes back to the last restartpoint: what the standby has forgotten it
\* has replayed, it will replay.
LEMMA StandbyCrash ==
    ASSUME TypeInv, FollowStandby, Crash(Standby)
    PROVE  FollowStandby'
<1>1. LogType /\ FileType /\ ModeOK
  BY TypeParts DEF TypeInv
<1>2. PICK a, c : a = at[Standby] /\ c = ckpt[Standby]
  OBVIOUS
<1>3. /\ a \in 0 .. Len(log) /\ c \in Nat /\ a \in Nat /\ c <= a /\ Len(log) \in Nat
      /\ \A x \in c + 1 .. a : x \in c + 1 .. Len(log)
      /\ \A x \in a + 1 .. Len(log) : x \in c + 1 .. Len(log)
  BY <1>1, <1>2, Names DEF LogType, ModeOK
<1>4. /\ UNCHANGED <<log, pend, open, left, hdr, ents>> /\ at'[Standby] = c /\ mode'[Standby] = "redo"
  BY <1>1, <1>2, Names DEF Crash, LogType, FileType
<1>5. ASSUME NEW o \in Oid PROVE StandbyHeaderOK(o)'
  <2>1. StandbyHeaderOK(o)
    BY DEF FollowStandby
  <2>2. CASE o \in left \/ Rotating(o)
    BY <1>4, <2>2 DEF StandbyHeaderOK, Rotating
  <2>3. CASE HeaderIs(log, a, o, hdr[Standby][o])
    <3>1. PICK h : h = hdr[Standby][o]
      OBVIOUS
    <3>2. \/ HeaderIs(log, c, o, h)
          \/ \E x \in c + 1 .. a : About(log[x], o) /\ h = Left(log[x])
      BY <1>3, <2>3, <3>1, HeaderBack
    <3> QED BY <1>3, <1>4, <3>1, <3>2 DEF StandbyHeaderOK, Left
  <2>4. ASSUME NEW x \in a + 1 .. Len(log), About(log[x], o),
               log[x].op = "add" => hdr[Standby][o] = log[x].key
        PROVE  StandbyHeaderOK(o)'
    BY <1>3, <1>4, <2>4 DEF StandbyHeaderOK
  <2> QED BY <1>2, <2>1, <2>2, <2>3, <2>4 DEF StandbyHeaderOK
<1>6. ASSUME NEW r \in Rel PROVE StandbyEntryOK(r)'
  <2>1. StandbyEntryOK(r)
    BY DEF FollowStandby
  <2>2. CASE Db \in left \/ r \in open
    BY <1>4, <2>2 DEF StandbyEntryOK
  <2>3. CASE ents[Standby][r] # None <=> Made(log, a, r)
    <3>1. \/ Made(log, a, r) <=> Made(log, c, r)
          \/ \E x \in c + 1 .. a : Creates(log[x], r) \/ Removes(log[x], r)
      BY <1>3, MadeBack
    <3> QED BY <1>3, <1>4, <2>3, <3>1 DEF StandbyEntryOK
  <2>4. ASSUME NEW x \in a + 1 .. Len(log), Creates(log[x], r) \/ Removes(log[x], r)
        PROVE  StandbyEntryOK(r)'
    BY <1>3, <1>4, <2>4 DEF StandbyEntryOK
  <2> QED BY <1>2, <2>1, <2>2, <2>3, <2>4 DEF StandbyEntryOK
<1>7. BackupOK'
  BY <1>4 DEF BackupOK
<1> QED BY <1>5, <1>6, <1>7 DEF FollowStandby

LEMMA StandbyStarts ==
    ASSUME TypeInv, Watched, StartBackup
    PROVE  FollowStandby'
<1>1. ModeOK /\ FileType
  BY TypeParts DEF TypeInv
<1>2. pend' = None
  <2>1. env.backup \in {"none", "between", "any"}
    BY <1>1, KeyRedoAssumption DEF FileType
  <2> QED BY <1>1, <2>1 DEF StartBackup, ModeOK, Watched
<1>3. left' = Files /\ Db \in Oid
  BY Names DEF StartBackup
<1> QED BY <1>2, <1>3 DEF FollowStandby, StandbyHeaderOK, StandbyEntryOK, BackupOK, Files

\* A copy of a file holds the changes whose records the primary has written, but for
\* the one that is under way.
LEMMA StandbyReceives ==
    ASSUME TypeInv, FollowPrimary, FollowStandby, NEW f \in Files, ReceiveFile(f)
    PROVE  FollowStandby'
<1>1. LogType /\ FileType /\ ModeOK /\ LogOK
  BY TypeParts DEF TypeInv
<1>2. PICK a, m : a = at[Standby] /\ m = Len(log)
  OBVIOUS
<1>3. a \in Nat /\ m \in Nat /\ a <= m
  BY <1>1, <1>2, Names DEF LogType
<1>4. /\ f \in left /\ mode[Standby] = "backup" /\ left' = left \ {f}
      /\ UNCHANGED <<log, pend, open, at, mode>>
  BY <1>1 DEF ReceiveFile, ModeOK
<1>5. ASSUME NEW o \in Oid PROVE StandbyHeaderOK(o)'
  <2>1. StandbyHeaderOK(o) /\ PrimaryHeaderOK(o)
    BY DEF FollowStandby, FollowPrimary
  <2>2. CASE o # f
    <3>1. hdr'[Standby][o] = hdr[Standby][o]
      BY <1>1, <2>2, Names DEF ReceiveFile, FileType
    <3> QED BY <1>4, <2>1, <2>2, <3>1 DEF StandbyHeaderOK, Rotating
  <2>3. CASE o = f
    <3>1. PICK h : h = hdr[Primary][o]
      OBVIOUS
    <3>2. hdr'[Standby][o] = h
      BY <1>1, <2>3, <3>1, Names DEF ReceiveFile, FileType
    <3>3. SUFFICES \/ Rotating(o) \/ HeaderIs(log, a, o, h)
                   \/ \E x \in a + 1 .. m : About(log[x], o) /\ (log[x].op = "add" => h = log[x].key)
      BY <1>2, <1>4, <3>2 DEF StandbyHeaderOK, Rotating
    <3>4. CASE ~Setting(o) /\ ~Rotating(o)
      <4>1. HeaderIs(log, m, o, h)
        BY <1>2, <2>1, <3>1, <3>4 DEF PrimaryHeaderOK
      <4>2. \/ HeaderIs(log, a, o, h)
            \/ \E x \in a + 1 .. m : About(log[x], o) /\ h = Left(log[x])
        BY <1>3, <4>1, HeaderBack
      <4> QED BY <4>2 DEF Left
    <3>5. CASE Setting(o)
      <4>1. PICK x \in a + 1 .. m : log[x] = pend
        BY <1>2, <1>4, <3>5 DEF Setting, FollowStandby, BackupOK
      <4>2. About(log[x], o)
        BY <3>5, <4>1 DEF Setting, About
      <4>3. CASE pend.op = "delete"
        BY <4>1, <4>2, <4>3
      <4>4. CASE pend.op = "add"
        <5>1. h = None /\ Adds(log[x], o) /\ x \in 1 .. Len(log)
          BY <1>2, <1>3, <2>1, <3>1, <3>5, <4>1, <4>4 DEF PrimaryHeaderOK, Setting, Adds
        <5>2. PICK y : y = x - 1
          OBVIOUS
        <5>3. HeaderIs(log, y, o, None)
          BY <5>1, <5>2 DEF FollowPrimary, LogSound, SoundAt
        <5>4. y \in Nat /\ a <= y /\ \A z \in a + 1 .. y : z \in a + 1 .. m /\ z \in 1 .. Len(log)
          BY <1>2, <1>3, <5>2
        <5>5. \/ HeaderIs(log, a, o, None)
              \/ \E z \in a + 1 .. y : About(log[z], o) /\ None = Left(log[z])
          BY <1>3, <5>3, <5>4, HeaderBack
        <5>6. ASSUME NEW z \in a + 1 .. y, About(log[z], o), None = Left(log[z])
              PROVE  log[z].op # "add"
          BY <1>1, <5>4, <5>6, Names DEF LogOK, RecOK, Left
        <5> QED BY <5>1, <5>4, <5>5, <5>6
      <4> QED BY <3>5, <4>3, <4>4 DEF Setting
    <3> QED BY <3>4, <3>5
  <2> QED BY <2>2, <2>3
<1>6. ASSUME NEW r \in Rel PROVE StandbyEntryOK(r)'
  <2>1. StandbyEntryOK(r) /\ PrimaryEntryOK(r)
    BY DEF FollowStandby, FollowPrimary
  <2>2. CASE f # Db
    <3>1. ents' = ents
      BY <2>2 DEF ReceiveFile
    <3> QED BY <1>4, <2>1, <2>2, <3>1 DEF StandbyEntryOK
  <2>3. CASE f = Db
    <3>1. ents'[Standby] = ents[Primary]
      BY <1>1, <2>3, Names DEF ReceiveFile, FileType
    <3>2. SUFFICES \/ r \in open \/ (ents[Primary][r] # None <=> Made(log, a, r))
                   \/ \E x \in a + 1 .. m : Creates(log[x], r) \/ Removes(log[x], r)
      BY <1>2, <1>4, <3>1 DEF StandbyEntryOK
    <3>3. CASE Dropping(r)
      <4>1. PICK x \in a + 1 .. m : log[x] = pend
        BY <1>2, <1>4, <3>3 DEF Dropping, FollowStandby, BackupOK
      <4> QED BY <3>3, <4>1 DEF Dropping, Removes
    <3>4. CASE ents[Primary][r] # None <=> Made(log, m, r)
      <4>1. \/ Made(log, m, r) <=> Made(log, a, r)
            \/ \E x \in a + 1 .. m : Creates(log[x], r) \/ Removes(log[x], r)
        BY <1>3, MadeBack
      <4> QED BY <3>4, <4>1
    <3> QED BY <1>2, <2>1, <3>3, <3>4 DEF PrimaryEntryOK
  <2> QED BY <2>2, <2>3
<1>7. BackupOK'
  BY <1>4 DEF FollowStandby, BackupOK
<1> QED BY <1>5, <1>6, <1>7 DEF FollowStandby

\* What replay does to a header.
LEMMA RedoLeaves ==
    ASSUME TypeInv, NEW n \in Server, Redo(n), NEW o \in Oid, NEW rec, rec = log[at[n] + 1]
    PROVE  /\ About(rec, o) /\ rec.op # "add" => hdr'[n][o] = Left(rec)
           /\ Adds(rec, o) => hdr'[n][o] = IF hdr[n][o] = None THEN rec.key ELSE hdr[n][o]
           /\ ~About(rec, o) => \/ hdr'[n][o] = hdr[n][o]
                                \/ rec.op = "create" /\ o = Db /\ hdr[n][o] = None
<1>1. rec \in Recs /\ RecOK(rec) /\ FileType /\ hdr \in [Server -> [Oid -> MaybeKey]]
  BY NextRecord, TypeParts DEF TypeInv, Redo, FileType, MaybeKey
<1>2. \/ rec.op = "add" /\ RedoAdd(n, rec)
      \/ rec.op = "delete" /\ RedoDelete(n, rec)
      \/ rec.op = "rotate" /\ CanRotate(n, rec) /\ RedoRotate(n, rec)
      \/ rec.op = "create" /\ CanCreate(n) /\ RedoCreate(n, rec)
      \/ rec.op \in {"drop", "leftover"} /\ RedoDrop(n, rec)
      \/ rec.op = "provider" /\ RedoProvider(n, rec)
      \/ rec.op = "addprovider" /\ RedoAddProvider(n, rec)
      \/ rec.op = "install" /\ RedoInstall(n, rec)
  BY DEF Redo
<1>3. CASE rec.op = "add" /\ RedoAdd(n, rec)
  <2>1. rec.key \in MaybeKey /\ rec.oid \in Oid
    BY <1>1, <1>3 DEF RecOK, MaybeKey
  <2>2. hdr' = [hdr EXCEPT ![n][rec.oid] = IF @ = None THEN rec.key ELSE @]
    BY <1>3 DEF RedoAdd
  <2>3. /\ hdr'[n][rec.oid] = IF hdr[n][rec.oid] = None THEN rec.key ELSE hdr[n][rec.oid]
        /\ \A p \in Oid : p # rec.oid => hdr'[n][p] = hdr[n][p]
    BY <1>1, <2>1, <2>2
  <2> QED BY <1>3, <2>3 DEF Adds, About
<1>4. CASE (rec.op = "delete" /\ RedoDelete(n, rec)) \/ (rec.op = "install" /\ RedoInstall(n, rec))
  <2>1. rec.oid \in Oid /\ hdr' = [hdr EXCEPT ![n][rec.oid] = None]
    BY <1>1, <1>4 DEF RecOK, RedoDelete, RedoInstall, Unlink
  <2>2. hdr'[n][rec.oid] = None /\ \A p \in Oid : p # rec.oid => hdr'[n][p] = hdr[n][p]
    BY <1>1, <2>1
  <2> QED BY <1>4, <2>2 DEF Adds, About, Left
<1>5. CASE rec.op = "rotate" /\ RedoRotate(n, rec)
  <2>1. rec.key \in PKey /\ rec.oid \in Oid /\ RotateFile(n, rec.oid, rec.key)
    BY <1>1, <1>5 DEF RecOK, RedoRotate
  <2>2. /\ hdr'[n][rec.oid] = rec.key
        /\ \A p \in Oid : p # rec.oid => hdr'[n][p] = hdr[n][p]
    BY <1>1, <2>1, Rotated
  <2> QED BY <1>5, <2>2 DEF Adds, About, Left
<1>6. CASE rec.op = "create" /\ RedoCreate(n, rec)
  <2>1. rec.rel \in Rel /\ SaveSmgrKey(n, rec.rel, FALSE)
    BY <1>1, <1>6 DEF RecOK, RedoCreate
  <2>2. /\ hdr'[n][Db] = IF hdr[n][Db] = None THEN Effective(n) ELSE hdr[n][Db]
        /\ hdr'[n][Default] = hdr[n][Default]
    BY <1>1, <2>1, Saved
  <2> QED BY <1>6, <2>2, Names DEF Adds, About
<1>7. CASE rec.op \notin {"add", "rotate", "create", "delete", "install"} /\ hdr' = hdr
  BY <1>7 DEF Adds, About
<1> QED BY <1>2, <1>3, <1>4, <1>5, <1>6, <1>7 DEF RedoDrop, RedoProvider, RedoAddProvider

\* And to an entry.
LEMMA RedoEntryLeaves ==
    ASSUME TypeInv, NEW n \in Server, Redo(n), NEW r \in Rel, NEW rec, rec = log[at[n] + 1]
    PROVE  /\ Creates(rec, r) => ents'[n][r] # None
           /\ Removes(rec, r) => ents'[n][r] = None
           /\ ~Creates(rec, r) /\ ~Removes(rec, r) => (ents'[n][r] # None <=> ents[n][r] # None)
<1>1. rec \in Recs /\ RecOK(rec) /\ FileType
  BY NextRecord, TypeParts DEF TypeInv, Redo
<1>2. ents'[n][r] = None => Removes(rec, r) \/ (ents[n][r] = None /\ ~Creates(rec, r))
  BY RedoEntry DEF Creates
<1>3. ~(Creates(rec, r) /\ Removes(rec, r))
  BY DEF Creates, Removes
<1>4. \/ rec.op = "add" /\ RedoAdd(n, rec)
      \/ rec.op = "delete" /\ RedoDelete(n, rec)
      \/ rec.op = "rotate" /\ CanRotate(n, rec) /\ RedoRotate(n, rec)
      \/ rec.op = "create" /\ CanCreate(n) /\ RedoCreate(n, rec)
      \/ rec.op \in {"drop", "leftover"} /\ RedoDrop(n, rec)
      \/ rec.op = "provider" /\ RedoProvider(n, rec)
      \/ rec.op = "addprovider" /\ RedoAddProvider(n, rec)
      \/ rec.op = "install" /\ RedoInstall(n, rec)
  BY DEF Redo
<1>5. SUFFICES /\ Removes(rec, r) => ents'[n][r] = None
               /\ ents[n][r] = None /\ ~Creates(rec, r) => ents'[n][r] = None
  BY <1>2, <1>3
<1>6. CASE \/ rec.op = "add" /\ RedoAdd(n, rec)
           \/ rec.op = "provider" /\ RedoProvider(n, rec)
           \/ rec.op = "addprovider" /\ RedoAddProvider(n, rec)
  BY <1>6 DEF RedoAdd, RedoProvider, RedoAddProvider, Removes
<1>7. CASE (rec.op = "delete" /\ RedoDelete(n, rec)) \/ (rec.op = "install" /\ RedoInstall(n, rec))
  <2>1. ents' = IF rec.oid = Db THEN [ents EXCEPT ![n] = [s \in Rel |-> None]] ELSE ents
    BY <1>7 DEF RedoDelete, RedoInstall, Unlink
  <2>2. rec.oid = Db => ents'[n][r] = None
    BY <1>1, <2>1 DEF FileType
  <2> QED BY <1>7, <2>1, <2>2 DEF Removes
<1>8. CASE rec.op = "rotate" /\ RedoRotate(n, rec)
  <2>1. rec.oid \in Oid /\ rec.key \in PKey /\ RotateFile(n, rec.oid, rec.key)
    BY <1>1, <1>8 DEF RecOK, RedoRotate
  <2>2. /\ rec.oid # Db => ents' = ents
        /\ rec.oid = Db => ents'[n][r] = IF ents[n][r] = None THEN None ELSE rec.key
    BY <1>1, <2>1, Rotated
  <2> QED BY <1>8, <2>2 DEF Removes
<1>9. CASE rec.op = "create" /\ RedoCreate(n, rec)
  <2>1. rec.rel \in Rel /\ SaveSmgrKey(n, rec.rel, FALSE)
    BY <1>1, <1>9 DEF RecOK, RedoCreate
  <2>2. \A s \in Rel : s # rec.rel => ents'[n][s] = ents[n][s]
    BY <1>1, <2>1, Saved
  <2> QED BY <1>9, <2>2 DEF Removes, Creates
<1>10. CASE rec.op \in {"drop", "leftover"} /\ RedoDrop(n, rec)
  <2>1. rec.rel \in Rel /\ ents' = [ents EXCEPT ![n][rec.rel] = None]
    BY <1>1, <1>10 DEF RecOK, RedoDrop
  <2>2. ents'[n][rec.rel] = None /\ \A s \in Rel : s # rec.rel => ents'[n][s] = ents[n][s]
    BY <1>1, <2>1, Freed, ZenonT(40)
  <2> QED BY <1>10, <2>2 DEF Removes
<1> QED BY <1>4, <1>6, <1>7, <1>8, <1>9, <1>10

\* One more record is replayed.
LEMMA StandbyRedo ==
    ASSUME TypeInv, FollowPrimary, FollowStandby, Redo(Standby)
    PROVE  FollowStandby'
<1>1. LogType /\ FileType /\ ModeOK /\ LogOK
  BY TypeParts DEF TypeInv
<1>2. PICK a, i, rec, m : a = at[Standby] /\ i = at[Standby] + 1 /\ rec = log[at[Standby] + 1] /\ m = Len(log)
  OBVIOUS
<1>3. /\ a \in Nat /\ m \in Nat /\ i = a + 1 /\ i \in 1 .. Len(log) /\ i <= m /\ i - 1 = a /\ i \in Nat \ {0}
      /\ rec = log[i] /\ RecOK(rec)
  BY <1>1, <1>2, Names, NextRecord DEF LogType, Redo
<1>4. /\ UNCHANGED <<log, pend, open, left, mode>> /\ at'[Standby] = i /\ mode[Standby] = "redo"
      /\ left = {}
  BY <1>1, <1>2, Names DEF LogType, Redo, Replaying, ModeOK
<1>5. Continues(log, a, log, i) /\ \A j \in a + 1 .. i : j = i
  BY <1>3 DEF Continues
<1>6. \A x \in a + 1 .. m : x = i \/ x \in i + 1 .. m
  BY <1>3
<1>7. SoundAt(log, i)
  BY <1>3 DEF FollowPrimary, LogSound
<1>8. ASSUME NEW o \in Oid PROVE StandbyHeaderOK(o)'
  <2>1. PICK h, g : h = hdr[Standby][o] /\ g = hdr'[Standby][o]
    OBVIOUS
  <2>2. \/ Rotating(o) \/ HeaderIs(log, a, o, h)
        \/ \E x \in a + 1 .. m : About(log[x], o) /\ (log[x].op = "add" => h = log[x].key)
    BY <1>2, <1>4, <2>1 DEF FollowStandby, StandbyHeaderOK
  <2>3. SUFFICES \/ Rotating(o) \/ HeaderIs(log, i, o, g)
                 \/ \E x \in i + 1 .. m : About(log[x], o) /\ (log[x].op = "add" => g = log[x].key)
    BY <1>2, <1>4, <2>1 DEF StandbyHeaderOK, Rotating
  <2>4. /\ About(rec, o) /\ rec.op # "add" => g = Left(rec)
        /\ Adds(rec, o) => g = IF h = None THEN rec.key ELSE h
        /\ ~About(rec, o) => g = h \/ (rec.op = "create" /\ o = Db /\ h = None)
    BY <1>2, <2>1, Names, RedoLeaves
  <2>5. CASE About(rec, o)
    <3>1. HeaderIs(log, i, o, Left(rec))
      BY <1>3, <2>5, HeaderLast
    <3>2. CASE rec.op # "add"
      BY <2>4, <2>5, <3>1, <3>2
    <3>3. CASE rec.op = "add"
      <4>1. Adds(rec, o) /\ Left(rec) = rec.key
        BY <2>5, <3>3 DEF About, Adds, Left
      <4>2. CASE h = None
        BY <2>4, <3>1, <4>1, <4>2
      <4>3. CASE h # None
        <5>1. g = h /\ HeaderIs(log, a, o, None)
          BY <1>3, <1>7, <2>4, <4>1, <4>3 DEF SoundAt
        <5>2. ~HeaderIs(log, a, o, h)
          BY <1>3, <4>3, <5>1, HeaderUnique
        <5>3. ASSUME NEW x \in a + 1 .. m, About(log[x], o), log[x].op = "add" => h = log[x].key,
                     x = i
              PROVE  HeaderIs(log, i, o, g)
          BY <1>3, <3>1, <3>3, <4>1, <5>1, <5>3
        <5> QED BY <1>6, <2>2, <5>1, <5>2, <5>3
      <4> QED BY <4>2, <4>3
    <3> QED BY <3>2, <3>3
  <2>6. CASE ~About(rec, o) /\ g = h
    <3>1. CASE HeaderIs(log, a, o, h)
      <4>1. \A j \in a + 1 .. i : ~About(log[j], o)
        BY <1>3, <1>5, <2>6
      <4>2. HeaderIs(log, i, o, h)
        BY <1>5, <3>1, <4>1, HeaderKeep
      <4> QED BY <2>6, <4>2
    <3> QED BY <1>3, <1>6, <2>2, <2>6, <3>1
  <2>7. CASE ~About(rec, o) /\ rec.op = "create" /\ o = Db /\ h = None
    <3>1. PICK k \in PKey : HeaderIs(log, a, o, k)
      BY <1>3, <1>7, <2>7 DEF SoundAt
    <3>2. ~HeaderIs(log, a, o, h)
      BY <1>3, <2>7, <3>1, HeaderUnique, Names
    <3>3. ASSUME NEW x \in a + 1 .. m, About(log[x], o), log[x].op = "add" => h = log[x].key
          PROVE  x \in i + 1 .. m /\ log[x].op # "add"
      <4>1. x \in i + 1 .. m /\ x \in 1 .. Len(log)
        BY <1>2, <1>3, <1>6, <2>7, <3>3
      <4> QED BY <1>1, <2>7, <3>3, <4>1, Names DEF LogOK, RecOK
    <3> QED BY <2>2, <3>2, <3>3
  <2> QED BY <2>4, <2>5, <2>6, <2>7
<1>9. ASSUME NEW r \in Rel PROVE StandbyEntryOK(r)'
  <2>1. PICK e, f : e = ents[Standby][r] /\ f = ents'[Standby][r]
    OBVIOUS
  <2>2. \/ r \in open \/ (e # None <=> Made(log, a, r))
        \/ \E x \in a + 1 .. m : Creates(log[x], r) \/ Removes(log[x], r)
    BY <1>2, <1>4, <2>1 DEF FollowStandby, StandbyEntryOK
  <2>3. SUFFICES \/ r \in open \/ (f # None <=> Made(log, i, r))
                 \/ \E x \in i + 1 .. m : Creates(log[x], r) \/ Removes(log[x], r)
    BY <1>2, <1>4, <2>1 DEF StandbyEntryOK
  <2>4. /\ Creates(rec, r) => f # None
        /\ Removes(rec, r) => f = None
        /\ ~Creates(rec, r) /\ ~Removes(rec, r) => (f # None <=> e # None)
    BY <1>2, <2>1, Names, RedoEntryLeaves
  <2>5. CASE Creates(rec, r) \/ Removes(rec, r)
    <3>1. (Creates(rec, r) => Made(log, i, r)) /\ (Removes(rec, r) => ~Made(log, i, r))
      BY <1>3, MadeLast
    <3> QED BY <2>4, <2>5, <3>1
  <2>6. CASE ~Creates(rec, r) /\ ~Removes(rec, r)
    <3>1. \A j \in a + 1 .. i : ~Creates(log[j], r) /\ ~Removes(log[j], r)
      BY <1>3, <1>5, <2>6
    <3>2. Made(log, a, r) <=> Made(log, i, r)
      BY <1>5, <3>1, MadeKeep
    <3> QED BY <1>3, <1>6, <2>2, <2>4, <2>6, <3>2
  <2> QED BY <2>5, <2>6
<1>10. BackupOK'
  BY <1>4 DEF BackupOK
<1> QED BY <1>8, <1>9, <1>10 DEF FollowStandby

\* The standby and the backup.
LEMMA FollowRest ==
    ASSUME TypeInv, Watched, mode[Primary] = "up", FollowPrimary, FollowStandby,
           \/ \E n \in Server : Redo(n) \/ RedoFails(n) \/ Checkpoint(n) \/ Crash(n)
           \/ EndRecovery \/ StartBackup \/ EndBackup
           \/ \E f \in Files : ReceiveFile(f)
    PROVE  mode'[Primary] = "up" /\ FollowPrimary' /\ FollowStandby'
<1>1. LogType /\ FileType /\ ModeOK
  BY TypeParts DEF TypeInv
<1>2. ~Redo(Primary) /\ ~RedoFails(Primary) /\ ~Crash(Primary) /\ ~EndRecovery
  BY DEF Redo, RedoFails, Replaying, Crash, EndRecovery, Watched
<1>3. CASE Redo(Standby)
  <2>1. /\ hdr'[Primary] = hdr[Primary] /\ ents'[Primary] = ents[Primary]
        /\ cache'[Primary] = cache[Primary]
    BY <1>3, RedoFrame, Names
  <2>2. UNCHANGED <<log, pend, live, open, mode>>
    BY <1>3 DEF Redo
  <2> QED BY <1>3, <2>1, <2>2, PrimarySame, StandbyRedo
<1>4. ASSUME \/ RedoFails(Standby) \/ EndBackup
             \/ \E n \in Server : Checkpoint(n)
      PROVE  mode'[Primary] = "up" /\ FollowPrimary' /\ FollowStandby'
  <2>1. UNCHANGED <<log, pend, live, open, left, at, hdr, ents, cache>>
    BY <1>4 DEF RedoFails, Checkpoint, EndBackup
  <2>2. mode'[Primary] = "up" /\ (mode'[Standby] = "backup" => mode[Standby] = "backup")
    BY <1>1, <1>4, Names DEF FileType, RedoFails, Checkpoint, EndBackup
  <2> QED BY <2>1, <2>2, PrimarySame, StandbySame
<1>5. CASE Crash(Standby)
  <2>1. UNCHANGED <<log, pend, live, open, hdr, ents>> /\ cache'[Primary] = cache[Primary]
        /\ mode'[Primary] = "up"
    BY <1>1, <1>5, Names DEF Crash, FileType
  <2> QED BY <1>5, <2>1, PrimarySame, StandbyCrash
<1>6. CASE StartBackup
  <2>1. UNCHANGED <<log, pend, live, open, hdr, ents, cache>> /\ mode'[Primary] = "up"
    BY <1>1, <1>6, Names DEF StartBackup, FileType
  <2> QED BY <1>6, <2>1, PrimarySame, StandbyStarts
<1>7. ASSUME NEW f \in Files, ReceiveFile(f)
      PROVE  mode'[Primary] = "up" /\ FollowPrimary' /\ FollowStandby'
  <2>1. UNCHANGED <<log, pend, live, open, cache, mode>>
    BY <1>7 DEF ReceiveFile
  <2>2. hdr'[Primary] = hdr[Primary] /\ ents'[Primary] = ents[Primary]
    BY <1>1, <1>7, Names DEF ReceiveFile, FileType
  <2> QED BY <1>7, <2>1, <2>2, PrimarySame, StandbyReceives
<1> QED BY <1>2, <1>3, <1>4, <1>5, <1>6, <1>7, Names

LEMMA NextFollow ==
    ASSUME IInv, FollowInv, [Next]_vars
    PROVE  FollowInv'
<1>1. CASE Next
  <2>1. env' = env /\ (Watched' <=> Watched)
    BY <1>1, SameEnv DEF Watched
  <2> SUFFICES ASSUME Watched PROVE mode'[Primary] = "up" /\ FollowPrimary' /\ FollowStandby'
    BY <2>1 DEF FollowInv
  <2>2. TypeInv /\ FileInv /\ KeepInv /\ mode[Primary] = "up" /\ FollowPrimary /\ FollowStandby
    BY DEF IInv, FollowInv, Watched
  <2>3. LogType'
    BY <1>1, <2>2, LogNext
  <2>4. CASE PrimaryStep
    <3>1. mode' = mode
      BY <2>2, <2>4, PrimaryFrame
    <3>2. Base
      BY <2>2, <2>3 DEF Base
    <3> QED BY <2>2, <2>3, <2>4, <3>1, <3>2, PrimaryFollows, StandbyWaits
  <2>5. CASE ~PrimaryStep
    <3>1. \/ \E n \in Server : Redo(n) \/ RedoFails(n) \/ Checkpoint(n) \/ Crash(n)
          \/ EndRecovery \/ StartBackup \/ EndBackup
          \/ \E f \in Files : ReceiveFile(f)
      BY <1>1, <2>5 DEF Next, PrimaryStep
    <3> QED BY <2>2, <3>1, FollowRest
  <2> QED BY <2>4, <2>5
<1>2. CASE UNCHANGED vars
  <2> SUFFICES ASSUME Watched PROVE mode'[Primary] = "up" /\ FollowPrimary' /\ FollowStandby'
    BY <1>2 DEF FollowInv, Watched, vars
  <2>1. mode[Primary] = "up" /\ FollowPrimary /\ FollowStandby
    BY DEF FollowInv
  <2> QED BY <1>2, <2>1, PrimarySame, StandbySame DEF vars
<1> QED BY <1>1, <1>2

LEMMA InitFollow ==
    ASSUME Init
    PROVE  FollowInv
<1>1. /\ log = << >> /\ Len(log) = 0 /\ pend = None /\ live = {} /\ open = {} /\ left = {}
      /\ at[Standby] = 0 /\ mode[Primary] = "up"
      /\ \A n \in Server : /\ \A o \in Oid : hdr[n][o] = None /\ cache[n][o] = None
                           /\ \A r \in Rel : ents[n][r] = None
  BY Names DEF Init
<1>2. 1 .. 0 = {}
  OBVIOUS
<1>3. \A o \in Oid : HeaderIs(log, 0, o, None)
  BY <1>2 DEF HeaderIs
<1>4. \A r \in Rel : ~Made(log, 0, r)
  BY <1>2 DEF Made
<1>5. FollowPrimary
  <2>1. \A o \in Oid : PrimaryHeaderOK(o)
    BY <1>1, <1>3, Names DEF PrimaryHeaderOK, Setting, Rotating
  <2>2. \A r \in Rel : PrimaryEntryOK(r)
    BY <1>1, <1>4, Names DEF PrimaryEntryOK
  <2>3. LogSound
    BY <1>1, <1>2 DEF LogSound
  <2> QED BY <2>1, <2>2, <2>3 DEF FollowPrimary
<1>6. FollowStandby
  <2>1. \A o \in Oid : StandbyHeaderOK(o)
    BY <1>1, <1>3, Names DEF StandbyHeaderOK
  <2>2. \A r \in Rel : StandbyEntryOK(r)
    BY <1>1, <1>4, Names DEF StandbyEntryOK
  <2>3. BackupOK
    BY <1>1 DEF BackupOK
  <2> QED BY <2>1, <2>2, <2>3 DEF FollowStandby
<1> QED BY <1>1, <1>5, <1>6 DEF FollowInv

\* With all records replayed nothing is left that could change a file of the standby.
LEMMA Caught ==
    ASSUME IInv, FollowInv, env.install # "any", env.backup # "any"
    PROVE  StandbyFollows
<1> SUFFICES ASSUME at[Standby] = Len(log), pend = None, open = {}, mode[Standby] = "redo",
                    Primary \notin env.crash, env.default = {}
             PROVE  /\ hdr[Standby] = hdr[Primary]
                    /\ \A r \in Rel : ents[Standby][r] # None <=> r \in live
  BY DEF StandbyFollows
<1>1. LogType /\ FileType /\ ModeOK
  BY TypeParts DEF IInv, TypeInv
<1>2. FollowPrimary /\ FollowStandby
  BY DEF FollowInv, Watched
<1>3. left = {} /\ Len(log) \in Nat /\ Len(log) + 1 .. Len(log) = {}
  BY <1>1 DEF ModeOK, LogType
<1>4. ASSUME NEW o \in Oid PROVE hdr[Standby][o] = hdr[Primary][o]
  <2>1. HeaderIs(log, Len(log), o, hdr[Primary][o])
    BY <1>2 DEF FollowPrimary, PrimaryHeaderOK, Setting, Rotating
  <2>2. HeaderIs(log, Len(log), o, hdr[Standby][o])
    BY <1>2, <1>3 DEF FollowStandby, StandbyHeaderOK, Rotating
  <2> QED BY <1>3, <2>1, <2>2, HeaderUnique
<1>5. hdr[Standby] = hdr[Primary]
  BY <1>1, <1>4, Names DEF FileType
<1>6. ASSUME NEW r \in Rel PROVE ents[Standby][r] # None <=> r \in live
  BY <1>2, <1>3 DEF FollowStandby, FollowPrimary, StandbyEntryOK, PrimaryEntryOK
<1> QED BY <1>5, <1>6

\* A standby that has replayed all records has the headers of the primary, and
\* entries for its committed relations and no others: there from the start or
\* made by a backup that copies files while keys are set, rotated and deleted and
\* relations come and go, and restarted at any time.  Unless the backup may begin
\* between a record and its file, or an installation be rolled back.
THEOREM StandbyAlwaysFollows ==
    Spec => [](env.install # "any" /\ env.backup # "any" => StandbyFollows)
<1>1. Init => FollowInv
  BY InitFollow
<1>2. IInv /\ FollowInv /\ [Next]_vars => FollowInv'
  BY NextFollow
<1>3. IInv /\ FollowInv => (env.install # "any" /\ env.backup # "any" => StandbyFollows)
  BY Caught
<1> QED BY <1>1, <1>2, <1>3, AlwaysIInv, PTL DEF Spec

=============================================================================
