---------------------------- MODULE KeyMapProofs ----------------------------
(***************************************************************************)
(* Proofs about KeyMap, for all databases, relations, keys and backends:   *)
(* the types, and then what a key file holds, what the cache says of it,   *)
(* and which key a relation is read with.  The invariant of the second     *)
(* part has three parts of its own.  FileInv is about the files and the    *)
(* cache, and about what the holder of the lock has done so far; it rests  *)
(* on the lock.  LifeInv is about who creates which relation.  KeyInv says *)
(* that a relation in use has in the file the key its blocks are encrypted *)
(* with, and that a load under way is right.                               *)
(***************************************************************************)
EXTENDS KeyMap, TLAPS

-----------------------------------------------------------------------------
(* Facts about key files.                                                  *)

\* Writing an entry at an existing slot or one past the end changes that slot
\* and no other, and keeps the header.
LEMMA PutEntryFacts ==
    ASSUME NEW f \in KeyFiles, NEW e \in Entries,
           NEW i \in 1 .. (Len(f.slots) + 1)
    PROVE  LET g == PutEntry(f, i, e) IN
           /\ g \in KeyFiles
           /\ g.present = f.present
           /\ g.hdr = f.hdr
           /\ i \in DOMAIN g.slots
           /\ g.slots[i] = e
           /\ \A j \in DOMAIN f.slots : j # i => /\ j \in DOMAIN g.slots
                                                 /\ g.slots[j] = f.slots[j]
           /\ \A j \in DOMAIN g.slots : j # i => /\ j \in DOMAIN f.slots
                                                 /\ g.slots[j] = f.slots[j]
<1> DEFINE g == PutEntry(f, i, e)
<1>1. f.slots \in Seq(Entries) /\ Len(f.slots) \in Nat
  BY DEF KeyFiles
<1>2. CASE i = Len(f.slots) + 1
  <2>1. g = [f EXCEPT !.slots = Append(f.slots, e)]
    BY <1>2 DEF PutEntry
  <2>2. g.slots = Append(f.slots, e) /\ g.present = f.present /\ g.hdr = f.hdr
    BY <2>1 DEF KeyFiles
  <2> QED
    BY <1>1, <1>2, <2>1, <2>2 DEF KeyFiles
<1>3. CASE i # Len(f.slots) + 1
  <2>1. g = [f EXCEPT !.slots = [f.slots EXCEPT ![i] = e]]
    BY <1>3 DEF PutEntry
  <2>2. g.slots = [f.slots EXCEPT ![i] = e] /\ g.present = f.present /\ g.hdr = f.hdr
    BY <2>1 DEF KeyFiles
  <2>3. i \in 1 .. Len(f.slots)
    BY <1>1, <1>3
  <2> QED
    BY <1>1, <2>1, <2>2, <2>3 DEF KeyFiles
<1> QED
  BY <1>2, <1>3

LEMMA ConstantFiles ==
    /\ NoFile \in KeyFiles
    /\ Truncated \in KeyFiles
    /\ \A k \in PKey : HeaderOnly(k) \in KeyFiles
    /\ \A f \in KeyFiles, k \in PKey \cup {None} : OpenedForWrite(f, k) \in KeyFiles
    /\ EmptyEntry \in Entries
    /\ \A r \in Rel, k \in RelKey, p \in PKey : KeyEntry(r, k, p) \in Entries
    /\ \A e \in KeyEntries, p \in PKey : Rewrap(e, p) \in KeyEntries
BY DEF NoFile, Truncated, HeaderOnly, OpenedForWrite, KeyFiles, Entries,
       EmptyEntry, KeyEntry, KeyEntries, Rewrap

\* Looking up a principal key yields a principal key or None, and keeps the
\* types of the files and of the cache.
LEMMA LookupTypes ==
    ASSUME TypeOK, NEW o \in Oid
    PROVE  /\ KeyNoDefault(o) \in PKey \cup {None}
           /\ CacheNoDefault(o) \in [Oid -> PKey \cup {None}]
           /\ PrincipalKey(o) \in PKey \cup {None}
           /\ FileAfterGet(o) \in [Oid -> KeyFiles]
           /\ CacheAfterGet(o) \in [Oid -> PKey \cup {None}]
<1>1. \A q \in Oid : KeyNoDefault(q) \in PKey \cup {None}
  BY DEF KeyNoDefault, TypeOK, KeyFiles
<1>2. \A q \in Oid : CacheNoDefault(q) \in [Oid -> PKey \cup {None}]
  BY <1>1 DEF CacheNoDefault, TypeOK
<1>3. Default \in Oid
  BY DEF Oid
<1>4. PrincipalKey(o) \in PKey \cup {None}
  BY <1>1, <1>3 DEF PrincipalKey
<1>5. FileAfterGet(o) \in [Oid -> KeyFiles]
  <2>1. KeyNoDefault(Default) # None => HeaderOnly(KeyNoDefault(Default)) \in KeyFiles
    BY <1>1, <1>3, ConstantFiles
  <2> QED
    BY <2>1 DEF FileAfterGet, TypeOK
<1>6. CacheAfterGet(o) \in [Oid -> PKey \cup {None}]
  BY <1>1, <1>2, <1>3 DEF CacheAfterGet, Push
<1> QED
  BY <1>1, <1>2, <1>4, <1>5, <1>6

LEMMA NoJobType == NoJob \in Jobs
BY ConstantFiles DEF NoJob, Jobs

-----------------------------------------------------------------------------
(* Type correctness.                                                       *)

\* TypeOK alone is not inductive: a step reads the fields of a job that its
\* own place in the code has filled in.  Fits(j, step) says which.
Fits(j, step) ==
    /\ step \in {"create", "created", "saving"} \cup Reading =>
          j.oid \in Db /\ j.rel \in Rel
    /\ step \in {"save_header", "rotate", "renamed"} =>
          j.oid \in Oid /\ j.new \in PKey
    /\ step \in {"saving", "rotate"} => j.cur \in PKey
    /\ step = "copied" => j.new \in PKey
    /\ step = "rotate" => j.idx # 0
    /\ step \in {"propagate", "propagating"} => j.then # "idle"
    /\ j.then # "idle" => j.old \in PKey

JobsTyped ==
    /\ pc \in [Proc -> PCs]
    /\ job \in [Proc -> Jobs]
    /\ \A p \in Proc : Fits(job[p], pc[p])

TypeInv == TypeOK /\ JobsTyped

\* The types of everything but the backends' own state.
SharedTyped ==
    /\ keyfile \in [Oid -> KeyFiles]
    /\ rotfile \in [Oid -> KeyFiles]
    /\ cache \in [Oid -> PKey \cup {None}]
    /\ lock \in Proc \cup {None}
    /\ stat \in [Loc -> Stats]
    /\ disk \in [Loc -> RelKey \cup {None}]

LEMMA TypeInvParts == TypeInv <=> SharedTyped /\ JobsTyped
BY DEF TypeInv, TypeOK, SharedTyped, JobsTyped

\* A step of p leaves the jobs of the others as they were.
LEMMA OneJob ==
    ASSUME JobsTyped, NEW p \in Proc, NEW step \in PCs,
           pc' = [pc EXCEPT ![p] = step],
           job' \in [Proc -> Jobs],
           \A q \in Proc : q # p => job'[q] = job[q],
           Fits(job'[p], step)
    PROVE  JobsTyped'
BY DEF JobsTyped

\* A new job for p.
LEMMA NewJob ==
    ASSUME JobsTyped, NEW p \in Proc, NEW step \in PCs, NEW j \in Jobs,
           pc' = [pc EXCEPT ![p] = step],
           job' = [job EXCEPT ![p] = j],
           Fits(j, step)
    PROVE  JobsTyped'
BY DEF JobsTyped

LEMMA IdleFits == NoJob \in Jobs /\ Fits(NoJob, "idle") /\ "idle" \in PCs
BY NoJobType DEF Fits, NoJob, Reading, PCs

LEMMA FinishType ==
    ASSUME JobsTyped, NEW p \in Proc, Finish(p)
    PROVE  JobsTyped'
BY IdleFits, NewJob DEF Finish, Goto

LEMMA RestartType ==
    ASSUME SharedTyped, Restart
    PROVE  SharedTyped' /\ JobsTyped'
<1>1. JobsTyped'
  BY IdleFits DEF Restart, JobsTyped
<1>2. SharedTyped'
  BY DEF Restart, SharedTyped, Stats
<1> QED
  BY <1>1, <1>2

\* What starting a rotation leaves behind.
LEMMA BeginRotateType ==
    ASSUME SharedTyped, JobsTyped, NEW p \in Proc, NEW o \in Oid, NEW j \in Jobs,
           j.new \in PKey, j.cur \in PKey,
           j.then # "idle" => j.old \in PKey,
           BeginRotate(p, o, j)
    PROVE  rotfile' \in [Oid -> KeyFiles] /\ JobsTyped'
<1> DEFINE i == [j EXCEPT !.oid = o, !.idx = 1]
<1>1. /\ i \in Jobs /\ i.oid = o /\ i.new = j.new /\ i.cur = j.cur
      /\ i.idx # 0 /\ i.then = j.then /\ i.old = j.old
  <2>1. i \in Jobs
    BY DEF Jobs
  <2>2. i.idx = 1
    BY DEF Jobs
  <2>3. i.oid = o /\ i.new = j.new /\ i.cur = j.cur /\ i.then = j.then /\ i.old = j.old
    BY DEF Jobs
  <2> QED
    BY <2>1, <2>2, <2>3
<1>2. job' = [job EXCEPT ![p] = i] /\ pc' = [pc EXCEPT ![p] = "rotate"]
  BY DEF BeginRotate, Goto
<1> HIDE DEF i
<1>3. Fits(i, "rotate") /\ "rotate" \in PCs
  BY <1>1 DEF Fits, Reading, PCs, Holding
<1>4. JobsTyped'
  BY <1>1, <1>2, <1>3, NewJob
<1> QED
  BY <1>4, ConstantFiles DEF BeginRotate, SharedTyped

\* What returning from a rotation or a header write leaves behind.
LEMMA ReturnType ==
    ASSUME JobsTyped, NEW p \in Proc, Return(p)
    PROVE  lock' \in Proc \cup {None} /\ JobsTyped'
<1>1. CASE job[p].then = "idle"
  BY <1>1, FinishType DEF Return
<1>2. CASE job[p].then # "idle"
  <2>1. job[p].then \in {"propagate", "propagating"} /\ Fits(job[p], pc[p])
    BY <1>2 DEF JobsTyped, Jobs
  <2>2. Fits(job[p], job[p].then) /\ job[p].then \in PCs
    BY <2>1 DEF Fits, Reading, PCs, Holding
  <2> QED
    BY <1>2, <2>2, OneJob DEF Return, Goto, JobsTyped
<1> QED
  BY <1>1, <1>2 DEF Return

\* Beginning to set a principal key keeps the types.
LEMMA BeginSetType ==
    ASSUME TypeInv, NEW p \in Proc, NEW o \in Oid, NEW j \in Jobs,
           j.new \in PKey, j.then # "idle" => j.old \in PKey,
           BeginSet(p, o, j)
    PROVE  SharedTyped' /\ JobsTyped'
<1>0. SharedTyped /\ JobsTyped /\ TypeOK
  BY TypeInvParts DEF TypeInv
<1>1. CASE KeyNoDefault(o) = None
  <2> DEFINE i == [j EXCEPT !.oid = o]
  <2>1. i \in Jobs /\ i.oid = o /\ i.new = j.new /\ i.then = j.then /\ i.old = j.old
    BY DEF Jobs
  <2>2. job' = [job EXCEPT ![p] = i] /\ pc' = [pc EXCEPT ![p] = "save_header"]
    BY <1>1 DEF BeginSet, Goto
  <2> HIDE DEF i
  <2>3. Fits(i, "save_header") /\ "save_header" \in PCs
    BY <2>1 DEF Fits, Reading, PCs, Holding
  <2>4. JobsTyped'
    BY <1>0, <2>1, <2>2, <2>3, NewJob
  <2> QED
    BY <1>0, <1>1, <2>4, LookupTypes, ConstantFiles DEF BeginSet, SharedTyped
<1>2. CASE KeyNoDefault(o) # None
  <2> DEFINE i == [j EXCEPT !.cur = KeyNoDefault(o)]
  <2>1. KeyNoDefault(o) \in PKey
    BY <1>0, <1>2, LookupTypes
  <2>2. i \in Jobs /\ i.new \in PKey /\ i.cur \in PKey /\ i.then = j.then /\ i.old = j.old
    BY <2>1 DEF Jobs
  <2>3. BeginRotate(p, o, i)
    BY <1>2 DEF BeginSet
  <2> HIDE DEF i
  <2>4. rotfile' \in [Oid -> KeyFiles] /\ JobsTyped'
    BY <1>0, <2>2, <2>3, BeginRotateType
  <2> QED
    BY <1>0, <1>2, <2>4, LookupTypes DEF BeginSet, SharedTyped
<1> QED
  BY <1>1, <1>2

LEMMA FreeType ==
    ASSUME SharedTyped, NEW d \in Oid, NEW r \in Rel, FreeKeyMapEntry(d, r)
    PROVE  keyfile' \in [Oid -> KeyFiles]
<1> DEFINE f == OpenedForWrite(keyfile[d], None)
<1>1. f \in KeyFiles
  BY ConstantFiles DEF SharedTyped
<1>2. DOMAIN f.slots \subseteq 1 .. (Len(f.slots) + 1)
  BY <1>1 DEF KeyFiles
<1>3. \A i \in DOMAIN f.slots : PutEntry(f, i, EmptyEntry) \in KeyFiles
  BY <1>1, <1>2, PutEntryFacts, ConstantFiles
<1> QED
  BY <1>1, <1>3 DEF FreeKeyMapEntry, SharedTyped

LEMMA InitTypeInv == Init => TypeInv
BY ConstantFiles, IdleFits DEF Init, TypeInv, TypeOK, JobsTyped, Stats

LEMMA NextTypeInv == TypeInv /\ [Next]_vars => TypeInv'
<1> SUFFICES ASSUME TypeInv, [Next]_vars
             PROVE  SharedTyped' /\ JobsTyped'
  BY DEF TypeInv, TypeOK, SharedTyped, JobsTyped
<1>0. Db \subseteq Oid /\ Default \in Oid
  BY DEF Oid
<1>a. SharedTyped /\ JobsTyped /\ TypeOK
  BY TypeInvParts DEF TypeInv
<1>b. \A p \in Proc : job[p] \in Jobs /\ pc[p] \in PCs /\ Fits(job[p], pc[p])
  BY <1>a DEF JobsTyped
<1>1. CASE UNCHANGED vars
  BY <1>a, <1>1 DEF vars, SharedTyped, JobsTyped
<1>2. ASSUME NEW p \in Proc, RelationStep(p)
      PROVE  SharedTyped' /\ JobsTyped'
  <2>1. ASSUME NEW d \in Db, NEW r \in Rel, StartCreate(p, d, r)
        PROVE  SharedTyped' /\ JobsTyped'
    <3> DEFINE j == [NoJob EXCEPT !.oid = d, !.rel = r]
    <3>1. j \in Jobs /\ j.oid = d /\ j.rel = r /\ j.then = "idle"
      BY <1>0, NoJobType DEF Jobs, NoJob
    <3>2. job' = [job EXCEPT ![p] = j]
      BY <2>1 DEF StartCreate
    <3> HIDE DEF j
    <3>3. Fits(j, "create") /\ "create" \in PCs
      BY <3>1 DEF Fits, PCs, Reading
    <3>4. JobsTyped'
      BY <1>a, <2>1, <3>1, <3>2, <3>3, NewJob DEF StartCreate, Goto
    <3> QED
      BY <1>a, <2>1, <3>4 DEF StartCreate, SharedTyped, Stats
  <2>2. CASE CreatePlain(p)
    <3>1. job[p].oid \in Db /\ job[p].rel \in Rel /\ job[p].then \in {"idle", "propagate", "propagating"}
          /\ Fits(job[p], "created") /\ "created" \in PCs
      BY <1>b, <2>2 DEF CreatePlain, Fits, PCs, Reading, Jobs
    <3>2. JobsTyped'
      BY <1>a, <2>2, <3>1, OneJob DEF CreatePlain, Goto, JobsTyped
    <3>3. keyfile' \in [Oid -> KeyFiles]
      BY <1>0, <1>a, <2>2, <3>1, FreeType DEF CreatePlain
    <3> QED
      BY <1>a, <2>2, <3>2, <3>3 DEF CreatePlain, SharedTyped
  <2>3. CASE CreateLock(p)
    <3>1. job[p].oid \in Db /\ job[p].rel \in Rel /\ (job[p].then # "idle" => job[p].old \in PKey)
      BY <1>b, <2>3 DEF CreateLock, Fits
    <3>2. PrincipalKey(job[p].oid) \in PKey
      BY <1>0, <1>a, <2>3, <3>1, LookupTypes DEF CreateLock, Configured
    <3>3. keyfile' \in [Oid -> KeyFiles] /\ cache' \in [Oid -> PKey \cup {None}]
      BY <1>0, <1>a, <2>3, <3>1, LookupTypes DEF CreateLock
    <3>4. /\ job' \in [Proc -> Jobs]
          /\ job'[p].oid = job[p].oid /\ job'[p].rel = job[p].rel
          /\ job'[p].cur \in PKey
          /\ job'[p].then = job[p].then /\ job'[p].old = job[p].old
          /\ \A q \in Proc : q # p => job'[q] = job[q]
      BY <1>a, <2>3, <3>2 DEF CreateLock, JobsTyped, Jobs
    <3>5. Fits(job'[p], "saving") /\ "saving" \in PCs
      BY <3>1, <3>4 DEF Fits, PCs, Holding, Reading
    <3>6. JobsTyped'
      BY <1>a, <2>3, <3>4, <3>5, OneJob DEF CreateLock, Goto
    <3> QED
      BY <1>a, <2>3, <3>3, <3>6 DEF CreateLock, SharedTyped
  <2>4. CASE CreateRefused(p)
    BY <1>a, <2>4, FinishType DEF CreateRefused, SharedTyped, Stats
  <2>5. ASSUME NEW k \in RelKey, CreateWrite(p, k)
        PROVE  SharedTyped' /\ JobsTyped'
    <3> DEFINE d == job[p].oid
               f == OpenedForWrite(keyfile[d], job[p].cur)
    <3>1. d \in Db /\ job[p].rel \in Rel /\ job[p].cur \in PKey
      BY <1>b, <2>5 DEF CreateWrite, Fits
    <3>2. f \in KeyFiles
      BY <1>0, <1>a, <3>1, ConstantFiles DEF SharedTyped
    <3>3. \A i \in 1 .. (Len(f.slots) + 1) :
             PutEntry(f, i, KeyEntry(job[p].rel, k, job[p].cur)) \in KeyFiles
      BY <3>1, <3>2, PutEntryFacts, ConstantFiles
    <3>4. keyfile' \in [Oid -> KeyFiles]
      BY <1>a, <2>5, <3>3 DEF CreateWrite, SharedTyped
    <3>5. Fits(job[p], "created") /\ "created" \in PCs
      BY <1>b, <2>5 DEF CreateWrite, Fits, PCs, Reading
    <3>6. JobsTyped'
      BY <1>a, <2>5, <3>5, OneJob DEF CreateWrite, Goto, JobsTyped
    <3> QED
      BY <1>a, <2>5, <3>4, <3>6 DEF CreateWrite, SharedTyped
  <2>6. CASE Commit(p) \/ Abort(p)
    BY <1>a, <2>6, FinishType DEF Commit, Abort, SharedTyped, Stats
  <2> QED
    BY <1>2, <2>1, <2>2, <2>3, <2>4, <2>5, <2>6 DEF RelationStep
<1>3. ASSUME NEW p \in Proc, ReadStep(p)
      PROVE  SharedTyped' /\ JobsTyped'
  <2>1. ASSUME NEW d \in Db, NEW r \in Rel, GetSmgrKey(p, d, r)
        PROVE  SharedTyped' /\ JobsTyped'
    <3> DEFINE j == [NoJob EXCEPT !.oid = d, !.rel = r]
    <3>1. j \in Jobs /\ j.oid = d /\ j.rel = r /\ j.then = "idle"
      BY <1>0, NoJobType DEF Jobs, NoJob
    <3>2. job' = [job EXCEPT ![p] = j]
      BY <2>1 DEF GetSmgrKey
    <3> HIDE DEF j
    <3>3. \A step \in {"find", "got_null"} : Fits(j, step) /\ step \in PCs
      BY <3>1 DEF Fits, PCs, Reading
    <3>4. PICK step \in {"find", "got_null"} : pc' = [pc EXCEPT ![p] = step]
      BY <2>1 DEF GetSmgrKey, Goto
    <3>5. JobsTyped'
      BY <1>a, <3>1, <3>2, <3>3, <3>4, NewJob
    <3> QED
      BY <1>a, <2>1, <3>5 DEF GetSmgrKey, SharedTyped
  <2>2. CASE FindEntry(p)
    <3>1. job[p].oid \in Db /\ job[p].rel \in Rel /\ keyfile[job[p].oid] \in KeyFiles
          /\ (job[p].then # "idle" => job[p].old \in PKey)
      BY <1>0, <1>a, <1>b, <2>2 DEF FindEntry, Fits, SharedTyped, Reading
    <3>2. \A i \in DOMAIN keyfile[job[p].oid].slots :
             keyfile[job[p].oid].slots[i] \in Entries
      BY <3>1 DEF KeyFiles
    <3>3. PICK step \in {"got_error", "got_null", "upgrade", "got_key"} :
             pc' = [pc EXCEPT ![p] = step]
      BY <2>2 DEF FindEntry, Goto, Decrypted
    <3>4. /\ job' \in [Proc -> Jobs]
          /\ job'[p].oid = job[p].oid /\ job'[p].rel = job[p].rel
          /\ job'[p].then = job[p].then /\ job'[p].old = job[p].old
          /\ \A q \in Proc : q # p => job'[q] = job[q]
      BY <1>a, <2>2, <3>2 DEF FindEntry, JobsTyped, Jobs
    <3>5. Fits(job'[p], step) /\ step \in PCs
      BY <3>1, <3>4 DEF Fits, PCs, Reading
    <3>6. JobsTyped'
      BY <1>a, <3>3, <3>4, <3>5, OneJob
    <3> QED
      BY <1>a, <2>2, <3>6 DEF FindEntry, SharedTyped
  <2>3. CASE GetKeyUpgraded(p)
    <3>1. job[p].oid \in Db /\ job[p].rel \in Rel /\ (job[p].then # "idle" => job[p].old \in PKey)
      BY <1>b, <2>3 DEF GetKeyUpgraded, Fits, Reading
    <3>2. keyfile' \in [Oid -> KeyFiles] /\ cache' \in [Oid -> PKey \cup {None}]
      BY <1>0, <1>a, <2>3, <3>1, LookupTypes DEF GetKeyUpgraded
    <3>3. PICK step \in {"got_error", "got_key"} : pc' = [pc EXCEPT ![p] = step]
      BY <2>3 DEF GetKeyUpgraded, Goto, Decrypted
    <3>4. Fits(job[p], step) /\ step \in PCs
      BY <3>1 DEF Fits, PCs, Reading
    <3>5. JobsTyped'
      BY <1>a, <2>3, <3>3, <3>4, OneJob DEF GetKeyUpgraded, JobsTyped
    <3> QED
      BY <1>a, <2>3, <3>2, <3>5 DEF GetKeyUpgraded, SharedTyped
  <2>4. CASE GetKeyReturn(p)
    BY <1>a, <2>4, FinishType DEF GetKeyReturn, SharedTyped
  <2> QED
    BY <1>3, <2>1, <2>2, <2>3, <2>4 DEF ReadStep
<1>4. ASSUME NEW p \in Proc, KeyStep(p)
      PROVE  SharedTyped' /\ JobsTyped'
  <2>1. ASSUME NEW d \in Db, NEW k \in DbKey, SetKey(p, d, k)
        PROVE  SharedTyped' /\ JobsTyped'
    <3> DEFINE j == [NoJob EXCEPT !.new = k]
    <3>1. j \in Jobs /\ j.new \in PKey /\ j.then = "idle"
      BY NoJobType, KeyMapAssumption DEF Jobs, NoJob
    <3>2. BeginSet(p, d, j)
      BY <2>1 DEF SetKey
    <3> HIDE DEF j
    <3> QED
      BY <1>0, <3>1, <3>2, BeginSetType
  <2>2. CASE SaveHeader(p)
    <3>1. job[p].oid \in Oid /\ job[p].new \in PKey
      BY <1>b, <2>2 DEF SaveHeader, Fits
    <3>2. keyfile' \in [Oid -> KeyFiles] /\ cache' \in [Oid -> PKey \cup {None}]
      BY <1>a, <2>2, <3>1, ConstantFiles DEF SaveHeader, Push, SharedTyped
    <3> QED
      BY <1>a, <2>2, <3>2, ReturnType DEF SaveHeader, SharedTyped
  <2>3. CASE RotateEntry(p)
    <3> DEFINE o == job[p].oid
               e == keyfile[o].slots[job[p].idx]
    <3>1. /\ o \in Oid /\ job[p].new \in PKey /\ job[p].cur \in PKey
          /\ job[p].idx \in Nat /\ job[p].idx # 0
          /\ (job[p].then # "idle" => job[p].old \in PKey)
      BY <1>b, <2>3 DEF RotateEntry, Fits, Jobs
    <3>2. keyfile[o].slots \in Seq(Entries) /\ rotfile[o].slots \in Seq(Entries)
      BY <1>a, <3>1 DEF SharedTyped, KeyFiles
    <3>3. e \in Entries
      <4>1. PICK sl, i : sl = keyfile[o].slots /\ i = job[p].idx
        OBVIOUS
      <4>2. i <= Len(sl)
        BY <2>3, <4>1 DEF RotateEntry
      <4>3. sl \in Seq(Entries) /\ i \in Nat /\ i # 0
        BY <3>1, <3>2, <4>1
      <4>4. sl[i] \in Entries
        BY <4>2, <4>3
      <4> QED
        BY <4>1, <4>4
    <3>4. e # EmptyEntry => Rewrap(e, job[p].new) \in Entries
      BY <3>1, <3>3, ConstantFiles DEF Entries
    <3>5. rotfile' \in [Oid -> KeyFiles]
      <4>1. CASE e = EmptyEntry
        BY <1>a, <2>3, <4>1 DEF RotateEntry, SharedTyped
      <4>2. CASE e # EmptyEntry
        <5> DEFINE s == Append(rotfile[o].slots, Rewrap(e, job[p].new))
        <5>1. s \in Seq(Entries)
          BY <3>2, <3>4, <4>2
        <5>2. rotfile' = [rotfile EXCEPT ![o].slots = s]
          BY <2>3, <4>2 DEF RotateEntry
        <5> HIDE DEF s
        <5> QED
          BY <1>a, <3>1, <5>1, <5>2 DEF SharedTyped, KeyFiles
      <4> QED
        BY <4>1, <4>2
    <3>6. /\ job' \in [Proc -> Jobs]
          /\ job'[p].oid = job[p].oid /\ job'[p].new = job[p].new
          /\ job'[p].cur = job[p].cur /\ job'[p].idx # 0
          /\ job'[p].then = job[p].then /\ job'[p].old = job[p].old
          /\ \A q \in Proc : q # p => job'[q] = job[q]
      <4> DEFINE i == job[p].idx + 1
      <4>1. i \in Nat /\ i # 0
        BY <3>1
      <4>2. job' = [job EXCEPT ![p].idx = i]
        BY <2>3 DEF RotateEntry
      <4> HIDE DEF i
      <4> QED
        BY <1>a, <4>1, <4>2 DEF JobsTyped, Jobs
    <3>7. Fits(job'[p], "rotate") /\ "rotate" \in PCs
      BY <3>1, <3>6 DEF Fits, PCs, Holding, Reading
    <3>8. JobsTyped'
      BY <1>a, <2>3, <3>6, <3>7 DEF RotateEntry, JobsTyped
    <3> QED
      BY <1>a, <2>3, <3>5, <3>8 DEF RotateEntry, SharedTyped
  <2>4. CASE RotateFail(p)
    BY <1>a, <2>4, FinishType DEF RotateFail, SharedTyped
  <2>5. CASE RotateRename(p)
    <3>1. job[p].oid \in Oid
      BY <1>b, <2>5 DEF RotateRename, Fits
    <3>2. Fits(job[p], "renamed") /\ "renamed" \in PCs
      BY <1>b, <2>5 DEF RotateRename, Fits, PCs, Holding, Reading
    <3>3. JobsTyped'
      BY <1>a, <2>5, <3>2, OneJob DEF RotateRename, Goto, JobsTyped
    <3> QED
      BY <1>a, <2>5, <3>1, <3>3, ConstantFiles DEF RotateRename, SharedTyped
  <2>6. CASE RotatePublish(p)
    <3>1. job[p].oid \in Oid /\ job[p].new \in PKey
      BY <1>b, <2>6 DEF RotatePublish, Fits
    <3>2. cache' \in [Oid -> PKey \cup {None}]
      BY <1>a, <2>6, <3>1 DEF RotatePublish, Push, Clear, SharedTyped
    <3> QED
      BY <1>a, <2>6, <3>2, ReturnType DEF RotatePublish, SharedTyped
  <2>7. ASSUME NEW d \in Db, DeleteKey(p, d)
        PROVE  SharedTyped' /\ JobsTyped'
    <3>1. CASE NoKeys(keyfile[d])
      BY <1>0, <1>a, <2>7, <3>1, ConstantFiles
      DEF DeleteKey, Clear, SharedTyped, JobsTyped
    <3>2. CASE ~NoKeys(keyfile[d])
      <4> DEFINE j == [NoJob EXCEPT !.cur = KeyNoDefault(d), !.new = KeyNoDefault(Default)]
      <4>1. KeyNoDefault(d) \in PKey /\ KeyNoDefault(Default) \in PKey
        BY <1>0, <1>a, <2>7, <3>2, LookupTypes DEF DeleteKey
      <4>2. j \in Jobs /\ j.new \in PKey /\ j.cur \in PKey /\ j.then = "idle"
        BY <4>1, NoJobType DEF Jobs, NoJob
      <4>3. BeginRotate(p, d, j)
        BY <2>7, <3>2 DEF DeleteKey
      <4> HIDE DEF j
      <4>4. rotfile' \in [Oid -> KeyFiles] /\ JobsTyped'
        BY <1>0, <1>a, <4>2, <4>3, BeginRotateType
      <4> QED
        BY <1>0, <1>a, <2>7, <3>2, <4>1, <4>4 DEF DeleteKey, SharedTyped
    <3> QED
      BY <3>1, <3>2
  <2> QED
    BY <1>4, <2>1, <2>2, <2>3, <2>4, <2>5, <2>6, <2>7 DEF KeyStep
<1>5. ASSUME NEW p \in Proc, DefaultStep(p)
      PROVE  SharedTyped' /\ JobsTyped'
  <2>1. ASSUME NEW k \in DefaultKey, CopyDefault(p, k)
        PROVE  SharedTyped' /\ JobsTyped'
    <3> DEFINE j == [NoJob EXCEPT !.new = k, !.old = KeyNoDefault(Default)]
    <3>1. j \in Jobs /\ j.new \in PKey /\ j.then = "idle"
      BY <1>0, <1>a, NoJobType, KeyMapAssumption, LookupTypes DEF Jobs, NoJob
    <3>2. job' = [job EXCEPT ![p] = j]
      BY <2>1 DEF CopyDefault
    <3> HIDE DEF j
    <3>3. Fits(j, "copied") /\ "copied" \in PCs
      BY <3>1 DEF Fits, PCs, Reading
    <3>4. JobsTyped'
      BY <1>a, <2>1, <3>1, <3>2, <3>3, NewJob DEF CopyDefault, Goto
    <3> QED
      BY <1>0, <1>a, <2>1, <3>4, LookupTypes DEF CopyDefault, SharedTyped
  <2>2. CASE SetDefault(p)
    <3> DEFINE j == [job[p] EXCEPT !.then = IF job[p].old = None THEN "idle"
                                                                 ELSE "propagate"]
    <3>1. job[p] \in Jobs /\ job[p].new \in PKey
      BY <1>b, <2>2 DEF SetDefault, Fits
    <3>2. j \in Jobs /\ j.new \in PKey /\ (j.then # "idle" => j.old \in PKey)
      BY <3>1 DEF Jobs
    <3>3. BeginSet(p, Default, j)
      BY <2>2 DEF SetDefault
    <3> HIDE DEF j
    <3> QED
      BY <1>0, <3>2, <3>3, BeginSetType
  <2>3. CASE StartPropagate(p)
    <3> DEFINE j == [job[p] EXCEPT !.new = KeyNoDefault(Default),
                                   !.todo = Db, !.then = "propagating"]
    <3>0. job[p].old \in PKey
      BY <1>b, <2>3 DEF StartPropagate, Fits
    <3>1. j \in Jobs /\ j.then = "propagating" /\ j.old \in PKey
      BY <1>0, <1>a, <1>b, <3>0, LookupTypes DEF Jobs
    <3>2. job' = [job EXCEPT ![p] = j]
      BY <2>3 DEF StartPropagate
    <3> HIDE DEF j
    <3>3. Fits(j, "propagating") /\ "propagating" \in PCs
      BY <3>1 DEF Fits, PCs, Holding, Reading
    <3>4. JobsTyped'
      BY <1>a, <2>3, <3>1, <3>2, <3>3, NewJob DEF StartPropagate, Goto
    <3> QED
      BY <1>0, <1>a, <2>3, <3>4, LookupTypes DEF StartPropagate, SharedTyped
  <2>4. ASSUME NEW d \in Db, PropagateDb(p, d)
        PROVE  SharedTyped' /\ JobsTyped'
    <3> DEFINE j == [job[p] EXCEPT !.todo = @ \ {d}, !.cur = KeyNoDefault(d)]
    <3>0. /\ job[p] \in Jobs /\ KeyNoDefault(d) \in PKey \cup {None}
          /\ job[p].old \in PKey /\ job[p].then # "idle" /\ pc[p] = "propagating"
      BY <1>0, <1>a, <1>b, <2>4, LookupTypes DEF PropagateDb, Fits
    <3>1. /\ j \in Jobs /\ j.new = job[p].new /\ j.cur = KeyNoDefault(d)
          /\ j.old = job[p].old /\ j.then = job[p].then
      BY <3>0 DEF Jobs
    <3>2. CASE KeyNoDefault(d) = job[p].old
      <4>1. BeginRotate(p, d, j)
        BY <2>4, <3>2 DEF PropagateDb
      <4>2. job[p].new \in PKey
        BY <2>4, <3>0, <3>2 DEF PropagateDb, Jobs
      <4> HIDE DEF j
      <4>3. rotfile' \in [Oid -> KeyFiles] /\ JobsTyped'
        BY <1>0, <1>a, <3>0, <3>1, <3>2, <4>1, <4>2, BeginRotateType
      <4> QED
        BY <1>0, <1>a, <2>4, <4>3, LookupTypes DEF PropagateDb, SharedTyped
    <3>3. CASE KeyNoDefault(d) # job[p].old
      <4>1. job' = [job EXCEPT ![p] = j] /\ UNCHANGED <<rotfile, pc>>
        BY <2>4, <3>3 DEF PropagateDb
      <4> HIDE DEF j
      <4>2. Fits(j, "propagating")
        BY <3>0, <3>1 DEF Fits, Reading
      <4>3. JobsTyped'
        BY <1>a, <3>0, <3>1, <4>1, <4>2 DEF JobsTyped
      <4> QED
        BY <1>0, <1>a, <2>4, <4>1, <4>3, LookupTypes DEF PropagateDb, SharedTyped
    <3> QED
      BY <3>2, <3>3
  <2>5. CASE PropagateDone(p)
    BY <1>a, <2>5, FinishType DEF PropagateDone, SharedTyped
  <2>6. CASE PropagateNull(p)
    BY <1>a, <2>6, RestartType DEF PropagateNull
  <2>7. CASE DeleteDefault(p)
    <3> DEFINE j == [NoJob EXCEPT !.todo = {d \in Db : KeyNoDefault(d) = KeyNoDefault(Default)}]
    <3>1. j \in Jobs /\ j.then = "idle"
      BY NoJobType DEF Jobs, NoJob
    <3>2. job' = [job EXCEPT ![p] = j]
      BY <2>7 DEF DeleteDefault
    <3>3. [o \in Oid |-> KeyNoDefault(o)] \in [Oid -> PKey \cup {None}]
      BY <1>a, LookupTypes
    <3> HIDE DEF j
    <3>4. Fits(j, "deleting") /\ "deleting" \in PCs
      BY <3>1 DEF Fits, PCs, Holding, Reading
    <3>5. JobsTyped'
      BY <1>a, <2>7, <3>1, <3>2, <3>4, NewJob DEF DeleteDefault, Goto
    <3> QED
      BY <1>a, <2>7, <3>3, <3>5 DEF DeleteDefault, SharedTyped
  <2>8. ASSUME NEW d \in Db, DeleteDefaultDb(p, d)
        PROVE  SharedTyped' /\ JobsTyped'
    <3>1. /\ job' \in [Proc -> Jobs] /\ \A q \in Proc : q # p => job'[q] = job[q]
          /\ job'[p].then = job[p].then /\ job'[p].old = job[p].old
      BY <1>a, <2>8 DEF DeleteDefaultDb, JobsTyped, Jobs
    <3>2. Fits(job'[p], "deleting")
      BY <1>b, <3>1 DEF Fits, Reading
    <3>3. JobsTyped'
      BY <1>a, <2>8, <3>1, <3>2 DEF DeleteDefaultDb, JobsTyped
    <3> QED
      BY <1>0, <1>a, <2>8, <3>3, ConstantFiles
      DEF DeleteDefaultDb, Clear, SharedTyped
  <2>9. CASE DeleteDefaultDone(p)
    BY <1>0, <1>a, <2>9, FinishType, ConstantFiles
    DEF DeleteDefaultDone, Clear, SharedTyped
  <2> QED
    BY <1>5, <2>1, <2>2, <2>3, <2>4, <2>5, <2>6, <2>7, <2>8, <2>9 DEF DefaultStep
<1>6. ASSUME NEW d \in Db, NEW r \in Rel, Drop(d, r) \/ Unlink(d, r)
      PROVE  SharedTyped' /\ JobsTyped'
  <2>1. CASE Drop(d, r)
    BY <1>a, <2>1 DEF Drop, SharedTyped, JobsTyped, Stats
  <2>2. CASE Unlink(d, r)
    <3>1. keyfile' \in [Oid -> KeyFiles]
      BY <1>0, <1>a, <2>2, FreeType DEF Unlink, SharedTyped
    <3> QED
      BY <1>a, <2>2, <3>1 DEF Unlink, SharedTyped, JobsTyped, Stats
  <2> QED
    BY <1>6, <2>1, <2>2
<1>7. ASSUME NEW o \in Oid, LoadKey(o)
      PROVE  SharedTyped' /\ JobsTyped'
  BY <1>a, <1>7, LookupTypes DEF LoadKey, SharedTyped, JobsTyped
<1>8. CASE Crash
  BY <1>a, <1>8, RestartType DEF Crash
<1> QED
  BY <1>1, <1>2, <1>3, <1>4, <1>5, <1>6, <1>7, <1>8 DEF Next

\* Every reachable state is well typed.
THEOREM TypeCorrect == Spec => []TypeOK
<1>1. TypeInv => TypeOK
  BY DEF TypeInv
<1> QED
  BY InitTypeInv, NextTypeInv, <1>1, PTL DEF Spec

-----------------------------------------------------------------------------
(* The safety invariant.                                                   *)

\* A sound key file: entries under the header's key, one per relation, and no
\* header in a file that is not there.
FileOK(f) ==
    /\ \A i \in DOMAIN f.slots : f.slots[i] # EmptyEntry => f.slots[i].by = f.hdr
    /\ \A i, j \in DOMAIN f.slots :
          f.slots[i] # EmptyEntry /\ f.slots[i].rel = f.slots[j].rel => i = j
    /\ ~f.present => f.hdr = None

\* The file has key k for r; k = None stands for no entry.
Found(f, r, k) ==
    IF k = None THEN ~HasEntry(f, r)
    ELSE \E i \in DOMAIN f.slots : f.slots[i].rel = r /\ f.slots[i].key = k

\* File g has, under the principal key k, the first n slots of f but the empty
\* ones.
Rotated(f, n, g, k) ==
    /\ g.present /\ g.hdr = k
    /\ \A j \in DOMAIN g.slots :
          /\ g.slots[j] # EmptyEntry /\ g.slots[j].by = k
          /\ \E i \in 1 .. n : f.slots[i].rel = g.slots[j].rel
                               /\ f.slots[i].key = g.slots[j].key
    /\ \A i \in 1 .. n : f.slots[i] # EmptyEntry =>
          \E j \in DOMAIN g.slots : g.slots[j].rel = f.slots[i].rel
                                    /\ g.slots[j].key = f.slots[i].key
    /\ \A i, j \in DOMAIN g.slots : g.slots[i].rel = g.slots[j].rel => i = j

\* What the holder of the lock has done so far.
HolderOK(p) ==
    LET o == job[p].oid IN
    /\ pc[p] = "saving" => keyfile[o].hdr = job[p].cur
    /\ pc[p] = "save_header" => keyfile[o].hdr = None /\ cache[o] = None
    /\ pc[p] = "rotate" =>
          /\ keyfile[o].hdr = job[p].cur
          /\ job[p].idx <= Len(keyfile[o].slots) + 1
          /\ Rotated(keyfile[o], job[p].idx - 1, rotfile[o], job[p].new)
    /\ pc[p] = "renamed" => keyfile[o].hdr = job[p].new
    /\ pc[p] = "deleting" => \A d \in job[p].todo : NoKeys(keyfile[d])

FileInv ==
    /\ \A p \in Proc : pc[p] \in Holding => lock = p
    /\ \A o \in Oid : FileOK(keyfile[o])
    /\ CacheCoherent
    /\ \A p \in Proc : HolderOK(p)

Creating == {"create", "saving", "created"}

LocOf(p) == <<job[p].oid, job[p].rel>>

\* A relation being created has one creator.
LifeInv ==
    /\ \A p \in Proc : pc[p] \in Creating => stat[LocOf(p)] = "creating"
    /\ \A p, q \in Proc : /\ pc[p] \in Creating /\ pc[q] \in Creating
                          /\ LocOf(p) = LocOf(q)
                          => p = q

\* A load is of a relation in use, and what it has copied is right.
LoadOK(p) ==
    /\ pc[p] \in Reading => Accessible(job[p].oid, job[p].rel)
    /\ pc[p] \in {"upgrade", "got_key"} => disk[LocOf(p)] = job[p].ent.key
    /\ pc[p] = "got_null" => disk[LocOf(p)] = None

KeyInv ==
    /\ \A d \in Db, r \in Rel : Accessible(d, r) => Found(keyfile[d], r, disk[<<d, r>>])
    /\ \A p \in Proc : LoadOK(p)

IInv == TypeInv /\ FileInv /\ LifeInv /\ KeyInv

-----------------------------------------------------------------------------
(* Facts about sound key files.                                            *)

LEMMA EntryFacts ==
    /\ \A e \in Entries : e # EmptyEntry =>
          /\ e \in KeyEntries /\ e.rel \in Rel /\ e.key \in RelKey /\ e.by \in PKey
          /\ e.rel # None /\ e.key # None /\ e.by # None
    /\ EmptyEntry.rel = None /\ EmptyEntry.by = None
    /\ None \notin Rel /\ None \notin RelKey /\ None \notin PKey
BY NoneAssumption DEF Entries, KeyEntries, EmptyEntry

LEMMA FileFacts ==
    ASSUME NEW f \in KeyFiles
    PROVE  /\ DOMAIN f.slots = 1 .. Len(f.slots) /\ Len(f.slots) \in Nat
           /\ f.slots \in Seq(Entries) /\ f.hdr \in PKey \cup {None}
           /\ \A i \in DOMAIN f.slots : f.slots[i] \in Entries
BY DEF KeyFiles

\* A file with a header and no entries, or with nothing, is sound.
LEMMA BareFiles ==
    ASSUME NEW f, f.slots = << >>, f.present \/ f.hdr = None
    PROVE  FileOK(f) /\ \A r \in Rel : ~HasEntry(f, r)
BY DEF FileOK, HasEntry

LEMMA BareHeader == \A k : FileOK(HeaderOnly(k)) /\ \A r \in Rel : ~HasEntry(HeaderOnly(k), r)
BY BareFiles DEF HeaderOnly

LEMMA BareNoFile ==
    /\ FileOK(NoFile) /\ \A r \in Rel : ~HasEntry(NoFile, r)
    /\ FileOK(Truncated) /\ \A r \in Rel : ~HasEntry(Truncated, r)
BY BareFiles DEF NoFile, Truncated

\* Without a key entry, no relation has one; without a header neither.
LEMMA NoKeysFacts ==
    ASSUME NEW f \in KeyFiles
    PROVE  /\ NoKeys(f) => \A r \in Rel : ~HasEntry(f, r)
           /\ FileOK(f) /\ f.hdr = None => NoKeys(f)
<1>1. NoKeys(f) => \A r \in Rel : ~HasEntry(f, r)
  BY EntryFacts DEF NoKeys, HasEntry
<1>2. FileOK(f) /\ f.hdr = None => NoKeys(f)
  BY FileFacts, EntryFacts DEF NoKeys, FileOK
<1> QED BY <1>1, <1>2

\* Opening for write keeps a sound file sound and its entries where they were.
LEMMA OpenedFacts ==
    ASSUME NEW f \in KeyFiles, FileOK(f), NEW p \in PKey \cup {None}
    PROVE  LET g == OpenedForWrite(f, p) IN
           /\ g \in KeyFiles /\ FileOK(g)
           /\ f.hdr # None => g = f
           /\ f.hdr = None => g.hdr = p
           /\ \A r \in Rel, k \in RelKey \cup {None} : Found(f, r, k) => Found(g, r, k)
<1> DEFINE g == OpenedForWrite(f, p)
<1>1. g \in KeyFiles
  BY ConstantFiles
<1>2. CASE f.hdr # None
  BY <1>1, <1>2 DEF OpenedForWrite
<1>3. CASE f.hdr = None
  <2>1. g.slots = << >> /\ g.present /\ g.hdr = p
    BY <1>3 DEF OpenedForWrite
  <2> HIDE DEF g
  <2>2. FileOK(g) /\ \A r \in Rel : ~HasEntry(g, r)
    BY <2>1, BareFiles
  <2>3. \A r \in Rel : ~HasEntry(f, r)
    BY <1>3, NoKeysFacts
  <2>4. \A r \in Rel, k \in RelKey \cup {None} : Found(f, r, k) => Found(g, r, k)
    BY <2>2, <2>3 DEF Found, HasEntry
  <2> QED BY <1>1, <1>3, <2>1, <2>2, <2>4 DEF g
<1> QED BY <1>2, <1>3

\* Freeing the first entry of r leaves none for r and all others.
LEMMA FreedFacts ==
    ASSUME NEW f \in KeyFiles, FileOK(f), NEW r \in Rel, NEW i \in DOMAIN f.slots,
           FirstEntry(f, r, i)
    PROVE  LET g == PutEntry(f, i, EmptyEntry) IN
           /\ g \in KeyFiles /\ FileOK(g) /\ g.hdr = f.hdr
           /\ ~HasEntry(g, r)
           /\ \A q \in Rel \ {r}, k \in RelKey \cup {None} : Found(f, q, k) => Found(g, q, k)
<1> DEFINE g == PutEntry(f, i, EmptyEntry)
<1>1. i \in 1 .. (Len(f.slots) + 1)
  BY FileFacts
<1>2. /\ g \in KeyFiles /\ g.present = f.present /\ g.hdr = f.hdr
      /\ i \in DOMAIN g.slots /\ g.slots[i] = EmptyEntry
      /\ \A j \in DOMAIN f.slots : j # i => j \in DOMAIN g.slots /\ g.slots[j] = f.slots[j]
      /\ \A j \in DOMAIN g.slots : j # i => j \in DOMAIN f.slots /\ g.slots[j] = f.slots[j]
  BY <1>1, PutEntryFacts, ConstantFiles
<1> HIDE DEF g
<1>3. f.slots[i].rel = r /\ f.slots[i] # EmptyEntry
  BY EntryFacts DEF FirstEntry
<1>4. FileOK(g)
  BY <1>2, EntryFacts, FileFacts, SMTT(30) DEF FileOK
<1>5. ~HasEntry(g, r)
  BY <1>2, <1>3, EntryFacts, FileFacts DEF FileOK, HasEntry
<1>6. ASSUME NEW q \in Rel \ {r}, NEW k \in RelKey \cup {None}, Found(f, q, k)
      PROVE  Found(g, q, k)
  BY <1>2, <1>3, <1>6, EntryFacts DEF Found, HasEntry
<1> QED BY <1>2, <1>4, <1>5, <1>6 DEF g

\* Saving a key for r, where WriteSlot says, makes r have that key and keeps
\* all others.
LEMMA SavedFacts ==
    ASSUME NEW f \in KeyFiles, FileOK(f), f.hdr \in PKey,
           NEW r \in Rel, NEW k \in RelKey, NEW i \in 1 .. (Len(f.slots) + 1),
           WriteSlot(f, r, i)
    PROVE  LET g == PutEntry(f, i, KeyEntry(r, k, f.hdr)) IN
           /\ g \in KeyFiles /\ FileOK(g) /\ g.hdr = f.hdr
           /\ Found(g, r, k)
           /\ \A q \in Rel \ {r}, m \in RelKey \cup {None} : Found(f, q, m) => Found(g, q, m)
<1>0. PICK e \in Entries : /\ e = KeyEntry(r, k, f.hdr) /\ e # EmptyEntry
                         /\ e.rel = r /\ e.key = k /\ e.by = f.hdr
  BY ConstantFiles, EntryFacts DEF KeyEntry, EmptyEntry
<1> DEFINE g == PutEntry(f, i, e)
<1>2. /\ g \in KeyFiles /\ g.present = f.present /\ g.hdr = f.hdr
      /\ i \in DOMAIN g.slots /\ g.slots[i] = e
      /\ \A j \in DOMAIN f.slots : j # i => j \in DOMAIN g.slots /\ g.slots[j] = f.slots[j]
      /\ \A j \in DOMAIN g.slots : j # i => j \in DOMAIN f.slots /\ g.slots[j] = f.slots[j]
  BY PutEntryFacts
<1> HIDE DEF g
<1>3. \A j \in DOMAIN f.slots : j # i => f.slots[j].rel # r
  <2>1. CASE FirstEntry(f, r, i)
    BY <2>1, EntryFacts, FileFacts DEF FirstEntry, FileOK
  <2>2. CASE ~HasEntry(f, r)
    BY <2>2 DEF HasEntry
  <2> QED BY <2>1, <2>2 DEF WriteSlot
<1>4. \A j \in DOMAIN f.slots : j = i => f.slots[j] = EmptyEntry \/ f.slots[j].rel = r
  <2>1. Len(f.slots) + 1 \notin DOMAIN f.slots
    BY FileFacts
  <2> QED BY <2>1 DEF WriteSlot, FirstEntry, FirstEmpty
<1>5. FileOK(g)
  <2>1. \A j \in DOMAIN g.slots : g.slots[j] # EmptyEntry => g.slots[j].by = g.hdr
    BY <1>0, <1>2 DEF FileOK
  <2>2. ASSUME NEW j \in DOMAIN g.slots, NEW l \in DOMAIN g.slots,
               g.slots[j] # EmptyEntry, g.slots[j].rel = g.slots[l].rel
        PROVE  j = l
    BY <1>0, <1>2, <1>3, <2>2 DEF FileOK
  <2> QED BY <1>2, <2>1, <2>2 DEF FileOK
<1>6. Found(g, r, k)
  BY <1>0, <1>2, EntryFacts DEF Found
<1>7. ASSUME NEW q \in Rel \ {r}, NEW m \in RelKey \cup {None}, Found(f, q, m)
      PROVE  Found(g, q, m)
  <2>1. q # None /\ q # r
    BY EntryFacts
  <2>2. CASE m = None
    BY <1>0, <1>2, <1>7, <2>1, <2>2 DEF Found, HasEntry
  <2>3. CASE m # None
    <3>1. PICK j \in DOMAIN f.slots : f.slots[j].rel = q /\ f.slots[j].key = m
      BY <1>7, <2>3 DEF Found
    <3>2. j # i
      BY <1>4, <2>1, <3>1, EntryFacts
    <3> QED BY <1>2, <2>3, <3>1, <3>2 DEF Found
  <2> QED BY <2>2, <2>3
<1> QED BY <1>0, <1>2, <1>5, <1>6, <1>7 DEF g

\* A finished rotation yields a sound file with the same keys.
LEMMA RotatedFacts ==
    ASSUME NEW f \in KeyFiles, FileOK(f), NEW g \in KeyFiles, NEW k \in PKey,
           Rotated(f, Len(f.slots), g, k)
    PROVE  /\ FileOK(g) /\ g.hdr = k
           /\ \A r \in Rel, m \in RelKey \cup {None} : Found(f, r, m) => Found(g, r, m)
<1>1. FileOK(g) /\ g.hdr = k
  BY DEF FileOK, Rotated
<1>2. ASSUME NEW r \in Rel, NEW m \in RelKey \cup {None}, Found(f, r, m)
      PROVE  Found(g, r, m)
  <2>1. CASE m = None
    BY <1>2, <2>1, FileFacts DEF Found, HasEntry, Rotated
  <2>2. CASE m # None
    <3>1. PICK i \in DOMAIN f.slots : f.slots[i].rel = r /\ f.slots[i].key = m
      BY <1>2, <2>2 DEF Found
    <3>2. f.slots[i] # EmptyEntry /\ i \in 1 .. Len(f.slots)
      BY <3>1, EntryFacts, FileFacts
    <3> QED BY <2>2, <3>1, <3>2 DEF Found, Rotated
  <2> QED BY <2>1, <2>2
<1> QED BY <1>1, <1>2

-----------------------------------------------------------------------------
(* The lock keeps everyone but its holder away from the files.             *)

\* Every relation outside L keeps the key it has in its file.
KeepsKeys(L) ==
    \A d \in Db, r \in Rel, k \in RelKey \cup {None} :
        <<d, r>> \notin L /\ Found(keyfile[d], r, k) => Found(keyfile'[d], r, k)

LEMMA SharedFacts ==
    ASSUME TypeInv
    PROVE  /\ Db \subseteq Oid /\ Default \in Oid
           /\ \A o \in Oid : /\ keyfile[o] \in KeyFiles /\ rotfile[o] \in KeyFiles
                             /\ cache[o] \in PKey \cup {None}
           /\ DOMAIN keyfile = Oid /\ DOMAIN rotfile = Oid /\ DOMAIN cache = Oid
           /\ \A p \in Proc : job[p] \in Jobs /\ pc[p] \in PCs /\ Fits(job[p], pc[p])
           /\ DOMAIN pc = Proc /\ DOMAIN job = Proc
BY DEF TypeInv, TypeOK, JobsTyped, Oid

\* While nobody has the lock, no backend is at a step that needs it, and the
\* principal key that a lookup finds is the one in the header.
LEMMA Unheld ==
    ASSUME TypeInv, FileInv, lock = None
    PROVE  /\ \A q \in Proc : pc[q] \notin Holding
           /\ \A o \in Oid : cache[o] \in {None, keyfile[o].hdr}
           /\ \A o \in Oid : KeyNoDefault(o) = keyfile[o].hdr
<1>1. \A q \in Proc : pc[q] \notin Holding
  BY KeyMapAssumption DEF FileInv
<1>2. \A q \in Proc : pc[q] # "renamed"
  BY <1>1 DEF Holding
<1>3. \A o \in Oid : cache[o] \in {None, keyfile[o].hdr}
  BY <1>2 DEF FileInv, CacheCoherent
<1> QED BY <1>1, <1>3 DEF KeyNoDefault

\* Likewise for the holder, but between a rename and the cache update.
LEMMA Held ==
    ASSUME TypeInv, FileInv, NEW p \in Proc, pc[p] \in Holding
    PROVE  /\ lock = p
           /\ \A q \in Proc : q # p => pc[q] \notin Holding
           /\ pc[p] # "renamed" =>
                 /\ \A o \in Oid : cache[o] \in {None, keyfile[o].hdr}
                 /\ \A o \in Oid : KeyNoDefault(o) = keyfile[o].hdr
<1>1. lock = p /\ \A q \in Proc : q # p => pc[q] \notin Holding
  BY DEF FileInv
<1>2. ASSUME pc[p] # "renamed"
      PROVE  \A o \in Oid : cache[o] \in {None, keyfile[o].hdr}
  <2>1. \A q \in Proc : pc[q] # "renamed"
    BY <1>1, <1>2 DEF Holding
  <2> QED BY <2>1 DEF FileInv, CacheCoherent
<1> QED BY <1>1, <1>2 DEF KeyNoDefault

\* A backend that needs no lock is under no obligation.
LEMMA NotHolding ==
    ASSUME NEW p \in Proc, pc'[p] \notin Holding
    PROVE  HolderOK(p)'
BY DEF HolderOK, Holding

\* A step of p with the files to itself.
LEMMA HolderStepInv ==
    ASSUME NEW p \in Proc,
           \A q \in Proc : q # p => pc[q] \notin Holding /\ pc'[q] = pc[q],
           pc'[p] \in Holding => lock' = p /\ HolderOK(p)',
           \A o \in Oid : FileOK(keyfile'[o]),
           CacheCoherent'
    PROVE  FileInv'
<1>1. \A q \in Proc : HolderOK(q)'
  BY NotHolding
<1> QED BY <1>1 DEF FileInv

\* A step of p that touches nothing the lock protects.
LEMMA BystanderInv ==
    ASSUME FileInv, NEW p \in Proc,
           UNCHANGED <<keyfile, rotfile, cache, lock>>,
           pc[p] \notin Holding, pc'[p] \notin Holding,
           \A q \in Proc : q # p => pc'[q] = pc[q] /\ job'[q] = job[q]
    PROVE  FileInv' /\ KeepsKeys({})
<1>1. \A q \in Proc : HolderOK(q)'
  <2> TAKE q \in Proc
  <2>1. CASE q = p
    BY <2>1, NotHolding
  <2>2. CASE q # p
    BY <2>2 DEF FileInv, HolderOK
  <2> QED BY <2>1, <2>2
<1>2. CacheCoherent'
  <2>1. pc[p] # "renamed"
    BY DEF Holding
  <2> QED BY <2>1 DEF FileInv, CacheCoherent
<1> QED BY <1>1, <1>2 DEF FileInv, KeepsKeys

\* A cache that agrees with the files is coherent.
LEMMA CacheAgrees ==
    ASSUME \A o \in Oid : cache'[o] \in {None, keyfile'[o].hdr}
    PROVE  CacheCoherent'
BY DEF CacheCoherent

-----------------------------------------------------------------------------
(* What the shared parts of the operations do to the files.                *)

\* Looking a key up with the lock: the cache agrees with the files, nothing
\* is lost, and the principal key is the one in the header from then on.
LEMMA GetKeyFacts ==
    ASSUME TypeInv, FileInv, NEW d \in Db, lock = None,
           keyfile' = FileAfterGet(d), cache' = CacheAfterGet(d)
    PROVE  /\ \A o \in Oid : FileOK(keyfile'[o])
           /\ \A o \in Oid : cache'[o] \in {None, keyfile'[o].hdr}
           /\ KeepsKeys({})
           /\ keyfile'[d].hdr = PrincipalKey(d)
<1> USE SharedFacts, Unheld
<1> DEFINE k == keyfile[Default].hdr
<1>0. d \in Oid /\ d # Default /\ \A o \in Oid : FileOK(keyfile[o])
  BY KeyMapAssumption DEF FileInv
<1>1. CASE keyfile[d].hdr # None \/ k = None
  <2>1. keyfile' = keyfile
    BY <1>0, <1>1 DEF FileAfterGet
  <2>2. \A o \in Oid : cache'[o] \in {None, keyfile[o].hdr}
    BY <1>0, <1>1 DEF CacheAfterGet, CacheNoDefault, Push
  <2>3. keyfile[d].hdr = PrincipalKey(d)
    BY <1>0, <1>1 DEF PrincipalKey
  <2> QED BY <1>0, <2>1, <2>2, <2>3 DEF KeepsKeys
<1>2. CASE keyfile[d].hdr = None /\ k # None
  <2>1. keyfile' = [keyfile EXCEPT ![d] = HeaderOnly(k)]
    BY <1>0, <1>2 DEF FileAfterGet
  <2>2. /\ \A o \in Oid : o # d => keyfile'[o] = keyfile[o]
        /\ keyfile'[d] = HeaderOnly(k) /\ keyfile'[d].hdr = k
    BY <1>0, <2>1 DEF HeaderOnly
  <2>3. \A o \in Oid : cache'[o] \in {None, keyfile'[o].hdr}
    BY <1>0, <1>2, <2>2 DEF CacheAfterGet, CacheNoDefault, Push
  <2>4. \A r \in Rel : ~HasEntry(keyfile[d], r)
    BY <1>0, <1>2, NoKeysFacts
  <2>5. KeepsKeys({})
    BY <2>2, <2>4, BareHeader DEF KeepsKeys, Found, HasEntry
  <2>6. \A o \in Oid : FileOK(keyfile'[o])
    BY <1>0, <2>2, BareHeader
  <2>7. keyfile'[d].hdr = PrincipalKey(d)
    BY <1>0, <1>2, <2>2 DEF PrincipalKey
  <2> QED BY <2>3, <2>5, <2>6, <2>7
<1> QED BY <1>1, <1>2

\* Looking up the own key of o changes the cache only, to what the file says.
LEMMA CacheNoDefaultFacts ==
    ASSUME TypeInv, NEW o \in Oid,
           \A q \in Oid : cache[q] \in {None, keyfile[q].hdr},
           cache' = CacheNoDefault(o)
    PROVE  \A q \in Oid : cache'[q] \in {None, keyfile[q].hdr}
BY SharedFacts DEF CacheNoDefault, KeyNoDefault

\* Freeing the entry of a relation.
LEMMA FreeFacts ==
    ASSUME TypeInv, \A o \in Oid : FileOK(keyfile[o]),
           NEW d \in Db, NEW r \in Rel, FreeKeyMapEntry(d, r)
    PROVE  /\ \A o \in Oid : FileOK(keyfile'[o])
           /\ \A o \in Oid : keyfile'[o].hdr = keyfile[o].hdr
           /\ KeepsKeys({<<d, r>>})
           /\ ~HasEntry(keyfile'[d], r)
<1> USE SharedFacts
<1> DEFINE f == OpenedForWrite(keyfile[d], None)
<1>1. d \in Oid /\ keyfile[d] \in KeyFiles /\ FileOK(keyfile[d])
  OBVIOUS
<1>2. /\ f \in KeyFiles /\ FileOK(f) /\ f.hdr = keyfile[d].hdr
      /\ \A q \in Rel, k \in RelKey \cup {None} : Found(keyfile[d], q, k) => Found(f, q, k)
  BY <1>1, OpenedFacts
<1>3. PICK g \in KeyFiles :
         /\ keyfile' = [keyfile EXCEPT ![d] = g]
         /\ FileOK(g) /\ g.hdr = f.hdr /\ ~HasEntry(g, r)
         /\ \A q \in Rel \ {r}, k \in RelKey \cup {None} : Found(f, q, k) => Found(g, q, k)
  <2>1. CASE \E i \in DOMAIN f.slots :
                FirstEntry(f, r, i) /\ keyfile' = [keyfile EXCEPT ![d] = PutEntry(f, i, EmptyEntry)]
    <3>1. PICK i \in DOMAIN f.slots :
             FirstEntry(f, r, i) /\ keyfile' = [keyfile EXCEPT ![d] = PutEntry(f, i, EmptyEntry)]
      BY <2>1
    <3> HIDE DEF f
    <3> QED BY <1>2, <3>1, FreedFacts
  <2>2. CASE ~HasEntry(f, r) /\ keyfile' = [keyfile EXCEPT ![d] = f]
    BY <1>2, <2>2
  <2> QED BY <2>1, <2>2 DEF FreeKeyMapEntry
<1> HIDE DEF f
<1>4. keyfile'[d] = g /\ \A o \in Oid : o # d => keyfile'[o] = keyfile[o]
  BY <1>1, <1>3
<1>5. KeepsKeys({<<d, r>>})
  <2> SUFFICES ASSUME NEW a \in Db, NEW q \in Rel, NEW k \in RelKey \cup {None},
                      <<a, q>> # <<d, r>>, Found(keyfile[a], q, k)
               PROVE  Found(keyfile'[a], q, k)
    BY DEF KeepsKeys
  <2>1. CASE a = d
    BY <1>2, <1>3, <1>4, <2>1
  <2>2. CASE a # d
    BY <1>4, <2>2
  <2> QED BY <2>1, <2>2
<1> QED BY <1>2, <1>3, <1>4, <1>5

-----------------------------------------------------------------------------
(* FileInv: one lemma per operation.                                       *)

\* Jobs of the others, and the place p goes to.
LEMMA OthersStay ==
    ASSUME TypeInv, NEW p \in Proc, NEW step, Goto(p, step)
    PROVE  pc'[p] = step /\ \A q \in Proc : q # p => pc'[q] = pc[q]
BY SharedFacts DEF Goto

LEMMA OthersStayFinish ==
    ASSUME TypeInv, NEW p \in Proc, Finish(p)
    PROVE  /\ pc'[p] = "idle" /\ job'[p] = NoJob
           /\ \A q \in Proc : q # p => pc'[q] = pc[q] /\ job'[q] = job[q]
BY SharedFacts DEF Goto, Finish

LEMMA CreatePlainFile ==
    ASSUME TypeInv, FileInv, NEW p \in Proc, CreatePlain(p)
    PROVE  /\ FileInv' /\ KeepsKeys({LocOf(p)})
           /\ ~HasEntry(keyfile'[job[p].oid], job[p].rel)
<1>1. job[p].oid \in Db /\ job[p].rel \in Rel
  BY SharedFacts DEF CreatePlain, Fits
<1>2. lock = None /\ FreeKeyMapEntry(job[p].oid, job[p].rel) /\ cache' = cache
  BY DEF CreatePlain
<1>3. /\ \A o \in Oid : FileOK(keyfile'[o]) /\ keyfile'[o].hdr = keyfile[o].hdr
      /\ KeepsKeys({LocOf(p)}) /\ ~HasEntry(keyfile'[job[p].oid], job[p].rel)
  BY <1>1, <1>2, FreeFacts DEF FileInv, LocOf
<1>4. pc'[p] = "created" /\ \A q \in Proc : q # p => pc'[q] = pc[q]
  BY OthersStay DEF CreatePlain
<1>5. CacheCoherent'
  BY <1>2, <1>3, Unheld, CacheAgrees
<1>6. FileInv'
  BY <1>2, <1>3, <1>4, <1>5, Unheld, HolderStepInv DEF Holding
<1> QED BY <1>3, <1>6

LEMMA CreateLockFile ==
    ASSUME TypeInv, FileInv, NEW p \in Proc, CreateLock(p)
    PROVE  FileInv' /\ KeepsKeys({})
<1> DEFINE d == job[p].oid
<1>1. d \in Db /\ d \in Oid
  BY SharedFacts DEF CreateLock, Fits
<1>2. /\ lock = None /\ keyfile' = FileAfterGet(d) /\ cache' = CacheAfterGet(d)
      /\ lock' = p /\ job' = [job EXCEPT ![p].cur = PrincipalKey(d)]
  BY DEF CreateLock
<1>3. job'[p].cur = PrincipalKey(d) /\ job'[p].oid = d
  BY <1>2, SharedFacts DEF Jobs
<1> HIDE DEF d
<1>4. /\ \A o \in Oid : FileOK(keyfile'[o])
      /\ \A o \in Oid : cache'[o] \in {None, keyfile'[o].hdr}
      /\ KeepsKeys({}) /\ keyfile'[d].hdr = PrincipalKey(d)
  BY <1>1, <1>2, GetKeyFacts
<1>5. pc'[p] = "saving" /\ \A q \in Proc : q # p => pc'[q] = pc[q]
  BY OthersStay DEF CreateLock
<1>6. HolderOK(p)'
  BY <1>3, <1>4, <1>5 DEF HolderOK
<1>7. FileInv'
  BY <1>2, <1>4, <1>5, <1>6, Unheld, CacheAgrees, HolderStepInv
<1> QED BY <1>4, <1>7

LEMMA CreateWriteFile ==
    ASSUME TypeInv, FileInv, NEW p \in Proc, NEW k \in RelKey, CreateWrite(p, k)
    PROVE  /\ FileInv' /\ KeepsKeys({LocOf(p)})
           /\ Found(keyfile'[job[p].oid], job[p].rel, k)
<1> DEFINE d == job[p].oid
           r == job[p].rel
           f == keyfile[d]
<1>1. d \in Db /\ d \in Oid /\ r \in Rel /\ job[p].cur \in PKey /\ pc[p] = "saving"
      /\ f \in KeyFiles
  BY SharedFacts DEF CreateWrite, Fits
<1>2. f.hdr = job[p].cur /\ FileOK(f)
  BY <1>1 DEF FileInv, HolderOK
<1>3. OpenedForWrite(f, job[p].cur) = f
  BY <1>1, <1>2, EntryFacts DEF OpenedForWrite
<1>4. PICK i \in 1 .. (Len(f.slots) + 1) :
         /\ WriteSlot(f, r, i)
         /\ keyfile' = [keyfile EXCEPT ![d] = PutEntry(f, i, KeyEntry(r, k, f.hdr))]
  BY <1>2, <1>3 DEF CreateWrite
<1>5. f.hdr \in PKey
  BY <1>1, <1>2
<1>5a. cache' = cache
  BY DEF CreateWrite
<1> HIDE DEF d, r, f
<1>6. PICK g \in KeyFiles :
         /\ g = PutEntry(f, i, KeyEntry(r, k, f.hdr))
         /\ FileOK(g) /\ g.hdr = f.hdr /\ Found(g, r, k)
         /\ \A q \in Rel \ {r}, m \in RelKey \cup {None} : Found(f, q, m) => Found(g, q, m)
  BY <1>1, <1>2, <1>4, <1>5, SavedFacts
<1>7. /\ keyfile'[d] = g /\ \A o \in Oid : o # d => keyfile'[o] = keyfile[o]
  BY <1>1, <1>4, <1>6, SharedFacts
<1>8. KeepsKeys({LocOf(p)})
  <2> SUFFICES ASSUME NEW a \in Db, NEW q \in Rel, NEW m \in RelKey \cup {None},
                      <<a, q>> # LocOf(p), Found(keyfile[a], q, m)
               PROVE  Found(keyfile'[a], q, m)
    BY DEF KeepsKeys
  <2>1. CASE a = d
    BY <1>6, <1>7, <2>1 DEF LocOf, d, r, f
  <2>2. CASE a # d
    BY <1>7, <2>2, SharedFacts
  <2> QED BY <2>1, <2>2
<1>9. \A o \in Oid : FileOK(keyfile'[o]) /\ keyfile'[o].hdr = keyfile[o].hdr
  BY <1>6, <1>7 DEF FileInv, f
<1>10. CacheCoherent'
  BY <1>1, <1>5a, <1>9, Held, CacheAgrees DEF Holding
<1>11. pc'[p] = "created" /\ \A q \in Proc : q # p => pc'[q] = pc[q]
  BY OthersStay DEF CreateWrite
<1>12. FileInv'
  BY <1>1, <1>9, <1>10, <1>11, Held, HolderStepInv DEF Holding
<1> QED BY <1>6, <1>7, <1>8, <1>12 DEF d, r

LEMMA UnlinkFile ==
    ASSUME TypeInv, FileInv, NEW d \in Db, NEW r \in Rel, Unlink(d, r)
    PROVE  FileInv' /\ KeepsKeys({<<d, r>>})
<1>1. lock = None /\ UNCHANGED <<cache, lock, pc, job, rotfile>>
  BY DEF Unlink
<1>2. /\ \A o \in Oid : FileOK(keyfile'[o]) /\ keyfile'[o].hdr = keyfile[o].hdr
      /\ KeepsKeys({<<d, r>>})
  <2>1. CASE FreeKeyMapEntry(d, r)
    BY <2>1, FreeFacts DEF FileInv
  <2>2. CASE UNCHANGED keyfile
    BY <2>2 DEF FileInv, KeepsKeys
  <2> QED BY <2>1, <2>2 DEF Unlink
<1>3. CacheCoherent'
  BY <1>1, <1>2, Unheld, CacheAgrees
<1>4. \A q \in Proc : pc'[q] \notin Holding
  BY <1>1, Unheld
<1>5. FileInv'
  BY <1>2, <1>3, <1>4, NotHolding DEF FileInv
<1> QED BY <1>2, <1>5

LEMMA LoadKeyFile ==
    ASSUME TypeInv, FileInv, NEW o \in Oid, LoadKey(o)
    PROVE  FileInv' /\ KeepsKeys({})
<1>1. lock = None /\ cache' = CacheNoDefault(o) /\ UNCHANGED <<keyfile, lock, pc, job, rotfile>>
  BY DEF LoadKey
<1>2. CacheCoherent'
  BY <1>1, Unheld, CacheNoDefaultFacts, CacheAgrees
<1>4. \A q \in Proc : pc'[q] \notin Holding
  BY <1>1, Unheld
<1>5. FileInv'
  BY <1>1, <1>2, <1>4, NotHolding DEF FileInv
<1> QED BY <1>1, <1>5 DEF KeepsKeys

LEMMA GetKeyUpgradedFile ==
    ASSUME TypeInv, FileInv, NEW p \in Proc, GetKeyUpgraded(p)
    PROVE  FileInv' /\ KeepsKeys({})
<1> DEFINE d == job[p].oid
<1>1. d \in Db
  BY SharedFacts DEF GetKeyUpgraded, Fits, Reading
<1>2. lock = None /\ keyfile' = FileAfterGet(d) /\ cache' = CacheAfterGet(d)
  BY DEF GetKeyUpgraded
<1> HIDE DEF d
<1>3. /\ \A o \in Oid : FileOK(keyfile'[o])
      /\ \A o \in Oid : cache'[o] \in {None, keyfile'[o].hdr}
      /\ KeepsKeys({})
  BY <1>1, <1>2, GetKeyFacts
<1>4. pc'[p] \notin Holding /\ \A q \in Proc : q # p => pc'[q] = pc[q]
  BY SharedFacts DEF GetKeyUpgraded, Goto, Decrypted, Holding
<1>5. FileInv'
  BY <1>2, <1>3, <1>4, Unheld, CacheAgrees, HolderStepInv
<1> QED BY <1>3, <1>5

\* A rotation begins with nothing copied.
LEMMA BeginRotateFile ==
    ASSUME TypeInv, NEW p \in Proc, NEW o \in Oid, NEW j \in Jobs,
           BeginRotate(p, o, j), keyfile' = keyfile, keyfile[o].hdr = j.cur
    PROVE  /\ HolderOK(p)' /\ pc'[p] = "rotate"
           /\ \A q \in Proc : q # p => pc'[q] = pc[q]
<1>1. pc'[p] = "rotate" /\ \A q \in Proc : q # p => pc'[q] = pc[q]
  BY OthersStay DEF BeginRotate
<1>2. /\ job'[p].oid = o /\ job'[p].idx = 1
      /\ job'[p].cur = j.cur /\ job'[p].new = j.new
  <2>1. job'[p] = [j EXCEPT !.oid = o, !.idx = 1]
    BY SharedFacts DEF BeginRotate
  <2>2. job'[p].oid = o /\ job'[p].cur = j.cur /\ job'[p].new = j.new
    BY <2>1 DEF Jobs
  <2>3. job'[p].idx = 1
    BY <2>1 DEF Jobs
  <2> QED BY <2>2, <2>3
<1>3. rotfile'[o] = HeaderOnly(j.new)
  BY SharedFacts DEF BeginRotate
<1>4. Rotated(keyfile[o], 0, HeaderOnly(j.new), j.new)
  BY DEF Rotated, HeaderOnly
<1>5. 1 <= Len(keyfile[o].slots) + 1 /\ 1 - 1 = 0
  BY SharedFacts, FileFacts
<1>6. HolderOK(p)'
  BY <1>1, <1>2, <1>3, <1>4, <1>5 DEF HolderOK
<1> QED BY <1>1, <1>6

LEMMA BeginSetFile ==
    ASSUME TypeInv, FileInv, NEW p \in Proc, NEW o \in Oid, NEW j \in Jobs,
           BeginSet(p, o, j)
    PROVE  FileInv' /\ KeepsKeys({})
<1>1. lock = None /\ lock' = p /\ cache' = CacheNoDefault(o)
  BY DEF BeginSet
<1>2. /\ \A q \in Oid : cache'[q] \in {None, keyfile[q].hdr}
      /\ \A q \in Oid : FileOK(keyfile[q])
      /\ KeyNoDefault(o) = keyfile[o].hdr
      /\ \A q \in Proc : pc[q] \notin Holding
  BY <1>1, Unheld, CacheNoDefaultFacts DEF FileInv
<1>3. CASE KeyNoDefault(o) = None
  <2>1. /\ keyfile' = [keyfile EXCEPT ![o] = Truncated] /\ Goto(p, "save_header")
        /\ job' = [job EXCEPT ![p] = [j EXCEPT !.oid = o]]
    BY <1>3 DEF BeginSet
  <2>2. pc'[p] = "save_header" /\ (\A q \in Proc : q # p => pc'[q] = pc[q])
        /\ job'[p].oid = o
    BY <2>1, OthersStay, SharedFacts DEF Jobs
  <2>3. /\ keyfile'[o] = Truncated /\ keyfile'[o].hdr = None
        /\ \A q \in Oid : q # o => keyfile'[q] = keyfile[q]
    BY <2>1, SharedFacts DEF Truncated
  <2>4. cache'[o] = None /\ \A q \in Oid : cache'[q] \in {None, keyfile'[q].hdr}
    BY <1>2, <1>3, <2>3
  <2>5. \A r \in Rel : ~HasEntry(keyfile[o], r)
    BY <1>2, <1>3, NoKeysFacts, SharedFacts
  <2>6. KeepsKeys({})
    BY <2>3, <2>5, BareNoFile, SharedFacts DEF KeepsKeys, Found, HasEntry
  <2>7. HolderOK(p)'
    BY <2>2, <2>3, <2>4 DEF HolderOK
  <2>8. \A q \in Oid : FileOK(keyfile'[q])
    BY <1>2, <2>3, BareNoFile
  <2>9. FileInv'
    BY <1>1, <1>2, <2>2, <2>4, <2>7, <2>8, CacheAgrees, HolderStepInv
  <2> QED BY <2>6, <2>9
<1>4. CASE KeyNoDefault(o) # None
  <2>1. PICK i \in Jobs : BeginRotate(p, o, i) /\ i.cur = keyfile[o].hdr
    <3> DEFINE i == [j EXCEPT !.cur = KeyNoDefault(o)]
    <3>0. KeyNoDefault(o) \in PKey \cup {None}
      BY LookupTypes DEF TypeInv
    <3>1. i \in Jobs /\ i.cur = KeyNoDefault(o)
      BY <3>0 DEF Jobs
    <3>2. BeginRotate(p, o, i)
      BY <1>4 DEF BeginSet
    <3> HIDE DEF i
    <3> QED BY <1>2, <3>1, <3>2
  <2>2. keyfile' = keyfile
    BY <1>4 DEF BeginSet
  <2>3. /\ HolderOK(p)' /\ pc'[p] = "rotate"
        /\ \A q \in Proc : q # p => pc'[q] = pc[q]
    BY <2>1, <2>2, BeginRotateFile
  <2>4. FileInv'
    BY <1>1, <1>2, <2>2, <2>3, CacheAgrees, HolderStepInv
  <2> QED BY <2>2, <2>4 DEF KeepsKeys
<1> QED BY <1>3, <1>4

\* Returning from a rotation or a header write, with or without the lock.
LEMMA ReturnFacts ==
    ASSUME TypeInv, NEW p \in Proc, pc[p] \in Holding, Return(p)
    PROVE  /\ \A q \in Proc : q # p => pc'[q] = pc[q] /\ job'[q] = job[q]
           /\ pc'[p] \in {"idle", "propagate", "propagating"}
           /\ pc'[p] \in Holding => lock' = p
           /\ HolderOK(p)'
<1>1. CASE job[p].then = "idle"
  BY <1>1, OthersStayFinish, NotHolding DEF Return, Holding
<1>2. CASE job[p].then # "idle"
  <2>1. job[p].then \in {"propagate", "propagating"}
    BY <1>2, SharedFacts DEF Jobs
  <2>2. pc'[p] = job[p].then /\ job' = job /\ \A q \in Proc : q # p => pc'[q] = pc[q]
    BY <1>2, OthersStay DEF Return
  <2>3. HolderOK(p)'
    BY <2>1, <2>2 DEF HolderOK
  <2> QED BY <2>1, <2>2, <2>3 DEF Return, Holding
<1> QED BY <1>1, <1>2

LEMMA SaveHeaderFile ==
    ASSUME TypeInv, FileInv, NEW p \in Proc, SaveHeader(p)
    PROVE  FileInv' /\ KeepsKeys({})
<1> DEFINE o == job[p].oid
           k == job[p].new
<1>1. /\ o \in Oid /\ k \in PKey /\ pc[p] = "save_header" /\ pc[p] \in Holding
      /\ pc[p] # "renamed"
  BY SharedFacts DEF SaveHeader, Fits, Holding
<1>2. /\ keyfile' = [keyfile EXCEPT ![o] = HeaderOnly(k)]
      /\ cache' = Push(cache, o, k) /\ Return(p)
  BY DEF SaveHeader
<1>3. keyfile[o].hdr = None /\ cache[o] = None
  BY <1>1 DEF FileInv, HolderOK
<1> HIDE DEF o, k
<1>4. /\ keyfile'[o] = HeaderOnly(k) /\ keyfile'[o].hdr = k
      /\ \A q \in Oid : q # o => keyfile'[q] = keyfile[q]
  BY <1>1, <1>2, SharedFacts DEF HeaderOnly
<1>5. \A q \in Oid : cache'[q] \in {None, keyfile'[q].hdr}
  BY <1>1, <1>2, <1>3, <1>4, Held, SharedFacts DEF Push
<1>6. \A r \in Rel : ~HasEntry(keyfile[o], r)
  BY <1>1, <1>3, NoKeysFacts, SharedFacts DEF FileInv
<1>7. KeepsKeys({})
  BY <1>4, <1>6, BareHeader, SharedFacts DEF KeepsKeys, Found, HasEntry
<1>8. \A q \in Oid : FileOK(keyfile'[q])
  BY <1>4, BareHeader DEF FileInv
<1>9. FileInv'
  BY <1>1, <1>2, <1>5, <1>8, Held, CacheAgrees, ReturnFacts, HolderStepInv
<1> QED BY <1>7, <1>9

\* One more entry has been copied.
LEMMA RotatedNext ==
    ASSUME NEW f \in KeyFiles, FileOK(f), NEW g \in KeyFiles, NEW k \in PKey,
           NEW i \in 1 .. Len(f.slots), Rotated(f, i - 1, g, k)
    PROVE  /\ f.slots[i] = EmptyEntry => Rotated(f, i, g, k)
           /\ f.slots[i] # EmptyEntry =>
                 Rotated(f, i, [g EXCEPT !.slots = Append(@, Rewrap(f.slots[i], k))], k)
<1>0. /\ \A j \in 1 .. i : j = i \/ j \in 1 .. (i - 1)
      /\ \A j \in 1 .. (i - 1) : j \in 1 .. i /\ j # i /\ j \in DOMAIN f.slots
      /\ i \in DOMAIN f.slots /\ i \in 1 .. i
  BY FileFacts
<1>1. ASSUME f.slots[i] = EmptyEntry
      PROVE  Rotated(f, i, g, k)
  BY <1>0, <1>1 DEF Rotated
<1>2. ASSUME f.slots[i] # EmptyEntry
      PROVE  Rotated(f, i, [g EXCEPT !.slots = Append(@, Rewrap(f.slots[i], k))], k)
  <2> DEFINE e == Rewrap(f.slots[i], k)
             h == [g EXCEPT !.slots = Append(@, e)]
             n == Len(g.slots) + 1
  <2>1. e \in Entries /\ e # EmptyEntry /\ e.rel = f.slots[i].rel /\ e.key = f.slots[i].key /\ e.by = k
    BY <1>0, <1>2, FileFacts, EntryFacts, ConstantFiles DEF Rewrap, KeyEntry, EmptyEntry, Entries
  <2> HIDE DEF e
  <2>2. h.present = g.present /\ h.hdr = g.hdr /\ h.slots = Append(g.slots, e)
    BY DEF KeyFiles
  <2>3. /\ DOMAIN h.slots = DOMAIN g.slots \cup {n} /\ n \notin DOMAIN g.slots
        /\ h.slots[n] = e /\ \A j \in DOMAIN g.slots : h.slots[j] = g.slots[j]
    BY <2>1, <2>2, FileFacts
  <2> HIDE DEF h, n
  <2>4. h.present /\ h.hdr = k
    BY <2>2 DEF Rotated
  <2>5. \A j \in DOMAIN h.slots :
          /\ h.slots[j] # EmptyEntry /\ h.slots[j].by = k
          /\ \E l \in 1 .. i : f.slots[l].rel = h.slots[j].rel
                               /\ f.slots[l].key = h.slots[j].key
    <3> TAKE j \in DOMAIN h.slots
    <3>1. CASE j = n
      BY <1>0, <2>1, <2>3, <3>1
    <3>2. CASE j # n
      BY <1>0, <2>3, <3>2 DEF Rotated
    <3> QED BY <3>1, <3>2
  <2>6. \A l \in 1 .. i : f.slots[l] # EmptyEntry =>
          \E j \in DOMAIN h.slots : h.slots[j].rel = f.slots[l].rel
                                    /\ h.slots[j].key = f.slots[l].key
    <3> SUFFICES ASSUME NEW l \in 1 .. i, f.slots[l] # EmptyEntry
                 PROVE  \E j \in DOMAIN h.slots : h.slots[j].rel = f.slots[l].rel
                                                  /\ h.slots[j].key = f.slots[l].key
      OBVIOUS
    <3>1. CASE l = i
      BY <2>1, <2>3, <3>1
    <3>2. CASE l # i
      BY <1>0, <2>3, <3>2 DEF Rotated
    <3> QED BY <3>1, <3>2
  <2>7. \A j \in DOMAIN g.slots : g.slots[j].rel # e.rel
    BY <1>0, <1>2, <2>1 DEF Rotated, FileOK
  <2>8. \A j, l \in DOMAIN h.slots : h.slots[j].rel = h.slots[l].rel => j = l
    BY <2>3, <2>7 DEF Rotated
  <2>9. Rotated(f, i, h, k)
    BY <2>4, <2>5, <2>6, <2>8 DEF Rotated
  <2> QED BY <2>9 DEF h, e
<1> QED BY <1>1, <1>2

LEMMA RotateEntryFile ==
    ASSUME TypeInv, FileInv, NEW p \in Proc, RotateEntry(p)
    PROVE  FileInv' /\ KeepsKeys({})
<1> DEFINE o == job[p].oid
           i == job[p].idx
           k == job[p].new
           f == keyfile[o]
           g == rotfile[o]
<1>1. /\ o \in Oid /\ k \in PKey /\ i \in Nat /\ i # 0 /\ pc[p] = "rotate" /\ pc[p] \in Holding
      /\ pc[p] # "renamed" /\ f \in KeyFiles /\ g \in KeyFiles
  BY SharedFacts DEF RotateEntry, Fits, Holding, Jobs
<1>2. /\ i <= Len(f.slots) /\ UNCHANGED <<keyfile, cache, lock, stat, disk, pc>>
      /\ job' = [job EXCEPT ![p].idx = i + 1]
      /\ f.slots[i] = EmptyEntry => rotfile' = rotfile
      /\ f.slots[i] # EmptyEntry =>
            rotfile' = [rotfile EXCEPT ![o].slots = Append(g.slots, Rewrap(f.slots[i], k))]
  BY DEF RotateEntry
<1>3. f.hdr = job[p].cur /\ Rotated(f, i - 1, g, k) /\ FileOK(f)
  BY <1>1 DEF FileInv, HolderOK
<1>4. /\ job'[p].oid = o /\ job'[p].new = k /\ job'[p].cur = job[p].cur
      /\ \A q \in Proc : q # p => job'[q] = job[q]
  BY <1>2, SharedFacts DEF Jobs
<1>5. job'[p].idx = i + 1
  BY <1>2, SharedFacts DEF Jobs
<1>6. rotfile'[o] = IF f.slots[i] = EmptyEntry THEN g
                    ELSE [g EXCEPT !.slots = Append(@, Rewrap(f.slots[i], k))]
  BY <1>1, <1>2, SharedFacts
<1>6a. keyfile'[o] = f
  BY <1>2
<1> HIDE DEF o, i, k, f, g
<1>7. i \in 1 .. Len(f.slots) /\ (i + 1) - 1 = i /\ i + 1 <= Len(f.slots) + 1
  BY <1>1, <1>2, FileFacts
<1>8. Rotated(f, i, rotfile'[o], k)
  <2>1. /\ f.slots[i] = EmptyEntry => Rotated(f, i, g, k)
        /\ f.slots[i] # EmptyEntry =>
              Rotated(f, i, [g EXCEPT !.slots = Append(@, Rewrap(f.slots[i], k))], k)
    BY <1>1, <1>3, <1>7, RotatedNext
  <2> QED BY <1>6, <2>1, Zenon
<1>9. HolderOK(p)'
  BY <1>1, <1>2, <1>3, <1>4, <1>5, <1>6a, <1>7, <1>8 DEF HolderOK
<1>10. CacheCoherent'
  BY <1>1, <1>2, Held, CacheAgrees
<1>11. FileInv'
  BY <1>1, <1>2, <1>9, <1>10, Held, HolderStepInv DEF FileInv
<1> QED BY <1>2, <1>11 DEF KeepsKeys

LEMMA RotateFailFile ==
    ASSUME TypeInv, FileInv, NEW p \in Proc, RotateFail(p)
    PROVE  FileInv' /\ KeepsKeys({})
<1>1. /\ pc[p] \in Holding /\ pc[p] # "renamed" /\ UNCHANGED <<keyfile, rotfile, cache>>
      /\ Finish(p)
  BY DEF RotateFail, Holding
<1>2. /\ pc'[p] \notin Holding
      /\ \A q \in Proc : q # p => pc'[q] = pc[q]
  BY <1>1, OthersStayFinish DEF Holding
<1>3. CacheCoherent'
  BY <1>1, Held, CacheAgrees
<1>4. FileInv'
  BY <1>1, <1>2, <1>3, Held, HolderStepInv DEF FileInv
<1> QED BY <1>1, <1>4 DEF KeepsKeys

LEMMA RotateRenameFile ==
    ASSUME TypeInv, FileInv, NEW p \in Proc, RotateRename(p)
    PROVE  FileInv' /\ KeepsKeys({})
<1> DEFINE o == job[p].oid
           k == job[p].new
           f == keyfile[o]
           g == rotfile[o]
<1>1. /\ o \in Oid /\ k \in PKey /\ job[p].idx \in Nat /\ pc[p] = "rotate" /\ pc[p] \in Holding
      /\ pc[p] # "renamed" /\ f \in KeyFiles /\ g \in KeyFiles
  BY SharedFacts DEF RotateRename, Fits, Holding, Jobs
<1>2. /\ job[p].idx > Len(f.slots) /\ UNCHANGED <<cache, job>>
      /\ keyfile' = [keyfile EXCEPT ![o] = g]
  BY DEF RotateRename
<1>3. /\ FileOK(f) /\ job[p].idx <= Len(f.slots) + 1 /\ Rotated(f, job[p].idx - 1, g, k)
  BY <1>1 DEF FileInv, HolderOK
<1>3a. Len(f.slots) \in Nat
  BY <1>1, FileFacts
<1>4. job[p].idx - 1 = Len(f.slots)
  <2> DEFINE i == job[p].idx
             n == Len(f.slots)
  <2>1. i \in Nat /\ n \in Nat /\ i > n /\ i <= n + 1
    BY <1>1, <1>2, <1>3, <1>3a
  <2> HIDE DEF i, n
  <2>2. i - 1 = n
    BY <2>1
  <2> QED BY <2>2 DEF i, n
<1>5. /\ pc'[p] = "renamed" /\ \A q \in Proc : q # p => pc'[q] = pc[q]
  BY OthersStay DEF RotateRename
<1>5a. job'[p].oid = o /\ job'[p].new = k
  BY <1>2
<1> HIDE DEF o, k, f, g
<1>6. /\ FileOK(g) /\ g.hdr = k
      /\ \A r \in Rel, m \in RelKey \cup {None} : Found(f, r, m) => Found(g, r, m)
  BY <1>1, <1>3, <1>4, RotatedFacts
<1>7. keyfile'[o] = g /\ \A q \in Oid : q # o => keyfile'[q] = keyfile[q]
  BY <1>1, <1>2, SharedFacts
<1>8. KeepsKeys({})
  BY <1>6, <1>7, SharedFacts DEF KeepsKeys, f
<1>9. HolderOK(p)'
  BY <1>5, <1>5a, <1>6, <1>7 DEF HolderOK
<1>10. CacheCoherent'
  BY <1>1, <1>2, <1>5, <1>5a, <1>7, Held DEF CacheCoherent
<1>11. \A q \in Oid : FileOK(keyfile'[q])
  BY <1>6, <1>7 DEF FileInv
<1>12. lock' = lock
  BY DEF RotateRename
<1>13. FileInv'
  BY <1>1, <1>5, <1>9, <1>10, <1>11, <1>12, Held, HolderStepInv
<1> QED BY <1>8, <1>13

LEMMA RotatePublishFile ==
    ASSUME TypeInv, FileInv, NEW p \in Proc, RotatePublish(p)
    PROVE  FileInv' /\ KeepsKeys({})
<1> DEFINE o == job[p].oid
           k == job[p].new
<1>1. o \in Oid /\ k \in PKey /\ pc[p] = "renamed" /\ pc[p] \in Holding
  BY SharedFacts DEF RotatePublish, Fits, Holding
<1>2. /\ keyfile' = keyfile /\ cache' = Push(Clear(cache, o), o, k) /\ Return(p)
  BY DEF RotatePublish
<1>3. keyfile[o].hdr = k
  BY <1>1 DEF FileInv, HolderOK
<1>4. \A q \in Oid : q # o => cache[q] \in {None, keyfile[q].hdr}
  <2>1. \A q \in Proc : q # p => pc[q] # "renamed"
    BY <1>1, Held DEF Holding
  <2> QED BY <2>1 DEF FileInv, CacheCoherent
<1> HIDE DEF o, k
<1>5. \A q \in Oid : cache'[q] \in {None, keyfile'[q].hdr}
  BY <1>1, <1>2, <1>3, <1>4, SharedFacts DEF Push, Clear
<1>6. FileInv'
  BY <1>1, <1>2, <1>5, Held, CacheAgrees, ReturnFacts, HolderStepInv DEF FileInv
<1> QED BY <1>2, <1>6 DEF KeepsKeys

\* A file without relation keys may go.
LEMMA RemoveFacts ==
    ASSUME TypeInv, \A o \in Oid : FileOK(keyfile[o]), NEW d \in Oid, NoKeys(keyfile[d]),
           \A o \in Oid : cache[o] \in {None, keyfile[o].hdr},
           keyfile' = [keyfile EXCEPT ![d] = NoFile], cache' = Clear(cache, d)
    PROVE  /\ \A o \in Oid : FileOK(keyfile'[o])
           /\ CacheCoherent'
           /\ KeepsKeys({})
           /\ \A o \in Oid : NoKeys(keyfile[o]) => NoKeys(keyfile'[o])
<1>1. keyfile'[d] = NoFile /\ \A o \in Oid : o # d => keyfile'[o] = keyfile[o]
  BY SharedFacts
<1>2. \A o \in Oid : cache'[o] \in {None, keyfile'[o].hdr}
  BY <1>1, SharedFacts DEF Clear
<1>3. \A r \in Rel : ~HasEntry(keyfile[d], r)
  BY NoKeysFacts, SharedFacts
<1>4. KeepsKeys({})
  BY <1>1, <1>3, BareNoFile, SharedFacts DEF KeepsKeys, Found, HasEntry
<1>5. NoKeys(NoFile)
  BY DEF NoKeys, NoFile
<1> QED BY <1>1, <1>2, <1>4, <1>5, BareNoFile, CacheAgrees

LEMMA DeleteKeyFile ==
    ASSUME TypeInv, FileInv, NEW p \in Proc, NEW d \in Db, DeleteKey(p, d)
    PROVE  FileInv' /\ KeepsKeys({})
<1>1. /\ lock = None /\ d \in Oid /\ Default \in Oid /\ d # Default
      /\ \A q \in Proc : pc[q] \notin Holding
      /\ \A o \in Oid : cache[o] \in {None, keyfile[o].hdr}
      /\ \A o \in Oid : KeyNoDefault(o) = keyfile[o].hdr
      /\ \A o \in Oid : FileOK(keyfile[o])
  BY Unheld, SharedFacts, KeyMapAssumption DEF DeleteKey, FileInv
<1>2. CASE NoKeys(keyfile[d])
  <2>1. /\ keyfile' = [keyfile EXCEPT ![d] = NoFile] /\ cache' = Clear(cache, d)
        /\ pc' = pc
    BY <1>2 DEF DeleteKey
  <2>2. (\A o \in Oid : FileOK(keyfile'[o])) /\ CacheCoherent' /\ KeepsKeys({})
    BY <1>1, <1>2, <2>1, RemoveFacts
  <2>3. FileInv'
    BY <1>1, <2>1, <2>2, HolderStepInv
  <2> QED BY <2>2, <2>3
<1>3. CASE ~NoKeys(keyfile[d])
  <2>1. PICK j \in Jobs : BeginRotate(p, d, j) /\ j.cur = keyfile[d].hdr
    <3> DEFINE j == [NoJob EXCEPT !.cur = KeyNoDefault(d), !.new = KeyNoDefault(Default)]
    <3>1. KeyNoDefault(d) \in PKey \cup {None} /\ KeyNoDefault(Default) \in PKey \cup {None}
      BY <1>1, LookupTypes DEF TypeInv
    <3>2. j \in Jobs /\ j.cur = KeyNoDefault(d)
      BY <3>1, NoJobType DEF Jobs
    <3>3. BeginRotate(p, d, j)
      BY <1>3 DEF DeleteKey
    <3> HIDE DEF j
    <3> QED BY <1>1, <3>2, <3>3
  <2>2. /\ keyfile' = keyfile /\ lock' = p
        /\ cache' = [cache EXCEPT ![d] = KeyNoDefault(d), ![Default] = KeyNoDefault(Default)]
    BY <1>3 DEF DeleteKey
  <2>3. /\ HolderOK(p)' /\ pc'[p] = "rotate"
        /\ \A q \in Proc : q # p => pc'[q] = pc[q]
    BY <1>1, <2>1, <2>2, BeginRotateFile
  <2>4. CacheCoherent'
    BY <1>1, <2>2, CacheAgrees, SharedFacts
  <2>5. FileInv'
    BY <1>1, <2>2, <2>3, <2>4, HolderStepInv
  <2> QED BY <2>2, <2>5 DEF KeepsKeys
<1> QED BY <1>2, <1>3

LEMMA CopyDefaultFile ==
    ASSUME TypeInv, FileInv, NEW p \in Proc, NEW k, CopyDefault(p, k)
    PROVE  FileInv' /\ KeepsKeys({})
<1>1. lock = None /\ cache' = CacheNoDefault(Default) /\ keyfile' = keyfile
  BY DEF CopyDefault
<1>2. pc'[p] = "copied" /\ \A q \in Proc : q # p => pc'[q] = pc[q]
  BY OthersStay DEF CopyDefault
<1>3. CacheCoherent'
  BY <1>1, Unheld, CacheNoDefaultFacts, CacheAgrees, SharedFacts
<1>4. FileInv'
  BY <1>1, <1>2, <1>3, Unheld, HolderStepInv DEF FileInv, Holding
<1> QED BY <1>1, <1>4 DEF KeepsKeys

LEMMA StartPropagateFile ==
    ASSUME TypeInv, FileInv, NEW p \in Proc, StartPropagate(p)
    PROVE  FileInv' /\ KeepsKeys({})
<1>1. lock = None /\ lock' = p /\ cache' = CacheNoDefault(Default) /\ keyfile' = keyfile
  BY DEF StartPropagate
<1>2. pc'[p] = "propagating" /\ \A q \in Proc : q # p => pc'[q] = pc[q]
  BY OthersStay DEF StartPropagate
<1>3. CacheCoherent'
  BY <1>1, Unheld, CacheNoDefaultFacts, CacheAgrees, SharedFacts
<1>4. HolderOK(p)'
  BY <1>2 DEF HolderOK
<1>5. FileInv'
  BY <1>1, <1>2, <1>3, <1>4, Unheld, HolderStepInv DEF FileInv
<1> QED BY <1>1, <1>5 DEF KeepsKeys

LEMMA PropagateDbFile ==
    ASSUME TypeInv, FileInv, NEW p \in Proc, NEW d \in Db, PropagateDb(p, d)
    PROVE  FileInv' /\ KeepsKeys({})
<1>1. /\ pc[p] = "propagating" /\ pc[p] \in Holding /\ pc[p] # "renamed"
      /\ cache' = CacheNoDefault(d) /\ UNCHANGED <<keyfile, lock>> /\ d \in Oid
  BY SharedFacts DEF PropagateDb, Holding
<1>2. /\ lock = p /\ KeyNoDefault(d) = keyfile[d].hdr
      /\ \A q \in Proc : q # p => pc[q] \notin Holding
      /\ \A o \in Oid : cache[o] \in {None, keyfile[o].hdr}
  BY <1>1, Held
<1>3. CacheCoherent'
  BY <1>1, <1>2, CacheNoDefaultFacts, CacheAgrees
<1> DEFINE j == [job[p] EXCEPT !.todo = @ \ {d}, !.cur = KeyNoDefault(d)]
<1>4. CASE KeyNoDefault(d) = job[p].old
  <2>1. BeginRotate(p, d, j)
    BY <1>4 DEF PropagateDb
  <2>2. KeyNoDefault(d) \in PKey \cup {None}
    BY <1>1, LookupTypes DEF TypeInv
  <2>3. j \in Jobs /\ j.cur = KeyNoDefault(d)
    BY <2>2, SharedFacts DEF Jobs
  <2> HIDE DEF j
  <2>4. /\ HolderOK(p)' /\ pc'[p] = "rotate"
        /\ \A q \in Proc : q # p => pc'[q] = pc[q]
    BY <1>1, <1>2, <2>1, <2>3, BeginRotateFile
  <2>5. FileInv'
    BY <1>1, <1>2, <1>3, <2>4, HolderStepInv DEF FileInv
  <2> QED BY <1>1, <2>5 DEF KeepsKeys
<1>5. CASE KeyNoDefault(d) # job[p].old
  <2>1. pc' = pc
    BY <1>5 DEF PropagateDb
  <2>2. HolderOK(p)'
    BY <1>1, <2>1 DEF HolderOK
  <2>3. FileInv'
    BY <1>1, <1>2, <1>3, <2>1, <2>2, HolderStepInv DEF FileInv
  <2> QED BY <1>1, <2>3 DEF KeepsKeys
<1> QED BY <1>4, <1>5

LEMMA PropagateDoneFile ==
    ASSUME TypeInv, FileInv, NEW p \in Proc, PropagateDone(p)
    PROVE  FileInv' /\ KeepsKeys({})
<1>1. /\ pc[p] \in Holding /\ pc[p] # "renamed" /\ UNCHANGED <<keyfile, cache>> /\ Finish(p)
  BY DEF PropagateDone, Holding
<1>2. pc'[p] \notin Holding /\ \A q \in Proc : q # p => pc'[q] = pc[q]
  BY <1>1, OthersStayFinish DEF Holding
<1>3. CacheCoherent'
  BY <1>1, Held, CacheAgrees
<1>4. FileInv'
  BY <1>1, <1>2, <1>3, Held, HolderStepInv DEF FileInv
<1> QED BY <1>1, <1>4 DEF KeepsKeys

LEMMA DeleteDefaultFile ==
    ASSUME TypeInv, FileInv, NEW p \in Proc, DeleteDefault(p)
    PROVE  FileInv' /\ KeepsKeys({})
<1> DEFINE users == {d \in Db : KeyNoDefault(d) = KeyNoDefault(Default)}
<1>1. /\ lock = None /\ lock' = p /\ keyfile' = keyfile
      /\ \A d \in users : NoKeys(keyfile[d])
      /\ cache' = [o \in Oid |-> KeyNoDefault(o)]
      /\ job' = [job EXCEPT ![p] = [NoJob EXCEPT !.todo = users]]
  BY DEF DeleteDefault
<1>2. pc'[p] = "deleting" /\ \A q \in Proc : q # p => pc'[q] = pc[q]
  BY OthersStay DEF DeleteDefault
<1>3. job'[p].todo = users
  BY <1>1, SharedFacts DEF NoJob
<1>4. HolderOK(p)'
  BY <1>1, <1>2, <1>3 DEF HolderOK
<1>5. CacheCoherent'
  BY <1>1, Unheld, CacheAgrees
<1>6. FileInv'
  BY <1>1, <1>2, <1>4, <1>5, Unheld, HolderStepInv DEF FileInv
<1> QED BY <1>1, <1>6 DEF KeepsKeys

LEMMA DeleteDefaultDbFile ==
    ASSUME TypeInv, FileInv, NEW p \in Proc, NEW d \in Db, DeleteDefaultDb(p, d)
    PROVE  FileInv' /\ KeepsKeys({})
<1>1. /\ pc[p] = "deleting" /\ pc[p] \in Holding /\ pc[p] # "renamed" /\ d \in job[p].todo
      /\ keyfile' = [keyfile EXCEPT ![d] = NoFile] /\ cache' = Clear(cache, d)
      /\ job' = [job EXCEPT ![p].todo = @ \ {d}] /\ UNCHANGED <<lock, pc>>
      /\ job[p].todo \subseteq Db /\ Db \subseteq Oid
  BY SharedFacts DEF DeleteDefaultDb, Holding, Jobs
<1>2. \A e \in job[p].todo : NoKeys(keyfile[e])
  BY <1>1 DEF FileInv, HolderOK
<1>3. /\ \A o \in Oid : FileOK(keyfile'[o])
      /\ CacheCoherent' /\ KeepsKeys({})
      /\ \A o \in Oid : NoKeys(keyfile[o]) => NoKeys(keyfile'[o])
  BY <1>1, <1>2, Held, RemoveFacts DEF FileInv
<1>4. job'[p].todo = job[p].todo \ {d}
  BY <1>1, SharedFacts DEF Jobs
<1>5. HolderOK(p)'
  BY <1>1, <1>2, <1>3, <1>4 DEF HolderOK
<1>6. FileInv'
  BY <1>1, <1>3, <1>5, Held, HolderStepInv
<1> QED BY <1>3, <1>6

\* The file of the default key never holds relation keys.
LEMMA DeleteDefaultDoneFile ==
    ASSUME TypeInv, FileInv, NEW p \in Proc, DeleteDefaultDone(p)
    PROVE  FileInv' /\ KeepsKeys({})
<1>1. /\ pc[p] \in Holding /\ pc[p] # "renamed" /\ Finish(p)
      /\ keyfile' = [keyfile EXCEPT ![Default] = NoFile] /\ cache' = Clear(cache, Default)
  BY DEF DeleteDefaultDone, Holding
<1>2. /\ keyfile'[Default] = NoFile /\ \A o \in Oid : o # Default => keyfile'[o] = keyfile[o]
  BY <1>1, SharedFacts
<1>3. \A o \in Oid : cache'[o] \in {None, keyfile'[o].hdr}
  BY <1>1, <1>2, Held, SharedFacts DEF Clear
<1>4. KeepsKeys({})
  BY <1>2, SharedFacts, KeyMapAssumption DEF KeepsKeys
<1>5. \A o \in Oid : FileOK(keyfile'[o])
  BY <1>2, BareNoFile DEF FileInv
<1>6. pc'[p] \notin Holding /\ \A q \in Proc : q # p => pc'[q] = pc[q]
  BY <1>1, OthersStayFinish DEF Holding
<1>7. FileInv'
  BY <1>1, <1>3, <1>5, <1>6, Held, CacheAgrees, HolderStepInv
<1> QED BY <1>4, <1>7

LEMMA RestartFile ==
    ASSUME TypeInv, FileInv, Restart
    PROVE  FileInv' /\ KeepsKeys({})
<1>1. /\ \A o \in Oid : cache'[o] = None
      /\ \A q \in Proc : pc'[q] = "idle"
      /\ keyfile' = keyfile
  BY DEF Restart
<1>2. \A q \in Proc : pc'[q] \notin Holding
  BY <1>1 DEF Holding
<1>3. FileInv'
  BY <1>1, <1>2, NotHolding, CacheAgrees DEF FileInv
<1> QED BY <1>1, <1>3 DEF KeepsKeys

-----------------------------------------------------------------------------
(* LifeInv and KeyInv.                                                     *)

\* A step of p leaves the other backends alone.
OnlyOf(p) == \A q \in Proc : q # p => pc'[q] = pc[q] /\ job'[q] = job[q]

\* At work on principal keys, or on nothing.
KeyWork ==
    {"idle", "copied", "propagate", "save_header", "rotate", "renamed",
     "propagating", "deleting"}

LEMMA OnlyOfKeyStep ==
    ASSUME TypeInv, NEW p \in Proc, KeyStep(p) \/ DefaultStep(p), ~PropagateNull(p)
    PROVE  /\ OnlyOf(p) /\ pc[p] \in KeyWork /\ pc'[p] \in KeyWork
           /\ UNCHANGED <<stat, disk>>
<1> USE SharedFacts DEF Goto, OnlyOf, KeyWork
<1>1. ASSUME NEW o, NEW j, BeginSet(p, o, j)
      PROVE  OnlyOf(p) /\ pc'[p] \in KeyWork
  BY <1>1 DEF BeginSet, BeginRotate
<1>2. ASSUME Return(p)
      PROVE  OnlyOf(p) /\ pc'[p] \in KeyWork
  BY <1>2 DEF Return, Finish, Jobs
<1>3. ASSUME NEW d \in Db, NEW k \in DbKey, SetKey(p, d, k)
      PROVE  OnlyOf(p) /\ pc[p] \in KeyWork /\ pc'[p] \in KeyWork /\ UNCHANGED <<stat, disk>>
  BY <1>1, <1>3 DEF SetKey, BeginSet
<1>4. CASE SaveHeader(p)
  BY <1>2, <1>4 DEF SaveHeader
<1>5. CASE RotateEntry(p)
  BY <1>5 DEF RotateEntry
<1>6. CASE RotateFail(p)
  BY <1>6 DEF RotateFail, Finish
<1>7. CASE RotateRename(p)
  BY <1>7 DEF RotateRename
<1>8. CASE RotatePublish(p)
  BY <1>2, <1>8 DEF RotatePublish
<1>9. ASSUME NEW d \in Db, DeleteKey(p, d)
      PROVE  OnlyOf(p) /\ pc[p] \in KeyWork /\ pc'[p] \in KeyWork /\ UNCHANGED <<stat, disk>>
  BY <1>9 DEF DeleteKey, BeginRotate
<1>10. ASSUME NEW k \in DefaultKey, CopyDefault(p, k)
      PROVE  OnlyOf(p) /\ pc[p] \in KeyWork /\ pc'[p] \in KeyWork /\ UNCHANGED <<stat, disk>>
  BY <1>10 DEF CopyDefault
<1>11. CASE SetDefault(p)
  BY <1>1, <1>11 DEF SetDefault, BeginSet
<1>12. CASE StartPropagate(p)
  BY <1>12 DEF StartPropagate
<1>13. ASSUME NEW d \in Db, PropagateDb(p, d)
       PROVE  OnlyOf(p) /\ pc[p] \in KeyWork /\ pc'[p] \in KeyWork /\ UNCHANGED <<stat, disk>>
  BY <1>13 DEF PropagateDb, BeginRotate
<1>14. CASE PropagateDone(p)
  BY <1>14 DEF PropagateDone, Finish
<1>15. CASE DeleteDefault(p)
  BY <1>15 DEF DeleteDefault
<1>16. ASSUME NEW d \in Db, DeleteDefaultDb(p, d)
       PROVE  OnlyOf(p) /\ pc[p] \in KeyWork /\ pc'[p] \in KeyWork /\ UNCHANGED <<stat, disk>>
  BY <1>16 DEF DeleteDefaultDb
<1>17. CASE DeleteDefaultDone(p)
  BY <1>17 DEF DeleteDefaultDone, Finish
<1> QED
  BY <1>3, <1>4, <1>5, <1>6, <1>7, <1>8, <1>9, <1>10, <1>11, <1>12, <1>13, <1>14,
     <1>15, <1>16, <1>17 DEF KeyStep, DefaultStep

\* A relation in use keeps its key if the files keep it and its blocks too.
LEMMA FoundKept ==
    ASSUME TypeInv, KeyInv, NEW L, KeepsKeys(L),
           \A d \in Db, r \in Rel : <<d, r>> \notin L /\ Accessible(d, r)' =>
                Accessible(d, r) /\ disk'[<<d, r>>] = disk[<<d, r>>],
           \A d \in Db, r \in Rel : <<d, r>> \in L /\ Accessible(d, r)' =>
                Found(keyfile'[d], r, disk'[<<d, r>>])
    PROVE  \A d \in Db, r \in Rel : Accessible(d, r)' => Found(keyfile'[d], r, disk'[<<d, r>>])
<1> SUFFICES ASSUME NEW d \in Db, NEW r \in Rel, Accessible(d, r)', <<d, r>> \notin L
             PROVE  Found(keyfile'[d], r, disk'[<<d, r>>])
  OBVIOUS
<1>1. disk[<<d, r>>] \in RelKey \cup {None}
  BY DEF TypeInv, TypeOK, Loc
<1> QED BY <1>1 DEF KeyInv, KeepsKeys

LEMMA NoLoad ==
    ASSUME NEW p \in Proc, pc'[p] \notin Reading
    PROVE  LoadOK(p)'
BY DEF LoadOK, Reading

\* A load stays right while its relation stays in use, under the same key.
LEMMA LoadKept ==
    ASSUME TypeInv, NEW q \in Proc, LoadOK(q), pc'[q] = pc[q], job'[q] = job[q],
           \A d \in Db, r \in Rel :
              /\ pc[q] \in Reading /\ job[q].oid = d /\ job[q].rel = r /\ Accessible(d, r)
              => Accessible(d, r)' /\ disk'[<<d, r>>] = disk[<<d, r>>]
    PROVE  LoadOK(q)'
<1>1. CASE pc[q] \notin Reading
  BY <1>1, NoLoad
<1>2. CASE pc[q] \in Reading
  <2>1. job[q].oid \in Db /\ job[q].rel \in Rel /\ Accessible(job[q].oid, job[q].rel)
    BY <1>2, SharedFacts DEF Fits, LoadOK
  <2>2. PICK d \in Db, r \in Rel : job[q].oid = d /\ job[q].rel = r
    BY <2>1
  <2>3. Accessible(d, r)' /\ disk'[<<d, r>>] = disk[<<d, r>>]
    BY <1>2, <2>1, <2>2
  <2> QED BY <1>2, <2>2, <2>3 DEF LoadOK, LocOf
<1> QED BY <1>1, <1>2

LEMMA KeyWorkInv ==
    ASSUME TypeInv, LifeInv, KeyInv, NEW p \in Proc, OnlyOf(p),
           pc[p] \in KeyWork, pc'[p] \in KeyWork, UNCHANGED <<stat, disk>>, KeepsKeys({})
    PROVE  LifeInv' /\ KeyInv'
<1>1. /\ pc[p] \notin Creating /\ pc'[p] \notin Creating
      /\ pc[p] \notin Reading /\ pc'[p] \notin Reading
      /\ pc[p] # "created" /\ pc'[p] # "created"
  BY DEF Creating, Reading, KeyWork
<1>2. \A d \in Db, r \in Rel : Accessible(d, r)' <=> Accessible(d, r)
  BY <1>1 DEF Accessible, OnlyOf
<1>3. LifeInv'
  BY <1>1 DEF LifeInv, LocOf, OnlyOf
<1>4. \A d \in Db, r \in Rel : Accessible(d, r)' => Found(keyfile'[d], r, disk'[<<d, r>>])
  BY <1>2, FoundKept
<1>5. \A q \in Proc : LoadOK(q)'
  BY <1>1, <1>2, NoLoad, LoadKept DEF OnlyOf, KeyInv
<1>6. KeyInv'
  BY <1>4, <1>5 DEF KeyInv
<1> QED BY <1>3, <1>6

\* Before its key is written, nobody uses a relation being created.
LEMMA CreatingFacts ==
    ASSUME TypeInv, LifeInv, NEW p \in Proc, pc[p] \in Creating
    PROVE  /\ job[p].oid \in Db /\ job[p].rel \in Rel
           /\ LocOf(p) = <<job[p].oid, job[p].rel>> /\ LocOf(p) \in Loc
           /\ stat[LocOf(p)] = "creating"
           /\ \A q \in Proc : pc[q] \in Creating /\ LocOf(q) = LocOf(p) => q = p
           /\ pc[p] # "created" => ~Accessible(job[p].oid, job[p].rel)
<1>1. job[p].oid \in Db /\ job[p].rel \in Rel
  BY SharedFacts DEF Fits, Creating
<1>2. /\ stat[LocOf(p)] = "creating"
      /\ \A q \in Proc : pc[q] \in Creating /\ LocOf(q) = LocOf(p) => q = p
  BY DEF LifeInv
<1>3. ASSUME pc[p] # "created", Accessible(job[p].oid, job[p].rel)
      PROVE  FALSE
  BY <1>2, <1>3 DEF Accessible, LocOf, Creating
<1> QED BY <1>1, <1>2, <1>3 DEF LocOf, Loc

\* The relation gets its key (or none): nobody else is concerned.
LEMMA CreatedInv ==
    ASSUME TypeInv, LifeInv, KeyInv, NEW p \in Proc, pc[p] \in {"create", "saving"},
           pc'[p] = "created", UNCHANGED <<stat, job>>, OnlyOf(p),
           NEW k \in RelKey \cup {None}, disk' = [disk EXCEPT ![LocOf(p)] = k],
           KeepsKeys({LocOf(p)}), Found(keyfile'[job[p].oid], job[p].rel, k)
    PROVE  LifeInv' /\ KeyInv'
<1>1. /\ pc[p] \in Creating /\ pc'[p] \in Creating /\ pc[p] # "created"
      /\ pc[p] \notin Reading /\ pc'[p] \notin Reading
  BY DEF Creating, Reading
<1>2. LifeInv'
  BY <1>1 DEF LifeInv, LocOf, OnlyOf
<1>3. /\ LocOf(p) = <<job[p].oid, job[p].rel>> /\ LocOf(p) \in Loc
      /\ stat[LocOf(p)] = "creating" /\ job[p].oid \in Db /\ job[p].rel \in Rel
      /\ ~Accessible(job[p].oid, job[p].rel)
  BY <1>1, CreatingFacts
<1>4. disk'[LocOf(p)] = k /\ \A l \in Loc : l # LocOf(p) => disk'[l] = disk[l]
  BY <1>3 DEF TypeInv, TypeOK
<1>5. \A d \in Db, r \in Rel : <<d, r>> # LocOf(p) =>
         (Accessible(d, r)' <=> Accessible(d, r)) /\ disk'[<<d, r>>] = disk[<<d, r>>]
  BY <1>1, <1>4 DEF Accessible, OnlyOf, LocOf, Loc
<1>6. \A d \in Db, r \in Rel : <<d, r>> = LocOf(p) =>
         Found(keyfile'[d], r, disk'[<<d, r>>]) /\ ~Accessible(d, r)
  BY <1>3, <1>4
<1>7. \A d \in Db, r \in Rel : Accessible(d, r)' => Found(keyfile'[d], r, disk'[<<d, r>>])
  BY <1>5, <1>6, FoundKept
<1>8. \A q \in Proc : LoadOK(q)'
  BY <1>1, <1>5, <1>6, NoLoad, LoadKept DEF OnlyOf, KeyInv
<1>9. KeyInv'
  BY <1>7, <1>8 DEF KeyInv
<1> QED BY <1>2, <1>9

LEMMA RelationStepInv ==
    ASSUME TypeInv, FileInv, LifeInv, KeyInv, NEW p \in Proc, RelationStep(p)
    PROVE  FileInv' /\ LifeInv' /\ KeyInv'
<1>1. ASSUME NEW d \in Db, NEW r \in Rel, StartCreate(p, d, r)
      PROVE  FileInv' /\ LifeInv' /\ KeyInv'
  <2>1. /\ pc[p] = "idle" /\ pc'[p] = "create" /\ OnlyOf(p)
        /\ UNCHANGED <<keyfile, rotfile, cache, lock, disk>>
        /\ stat[<<d, r>>] = "gone" /\ stat' = [stat EXCEPT ![<<d, r>>] = "creating"]
        /\ LocOf(p)' = <<d, r>>
    BY <1>1, SharedFacts DEF StartCreate, Goto, OnlyOf, LocOf, NoJob
  <2>2. /\ pc[p] \notin Creating /\ pc'[p] \in Creating /\ pc[p] \notin Holding
        /\ pc'[p] \notin Holding /\ pc[p] \notin Reading /\ pc'[p] \notin Reading
        /\ pc[p] # "created" /\ pc'[p] # "created"
    BY <2>1 DEF Creating, Reading, Holding
  <2>3. FileInv' /\ KeepsKeys({})
    BY <2>1, <2>2, BystanderInv DEF OnlyOf
  <2>4. stat'[<<d, r>>] = "creating" /\ \A l \in Loc : l # <<d, r>> => stat'[l] = stat[l]
    BY <2>1 DEF TypeInv, TypeOK, Loc
  <2>5. \A q \in Proc : q # p /\ pc[q] \in Creating => LocOf(q) # <<d, r>> /\ LocOf(q) \in Loc
    BY <2>1, CreatingFacts
  <2>6. \A q \in Proc : q # p => LocOf(q)' = LocOf(q) /\ pc'[q] = pc[q]
    BY <2>1 DEF OnlyOf, LocOf
  <2>7. LifeInv'
    BY <2>1, <2>4, <2>5, <2>6 DEF LifeInv
  <2>8. \A a \in Db, b \in Rel :
           (Accessible(a, b)' <=> Accessible(a, b)) /\ disk'[<<a, b>>] = disk[<<a, b>>]
    BY <2>1, <2>2, <2>4 DEF Accessible, OnlyOf, Loc
  <2>9. \A a \in Db, b \in Rel : Accessible(a, b)' => Found(keyfile'[a], b, disk'[<<a, b>>])
    BY <2>3, <2>8, FoundKept
  <2>10. \A q \in Proc : LoadOK(q)'
    BY <2>1, <2>2, <2>8, NoLoad, LoadKept DEF OnlyOf, KeyInv
  <2> QED BY <2>3, <2>7, <2>9, <2>10 DEF KeyInv
<1>2. CASE CreatePlain(p)
  <2>1. /\ pc[p] = "create" /\ pc'[p] = "created" /\ UNCHANGED <<stat, job>> /\ OnlyOf(p)
        /\ disk' = [disk EXCEPT ![LocOf(p)] = None]
    BY <1>2, OthersStay DEF CreatePlain, OnlyOf, LocOf
  <2>2. FileInv' /\ KeepsKeys({LocOf(p)}) /\ ~HasEntry(keyfile'[job[p].oid], job[p].rel)
    BY <1>2, CreatePlainFile
  <2>3. Found(keyfile'[job[p].oid], job[p].rel, None)
    BY <2>2 DEF Found
  <2>4. LifeInv' /\ KeyInv'
    BY <2>1, <2>2, <2>3, CreatedInv
  <2> QED BY <2>2, <2>4
<1>3. CASE CreateLock(p)
  <2>1. /\ pc[p] = "create" /\ pc'[p] = "saving" /\ UNCHANGED <<stat, disk>> /\ OnlyOf(p)
        /\ LocOf(p)' = LocOf(p)
    BY <1>3, SharedFacts DEF CreateLock, Goto, OnlyOf, LocOf, Jobs
  <2>2. FileInv' /\ KeepsKeys({})
    BY <1>3, CreateLockFile
  <2>3. /\ pc[p] \in Creating /\ pc'[p] \in Creating
        /\ pc[p] \notin Reading /\ pc'[p] \notin Reading
        /\ pc[p] # "created" /\ pc'[p] # "created"
    BY <2>1 DEF Creating, Reading
  <2>4. \A q \in Proc : LocOf(q)' = LocOf(q) /\ (pc'[q] \in Creating <=> pc[q] \in Creating)
    BY <2>1, <2>3 DEF OnlyOf, LocOf
  <2>5. LifeInv'
    BY <2>1, <2>4 DEF LifeInv
  <2>8. \A a \in Db, b \in Rel :
           (Accessible(a, b)' <=> Accessible(a, b)) /\ disk'[<<a, b>>] = disk[<<a, b>>]
    BY <2>1, <2>3 DEF Accessible, OnlyOf
  <2>9. \A a \in Db, b \in Rel : Accessible(a, b)' => Found(keyfile'[a], b, disk'[<<a, b>>])
    BY <2>2, <2>8, FoundKept
  <2>10. \A q \in Proc : LoadOK(q)'
    BY <2>1, <2>3, <2>8, NoLoad, LoadKept DEF OnlyOf, KeyInv
  <2> QED BY <2>2, <2>5, <2>9, <2>10 DEF KeyInv
<1>4. ASSUME CreateRefused(p) \/ Abort(p)
      PROVE  FileInv' /\ LifeInv' /\ KeyInv'
  <2>1. /\ pc[p] \in {"create", "created"} /\ pc'[p] = "idle" /\ OnlyOf(p)
        /\ UNCHANGED <<keyfile, rotfile, cache, lock, disk>>
        /\ stat' = [stat EXCEPT ![LocOf(p)] = "dropping"]
    BY <1>4, OthersStayFinish DEF CreateRefused, Abort, OnlyOf, LocOf
  <2>2. /\ pc[p] \in Creating /\ pc'[p] \notin Creating /\ pc[p] \notin Holding
        /\ pc'[p] \notin Holding /\ pc[p] \notin Reading /\ pc'[p] \notin Reading
        /\ pc'[p] # "created"
    BY <2>1 DEF Creating, Reading, Holding
  <2>3. FileInv' /\ KeepsKeys({})
    BY <2>1, <2>2, BystanderInv DEF OnlyOf
  <2>4. /\ LocOf(p) \in Loc /\ LocOf(p) = <<job[p].oid, job[p].rel>>
        /\ \A q \in Proc : pc[q] \in Creating /\ LocOf(q) = LocOf(p) => q = p
    BY <2>2, CreatingFacts
  <2>5. stat'[LocOf(p)] = "dropping" /\ \A l \in Loc : l # LocOf(p) => stat'[l] = stat[l]
    BY <2>1, <2>4 DEF TypeInv, TypeOK
  <2>6. \A q \in Proc : q # p /\ pc[q] \in Creating => LocOf(q) # LocOf(p) /\ LocOf(q) \in Loc
    BY <2>4, CreatingFacts
  <2>7. LifeInv'
    BY <2>1, <2>2, <2>5, <2>6 DEF LifeInv, OnlyOf, LocOf
  <2>8. \A a \in Db, b \in Rel : Accessible(a, b)' => Accessible(a, b)
    BY <2>1, <2>2, <2>5 DEF Accessible, OnlyOf, Loc
  <2>9. \A a \in Db, b \in Rel : Accessible(a, b) /\ <<a, b>> # LocOf(p) => Accessible(a, b)'
    BY <2>1, <2>5 DEF Accessible, OnlyOf, LocOf, Loc
  <2>10. \A q \in Proc : pc[q] \in Reading => LocOf(q) # LocOf(p)
    <3>1. CASE CreateRefused(p)
      <4>1. ~Accessible(job[p].oid, job[p].rel)
        BY <2>2, <3>1, CreatingFacts DEF CreateRefused
      <4> QED BY <4>1 DEF KeyInv, LoadOK, LocOf
    <3>2. CASE Abort(p)
      BY <3>2 DEF Abort, InUse, LocOf
    <3> QED BY <1>4, <3>1, <3>2
  <2>11. \A a \in Db, b \in Rel : Accessible(a, b)' => Found(keyfile'[a], b, disk'[<<a, b>>])
    BY <2>1, <2>3, <2>8, FoundKept
  <2>12. \A q \in Proc : LoadOK(q)'
    <3> TAKE q \in Proc
    <3>1. CASE q = p
      BY <2>2, <3>1, NoLoad
    <3>2. CASE q # p
      <4>1. pc'[q] = pc[q] /\ job'[q] = job[q] /\ LoadOK(q)
        BY <2>1, <3>2 DEF OnlyOf, KeyInv
      <4>2. \A a \in Db, b \in Rel :
               /\ pc[q] \in Reading /\ job[q].oid = a /\ job[q].rel = b /\ Accessible(a, b)
               => Accessible(a, b)' /\ disk'[<<a, b>>] = disk[<<a, b>>]
        BY <2>1, <2>9, <2>10 DEF LocOf
      <4> QED BY <4>1, <4>2, LoadKept
    <3> QED BY <3>1, <3>2
  <2> QED BY <2>3, <2>7, <2>11, <2>12 DEF KeyInv
<1>5. ASSUME NEW k \in RelKey, CreateWrite(p, k)
      PROVE  FileInv' /\ LifeInv' /\ KeyInv'
  <2>1. /\ pc[p] = "saving" /\ pc'[p] = "created" /\ UNCHANGED <<stat, job>> /\ OnlyOf(p)
        /\ disk' = [disk EXCEPT ![LocOf(p)] = k]
    BY <1>5, OthersStay DEF CreateWrite, OnlyOf, LocOf
  <2>2. FileInv' /\ KeepsKeys({LocOf(p)}) /\ Found(keyfile'[job[p].oid], job[p].rel, k)
    BY <1>5, CreateWriteFile
  <2>4. LifeInv' /\ KeyInv'
    BY <2>1, <2>2, CreatedInv
  <2> QED BY <2>2, <2>4
<1>6. CASE Commit(p)
  <2>1. /\ pc[p] = "created" /\ pc'[p] = "idle" /\ OnlyOf(p)
        /\ UNCHANGED <<keyfile, rotfile, cache, lock, disk>>
        /\ stat' = [stat EXCEPT ![LocOf(p)] = "live"]
    BY <1>6, OthersStayFinish DEF Commit, OnlyOf, LocOf
  <2>2. /\ pc[p] \in Creating /\ pc'[p] \notin Creating /\ pc[p] \notin Holding
        /\ pc'[p] \notin Holding /\ pc[p] \notin Reading /\ pc'[p] \notin Reading
    BY <2>1 DEF Creating, Reading, Holding
  <2>3. FileInv' /\ KeepsKeys({})
    BY <2>1, <2>2, BystanderInv DEF OnlyOf
  <2>4. LocOf(p) \in Loc /\ LocOf(p) = <<job[p].oid, job[p].rel>>
    BY <2>2, CreatingFacts
  <2>5. stat'[LocOf(p)] = "live" /\ \A l \in Loc : l # LocOf(p) => stat'[l] = stat[l]
    BY <2>1, <2>4 DEF TypeInv, TypeOK
  <2>6. \A q \in Proc : q # p /\ pc[q] \in Creating => LocOf(q) # LocOf(p) /\ LocOf(q) \in Loc
    BY <2>2, CreatingFacts
  <2>7. LifeInv'
    BY <2>1, <2>2, <2>5, <2>6 DEF LifeInv, OnlyOf, LocOf
  <2>8. \A a \in Db, b \in Rel : Accessible(a, b)' <=> Accessible(a, b)
    <3> TAKE a \in Db, b \in Rel
    <3>1. CASE <<a, b>> = LocOf(p)
      BY <2>1, <2>4, <2>5, <3>1 DEF Accessible
    <3>2. CASE <<a, b>> # LocOf(p)
      BY <2>1, <2>5, <3>2 DEF Accessible, OnlyOf, LocOf, Loc
    <3> QED BY <3>1, <3>2
  <2>9. \A a \in Db, b \in Rel : Accessible(a, b)' => Found(keyfile'[a], b, disk'[<<a, b>>])
    BY <2>1, <2>3, <2>8, FoundKept
  <2>10. \A q \in Proc : LoadOK(q)'
    BY <2>1, <2>2, <2>8, NoLoad, LoadKept DEF OnlyOf, KeyInv
  <2> QED BY <2>3, <2>7, <2>9, <2>10 DEF KeyInv
<1> QED BY <1>1, <1>2, <1>3, <1>4, <1>5, <1>6 DEF RelationStep

\* What a scan of a sound file that has key k for r comes to.
LEMMA FoundFacts ==
    ASSUME NEW f \in KeyFiles, FileOK(f), NEW r \in Rel, NEW k \in RelKey \cup {None},
           Found(f, r, k)
    PROVE  /\ ~HasEntry(f, r) => k = None
           /\ ~f.present => k = None
           /\ \A i \in DOMAIN f.slots : f.slots[i].rel = r => f.slots[i].key = k
           /\ k # None => \E i \in DOMAIN f.slots : FirstEntry(f, r, i)
<1>1. ~HasEntry(f, r) => k = None
  BY DEF Found, HasEntry
<1>2. ~f.present => k = None
  <2>1. ~f.present => NoKeys(f)
    BY NoKeysFacts DEF FileOK
  <2> QED BY <1>1, <2>1, NoKeysFacts
<1>3. \A i, j \in DOMAIN f.slots : f.slots[i].rel = r /\ f.slots[j].rel = r => i = j
  BY EntryFacts, FileFacts DEF FileOK
<1>4. \A i \in DOMAIN f.slots : f.slots[i].rel = r => f.slots[i].key = k
  BY <1>3 DEF Found, HasEntry
<1>5. ASSUME k # None
      PROVE  \E i \in DOMAIN f.slots : FirstEntry(f, r, i)
  <2>1. PICK i \in DOMAIN f.slots : f.slots[i].rel = r
    BY <1>5 DEF Found
  <2>2. \A j \in 1 .. (i - 1) : j \in DOMAIN f.slots /\ j # i
    BY FileFacts
  <2> QED BY <1>3, <2>1, <2>2 DEF FirstEntry
<1> QED BY <1>1, <1>2, <1>4, <1>5

\* A reading step changes no relation; it is enough to look at the load itself.
LEMMA ReadInv ==
    ASSUME TypeInv, LifeInv, KeyInv, NEW p \in Proc, OnlyOf(p),
           pc[p] \in Reading \cup {"idle"}, pc'[p] \in Reading \cup {"idle"},
           UNCHANGED <<stat, disk>>, KeepsKeys({}), LoadOK(p)'
    PROVE  LifeInv' /\ KeyInv'
<1>1. pc[p] \notin Creating /\ pc'[p] \notin Creating /\ pc[p] # "created" /\ pc'[p] # "created"
  BY DEF Creating, Reading
<1>2. LifeInv'
  BY <1>1 DEF LifeInv, LocOf, OnlyOf
<1>3. \A d \in Db, r \in Rel : Accessible(d, r)' <=> Accessible(d, r)
  BY <1>1 DEF Accessible, OnlyOf
<1>4. \A d \in Db, r \in Rel : Accessible(d, r)' => Found(keyfile'[d], r, disk'[<<d, r>>])
  BY <1>3, FoundKept
<1>5. \A q \in Proc : LoadOK(q)'
  BY <1>3, LoadKept DEF OnlyOf, KeyInv
<1> QED BY <1>2, <1>4, <1>5 DEF KeyInv

LEMMA ReadStepInv ==
    ASSUME TypeInv, FileInv, LifeInv, KeyInv, NEW p \in Proc, ReadStep(p)
    PROVE  FileInv' /\ LifeInv' /\ KeyInv'
<1>1. ASSUME NEW d \in Db, NEW r \in Rel, GetSmgrKey(p, d, r)
      PROVE  FileInv' /\ LifeInv' /\ KeyInv'
  <2>1. /\ pc[p] = "idle" /\ OnlyOf(p) /\ Accessible(d, r)
        /\ pc'[p] = IF keyfile[d].present THEN "find" ELSE "got_null"
        /\ UNCHANGED <<keyfile, rotfile, cache, lock, stat, disk>>
        /\ job'[p].oid = d /\ job'[p].rel = r
    BY <1>1, SharedFacts DEF GetSmgrKey, Goto, OnlyOf, NoJob
  <2>2. pc[p] \notin Holding /\ pc'[p] \notin Holding /\ pc'[p] \in Reading
    BY <2>1 DEF Holding, Reading
  <2>3. FileInv' /\ KeepsKeys({})
    BY <2>1, <2>2, BystanderInv DEF OnlyOf
  <2>4. Accessible(d, r)'
    BY <2>1 DEF Accessible, OnlyOf
  <2>5. pc'[p] = "got_null" => disk[<<d, r>>] = None
    <3>1. /\ Found(keyfile[d], r, disk[<<d, r>>]) /\ FileOK(keyfile[d])
          /\ keyfile[d] \in KeyFiles /\ disk[<<d, r>>] \in RelKey \cup {None}
      BY <2>1, SharedFacts DEF KeyInv, FileInv, TypeInv, TypeOK, Loc
    <3> QED BY <2>1, <3>1, FoundFacts
  <2>6. LoadOK(p)'
    BY <2>1, <2>4, <2>5 DEF LoadOK, LocOf
  <2>7. LifeInv' /\ KeyInv'
    BY <2>1, <2>2, <2>3, <2>6, ReadInv
  <2> QED BY <2>3, <2>7
<1>2. CASE FindEntry(p)
  <2> DEFINE d == job[p].oid
             r == job[p].rel
             k == disk[<<d, r>>]
  <2>1. /\ pc[p] = "find" /\ OnlyOf(p) /\ pc[p] \in Reading
        /\ UNCHANGED <<keyfile, rotfile, cache, lock, stat, disk>>
        /\ job'[p].oid = d /\ job'[p].rel = r /\ pc'[p] \in Reading
    BY <1>2, SharedFacts DEF FindEntry, Goto, OnlyOf, Decrypted, Reading, Jobs
  <2>2. pc[p] \notin Holding /\ pc'[p] \notin Holding
    BY <2>1 DEF Holding, Reading
  <2>3. FileInv' /\ KeepsKeys({})
    BY <2>1, <2>2, BystanderInv DEF OnlyOf
  <2>4. d \in Db /\ r \in Rel /\ Accessible(d, r)
    BY <2>1, SharedFacts DEF Fits, KeyInv, LoadOK
  <2>5. /\ Found(keyfile[d], r, k) /\ FileOK(keyfile[d])
        /\ keyfile[d] \in KeyFiles /\ k \in RelKey \cup {None}
    BY <2>4, SharedFacts DEF KeyInv, FileInv, TypeInv, TypeOK, Loc
  <2>6. pc'[p] = "got_null" => ~HasEntry(keyfile[d], r)
    BY <1>2, SharedFacts DEF FindEntry, Goto, Decrypted
  <2>7. pc'[p] \in {"upgrade", "got_key"} =>
           \E i \in DOMAIN keyfile[d].slots :
              keyfile[d].slots[i].rel = r /\ job'[p].ent = keyfile[d].slots[i]
    <3>1. CASE Goto(p, "got_error") \/ Goto(p, "got_null")
      BY <3>1, SharedFacts DEF Goto
    <3>2. ASSUME NEW i \in DOMAIN keyfile[d].slots, FirstEntry(keyfile[d], r, i),
                 job' = [job EXCEPT ![p].ent = keyfile[d].slots[i]]
          PROVE  keyfile[d].slots[i].rel = r /\ job'[p].ent = keyfile[d].slots[i]
      <4>1. job[p] \in Jobs /\ p \in DOMAIN job
        BY SharedFacts
      <4>2. job'[p].ent = keyfile[d].slots[i]
        BY <3>2, <4>1 DEF Jobs
      <4> QED BY <3>2, <4>2 DEF FirstEntry
    <3>3. \/ Goto(p, "got_error") \/ Goto(p, "got_null")
          \/ \E i \in DOMAIN keyfile[d].slots :
                /\ FirstEntry(keyfile[d], r, i)
                /\ job' = [job EXCEPT ![p].ent = keyfile[d].slots[i]]
      BY <1>2 DEF FindEntry
    <3> QED BY <3>1, <3>2, <3>3
  <2>8. Accessible(d, r)'
    <3>1. pc[p] # "created" /\ pc'[p] # "created"
      BY <2>1 DEF Reading
    <3> QED BY <2>1, <2>4, <3>1 DEF Accessible, OnlyOf
  <2>9. /\ pc'[p] = "got_null" => k = None
        /\ pc'[p] \in {"upgrade", "got_key"} => k = job'[p].ent.key
    <3> HIDE DEF d, r, k
    <3> QED BY <2>4, <2>5, <2>6, <2>7, FoundFacts
  <2>10. LoadOK(p)'
    BY <2>1, <2>8, <2>9 DEF LoadOK, LocOf
  <2>11. LifeInv' /\ KeyInv'
    BY <2>1, <2>3, <2>10, ReadInv
  <2> QED BY <2>3, <2>11
<1>3. CASE GetKeyUpgraded(p)
  <2>1. /\ pc[p] = "upgrade" /\ OnlyOf(p) /\ UNCHANGED <<stat, disk, job>>
        /\ pc'[p] \in {"got_error", "got_key"}
    BY <1>3, SharedFacts DEF GetKeyUpgraded, Goto, OnlyOf, Decrypted
  <2>2. FileInv' /\ KeepsKeys({})
    BY <1>3, GetKeyUpgradedFile
  <2>3. pc[p] \in Reading /\ pc'[p] \in Reading
    BY <2>1 DEF Reading
  <2>4. Accessible(job[p].oid, job[p].rel) /\ disk[LocOf(p)] = job[p].ent.key
    BY <2>1, <2>3 DEF KeyInv, LoadOK
  <2>5. Accessible(job[p].oid, job[p].rel)'
    BY <2>1, <2>4 DEF Accessible, OnlyOf
  <2>6. LoadOK(p)'
    BY <2>1, <2>4, <2>5 DEF LoadOK, LocOf
  <2>7. LifeInv' /\ KeyInv'
    BY <2>1, <2>2, <2>3, <2>6, ReadInv
  <2> QED BY <2>2, <2>7
<1>4. CASE GetKeyReturn(p)
  <2>1. /\ pc[p] \in Reading /\ pc'[p] = "idle" /\ OnlyOf(p)
        /\ UNCHANGED <<keyfile, rotfile, cache, lock, stat, disk>>
    BY <1>4, OthersStayFinish DEF GetKeyReturn, OnlyOf, Reading
  <2>2. pc[p] \notin Holding /\ pc'[p] \notin Holding /\ pc'[p] \notin Reading
    BY <2>1 DEF Holding, Reading
  <2>3. FileInv' /\ KeepsKeys({})
    BY <2>1, <2>2, BystanderInv DEF OnlyOf
  <2>4. LifeInv' /\ KeyInv'
    BY <2>1, <2>2, <2>3, NoLoad, ReadInv
  <2> QED BY <2>3, <2>4
<1> QED BY <1>1, <1>2, <1>3, <1>4 DEF ReadStep

LEMMA DropInv ==
    ASSUME TypeInv, FileInv, LifeInv, KeyInv, NEW d \in Db, NEW r \in Rel,
           Drop(d, r) \/ Unlink(d, r)
    PROVE  FileInv' /\ LifeInv' /\ KeyInv'
<1> DEFINE l == <<d, r>>
<1>1. /\ l \in Loc /\ stat[l] \in {"live", "dropping"} /\ UNCHANGED <<pc, job>>
      /\ \E s \in {"dropping", "gone"} : stat' = [stat EXCEPT ![l] = s]
      /\ disk' = disk \/ disk' = [disk EXCEPT ![l] = None]
  BY DEF Drop, Unlink, Loc
<1>2. /\ stat'[l] \notin {"live", "creating"} /\ (\A m \in Loc : m # l => stat'[m] = stat[m])
      /\ \A m \in Loc : m # l => disk'[m] = disk[m]
  BY <1>1 DEF TypeInv, TypeOK
<1>3. FileInv' /\ KeepsKeys({l})
  <2>1. CASE Drop(d, r)
    BY <2>1 DEF Drop, FileInv, HolderOK, CacheCoherent, KeepsKeys
  <2>2. CASE Unlink(d, r)
    BY <2>2, UnlinkFile
  <2> QED BY <2>1, <2>2
<1>4. \A q \in Proc : pc[q] \in Creating => LocOf(q) # l /\ LocOf(q) \in Loc
  BY <1>1, CreatingFacts
<1>5. LifeInv'
  BY <1>1, <1>2, <1>4 DEF LifeInv, LocOf
<1>6. ~Accessible(d, r)'
  <2>1. \A q \in Proc : pc[q] = "created" => ~(job[q].oid = d /\ job[q].rel = r)
    BY <1>4 DEF LocOf, Creating
  <2> QED BY <1>1, <1>2, <2>1 DEF Accessible
<1>7. \A a \in Db, b \in Rel : <<a, b>> # l =>
         (Accessible(a, b)' <=> Accessible(a, b)) /\ disk'[<<a, b>>] = disk[<<a, b>>]
  BY <1>1, <1>2 DEF Accessible, Loc
<1>8. \A q \in Proc : pc[q] \in Reading => ~(job[q].oid = d /\ job[q].rel = r)
  <2>1. CASE Drop(d, r)
    BY <2>1 DEF Drop, InUse
  <2>2. CASE Unlink(d, r)
    <3>1. stat[l] = "dropping"
      BY <2>2 DEF Unlink
    <3>2. \A q \in Proc : pc[q] = "created" => ~(job[q].oid = d /\ job[q].rel = r)
      BY <1>4 DEF LocOf, Creating
    <3>3. ~Accessible(d, r)
      BY <3>1, <3>2 DEF Accessible
    <3> QED BY <3>3 DEF KeyInv, LoadOK
  <2> QED BY <2>1, <2>2
<1>9. \A a \in Db, b \in Rel : Accessible(a, b)' => Found(keyfile'[a], b, disk'[<<a, b>>])
  <2>1. \A a \in Db, b \in Rel : <<a, b>> \in {l} => a = d /\ b = r
    OBVIOUS
  <2> HIDE DEF l
  <2> QED BY <1>3, <1>6, <1>7, <2>1, FoundKept
<1>10. \A q \in Proc : LoadOK(q)'
  <2> TAKE q \in Proc
  <2>1. pc'[q] = pc[q] /\ job'[q] = job[q] /\ LoadOK(q)
    BY <1>1 DEF KeyInv
  <2>2. \A a \in Db, b \in Rel :
           /\ pc[q] \in Reading /\ job[q].oid = a /\ job[q].rel = b /\ Accessible(a, b)
           => Accessible(a, b)' /\ disk'[<<a, b>>] = disk[<<a, b>>]
    BY <1>7, <1>8
  <2> QED BY <2>1, <2>2, LoadKept
<1> QED BY <1>3, <1>5, <1>9, <1>10 DEF KeyInv

LEMMA RestartInv ==
    ASSUME TypeInv, FileInv, LifeInv, KeyInv, Restart
    PROVE  FileInv' /\ LifeInv' /\ KeyInv'
<1>1. /\ \A q \in Proc : pc'[q] = "idle"
      /\ \A m \in Loc : stat'[m] = "live" => stat[m] = "live" /\ disk'[m] = disk[m]
  BY DEF Restart
<1>2. FileInv' /\ KeepsKeys({})
  BY RestartFile
<1>3. LifeInv'
  BY <1>1 DEF LifeInv, Creating
<1>4. \A d \in Db, r \in Rel : Accessible(d, r)' =>
         Accessible(d, r) /\ disk'[<<d, r>>] = disk[<<d, r>>]
  BY <1>1 DEF Accessible, Loc
<1>5. \A d \in Db, r \in Rel : Accessible(d, r)' => Found(keyfile'[d], r, disk'[<<d, r>>])
  BY <1>2, <1>4, FoundKept
<1>6. \A q \in Proc : LoadOK(q)'
  BY <1>1, NoLoad DEF Reading
<1> QED BY <1>2, <1>3, <1>5, <1>6 DEF KeyInv

-----------------------------------------------------------------------------
(* The invariant is inductive.                                             *)

LEMMA KeyStepFile ==
    ASSUME TypeInv, FileInv, NEW p \in Proc, KeyStep(p)
    PROVE  FileInv' /\ KeepsKeys({})
<1>1. ASSUME NEW d \in Db, NEW k \in DbKey, SetKey(p, d, k)
      PROVE  FileInv' /\ KeepsKeys({})
  <2> DEFINE j == [NoJob EXCEPT !.new = k]
  <2>1. j \in Jobs /\ d \in Oid
    BY NoJobType, KeyMapAssumption, SharedFacts DEF Jobs, NoJob
  <2>2. BeginSet(p, d, j)
    BY <1>1 DEF SetKey
  <2> HIDE DEF j
  <2> QED BY <2>1, <2>2, BeginSetFile
<1> QED
  BY <1>1, SaveHeaderFile, RotateEntryFile, RotateFailFile, RotateRenameFile,
     RotatePublishFile, DeleteKeyFile DEF KeyStep

LEMMA DefaultStepFile ==
    ASSUME TypeInv, FileInv, NEW p \in Proc, DefaultStep(p), ~PropagateNull(p)
    PROVE  FileInv' /\ KeepsKeys({})
<1>1. CASE SetDefault(p)
  <2> DEFINE j == [job[p] EXCEPT !.then = IF job[p].old = None THEN "idle"
                                                               ELSE "propagate"]
  <2>1. j \in Jobs /\ Default \in Oid
    BY SharedFacts DEF Jobs
  <2>2. BeginSet(p, Default, j)
    BY <1>1 DEF SetDefault
  <2> HIDE DEF j
  <2> QED BY <2>1, <2>2, BeginSetFile
<1> QED
  BY <1>1, CopyDefaultFile, StartPropagateFile, PropagateDbFile, PropagateDoneFile,
     DeleteDefaultFile, DeleteDefaultDbFile, DeleteDefaultDoneFile DEF DefaultStep

LEMMA LoadKeyInv ==
    ASSUME TypeInv, FileInv, LifeInv, KeyInv, NEW o \in Oid, LoadKey(o)
    PROVE  FileInv' /\ LifeInv' /\ KeyInv'
<1>1. UNCHANGED <<keyfile, stat, disk, pc, job>>
  BY DEF LoadKey
<1>2. LifeInv' /\ KeyInv'
  BY <1>1 DEF LifeInv, KeyInv, LocOf, LoadOK, Accessible
<1> QED BY <1>2, LoadKeyFile

LEMMA InitIInv == Init => IInv
<1> SUFFICES ASSUME Init PROVE IInv
  OBVIOUS
<1>1. TypeInv
  BY InitTypeInv
<1>2. /\ \A o \in Oid : keyfile[o] = NoFile /\ cache[o] = None
      /\ \A p \in Proc : pc[p] = "idle"
      /\ \A d \in Db, r \in Rel : ~Accessible(d, r)
  BY DEF Init, Accessible, Loc
<1>3. \A p \in Proc : HolderOK(p)
  BY <1>2 DEF HolderOK
<1>4. FileInv
  BY <1>2, <1>3, BareNoFile DEF FileInv, CacheCoherent, Holding
<1>5. LifeInv
  BY <1>2 DEF LifeInv, Creating
<1>6. KeyInv
  BY <1>2 DEF KeyInv, LoadOK, Reading
<1> QED BY <1>1, <1>4, <1>5, <1>6 DEF IInv

LEMMA NextIInv == IInv /\ [Next]_vars => IInv'
<1> SUFFICES ASSUME IInv, [Next]_vars
             PROVE  FileInv' /\ LifeInv' /\ KeyInv'
  BY NextTypeInv DEF IInv
<1>0. TypeInv /\ FileInv /\ LifeInv /\ KeyInv
  BY DEF IInv
<1>1. CASE UNCHANGED vars
  <2>1. UNCHANGED <<keyfile, rotfile, cache, lock, stat, disk, pc, job>>
    BY <1>1 DEF vars
  <2>2. FileInv'
    BY <1>0, <2>1 DEF FileInv, HolderOK, CacheCoherent
  <2>3. LifeInv' /\ KeyInv'
    BY <1>0, <2>1 DEF LifeInv, KeyInv, LocOf, LoadOK, Accessible
  <2> QED BY <2>2, <2>3
<1>2. ASSUME NEW p \in Proc, RelationStep(p)
      PROVE  FileInv' /\ LifeInv' /\ KeyInv'
  BY <1>0, <1>2, RelationStepInv
<1>3. ASSUME NEW p \in Proc, ReadStep(p)
      PROVE  FileInv' /\ LifeInv' /\ KeyInv'
  BY <1>0, <1>3, ReadStepInv
<1>4. ASSUME NEW p \in Proc, KeyStep(p)
      PROVE  FileInv' /\ LifeInv' /\ KeyInv'
  <2>1. CASE PropagateNull(p)
    BY <1>0, <2>1, RestartInv DEF PropagateNull
  <2>2. CASE ~PropagateNull(p)
    <3>1. FileInv' /\ KeepsKeys({})
      BY <1>0, <1>4, KeyStepFile
    <3> QED BY <1>0, <1>4, <2>2, <3>1, OnlyOfKeyStep, KeyWorkInv
  <2> QED BY <2>1, <2>2
<1>5. ASSUME NEW p \in Proc, DefaultStep(p)
      PROVE  FileInv' /\ LifeInv' /\ KeyInv'
  <2>1. CASE PropagateNull(p)
    BY <1>0, <2>1, RestartInv DEF PropagateNull
  <2>2. CASE ~PropagateNull(p)
    <3>1. FileInv' /\ KeepsKeys({})
      BY <1>0, <1>5, <2>2, DefaultStepFile
    <3> QED BY <1>0, <1>5, <2>2, <3>1, OnlyOfKeyStep, KeyWorkInv
  <2> QED BY <2>1, <2>2
<1>6. ASSUME NEW d \in Db, NEW r \in Rel, Drop(d, r) \/ Unlink(d, r)
      PROVE  FileInv' /\ LifeInv' /\ KeyInv'
  BY <1>0, <1>6, DropInv
<1>7. ASSUME NEW o \in Oid, LoadKey(o)
      PROVE  FileInv' /\ LifeInv' /\ KeyInv'
  BY <1>0, <1>7, LoadKeyInv
<1>8. CASE Crash
  BY <1>0, <1>8, RestartInv DEF Crash
<1> QED BY <1>1, <1>2, <1>3, <1>4, <1>5, <1>6, <1>7, <1>8 DEF Next

LEMMA Invariance == Spec => []IInv
BY InitIInv, NextIInv, PTL DEF Spec

-----------------------------------------------------------------------------
(* What it implies.                                                        *)

\* A sound file that has key k for r gives k to a lookup of r.
LEMMA LookupFound ==
    ASSUME TypeInv, FileInv, NEW d \in Db, NEW r \in Rel, NEW k \in RelKey \cup {None},
           Found(keyfile[d], r, k)
    PROVE  Lookup(d, r) = k
<1> DEFINE f == keyfile[d]
<1>1. f \in KeyFiles /\ FileOK(f) /\ Found(f, r, k)
  BY SharedFacts DEF FileInv
<1>2. CASE ~HasEntry(f, r)
  BY <1>2, NoneAssumption DEF Lookup, Found, HasEntry
<1>3. CASE HasEntry(f, r)
  <2> DEFINE i == CHOOSE n \in DOMAIN f.slots : FirstEntry(f, r, n)
  <2>1. k # None
    BY <1>3 DEF Found
  <2>2. \E n \in DOMAIN f.slots : FirstEntry(f, r, n)
    BY <1>1, <2>1, FoundFacts
  <2>3. i \in DOMAIN f.slots /\ f.slots[i].rel = r
    <3>1. FirstEntry(f, r, i)
      BY <2>2
    <3> QED BY <3>1 DEF FirstEntry
  <2>4. Lookup(d, r) = IF f.slots[i].by = f.hdr THEN f.slots[i].key ELSE Gone
    BY <1>3 DEF Lookup
  <2> HIDE DEF i, f
  <2>5. f.slots[i] # EmptyEntry
    BY <2>3, EntryFacts
  <2>6. f.slots[i].by = f.hdr
    BY <1>1, <2>3, <2>5 DEF FileOK
  <2>7. f.slots[i].key = k
    BY <1>1, <2>1, <2>3, FoundFacts
  <2> QED BY <2>4, <2>6, <2>7
<1> QED BY <1>2, <1>3

LEMMA InvImplies ==
    ASSUME IInv
    PROVE  EntriesUnderHeader /\ OneEntryPerRelation /\ CacheCoherent /\ KeysRetained
           /\ LoadNeverMisled
<1>1. EntriesUnderHeader /\ OneEntryPerRelation /\ CacheCoherent
  BY DEF IInv, FileInv, FileOK, EntriesUnderHeader, OneEntryPerRelation
<1>2. ASSUME NEW d \in Db, NEW r \in Rel, Accessible(d, r)
      PROVE  Lookup(d, r) = disk[<<d, r>>]
  <2>1. disk[<<d, r>>] \in RelKey \cup {None}
    BY DEF IInv, TypeInv, TypeOK, Loc
  <2>2. Found(keyfile[d], r, disk[<<d, r>>])
    BY <1>2 DEF IInv, KeyInv
  <2> QED BY <2>1, <2>2, LookupFound DEF IInv
<1>3. KeysRetained
  BY <1>2 DEF KeysRetained
<1>4. LoadNeverMisled
  BY DEF IInv, KeyInv, LoadOK, LocOf, LoadNeverMisled
<1> QED BY <1>1, <1>3, <1>4

\* Every entry of a key file opens under the principal key the file's header
\* names, in every state any number of backends and crashes can reach: no save,
\* rotation or fallback to the default key leaves an entry behind that a restarted
\* server could not open.
THEOREM AlwaysUnderHeader == Spec => []EntriesUnderHeader
BY Invariance, InvImplies, PTL

\* A key file never has two entries for one relation: slot reuse, overwriting and
\* the compaction of a rotation keep them unique.
THEOREM AlwaysOneEntry == Spec => []OneEntryPerRelation
BY Invariance, InvImplies, PTL

\* The principal key cached in shared memory is the one the key file names, but
\* for the moment between the rename of a rotated file and the cache update,
\* which the exclusive lock hides.
THEOREM AlwaysCoherent == Spec => []CacheCoherent
BY Invariance, InvImplies, PTL

\* A relation in use keeps, in the key file of its database, the key its blocks
\* are encrypted with, or no key if they are not, through concurrent rotations,
\* deletions of keys, failed writes and crashes.
THEOREM AlwaysRetained == Spec => []KeysRetained
BY Invariance, InvImplies, PTL

\* open_pg_tde_get_smgr_key, which gives the lock up between the entry it copies
\* and the principal key it loads, never returns a wrong key and never takes an
\* encrypted relation for a plain one.
THEOREM NeverMisled == Spec => []LoadNeverMisled
BY Invariance, InvImplies, PTL

-----------------------------------------------------------------------------
(* The key map implements the store of RelKeyStore.                        *)

\* Steps that neither create nor drop a relation, nor change its blocks' key.
SameStore ==
    \A l \in Loc : /\ stat'[l] = "live" <=> stat[l] = "live"
                   /\ stat[l] = "live" => disk'[l] = disk[l]

\* Relation l, and it alone, begins or ceases to be live.
Begins(l) == /\ stat[l] # "live" /\ stat'[l] = "live" /\ disk'[l] = disk[l]
             /\ \A m \in Loc \ {l} : stat'[m] = stat[m] /\ disk'[m] = disk[m]

Ends(l) == /\ stat[l] = "live" /\ stat'[l] # "live"
           /\ \A m \in Loc \ {l} : stat'[m] = stat[m] /\ disk'[m] = disk[m]

LEMMA StoreSteps ==
    ASSUME IInv, [Next]_vars
    PROVE  SameStore \/ \E l \in Loc : Begins(l) \/ Ends(l)
<1>0. /\ TypeInv /\ LifeInv /\ stat \in [Loc -> Stats] /\ disk \in [Loc -> RelKey \cup {None}]
  BY DEF IInv, TypeInv, TypeOK
<1>1. ASSUME UNCHANGED <<stat, disk>> PROVE SameStore
  BY <1>1 DEF SameStore
<1>2. ASSUME NEW p \in Proc, RelationStep(p)
      PROVE  SameStore \/ \E l \in Loc : Begins(l) \/ Ends(l)
  <2>1. ASSUME NEW d \in Db, NEW r \in Rel, StartCreate(p, d, r)
        PROVE  SameStore
    BY <1>0, <2>1 DEF StartCreate, SameStore, Loc
  <2>2. CASE CreateLock(p)
    BY <1>1, <2>2 DEF CreateLock
  <2>3. ASSUME pc[p] \in Creating
        PROVE  LocOf(p) \in Loc /\ stat[LocOf(p)] = "creating"
    BY <1>0, <2>3, CreatingFacts DEF LifeInv
  <2>4. CASE CreatePlain(p) \/ CreateRefused(p) \/ Abort(p)
    <3>1. pc[p] \in Creating
      BY <2>4 DEF CreatePlain, CreateRefused, Abort, Creating
    <3>2. /\ stat' = stat \/ stat' = [stat EXCEPT ![LocOf(p)] = "dropping"]
          /\ disk' = disk \/ disk' = [disk EXCEPT ![LocOf(p)] = None]
      BY <2>4 DEF CreatePlain, CreateRefused, Abort, LocOf
    <3> QED BY <1>0, <2>3, <3>1, <3>2 DEF SameStore
  <2>5. ASSUME NEW k \in RelKey, CreateWrite(p, k)
        PROVE  SameStore
    <3>1. /\ pc[p] \in Creating /\ stat' = stat
          /\ disk' = [disk EXCEPT ![LocOf(p)] = k]
      BY <2>5 DEF CreateWrite, LocOf, Creating
    <3> QED BY <1>0, <2>3, <3>1 DEF SameStore
  <2>6. CASE Commit(p)
    <3>1. /\ pc[p] \in Creating /\ disk' = disk
          /\ stat' = [stat EXCEPT ![LocOf(p)] = "live"]
      BY <2>6 DEF Commit, LocOf, Creating
    <3>2. Begins(LocOf(p))
      BY <1>0, <2>3, <3>1 DEF Begins
    <3> QED BY <2>3, <3>1, <3>2
  <2> QED BY <1>2, <2>1, <2>2, <2>4, <2>5, <2>6 DEF RelationStep
<1>3. ASSUME NEW p \in Proc, ReadStep(p)
      PROVE  SameStore
  <2>1. UNCHANGED <<stat, disk>>
    BY <1>3 DEF ReadStep, GetSmgrKey, FindEntry, GetKeyUpgraded, GetKeyReturn
  <2> QED BY <1>1, <2>1
<1>4. ASSUME Restart PROVE SameStore
  BY <1>0, <1>4 DEF Restart, SameStore
<1>5. ASSUME NEW p \in Proc, KeyStep(p) \/ DefaultStep(p)
      PROVE  SameStore
  <2>1. CASE PropagateNull(p)
    BY <1>4, <2>1 DEF PropagateNull
  <2>2. CASE ~PropagateNull(p)
    BY <1>0, <1>1, <1>5, <2>2, OnlyOfKeyStep
  <2> QED BY <2>1, <2>2
<1>6. ASSUME NEW d \in Db, NEW r \in Rel, Drop(d, r)
      PROVE  \E l \in Loc : Ends(l)
  <2>1. <<d, r>> \in Loc
    BY DEF Loc
  <2>2. Ends(<<d, r>>)
    BY <1>0, <1>6, <2>1 DEF Drop, Ends
  <2> QED BY <2>1, <2>2
<1>7. ASSUME NEW d \in Db, NEW r \in Rel, Unlink(d, r)
      PROVE  SameStore
  BY <1>0, <1>7 DEF Unlink, SameStore, Loc
<1>8. ASSUME NEW o \in Oid, LoadKey(o)
      PROVE  SameStore
  BY <1>1, <1>8 DEF LoadKey
<1>9. CASE Crash
  BY <1>4, <1>9 DEF Crash
<1>10. CASE UNCHANGED vars
  BY <1>1, <1>10 DEF vars
<1> QED BY <1>2, <1>3, <1>5, <1>6, <1>7, <1>8, <1>9, <1>10 DEF Next

\* The value of the store under the refinement mapping.
Bar(l) == IF stat[l] = "live" THEN Lookup(l[1], l[2]) ELSE Gone

\* A formula that may be primed.
BarFacts ==
    \A l \in Loc : /\ Bar(l) = IF stat[l] = "live" THEN disk[l] ELSE Gone
                   /\ disk[l] \in RelKey \cup {None}

LEMMA BarIsDisk == IInv => BarFacts
<1> SUFFICES ASSUME IInv, NEW d \in Db, NEW r \in Rel
             PROVE  /\ Bar(<<d, r>>) = IF stat[<<d, r>>] = "live" THEN disk[<<d, r>>]
                                                                  ELSE Gone
                    /\ disk[<<d, r>>] \in RelKey \cup {None}
  BY DEF BarFacts, Loc
<1>1. disk[<<d, r>>] \in RelKey \cup {None}
  BY DEF IInv, TypeInv, TypeOK, Loc
<1>2. stat[<<d, r>>] = "live" => Lookup(d, r) = disk[<<d, r>>]
  BY InvImplies DEF KeysRetained, Accessible
<1> QED BY <1>1, <1>2 DEF Bar

\* The store the mapping gives, as a function.
BarStore == [l \in Loc |-> IF stat[l] = "live" THEN Lookup(l[1], l[2]) ELSE Gone]

LEMMA StoreStep ==
    ASSUME IInv, BarFacts, BarFacts', [Next]_vars
    PROVE  [Store!StoreNext]_BarStore
<1> DEFINE s == BarStore
           t == BarStore'
<1>1. /\ s = [l \in Loc |-> Bar(l)] /\ DOMAIN s = Loc
      /\ \A l \in Loc : s[l] = (IF stat[l] = "live" THEN disk[l] ELSE Gone)
                        /\ disk[l] \in RelKey \cup {None}
  BY DEF BarStore, Bar, BarFacts
<1>2. /\ t = [l \in Loc |-> t[l]] /\ DOMAIN t = Loc
      /\ \A l \in Loc : t[l] = (IF stat'[l] = "live" THEN disk'[l] ELSE Gone)
                        /\ disk'[l] \in RelKey \cup {None}
  BY DEF BarStore, Bar, BarFacts
<1>3. Gone \notin RelKey \cup {None}
  BY KeyMapAssumption
<1>4. CASE SameStore
  <2>1. \A l \in Loc : t[l] = s[l]
    BY <1>1, <1>2, <1>4 DEF SameStore
  <2>2. t = s
    BY <1>1, <1>2, <2>1
  <2> QED BY <2>2
<1>5. ASSUME NEW l \in Loc, Begins(l)
      PROVE  Store!StoreNext
  <2>0. PICK k : k = disk'[l]
    OBVIOUS
  <2>1. s[l] = Gone /\ t[l] = k /\ k \in RelKey \cup {None}
    BY <1>1, <1>2, <1>5, <2>0 DEF Begins
  <2>2. \A m \in Loc : m # l => t[m] = s[m]
    BY <1>1, <1>2, <1>5 DEF Begins
  <2>3. t = [s EXCEPT ![l] = k]
    BY <1>1, <1>2, <2>1, <2>2
  <2>4. Store!Bind(l, k)
    BY <2>1, <2>3 DEF Store!Bind, BarStore
  <2> QED BY <2>1, <2>4 DEF Store!StoreNext
<1>6. ASSUME NEW l \in Loc, Ends(l)
      PROVE  Store!StoreNext
  <2>1. s[l] # Gone /\ t[l] = Gone
    BY <1>1, <1>2, <1>3, <1>6 DEF Ends
  <2>2. \A m \in Loc : m # l => t[m] = s[m]
    BY <1>1, <1>2, <1>6 DEF Ends
  <2>3. t = [s EXCEPT ![l] = Gone]
    BY <1>1, <1>2, <2>1, <2>2
  <2>4. Store!Unbind(l)
    BY <2>1, <2>3 DEF Store!Unbind, BarStore
  <2> QED BY <2>4 DEF Store!StoreNext
<1> QED BY <1>4, <1>5, <1>6, StoreSteps

\* The key map implements the store the storage manager relies on: a relation is
\* bound to one key (or to none) from its creation to its drop, that key can be
\* read back from the file in every state in between, and whatever backends do
\* with principal keys, and every crash, changes nothing of it.
THEOREM KeyMapImplementsStore == Spec => ImplementsStore
<1>1. Init => Store!StoreInit
  BY DEF Init, Store!StoreInit
<1>2. IInv /\ BarFacts /\ BarFacts' /\ [Next]_vars => [Store!StoreNext]_BarStore
  BY StoreStep
<1> QED
  BY <1>1, <1>2, Invariance, BarIsDisk, PTL DEF Spec, ImplementsStore, Store!StoreSpec, BarStore

=============================================================================
