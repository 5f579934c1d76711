--------------------------- MODULE StartupProofs ---------------------------
(***************************************************************************)
(* Proofs about Startup, for any number of databases, any key directories  *)
(* and any number of faults.                                               *)
(*                                                                         *)
(* The argument: a start that has come past a file leaves it in the        *)
(* current format, so when none is left all files are current, and stay    *)
(* so.  Only then, or beside a directory that was just made, is a version  *)
(* file written that says so.  What the tool copies has a version file     *)
(* that is true of the files it was copied with, and of any part of them.  *)
(*                                                                         *)
(* That no key is lost rests on a correspondence of entries: the file      *)
(* being written gives the keys of what was read of the old one, which     *)
(* gives those the file has held.  Following one by the other is such a    *)
(* correspondence again, so nothing is to be known of what was dropped.    *)
(* The oldest entries do not name their cipher: they have the one they are *)
(* read with, and all entries written since do name theirs.                *)
(***************************************************************************)
EXTENDS Startup, TLAPS

-----------------------------------------------------------------------------
(* The inductive invariant.                                                *)

IsFile(c) == c = [ver |-> c.ver, entries |-> c.entries]

\* The files of a directory and those being written are files.
Shape ==
    /\ dir = [f \in File |-> dir[f]] /\ \A f \in File : IsFile(dir[f])
    /\ tmp = [f \in File |-> tmp[f]] /\ \A f \in File : IsFile(tmp[f])
    /\ at \in [file : File, read : Int]
    /\ hasDir \in BOOLEAN

Good(c, f) == c.ver \in {-1, 0, VersionOf(f)}

AllGood == \A f \in File : Good(dir[f], f)

\* There are no files without a directory, and no start gets on without one.
InDir ==
    /\ hasDir = FALSE => dir = Nothing
    /\ phase \notin {"tool", "copy", "down"} => hasDir = TRUE

\* The tool copies a directory with a true version file.
CopyTrue ==
    phase \in {"tool", "copy"} =>
        /\ unsynced = {}
        /\ \A f \in File : IsFile(old.files[f]) /\ dir[f] \in {Absent, old.files[f]}
        /\ old.version = "current" => \A f \in File : Good(old.files[f], f)

\* Files that are done are in the current format.
Done ==
    /\ phase = "scan" => \A f \in File \ left : Good(dir[f], f)
    /\ phase = "entries" =>
           /\ tmp[at.file].ver = VersionOf(at.file)
           /\ at.file # Wal => \A f \in File \ left : Good(dir[f], f)
    /\ phase \in {"first version", "first write", "last version", "last write",
                  "init write", "up"} => AllGood

IInv == Shape /\ InDir /\ CopyTrue /\ Done /\ VersionFileTrue /\ NeverWrongVersion

-----------------------------------------------------------------------------
(* Steps.                                                                  *)

LEMMA Wals == Wal \in File /\ \A f \in Dbs : f \in File /\ f # Wal
BY StartupAssumption DEF File

LEMMA Whole ==
    ASSUME Shape', InDir', CopyTrue', Done', VersionFileTrue', NeverWrongVersion'
    PROVE  IInv'
BY DEF IInv

\* A step that leaves the files alone.
LEMMA SameFiles ==
    ASSUME IInv, UNCHANGED <<dir, tmp, at, hasDir, old>>, NeverWrongVersion',
           phase' \in {"tool", "copy"} => phase \in {"tool", "copy"} /\ unsynced' = {},
           phase' \notin {"tool", "copy", "down"} => hasDir = TRUE,
           Done', VersionFileTrue'
    PROVE  IInv'
<1>1. Shape'
  BY DEF IInv, Shape, IsFile
<1>2. InDir'
  BY DEF IInv, InDir, Nothing, Absent
<1>3. CopyTrue'
  BY DEF IInv, CopyTrue, IsFile, Good, VersionOf, Absent
<1> QED BY <1>1, <1>2, <1>3, Whole

LEMMA RemoveDirStep == ASSUME IInv, RemoveDir PROVE IInv'
<1>1. /\ phase = "tool" /\ hasDir' = FALSE /\ dir' = Nothing /\ version' = "absent"
      /\ phase' = "copy" /\ UNCHANGED <<tmp, unsynced, at, old>>
  BY DEF RemoveDir
<1>2. Nothing = [f \in File |-> Absent] /\ IsFile(Absent)
  BY DEF Nothing, IsFile, Absent
<1>3. Shape'
  BY <1>1, <1>2 DEF IInv, Shape, IsFile
<1>4. InDir' /\ Done' /\ VersionFileTrue' /\ NeverWrongVersion'
  BY <1>1 DEF InDir, Done, VersionFileTrue, NeverWrongVersion, Nothing, Absent
<1>5. CopyTrue'
  BY <1>1, <1>2 DEF IInv, CopyTrue, IsFile, Good, VersionOf, Absent
<1> QED BY <1>3, <1>4, <1>5, Whole

LEMMA MakeDirStep == ASSUME IInv, MakeDir PROVE IInv'
<1>1. /\ phase = "copy" /\ hasDir' = TRUE
      /\ UNCHANGED <<phase, dir, tmp, version, unsynced, left, at, old>>
  BY DEF MakeDir
<1>2. Shape' /\ InDir'
  BY <1>1 DEF IInv, Shape, IsFile, InDir
<1>3. CopyTrue'
  BY <1>1 DEF IInv, CopyTrue, IsFile, Good, VersionOf, Absent
<1>4. Done' /\ VersionFileTrue' /\ NeverWrongVersion'
  BY <1>1 DEF Done, VersionFileTrue, NeverWrongVersion
<1> QED BY <1>2, <1>3, <1>4, Whole

LEMMA CopyVersionStep == ASSUME IInv, CopyVersion PROVE IInv'
<1>1. phase = "copy" /\ UNCHANGED <<phase, hasDir, dir, tmp, unsynced, left, at, old>>
  BY DEF CopyVersion
<1>2. Done' /\ VersionFileTrue' /\ NeverWrongVersion'
  BY <1>1 DEF Done, VersionFileTrue, NeverWrongVersion
<1>3. unsynced' = {}
  BY <1>1 DEF IInv, CopyTrue
<1> QED BY <1>1, <1>2, <1>3, SameFiles

LEMMA CopyFileStep ==
    ASSUME IInv, NEW f \in File, NEW ok \in CopyResults, CopyFile(f, ok) PROVE IInv'
<1>1. /\ phase = "copy" /\ hasDir
      /\ UNCHANGED <<phase, hasDir, tmp, version, unsynced, at, old>>
      /\ dir' = dir \/ dir' = [dir EXCEPT ![f] = old.files[f]]
  BY DEF CopyFile
<1>2. hasDir = TRUE
  <2>1. hasDir \in BOOLEAN /\ hasDir
    BY <1>1 DEF IInv, Shape
  <2> QED BY <2>1, Zenon
<1>3. /\ dir = [g \in File |-> dir[g]]
      /\ \A g \in File : IsFile(dir[g]) /\ IsFile(old.files[g]) /\ dir[g] \in {Absent, old.files[g]}
  BY <1>1 DEF IInv, Shape, CopyTrue
<1>4. /\ dir' = [g \in File |-> dir'[g]]
      /\ \A g \in File : dir'[g] = dir[g] \/ dir'[g] = old.files[g]
  BY <1>1, <1>3
<1>5. \A g \in File : IsFile(dir'[g]) /\ dir'[g] \in {Absent, old.files[g]}
  BY <1>3, <1>4
<1>6. Shape'
  BY <1>1, <1>4, <1>5 DEF IInv, Shape, IsFile
<1>7. InDir'
  BY <1>1, <1>2 DEF InDir
<1>8. CopyTrue'
  BY <1>1, <1>3, <1>5 DEF IInv, CopyTrue, IsFile, Good, VersionOf, Absent
<1>9. Done' /\ VersionFileTrue' /\ NeverWrongVersion'
  BY <1>1 DEF Done, VersionFileTrue, NeverWrongVersion
<1> QED BY <1>6, <1>7, <1>8, <1>9, Whole

\* What was copied is true of any part of the directory.
LEMMA CopiedStep == ASSUME IInv, Copied PROVE IInv'
<1>1. /\ phase = "copy" /\ phase' = "down" /\ version = old.version
      /\ UNCHANGED <<hasDir, dir, tmp, version, unsynced, at, old>>
  BY DEF Copied
<1>2. /\ unsynced = {} /\ \A f \in File : dir[f] \in {Absent, old.files[f]}
      /\ old.version = "current" => \A f \in File : Good(old.files[f], f)
  BY <1>1 DEF IInv, CopyTrue
<1>3. version = "current" => \A f \in File : dir[f].ver \in {-1, 0, VersionOf(f)}
  BY <1>1, <1>2 DEF Good, Absent
<1>4. VersionFileTrue'
  BY <1>1, <1>2, <1>3 DEF VersionFileTrue, VersionOf
<1>5. Done' /\ NeverWrongVersion'
  BY <1>1 DEF Done, NeverWrongVersion
<1> QED BY <1>1, <1>4, <1>5, SameFiles

\* A directory that was just made has no files, which are all current.
LEMMA InitDataDirStep == ASSUME IInv, InitDataDir PROVE IInv'
<1>1. /\ phase = "down" /\ hasDir' = TRUE
      /\ phase' = IF hasDir THEN "check" ELSE "first version"
      /\ UNCHANGED <<dir, tmp, version, unsynced, left, at, old>>
  BY DEF InitDataDir
<1>2. Shape'
  BY <1>1 DEF IInv, Shape, IsFile
<1>3. InDir'
  BY <1>1 DEF InDir
<1>4. phase' = "check" \/ (hasDir = FALSE /\ phase' = "first version")
  <2>1. hasDir = TRUE \/ hasDir = FALSE
    BY DEF IInv, Shape
  <2>2. CASE hasDir = TRUE
    BY <1>1, <2>2, Zenon
  <2>3. CASE hasDir = FALSE
    BY <1>1, <2>3, Zenon
  <2> QED BY <2>1, <2>2, <2>3
<1>5. CopyTrue' /\ NeverWrongVersion'
  BY <1>4 DEF CopyTrue, NeverWrongVersion
<1>6. VersionFileTrue'
  BY <1>1 DEF IInv, VersionFileTrue, VersionOf
<1>7. Done'
  <2>1. CASE phase' = "check"
    BY <2>1 DEF Done
  <2>2. CASE hasDir = FALSE /\ phase' = "first version"
    <3>1. dir = Nothing
      BY <2>2 DEF IInv, InDir
    <3>2. AllGood'
      BY <1>1, <3>1 DEF AllGood, Good, Nothing, Absent
    <3> QED BY <2>2, <3>2 DEF Done
  <2> QED BY <1>4, <2>1, <2>2
<1> QED BY <1>2, <1>3, <1>5, <1>6, <1>7, Whole

LEMMA CheckVersionStep == ASSUME IInv, CheckVersion PROVE IInv'
<1>1. /\ phase = "check"
      /\ UNCHANGED <<hasDir, dir, tmp, version, unsynced, left, at, old>>
  BY DEF CheckVersion
<1>2. \/ phase' \in {"corrupted", "migrate wal"}
      \/ version = "current" /\ phase' = "init write"
  BY DEF CheckVersion
<1>3. VersionFileTrue' /\ NeverWrongVersion'
  BY <1>1, <1>2 DEF IInv, VersionFileTrue, NeverWrongVersion, VersionOf
<1>4. Done'
  <2>1. CASE phase' \in {"corrupted", "migrate wal"}
    BY <2>1 DEF Done
  <2>2. CASE version = "current" /\ phase' = "init write"
    <3>1. AllGood'
      BY <1>1, <2>2 DEF IInv, VersionFileTrue, AllGood, Good, VersionOf
    <3> QED BY <2>2, <3>1 DEF Done
  <2> QED BY <1>2, <2>1, <2>2
<1>5. hasDir = TRUE
  BY <1>1 DEF IInv, InDir
<1> QED BY <1>1, <1>2, <1>3, <1>4, <1>5, SameFiles

LEMMA RemoveVersionStep == ASSUME IInv, RemoveVersion PROVE IInv'
<1>1. /\ phase' = "down" /\ version' = "absent" /\ unsynced' = {}
      /\ UNCHANGED <<hasDir, dir, tmp, at, old>>
  BY DEF RemoveVersion
<1>2. VersionFileTrue' /\ NeverWrongVersion' /\ Done'
  BY <1>1 DEF VersionFileTrue, NeverWrongVersion, Done
<1> QED BY <1>1, <1>2, SameFiles

\* A start that stops.
LEMMA FailsStep == ASSUME IInv, Fails, phase \notin {"tool", "copy"} PROVE IInv'
<1>1. phase' = "down" /\ UNCHANGED <<hasDir, dir, tmp, version, unsynced, left, at, old>>
  BY DEF Fails
<1>2. VersionFileTrue' /\ NeverWrongVersion' /\ Done'
  BY <1>1 DEF IInv, VersionFileTrue, NeverWrongVersion, Done, VersionOf
<1> QED BY <1>1, <1>2, SameFiles

\* The files that are done once f is.
LEMMA DoneAfter ==
    ASSUME Shape, NEW f \in File, f # Wal => \A g \in File \ left : Good(dir[g], g)
    PROVE  \A g \in File \ LeftAfter(f) : g = f \/ Good(dir[g], g)
<1>1. CASE f = Wal
  BY <1>1 DEF LeftAfter, File, Good, Absent
<1>2. CASE f # Wal
  BY <1>2 DEF LeftAfter
<1> QED BY <1>1, <1>2

LEMMA MigrateStep == ASSUME IInv, NEW f \in File, Migrate(f) PROVE IInv'
<1>1. /\ phase \notin {"tool", "copy"} /\ hasDir = TRUE /\ Shape
      /\ f # Wal => \A g \in File \ left : Good(dir[g], g)
  <2>1. CASE phase = "migrate wal" /\ f = Wal
    BY <2>1 DEF IInv, InDir
  <2>2. CASE phase = "scan" /\ f \in left
    BY <2>2 DEF IInv, InDir, Done
  <2> QED BY <2>1, <2>2 DEF Migrate
<1>2. PICK v \in TakenFor(f) : Skip(f, v) \/ Begin(f, v) \/ NoPrincipalKey(f, v) \/ Unsupported(f, v)
  BY DEF Migrate
<1>3. CASE Skip(f, v)
  <2>1. /\ phase' = "scan" /\ left' = LeftAfter(f)
        /\ v = VersionOf(f) \/ v = -1 \/ (v = 0 /\ f # Wal)
        /\ UNCHANGED <<hasDir, dir, tmp, version, unsynced, at, old>>
    BY <1>3 DEF Skip
  <2>2. Good(dir[f], f)
    BY <1>2, <2>1 DEF TakenFor, Good
  <2>3. \A g \in File \ left' : Good(dir[g], g)
    BY <1>1, <2>1, <2>2, DoneAfter
  <2>4. Done'
    BY <2>1, <2>3 DEF Done, Good, VersionOf
  <2>5. VersionFileTrue' /\ NeverWrongVersion'
    BY <1>1, <2>1 DEF IInv, VersionFileTrue, NeverWrongVersion, VersionOf
  <2> QED BY <1>1, <2>1, <2>4, <2>5, SameFiles
<1>4. CASE Begin(f, v)
  <2>1. /\ phase' = "entries" /\ at' = [file |-> f, read |-> 0]
        /\ tmp' = [tmp EXCEPT ![f] = [ver |-> VersionOf(f), entries |-> <<>>]]
        /\ UNCHANGED <<hasDir, dir, version, unsynced, left, old>>
    BY <1>4 DEF Begin
  <2>2. PICK c : c = [ver |-> VersionOf(f), entries |-> <<>>]
    OBVIOUS
  <2>3. IsFile(c) /\ c.ver = VersionOf(f)
    BY <2>2 DEF IsFile
  <2>4. /\ tmp' = [g \in File |-> tmp'[g]] /\ tmp'[f] = c
        /\ \A g \in File : g # f => tmp'[g] = tmp[g]
    BY <1>1, <2>1, <2>2 DEF Shape
  <2>5. \A g \in File : IsFile(tmp'[g])
    BY <1>1, <2>3, <2>4 DEF Shape
  <2>6. at' \in [file : File, read : Int] /\ at'.file = f
    BY <2>1
  <2>7. Shape'
    BY <1>1, <2>1, <2>4, <2>5, <2>6 DEF Shape, IsFile
  <2>8. InDir' /\ CopyTrue' /\ NeverWrongVersion'
    BY <1>1, <2>1 DEF InDir, CopyTrue, NeverWrongVersion
  <2>9. VersionFileTrue'
    BY <1>1, <2>1 DEF IInv, VersionFileTrue, VersionOf
  <2>10. Done'
    BY <1>1, <2>1, <2>3, <2>4, <2>6 DEF Done, Good, VersionOf
  <2> QED BY <2>7, <2>8, <2>9, <2>10, Whole
<1>5. CASE NoPrincipalKey(f, v)
  BY <1>1, <1>5, FailsStep DEF NoPrincipalKey
<1>6. CASE Unsupported(f, v)
  BY <1>1, <1>6, FailsStep DEF Unsupported
<1> QED BY <1>2, <1>3, <1>4, <1>5, <1>6

LEMMA MigrateEntryStep == ASSUME IInv, MigrateEntry PROVE IInv'
<1>1. phase = "entries" /\ Shape /\ at.file \in File /\ at \in [file : File, read : Int]
  BY DEF IInv, Shape, MigrateEntry
<1>2. PICK f \in File : f = at.file
  BY <1>1
<1>3. PICK e : e = dir[f].entries[at.read + 1]
  OBVIOUS
<1>4. CASE e.state = "torn" /\ ~TornIsEnd(f)
  <2>1. Fails
    BY <1>2, <1>3, <1>4 DEF MigrateEntry
  <2> QED BY <1>1, <2>1, FailsStep
<1>5. CASE ~(e.state = "torn" /\ ~TornIsEnd(f))
  <2>1. /\ tmp' = tmp \/ tmp' = [tmp EXCEPT ![f].entries = @ \o Converted(f, e)]
        /\ at' = [at EXCEPT !.read = @ + 1]
        /\ UNCHANGED <<phase, hasDir, dir, version, unsynced, left, old>>
    BY <1>2, <1>3, <1>5 DEF MigrateEntry
  <2>2. /\ tmp = [g \in File |-> tmp[g]]
        /\ \A g \in File : tmp[g] = [ver |-> tmp[g].ver, entries |-> tmp[g].entries]
    BY <1>1 DEF Shape, IsFile
  <2>3. PICK s : s = tmp[f].entries \o Converted(f, e)
    OBVIOUS
  <2>4. /\ tmp' = [g \in File |-> tmp'[g]]
        /\ \A g \in File : g # f => tmp'[g] = tmp[g]
        /\ tmp'[f] = tmp[f] \/ tmp'[f] = [tmp[f] EXCEPT !.entries = s]
    BY <2>1, <2>2, <2>3
  <2>5. tmp'[f] = tmp[f] \/ tmp'[f] = [ver |-> tmp[f].ver, entries |-> s]
    BY <2>2, <2>4
  <2>6. \A g \in File : IsFile(tmp'[g]) /\ tmp'[g].ver = tmp[g].ver
    BY <2>2, <2>4, <2>5 DEF IsFile
  <2>7. at' \in [file : File, read : Int] /\ at'.file = f
    BY <1>1, <1>2, <2>1
  <2>8. Shape'
    BY <1>1, <2>1, <2>4, <2>6, <2>7 DEF Shape, IsFile
  <2>9. InDir' /\ NeverWrongVersion'
    BY <1>1, <2>1 DEF IInv, InDir, NeverWrongVersion, Nothing, Absent
  <2>10. CopyTrue'
    BY <1>1, <2>1 DEF CopyTrue
  <2>11. VersionFileTrue'
    BY <1>1, <2>1 DEF IInv, VersionFileTrue, VersionOf
  <2>12. Done'
    BY <1>1, <1>2, <2>1, <2>6, <2>7 DEF IInv, Done, Good, VersionOf
  <2> QED BY <2>8, <2>9, <2>10, <2>11, <2>12, Whole
<1> QED BY <1>4, <1>5

LEMMA RenameMigratedStep == ASSUME IInv, RenameMigrated PROVE IInv'
<1>1. /\ phase = "entries" /\ phase' = "scan" /\ Shape /\ hasDir = TRUE /\ hasDir' = TRUE
      /\ UNCHANGED <<version, unsynced>> /\ at' = NoFile
  BY DEF IInv, InDir, RenameMigrated
<1>2. PICK f \in File : f = at.file
  BY <1>1 DEF Shape
<1>3. /\ dir' = [dir EXCEPT ![f] = tmp[f]] /\ tmp' = [tmp EXCEPT ![f] = Absent]
      /\ left' = LeftAfter(f)
  BY <1>2 DEF RenameMigrated
<1>4. /\ tmp[f].ver = VersionOf(f)
      /\ f # Wal => \A g \in File \ left : Good(dir[g], g)
  BY <1>1, <1>2 DEF IInv, Done
<1>5. /\ dir' = [g \in File |-> dir'[g]] /\ tmp' = [g \in File |-> tmp'[g]]
      /\ \A g \in File : g # f => dir'[g] = dir[g] /\ tmp'[g] = tmp[g]
      /\ dir'[f] = tmp[f] /\ tmp'[f] = Absent
  BY <1>1, <1>3 DEF Shape
<1>6. IsFile(Absent) /\ NoFile \in [file : File, read : Int]
  BY Wals DEF IsFile, Absent, NoFile
<1>7. \A g \in File : IsFile(dir'[g]) /\ IsFile(tmp'[g])
  BY <1>1, <1>5, <1>6 DEF Shape
<1>8. Shape'
  BY <1>1, <1>5, <1>6, <1>7 DEF Shape, IsFile, NoFile
<1>9. Good(dir'[f], f)
  BY <1>4, <1>5 DEF Good
<1>10. \A g \in File \ left' : Good(dir'[g], g)
  BY <1>1, <1>3, <1>4, <1>5, <1>9, DoneAfter
<1>11. Done'
  BY <1>1, <1>10 DEF Done, Good, VersionOf
<1>12. VersionFileTrue'
  <2> SUFFICES ASSUME "current" \in {version} \cup unsynced, NEW g \in File
               PROVE  dir'[g].ver \in {-1, 0, VersionOf(g)}
    BY <1>1 DEF VersionFileTrue, VersionOf
  <2>1. CASE g = f
    BY <1>9, <2>1 DEF Good
  <2>2. CASE g # f
    BY <1>1, <1>5, <2>2 DEF IInv, VersionFileTrue
  <2> QED BY <2>1, <2>2
<1>13. InDir' /\ CopyTrue' /\ NeverWrongVersion'
  BY <1>1 DEF InDir, CopyTrue, NeverWrongVersion
<1> QED BY <1>8, <1>11, <1>12, <1>13, Whole

LEMMA AllMigratedStep == ASSUME IInv, AllMigrated PROVE IInv'
<1>1. /\ phase = "scan" /\ phase' = "last version" /\ left = {}
      /\ UNCHANGED <<hasDir, dir, tmp, version, unsynced, left, at, old>>
  BY DEF AllMigrated
<1>2. AllGood'
  BY <1>1 DEF IInv, Done, AllGood, Good, VersionOf
<1>3. Done' /\ NeverWrongVersion'
  BY <1>1, <1>2 DEF Done, NeverWrongVersion
<1>4. VersionFileTrue' /\ hasDir = TRUE
  BY <1>1 DEF IInv, VersionFileTrue, VersionOf, InDir
<1> QED BY <1>1, <1>3, <1>4, SameFiles

LEMMA TruncateVersionStep == ASSUME IInv, TruncateVersion PROVE IInv'
<1>1. /\ \/ phase = "first version" /\ phase' = "first write"
         \/ phase = "last version" /\ phase' = "last write"
      /\ version' = "empty" /\ unsynced' = unsynced \cup {version}
      /\ UNCHANGED <<hasDir, dir, tmp, left, at, old>>
  BY DEF TruncateVersion
<1>2. AllGood /\ hasDir = TRUE
  BY <1>1 DEF IInv, Done, InDir
<1>3. AllGood'
  BY <1>1, <1>2 DEF AllGood, Good, VersionOf
<1>4. Done' /\ NeverWrongVersion'
  BY <1>1, <1>3 DEF Done, NeverWrongVersion
<1>5. VersionFileTrue'
  BY <1>3 DEF VersionFileTrue, AllGood, Good
<1> QED BY <1>1, <1>2, <1>4, <1>5, SameFiles

\* The version file is written when all files are current.
LEMMA WriteVersionStep == ASSUME IInv, NEW ok \in BOOLEAN, WriteVersion(ok) PROVE IInv'
<1>1. /\ \/ phase = "first write" /\ phase' = "check"
         \/ phase = "last write" /\ phase' = "init write"
      /\ UNCHANGED <<hasDir, dir, tmp, left, at, old>>
  BY DEF WriteVersion
<1>2. AllGood /\ hasDir = TRUE
  BY <1>1 DEF IInv, Done, InDir
<1>3. AllGood'
  BY <1>1, <1>2 DEF AllGood, Good, VersionOf
<1>4. Done' /\ NeverWrongVersion'
  BY <1>1, <1>3 DEF Done, NeverWrongVersion
<1>5. VersionFileTrue'
  BY <1>3 DEF VersionFileTrue, AllGood, Good
<1> QED BY <1>1, <1>2, <1>4, <1>5, SameFiles

LEMMA InitWriteStep == ASSUME IInv, InitWrite PROVE IInv'
<1>1. /\ phase = "init write" /\ AllGood /\ hasDir = TRUE
      /\ UNCHANGED <<hasDir, dir, tmp, version, unsynced, left, at, old>>
  BY DEF IInv, Done, InDir, InitWrite
<1>2. dir[Wal].ver \in {-1, 0, WalCurrent}
  BY <1>1, Wals DEF AllGood, Good, VersionOf
<1>3. phase' = "up"
  BY <1>2 DEF InitWrite
<1>4. AllGood'
  BY <1>1 DEF AllGood, Good, VersionOf
<1>5. Done' /\ NeverWrongVersion'
  BY <1>3, <1>4 DEF Done, NeverWrongVersion
<1>6. VersionFileTrue'
  BY <1>4 DEF VersionFileTrue, AllGood, Good
<1> QED BY <1>1, <1>3, <1>5, <1>6, SameFiles

\* A file of a server at work is changed, and keeps its version or gets it.
LEMMA ChangeFile ==
    ASSUME IInv, NEW f \in File, NEW c, IsFile(c), Good(c, f), dir' = [dir EXCEPT ![f] = c],
           phase = "up", phase' \in {"up", "down"}, at' \in [file : File, read : Int],
           UNCHANGED <<hasDir, tmp, old>>
    PROVE  IInv'
<1>1. AllGood /\ hasDir = TRUE /\ Shape
  BY DEF IInv, Done, InDir
<1>2. /\ dir' = [g \in File |-> dir'[g]] /\ dir'[f] = c
      /\ \A g \in File : g # f => dir'[g] = dir[g]
  BY <1>1 DEF Shape
<1>3. \A g \in File : IsFile(dir'[g]) /\ Good(dir'[g], g)
  BY <1>1, <1>2 DEF Shape, AllGood
<1>4. AllGood'
  BY <1>3 DEF AllGood, Good, VersionOf
<1>5. Shape'
  BY <1>1, <1>2, <1>3 DEF Shape, IsFile
<1>6. InDir' /\ CopyTrue' /\ NeverWrongVersion'
  BY <1>1 DEF InDir, CopyTrue, NeverWrongVersion
<1>7. Done'
  BY <1>4 DEF Done
<1>8. VersionFileTrue'
  BY <1>4 DEF VersionFileTrue, AllGood, Good
<1> QED BY <1>5, <1>6, <1>7, <1>8, Whole

LEMMA AddKeyStep == ASSUME IInv, NEW f \in File, AddKey(f) PROVE IInv'
<1>1. /\ phase = "up" /\ AllGood /\ at \in [file : File, read : Int]
      /\ UNCHANGED <<hasDir, tmp, at, old>>
  BY DEF IInv, Done, Shape, AddKey
<1>2. PICK c : c = [ver |-> VersionOf(f), entries |-> Append(Entries(f), NewEntry)]
  OBVIOUS
<1>3. dir' = [dir EXCEPT ![f] = c] /\ phase' = phase
  BY <1>1, <1>2 DEF AddKey, AllGood, Good
<1>4. IsFile(c) /\ Good(c, f)
  BY <1>2 DEF IsFile, Good
<1> QED BY <1>1, <1>3, <1>4, ChangeFile

LEMMA SyncVersionStep == ASSUME IInv, SyncVersion PROVE IInv'
<1>1. unsynced' = {} /\ UNCHANGED <<phase, hasDir, dir, tmp, version, left, at, old>>
  BY DEF SyncVersion
<1>2. Done'
  BY <1>1 DEF IInv, Done, AllGood, Good, VersionOf
<1>3. VersionFileTrue' /\ NeverWrongVersion'
  BY <1>1 DEF IInv, VersionFileTrue, VersionOf, NeverWrongVersion
<1>4. phase \notin {"tool", "copy", "down"} => hasDir = TRUE
  BY DEF IInv, InDir
<1> QED BY <1>1, <1>2, <1>3, <1>4, SameFiles

\* A crash may undo the last writes of the version file, and cut an entry short.
LEMMA CrashStep == ASSUME IInv, Crash PROVE IInv'
<1>1. /\ phase' = IF phase \in {"tool", "copy"} THEN "tool" ELSE "down"
      /\ version' \in {version} \cup unsynced /\ unsynced' = {}
      /\ at' = NoFile /\ UNCHANGED <<hasDir, tmp, old>>
  BY DEF Crash
<1>2. NoFile \in [file : File, read : Int]
  BY Wals DEF NoFile
<1>3. CASE dir' = dir
  <2>1. Shape'
    BY <1>1, <1>2, <1>3 DEF IInv, Shape, IsFile, NoFile
  <2>2. InDir' /\ NeverWrongVersion' /\ Done'
    BY <1>1, <1>3 DEF IInv, InDir, NeverWrongVersion, Done, Nothing, Absent
  <2>3. CopyTrue'
    BY <1>1, <1>3 DEF IInv, CopyTrue, IsFile, Good, VersionOf, Absent
  <2>4. VersionFileTrue'
    BY <1>1, <1>3 DEF IInv, VersionFileTrue, VersionOf
  <2> QED BY <2>1, <2>2, <2>3, <2>4, Whole
<1>4. CASE dir' # dir
  <2>1. PICK f \in File :
            /\ phase = "up" /\ dir[f].ver = VersionOf(f)
            /\ dir' = [dir EXCEPT ![f].entries =
                          Append(Entries(f), [NewEntry EXCEPT !.state = "torn"])]
    BY <1>4 DEF Crash
  <2>2. PICK s : s = Append(Entries(f), [NewEntry EXCEPT !.state = "torn"])
    OBVIOUS
  <2>3. PICK c : c = [ver |-> dir[f].ver, entries |-> s]
    OBVIOUS
  <2>4. dir[f] = [ver |-> dir[f].ver, entries |-> dir[f].entries]
    BY DEF IInv, Shape, IsFile
  <2>5. [dir[f] EXCEPT !.entries = s] = c
    BY <2>3, <2>4
  <2>6. dir' = [dir EXCEPT ![f] = c]
    BY <2>1, <2>2, <2>5
  <2>7. IsFile(c) /\ Good(c, f)
    BY <2>1, <2>3 DEF IsFile, Good
  <2> QED BY <1>1, <1>2, <2>1, <2>6, <2>7, ChangeFile
<1> QED BY <1>3, <1>4

LEMMA StopStep == ASSUME IInv, Stop PROVE IInv'
BY FailsStep DEF Stop, Fails

-----------------------------------------------------------------------------
(* Keys and entries.                                                       *)

\* What KeysOf says of s depends on its keys and their places only, and so of t.
LEMMA KeysOfSame ==
    ASSUME NEW s, NEW t, NEW n, KeysOf(s, t, n), NEW s2, NEW t2, NEW n2,
           KeysAt(s2, Len(s2)) = KeysAt(s, Len(s)), KeysAt(t2, n2) = KeysAt(t, n),
           \A i \in KeysAt(s, Len(s)) : s2[i] = s[i],
           \A k \in KeysAt(t, n) : t2[k] = t[k]
    PROVE  KeysOf(s2, t2, n2)
<1>1. PICK m \in [KeysAt(s, Len(s)) -> KeysAt(t, n)] :
          /\ \A i \in DOMAIN m : KeyIn(s[i]) = KeyIn(t[m[i]])
          /\ \A i, j \in DOMAIN m : i < j => m[i] < m[j]
          /\ \A k \in KeysAt(t, n) : \E i \in DOMAIN m : m[i] = k
  BY DEF KeysOf
<1>2. m \in [KeysAt(s2, Len(s2)) -> KeysAt(t2, n2)]
  BY <1>1
<1>3. \A i \in DOMAIN m : i \in KeysAt(s, Len(s)) /\ m[i] \in KeysAt(t, n)
  BY <1>1
<1>4. \A i \in DOMAIN m : KeyIn(s2[i]) = KeyIn(t2[m[i]])
  BY <1>1, <1>3
<1>5. \A k \in KeysAt(t2, n2) : \E i \in DOMAIN m : m[i] = k
  BY <1>1
<1> QED BY <1>1, <1>2, <1>4, <1>5 DEF KeysOf

LEMMA KeysOfItself == ASSUME NEW s PROVE SameKeys(s, s)
<1> DEFINE m == [i \in KeysAt(s, Len(s)) |-> i]
<1>1. /\ m \in [KeysAt(s, Len(s)) -> KeysAt(s, Len(s))]
      /\ DOMAIN m = KeysAt(s, Len(s)) /\ \A i \in DOMAIN m : m[i] = i
  OBVIOUS
<1> HIDE DEF m
<1>2. \A i \in DOMAIN m : KeyIn(s[i]) = KeyIn(s[m[i]])
  BY <1>1
<1>3. \A i, j \in DOMAIN m : i < j => m[i] < m[j]
  BY <1>1
<1>4. \A k \in KeysAt(s, Len(s)) : \E i \in DOMAIN m : m[i] = k
  BY <1>1
<1> QED BY <1>1, <1>2, <1>3, <1>4 DEF SameKeys, KeysOf

LEMMA KeysOfKeys ==
    ASSUME NEW s, NEW t, NEW u, NEW n, SameKeys(s, t), KeysOf(t, u, n)
    PROVE  KeysOf(s, u, n)
<1>1. PICK a \in [KeysAt(s, Len(s)) -> KeysAt(t, Len(t))] :
          /\ \A i \in DOMAIN a : KeyIn(s[i]) = KeyIn(t[a[i]])
          /\ \A i, j \in DOMAIN a : i < j => a[i] < a[j]
          /\ \A k \in KeysAt(t, Len(t)) : \E i \in DOMAIN a : a[i] = k
  BY DEF SameKeys, KeysOf
<1>2. PICK b \in [KeysAt(t, Len(t)) -> KeysAt(u, n)] :
          /\ \A i \in DOMAIN b : KeyIn(t[i]) = KeyIn(u[b[i]])
          /\ \A i, j \in DOMAIN b : i < j => b[i] < b[j]
          /\ \A k \in KeysAt(u, n) : \E i \in DOMAIN b : b[i] = k
  BY DEF KeysOf
<1> DEFINE m == [i \in KeysAt(s, Len(s)) |-> b[a[i]]]
<1>3. \A i \in DOMAIN a : a[i] \in DOMAIN b
  BY <1>1, <1>2
<1>4. /\ m \in [KeysAt(s, Len(s)) -> KeysAt(u, n)]
      /\ DOMAIN m = DOMAIN a /\ \A i \in DOMAIN m : m[i] = b[a[i]]
  BY <1>1, <1>2
<1> HIDE DEF m
<1>5. \A i \in DOMAIN m : KeyIn(s[i]) = KeyIn(u[m[i]])
  BY <1>1, <1>2, <1>3, <1>4
<1>6. \A i, j \in DOMAIN m : i < j => m[i] < m[j]
  BY <1>1, <1>2, <1>3, <1>4
<1>7. ASSUME NEW k \in KeysAt(u, n) PROVE \E i \in DOMAIN m : m[i] = k
  <2>1. PICK j \in DOMAIN b : b[j] = k
    BY <1>2
  <2>2. PICK i \in DOMAIN a : a[i] = j
    BY <1>1, <1>2, <2>1
  <2> QED BY <1>4, <2>1, <2>2
<1> QED BY <1>4, <1>5, <1>6, <1>7 DEF KeysOf

LEMMA KeysOfNothing == ASSUME NEW t PROVE KeysOf(<<>>, t, 0)
<1>1. KeysAt(<<>>, Len(<<>>)) = {} /\ KeysAt(t, 0) = {}
  BY DEF KeysAt
<1>2. PICK m : m = [i \in {} |-> 0]
  OBVIOUS
<1>3. m \in [{} -> {}] /\ DOMAIN m = {}
  BY <1>2
<1> QED BY <1>1, <1>3 DEF KeysOf

\* One more key on both sides.
LEMMA KeysOfAppend ==
    ASSUME NEW s \in Seq(Entry), NEW t, NEW n \in Nat, KeysOf(s, t, n),
           NEW s2, s2 \in Seq(Entry), Len(s2) = Len(s) + 1, \A i \in 1 .. Len(s) : s2[i] = s[i],
           NEW t2, \A k \in 1 .. n : t2[k] = t[k],
           IsKey(s2[Len(s) + 1]), IsKey(t2[n + 1]), KeyIn(s2[Len(s) + 1]) = KeyIn(t2[n + 1])
    PROVE  KeysOf(s2, t2, n + 1)
<1>1. PICK m \in [KeysAt(s, Len(s)) -> KeysAt(t, n)] :
          /\ \A i \in DOMAIN m : KeyIn(s[i]) = KeyIn(t[m[i]])
          /\ \A i, j \in DOMAIN m : i < j => m[i] < m[j]
          /\ \A k \in KeysAt(t, n) : \E i \in DOMAIN m : m[i] = k
  BY DEF KeysOf
<1>2. PICK l \in Nat : l = Len(s)
  OBVIOUS
<1>3. KeysAt(s2, Len(s2)) = KeysAt(s, l) \cup {l + 1} /\ KeysAt(s, l) \subseteq 1 .. l
  BY <1>2 DEF KeysAt
<1>4. KeysAt(t2, n + 1) = KeysAt(t, n) \cup {n + 1} /\ KeysAt(t, n) \subseteq 1 .. n
  BY DEF KeysAt
<1> DEFINE g == [i \in KeysAt(s, l) \cup {l + 1} |-> IF i = l + 1 THEN n + 1 ELSE m[i]]
<1>5. \A i \in KeysAt(s, l) : i \in 1 .. l /\ i # l + 1 /\ m[i] \in 1 .. n /\ m[i] \in KeysAt(t, n)
  BY <1>1, <1>2, <1>3, <1>4
<1>6. /\ DOMAIN g = KeysAt(s, l) \cup {l + 1} /\ g[l + 1] = n + 1
      /\ \A i \in KeysAt(s, l) : g[i] = m[i]
  BY <1>5
<1>7. g \in [KeysAt(s2, Len(s2)) -> KeysAt(t2, n + 1)]
  BY <1>3, <1>4, <1>5
<1> HIDE DEF g
<1>8. ASSUME NEW i \in DOMAIN g PROVE KeyIn(s2[i]) = KeyIn(t2[g[i]])
  <2>1. CASE i = l + 1
    BY <1>2, <1>6, <2>1
  <2>2. CASE i \in KeysAt(s, l)
    BY <1>1, <1>2, <1>5, <1>6, <2>2
  <2> QED BY <1>6, <2>1, <2>2
<1>9. ASSUME NEW i \in DOMAIN g, NEW j \in DOMAIN g, i < j PROVE g[i] < g[j]
  <2>1. CASE j = l + 1
    <3>1. i \in KeysAt(s, l)
      BY <1>6, <1>9, <2>1
    <3> QED BY <1>5, <1>6, <2>1, <3>1
  <2>2. CASE j \in KeysAt(s, l)
    <3>1. i \in KeysAt(s, l)
      BY <1>5, <1>6, <1>9, <2>2
    <3> QED BY <1>1, <1>2, <1>6, <1>9, <2>2, <3>1
  <2> QED BY <1>6, <2>1, <2>2
<1>10. ASSUME NEW k \in KeysAt(t2, n + 1) PROVE \E i \in DOMAIN g : g[i] = k
  <2>1. CASE k = n + 1
    BY <1>6, <2>1
  <2>2. CASE k \in KeysAt(t, n)
    BY <1>1, <1>2, <1>6, <2>2
  <2> QED BY <1>4, <2>1, <2>2
<1> QED BY <1>7, <1>8, <1>9, <1>10 DEF KeysOf

\* An entry at the end.
LEMMA EntryAdded ==
    ASSUME NEW s \in Seq(Entry), NEW e \in Entry
    PROVE  /\ s \o <<e>> \in Seq(Entry) /\ Append(s, e) = s \o <<e>>
           /\ Len(Append(s, e)) = Len(s) + 1 /\ Append(s, e)[Len(s) + 1] = e
           /\ \A i \in 1 .. Len(s) : Append(s, e)[i] = s[i]
OBVIOUS

\* An entry without a key at the end.
LEMMA OtherAdded ==
    ASSUME NEW s \in Seq(Entry), NEW e \in Entry, ~IsKey(e), NEW t, NEW n, KeysOf(s, t, n)
    PROVE  KeysOf(Append(s, e), t, n)
<1>1. PICK s2 : s2 = Append(s, e)
  OBVIOUS
<1>2. PICK l \in Nat : l = Len(s)
  OBVIOUS
<1>3. Len(s2) = l + 1 /\ s2[l + 1] = e /\ \A i \in 1 .. l : s2[i] = s[i]
  BY <1>1, <1>2, EntryAdded
<1>4. KeysAt(s2, l + 1) = KeysAt(s, l) /\ \A i \in KeysAt(s, l) : s2[i] = s[i]
  BY <1>3 DEF KeysAt
<1> QED BY <1>1, <1>2, <1>3, <1>4, KeysOfSame

-----------------------------------------------------------------------------
(* The invariant, and what follows from it.                                *)

LEMMA InitIInv == Init => IInv
<1> SUFFICES ASSUME Init PROVE IInv
  OBVIOUS
<1>1. PICK d \in Directories, v \in Versions :
        /\ v = "current" => \A f \in File : d[f].ver \in {-1, 0, VersionOf(f)}
        /\ \/ phase = "down" /\ hasDir = TRUE /\ dir = d /\ version = v
           \/ d = Nothing /\ v = "absent" /\ phase = "down" /\ hasDir = FALSE
              /\ dir = d /\ version = v
           \/ phase = "tool" /\ hasDir \in BOOLEAN /\ dir = Nothing
              /\ old = [files |-> d, version |-> v]
  BY DEF Init
<1>2. tmp = Nothing /\ unsynced = {} /\ at = NoFile
  BY DEF Init
<1>3. d \in [File -> [ver : Int, entries : Seq(Entry)]]
  BY <1>1, StartupAssumption
<1>4. d = [f \in File |-> d[f]] /\ \A f \in File : IsFile(d[f])
  BY <1>3 DEF IsFile
<1>5. Nothing = [f \in File |-> Nothing[f]] /\ \A f \in File : Nothing[f] = Absent /\ IsFile(Nothing[f])
  BY DEF Nothing, Absent, IsFile
<1>6. hasDir \in BOOLEAN /\ (dir = d \/ dir = Nothing)
  BY <1>1
<1>7. Shape
  <2>1. dir = [f \in File |-> dir[f]] /\ \A f \in File : IsFile(dir[f])
    BY <1>4, <1>5, <1>6
  <2>2. at \in [file : File, read : Int]
    BY <1>2, Wals DEF NoFile
  <2> QED BY <1>2, <1>5, <1>6, <2>1, <2>2 DEF Shape
<1>8. InDir /\ NeverWrongVersion /\ Done
  BY <1>1 DEF InDir, NeverWrongVersion, Done
<1>9. CopyTrue
  <2> SUFFICES ASSUME phase \in {"tool", "copy"}
               PROVE  /\ \A f \in File : IsFile(old.files[f]) /\ dir[f] \in {Absent, old.files[f]}
                      /\ old.version = "current" => \A f \in File : Good(old.files[f], f)
    BY <1>2 DEF CopyTrue
  <2>1. dir = Nothing /\ old = [files |-> d, version |-> v]
    BY <1>1
  <2>2. old.files = d /\ old.version = v
    BY <2>1
  <2> QED BY <1>1, <1>4, <1>5, <2>1, <2>2 DEF Good
<1>10. VersionFileTrue
  BY <1>1, <1>2 DEF VersionFileTrue
<1> QED BY <1>7, <1>8, <1>9, <1>10 DEF IInv

LEMMA StutterStep == ASSUME IInv, UNCHANGED vars PROVE IInv'
<1>1. UNCHANGED <<phase, hasDir, dir, tmp, version, unsynced, left, at, old>>
  BY DEF vars
<1>2. Done'
  BY <1>1 DEF IInv, Done, AllGood, Good, VersionOf
<1>3. VersionFileTrue' /\ NeverWrongVersion'
  BY <1>1 DEF IInv, VersionFileTrue, VersionOf, NeverWrongVersion
<1>4. /\ phase \notin {"tool", "copy", "down"} => hasDir = TRUE
      /\ phase \in {"tool", "copy"} => unsynced = {}
  BY DEF IInv, InDir, CopyTrue
<1> QED BY <1>1, <1>2, <1>3, <1>4, SameFiles

LEMMA NextIInv == IInv /\ [Next]_vars => IInv'
<1> SUFFICES ASSUME IInv, [Next]_vars PROVE IInv'
  OBVIOUS
<1>1. CASE Starting
  <2>1. CASE RemoveDir \/ MakeDir \/ CopyVersion \/ Copied
    BY <2>1, RemoveDirStep, MakeDirStep, CopyVersionStep, CopiedStep
  <2>2. CASE \E f \in File, ok \in CopyResults : CopyFile(f, ok)
    BY <2>2, CopyFileStep
  <2>3. CASE InitDataDir \/ CheckVersion \/ RemoveVersion
    BY <2>3, InitDataDirStep, CheckVersionStep, RemoveVersionStep
  <2>4. CASE \E f \in File : Migrate(f)
    BY <2>4, MigrateStep
  <2>5. CASE MigrateEntry \/ RenameMigrated \/ AllMigrated
    BY <2>5, MigrateEntryStep, RenameMigratedStep, AllMigratedStep
  <2>6. CASE TruncateVersion \/ WriteVersion(TRUE) \/ InitWrite
    BY <2>6, TruncateVersionStep, WriteVersionStep, InitWriteStep
  <2> QED BY <1>1, <2>1, <2>2, <2>3, <2>4, <2>5, <2>6 DEF Starting
<1>2. CASE \E f \in File : AddKey(f)
  BY <1>2, AddKeyStep
<1>3. CASE WriteVersion(FALSE) \/ SyncVersion \/ Crash \/ Stop
  BY <1>3, WriteVersionStep, SyncVersionStep, CrashStep, StopStep
<1>4. CASE UNCHANGED vars
  BY <1>4, StutterStep
<1> QED BY <1>1, <1>2, <1>3, <1>4 DEF Next

\* Wherever the version file says that the key files are current, now or after
\* a crash that undoes its last write, they are: the file is never forced to
\* disk by open_pg_tde_create_keys_version_file(), and need not be.
THEOREM VersionAlwaysTrue == Spec => []VersionFileTrue
<1>1. IInv => VersionFileTrue
  BY DEF IInv
<1> QED BY <1>1, InitIInv, NextIInv, PTL DEF Spec

\* "key file has wrong version" is never raised, by TDEXLogSmgrInitWrite() or by
\* a backend.
THEOREM VersionNeverWrong == Spec => []NeverWrongVersion
<1>1. IInv => NeverWrongVersion
  BY DEF IInv
<1> QED BY <1>1, InitIInv, NextIInv, PTL DEF Spec

-----------------------------------------------------------------------------
(* No key is lost.                                                         *)

Copying == phase \in {"tool", "copy"}

\* The entries of the files, and those of the directory that is copied.
EntryTypes ==
    /\ TypeOK
    /\ \A f \in File : dir[f].entries \in Seq(Entry) /\ tmp[f].entries \in Seq(Entry)
    /\ held = [f \in File |-> held[f]] /\ \A f \in File : held[f] \in Seq(Entry)
    /\ Copying =>
           /\ \A f \in File : old.files[f].entries \in Seq(Entry) /\ IsEntries(old.files[f].entries)
           /\ old.version \in {"absent", "old", "current"}

\* The files, or those that are copied, hold the keys.  What the tool is done
\* with is as in the old cluster, and the file being written holds the keys of
\* the entries that were read.
Kept ==
    /\ Copying => \A f \in File : SameKeys(old.files[f].entries, held[f])
    /\ phase = "copy" => \A f \in File \ left : dir[f] = old.files[f]
    /\ ~Copying => \A f \in File : SameKeys(dir[f].entries, held[f])
    /\ phase = "entries" =>
           /\ at.read <= Len(dir[at.file].entries)
           /\ KeysOf(tmp[at.file].entries, dir[at.file].entries, at.read)

KInv == EntryTypes /\ Kept

\* A step outside the tool that leaves the files, and what is read of them, alone.
LEMMA FilesKept ==
    ASSUME KInv, UNCHANGED <<dir, tmp, at, held>>, ~Copying, ~Copying',
           phase' \in Phases, phase' = "entries" => phase = "entries",
           hasDir' \in BOOLEAN, version' \in {"absent", "empty", "old", "current"},
           unsynced' \subseteq {"absent", "empty", "old", "current"},
           left' \subseteq File, faults' \in 0 .. MaxFaults
    PROVE  KInv'
<1>1. TypeOK'
  BY DEF KInv, EntryTypes, TypeOK, IsEntries
<1>2. EntryTypes'
  BY <1>1 DEF KInv, EntryTypes
<1>3. Kept'
  BY DEF KInv, Kept, Copying
<1> QED BY <1>2, <1>3 DEF KInv

\* A step of the tool.
LEMMA ToolKept ==
    ASSUME KInv, Copying, Copying', UNCHANGED <<tmp, old, held>>,
           \A f \in File : dir'[f].entries \in Seq(Entry) /\ IsEntries(dir'[f].entries),
           phase' = "copy" => \A f \in File \ left' : dir'[f] = old.files[f],
           hasDir' \in BOOLEAN, version' \in {"absent", "empty", "old", "current"},
           unsynced' \subseteq {"absent", "empty", "old", "current"},
           left' \subseteq File, faults' \in 0 .. MaxFaults, at' = at \/ at' = NoFile
    PROVE  KInv'
<1>1. at'.file \in File /\ at'.read \in Nat
  BY Wals DEF KInv, EntryTypes, TypeOK, NoFile
<1>2. phase' \in Phases /\ phase' # "entries"
  BY DEF Copying, Phases
<1>3. TypeOK'
  BY <1>1, <1>2 DEF KInv, EntryTypes, TypeOK
<1>4. EntryTypes'
  BY <1>3 DEF KInv, EntryTypes, Copying
<1>5. Kept'
  BY <1>2 DEF KInv, Kept, Copying
<1> QED BY <1>4, <1>5 DEF KInv

LEMMA RemoveDirKept == ASSUME KInv, RemoveDir PROVE KInv'
<1>1. /\ phase = "tool" /\ phase' = "copy" /\ hasDir' = FALSE /\ dir' = Nothing /\ version' = "absent"
      /\ left' = {f \in File : old.files[f] # Absent}
      /\ UNCHANGED <<tmp, unsynced, at, old, faults, held>>
  BY DEF RemoveDir
<1>2. \A f \in File : dir'[f] = Absent
  BY <1>1 DEF Nothing
<1>3. Absent.entries = <<>> /\ <<>> \in Seq(Entry) /\ IsEntries(<<>>)
  BY DEF Absent, IsEntries
<1>4. Copying /\ Copying' /\ left' \subseteq File
  BY <1>1 DEF Copying
<1>5. \A f \in File \ left' : dir'[f] = old.files[f]
  BY <1>1, <1>2
<1>6. unsynced \subseteq {"absent", "empty", "old", "current"} /\ faults \in 0 .. MaxFaults
  BY DEF KInv, EntryTypes, TypeOK
<1> QED BY <1>1, <1>2, <1>3, <1>4, <1>5, <1>6, ToolKept

\* Steps of the tool that leave the key files alone.
LEMMA MakeDirKept == ASSUME KInv, MakeDir \/ CopyVersion PROVE KInv'
<1>1. /\ phase = "copy" /\ phase' = "copy" /\ UNCHANGED <<dir, tmp, unsynced, left, at, old, faults, held>>
      /\ hasDir' = TRUE \/ hasDir' = hasDir
      /\ version' = version \/ version' = old.version
  BY DEF MakeDir, CopyVersion
<1>2. Copying /\ Copying'
  BY <1>1 DEF Copying
<1>3. TypeOK /\ old.version \in {"absent", "old", "current"}
  BY <1>2 DEF KInv, EntryTypes
<1>4. /\ hasDir' \in BOOLEAN /\ version' \in {"absent", "empty", "old", "current"}
      /\ unsynced' \subseteq {"absent", "empty", "old", "current"}
      /\ left' \subseteq File /\ faults' \in 0 .. MaxFaults
  BY <1>1, <1>3 DEF TypeOK
<1>5. \A f \in File : dir'[f].entries \in Seq(Entry) /\ IsEntries(dir'[f].entries)
  BY <1>1 DEF KInv, EntryTypes, TypeOK
<1>6. \A f \in File \ left' : dir'[f] = old.files[f]
  BY <1>1 DEF KInv, Kept
<1> QED BY <1>1, <1>2, <1>4, <1>5, <1>6, ToolKept

LEMMA CopyFileKept ==
    ASSUME IInv, KInv, PartialCopy = FALSE, NEW f \in File, NEW ok \in CopyResults, CopyFile(f, ok)
    PROVE  KInv'
<1>1. /\ phase = "copy" /\ phase' = "copy" /\ left' = left \ {f}
      /\ UNCHANGED <<hasDir, tmp, version, unsynced, at, old, faults, held>>
  BY DEF CopyFile
<1>2. ok = TRUE
  BY DEF CopyResults
<1>3. dir' = [dir EXCEPT ![f] = old.files[f]]
  BY <1>2 DEF CopyFile
<1>4. dir = [g \in File |-> dir[g]]
  BY DEF IInv, Shape
<1>5. dir'[f] = old.files[f] /\ \A g \in File : g # f => dir'[g] = dir[g]
  BY <1>3, <1>4
<1>6. Copying /\ Copying'
  BY <1>1 DEF Copying
<1>7. old.files[f].entries \in Seq(Entry) /\ IsEntries(old.files[f].entries)
  BY <1>6 DEF KInv, EntryTypes
<1>8. \A g \in File : dir'[g].entries \in Seq(Entry) /\ IsEntries(dir'[g].entries)
  BY <1>5, <1>7 DEF KInv, EntryTypes, TypeOK
<1>9. \A g \in File \ left' : dir'[g] = old.files[g]
  BY <1>1, <1>5 DEF KInv, Kept
<1>10. /\ hasDir' \in BOOLEAN /\ version' \in {"absent", "empty", "old", "current"}
       /\ unsynced' \subseteq {"absent", "empty", "old", "current"}
       /\ left' \subseteq File /\ faults' \in 0 .. MaxFaults
  BY <1>1 DEF KInv, EntryTypes, TypeOK
<1> QED BY <1>1, <1>6, <1>8, <1>9, <1>10, ToolKept

\* All files were copied.
LEMMA CopiedKept == ASSUME KInv, Copied PROVE KInv'
<1>1. /\ phase = "copy" /\ phase' = "down" /\ left = {}
      /\ UNCHANGED <<hasDir, dir, tmp, version, unsynced, left, at, old, faults, held>>
  BY DEF Copied
<1>2. Copying /\ ~Copying' /\ phase' \in Phases
  BY <1>1 DEF Copying, Phases
<1>3. TypeOK'
  BY <1>1, <1>2 DEF KInv, EntryTypes, TypeOK
<1>4. EntryTypes'
  BY <1>1, <1>2, <1>3 DEF KInv, EntryTypes
<1>5. \A f \in File : dir[f] = old.files[f] /\ SameKeys(old.files[f].entries, held[f])
  BY <1>1, <1>2 DEF KInv, Kept
<1>6. \A f \in File : SameKeys(dir'[f].entries, held'[f])
  BY <1>1, <1>5
<1>7. Kept'
  BY <1>1, <1>2, <1>6 DEF Kept
<1> QED BY <1>4, <1>7 DEF KInv

\* A step of the start, or of a server, that leaves the files alone.
LEMMA StartKept ==
    ASSUME KInv,
           \/ InitDataDir \/ CheckVersion \/ RemoveVersion \/ AllMigrated
           \/ TruncateVersion \/ InitWrite \/ Stop \/ \E ok \in BOOLEAN : WriteVersion(ok)
    PROVE  KInv'
<1>1. UNCHANGED <<dir, tmp, at, held>> /\ left' = left
  BY DEF InitDataDir, CheckVersion, RemoveVersion, AllMigrated, TruncateVersion, InitWrite, Stop, WriteVersion
<1>2. /\ ~Copying /\ phase' \in Phases \ {"tool", "copy", "entries"}
  BY DEF InitDataDir, CheckVersion, RemoveVersion, AllMigrated, TruncateVersion, InitWrite, Stop,
         WriteVersion, Copying, Phases
<1>3. hasDir' = hasDir \/ hasDir' = TRUE
  BY DEF InitDataDir, CheckVersion, RemoveVersion, AllMigrated, TruncateVersion, InitWrite, Stop, WriteVersion
<1>4. version' = version \/ version' \in {"absent", "empty", "current"}
  BY DEF InitDataDir, CheckVersion, RemoveVersion, AllMigrated, TruncateVersion, InitWrite, Stop, WriteVersion
<1>5. unsynced' \subseteq unsynced \cup {version}
  BY DEF InitDataDir, CheckVersion, RemoveVersion, AllMigrated, TruncateVersion, InitWrite, Stop, WriteVersion
<1>6. faults' = faults \/ (faults' = faults + 1 /\ faults' <= MaxFaults)
  BY DEF InitDataDir, CheckVersion, RemoveVersion, AllMigrated, TruncateVersion, InitWrite, Stop, WriteVersion
<1>7. TypeOK
  BY DEF KInv, EntryTypes
<1>8. faults' \in 0 .. MaxFaults
  BY <1>6, <1>7, StartupAssumption DEF TypeOK
<1>9. /\ hasDir' \in BOOLEAN /\ version' \in {"absent", "empty", "old", "current"}
      /\ unsynced' \subseteq {"absent", "empty", "old", "current"} /\ left' \subseteq File
  BY <1>1, <1>3, <1>4, <1>5, <1>7 DEF TypeOK
<1> QED BY <1>1, <1>2, <1>8, <1>9, FilesKept DEF Copying

LEMMA SyncVersionKept == ASSUME KInv, SyncVersion \/ UNCHANGED vars PROVE KInv'
<1>1. /\ UNCHANGED <<phase, hasDir, dir, tmp, version, left, at, old, faults, held>>
      /\ unsynced' \subseteq unsynced
  BY DEF SyncVersion, vars
<1>2. TypeOK'
  BY <1>1 DEF KInv, EntryTypes, TypeOK
<1>3. EntryTypes'
  BY <1>1, <1>2 DEF KInv, EntryTypes, Copying
<1>4. Kept'
  BY <1>1 DEF KInv, Kept, Copying
<1> QED BY <1>3, <1>4 DEF KInv

\* A file is skipped, or a new one begun in its place.
LEMMA MigrateKept == ASSUME IInv, KInv, NEW f \in File, Migrate(f) PROVE KInv'
<1>1. ~Copying /\ phase # "entries"
  BY DEF Migrate, Copying
<1>2. PICK v \in TakenFor(f) : Skip(f, v) \/ Begin(f, v) \/ NoPrincipalKey(f, v) \/ Unsupported(f, v)
  BY DEF Migrate
<1>3. TypeOK
  BY DEF KInv, EntryTypes
<1>4. CASE Begin(f, v)
  <2>1. /\ phase' = "entries" /\ at' = [file |-> f, read |-> 0]
        /\ tmp' = [tmp EXCEPT ![f] = [ver |-> VersionOf(f), entries |-> <<>>]]
        /\ UNCHANGED <<hasDir, dir, version, unsynced, left, old, faults, held>>
    BY <1>4 DEF Begin
  <2>2. tmp = [g \in File |-> tmp[g]]
    BY DEF IInv, Shape
  <2>3. tmp'[f].entries = <<>> /\ \A g \in File : g # f => tmp'[g] = tmp[g]
    BY <2>1, <2>2
  <2>4. at'.file = f /\ at'.read = 0 /\ ~Copying' /\ phase' \in Phases
    BY <2>1 DEF Copying, Phases
  <2>5. ASSUME NEW g \in File PROVE tmp'[g].entries \in Seq(Entry)
    <3>1. <<>> \in Seq(Entry)
      OBVIOUS
    <3>2. g # f => tmp'[g].entries \in Seq(Entry)
      BY <2>3 DEF KInv, EntryTypes
    <3> QED BY <2>3, <3>1, <3>2
  <2>6. \A g \in File : \A i \in DOMAIN tmp'[g].entries : tmp'[g].entries[i].state # "torn"
    BY <1>3, <2>3 DEF TypeOK
  <2>7. TypeOK'
    BY <1>3, <2>1, <2>4, <2>6 DEF TypeOK
  <2>8. EntryTypes'
    BY <2>1, <2>4, <2>5, <2>7 DEF KInv, EntryTypes
  <2>9. dir[f].entries \in Seq(Entry)
    BY DEF KInv, EntryTypes
  <2>10. KeysOf(tmp'[f].entries, dir'[f].entries, 0) /\ 0 <= Len(dir'[f].entries)
    BY <2>1, <2>3, <2>9, KeysOfNothing
  <2>11. Kept'
    BY <1>1, <2>1, <2>4, <2>10 DEF KInv, Kept
  <2> QED BY <2>8, <2>11 DEF KInv
<1>5. CASE ~Begin(f, v)
  <2>1. /\ UNCHANGED <<hasDir, dir, tmp, version, unsynced, at, held>>
        /\ phase' \in {"scan", "down"} /\ left' \in {left, LeftAfter(f)}
        /\ faults' = faults \/ (faults < MaxFaults /\ faults' = faults + 1)
    BY <1>2, <1>5 DEF Skip, NoPrincipalKey, Unsupported, Fails
  <2>2. LeftAfter(f) \subseteq File
    BY <1>3, Wals DEF LeftAfter, TypeOK
  <2>3. left' \subseteq File /\ faults' \in 0 .. MaxFaults
    BY <1>3, <2>1, <2>2, StartupAssumption DEF TypeOK
  <2>4. ~Copying' /\ phase' \in Phases /\ phase' # "entries"
    BY <2>1 DEF Copying, Phases
  <2>5. /\ hasDir' \in BOOLEAN /\ version' \in {"absent", "empty", "old", "current"}
        /\ unsynced' \subseteq {"absent", "empty", "old", "current"}
    BY <1>3, <2>1 DEF TypeOK
  <2> QED BY <1>1, <2>1, <2>3, <2>4, <2>5, FilesKept
<1> QED BY <1>4, <1>5

\* Entries without a cipher have the one they are read with: they are entries of
\* the old directory, and all that are added are of a current version.
CipherInv ==
    /\ \A f \in File : SixteenBytes(f, dir[f])
    /\ Copying => \A f \in File : SixteenBytes(f, old.files[f])

LEMMA InitCipherInv == Init => CipherInv
<1> SUFFICES ASSUME Init PROVE CipherInv
  OBVIOUS
<1>1. PICK d \in Directories, v \in Versions :
        (phase = "down" /\ dir = d)
        \/ (phase = "tool" /\ dir = Nothing /\ old = [files |-> d, version |-> v])
  BY DEF Init
<1>2. \A f \in File : SixteenBytes(f, d[f]) /\ SixteenBytes(f, Nothing[f])
  BY <1>1, StartupAssumption DEF SixteenBytes, WithoutCipher, Nothing, Absent
<1>3. CASE phase = "down" /\ dir = d
  BY <1>2, <1>3 DEF CipherInv, Copying
<1>4. CASE phase = "tool" /\ dir = Nothing /\ old = [files |-> d, version |-> v]
  <2>1. old.files = d
    BY <1>4
  <2> QED BY <1>2, <1>4, <2>1 DEF CipherInv
<1> QED BY <1>1, <1>3, <1>4

\* What a file of the directory may become in one step.
LEMMA NextFile ==
    ASSUME IInv, [Next]_vars, NEW f \in File
    PROVE  \/ dir'[f] = dir[f] \/ dir'[f] = Absent
           \/ Copying /\ dir'[f] = old.files[f]
           \/ dir'[f].ver = VersionOf(f)
<1>1. dir = [g \in File |-> dir[g]] /\ \A g \in File : IsFile(dir[g])
  BY DEF IInv, Shape
<1>2. CASE dir' = dir
  BY <1>2
<1>3. CASE RemoveDir
  BY <1>3 DEF RemoveDir, Nothing
<1>4. ASSUME NEW g \in File, NEW ok \in CopyResults, CopyFile(g, ok)
      PROVE  dir'[f] = dir[f] \/ (Copying /\ dir'[f] = old.files[f])
  BY <1>1, <1>4 DEF CopyFile, Copying
<1>5. CASE RenameMigrated
  <2>1. /\ tmp[at.file].ver = VersionOf(at.file)
        /\ dir' = [dir EXCEPT ![at.file] = tmp[at.file]]
    BY <1>5 DEF IInv, Done, RenameMigrated
  <2> QED BY <1>1, <2>1
<1>6. ASSUME NEW g \in File, AddKey(g) PROVE dir'[f] = dir[f] \/ dir'[f].ver = VersionOf(f)
  <2>1. CASE dir' # dir
    <3>1. PICK s : dir' = [dir EXCEPT ![g] = [ver |-> VersionOf(g), entries |-> s]]
      BY <1>6, <2>1 DEF AddKey
    <3>2. dir'[g].ver = VersionOf(g) /\ (g # f => dir'[f] = dir[f])
      BY <1>1, <3>1
    <3> QED BY <3>2
  <2> QED BY <2>1
<1>7. CASE Crash
  <2>1. CASE dir' # dir
    <3>0. PICK g \in File : /\ dir[g].ver = VersionOf(g)
                            /\ \E s : dir' = [dir EXCEPT ![g].entries = s]
      BY <1>7, <2>1 DEF Crash
    <3>1. PICK s : dir[g].ver = VersionOf(g) /\ dir' = [dir EXCEPT ![g].entries = s]
      BY <3>0
    <3>2. dir[g] = [ver |-> dir[g].ver, entries |-> dir[g].entries]
      BY <1>1 DEF IsFile
    <3>3. dir'[g].ver = dir[g].ver /\ (g # f => dir'[f] = dir[f])
      BY <1>1, <3>1, <3>2
    <3> QED BY <3>1, <3>3
  <2> QED BY <2>1
<1>8. \/ dir' = dir \/ RemoveDir \/ RenameMigrated \/ Crash
      \/ \E g \in File, ok \in CopyResults : CopyFile(g, ok)
      \/ \E g \in File : AddKey(g)
  BY DEF Next, vars, Starting, MakeDir, CopyVersion, Copied, InitDataDir, CheckVersion,
         RemoveVersion, Migrate, Skip, Begin, NoPrincipalKey, Unsupported, Fails, MigrateEntry,
         AllMigrated, TruncateVersion, WriteVersion, InitWrite, SyncVersion, Stop
<1> QED BY <1>2, <1>3, <1>4, <1>5, <1>6, <1>7, <1>8

LEMMA NextCipherInv == IInv /\ CipherInv /\ [Next]_vars => CipherInv'
<1> SUFFICES ASSUME IInv, CipherInv, [Next]_vars PROVE CipherInv'
  OBVIOUS
<1>1. \A f \in File : VersionOf(f) # WithoutCipher(f) /\ Absent.ver # WithoutCipher(f)
  BY StartupAssumption DEF VersionOf, WithoutCipher, Absent
<1>2. ASSUME NEW f \in File PROVE SixteenBytes(f, dir'[f])
  BY <1>1, <1>2, NextFile DEF CipherInv, SixteenBytes
<1>3. old' = old /\ (Copying' => Copying)
  BY DEF Next, vars, Copying, Starting, RemoveDir, MakeDir, CopyVersion, Copied, CopyFile,
         InitDataDir, CheckVersion, RemoveVersion, Migrate, Skip, Begin, NoPrincipalKey,
         Unsupported, Fails, MigrateEntry, RenameMigrated, AllMigrated, TruncateVersion,
         WriteVersion, InitWrite, AddKey, SyncVersion, Crash, Stop
<1> QED BY <1>2, <1>3 DEF CipherInv, SixteenBytes, WithoutCipher

\* One entry is converted: a key becomes a key, anything else no key.
LEMMA MigrateEntryKept == ASSUME IInv, KInv, CipherInv, MigrateEntry PROVE KInv'
<1>1. phase = "entries" /\ ~Copying /\ at.read < Len(dir[at.file].entries)
  BY DEF MigrateEntry, Copying
<1>2. TypeOK
  BY DEF KInv, EntryTypes
<1>3. PICK f \in File, n \in Nat : f = at.file /\ n = at.read
  BY <1>2 DEF TypeOK
<1>4. PICK t : t = dir[f].entries
  OBVIOUS
<1>5. PICK e : e = t[n + 1]
  OBVIOUS
<1>6. PICK s : s = tmp[f].entries
  OBVIOUS
<1>7. /\ t \in Seq(Entry) /\ s \in Seq(Entry) /\ n + 1 \in 1 .. Len(t) /\ e \in Entry
      /\ KeysOf(s, t, n)
  <2>1. t \in Seq(Entry) /\ s \in Seq(Entry)
    BY <1>4, <1>6 DEF KInv, EntryTypes
  <2>2. n + 1 \in 1 .. Len(t)
    BY <1>1, <1>3, <1>4, <2>1
  <2>3. KeysOf(s, t, n)
    BY <1>1, <1>3, <1>4, <1>6 DEF KInv, Kept
  <2> QED BY <1>5, <2>1, <2>2, <2>3
<1>8. [e EXCEPT !.cipher = CipherRead(f, e)] = e
  <2>1. e = [key |-> e.key, cipher |-> e.cipher, state |-> e.state]
    BY <1>7 DEF Entry
  <2>2. dir[f].ver = WithoutCipher(f) => e.cipher = "AES_128"
    BY <1>4, <1>5, <1>7 DEF CipherInv, SixteenBytes
  <2>3. CipherRead(f, e) = e.cipher
    BY <2>2 DEF CipherRead
  <2> QED BY <2>1, <2>3
<1>9. CASE e.state = "torn" /\ ~TornIsEnd(f)
  <2>1. Fails /\ faults' = faults
    BY <1>3, <1>4, <1>5, <1>9 DEF MigrateEntry
  <2>2. UNCHANGED <<dir, tmp, at, held, hasDir, version, unsynced, left, faults>> /\ phase' = "down"
    BY <2>1 DEF Fails
  <2>3. ~Copying' /\ phase' \in Phases /\ phase' # "entries"
    BY <2>2 DEF Copying, Phases
  <2> QED BY <1>1, <1>2, <2>2, <2>3, FilesKept DEF TypeOK
<1>10. CASE ~(e.state = "torn" /\ ~TornIsEnd(f))
  <2>1. /\ tmp' = IF e.state = "torn" THEN tmp
                  ELSE [tmp EXCEPT ![f].entries = @ \o Converted(f, e)]
        /\ at' = [at EXCEPT !.read = @ + 1]
        /\ UNCHANGED <<phase, hasDir, dir, version, unsynced, left, old, held, faults>>
    BY <1>3, <1>4, <1>5, <1>10 DEF MigrateEntry
  <2>2. at'.file = f /\ at'.read = n + 1
    BY <1>3, <2>1 DEF IInv, Shape
  <2>3. /\ tmp = [g \in File |-> tmp[g]]
        /\ \A g \in File : tmp[g] = [ver |-> tmp[g].ver, entries |-> tmp[g].entries]
    BY DEF IInv, Shape, IsFile
  <2>4. PICK s2 : s2 = tmp'[f].entries
    OBVIOUS
  <2>5. /\ \A g \in File : g # f => tmp'[g] = tmp[g]
        /\ s2 = s \/ (e.state # "torn" /\ s2 = s \o Converted(f, e))
        /\ IsKey(e) => s2 = s \o Converted(f, e)
    <3>1. CASE e.state = "torn"
      BY <1>6, <2>1, <2>4, <3>1 DEF IsKey
    <3>2. CASE e.state # "torn"
      BY <1>6, <2>1, <2>3, <2>4, <3>2
    <3> QED BY <3>1, <3>2
  <2>6. s2 = s \/ (e.state # "torn" /\ s2 = Append(s, e))
    <3>1. Converted(f, e) = <<>> \/ Converted(f, e) = <<e>>
      BY <1>8 DEF Converted
    <3>2. s \o <<>> = s /\ s \o <<e>> = Append(s, e)
      BY <1>7, EntryAdded
    <3> QED BY <2>5, <3>1, <3>2
  <2>7. s2 \in Seq(Entry) /\ \A i \in DOMAIN s2 : s2[i].state # "torn"
    <3>1. \A i \in DOMAIN s : s[i].state # "torn"
      BY <1>2, <1>6 DEF TypeOK
    <3>2. CASE s2 = s
      BY <1>7, <3>1, <3>2
    <3>3. CASE e.state # "torn" /\ s2 = Append(s, e)
      <4>1. s2 \in Seq(Entry) /\ Len(s2) = Len(s) + 1 /\ s2[Len(s) + 1] = e
            /\ \A i \in 1 .. Len(s) : s2[i] = s[i]
        BY <1>7, <3>3, EntryAdded
      <4>2. DOMAIN s2 = 1 .. Len(s) + 1 /\ DOMAIN s = 1 .. Len(s) /\ Len(s) \in Nat
        BY <1>7, <4>1
      <4> QED BY <3>1, <3>3, <4>1, <4>2
    <3> QED BY <2>6, <3>2, <3>3
  <2>8. KeysOf(s2, t, n + 1)
    <3>1. CASE IsKey(e)
      <4>1. s2 = Append(s, e)
        BY <1>7, <1>8, <2>5, <3>1, EntryAdded DEF Converted, IsKey
      <4>2. /\ Len(s2) = Len(s) + 1 /\ s2[Len(s) + 1] = e /\ s2 \in Seq(Entry)
            /\ \A i \in 1 .. Len(s) : s2[i] = s[i]
        BY <1>7, <2>7, <4>1, EntryAdded
      <4> QED BY <1>5, <1>7, <3>1, <4>2, KeysOfAppend
    <3>2. CASE ~IsKey(e)
      <4>1. KeysOf(s2, t, n)
        BY <1>7, <2>6, <3>2, OtherAdded
      <4>2. KeysAt(t, n + 1) = KeysAt(t, n)
        BY <1>5, <3>2 DEF KeysAt
      <4> QED BY <4>1, <4>2, KeysOfSame
    <3> QED BY <3>1, <3>2
  <2>9. ASSUME NEW g \in File
        PROVE  /\ tmp'[g].entries \in Seq(Entry)
               /\ \A i \in DOMAIN tmp'[g].entries : tmp'[g].entries[i].state # "torn"
    <3>1. CASE g = f
      BY <2>4, <2>7, <3>1
    <3>2. CASE g # f
      <4>1. tmp[g].entries \in Seq(Entry)
        BY DEF KInv, EntryTypes
      <4>2. \A i \in DOMAIN tmp[g].entries : tmp[g].entries[i].state # "torn"
        BY <1>2 DEF TypeOK
      <4> QED BY <2>5, <3>2, <4>1, <4>2
    <3> QED BY <3>1, <3>2
  <2>10. TypeOK'
    BY <1>2, <2>1, <2>2, <2>9 DEF TypeOK
  <2>11. EntryTypes'
    BY <1>1, <2>1, <2>9, <2>10 DEF KInv, EntryTypes, Copying
  <2>12. n + 1 <= Len(t)
    BY <1>7
  <2>13. Kept'
    BY <1>1, <1>4, <2>1, <2>2, <2>4, <2>8, <2>12 DEF KInv, Kept, Copying
  <2> QED BY <2>11, <2>13 DEF KInv
<1> QED BY <1>9, <1>10

\* The new file takes the place of the old one when all of that was read.
LEMMA RenameMigratedKept == ASSUME IInv, KInv, RenameMigrated PROVE KInv'
<1>1. /\ phase = "entries" /\ ~Copying /\ at.read = Len(dir[at.file].entries)
      /\ phase' = "scan" /\ at' = NoFile
      /\ UNCHANGED <<hasDir, version, unsynced, old, faults, held>>
  BY DEF RenameMigrated, Copying
<1>2. TypeOK
  BY DEF KInv, EntryTypes
<1>3. PICK f \in File : f = at.file
  BY <1>2 DEF TypeOK
<1>4. /\ dir' = [dir EXCEPT ![f] = tmp[f]] /\ tmp' = [tmp EXCEPT ![f] = Absent]
      /\ left' = LeftAfter(f)
  BY <1>3 DEF RenameMigrated
<1>5. /\ \A g \in File : g # f => dir'[g] = dir[g] /\ tmp'[g] = tmp[g]
      /\ dir'[f] = tmp[f] /\ tmp'[f] = Absent
  BY <1>4 DEF IInv, Shape
<1>6. Absent.entries = <<>> /\ <<>> \in Seq(Entry)
  BY DEF Absent
<1>7. \A i \in DOMAIN tmp[f].entries : tmp[f].entries[i].state # "torn"
  BY <1>2 DEF TypeOK
<1>8. tmp[f].entries \in Seq(Entry)
  BY DEF KInv, EntryTypes
<1>9. IsEntries(tmp[f].entries)
  <2>1. PICK s : s = tmp[f].entries
    OBVIOUS
  <2>2. s \in Seq(Entry) /\ \A i \in 1 .. Len(s) : s[i].state # "torn"
    BY <1>7, <1>8, <2>1
  <2>3. \A i \in DOMAIN s : s[i] \in Entry
    BY <2>2
  <2>4. \A i \in DOMAIN s : s[i].state \in {"key", "empty", "torn"}
    BY <2>3 DEF Entry
  <2>5. \A i \in 1 .. Len(s) - 1 : s[i].state # "torn"
    BY <2>2
  <2>6. IsEntries(s)
    BY <2>4, <2>5 DEF IsEntries
  <2> QED BY <2>1, <2>6
<1>10. LeftAfter(f) \subseteq File
  BY <1>2, Wals DEF LeftAfter, TypeOK
<1>11. ~Copying' /\ phase' \in Phases /\ phase' # "entries"
  BY <1>1 DEF Copying, Phases
<1>12. NoFile.file \in File /\ NoFile.read \in Nat
  BY Wals DEF NoFile
<1>13. \A g \in File : IsEntries(dir'[g].entries)
  BY <1>2, <1>5, <1>9 DEF TypeOK
<1>14. \A g \in File : \A i \in DOMAIN tmp'[g].entries : tmp'[g].entries[i].state # "torn"
  BY <1>2, <1>5, <1>6 DEF TypeOK
<1>15. TypeOK'
  BY <1>1, <1>2, <1>4, <1>10, <1>11, <1>12, <1>13, <1>14 DEF TypeOK
<1>16. \A g \in File : dir'[g].entries \in Seq(Entry) /\ tmp'[g].entries \in Seq(Entry)
  BY <1>5, <1>6, <1>8 DEF KInv, EntryTypes
<1>17. EntryTypes'
  BY <1>1, <1>11, <1>15, <1>16 DEF KInv, EntryTypes
<1>18. SameKeys(tmp[f].entries, dir[f].entries) /\ SameKeys(dir[f].entries, held[f])
  BY <1>1, <1>3 DEF KInv, Kept, SameKeys
<1>19. SameKeys(tmp[f].entries, held[f])
  BY <1>18, KeysOfKeys DEF SameKeys
<1>20. \A g \in File : SameKeys(dir'[g].entries, held'[g])
  BY <1>1, <1>5, <1>19 DEF KInv, Kept
<1>21. Kept'
  BY <1>11, <1>20 DEF Kept, Copying
<1> QED BY <1>17, <1>21 DEF KInv

LEMMA NewEntryFacts ==
    ASSUME NEW e, e = NewEntry \/ e = [NewEntry EXCEPT !.state = "torn"]
    PROVE  /\ e \in Entry /\ e.state \in {"key", "torn"} /\ (e.state = "key" <=> e = NewEntry)
           /\ IsKey(NewEntry)
<1>1. NewEntry \in Entry /\ NewEntry.state = "key"
  BY DEF NewEntry, Entry, CipherNames
<1>2. PICK t : t = [key |-> 0, cipher |-> "AES_256", state |-> "torn"]
  OBVIOUS
<1>3. t \in Entry /\ t.state = "torn" /\ [NewEntry EXCEPT !.state = "torn"] = t
  BY <1>2 DEF NewEntry, Entry, CipherNames
<1>4. CASE e = NewEntry
  BY <1>1, <1>4 DEF IsKey
<1>5. CASE e = [NewEntry EXCEPT !.state = "torn"]
  <2>1. e = t /\ e # NewEntry
    BY <1>1, <1>3, <1>5
  <2> QED BY <1>1, <1>3, <2>1 DEF IsKey
<1> QED BY <1>4, <1>5

\* What a file has once the entry that was cut short is overwritten.
LEMMA EntriesFacts ==
    ASSUME KInv, ~Copying, NEW f \in File
    PROVE  /\ Entries(f) \in Seq(Entry) /\ SameKeys(Entries(f), held[f])
           /\ \A i \in DOMAIN Entries(f) : Entries(f)[i].state # "torn"
<1>1. PICK t : t = dir[f].entries
  OBVIOUS
<1>2. t \in Seq(Entry) /\ \A i \in 1 .. Len(t) - 1 : t[i].state # "torn"
  BY <1>1 DEF KInv, EntryTypes, TypeOK, IsEntries
<1>3. KeysOf(t, held[f], Len(held[f]))
  BY <1>1 DEF KInv, Kept, SameKeys
<1>4. PICK n \in Nat : n = Len(t)
  BY <1>2
<1>5. CASE n > 0 /\ t[n].state = "torn"
  <2>1. Entries(f) = SubSeq(t, 1, n - 1)
    BY <1>1, <1>4, <1>5 DEF Entries
  <2>2. PICK s : s = Entries(f)
    OBVIOUS
  <2>3. s \in Seq(Entry) /\ Len(s) = n - 1 /\ \A i \in 1 .. n - 1 : s[i] = t[i]
    BY <1>2, <1>4, <1>5, <2>1, <2>2
  <2>4. KeysAt(s, Len(s)) = KeysAt(t, Len(t)) /\ \A i \in KeysAt(t, Len(t)) : s[i] = t[i]
    BY <1>4, <1>5, <2>3 DEF KeysAt, IsKey
  <2>5. KeysOf(s, held[f], Len(held[f]))
    BY <1>3, <2>4, KeysOfSame
  <2>6. DOMAIN s = 1 .. n - 1
    BY <1>4, <1>5, <2>3
  <2>7. \A i \in DOMAIN s : s[i].state # "torn"
    BY <1>2, <1>4, <2>3, <2>6
  <2> QED BY <2>2, <2>3, <2>5, <2>7 DEF SameKeys
<1>6. CASE ~(n > 0 /\ t[n].state = "torn")
  <2>1. Entries(f) = t
    BY <1>1, <1>4, <1>6 DEF Entries
  <2>2. DOMAIN t = 1 .. n
    BY <1>2, <1>4
  <2>3. \A i \in DOMAIN t : t[i].state # "torn"
    BY <1>2, <1>4, <1>6, <2>2
  <2> QED BY <1>2, <1>3, <2>1, <2>3 DEF SameKeys
<1> QED BY <1>5, <1>6

\* An entry, complete or cut short, is added to a file.
LEMMA EntryWritten ==
    ASSUME IInv, KInv, ~Copying, NEW f \in File,
           NEW e, e = NewEntry \/ e = [NewEntry EXCEPT !.state = "torn"],
           NEW ver, dir' = [dir EXCEPT ![f] = [ver |-> ver, entries |-> Append(Entries(f), e)]]
    PROVE  \A g \in File :
              /\ dir'[g].entries \in Seq(Entry) /\ IsEntries(dir'[g].entries)
              /\ g # f => dir'[g] = dir[g]
              /\ e = NewEntry => SameKeys(dir'[f].entries, Append(held[f], e))
              /\ e # NewEntry => SameKeys(dir'[f].entries, held[f])
<1>1. PICK s, h : s = Entries(f) /\ h = held[f]
  OBVIOUS
<1>2. /\ s \in Seq(Entry) /\ h \in Seq(Entry) /\ KeysOf(s, h, Len(h))
      /\ \A i \in DOMAIN s : s[i].state # "torn"
  BY <1>1, EntriesFacts DEF KInv, EntryTypes, SameKeys
<1>3. e \in Entry /\ e.state \in {"key", "torn"} /\ (e.state = "key" <=> e = NewEntry)
  BY NewEntryFacts
<1>4. PICK s2 : s2 = Append(s, e)
  OBVIOUS
<1>5. PICK l \in Nat : l = Len(s)
  BY <1>2
<1>6. /\ s2 \in Seq(Entry) /\ Len(s2) = l + 1 /\ s2[l + 1] = e
      /\ \A i \in 1 .. l : s2[i] = s[i]
  BY <1>2, <1>3, <1>4, <1>5, EntryAdded
<1>7. IsEntries(s2)
  <2>1. \A i \in DOMAIN s2 : s2[i] \in Entry
    BY <1>6
  <2>2. \A i \in DOMAIN s2 : s2[i].state \in {"key", "empty", "torn"}
    BY <2>1 DEF Entry
  <2>3. \A i \in 1 .. l : s2[i].state # "torn"
    BY <1>2, <1>5, <1>6
  <2> QED BY <1>6, <2>2, <2>3 DEF IsEntries
<1>8. /\ dir'[f].entries = s2 /\ \A g \in File : g # f => dir'[g] = dir[g]
  BY <1>1, <1>4 DEF IInv, Shape
<1>9. ASSUME NEW g \in File PROVE dir'[g].entries \in Seq(Entry) /\ IsEntries(dir'[g].entries)
  <2>1. dir[g].entries \in Seq(Entry) /\ IsEntries(dir[g].entries)
    BY DEF KInv, EntryTypes, TypeOK
  <2> QED BY <1>6, <1>7, <1>8, <2>1
<1>10. ASSUME e = NewEntry PROVE SameKeys(s2, Append(h, e))
  <2>0. PICK n \in Nat : n = Len(h)
    BY <1>2
  <2>1. PICK h2 : h2 = Append(h, e) /\ n = Len(h)
    BY <2>0
  <2>2. Len(h2) = n + 1 /\ h2[n + 1] = e /\ \A k \in 1 .. n : h2[k] = h[k]
    BY <1>2, <1>3, <2>1, EntryAdded
  <2>3. IsKey(e)
    BY <1>10, NewEntryFacts
  <2>4. KeysOf(s2, h2, n + 1)
    <3>1. KeysOf(s, h, n) /\ Len(s2) = Len(s) + 1 /\ \A i \in 1 .. Len(s) : s2[i] = s[i]
      BY <1>2, <1>5, <1>6, <2>1
    <3>2. s2[Len(s) + 1] = e
      BY <1>5, <1>6
    <3>3. IsKey(s2[Len(s) + 1]) /\ IsKey(h2[n + 1]) /\ KeyIn(s2[Len(s) + 1]) = KeyIn(h2[n + 1])
      BY <2>2, <2>3, <3>2
    <3> QED BY <1>2, <1>6, <2>2, <3>1, <3>3, KeysOfAppend
  <2> QED BY <2>1, <2>2, <2>4 DEF SameKeys
<1>11. ASSUME e # NewEntry PROVE SameKeys(s2, h)
  <2>1. ~IsKey(e)
    BY <1>3, <1>11 DEF IsKey
  <2> QED BY <1>2, <1>3, <1>4, <2>1, OtherAdded DEF SameKeys
<1> QED BY <1>1, <1>8, <1>9, <1>10, <1>11

LEMMA AddKeyKept == ASSUME IInv, KInv, NEW f \in File, AddKey(f) PROVE KInv'
<1>1. /\ phase = "up" /\ ~Copying /\ Good(dir[f], f)
      /\ UNCHANGED <<hasDir, tmp, version, unsynced, left, at, old, faults>>
  BY DEF AddKey, Copying, IInv, Done, AllGood
<1>2. /\ dir' = [dir EXCEPT ![f] = [ver |-> VersionOf(f), entries |-> Append(Entries(f), NewEntry)]]
      /\ held' = [held EXCEPT ![f] = Append(@, NewEntry)] /\ phase' = phase
  BY <1>1 DEF AddKey, Good
<1>3. \A g \in File : /\ dir'[g].entries \in Seq(Entry) /\ IsEntries(dir'[g].entries)
                      /\ g # f => dir'[g] = dir[g]
                      /\ SameKeys(dir'[f].entries, Append(held[f], NewEntry))
  BY <1>1, <1>2, EntryWritten
<1>4. NewEntry \in Entry
  BY NewEntryFacts
<1>5. /\ held' = [g \in File |-> held'[g]] /\ held'[f] = Append(held[f], NewEntry)
      /\ \A g \in File : g # f => held'[g] = held[g]
  BY <1>2 DEF KInv, EntryTypes
<1>6. ASSUME NEW g \in File PROVE held'[g] \in Seq(Entry)
  <2>1. held[g] \in Seq(Entry) /\ held[f] \in Seq(Entry)
    BY DEF KInv, EntryTypes
  <2> QED BY <1>4, <1>5, <2>1, EntryAdded
<1>7. TypeOK'
  BY <1>1, <1>2, <1>3 DEF KInv, EntryTypes, TypeOK
<1>8. ~Copying' /\ phase' # "entries"
  BY <1>1, <1>2 DEF Copying
<1>9. EntryTypes'
  BY <1>1, <1>3, <1>5, <1>6, <1>7, <1>8 DEF KInv, EntryTypes
<1>10. \A g \in File : SameKeys(dir'[g].entries, held'[g])
  BY <1>1, <1>3, <1>5 DEF KInv, Kept
<1>11. Kept'
  BY <1>8, <1>10 DEF Kept, Copying
<1> QED BY <1>9, <1>11 DEF KInv

\* A crash may leave an entry that is cut short, which is not a key.
LEMMA CrashKept == ASSUME IInv, KInv, Crash PROVE KInv'
<1>1. /\ phase' = IF Copying THEN "tool" ELSE "down"
      /\ version' \in {version} \cup unsynced /\ unsynced' = {} /\ left' = {} /\ at' = NoFile
      /\ faults < MaxFaults /\ faults' = faults + 1
      /\ UNCHANGED <<hasDir, tmp, old, held>>
  BY DEF Crash, Copying
<1>2. TypeOK
  BY DEF KInv, EntryTypes
<1>3. /\ Copying' <=> Copying
      /\ phase' \in Phases /\ phase' # "entries" /\ phase' # "copy"
  BY <1>1 DEF Copying, Phases
<1>4. /\ version' \in {"absent", "empty", "old", "current"} /\ faults' \in 0 .. MaxFaults
      /\ NoFile.file \in File /\ NoFile.read \in Nat
  <2>1. version' \in {"absent", "empty", "old", "current"}
    BY <1>1, <1>2 DEF TypeOK
  <2>2. faults' \in 0 .. MaxFaults
    BY <1>1, <1>2, StartupAssumption DEF TypeOK
  <2>3. NoFile.file \in File /\ NoFile.read \in Nat
    BY Wals DEF NoFile
  <2> QED BY <2>1, <2>2, <2>3
<1>5. /\ \A g \in File : dir'[g].entries \in Seq(Entry) /\ IsEntries(dir'[g].entries)
      /\ ~Copying => \A g \in File : SameKeys(dir'[g].entries, held[g])
  <2>1. CASE dir' = dir
    BY <2>1 DEF KInv, EntryTypes, TypeOK, Kept
  <2>2. CASE dir' # dir
    <3>1. PICK f \in File :
            /\ phase = "up" /\ dir[f].ver = VersionOf(f)
            /\ dir' = [dir EXCEPT ![f].entries =
                          Append(Entries(f), [NewEntry EXCEPT !.state = "torn"])]
      BY <2>2 DEF Crash
    <3>2. PICK e : e = [NewEntry EXCEPT !.state = "torn"]
      OBVIOUS
    <3>3. PICK s : s = Append(Entries(f), e)
      OBVIOUS
    <3>4. dir[f] = [ver |-> dir[f].ver, entries |-> dir[f].entries]
      BY DEF IInv, Shape, IsFile
    <3>5. [dir[f] EXCEPT !.entries = s] = [ver |-> dir[f].ver, entries |-> s]
      BY <3>4
    <3>6. dir' = [dir EXCEPT ![f] = [ver |-> dir[f].ver, entries |-> s]]
      BY <3>1, <3>2, <3>3, <3>5
    <3>7. e # NewEntry
      BY <3>2 DEF NewEntry
    <3>8. ~Copying
      BY <3>1 DEF Copying
    <3>9. \A g \in File : /\ dir'[g].entries \in Seq(Entry) /\ IsEntries(dir'[g].entries)
                          /\ g # f => dir'[g] = dir[g]
                          /\ SameKeys(dir'[f].entries, held[f])
      BY <3>2, <3>3, <3>6, <3>7, <3>8, EntryWritten
    <3> QED BY <3>8, <3>9 DEF KInv, Kept
  <2> QED BY <2>1, <2>2
<1>6. TypeOK'
  BY <1>1, <1>2, <1>3, <1>4, <1>5 DEF TypeOK
<1>7. EntryTypes'
  BY <1>1, <1>3, <1>5, <1>6 DEF KInv, EntryTypes
<1>8. Kept'
  BY <1>1, <1>3, <1>5 DEF KInv, Kept
<1> QED BY <1>7, <1>8 DEF KInv

LEMMA InitKInv == Init => KInv
<1> SUFFICES ASSUME Init PROVE KInv
  OBVIOUS
<1>1. PICK d \in Directories, v \in Versions :
        /\ held = [f \in File |-> d[f].entries]
        /\ \/ phase = "down" /\ hasDir = TRUE /\ dir = d /\ version = v
           \/ d = Nothing /\ v = "absent" /\ phase = "down" /\ hasDir = FALSE
              /\ dir = d /\ version = v
           \/ phase = "tool" /\ hasDir \in BOOLEAN /\ dir = Nothing
              /\ version = (IF hasDir THEN "current" ELSE "absent")
              /\ old = [files |-> d, version |-> v]
  BY DEF Init
<1>2. tmp = Nothing /\ unsynced = {} /\ left = {} /\ at = NoFile /\ faults = 0
  BY DEF Init
<1>3. d \in [File -> [ver : Int, entries : Seq(Entry)]] /\ \A f \in File : IsEntries(d[f].entries)
  BY <1>1, StartupAssumption
<1>4. v \in {"absent", "old", "current"}
  BY <1>1, StartupAssumption
<1>5. <<>> \in Seq(Entry) /\ IsEntries(<<>>) /\ DOMAIN <<>> = {}
  BY DEF IsEntries
<1>6. \A f \in File : Nothing[f].entries = <<>>
  BY DEF Nothing, Absent
<1>7. \A f \in File : d[f].entries \in Seq(Entry) /\ held[f] = d[f].entries
  BY <1>1, <1>3
<1>8. dir = d \/ dir = Nothing
  BY <1>1
<1>9. \A f \in File : dir[f].entries \in Seq(Entry) /\ IsEntries(dir[f].entries)
  BY <1>3, <1>5, <1>6, <1>7, <1>8
<1>10. phase \in {"down", "tool"} /\ hasDir \in BOOLEAN /\ version \in {"absent", "old", "current"}
  <2>1. CASE phase = "down" /\ dir = d
    BY <1>1, <1>4, <2>1
  <2>2. CASE phase = "tool"
    BY <1>1, <2>2
  <2> QED BY <1>1, <2>1, <2>2
<1>11. TypeOK
  <2>1. NoFile.file \in File /\ NoFile.read \in Nat /\ 0 \in 0 .. MaxFaults
    BY Wals, StartupAssumption DEF NoFile
  <2>2. \A f \in File : \A i \in DOMAIN tmp[f].entries : tmp[f].entries[i].state # "torn"
    BY <1>2, <1>5, <1>6
  <2>3. phase \in Phases
    BY <1>10 DEF Phases
  <2> QED BY <1>2, <1>9, <1>10, <2>1, <2>2, <2>3 DEF TypeOK
<1>12. Copying => old.files = d /\ old.version = v
  BY <1>1 DEF Copying
<1>13. ~Copying => dir = d
  BY <1>1 DEF Copying
<1>14. \A f \in File : SameKeys(d[f].entries, held[f])
  BY <1>7, KeysOfItself
<1>15. held = [f \in File |-> held[f]] /\ \A f \in File : tmp[f].entries \in Seq(Entry)
  BY <1>1, <1>2, <1>5, <1>6
<1>16. EntryTypes
  BY <1>3, <1>4, <1>7, <1>9, <1>11, <1>12, <1>15 DEF EntryTypes
<1>17. phase # "copy" /\ phase # "entries"
  BY <1>10
<1>18. Kept
  BY <1>12, <1>13, <1>14, <1>17 DEF Kept
<1> QED BY <1>16, <1>18 DEF KInv

LEMMA NextKInv == PartialCopy = FALSE /\ IInv /\ CipherInv /\ KInv /\ [Next]_vars => KInv'
<1> SUFFICES ASSUME PartialCopy = FALSE, IInv, CipherInv, KInv, [Next]_vars PROVE KInv'
  OBVIOUS
<1>1. CASE Starting
  <2>1. CASE RemoveDir \/ MakeDir \/ CopyVersion \/ Copied
    BY <2>1, RemoveDirKept, MakeDirKept, CopiedKept
  <2>2. CASE \E f \in File, ok \in CopyResults : CopyFile(f, ok)
    BY <2>2, CopyFileKept
  <2>3. CASE \E f \in File : Migrate(f)
    BY <2>3, MigrateKept
  <2>4. CASE MigrateEntry \/ RenameMigrated
    BY <2>4, MigrateEntryKept, RenameMigratedKept
  <2>5. CASE InitDataDir \/ CheckVersion \/ RemoveVersion \/ AllMigrated \/ TruncateVersion
             \/ WriteVersion(TRUE) \/ InitWrite
    BY <2>5, StartKept
  <2> QED BY <1>1, <2>1, <2>2, <2>3, <2>4, <2>5 DEF Starting
<1>2. CASE \E f \in File : AddKey(f)
  BY <1>2, AddKeyKept
<1>3. CASE WriteVersion(FALSE) \/ Stop
  BY <1>3, StartKept
<1>4. CASE Crash
  BY <1>4, CrashKept
<1>5. CASE SyncVersion \/ UNCHANGED vars
  BY <1>5, SyncVersionKept
<1> QED BY <1>1, <1>2, <1>3, <1>4, <1>5 DEF Next

\* If the copy made by open_pg_tde_upgrade is complete, no key is lost, added,
\* altered or moved by a start, wherever it was cut short, whatever it had done
\* by then and however often it is repeated.
THEOREM KeysAlwaysSurvive ==
    ASSUME PartialCopy = FALSE
    PROVE  Spec => []KeysSurvive
<1>1. KInv => KeysSurvive
  BY DEF KInv, EntryTypes, Kept, KeysSurvive, Copying
<1>2. IInv /\ CipherInv /\ KInv /\ [Next]_vars => KInv'
  BY NextKInv
<1> QED BY <1>1, <1>2, InitIInv, NextIInv, InitCipherInv, NextCipherInv, InitKInv, PTL DEF Spec

=============================================================================
