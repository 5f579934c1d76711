------------------------------ MODULE MCPageIO ------------------------------
(* Instances of PageIO, of WalCrypt and of the arithmetic of Ciphers, for TLC. *)
EXTENDS PageIO, WalCrypt, Ciphers, TLC

Symmetric == Permutations(Proc) \cup Permutations(Key) \cup Permutations(Rel) \cup Permutations(IO)

-----------------------------------------------------------------------------
(* Buffers of WAL.                                                             *)

MCTli == 2
MCSeg == 1

\* The buffers are of a segment of timeline 2: on it ranges begin and end in, just
\* outside of and far from the segment, on the timelines before and after it at a
\* position before or after the segment.
Boundaries ==
    [tli : {MCTli}, lsn : {0} \cup SegSize - 1 .. 2 * SegSize + 1]
    \cup [tli : {MCTli - 1, MCTli + 1}, lsn : {1, 3 * SegSize}]

KeyFrom(l, m, e) == [start |-> l, end |-> m, encrypted |-> e]

\* An encrypted range, then one with another key or none.
KeyLists ==
    {<<KeyFrom(t[1], t[2], TRUE), KeyFrom(t[2], t[3], e)>> :
        t \in {u \in Boundaries \X Boundaries \X Boundaries : Before(u[1], u[2]) /\ Before(u[2], u[3])},
        e \in BOOLEAN}

MCJobs ==
    {j \in [keys : KeyLists, tli : {MCTli}, seg : {MCSeg},
            off : 0 .. SegSize - 1, count : 1 .. SegSize] : j.off + j.count <= SegSize}

-----------------------------------------------------------------------------
(* WAL and relation files share no state, so their steps need no interleaving: *)
(* any one buffer of WAL is gone through first, and after one of them the      *)
(* processes use the relations.                                                *)

OneJob == CHOOSE j \in MCJobs : TRUE

MCInit == Init /\ CryptInit

UseRelations == Returned /\ job = OneJob /\ Next /\ UNCHANGED cryptVars
UseWal == CryptNext /\ UNCHANGED vars
Idle == Returned /\ job # OneJob /\ UNCHANGED vars /\ UNCHANGED cryptVars

MCSpec == MCInit /\ [][UseRelations \/ UseWal \/ Idle]_<<vars, cryptVars>>

-----------------------------------------------------------------------------
(* The vectors depend on their inputs and on no variable.  TLC goes through    *)
(* the inputs in the initial states, in which no key has been made.            *)
NoKeyYet == made = {}

\* CalcXLogPageIVPrefix() gives a WAL segment the same vector whichever compiler
\* built the server, and one that no other segment has.
SegmentVectors == NoKeyYet => SegmentIvs

\* CalcBlockIv() and tempfile_block_iv() give no two blocks that one key encrypts
\* the same vector; but a block of an init fork has the one that it will have as a
\* block of the main fork, and temporary files must have salts that differ in the
\* bytes that no block number reaches.
BlockVectors == NoKeyYet => BlockIvs
=============================================================================
