------------------------------ MODULE MCRewind ------------------------------
(* Instances of Rewind for TLC. *)
EXTENDS Rewind

\* The WAL is plain, or under a keystream of the source's or the target's.
MCWalKeys == {{}, {"ws"}, {"wt"}}

\* One relation with every history up to three blocks, and small ones beside it.
MCMaxLen == [r \in Rels |-> IF r = 1 THEN 3 ELSE 1]
=============================================================================
