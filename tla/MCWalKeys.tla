------------------------------ MODULE MCWalKeys ------------------------------
(* Instances of WalKeys for TLC. *)
EXTENDS WalKeys, TLC

\* Processes and server keys are interchangeable.
Interchangeable == Permutations(Proc) \cup Permutations(SKey)

=============================================================================
