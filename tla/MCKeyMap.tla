------------------------------ MODULE MCKeyMap ------------------------------
(* Instances of KeyMap for TLC. *)
EXTENDS KeyMap, TLC

\* Backends, relations and internal keys are interchangeable.
Interchangeable ==
    Permutations(Proc) \cup Permutations(Rel) \cup Permutations(RelKey)

=============================================================================
