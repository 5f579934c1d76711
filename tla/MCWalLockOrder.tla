--------------------------- MODULE MCWalLockOrder ---------------------------
(* Instances of WalLockOrder for TLC. *)
EXTENDS WalLockOrder, TLC

=============================================================================
