----------------------------- MODULE MCDdlEvents -----------------------------
EXTENDS DdlEvents, TLC

\* Names and addresses are only compared.
Interchangeable == Permutations(Table) \cup Permutations(Addr)

=============================================================================
