-------------------------- MODULE MCKeyProviders --------------------------
EXTENDS KeyProviders

CONSTANTS a, b

\* Names that differ in more than their case, and names that do not.
FoldDistinct == [n \in {a, b} |-> n]
FoldEqual == [n \in {a, b} |-> a]

=============================================================================
