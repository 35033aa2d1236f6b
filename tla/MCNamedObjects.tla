--------------------------- MODULE MCNamedObjects ---------------------------
\* Instance of NamedObjects for TLC.
EXTENDS NamedObjects, TLC

Paths == Permutations(Names)
=============================================================================
