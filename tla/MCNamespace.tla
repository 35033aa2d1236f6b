---------------------------- MODULE MCNamespace ----------------------------
\* Instance of Namespace for TLC.
EXTENDS Namespace, TLC

CONSTANTS a, b

Rel(segs) == [root |-> FALSE, up |-> 0, segs |-> segs]
MCNames == {Rel(<<a>>), Rel(<<b>>), Rel(<<b, a>>),
            [root |-> FALSE, up |-> 1, segs |-> <<b>>]}

MCAliases == {Rel(<<b>>), Rel(<<b, a>>)}

Addresses == Permutations(Nodes \ {RootNode})
=============================================================================
