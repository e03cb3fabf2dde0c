------------------------- MODULE MCSharedChainBank -------------------------
EXTENDS SharedChainBank, TLC

CONSTANTS p1, p2

\* programs started without a part do everything
AllParts == [p \in Programs |-> {"a-to-b", "b-to-a", "process"}]

Symmetry == Permutations(Programs)
=============================================================================
