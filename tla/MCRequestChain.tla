--------------------------- MODULE MCRequestChain ---------------------------
EXTENDS RequestChain, TLC

CONSTANTS m1, t1, c1, c2

\* redundant calculators: each serves every group
AllGroups == [c \in Calculators |-> Groups]

\* partitioned calculators: c1 serves group 0 only, c2 the others
SplitGroups == [c \in Calculators |-> IF c = c1 THEN {0} ELSE Groups \ {0}]

\* overlapping groups: c1 serves group 0 only, the others everything, so that
\* there are requests two calculators compete for and requests only c2 serves
OverlappingGroups == [c \in Calculators |-> IF c = c1 THEN {0} ELSE Groups]

\* redundant calculators are interchangeable
CalculatorSymmetry == Permutations(Calculators)
=============================================================================
