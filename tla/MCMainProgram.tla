---------------------------- MODULE MCMainProgram ----------------------------
EXTENDS MainProgram

CONSTANTS m1, t1, c1

\* each calculator serves every group
AllGroups == [c \in Calculators |-> Groups]
=============================================================================
