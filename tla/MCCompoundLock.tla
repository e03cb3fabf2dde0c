--------------------------- MODULE MCCompoundLock ---------------------------
EXTENDS CompoundLock

CONSTANTS s1, s2, op, none
=============================================================================
