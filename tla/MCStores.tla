------------------------------ MODULE MCStores ------------------------------
EXTENDS Stores

CONSTANTS u1, u2, x, y, k

Symmetry == Permutations(Users)
=============================================================================
