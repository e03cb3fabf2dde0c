------------------------ MODULE MCTransactionServers ------------------------
EXTENDS TransactionServers, TLC

CONSTANTS s1, s2, c1, c2, A, B

OneEach == [a \in {A, B} |-> 1]

\* the accounts start alike, so they may be exchanged too
Symmetry ==
  Permutations(Servers) \cup Permutations(Clients) \cup Permutations(AccountNames)
=============================================================================
