------------------------------ MODULE FifoLock ------------------------------
(***************************************************************************)
(* What a first-come-first-served lock promises: clients stand in a line,  *)
(* and only the client at its head may be inside.  A client that fails     *)
(* leaves its place in the line behind, which then belongs to nobody.      *)
(***************************************************************************)
EXTENDS Integers, Sequences

CONSTANTS Clients, Nobody

VARIABLES line,    \* the places, first come first
          inside   \* the clients that have the lock

Init == line = <<>> /\ inside = {}

\* a client that fails while it joins leaves an empty place
Join(c) ==
  /\ c = Nobody \/ \A i \in 1..Len(line) : line[i] # c
  /\ line' = Append(line, c)
  /\ UNCHANGED inside

Enter(c) ==
  /\ line # <<>> /\ Head(line) = c
  /\ inside = {}
  /\ inside' = {c}
  /\ UNCHANGED line

Leave(c) ==
  /\ inside = {c}
  /\ inside' = {}
  /\ line' = Tail(line)

Fail(c) ==
  /\ \E i \in 1..Len(line) : line[i] = c
  /\ line' = [i \in 1..Len(line) |-> IF line[i] = c THEN Nobody ELSE line[i]]
  /\ inside' = inside \ {c}

PassOver ==
  /\ line # <<>> /\ Head(line) = Nobody
  /\ line' = Tail(line)
  /\ UNCHANGED inside

Clear ==
  /\ \A i \in 1..Len(line) : line[i] = Nobody
  /\ line' = <<>>
  /\ UNCHANGED inside

Next ==
  \/ \E c \in Clients : Join(c) \/ Enter(c) \/ Leave(c) \/ Fail(c)
  \/ Join(Nobody) \/ PassOver \/ Clear

Spec == Init /\ [][Next]_<<line, inside>>
=============================================================================
