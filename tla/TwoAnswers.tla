----------------------------- MODULE TwoAnswers -----------------------------
(***************************************************************************)
(* What a calculator promises of every request it takes: a first answer,   *)
(* then a last one, and no others.  No thread or queue appears here.  The  *)
(* variable running of RequestChain is such a set, one for each process.   *)
(***************************************************************************)
CONSTANT Inputs

VARIABLE owed  \* pairs <<input, number of its next answer>>

Init == owed = {}

Take(i) ==
  /\ \A n \in {1, 2} : <<i, n>> \notin owed
  /\ owed' = owed \cup {<<i, 1>>}

AnswerFirst(i) == <<i, 1>> \in owed /\ owed' = (owed \ {<<i, 1>>}) \cup {<<i, 2>>}

AnswerLast(i) == <<i, 2>> \in owed /\ owed' = owed \ {<<i, 2>>}

Stop == owed' = {}

Next == Stop \/ \E i \in Inputs : Take(i) \/ AnswerFirst(i) \/ AnswerLast(i)

Spec == Init /\ [][Next]_owed
=============================================================================
