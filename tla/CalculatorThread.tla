-------------------------- MODULE CalculatorThread --------------------------
(***************************************************************************)
(* The external calculator (simple_demo/external_logic/Calculator.cpp, and *)
(* under another name simple_demo_chain_version/external_logic): a request *)
(* starts a detached thread that queues it, sleeps two seconds and queues  *)
(* it again; the calculator's own thread takes over the queue under the    *)
(* mutex and calls the listener for each element.  The condition variable  *)
(* is left out, since the thread wakes up every second anyway.             *)
(***************************************************************************)
EXTENDS Sequences

CONSTANT Inputs

VARIABLES
  sleeping,    \* detached threads: <<input, count>> of the next call of request
  incoming,    \* incoming_
  processing   \* processing_, from the element in hand on

thread == <<sleeping, incoming, processing>>

ThreadInit == sleeping = {} /\ incoming = <<>> /\ processing = <<>>

ThreadTypeOK ==
  /\ sleeping \subseteq Inputs \X {1, 2}
  /\ incoming \in Seq(Inputs \X {1, 2})
  /\ processing \in Seq(Inputs \X {1, 2})

\* Calculator::request
StartThread(i) ==
  /\ sleeping' = sleeping \cup {<<i, 1>>}
  /\ UNCHANGED <<incoming, processing>>

\* slip: what comes last is taken first
Request_Front(i, count) ==
  /\ <<i, count>> \in sleeping
  /\ incoming' = <<<<i, count>>>> \o incoming
  /\ sleeping' = (sleeping \ {<<i, count>>}) \cup (IF count = 1 THEN {<<i, 2>>} ELSE {})
  /\ UNCHANGED processing

\* CalculatorImpl::request, the first time and again after the sleep
Request(i, count) ==
  /\ <<i, count>> \in sleeping
  /\ incoming' = Append(incoming, <<i, count>>)
  /\ sleeping' = (sleeping \ {<<i, count>>}) \cup (IF count = 1 THEN {<<i, 2>>} ELSE {})
  /\ UNCHANGED processing

\* slip: what is still being processed is overwritten
Splice_Overwriting ==
  /\ incoming # <<>>
  /\ processing' = incoming /\ incoming' = <<>>
  /\ UNCHANGED sleeping

Splice ==
  /\ processing = <<>> /\ incoming # <<>>
  /\ processing' = incoming /\ incoming' = <<>>
  /\ UNCHANGED sleeping

\* the listener is called with the answer of this number to i
Answer(i, count) ==
  /\ processing # <<>> /\ Head(processing) = <<i, count>>
  /\ processing' = Tail(processing)
  /\ UNCHANGED <<sleeping, incoming>>

\* the process ends
Exit == sleeping' = {} /\ incoming' = <<>> /\ processing' = <<>>

Queued == {incoming[n] : n \in DOMAIN incoming}
          \cup {processing[n] : n \in DOMAIN processing}

\* what the thread still owes, as TwoAnswers counts it
Owed ==
  LET jobs == sleeping \cup Queued IN
  {j \in jobs : j[2] = 1 \/ <<j[1], 1>> \notin jobs}
=============================================================================
