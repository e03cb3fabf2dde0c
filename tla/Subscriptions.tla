---------------------------- MODULE Subscriptions ----------------------------
(***************************************************************************)
(* How a client program gives its subscriptions back and ends.  The six    *)
(* programs of this repository do it in six ways, and Init chooses one:    *)
(*                                                                         *)
(*   "transaction"  follows the heartbeats of all servers; "exit" gives    *)
(*                  back what it knows of                                  *)
(*   "versionless"  likewise, and a timer ends it in any case              *)
(*   "page"         one server, found by its first heartbeat; with a timer *)
(*   "console", "window"  one server behind a fixed queue; no timer        *)
(*   "order"        a subscription from the command line: ends when its    *)
(*                  last answer comes                                      *)
(*                                                                         *)
(* A subscription of server s is the number of the registration it was     *)
(* made in; 0 is an id the program does not know.                          *)
(***************************************************************************)
EXTENDS Naturals, Sequences

CONSTANTS
  Servers,
  Queue,             \* the server behind the fixed queue
  MaxRegistrations,  \* bound: registrations per server
  MaxCrashes,        \* bound: crashes of servers
  MaxLate,           \* bound: heartbeats that come too late
  MaxOthers          \* bound: subscriptions given back by other programs

ASSUME SubscriptionsOK ==
  /\ Queue \in Servers
  /\ MaxRegistrations \in Nat \ {0}
  /\ MaxCrashes \in Nat /\ MaxLate \in Nat /\ MaxOthers \in Nat

VARIABLES
  program,       \* which of the programs runs
  registration,  \* registration[s]: registrations with server s so far
  connected,     \* connected[s]: server s is registered
  ids,           \* the ids the program keeps, one per server
  closing,       \* its user has asked it to end
  ended,         \* "no", or what ended it: "answers" or "timer"
  up,            \* up[s]: server s runs
  held,          \* held[s]: subscriptions server s has
  toServer,      \* toServer[s]: requests on their way
  toClient,      \* toClient[s]: answers on their way
  crashes,       \* crashes so far
  late,          \* late heartbeats so far
  others,        \* subscriptions other programs have given back
  heard          \* history: heard[s], the last id server s has confirmed

client == <<program, registration, connected, ids, closing, ended, heard>>
network == <<toServer, toClient>>
server == <<up, held>>
faults == <<crashes, late, others>>
vars == <<client, network, server, faults>>

Registering == {"transaction", "versionless"}
Timed == {"versionless", "page"}
Programs == Registering \cup {"page", "console", "window", "order"}

\* the servers the program deals with
Partners == IF program \in Registering THEN Servers ELSE {Queue}

Nothing == [s \in Servers |-> 0]
Running == ended = "no"

Subscribe(id) == [kind |-> "subscribe", id |-> id]
Unsubscribe(id) == [kind |-> "unsubscribe", id |-> id]

\* Programs with a queue subscribe at once.
Init ==
  /\ program \in Programs
  /\ connected = [s \in Servers |-> program \notin Registering /\ s = Queue]
  /\ registration = [s \in Servers |-> IF connected[s] THEN 1 ELSE 0]
  /\ toServer = [s \in Servers |-> IF connected[s] THEN <<Subscribe(1)>> ELSE <<>>]
  /\ toClient = [s \in Servers |-> <<>>]
  /\ ids = Nothing /\ heard = Nothing
  /\ closing = FALSE /\ ended = "no"
  /\ up = [s \in Servers |-> TRUE] /\ held = [s \in Servers |-> {}]
  /\ crashes = 0 /\ late = 0 /\ others = 0

-----------------------------------------------------------------------------
(* Registration with servers, by their heartbeats *)

\* A heartbeat of a server that is not registered: the first request subscribes.
Register(s) ==
  /\ program \in Registering /\ Running
  /\ up[s] /\ ~ connected[s] /\ registration[s] < MaxRegistrations
  /\ connected' = [connected EXCEPT ![s] = TRUE]
  /\ registration' = [registration EXCEPT ![s] = @ + 1]
  /\ toServer' = [toServer EXCEPT ![s] = Append(@, Subscribe(registration[s] + 1))]
  /\ UNCHANGED <<program, ids, closing, ended, heard, toClient, server, faults>>

\* slip: ids of servers that are gone are kept
Forgotten_Never(s) == ids

\* subscriptionIDRemover, removeID
Forgotten(s) == [ids EXCEPT ![s] = 0]

\* No heartbeat for too long.  Answers to the registration find nobody.
Deregister(s) ==
  /\ program \in Registering /\ Running /\ connected[s]
  /\ \/ ~ up[s] /\ UNCHANGED late
     \/ up[s] /\ late < MaxLate /\ late' = late + 1
  /\ connected' = [connected EXCEPT ![s] = FALSE]
  /\ ids' = Forgotten(s)
  /\ toClient' = [toClient EXCEPT ![s] = <<>>]
  /\ UNCHANGED <<program, registration, closing, ended, heard, toServer, server,
                 crashes, others>>

-----------------------------------------------------------------------------
(* Servers *)

Subscribed(id) == [kind |-> "subscribed", to |-> "subscriber", id |-> id]
Unsubscribed(id, to) == [kind |-> "unsubscribed", to |-> to, id |-> id]

\* who asks to give a subscription back is answered, and so is the subscription
Answers(s, m) ==
  IF m.kind = "subscribe" THEN <<Subscribed(m.id)>>
  ELSE (IF m.id \in held[s] THEN <<Unsubscribed(m.id, "subscriber")>> ELSE <<>>)
       \o <<Unsubscribed(m.id, "closer")>>

\* answers find the program as long as the registration lasts they belong to
Deliver(s, id, answers) ==
  toClient' = [toClient EXCEPT ![s] =
    @ \o IF connected[s] /\ id \in {0, registration[s]} THEN answers ELSE <<>>]

Handle(s) ==
  /\ up[s] /\ toServer[s] # <<>>
  /\ LET m == Head(toServer[s]) IN
     /\ held' = [held EXCEPT ![s] =
          IF m.kind = "subscribe" THEN @ \cup {m.id} ELSE @ \ {m.id}]
     /\ Deliver(s, m.id, Answers(s, m))
  /\ toServer' = [toServer EXCEPT ![s] = Tail(@)]
  /\ UNCHANGED <<client, up, faults>>

\* Another program gives the subscription back: the unsubscribe command.
OtherUnsubscribes(s) ==
  /\ up[s] /\ others < MaxOthers /\ others' = others + 1
  /\ \E id \in held[s] :
       /\ held' = [held EXCEPT ![s] = @ \ {id}]
       /\ Deliver(s, id, <<Unsubscribed(id, "subscriber")>>)
  /\ UNCHANGED <<client, up, toServer, crashes, late>>

\* A server loses its subscriptions, and maybe what it was asked.
Crash(s) ==
  /\ s \in Partners /\ up[s] /\ crashes < MaxCrashes /\ crashes' = crashes + 1
  /\ up' = [up EXCEPT ![s] = FALSE]
  /\ held' = [held EXCEPT ![s] = {}]
  /\ UNCHANGED toServer \/ toServer' = [toServer EXCEPT ![s] = <<>>]
  /\ UNCHANGED <<client, toClient, late, others>>

\* A server that is back before its heartbeat is missed is not registered anew.
Start(s) ==
  /\ ~ up[s] /\ up' = [up EXCEPT ![s] = TRUE]
  /\ UNCHANGED <<client, network, held, faults>>

-----------------------------------------------------------------------------
(* The user closes the program *)

\* exitCommandHandler: one request for each id
ExitRequests(s) == IF ids[s] = 0 THEN <<>> ELSE <<Unsubscribe(ids[s])>>

\* gsUnsubscriber of the window: whatever *gsIDPtr is
WindowRequests(s) == IF s = Queue THEN <<Unsubscribe(ids[s])>> ELSE <<>>

\* guiExitHandler: only when subscriptionID is known
GuiRequests(s) ==
  IF s = Queue /\ ids[s] # 0 THEN <<Unsubscribe(ids[s])>> ELSE <<>>

Requests(s) ==
  CASE program \in Registering -> ExitRequests(s)
    [] program = "window" -> WindowRequests(s)
    [] program \in {"page", "console"} -> GuiRequests(s)

\* nothing is on its way
Quiet == \A s \in Servers : toServer[s] = <<>> /\ toClient[s] = <<>>

\* The user closes the program; again, only when nothing happens any more.
Close ==
  /\ program # "order" /\ Running
  /\ ~ closing \/ Quiet
  /\ closing' = TRUE
  /\ ended' = IF program = "transaction" /\ ids = Nothing THEN "answers" ELSE "no"
  /\ toServer' = [s \in Servers |-> toServer[s] \o Requests(s)]
  /\ UNCHANGED <<program, registration, connected, ids, heard, toClient, server,
                 faults>>

\* the timer the program sets when it is closed
Timeout ==
  /\ program \in Timed /\ closing /\ Running
  /\ ended' = "timer"
  /\ UNCHANGED <<program, registration, connected, ids, closing, heard, network,
                 server, faults>>

-----------------------------------------------------------------------------
(* The program hears an answer *)

\* slip: only the answer to the subscription itself is looked at
ManagerForgets_OwnOrder(s, a) == a.id = ids[s] /\ a.to = "subscriber"

\* subscriptionIDManager: the id given back is the one kept for the server
ManagerForgets(s, a) == a.id = ids[s]

\* unsubscribeDetector over several servers: the answer to an order kept
DetectorForgets(s, a) == a.id = ids[s] /\ a.to = "subscriber"

Left(s, a) ==
  IF \/ program = "transaction" /\ ManagerForgets(s, a)
     \/ program = "versionless" /\ DetectorForgets(s, a)
    THEN [ids EXCEPT ![s] = 0] ELSE ids

\* slip: the first subscription given back ends the program
ManagerEnds_AtFirst(s, a) == a.id = ids[s]

ManagerEnds(s, a) == a.id = ids[s] /\ Left(s, a) = Nothing

DetectorEnds(s, a) == Left(s, a) = Nothing

\* unsubscribeDetector of the console and of the page
GuiEnds(s, a) == a.id = ids[s]

\* unsubscribeDetector of the window: the last answer to its own order
WindowEnds(s, a) == a.id = ids[s] /\ a.to = "subscriber"

\* printAck: the last answer to the order
OrderEnds(s, a) == a.to = "subscriber"

Ends(s, a) ==
  CASE program = "transaction" -> ManagerEnds(s, a)
    [] program = "versionless" -> DetectorEnds(s, a)
    [] program \in {"page", "console"} -> GuiEnds(s, a)
    [] program = "window" -> WindowEnds(s, a)
    [] program = "order" -> OrderEnds(s, a)

HearSubscribed(s, a) ==
  /\ a.kind = "subscribed"
  /\ ids' = [ids EXCEPT ![s] = a.id] /\ heard' = [heard EXCEPT ![s] = a.id]
  /\ UNCHANGED ended

HearUnsubscribed(s, a) ==
  /\ a.kind = "unsubscribed"
  /\ ids' = Left(s, a)
  /\ ended' = IF Ends(s, a) THEN "answers" ELSE "no"
  /\ UNCHANGED heard

Hear(s) ==
  /\ Running /\ toClient[s] # <<>>
  /\ toClient' = [toClient EXCEPT ![s] = Tail(@)]
  /\ HearSubscribed(s, Head(toClient[s])) \/ HearUnsubscribed(s, Head(toClient[s]))
  /\ UNCHANGED <<program, registration, connected, closing, toServer, server, faults>>

-----------------------------------------------------------------------------
\* What servers do after the program has ended is left out.
ServerStep(s) ==
  Running /\ (Handle(s) \/ OtherUnsubscribes(s) \/ Crash(s) \/ Start(s))

Next ==
  \/ Close \/ Timeout
  \/ \E s \in Servers : Register(s) \/ Deregister(s) \/ Hear(s) \/ ServerStep(s)

Spec == Init /\ [][Next]_vars

\* Programs, servers and the timer do not stop for ever; a missing heartbeat is
\* noticed; a user who closed the program closes it again when nothing happens.
Fairness ==
  /\ WF_vars(Timeout) /\ WF_vars(closing /\ Close)
  /\ \A s \in Servers :
       /\ WF_vars(Hear(s)) /\ WF_vars(Running /\ Handle(s)) /\ WF_vars(Running /\ Start(s))
       /\ WF_vars(~ up[s] /\ Deregister(s))

FairSpec == Spec /\ Fairness

-----------------------------------------------------------------------------
(* Properties *)

\* Every variable keeps its type; ids are kept of registered servers only.
TypeOK ==
  /\ program \in Programs /\ closing \in BOOLEAN
  /\ ended \in {"no", "answers", "timer"}
  /\ registration \in [Servers -> 0..MaxRegistrations]
  /\ connected \in [Servers -> BOOLEAN] /\ up \in [Servers -> BOOLEAN]
  /\ \A s \in Servers :
       /\ ids[s] \in {0} \cup IF connected[s] THEN {registration[s]} ELSE {}
       /\ heard[s] \in 0..registration[s] /\ held[s] \subseteq 1..registration[s]

\* A program that was ended by answers leaves no subscription behind that it
\* has heard of on a connection that still stands.
CleanExit ==
  ended = "answers" =>
    \A s \in Servers : connected[s] /\ heard[s] = registration[s] => heard[s] \notin held[s]

\* Programs that may hang on after a server has crashed: they wait for an
\* answer of the server that lost their subscription.
Stubborn == {"console", "window"}

\* A program whose user closes it, insisting where needed, ends in spite of
\* crashed servers and lost requests, unless it is a stubborn one.
ExitEnds == closing ~> (~ Running \/ (program \in Stubborn /\ crashes > 0))
=============================================================================
