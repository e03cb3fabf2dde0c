------------------------- MODULE CompoundLockProof -------------------------
(***************************************************************************)
(* Proofs about the compound lock, for any number of servers, whatever     *)
(* they and the operator do and whenever they start, crash or lose a call. *)
(*                                                                         *)
(* Mutual exclusion rests on three facts about tickets: the tickets of     *)
(* live clients differ and lie between the two versions, a client that is  *)
(* inside has the ticket being served, and nothing a server knows or has   *)
(* still to hear of lock_queue is ahead of its version in etcd.            *)
(*                                                                         *)
(* That the version acquireLock returns covers all data rests on the       *)
(* revision of the turn: it is after all data, and whatever tells a server *)
(* its turn tells it a revision that is not before it, for the revisions   *)
(* of a server's responses never go back.  The one exception, a turn that  *)
(* comes between the ticket and the answer to the range request, is part   *)
(* of the property.                                                        *)
(*                                                                         *)
(* That the copy of an owner is the latest is proved for a lock whose      *)
(* servers all follow etcd before the first ticket is taken (QuietStart):  *)
(* a watch that starts later may miss data for good.                       *)
(***************************************************************************)
EXTENDS CompoundLock, SequenceTheorems, TLAPS

\* A response with a version of lock_queue still to store has one.
StoresVersion == \A s \in Servers :
  handling[s].stage \in {"revision", "version"} => handling[s].queue \in Nat

TypeInv == TypeOK /\ StoresVersion

\* Whoever waits or is inside has a ticket of his own that is not served yet.
TicketsOpen ==
  /\ queueVersion <= numberVersion
  /\ \A s \in Servers : Waits(s) => ticket[s] \in queueVersion..(numberVersion - 1)
  /\ ToolWaits => tool.number \in queueVersion..(numberVersion - 1)

TicketsDiffer ==
  /\ \A r, s \in Servers : Waits(r) /\ Waits(s) /\ r # s => ticket[r] # ticket[s]
  /\ \A s \in Servers : Waits(s) /\ ToolWaits => ticket[s] # tool.number

\* Whoever is inside has the ticket being served.
InsideServed ==
  /\ \A s \in Servers :
       phase[s] \in {"seen", "holding", "updated"} => ticket[s] = queueVersion
  /\ tool.phase = "holding" => tool.number = queueVersion

\* The versions of lock_queue a server knows or will hear of are not ahead.
KnownNotAhead == \A s \in Servers :
  /\ lockQueueVersion[s] <= queueVersion
  /\ handling[s].queue <= queueVersion
  /\ initResponse[s].queue <= queueVersion
  /\ watchNext[s] > 0 => \A i \in watchNext[s]..Len(log) :
       log[i].key = "lock_queue" => log[i].version <= queueVersion

DownForgets == \A s \in Servers :
  phase[s] = "down" =>
    /\ lockQueueVersion[s] = 0 /\ handling[s] = Nothing
    /\ initResponse[s] = NoResponse /\ watchNext[s] = 0 /\ starting[s] = {}

\* The ticket being served was given to a client that is gone.
Unowned ==
  /\ queueVersion < numberVersion
  /\ \A s \in Servers : Waits(s) => ticket[s] # queueVersion
  /\ ToolWaits => tool.number # queueVersion

\* The operator's unlock is about his own ticket or one without owner.
UnlockIsSafe ==
  unlockSeen # None =>
    /\ unlockSeen = queueVersion
    /\ tool.phase = "holding" \/ Unowned

TicketInv == TypeInv /\ TicketsOpen /\ TicketsDiffer /\ InsideServed
             /\ KnownNotAhead /\ DownForgets /\ UnlockIsSafe

-----------------------------------------------------------------------------
(* Types *)

LEMMA InitType == ConstantsAssumption /\ Init => TypeInv
  <1> SUFFICES ASSUME Init PROVE TypeInv
    OBVIOUS
  <1> USE DEF Init
  <1>1. log \in Seq(Event) /\ numberVersion \in Nat /\ queueVersion \in Nat
        /\ dataVersion \in Nat
    OBVIOUS
  <1>2. /\ phase \in [Servers -> Phases]
        /\ ticket \in [Servers -> Nat] /\ numRevision \in [Servers -> Nat]
        /\ granted \in [Servers -> Nat]
        /\ lockQueueVersion \in [Servers -> Nat]
        /\ lockQueueRevision \in [Servers -> Nat]
    BY DEF Phases
  <1>3. /\ starting \in [Servers -> SUBSET {"range", "watch"}]
        /\ answered \in [Servers -> Nat]
        /\ initResponse \in [Servers -> Versions \cup {NoResponse}]
        /\ watchNext \in [Servers -> Nat] /\ watchHeader \in [Servers -> Nat]
        /\ handling \in [Servers -> Response]
        /\ copy \in [Servers -> [version: Nat, data: Nat]]
    BY DEF Response, Nothing, None, EmptyCopy
  <1>4. /\ tool \in [phase: {"idle", "taking", "waiting", "holding"}, number: Nat]
        /\ unlockSeen \in Nat \cup {None}
        /\ crashes \in Nat /\ lost \in Nat
    OBVIOUS
  <1>5. StoresVersion
    BY DEF StoresVersion, Nothing
  <1> QED
    BY <1>1, <1>2, <1>3, <1>4, <1>5 DEF TypeInv, TypeOK

LEMMA WriteType ==
  ASSUME log \in Seq(Event), NEW key \in {"lock_number", "lock_queue", "data"},
         NEW version \in Nat, Write(key, version)
  PROVE  /\ log' \in Seq(Event)
         /\ Len(log') = Len(log) + 1
         /\ log'[Len(log) + 1] = [key |-> key, version |-> version]
         /\ \A i \in 1..Len(log) : log'[i] = log[i]
  <1>1. [key |-> key, version |-> version] \in Event
    BY DEF Event
  <1> QED
    BY <1>1 DEF Write

LEMMA HandleResponseType ==
  ASSUME TypeInv, NEW s \in Servers, NEW revision \in Nat,
         NEW queue \in Nat \cup {None}, NEW data \in Nat \cup {None},
         HandleResponse(s, revision, queue, data)
  PROVE  handling' \in [Servers -> Response] /\ StoresVersion'
  <1> DEFINE response == [stage |-> IF queue = None THEN "listener" ELSE "revision",
                          revision |-> revision, queue |-> queue, data |-> data]
  <1>1. response \in Response /\ (response.stage # "listener" => response.queue \in Nat)
    BY DEF Response
  <1>2. handling' = [handling EXCEPT ![s] = response]
    BY DEF HandleResponse
  <1> HIDE DEF response
  <1>3. response.stage \in {"revision", "version"} => response.queue \in Nat
    BY <1>1
  <1>4. handling \in [Servers -> Response] /\ StoresVersion
    BY DEF TypeInv, TypeOK
  <1> QED
    BY <1>1, <1>2, <1>3, <1>4 DEF StoresVersion

LEMMA TypeInvStep == ConstantsAssumption /\ TypeInv /\ [Next]_vars => TypeInv'
  <1> SUFFICES ASSUME ConstantsAssumption, TypeInv, [Next]_vars PROVE TypeInv'
    OBVIOUS
  <1> USE DEF TypeInv, TypeOK
  <1> USE DEF etcd, handler, atomics, stream, helper, faults
  <1>0. UNCHANGED handling => StoresVersion'
    BY DEF StoresVersion
  <1>1. ASSUME NEW s \in Servers, Launch(s) PROVE TypeInv'
    BY <1>0, <1>1 DEF Launch, Phases
  <1>2. ASSUME NEW s \in Servers, EtcdAnswersRange(s) PROVE TypeInv'
    <2>1. [number |-> numberVersion, queue |-> queueVersion, data |-> dataVersion]
            \in Versions
      BY DEF Versions
    <2>2. Len(log) \in Nat
      OBVIOUS
    <2> QED
      BY <1>0, <1>2, <2>1, <2>2 DEF EtcdAnswersRange
  <1>3. ASSUME NEW s \in Servers, EtcdStartsWatch(s) PROVE TypeInv'
    <2>1. Len(log) \in Nat
      OBVIOUS
    <2>2. /\ starting' \in [Servers -> SUBSET {"range", "watch"}]
          /\ watchNext' \in [Servers -> Nat]
      BY <1>3, <2>1 DEF EtcdStartsWatch
    <2>3. UNCHANGED <<etcd, handler, atomics, answered, initResponse, watchHeader,
                      handling, copy, helper, faults>>
      BY <1>3 DEF EtcdStartsWatch
    <2> QED
      BY <1>0, <2>2, <2>3
  <1>4. ASSUME NEW s \in Servers, ReceiveInit(s) PROVE TypeInv'
    <2>1. initResponse[s] \in Versions
      BY <1>4 DEF ReceiveInit
    <2>2. initResponse' \in [Servers -> Versions \cup {NoResponse}]
      BY <1>4 DEF ReceiveInit
    <2>3. handling' \in [Servers -> Response] /\ StoresVersion'
      <3>1. CASE UNCHANGED handling
        BY <3>1 DEF StoresVersion
      <3>2. CASE ~ UNCHANGED handling
        <4>1. PICK revision \in {watchHeader[s]}
                     \cup ({watchNext[s] - 1, watchNext[s]} \cap 0..Len(log)) :
                HandleResponse(s, revision,
                  IF initResponse[s].queue = 0 THEN None ELSE initResponse[s].queue,
                  IF initResponse[s].data = 0 THEN None ELSE initResponse[s].data)
          BY <1>4, <3>2 DEF ReceiveInit
        <4>2. revision \in Nat /\ initResponse[s].queue \in Nat
              /\ initResponse[s].data \in Nat
          BY <2>1 DEF Versions
        <4> QED
          BY <4>1, <4>2, HandleResponseType
      <3> QED
        BY <3>1, <3>2
    <2> QED
      BY <1>4, <2>2, <2>3 DEF ReceiveInit
  <1>5. ASSUME NEW s \in Servers, ReceiveEvent(s) PROVE TypeInv'
    <2>1. log[watchNext[s]] \in Event /\ watchNext[s] \in Nat
      BY <1>5 DEF ReceiveEvent
    <2>2. log[watchNext[s]].version \in Nat
      BY <2>1 DEF Event
    <2>3. handling' \in [Servers -> Response] /\ StoresVersion'
      BY <1>5, <2>1, <2>2, HandleResponseType DEF ReceiveEvent
    <2>4. watchNext' \in [Servers -> Nat] /\ watchHeader' \in [Servers -> Nat]
      <3>1. /\ watchHeader' = [watchHeader EXCEPT ![s] = watchNext[s]]
            /\ watchNext' = [watchNext EXCEPT ![s] = watchNext[s] + 1]
        BY <1>5 DEF ReceiveEvent
      <3>2. watchNext[s] + 1 \in Nat
        BY <2>1
      <3> QED
        BY <2>1, <3>1, <3>2
    <2>5. UNCHANGED <<etcd, handler, atomics, starting, answered, initResponse, copy,
                      helper, faults>>
      BY <1>5 DEF ReceiveEvent
    <2> QED
      BY <2>3, <2>4, <2>5
  <1>6. ASSUME NEW s \in Servers, StoreRevision(s) PROVE TypeInv'
    BY <1>6 DEF StoreRevision, Response, StoresVersion
  <1>7. ASSUME NEW s \in Servers, StoreVersion(s) PROVE TypeInv'
    BY <1>7 DEF StoreVersion, Response, StoresVersion
  <1>8. ASSUME NEW s \in Servers, OnUpdate(s) PROVE TypeInv'
    <2>1. copy' \in [Servers -> [version: Nat, data: Nat]]
      BY <1>8 DEF OnUpdate, Response
    <2>2. handling' \in [Servers -> Response] /\ StoresVersion'
      BY <1>8 DEF OnUpdate, Nothing, Response, StoresVersion, None
    <2> QED
      BY <1>8, <2>1, <2>2 DEF OnUpdate
  <1>9. ASSUME GiveTicket PROVE log' \in Seq(Event) /\ numberVersion' \in Nat
                                /\ queueVersion' \in Nat /\ dataVersion' \in Nat
    <2>1. Write("lock_number", numberVersion + 1) /\ numberVersion + 1 \in Nat
      BY <1>9 DEF GiveTicket
    <2>2. log' \in Seq(Event)
      BY <2>1, WriteType
    <2> QED
      BY <1>9, <2>2 DEF GiveTicket
  <1>10. ASSUME NEW s \in Servers, TakeTicket(s) PROVE TypeInv'
    <2>1. log' \in Seq(Event) /\ numberVersion' \in Nat
          /\ queueVersion' \in Nat /\ dataVersion' \in Nat
      BY <1>9, <1>10 DEF TakeTicket
    <2>2. phase' \in [Servers -> Phases] /\ ticket' \in [Servers -> Nat]
          /\ numRevision' \in [Servers -> Nat]
      BY <1>10 DEF TakeTicket, Phases
    <2> QED
      BY <1>0, <1>10, <2>1, <2>2 DEF TakeTicket
  <1>11. ASSUME NEW s \in Servers, TakeTicketLost(s) PROVE TypeInv'
    <2>1. log' \in Seq(Event) /\ numberVersion' \in Nat
          /\ queueVersion' \in Nat /\ dataVersion' \in Nat
      BY <1>9, <1>11 DEF TakeTicketLost
    <2>2. phase' \in [Servers -> Phases]
      BY <1>11 DEF TakeTicketLost, Phases
    <2>3. lost' \in Nat /\ UNCHANGED <<crashes, handling>>
      BY <1>11 DEF TakeTicketLost
    <2>4. UNCHANGED <<ticket, numRevision, granted, atomics, stream, helper>>
      BY <1>11 DEF TakeTicketLost
    <2> QED
      BY <1>0, <2>1, <2>2, <2>3, <2>4
  <1>12. ASSUME NEW s \in Servers, SeeTurn(s) PROVE TypeInv'
    BY <1>0, <1>12 DEF SeeTurn, Phases
  <1>13. ASSUME NEW s \in Servers, LoadRevision(s) PROVE TypeInv'
    BY <1>0, <1>13 DEF LoadRevision, Later, Phases
  <1>14. ASSUME NEW s \in Servers, Update(s) PROVE TypeInv'
    <2>1. log' \in Seq(Event) /\ dataVersion' \in Nat
      <3>1. Write("data", dataVersion + 1) /\ dataVersion + 1 \in Nat
        BY <1>14 DEF Update
      <3> QED
        BY <1>14, <3>1, WriteType DEF Update
    <2> QED
      BY <1>0, <1>14, <2>1 DEF Update, Phases
  <1>15. ASSUME PassOn PROVE log' \in Seq(Event) /\ numberVersion' \in Nat
                             /\ queueVersion' \in Nat /\ dataVersion' \in Nat
    <2>1. Write("lock_queue", queueVersion + 1) /\ queueVersion + 1 \in Nat
      BY <1>15 DEF PassOn
    <2>2. log' \in Seq(Event)
      BY <2>1, WriteType
    <2> QED
      BY <1>15, <2>2 DEF PassOn
  <1>16. ASSUME NEW s \in Servers, Release(s) PROVE TypeInv'
    <2>1. log' \in Seq(Event) /\ numberVersion' \in Nat
          /\ queueVersion' \in Nat /\ dataVersion' \in Nat
      BY <1>15, <1>16 DEF Release
    <2>2. phase' \in [Servers -> Phases]
      BY <1>16 DEF Release, Phases
    <2> QED
      BY <1>0, <1>16, <2>1, <2>2 DEF Release
  <1>17. ASSUME NEW s \in Servers, ReleaseLost(s) PROVE TypeInv'
    <2>1. phase' \in [Servers -> Phases]
      BY <1>17 DEF ReleaseLost, Phases
    <2>2. lost' \in Nat /\ UNCHANGED <<crashes, handling>>
      BY <1>17 DEF ReleaseLost
    <2>3. UNCHANGED <<etcd, ticket, numRevision, granted, atomics, stream, helper>>
      BY <1>17 DEF ReleaseLost
    <2> QED
      BY <1>0, <2>1, <2>2, <2>3
  <1>18. ASSUME NEW s \in Servers, Crash(s) PROVE TypeInv'
    <2>1. /\ phase' \in [Servers -> Phases]
          /\ ticket' \in [Servers -> Nat] /\ numRevision' \in [Servers -> Nat]
          /\ granted' \in [Servers -> Nat]
      BY <1>18 DEF Crash, Phases
    <2>2. /\ lockQueueVersion' \in [Servers -> Nat]
          /\ lockQueueRevision' \in [Servers -> Nat]
          /\ watchNext' \in [Servers -> Nat] /\ watchHeader' \in [Servers -> Nat]
      BY <1>18 DEF Crash
    <2>3. /\ starting' \in [Servers -> SUBSET {"range", "watch"}]
          /\ answered' \in [Servers -> Nat]
          /\ initResponse' \in [Servers -> Versions \cup {NoResponse}]
          /\ copy' \in [Servers -> [version: Nat, data: Nat]]
      BY <1>18 DEF Crash, EmptyCopy
    <2>4. handling' \in [Servers -> Response] /\ StoresVersion'
      BY <1>18 DEF Crash, Nothing, Response, StoresVersion, None
    <2>5. crashes' \in Nat /\ UNCHANGED <<etcd, helper, lost>>
      BY <1>18 DEF Crash
    <2> QED
      BY <2>1, <2>2, <2>3, <2>4, <2>5
  <1>19. ASSUME Tool PROVE TypeInv'
    <2> USE <1>0
    <2>1. CASE ToolReadNumber
      BY <2>1 DEF ToolReadNumber
    <2>2. CASE ToolTakeTicket
      BY <1>9, <2>2 DEF ToolTakeTicket
    <2>3. CASE ToolTakeFails
      BY <2>3 DEF ToolTakeFails
    <2>4. CASE ToolSeesTurn
      BY <2>4 DEF ToolSeesTurn
    <2>5. CASE ToolReadQueue
      BY <2>5 DEF ToolReadQueue
    <2>6. CASE ToolUnlock
      BY <1>15, <2>6 DEF ToolUnlock, None
    <2>7. CASE ToolInit
      <3>1. Write("lock_queue", 0)
        BY <2>7 DEF ToolInit
      <3>2. log' \in Seq(Event)
        BY <3>1, WriteType
      <3> QED
        BY <2>7, <3>2 DEF ToolInit
    <2> QED
      BY <1>19, <2>1, <2>2, <2>3, <2>4, <2>5, <2>6, <2>7 DEF Tool
  <1>20. CASE UNCHANGED vars
    BY <1>0, <1>20 DEF vars
  <1> HIDE DEF TypeInv
  <1> QED
    BY <1>1, <1>2, <1>3, <1>4, <1>5, <1>6, <1>7, <1>8, <1>10, <1>11, <1>12, <1>13,
       <1>14, <1>16, <1>17, <1>18, <1>19, <1>20
       DEF Next, DataStream, Handler

\* Every variable keeps its type.
THEOREM TypeCorrect == Spec => []TypeOK
  <1>1. ConstantsAssumption
    BY ConstantsOK
  <1>2. Init => TypeInv
    BY <1>1, InitType
  <1>3. TypeInv /\ [Next]_vars => TypeInv'
    BY <1>1, TypeInvStep
  <1>4. TypeInv => TypeOK
    BY DEF TypeInv
  <1> QED
    BY <1>2, <1>3, <1>4, PTL DEF Spec

-----------------------------------------------------------------------------
(* Mutual exclusion *)

TicketFacts == TicketsOpen /\ TicketsDiffer /\ InsideServed /\ UnlockIsSafe
KnownFacts == KnownNotAhead /\ DownForgets

LEMMA InitTickets == Init => TicketInv
  <1> SUFFICES ASSUME Init PROVE TicketInv
    OBVIOUS
  <1>1. TypeInv
    BY ConstantsOK, InitType
  <1>2. TicketsOpen /\ TicketsDiffer /\ InsideServed /\ UnlockIsSafe
    BY DEF Init, TicketsOpen, TicketsDiffer, InsideServed, UnlockIsSafe, Waits, ToolWaits
  <1>3. KnownNotAhead /\ DownForgets
    BY DEF Init, KnownNotAhead, DownForgets, Nothing, NoResponse, None
  <1> QED
    BY <1>1, <1>2, <1>3 DEF TicketInv

\* Steps of the data stream and of etcd's answers leave the tickets alone.
LEMMA SameTickets ==
  ASSUME TicketFacts,
         UNCHANGED <<numberVersion, queueVersion, phase, ticket, tool, unlockSeen>>
  PROVE  TicketFacts'
  BY DEF TicketFacts, TicketsOpen, TicketsDiffer, InsideServed, UnlockIsSafe, Unowned,
         Waits, ToolWaits

\* Steps of the handlers and of the tool leave what servers know alone.
LEMMA SameKnowledge ==
  ASSUME KnownFacts,
         UNCHANGED <<lockQueueVersion, handling, initResponse, watchNext, starting>>,
         UNCHANGED <<log, queueVersion>>,
         \A s \in Servers : phase'[s] = "down" => phase[s] = "down"
  PROVE  KnownFacts'
  BY DEF KnownFacts, KnownNotAhead, DownForgets

\* A write keeps every watch behind lock_queue's version.
LEMMA WriteKnowledge ==
  ASSUME TypeInv, KnownFacts,
         NEW key \in {"lock_number", "lock_queue", "data"}, NEW version \in Nat,
         Write(key, version),
         queueVersion' \in Nat, queueVersion <= queueVersion',
         key = "lock_queue" => version <= queueVersion',
         UNCHANGED <<lockQueueVersion, handling, initResponse, watchNext, starting>>,
         \A s \in Servers : phase'[s] = "down" => phase[s] = "down"
  PROVE  KnownFacts'
  <1>1. /\ Len(log') = Len(log) + 1
        /\ log'[Len(log) + 1] = [key |-> key, version |-> version]
        /\ \A i \in 1..Len(log) : log'[i] = log[i]
    BY WriteType DEF TypeInv, TypeOK
  <1>2. /\ Len(log) \in Nat
        /\ \A i \in 1..Len(log) : log[i].version \in Nat
    <2>1. log \in Seq(Event)
      BY DEF TypeInv, TypeOK
    <2>2. \A i \in 1..Len(log) : log[i] \in Event
      BY <2>1
    <2> QED
      BY <2>1, <2>2 DEF Event
  <1>3. ASSUME NEW s \in Servers, watchNext[s] > 0, NEW i \in watchNext[s]..Len(log'),
               log'[i].key = "lock_queue"
        PROVE  log'[i].version <= queueVersion'
    <2>1. watchNext[s] \in Nat /\ queueVersion \in Nat
      BY DEF TypeInv, TypeOK
    <2>2. CASE i = Len(log) + 1
      BY <1>1, <1>3, <2>2
    <2>3. CASE i # Len(log) + 1
      <3>1. i \in watchNext[s]..Len(log) /\ i \in 1..Len(log)
        BY <1>1, <1>2, <1>3, <2>1, <2>3
      <3>2. log[i].version <= queueVersion /\ log'[i] = log[i]
        BY <1>1, <1>3, <3>1 DEF KnownFacts, KnownNotAhead
      <3> QED
        BY <1>2, <2>1, <3>1, <3>2
    <2> QED
      BY <2>2, <2>3
  <1>4. ASSUME NEW s \in Servers
        PROVE  /\ lockQueueVersion'[s] <= queueVersion'
               /\ handling'[s].queue <= queueVersion'
               /\ initResponse'[s].queue <= queueVersion'
    <2>1. lockQueueVersion[s] \in Int /\ queueVersion \in Int
      BY DEF TypeInv, TypeOK
    <2>2. handling[s].queue \in Int
      BY DEF TypeInv, TypeOK, Response, None
    <2>3. initResponse[s].queue \in Int
      BY DEF TypeInv, TypeOK, Versions, NoResponse, None
    <2> QED
      BY <2>1, <2>2, <2>3 DEF KnownFacts, KnownNotAhead
  <1>5. KnownNotAhead'
    BY <1>3, <1>4 DEF KnownNotAhead
  <1>6. DownForgets'
    BY DEF KnownFacts, DownForgets
  <1> QED
    BY <1>5, <1>6 DEF KnownFacts

\* What the data stream does to what a server knows.
LEMMA StreamKnowledge ==
  ASSUME TypeInv, KnownFacts, NEW s \in Servers,
         \/ Launch(s) \/ EtcdAnswersRange(s) \/ EtcdStartsWatch(s)
         \/ ReceiveInit(s) \/ ReceiveEvent(s)
         \/ StoreRevision(s) \/ StoreVersion(s) \/ OnUpdate(s)
  PROVE  KnownFacts'
  <1> USE DEF KnownFacts
  <1>1. /\ queueVersion \in Nat /\ log \in Seq(Event)
        /\ phase \in [Servers -> Phases]
        /\ lockQueueVersion \in [Servers -> Nat]
        /\ starting \in [Servers -> SUBSET {"range", "watch"}]
        /\ initResponse \in [Servers -> Versions \cup {NoResponse}]
        /\ watchNext \in [Servers -> Nat]
        /\ handling \in [Servers -> Response]
    BY DEF TypeInv, TypeOK
  <1>2. CASE Launch(s)
    BY <1>1, <1>2 DEF Launch, KnownNotAhead, DownForgets, etcd, atomics
  <1>3. CASE EtcdAnswersRange(s)
    <2>1. phase[s] # "down"
      BY <1>3 DEF EtcdAnswersRange, DownForgets
    <2>2. initResponse'[s].queue = queueVersion
      BY <1>1, <1>3 DEF EtcdAnswersRange
    <2>3. \A r \in Servers \ {s} : initResponse'[r] = initResponse[r]
                                   /\ starting'[r] = starting[r]
      BY <1>1, <1>3 DEF EtcdAnswersRange
    <2>4. UNCHANGED <<log, queueVersion, phase, lockQueueVersion, handling, watchNext>>
      BY <1>3 DEF EtcdAnswersRange, etcd, handler, atomics
    <2>5. queueVersion <= queueVersion
      BY <1>1
    <2>6. KnownNotAhead'
      BY <2>2, <2>3, <2>4, <2>5 DEF KnownNotAhead
    <2>7. DownForgets'
      BY <2>1, <2>3, <2>4 DEF DownForgets
    <2> QED
      BY <2>6, <2>7
  <1>4. CASE EtcdStartsWatch(s)
    <2>1. phase[s] # "down"
      BY <1>4 DEF EtcdStartsWatch, DownForgets
    <2>2. watchNext'[s] = Len(log) + 1 /\ Len(log) \in Nat
      BY <1>1, <1>4 DEF EtcdStartsWatch
    <2>3. \A r \in Servers \ {s} : watchNext'[r] = watchNext[r]
                                   /\ starting'[r] = starting[r]
      BY <1>1, <1>4 DEF EtcdStartsWatch
    <2>4. UNCHANGED <<log, queueVersion, phase, lockQueueVersion, handling, initResponse>>
      BY <1>4 DEF EtcdStartsWatch, etcd, handler, atomics
    <2>5. \A i \in watchNext'[s]..Len(log') : FALSE
      BY <2>2, <2>4
    <2>6. KnownNotAhead'
      BY <2>3, <2>4, <2>5 DEF KnownNotAhead
    <2> QED
      BY <2>1, <2>3, <2>4, <2>6 DEF DownForgets
  <1>5. ASSUME NEW revision, NEW queue \in Nat \cup {None}, NEW data,
               HandleResponse(s, revision, queue, data), queue <= queueVersion
        PROVE  /\ handling'[s].queue <= queueVersion
               /\ \A r \in Servers \ {s} : handling'[r] = handling[r]
    BY <1>1, <1>5 DEF HandleResponse
  <1>6. CASE ReceiveInit(s)
    <2>1. phase[s] # "down"
      BY <1>6 DEF ReceiveInit, DownForgets
    <2>2. /\ handling'[s].queue <= queueVersion
          /\ \A r \in Servers \ {s} : handling'[r] = handling[r]
      <3>1. initResponse[s] \in Versions /\ initResponse[s].queue <= queueVersion
        BY <1>1, <1>6 DEF ReceiveInit, KnownNotAhead
      <3>2. initResponse[s].queue \in Nat
        BY <3>1 DEF Versions
      <3>3. CASE UNCHANGED handling
        BY <3>3 DEF KnownNotAhead
      <3>4. CASE ~ UNCHANGED handling
        <4>1. PICK revision, data : HandleResponse(s, revision,
                IF initResponse[s].queue = 0 THEN None ELSE initResponse[s].queue, data)
          BY <1>6, <3>4 DEF ReceiveInit
        <4>2. (IF initResponse[s].queue = 0 THEN None ELSE initResponse[s].queue)
                \in Nat \cup {None}
          BY <3>2
        <4>3. (IF initResponse[s].queue = 0 THEN None ELSE initResponse[s].queue)
                <= queueVersion
          BY <1>1, <3>1, <3>2 DEF None
        <4> QED
          BY <1>5, <4>1, <4>2, <4>3
      <3> QED
        BY <3>3, <3>4
    <2>3. initResponse'[s].queue <= queueVersion
      BY <1>1, <1>6 DEF ReceiveInit, NoResponse, None
    <2>4. \A r \in Servers \ {s} : initResponse'[r] = initResponse[r]
      BY <1>1, <1>6 DEF ReceiveInit
    <2>5. UNCHANGED <<log, queueVersion, phase, lockQueueVersion, watchNext, starting>>
      BY <1>6 DEF ReceiveInit, etcd, handler, atomics
    <2> QED
      BY <2>1, <2>2, <2>3, <2>4, <2>5 DEF KnownNotAhead, DownForgets
  <1>7. CASE ReceiveEvent(s)
    <2>1. phase[s] # "down" /\ watchNext[s] \in 1..Len(log) /\ watchNext[s] > 0
      BY <1>1, <1>7 DEF ReceiveEvent, DownForgets
    <2>2. log[watchNext[s]] \in Event
      BY <1>1, <2>1
    <2>3. log[watchNext[s]].version \in Nat
      BY <2>2 DEF Event
    <2>4. log[watchNext[s]].key = "lock_queue" => log[watchNext[s]].version <= queueVersion
      BY <2>1 DEF KnownNotAhead
    <2>5. /\ handling'[s].queue <= queueVersion
          /\ \A r \in Servers \ {s} : handling'[r] = handling[r]
      <3> DEFINE e == log[watchNext[s]]
                 queue == IF e.key = "lock_queue" THEN e.version ELSE None
      <3>1. queue \in Nat \cup {None} /\ queue <= queueVersion
        BY <1>1, <2>3, <2>4 DEF None
      <3>2. PICK data : HandleResponse(s, watchNext[s], queue, data)
        BY <1>7 DEF ReceiveEvent
      <3> HIDE DEF queue
      <3> QED
        BY <1>5, <3>1, <3>2
    <2>6. watchNext'[s] = watchNext[s] + 1
          /\ \A r \in Servers \ {s} : watchNext'[r] = watchNext[r]
      BY <1>1, <1>7 DEF ReceiveEvent
    <2>7. UNCHANGED <<log, queueVersion, phase, lockQueueVersion, initResponse, starting>>
      BY <1>7 DEF ReceiveEvent, etcd, handler, atomics
    <2>8. KnownNotAhead'
      <3>1. \A i \in watchNext'[s]..Len(log) : i \in watchNext[s]..Len(log)
        BY <2>1, <2>6
      <3> QED
        BY <2>1, <2>5, <2>6, <2>7, <3>1 DEF KnownNotAhead
    <2> QED
      BY <2>1, <2>5, <2>6, <2>7, <2>8 DEF DownForgets
  <1>8. CASE StoreRevision(s)
    <2>1. phase[s] # "down"
      BY <1>8 DEF StoreRevision, DownForgets, Nothing
    <2>2. handling'[s].queue = handling[s].queue
          /\ \A r \in Servers \ {s} : handling'[r] = handling[r]
      BY <1>1, <1>8 DEF StoreRevision
    <2>3. UNCHANGED <<log, queueVersion, phase, lockQueueVersion, initResponse,
                      watchNext, starting>>
      BY <1>8 DEF StoreRevision, etcd, handler
    <2> QED
      BY <2>1, <2>2, <2>3 DEF KnownNotAhead, DownForgets
  <1>9. CASE StoreVersion(s)
    <2>1. phase[s] # "down"
      BY <1>9 DEF StoreVersion, DownForgets, Nothing
    <2>2. /\ handling'[s].queue = handling[s].queue
          /\ lockQueueVersion'[s] = handling[s].queue
          /\ \A r \in Servers \ {s} : /\ handling'[r] = handling[r]
                                      /\ lockQueueVersion'[r] = lockQueueVersion[r]
      BY <1>1, <1>9 DEF StoreVersion, Response
    <2>3. UNCHANGED <<log, queueVersion, phase, initResponse, watchNext, starting>>
      BY <1>9 DEF StoreVersion, etcd, handler
    <2> QED
      BY <2>1, <2>2, <2>3 DEF KnownNotAhead, DownForgets
  <1>10. CASE OnUpdate(s)
    <2>1. handling'[s] = Nothing /\ \A r \in Servers \ {s} : handling'[r] = handling[r]
      BY <1>1, <1>10 DEF OnUpdate
    <2>2. Nothing.queue <= queueVersion
      BY <1>1 DEF Nothing, None
    <2>3. UNCHANGED <<log, queueVersion, phase, lockQueueVersion, initResponse,
                      watchNext, starting>>
      BY <1>10 DEF OnUpdate, etcd, handler, atomics
    <2> QED
      BY <2>1, <2>2, <2>3 DEF KnownNotAhead, DownForgets
  <1> QED
    BY <1>2, <1>3, <1>4, <1>6, <1>7, <1>8, <1>9, <1>10

\* The operator has read lock_queue for an unlock and nobody is inside but him.
LEMMA NobodyElsePassesOn ==
  ASSUME TicketFacts, unlockSeen # None, NEW s \in Servers,
         phase[s] \in {"seen", "holding", "updated"}
  PROVE  FALSE
  BY DEF TicketFacts, UnlockIsSafe, Unowned, TicketsDiffer, InsideServed, Waits, ToolWaits

\* What a server's transaction handler and its crash do to the tickets.
LEMMA HandlerTickets ==
  ASSUME TypeInv, TicketFacts, KnownNotAhead, NEW s \in Servers,
         Launch(s) \/ Handler(s) \/ Crash(s)
  PROVE  TicketFacts'
  <1> USE DEF TicketFacts
  <1>1. /\ queueVersion \in Nat /\ numberVersion \in Nat
        /\ phase \in [Servers -> Phases] /\ ticket \in [Servers -> Nat]
        /\ tool \in [phase: {"idle", "taking", "waiting", "holding"}, number: Nat]
        /\ lockQueueVersion \in [Servers -> Nat]
    BY DEF TypeInv, TypeOK
  \* steps that only move s, and not into the lock
  <1>2. ASSUME UNCHANGED <<queueVersion, numberVersion, ticket, tool, unlockSeen>>,
               NEW next \in {"idle", "down"}, phase' = [phase EXCEPT ![s] = next]
        PROVE  TicketFacts'
    <2>1. ~ Waits(s)' /\ ~ (phase'[s] \in {"seen", "holding", "updated"})
      BY <1>1, <1>2 DEF Waits
    <2>2. \A r \in Servers \ {s} : phase'[r] = phase[r]
      BY <1>1, <1>2
    <2> QED
      BY <1>2, <2>1, <2>2 DEF TicketsOpen, TicketsDiffer, InsideServed, UnlockIsSafe,
                              Unowned, Waits, ToolWaits
  \* steps that only move s, which has the ticket being served
  <1>3. ASSUME UNCHANGED <<queueVersion, numberVersion, ticket, tool, unlockSeen>>,
               NEW next \in {"seen", "holding", "updated"},
               phase' = [phase EXCEPT ![s] = next],
               Waits(s), ticket[s] = queueVersion
        PROVE  TicketFacts'
    <2>1. Waits(s)'
      BY <1>1, <1>3 DEF Waits
    <2>2. \A r \in Servers \ {s} : phase'[r] = phase[r]
      BY <1>1, <1>3
    <2> QED
      BY <1>3, <2>1, <2>2 DEF TicketsOpen, TicketsDiffer, InsideServed, UnlockIsSafe,
                              Unowned, Waits, ToolWaits
  <1>4. CASE Launch(s)
    BY <1>2, <1>4 DEF Launch, etcd, helper
  <1>5. CASE TakeTicket(s)
    <2>1. /\ phase' = [phase EXCEPT ![s] = "waiting"]
          /\ ticket' = [ticket EXCEPT ![s] = numberVersion]
          /\ numberVersion' = numberVersion + 1
          /\ UNCHANGED <<queueVersion, tool, unlockSeen>>
      BY <1>5 DEF TakeTicket, GiveTicket, helper
    <2>2. Waits(s)' /\ ticket'[s] = numberVersion /\ phase'[s] = "waiting"
      BY <1>1, <2>1 DEF Waits
    <2>3. \A r \in Servers \ {s} : phase'[r] = phase[r] /\ ticket'[r] = ticket[r]
      BY <1>1, <2>1
    <2>4. TicketsOpen'
      BY <1>1, <2>1, <2>2, <2>3 DEF TicketsOpen, Waits, ToolWaits
    <2>5. TicketsDiffer'
      BY <1>1, <2>1, <2>2, <2>3 DEF TicketsOpen, TicketsDiffer, Waits, ToolWaits
    <2>6. InsideServed'
      BY <2>1, <2>2, <2>3 DEF InsideServed
    <2>7. UnlockIsSafe'
      BY <1>1, <2>1, <2>2, <2>3 DEF UnlockIsSafe, Unowned, Waits, ToolWaits
    <2> QED
      BY <2>4, <2>5, <2>6, <2>7
  <1>6. CASE TakeTicketLost(s)
    <2>1. /\ phase' = [phase EXCEPT ![s] = "asking"]
          /\ numberVersion' = numberVersion + 1
          /\ UNCHANGED <<queueVersion, ticket, tool, unlockSeen>>
      BY <1>6 DEF TakeTicketLost, GiveTicket, helper
    <2>2. ~ Waits(s)' /\ phase'[s] = "asking"
      BY <1>1, <2>1 DEF Waits
    <2>3. \A r \in Servers \ {s} : phase'[r] = phase[r]
      BY <1>1, <2>1
    <2>4. TicketsOpen'
      BY <1>1, <2>1, <2>2, <2>3 DEF TicketsOpen, Waits, ToolWaits
    <2>5. TicketsDiffer' /\ InsideServed'
      BY <2>1, <2>2, <2>3 DEF TicketsDiffer, InsideServed, Waits, ToolWaits
    <2>6. UnlockIsSafe'
      BY <1>1, <2>1, <2>2, <2>3 DEF UnlockIsSafe, Unowned, Waits, ToolWaits
    <2> QED
      BY <2>4, <2>5, <2>6
  <1>7. CASE SeeTurn(s)
    <2>1. Waits(s) /\ lockQueueVersion[s] = ticket[s] /\ lockQueueVersion[s] <= queueVersion
      BY <1>7 DEF SeeTurn, Waits, KnownNotAhead
    <2>2. ticket[s] = queueVersion
      BY <1>1, <2>1 DEF TicketsOpen
    <2> QED
      BY <1>3, <1>7, <2>1, <2>2 DEF SeeTurn, etcd, helper
  <1>8. ASSUME phase[s] \in {"seen", "holding", "updated"}
        PROVE  Waits(s) /\ ticket[s] = queueVersion
    BY <1>8 DEF Waits, InsideServed
  <1>9. CASE LoadRevision(s)
    BY <1>3, <1>8, <1>9 DEF LoadRevision, etcd, helper
  <1>10. CASE Update(s)
    BY <1>3, <1>8, <1>10 DEF Update, CaughtUp, helper
  <1>11. CASE Release(s)
    <2>1. phase[s] \in {"seen", "holding", "updated"}
      BY <1>11 DEF Release, CaughtUp
    <2>2. /\ phase' = [phase EXCEPT ![s] = "idle"]
          /\ queueVersion' = queueVersion + 1
          /\ UNCHANGED <<numberVersion, ticket, tool, unlockSeen>>
      BY <1>11 DEF Release, PassOn, helper
    <2>3. Waits(s) /\ ticket[s] = queueVersion /\ unlockSeen = None
      BY <1>8, <2>1, NobodyElsePassesOn
    <2>4. ~ Waits(s)' /\ phase'[s] = "idle"
      BY <1>1, <2>2 DEF Waits
    <2>5. \A r \in Servers \ {s} : phase'[r] = phase[r]
      BY <1>1, <2>2
    <2>6. \A r \in Servers \ {s} : Waits(r) =>
            /\ ticket[r] \in (queueVersion + 1)..(numberVersion - 1)
            /\ phase[r] = "waiting"
      BY <1>1, <2>3 DEF TicketsOpen, TicketsDiffer, InsideServed, Waits
    <2>7. ToolWaits => /\ tool.number \in (queueVersion + 1)..(numberVersion - 1)
                       /\ tool.phase = "waiting"
      BY <1>1, <2>3 DEF TicketsOpen, TicketsDiffer, InsideServed, ToolWaits
    <2>8. queueVersion + 1 <= numberVersion
      BY <1>1, <2>3 DEF TicketsOpen
    <2>9. TicketsOpen' /\ TicketsDiffer'
      BY <1>1, <2>2, <2>4, <2>5, <2>6, <2>7, <2>8
         DEF TicketsOpen, TicketsDiffer, Waits, ToolWaits
    <2>10. InsideServed' /\ UnlockIsSafe'
      BY <2>2, <2>3, <2>4, <2>5, <2>6, <2>7 DEF InsideServed, UnlockIsSafe, Waits, ToolWaits
    <2> QED
      BY <2>9, <2>10
  <1>12. CASE ReleaseLost(s)
    BY <1>2, <1>12 DEF ReleaseLost, etcd, helper
  <1>13. CASE Crash(s)
    <2>1. /\ phase' = [phase EXCEPT ![s] = "down"]
          /\ ticket' = [ticket EXCEPT ![s] = 0]
          /\ UNCHANGED <<queueVersion, numberVersion, tool, unlockSeen>>
      BY <1>13 DEF Crash, etcd, helper
    <2>2. ~ Waits(s)' /\ ~ (phase'[s] \in {"seen", "holding", "updated"})
      BY <1>1, <2>1 DEF Waits
    <2>3. \A r \in Servers \ {s} : phase'[r] = phase[r] /\ ticket'[r] = ticket[r]
      BY <1>1, <2>1
    <2> QED
      BY <2>1, <2>2, <2>3 DEF TicketsOpen, TicketsDiffer, InsideServed, UnlockIsSafe,
                              Unowned, Waits, ToolWaits
  <1> QED
    BY <1>4, <1>5, <1>6, <1>7, <1>9, <1>10, <1>11, <1>12, <1>13 DEF Handler

\* What a transaction handler and a crash do to what servers know.
LEMMA HandlerKnowledge ==
  ASSUME TypeInv, KnownFacts, NEW s \in Servers, Handler(s) \/ Crash(s)
  PROVE  KnownFacts'
  <1>1. /\ queueVersion \in Nat /\ numberVersion \in Nat /\ dataVersion \in Nat
        /\ phase \in [Servers -> Phases] /\ queueVersion <= queueVersion
    BY DEF TypeInv, TypeOK
  <1>2. ASSUME GiveTicket, NEW next \in {"waiting", "asking"},
               phase' = [phase EXCEPT ![s] = next],
               UNCHANGED <<lockQueueVersion, handling, initResponse, watchNext, starting>>
        PROVE  KnownFacts'
    <2>1. \A r \in Servers : phase'[r] = "down" => phase[r] = "down"
      BY <1>1, <1>2
    <2>2. Write("lock_number", numberVersion + 1) /\ numberVersion + 1 \in Nat
          /\ UNCHANGED queueVersion
      BY <1>1, <1>2 DEF GiveTicket
    <2> QED
      BY <1>1, <1>2, <2>1, <2>2, WriteKnowledge
  <1>3. CASE TakeTicket(s)
    BY <1>2, <1>3 DEF TakeTicket, atomics, stream
  <1>4. CASE TakeTicketLost(s)
    BY <1>2, <1>4 DEF TakeTicketLost, atomics, stream
  <1>5. CASE SeeTurn(s)
    BY <1>1, <1>5, SameKnowledge DEF SeeTurn, etcd, atomics, stream
  <1>6. CASE LoadRevision(s)
    BY <1>1, <1>6, SameKnowledge DEF LoadRevision, etcd, atomics, stream
  <1>7. CASE Update(s)
    <2>1. /\ Write("data", dataVersion + 1) /\ dataVersion + 1 \in Nat
          /\ UNCHANGED queueVersion
          /\ UNCHANGED <<lockQueueVersion, handling, initResponse, watchNext, starting>>
      BY <1>1, <1>7 DEF Update, atomics, stream
    <2>2. \A r \in Servers : phase'[r] = "down" => phase[r] = "down"
      BY <1>1, <1>7 DEF Update
    <2> QED
      BY <1>1, <2>1, <2>2, WriteKnowledge
  <1>8. CASE Release(s)
    <2>1. /\ Write("lock_queue", queueVersion + 1) /\ queueVersion + 1 \in Nat
          /\ queueVersion' = queueVersion + 1
          /\ UNCHANGED <<lockQueueVersion, handling, initResponse, watchNext, starting>>
      BY <1>1, <1>8 DEF Release, PassOn, atomics, stream
    <2>2. \A r \in Servers : phase'[r] = "down" => phase[r] = "down"
      BY <1>1, <1>8 DEF Release
    <2>3. queueVersion' \in Nat /\ queueVersion <= queueVersion'
          /\ queueVersion + 1 <= queueVersion'
      BY <1>1, <2>1
    <2> QED
      BY <2>1, <2>2, <2>3, WriteKnowledge
  <1>9. CASE ReleaseLost(s)
    BY <1>1, <1>9, SameKnowledge DEF ReleaseLost, etcd, atomics, stream
  <1>10. CASE Crash(s)
    <2>1. /\ lockQueueVersion'[s] = 0 /\ handling'[s] = Nothing
          /\ initResponse'[s] = NoResponse /\ watchNext'[s] = 0 /\ starting'[s] = {}
      BY <1>10 DEF Crash, TypeInv, TypeOK
    <2>2. \A r \in Servers \ {s} :
            /\ lockQueueVersion'[r] = lockQueueVersion[r] /\ handling'[r] = handling[r]
            /\ initResponse'[r] = initResponse[r] /\ watchNext'[r] = watchNext[r]
            /\ starting'[r] = starting[r] /\ phase'[r] = phase[r]
      BY <1>10 DEF Crash, TypeInv, TypeOK
    <2>3. UNCHANGED <<log, queueVersion>>
      BY <1>10 DEF Crash, etcd
    <2>4. 0 <= queueVersion /\ Nothing.queue <= queueVersion
          /\ NoResponse.queue <= queueVersion /\ ~ (0 > 0)
      BY <1>1 DEF Nothing, NoResponse, None
    <2>5. KnownNotAhead'
      BY <2>1, <2>2, <2>3, <2>4 DEF KnownFacts, KnownNotAhead
    <2>6. DownForgets'
      BY <2>1, <2>2 DEF KnownFacts, DownForgets
    <2> QED
      BY <2>5, <2>6 DEF KnownFacts
  <1> QED
    BY <1>3, <1>4, <1>5, <1>6, <1>7, <1>8, <1>9, <1>10 DEF Handler

\* What the operator's tool does to both.
LEMMA ToolKeeps ==
  ASSUME TypeInv, TicketFacts, KnownFacts, Tool
  PROVE  TicketFacts' /\ KnownFacts'
  <1>1. /\ queueVersion \in Nat /\ numberVersion \in Nat
        /\ phase \in [Servers -> Phases] /\ ticket \in [Servers -> Nat]
        /\ tool \in [phase: {"idle", "taking", "waiting", "holding"}, number: Nat]
        /\ queueVersion <= queueVersion
    BY DEF TypeInv, TypeOK
  <1>2. ASSUME UNCHANGED <<phase, ticket, queueVersion, numberVersion, unlockSeen>>,
               ~ ToolWaits, ~ ToolWaits'
        PROVE  TicketFacts'
    BY <1>2 DEF TicketFacts, TicketsOpen, TicketsDiffer, InsideServed, UnlockIsSafe,
                Unowned, Waits, ToolWaits
  <1>3. CASE ToolReadNumber
    <2>1. TicketFacts'
      BY <1>2, <1>3 DEF ToolReadNumber, ToolWaits, etcd, handler
    <2>2. KnownFacts'
      BY <1>3, SameKnowledge DEF ToolReadNumber, etcd, handler, atomics, stream
    <2> QED
      BY <2>1, <2>2
  <1>4. CASE ToolTakeTicket
    <2>1. /\ tool' = [tool EXCEPT !.phase = "waiting"] /\ tool.number = numberVersion
          /\ tool.phase = "taking" /\ numberVersion' = numberVersion + 1
          /\ UNCHANGED <<phase, ticket, queueVersion, unlockSeen>>
      BY <1>4 DEF ToolTakeTicket, GiveTicket, handler
    <2>2. /\ ~ ToolWaits /\ ToolWaits' /\ tool'.number = numberVersion
          /\ tool'.phase = "waiting"
      BY <1>1, <2>1 DEF ToolWaits
    <2>3. TicketsOpen'
      BY <1>1, <2>1, <2>2 DEF TicketFacts, TicketsOpen, Waits
    <2>4. TicketsDiffer' /\ InsideServed'
      BY <1>1, <2>1, <2>2 DEF TicketFacts, TicketsOpen, TicketsDiffer, InsideServed, Waits
    <2>5. UnlockIsSafe'
      BY <1>1, <2>1, <2>2 DEF TicketFacts, TicketsOpen, UnlockIsSafe, Unowned, Waits
    <2>6. KnownFacts'
      <3>1. Write("lock_number", numberVersion + 1) /\ numberVersion + 1 \in Nat
            /\ UNCHANGED queueVersion
        BY <1>1, <1>4 DEF ToolTakeTicket, GiveTicket
      <3> QED
        BY <1>1, <1>4, <3>1, WriteKnowledge DEF ToolTakeTicket, handler, atomics, stream
    <2> QED
      BY <2>3, <2>4, <2>5, <2>6 DEF TicketFacts
  <1>5. CASE ToolTakeFails
    <2>1. TicketFacts'
      BY <1>1, <1>2, <1>5 DEF ToolTakeFails, ToolWaits, etcd, handler
    <2>2. KnownFacts'
      BY <1>5, SameKnowledge DEF ToolTakeFails, etcd, handler, atomics, stream
    <2> QED
      BY <2>1, <2>2
  <1>6. CASE ToolSeesTurn
    <2>1. /\ tool' = [tool EXCEPT !.phase = "holding"] /\ tool.number = queueVersion
          /\ tool.phase = "waiting"
          /\ UNCHANGED <<phase, ticket, queueVersion, numberVersion, unlockSeen>>
      BY <1>6 DEF ToolSeesTurn, etcd, handler
    <2>2. ToolWaits /\ ToolWaits' /\ tool'.number = queueVersion
      BY <1>1, <2>1 DEF ToolWaits
    <2>3. TicketFacts'
      BY <2>1, <2>2 DEF TicketFacts, TicketsOpen, TicketsDiffer, InsideServed,
                        UnlockIsSafe, Unowned, Waits
    <2>4. KnownFacts'
      BY <1>6, SameKnowledge DEF ToolSeesTurn, etcd, handler, atomics, stream
    <2> QED
      BY <2>3, <2>4
  <1>7. CASE ToolReadQueue
    <2>1. /\ unlockSeen' = queueVersion /\ (tool.phase = "holding" \/ Stuck)
          /\ UNCHANGED <<phase, ticket, queueVersion, numberVersion, tool>>
      BY <1>7 DEF ToolReadQueue, etcd, handler
    <2>2. Stuck => Unowned
      BY DEF Stuck, Unowned, OwnersOf
    <2>3. UnlockIsSafe'
      BY <2>1, <2>2 DEF UnlockIsSafe, Unowned, Waits, ToolWaits
    <2>4. TicketsOpen' /\ TicketsDiffer' /\ InsideServed'
      BY <2>1 DEF TicketFacts, TicketsOpen, TicketsDiffer, InsideServed, Waits, ToolWaits
    <2>5. KnownFacts'
      BY <1>7, SameKnowledge DEF ToolReadQueue, etcd, handler, atomics, stream
    <2> QED
      BY <2>3, <2>4, <2>5 DEF TicketFacts
  <1>8. CASE ToolUnlock
    <2>1. /\ unlockSeen = queueVersion /\ unlockSeen' = None
          /\ queueVersion' = queueVersion + 1
          /\ tool' = [tool EXCEPT !.phase = IF @ = "holding" THEN "idle" ELSE @]
          /\ UNCHANGED <<phase, ticket, numberVersion>>
      BY <1>8 DEF ToolUnlock, PassOn, handler
    <2>2. unlockSeen # None
      BY <1>1, <2>1 DEF None
    <2>3. \A s \in Servers : ~ (phase[s] \in {"seen", "holding", "updated"})
      BY <2>2, NobodyElsePassesOn
    <2>4. \A s \in Servers : Waits(s) =>
            ticket[s] \in (queueVersion + 1)..(numberVersion - 1)
      BY <1>1, <2>2 DEF TicketFacts, TicketsOpen, TicketsDiffer, InsideServed,
                        UnlockIsSafe, Unowned, Waits, ToolWaits
    <2>5. queueVersion + 1 <= numberVersion
      BY <1>1, <2>2 DEF TicketFacts, TicketsOpen, InsideServed, UnlockIsSafe, Unowned,
                        ToolWaits
    <2>6. /\ tool'.number = tool.number /\ tool'.phase # "holding"
          /\ ToolWaits' => tool.phase = "waiting" /\ ToolWaits
      BY <1>1, <2>1 DEF ToolWaits
    <2>7. ToolWaits' => tool.number \in (queueVersion + 1)..(numberVersion - 1)
      BY <1>1, <2>2, <2>6 DEF TicketFacts, TicketsOpen, UnlockIsSafe, Unowned, ToolWaits
    <2>8. TicketsOpen'
      BY <1>1, <2>1, <2>4, <2>5, <2>6, <2>7 DEF TicketsOpen, Waits
    <2>9. TicketsDiffer' /\ InsideServed' /\ UnlockIsSafe'
      BY <2>1, <2>3, <2>6 DEF TicketFacts, TicketsDiffer, InsideServed, UnlockIsSafe, Waits
    <2>10. KnownFacts'
      <3>1. Write("lock_queue", queueVersion + 1) /\ queueVersion + 1 \in Nat
        BY <1>1, <1>8 DEF ToolUnlock, PassOn
      <3>2. queueVersion' \in Nat /\ queueVersion <= queueVersion'
            /\ queueVersion + 1 <= queueVersion'
        BY <1>1, <2>1
      <3> QED
        BY <1>8, <3>1, <3>2, WriteKnowledge DEF ToolUnlock, handler, atomics, stream
    <2> QED
      BY <2>8, <2>9, <2>10 DEF TicketFacts
  <1>9. CASE ToolInit
    <2>1. /\ \A s \in Servers : phase[s] = "down" /\ phase'[s] = "down"
          /\ tool.phase = "idle" /\ tool'.phase = "idle" /\ unlockSeen' = None
          /\ queueVersion' = 0 /\ numberVersion' = 0
      BY <1>9 DEF ToolInit, handler, helper
    <2>2. TicketFacts'
      BY <2>1 DEF TicketFacts, TicketsOpen, TicketsDiffer, InsideServed, UnlockIsSafe,
                  Waits, ToolWaits
    <2>3. UNCHANGED <<lockQueueVersion, handling, initResponse, watchNext, starting>>
      BY <1>9 DEF ToolInit, atomics, stream
    <2>4. DownForgets'
      BY <2>1, <2>3 DEF KnownFacts, DownForgets
    <2>5. KnownNotAhead'
      BY <2>1, <2>4 DEF KnownNotAhead, DownForgets, Nothing, NoResponse, None
    <2> QED
      BY <2>2, <2>4, <2>5 DEF KnownFacts
  <1> QED
    BY <1>3, <1>4, <1>5, <1>6, <1>7, <1>8, <1>9 DEF Tool

LEMMA TicketInvStep == TicketInv /\ [Next]_vars => TicketInv'
  <1> SUFFICES ASSUME TicketInv, [Next]_vars PROVE TicketInv'
    OBVIOUS
  <1>1. TypeInv /\ TicketFacts /\ KnownFacts
    BY DEF TicketInv, TicketFacts, KnownFacts
  <1>2. TypeInv'
    BY <1>1, ConstantsOK, TypeInvStep
  <1>3. ASSUME NEW s \in Servers, Launch(s) PROVE TicketFacts' /\ KnownFacts'
    BY <1>1, <1>3, HandlerTickets, StreamKnowledge DEF KnownFacts
  <1>4. ASSUME NEW s \in Servers,
               EtcdAnswersRange(s) \/ EtcdStartsWatch(s) \/ DataStream(s)
        PROVE  TicketFacts' /\ KnownFacts'
    <2>1. UNCHANGED <<numberVersion, queueVersion, phase, ticket, tool, unlockSeen>>
      BY <1>4 DEF EtcdAnswersRange, EtcdStartsWatch, DataStream, ReceiveInit, ReceiveEvent,
                  StoreRevision, StoreVersion, OnUpdate, etcd, handler, helper
    <2>2. TicketFacts'
      BY <1>1, <2>1, SameTickets
    <2>3. KnownFacts'
      BY <1>1, <1>4, StreamKnowledge DEF DataStream
    <2> QED
      BY <2>2, <2>3
  <1>5. ASSUME NEW s \in Servers, Handler(s) \/ Crash(s) PROVE TicketFacts' /\ KnownFacts'
    BY <1>1, <1>5, HandlerTickets, HandlerKnowledge DEF KnownFacts
  <1>6. ASSUME Tool PROVE TicketFacts' /\ KnownFacts'
    BY <1>1, <1>2, <1>6, ToolKeeps
  <1>7. ASSUME UNCHANGED vars PROVE TicketFacts' /\ KnownFacts'
    <2>1. /\ UNCHANGED <<log, numberVersion, queueVersion, phase, ticket, tool, unlockSeen>>
          /\ UNCHANGED <<lockQueueVersion, handling, initResponse, watchNext, starting>>
      BY <1>7 DEF vars, etcd, handler, atomics, stream, helper
    <2>2. TicketFacts'
      BY <1>1, <2>1, SameTickets
    <2>3. KnownFacts'
      BY <1>1, <2>1, SameKnowledge
    <2> QED
      BY <2>2, <2>3
  <1>8. TicketFacts' /\ KnownFacts'
    BY <1>3, <1>4, <1>5, <1>6, <1>7 DEF Next
  <1> QED
    BY <1>2, <1>8 DEF TicketInv, TicketFacts, KnownFacts

\* At most one client is inside the lock.
THEOREM MutualExclusionCorrect == Spec => []MutualExclusion
  <1>1. Init => TicketInv
    BY InitTickets
  <1>2. TicketInv /\ [Next]_vars => TicketInv'
    BY TicketInvStep
  <1>3. TicketInv => MutualExclusion
    BY DEF TicketInv, TicketsDiffer, InsideServed, MutualExclusion, InLock, Waits, ToolWaits
  <1> QED
    BY <1>1, <1>2, <1>3, PTL DEF Spec

-----------------------------------------------------------------------------
(* The version acquireLock returns covers the data, whenever servers start. *)

IsData(i) == log[i].key = "data"
IsTurn(j, t) == log[j].key = "lock_queue" /\ log[j].version = t

\* All data is written by revision n.
DataBy(n) == \A i \in 1..Len(log) : IsData(i) => i <= n

\* The revisions that the responses of s carry do not go back, although that of
\* the range response may be none or that of another response.
RevisionsRise(s) ==
  /\ lockQueueRevision[s] <= watchNext[s] /\ handling[s].revision <= watchNext[s]
  /\ watchNext[s] = 0 => watchHeader[s] = 0
  /\ watchNext[s] > 0 => watchHeader[s] < watchNext[s]
  /\ handling[s].stage = "revision" => lockQueueRevision[s] <= handling[s].revision
  /\ "watch" \in starting[s] => watchNext[s] = 0
  /\ initResponse[s] # NoResponse => "range" \notin starting[s]
  /\ "range" \in starting[s] \/ initResponse[s] # NoResponse =>
       lockQueueRevision[s] <= watchHeader[s] /\ handling[s].revision <= watchHeader[s]
  /\ numRevision[s] <= Len(log) /\ answered[s] <= Len(log)

\* Whatever tells s its turn, which came at j, tells it a revision not before j.
TurnKnown(s, j) ==
  /\ lockQueueVersion[s] = ticket[s] \/ phase[s] = "seen" => j <= lockQueueRevision[s]
  /\ handling[s].queue = ticket[s] =>
       /\ handling[s].stage = "revision" => j <= handling[s].revision
       /\ handling[s].stage = "version" => j <= lockQueueRevision[s]
  /\ initResponse[s].queue # ticket[s]
  /\ watchNext[s] > 0 =>
       \A i \in watchNext[s]..Len(log) : IsTurn(i, ticket[s]) => j <= i

\* The turn of s came at j, after its ticket and after all data.
TurnAt(s, j) ==
  /\ j \in (numRevision[s] + 1)..Len(log) /\ IsTurn(j, ticket[s])
  /\ DataBy(j) /\ TurnKnown(s, j)

\* A server whose turn it is will return a revision after all data, ...
TurnCovered(s) ==
  phase[s] \in {"waiting", "seen"} /\ ticket[s] = queueVersion =>
    TurnBeforeAnswer(s) \/ DataBy(numRevision[s]) \/ \E j \in Nat : TurnAt(s, j)

\* ... and one that is inside has returned it.
HeldCovered(s) == phase[s] = "holding" => TurnBeforeAnswer(s) \/ DataBy(granted[s])

Covered(s) == RevisionsRise(s) /\ TurnCovered(s) /\ HeldCovered(s)

CoverInv == TicketInv /\ \A s \in Servers : Covered(s)

\* What the two sides of s have.
StreamOf(s) == <<lockQueueVersion[s], lockQueueRevision[s], starting[s], answered[s],
                 initResponse[s], watchNext[s], watchHeader[s], handling[s]>>
HandlerOf(s) == <<phase[s], ticket[s], numRevision[s], granted[s]>>

\* A write keeps the changes there were.
Grows == /\ Len(log) \in Nat /\ Len(log') = Len(log) + 1
         /\ \A i \in 1..Len(log) : log'[i] = log[i]

LEMMA WriteGrows ==
  ASSUME TypeInv, NEW key \in {"lock_number", "lock_queue", "data"}, NEW version \in Nat,
         Write(key, version)
  PROVE  /\ Grows
         /\ log'[Len(log) + 1].key = key /\ log'[Len(log) + 1].version = version
  <1>1. log \in Seq(Event)
    BY DEF TypeInv, TypeOK
  <1>2. Len(log) \in Nat
    BY <1>1
  <1>3. /\ Len(log') = Len(log) + 1
        /\ log'[Len(log) + 1] = [key |-> key, version |-> version]
        /\ \A i \in 1..Len(log) : log'[i] = log[i]
    BY <1>1, WriteType
  <1>4. Grows
    BY <1>2, <1>3 DEF Grows
  <1> QED
    BY <1>3, <1>4

LEMMA CoverTypes ==
  ASSUME TypeInv, NEW s \in Servers
  PROVE  /\ Len(log) \in Nat /\ queueVersion \in Nat
         /\ phase[s] \in Phases /\ ticket[s] \in Nat /\ numRevision[s] \in Nat
         /\ granted[s] \in Nat /\ answered[s] \in Nat
         /\ lockQueueVersion[s] \in Nat /\ lockQueueRevision[s] \in Nat
         /\ watchNext[s] \in Nat /\ watchHeader[s] \in Nat
         /\ handling[s] \in Response /\ handling[s].revision \in Nat
         /\ handling[s].queue \in Nat \cup {None}
         /\ initResponse[s] \in Versions \cup {NoResponse}
         /\ starting[s] \in SUBSET {"range", "watch"}
  <1>1. TypeOK
    BY DEF TypeInv
  <1>2. handling[s] \in Response
    BY <1>1 DEF TypeOK
  <1>3. handling[s].revision \in Nat /\ handling[s].queue \in Nat \cup {None}
    BY <1>2 DEF Response
  <1> QED
    BY <1>1, <1>2, <1>3 DEF TypeOK

LEMMA InitCover == Init => CoverInv
  <1> SUFFICES ASSUME Init, NEW s \in Servers PROVE Covered(s)
    BY InitTickets DEF CoverInv
  <1>1. /\ log = <<>> /\ Len(log) = 0 /\ phase[s] = "down" /\ numRevision[s] = 0
        /\ answered[s] = 0 /\ lockQueueRevision[s] = 0 /\ watchNext[s] = 0
        /\ watchHeader[s] = 0 /\ handling[s] = Nothing /\ starting[s] = {}
        /\ initResponse[s] = NoResponse
    BY DEF Init
  <1>2. RevisionsRise(s)
    BY <1>1 DEF RevisionsRise, Nothing
  <1> QED
    BY <1>1, <1>2 DEF Covered, TurnCovered, HeldCovered

\* Changes that are not about s and give no turn leave s covered.
LEMMA SameCovered ==
  ASSUME TypeInv, NEW s \in Servers, Covered(s),
         StreamOf(s)' = StreamOf(s), HandlerOf(s)' = HandlerOf(s), UNCHANGED queueVersion,
         UNCHANGED log \/ (Grows /\ log'[Len(log) + 1].key = "lock_number")
  PROVE  Covered(s)'
  <1>1. /\ Len(log) \in Nat /\ numRevision[s] \in Nat /\ answered[s] \in Nat
        /\ watchNext[s] \in Nat
    BY CoverTypes
  <1>2. /\ phase'[s] = phase[s] /\ ticket'[s] = ticket[s]
        /\ numRevision'[s] = numRevision[s] /\ granted'[s] = granted[s]
        /\ lockQueueVersion'[s] = lockQueueVersion[s]
        /\ lockQueueRevision'[s] = lockQueueRevision[s] /\ starting'[s] = starting[s]
        /\ answered'[s] = answered[s] /\ initResponse'[s] = initResponse[s]
        /\ watchNext'[s] = watchNext[s] /\ watchHeader'[s] = watchHeader[s]
        /\ handling'[s] = handling[s]
    BY DEF StreamOf, HandlerOf
  <1>3. CASE UNCHANGED log
    <2>1. RevisionsRise(s)'
      BY <1>2, <1>3 DEF Covered, RevisionsRise
    <2>2. TurnBeforeAnswer(s) => TurnBeforeAnswer(s)'
      BY <1>2, <1>3 DEF TurnBeforeAnswer
    <2>3. \A n \in Nat : DataBy(n) => DataBy(n)'
      BY <1>3 DEF DataBy, IsData
    <2>4. \A j \in Nat : TurnAt(s, j) => TurnAt(s, j)'
      BY <1>2, <1>3, <2>3 DEF TurnAt, TurnKnown, IsTurn
    <2>5. TurnCovered(s)'
      BY <1>1, <1>2, <2>2, <2>3, <2>4 DEF Covered, TurnCovered
    <2>6. HeldCovered(s)'
      BY <1>2, <2>2, <2>3, CoverTypes DEF Covered, HeldCovered
    <2> QED
      BY <2>1, <2>5, <2>6 DEF Covered
  <1>4. CASE Grows /\ log'[Len(log) + 1].key = "lock_number"
    <2>1. PICK n : /\ n = Len(log) /\ n \in Nat /\ Len(log') = n + 1
                   /\ \A i \in 1..n : log'[i] = log[i]
                   /\ log'[n + 1].key = "lock_number"
      BY <1>4 DEF Grows
    <2>2. \A i \in 1..(n + 1) : i = n + 1 \/ (i \in 1..n /\ log'[i] = log[i])
      BY <2>1
    <2>3. RevisionsRise(s)'
      BY <1>1, <1>2, <2>1 DEF Covered, RevisionsRise
    <2>4. TurnBeforeAnswer(s) => TurnBeforeAnswer(s)'
      <3>1. \A j \in (numRevision[s] + 1)..answered[s] : j \in 1..n
        BY <1>1, <2>1 DEF Covered, RevisionsRise
      <3> QED
        BY <1>2, <2>1, <3>1 DEF TurnBeforeAnswer
    <2>5. \A m \in Nat : DataBy(m) => DataBy(m)'
      BY <2>1, <2>2 DEF DataBy, IsData
    <2>6. \A j \in Nat : TurnAt(s, j) => TurnAt(s, j)'
      <3> TAKE j \in Nat
      <3> HAVE TurnAt(s, j)
      <3>1. j \in 1..n /\ j \in (numRevision[s] + 1)..(n + 1) /\ IsTurn(j, ticket[s])'
        BY <1>1, <1>2, <2>1 DEF TurnAt, IsTurn
      <3>2. \A i \in watchNext[s]..(n + 1) : watchNext[s] > 0 /\ IsTurn(i, ticket[s])' =>
              i \in watchNext[s]..n /\ IsTurn(i, ticket[s])
        BY <1>1, <1>2, <2>1, <2>2 DEF IsTurn
      <3>3. TurnKnown(s, j)'
        BY <1>1, <1>2, <2>1, <3>2 DEF TurnAt, TurnKnown, IsTurn
      <3> QED
        BY <1>2, <2>1, <2>5, <3>1, <3>3 DEF TurnAt, IsTurn
    <2>7. TurnCovered(s)'
      BY <1>1, <1>2, <2>4, <2>5, <2>6 DEF Covered, TurnCovered
    <2>8. HeldCovered(s)'
      BY <1>2, <2>4, <2>5, CoverTypes DEF Covered, HeldCovered
    <2> QED
      BY <2>3, <2>7, <2>8 DEF Covered
  <1> QED
    BY <1>3, <1>4

\* The revisions rise as responses come and are stored.
LEMMA StreamRises ==
  ASSUME TypeInv, DownForgets, NEW s \in Servers, RevisionsRise(s),
         Launch(s) \/ EtcdAnswersRange(s) \/ EtcdStartsWatch(s) \/ DataStream(s)
  PROVE  RevisionsRise(s)'
  <1>1. /\ Len(log) \in Nat /\ lockQueueRevision[s] \in Nat /\ watchNext[s] \in Nat
        /\ watchHeader[s] \in Nat /\ handling[s].revision \in Nat
    BY CoverTypes
  <1>2. /\ starting \in [Servers -> SUBSET {"range", "watch"}]
        /\ answered \in [Servers -> Nat]
        /\ initResponse \in [Servers -> Versions \cup {NoResponse}]
        /\ watchNext \in [Servers -> Nat] /\ watchHeader \in [Servers -> Nat]
        /\ handling \in [Servers -> Response] /\ lockQueueRevision \in [Servers -> Nat]
    BY DEF TypeInv, TypeOK
  <1>3. CASE Launch(s)
    <2>1. /\ watchNext[s] = 0 /\ handling[s] = Nothing /\ initResponse[s] = NoResponse
          /\ starting'[s] = {"range", "watch"}
          /\ UNCHANGED <<log, numRevision, lockQueueRevision, answered, initResponse,
                         watchNext, watchHeader, handling>>
      BY <1>2, <1>3 DEF Launch, DownForgets, etcd, atomics
    <2> QED
      BY <1>1, <2>1 DEF RevisionsRise, Nothing
  <1>4. CASE EtcdAnswersRange(s)
    <2>1. /\ "range" \in starting[s] /\ starting'[s] = starting[s] \ {"range"}
          /\ answered'[s] = Len(log)
          /\ UNCHANGED <<log, numRevision, lockQueueRevision, watchNext, watchHeader,
                         handling>>
      BY <1>2, <1>4 DEF EtcdAnswersRange, etcd, handler, atomics
    <2> QED
      BY <1>1, <2>1 DEF RevisionsRise
  <1>5. CASE EtcdStartsWatch(s)
    <2>1. /\ "watch" \in starting[s] /\ starting'[s] = starting[s] \ {"watch"}
          /\ watchNext'[s] = Len(log) + 1
          /\ UNCHANGED <<log, numRevision, lockQueueRevision, answered, initResponse,
                         watchHeader, handling>>
      BY <1>2, <1>5 DEF EtcdStartsWatch, etcd, handler, atomics
    <2>2. watchNext[s] = 0 /\ lockQueueRevision[s] = 0 /\ watchHeader[s] = 0
          /\ handling[s].revision = 0
      BY <1>1, <2>1 DEF RevisionsRise
    <2> QED
      BY <1>1, <2>1, <2>2 DEF RevisionsRise
  <1>6. ASSUME NEW revision, NEW queue, NEW data, HandleResponse(s, revision, queue, data)
        PROVE  handling'[s].revision = revision
    BY <1>2, <1>6 DEF HandleResponse
  <1>7. CASE ReceiveInit(s)
    <2>1. /\ initResponse[s] # NoResponse /\ initResponse'[s] = NoResponse
          /\ UNCHANGED <<log, numRevision, lockQueueRevision, starting, answered,
                         watchNext, watchHeader>>
      BY <1>2, <1>7 DEF ReceiveInit, etcd, handler, atomics
    <2>2. /\ "range" \notin starting[s] /\ lockQueueRevision[s] <= watchHeader[s]
          /\ watchHeader[s] <= watchNext[s]
          /\ watchNext[s] > 0 => watchHeader[s] <= watchNext[s] - 1
          /\ watchNext[s] = 0 => watchHeader[s] = 0
      BY <1>1, <2>1 DEF RevisionsRise
    <2>3. CASE UNCHANGED handling
      BY <2>1, <2>3 DEF RevisionsRise
    <2>4. CASE ~ UNCHANGED handling
      <3>1. PICK revision \in {watchHeader[s]}
                     \cup ({watchNext[s] - 1, watchNext[s]} \cap 0..Len(log)) :
              \E queue, data : HandleResponse(s, revision, queue, data)
        BY <1>7, <2>4 DEF ReceiveInit
      <3>2. handling'[s].revision = revision
        BY <1>6, <3>1
      <3>3. revision \in Nat /\ watchHeader[s] <= revision /\ revision <= watchNext[s]
        BY <1>1, <2>2
      <3>4. lockQueueRevision[s] <= revision
        BY <1>1, <2>2, <3>3
      <3> QED
        BY <2>1, <2>2, <3>2, <3>3, <3>4 DEF RevisionsRise
    <2> QED
      BY <2>3, <2>4
  <1>8. CASE ReceiveEvent(s)
    <2>1. /\ handling'[s].revision = watchNext[s]
          /\ watchNext[s] \in 1..Len(log)
          /\ watchHeader'[s] = watchNext[s] /\ watchNext'[s] = watchNext[s] + 1
          /\ UNCHANGED <<log, numRevision, lockQueueRevision, starting, answered,
                         initResponse>>
      BY <1>2, <1>6, <1>8 DEF ReceiveEvent, etcd, handler, atomics
    <2> QED
      BY <1>1, <2>1 DEF RevisionsRise
  <1>9. CASE StoreRevision(s)
    <2>1. /\ handling[s].stage = "revision" /\ handling'[s].stage = "version"
          /\ handling'[s].revision = handling[s].revision
          /\ lockQueueRevision'[s] = handling[s].revision
          /\ UNCHANGED <<log, numRevision, starting, answered, initResponse, watchNext,
                         watchHeader>>
      BY <1>2, <1>9 DEF StoreRevision, Response, etcd, handler
    <2> QED
      BY <1>1, <2>1 DEF RevisionsRise
  <1>10. CASE StoreVersion(s)
    <2>1. /\ handling'[s].stage = "listener"
          /\ handling'[s].revision = handling[s].revision
          /\ UNCHANGED <<log, numRevision, lockQueueRevision, starting, answered,
                         initResponse, watchNext, watchHeader>>
      BY <1>2, <1>10 DEF StoreVersion, Response, etcd, handler
    <2> QED
      BY <2>1 DEF RevisionsRise
  <1>11. CASE OnUpdate(s)
    <2>1. /\ handling'[s] = Nothing
          /\ UNCHANGED <<log, numRevision, lockQueueRevision, starting, answered,
                         initResponse, watchNext, watchHeader>>
      BY <1>2, <1>11 DEF OnUpdate, etcd, handler, atomics
    <2> QED
      BY <1>1, <2>1 DEF RevisionsRise, Nothing
  <1> QED
    BY <1>3, <1>4, <1>5, <1>7, <1>8, <1>9, <1>10, <1>11 DEF DataStream

\* A response tells s its turn with a revision that is not before it.
LEMMA StreamCovers ==
  ASSUME TypeInv, NEW s \in Servers, Covered(s),
         EtcdAnswersRange(s) \/ EtcdStartsWatch(s) \/ DataStream(s)
  PROVE  TurnCovered(s)' /\ HeldCovered(s)'
  <1>1. /\ Len(log) \in Nat /\ queueVersion \in Nat /\ ticket[s] \in Nat
        /\ numRevision[s] \in Nat /\ granted[s] \in Nat /\ answered[s] \in Nat
        /\ lockQueueRevision[s] \in Nat /\ watchNext[s] \in Nat
        /\ handling[s].revision \in Nat
        /\ initResponse[s] \in Versions \cup {NoResponse}
    BY CoverTypes
  <1>2. /\ initResponse \in [Servers -> Versions \cup {NoResponse}]
        /\ answered \in [Servers -> Nat] /\ watchNext \in [Servers -> Nat]
        /\ handling \in [Servers -> Response] /\ lockQueueVersion \in [Servers -> Nat]
        /\ lockQueueRevision \in [Servers -> Nat]
    BY DEF TypeInv, TypeOK
  <1>3. UNCHANGED <<log, queueVersion, phase, ticket, numRevision, granted>>
    BY DEF EtcdAnswersRange, EtcdStartsWatch, DataStream, ReceiveInit, ReceiveEvent,
           StoreRevision, StoreVersion, OnUpdate, etcd, handler
  <1>4. answered'[s] = answered[s] \/ answered'[s] = Len(log)
    BY <1>2 DEF EtcdAnswersRange, EtcdStartsWatch, DataStream, ReceiveInit, ReceiveEvent,
           StoreRevision, StoreVersion, OnUpdate
  <1>5. answered[s] <= Len(log) /\ lockQueueRevision[s] <= watchNext[s]
        /\ (handling[s].stage = "revision" => lockQueueRevision[s] <= handling[s].revision)
    BY DEF Covered, RevisionsRise
  <1>6. TurnBeforeAnswer(s) => TurnBeforeAnswer(s)'
    <2>1. \A j \in (numRevision[s] + 1)..answered[s] :
            j \in (numRevision[s] + 1)..answered'[s]
      BY <1>1, <1>4, <1>5
    <2> QED
      BY <1>3, <2>1 DEF TurnBeforeAnswer
  <1>7. \A n \in Nat : DataBy(n) => DataBy(n)'
    BY <1>3 DEF DataBy, IsData
  \* it remains to show what tells s its turn
  <1>8. ASSUME \A j \in Nat : TurnAt(s, j) => TurnKnown(s, j)' \/ TurnBeforeAnswer(s)'
        PROVE  TurnCovered(s)' /\ HeldCovered(s)'
    <2>1. \A j \in Nat : TurnAt(s, j) => TurnAt(s, j)' \/ TurnBeforeAnswer(s)'
      BY <1>3, <1>7, <1>8 DEF TurnAt, IsTurn
    <2>2. TurnCovered(s)'
      BY <1>1, <1>3, <1>6, <1>7, <2>1 DEF Covered, TurnCovered
    <2>3. HeldCovered(s)'
      BY <1>1, <1>3, <1>6, <1>7 DEF Covered, HeldCovered
    <2> QED
      BY <2>2, <2>3
  <1> SUFFICES ASSUME NEW j \in Nat, TurnAt(s, j)
               PROVE  TurnKnown(s, j)' \/ TurnBeforeAnswer(s)'
    BY <1>8
  <1>9. TurnKnown(s, j) /\ j \in (numRevision[s] + 1)..Len(log) /\ IsTurn(j, ticket[s])
    BY DEF TurnAt
  <1>10. CASE EtcdAnswersRange(s)
    <2>1. answered'[s] = Len(log)
      BY <1>2, <1>10 DEF EtcdAnswersRange
    <2> QED
      BY <1>3, <1>9, <2>1 DEF TurnBeforeAnswer, IsTurn
  <1>11. CASE EtcdStartsWatch(s)
    <2>1. /\ watchNext'[s] = Len(log) + 1
          /\ UNCHANGED <<lockQueueVersion, lockQueueRevision, handling, initResponse>>
      BY <1>2, <1>11 DEF EtcdStartsWatch, atomics
    <2>2. \A i \in watchNext'[s]..Len(log) : FALSE
      BY <1>1, <2>1
    <2> QED
      BY <1>3, <1>9, <2>1, <2>2 DEF TurnKnown
  <1>12. ASSUME NEW revision, NEW queue, NEW data, HandleResponse(s, revision, queue, data)
         PROVE  /\ handling'[s].revision = revision /\ handling'[s].queue = queue
                /\ handling'[s].stage = IF queue = None THEN "listener" ELSE "revision"
    BY <1>2, <1>12 DEF HandleResponse
  <1>13. CASE ReceiveInit(s)
    <2>1. /\ initResponse[s] \in Versions /\ initResponse'[s] = NoResponse
          /\ UNCHANGED <<lockQueueVersion, lockQueueRevision, watchNext>>
      BY <1>1, <1>2, <1>13 DEF ReceiveInit, atomics
    <2>2. initResponse[s].queue # ticket[s] /\ initResponse[s].queue \in Nat
      BY <1>9, <2>1 DEF TurnKnown, Versions
    <2>3. NoResponse.queue # ticket[s] /\ None # ticket[s]
      BY <1>1 DEF NoResponse, None
    <2>4. CASE UNCHANGED handling
      BY <1>3, <1>9, <2>1, <2>3, <2>4 DEF TurnKnown, IsTurn
    <2>5. CASE ~ UNCHANGED handling
      <3>1. PICK revision, data : HandleResponse(s, revision,
              IF initResponse[s].queue = 0 THEN None ELSE initResponse[s].queue, data)
        BY <1>13, <2>5 DEF ReceiveInit
      <3>2. handling'[s].queue =
              IF initResponse[s].queue = 0 THEN None ELSE initResponse[s].queue
        BY <1>12, <3>1
      <3>3. handling'[s].queue # ticket[s]
        BY <2>2, <2>3, <3>2
      <3> QED
        BY <1>3, <1>9, <2>1, <2>3, <3>3 DEF TurnKnown, IsTurn
    <2> QED
      BY <2>4, <2>5
  <1>14. CASE ReceiveEvent(s)
    <2>1. PICK r : r = watchNext[s] /\ r \in 1..Len(log)
      BY <1>14 DEF ReceiveEvent
    <2>2. PICK queue, data :
            /\ queue = (IF log[r].key = "lock_queue" THEN log[r].version ELSE None)
            /\ HandleResponse(s, r, queue, data)
      BY <1>14, <2>1 DEF ReceiveEvent
    <2>3. /\ handling'[s].revision = r /\ handling'[s].queue = queue
          /\ handling'[s].stage = IF queue = None THEN "listener" ELSE "revision"
      BY <1>12, <2>2
    <2>4. /\ watchNext'[s] = r + 1
          /\ UNCHANGED <<lockQueueVersion, lockQueueRevision, initResponse>>
      BY <1>2, <1>14, <2>1 DEF ReceiveEvent, atomics
    <2>5. queue = ticket[s] => IsTurn(r, ticket[s])
      BY <1>1, <2>2 DEF IsTurn, None
    <2>6. queue = ticket[s] => j <= r
      BY <1>1, <1>9, <2>1, <2>5 DEF TurnKnown
    <2>7. handling'[s].queue = ticket[s] =>
            handling'[s].stage = "revision" /\ j <= handling'[s].revision
      BY <1>1, <2>3, <2>6 DEF None
    <2>8. \A i \in watchNext'[s]..Len(log) : i \in watchNext[s]..Len(log)
      BY <1>1, <2>1, <2>4
    <2>9. watchNext[s] > 0
      BY <1>1, <2>1
    <2> QED
      BY <1>3, <1>9, <2>4, <2>7, <2>8, <2>9 DEF TurnKnown, IsTurn
  <1>15. CASE StoreRevision(s)
    <2>1. /\ handling[s].stage = "revision" /\ handling'[s].stage = "version"
          /\ handling'[s].queue = handling[s].queue
          /\ lockQueueRevision'[s] = handling[s].revision
          /\ UNCHANGED <<lockQueueVersion, initResponse, watchNext>>
      BY <1>2, <1>15 DEF StoreRevision, Response
    <2>2. j <= lockQueueRevision[s] => j <= lockQueueRevision'[s]
      BY <1>1, <1>5, <2>1
    <2> QED
      BY <1>3, <1>9, <2>1, <2>2 DEF TurnKnown, IsTurn
  <1>16. CASE StoreVersion(s)
    <2>1. /\ handling[s].stage = "version" /\ handling'[s].stage = "listener"
          /\ handling'[s].queue = handling[s].queue
          /\ lockQueueVersion'[s] = handling[s].queue
          /\ UNCHANGED <<lockQueueRevision, initResponse, watchNext>>
      BY <1>2, <1>16 DEF StoreVersion, Response
    <2> QED
      BY <1>3, <1>9, <2>1 DEF TurnKnown, IsTurn
  <1>17. CASE OnUpdate(s)
    <2>1. /\ handling'[s] = Nothing
          /\ UNCHANGED <<lockQueueVersion, lockQueueRevision, initResponse, watchNext>>
      BY <1>2, <1>17 DEF OnUpdate, atomics
    <2>2. Nothing.queue # ticket[s]
      BY <1>1 DEF Nothing, None
    <2> QED
      BY <1>3, <1>9, <2>1, <2>2 DEF TurnKnown, IsTurn
  <1> QED
    BY <1>10, <1>11, <1>13, <1>14, <1>15, <1>16, <1>17 DEF DataStream

\* Who passes the lock on gives the turn at a revision that is after all data,
\* and that nobody has heard of.
LEMMA PassOnCovers ==
  ASSUME TypeInv, InsideServed, KnownNotAhead, PassOn, NEW s \in Servers, Covered(s),
         StreamOf(s)' = StreamOf(s),
         HandlerOf(s)' = HandlerOf(s) \/ (phase'[s] = "idle" /\ numRevision'[s] = numRevision[s])
  PROVE  Covered(s)'
  <1>1. /\ Len(log) \in Nat /\ queueVersion \in Nat /\ ticket[s] \in Nat
        /\ numRevision[s] \in Nat /\ answered[s] \in Nat /\ granted[s] \in Nat
        /\ watchNext[s] \in Nat
    BY CoverTypes
  <1>2. /\ Grows /\ log'[Len(log) + 1].key = "lock_queue"
        /\ log'[Len(log) + 1].version = queueVersion + 1
        /\ queueVersion' = queueVersion + 1
    BY <1>1, WriteGrows DEF PassOn
  <1>3. PICK n, q : /\ n = Len(log) /\ n \in Nat /\ Len(log') = n + 1
                    /\ q = queueVersion /\ q \in Nat /\ queueVersion' = q + 1
                    /\ \A i \in 1..n : log'[i] = log[i]
                    /\ log'[n + 1].key = "lock_queue" /\ log'[n + 1].version = q + 1
    BY <1>1, <1>2 DEF Grows
  <1>4. \A i \in 1..(n + 1) : i = n + 1 \/ (i \in 1..n /\ log'[i] = log[i])
    BY <1>3
  <1>5. /\ lockQueueVersion'[s] = lockQueueVersion[s]
        /\ lockQueueRevision'[s] = lockQueueRevision[s] /\ starting'[s] = starting[s]
        /\ answered'[s] = answered[s] /\ initResponse'[s] = initResponse[s]
        /\ watchNext'[s] = watchNext[s] /\ watchHeader'[s] = watchHeader[s]
        /\ handling'[s] = handling[s] /\ numRevision'[s] = numRevision[s]
    BY DEF StreamOf, HandlerOf
  <1>6. RevisionsRise(s)'
    BY <1>1, <1>3, <1>5 DEF Covered, RevisionsRise
  <1>7. DataBy(n + 1)'
    BY <1>3, <1>4 DEF DataBy
  <1>8. CASE phase'[s] = "idle" /\ numRevision'[s] = numRevision[s]
    BY <1>6, <1>8 DEF Covered, TurnCovered, HeldCovered
  <1>9. CASE HandlerOf(s)' = HandlerOf(s)
    <2>1. /\ phase'[s] = phase[s] /\ ticket'[s] = ticket[s] /\ granted'[s] = granted[s]
      BY <1>9 DEF HandlerOf
    <2>2. TurnBeforeAnswer(s) => TurnBeforeAnswer(s)'
      <3>1. \A j \in (numRevision[s] + 1)..answered[s] : j \in 1..n
        BY <1>1, <1>3 DEF Covered, RevisionsRise
      <3> QED
        BY <1>3, <1>5, <2>1, <3>1 DEF TurnBeforeAnswer
    <2>3. \A m \in Nat : DataBy(m) => DataBy(m)'
      BY <1>3, <1>4 DEF DataBy, IsData
    <2>4. HeldCovered(s)'
      BY <1>1, <2>1, <2>2, <2>3 DEF Covered, HeldCovered
    <2>5. ASSUME phase'[s] \in {"waiting", "seen"}, ticket'[s] = queueVersion'
          PROVE  TurnAt(s, n + 1)'
      <3>1. ticket[s] = q + 1 /\ phase'[s] = "waiting"
        <4>1. phase[s] = "seen" => ticket[s] = q
          BY <1>3 DEF InsideServed
        <4> QED
          BY <1>3, <2>1, <2>5, <4>1
      <3>2. n + 1 \in (numRevision[s] + 1)..(n + 1) /\ IsTurn(n + 1, q + 1)'
        BY <1>1, <1>3 DEF Covered, RevisionsRise, IsTurn
      \* nothing that s knows or will hear of before is as far
      <3>3. /\ lockQueueVersion[s] # q + 1 /\ handling[s].queue # q + 1
            /\ initResponse[s].queue # q + 1
        <4>1. /\ lockQueueVersion[s] <= q /\ handling[s].queue <= q
              /\ initResponse[s].queue <= q
          BY <1>3 DEF KnownNotAhead
        <4>2. ~ (q + 1 <= q)
          BY <1>3
        <4> QED
          BY <4>1, <4>2
      <3>4. ASSUME watchNext[s] > 0, NEW i \in watchNext[s]..(n + 1), IsTurn(i, q + 1)'
            PROVE  n + 1 <= i
        <4>1. CASE i = n + 1
          BY <1>3, <4>1
        <4>2. CASE i # n + 1
          <5>1. i \in watchNext[s]..n /\ i \in 1..n /\ log'[i] = log[i]
            BY <1>1, <1>3, <1>4, <3>4, <4>2
          <5>2. log[i].version <= q
            BY <1>3, <3>4, <5>1 DEF KnownNotAhead, IsTurn
          <5>3. log[i].version = q + 1
            BY <3>4, <5>1 DEF IsTurn
          <5> QED
            BY <1>3, <5>2, <5>3
        <4> QED
          BY <4>1, <4>2
      <3>5. TurnKnown(s, n + 1)'
        BY <1>3, <1>5, <2>1, <3>1, <3>3, <3>4 DEF TurnKnown, IsTurn
      <3> QED
        BY <1>3, <1>5, <1>7, <2>1, <3>1, <3>2, <3>5 DEF TurnAt
    <2>6. n + 1 \in Nat
      BY <1>3
    <2>7. TurnCovered(s)'
      BY <2>5, <2>6 DEF TurnCovered
    <2> QED
      BY <1>6, <2>4, <2>7 DEF Covered
  <1> QED
    BY <1>8, <1>9

\* What the transaction handler of s does to it.
LEMMA HandlerCovers ==
  ASSUME TicketInv, NEW s \in Servers, Covered(s), Handler(s) \/ Crash(s)
  PROVE  Covered(s)'
  <1>1. /\ TypeInv /\ InsideServed /\ KnownNotAhead /\ TicketsOpen
    BY DEF TicketInv
  <1>2. /\ Len(log) \in Nat /\ queueVersion \in Nat /\ ticket[s] \in Nat
        /\ numRevision[s] \in Nat /\ granted[s] \in Nat /\ answered[s] \in Nat
        /\ lockQueueRevision[s] \in Nat /\ lockQueueVersion[s] \in Nat
    BY <1>1, CoverTypes
  <1>3. /\ numberVersion \in Nat /\ dataVersion \in Nat /\ log \in Seq(Event)
        /\ phase \in [Servers -> Phases] /\ ticket \in [Servers -> Nat]
        /\ numRevision \in [Servers -> Nat] /\ granted \in [Servers -> Nat]
    BY <1>1 DEF TypeInv, TypeOK
  <1>4. RevisionsRise(s) /\ TurnCovered(s) /\ HeldCovered(s)
    BY DEF Covered
  \* steps after which the data or the turn do not matter
  <1>5. ASSUME phase'[s] \in {"idle", "asking", "updated"}, StreamOf(s)' = StreamOf(s),
               numRevision'[s] = numRevision[s], UNCHANGED log \/ Grows
        PROVE  Covered(s)'
    <2>1. Len(log') \in Nat /\ Len(log) <= Len(log')
      BY <1>2, <1>5 DEF Grows
    <2>2. RevisionsRise(s)'
      BY <1>2, <1>4, <1>5, <2>1 DEF RevisionsRise, StreamOf
    <2> QED
      BY <1>5, <2>2 DEF Covered, TurnCovered, HeldCovered
  <1>6. ASSUME GiveTicket PROVE Grows
    <2>1. Write("lock_number", numberVersion + 1) /\ numberVersion + 1 \in Nat
      BY <1>3, <1>6 DEF GiveTicket
    <2> QED
      BY <1>1, <2>1, WriteGrows
  <1>7. CASE TakeTicket(s)
    <2>1. /\ phase'[s] = "waiting" /\ numRevision'[s] = Len(log) + 1 /\ Grows
          /\ UNCHANGED stream /\ UNCHANGED atomics
      BY <1>3, <1>6, <1>7 DEF TakeTicket
    <2>2. Len(log') = Len(log) + 1
      BY <2>1 DEF Grows
    <2>3. PICK n : n = Len(log) + 1 /\ numRevision'[s] = n /\ Len(log') = n
      BY <2>1, <2>2
    <2>4. RevisionsRise(s)'
      BY <1>2, <1>4, <2>1, <2>2 DEF RevisionsRise, stream, atomics
    <2>5. TurnCovered(s)' /\ HeldCovered(s)'
      <3>1. DataBy(n)'
        BY <1>2, <2>3 DEF DataBy
      <3> QED
        BY <2>1, <2>3, <3>1 DEF TurnCovered, HeldCovered
    <2> QED
      BY <2>4, <2>5 DEF Covered
  <1>8. CASE TakeTicketLost(s)
    BY <1>3, <1>5, <1>6, <1>8 DEF TakeTicketLost, StreamOf, stream, atomics
  <1>9. ASSUME UNCHANGED <<log, queueVersion, ticket, numRevision, atomics, stream>>
        PROVE  /\ RevisionsRise(s)'
               /\ TurnBeforeAnswer(s) => TurnBeforeAnswer(s)'
               /\ \A m \in Nat : DataBy(m) => DataBy(m)'
    BY <1>4, <1>9 DEF RevisionsRise, TurnBeforeAnswer, DataBy, IsData, atomics, stream
  <1>10. CASE SeeTurn(s)
    <2>1. /\ phase[s] = "waiting" /\ phase'[s] = "seen" /\ lockQueueVersion[s] = ticket[s]
          /\ UNCHANGED <<log, queueVersion, ticket, numRevision, atomics, stream>>
      BY <1>3, <1>10 DEF SeeTurn, etcd
    \* it is told a turn that is not ahead of etcd, and its ticket is not behind
    <2>2. ticket[s] = queueVersion
      <3>1. ticket[s] \in queueVersion..(numberVersion - 1)
        BY <1>1, <2>1 DEF TicketsOpen, Waits
      <3>2. lockQueueVersion[s] <= queueVersion
        BY <1>1 DEF KnownNotAhead
      <3> QED
        BY <1>2, <1>3, <2>1, <3>1, <3>2
    <2>3. \A j \in Nat : TurnAt(s, j) => TurnAt(s, j)'
      <3>1. \A j \in Nat : TurnAt(s, j) => j <= lockQueueRevision[s]
        BY <2>1 DEF TurnAt, TurnKnown
      <3> QED
        BY <1>9, <2>1, <3>1 DEF TurnAt, TurnKnown, IsTurn, atomics, stream
    <2>4. TurnCovered(s)'
      BY <1>2, <1>4, <1>9, <2>1, <2>2, <2>3 DEF TurnCovered
    <2> QED
      BY <1>9, <2>1, <2>4 DEF Covered, HeldCovered
  <1>11. CASE LoadRevision(s)
    <2>1. /\ phase[s] = "seen" /\ phase'[s] = "holding"
          /\ granted'[s] = Later(lockQueueRevision[s], numRevision[s])
          /\ UNCHANGED <<log, queueVersion, ticket, numRevision, atomics, stream>>
      BY <1>3, <1>11 DEF LoadRevision, etcd
    <2>2. lockQueueRevision[s] <= granted'[s] /\ numRevision[s] <= granted'[s]
          /\ granted'[s] \in Nat
      BY <1>2, <2>1 DEF Later
    <2>3. \A m \in Nat : m <= granted'[s] /\ DataBy(m) => DataBy(granted'[s])
      BY <1>2, <2>2 DEF DataBy
    <2>4. TurnBeforeAnswer(s) \/ DataBy(numRevision[s]) \/ \E j \in Nat : TurnAt(s, j)
      BY <1>1, <1>4, <2>1 DEF TurnCovered, InsideServed
    <2>5. \A j \in Nat : TurnAt(s, j) => j <= granted'[s] /\ DataBy(j)
      <3>1. \A j \in Nat : TurnAt(s, j) => j <= lockQueueRevision[s] /\ DataBy(j)
        BY <2>1 DEF TurnAt, TurnKnown
      <3> QED
        BY <1>2, <2>2, <3>1
    <2>6. TurnBeforeAnswer(s) \/ DataBy(granted'[s])
      BY <1>2, <2>2, <2>3, <2>4, <2>5
    <2>7. HeldCovered(s)'
      <3>1. PICK g : g = granted'[s]
        OBVIOUS
      <3>2. TurnBeforeAnswer(s) \/ DataBy(g)
        BY <2>6, <3>1
      <3>3. TurnBeforeAnswer(s)' \/ DataBy(g)'
        BY <1>9, <2>1, <2>2, <3>1, <3>2
      <3> QED
        BY <3>1, <3>3 DEF HeldCovered
    <2> QED
      BY <1>9, <2>1, <2>7 DEF Covered, TurnCovered
  <1>12. CASE Update(s)
    <2>1. /\ phase'[s] = "updated" /\ UNCHANGED <<numRevision, atomics, stream>>
          /\ Write("data", dataVersion + 1) /\ dataVersion + 1 \in Nat
      BY <1>3, <1>12 DEF Update, CaughtUp
    <2>2. Grows
      BY <1>1, <2>1, WriteGrows
    <2> QED
      BY <1>5, <2>1, <2>2 DEF StreamOf, stream, atomics
  <1>13. CASE Release(s)
    <2>1. PassOn /\ phase'[s] = "idle" /\ UNCHANGED <<numRevision, atomics, stream>>
      BY <1>3, <1>13 DEF Release
    <2> QED
      BY <1>1, <2>1, PassOnCovers DEF StreamOf, stream, atomics
  <1>14. CASE ReleaseLost(s)
    BY <1>3, <1>5, <1>14 DEF ReleaseLost, StreamOf, stream, atomics, etcd
  <1>15. CASE Crash(s)
    <2>1. /\ phase'[s] = "down" /\ numRevision'[s] = 0 /\ answered'[s] = 0
          /\ lockQueueRevision'[s] = 0 /\ watchNext'[s] = 0 /\ watchHeader'[s] = 0
          /\ handling'[s] = Nothing /\ starting'[s] = {} /\ initResponse'[s] = NoResponse
          /\ UNCHANGED log
      BY <1>1, <1>15 DEF Crash, etcd, TypeInv, TypeOK
    <2>2. RevisionsRise(s)'
      BY <1>2, <2>1 DEF RevisionsRise, Nothing
    <2> QED
      BY <2>1, <2>2 DEF Covered, TurnCovered, HeldCovered
  <1> QED
    BY <1>7, <1>8, <1>10, <1>11, <1>12, <1>13, <1>14, <1>15 DEF Handler

\* Data is written by who is inside, and so nobody else has the turn.
LEMMA UpdateCovers ==
  ASSUME TicketInv, NEW r \in Servers, Update(r), NEW s \in Servers, s # r, Covered(s)
  PROVE  Covered(s)'
  <1>1. TypeInv /\ InsideServed /\ TicketsDiffer
    BY DEF TicketInv
  <1>2. /\ phase[r] = "holding" /\ Write("data", dataVersion + 1)
        /\ phase'[s] = phase[s]
        /\ UNCHANGED <<queueVersion, ticket, numRevision, granted, atomics, stream>>
    BY <1>1 DEF Update, CaughtUp, TypeInv, TypeOK
  <1>3. ~ (phase'[s] \in {"waiting", "seen"} /\ ticket'[s] = queueVersion')
        /\ phase'[s] # "holding"
    BY <1>1, <1>2 DEF InsideServed, TicketsDiffer, Waits
  <1>4. dataVersion + 1 \in Nat
    BY <1>1 DEF TypeInv, TypeOK
  <1>5. Len(log') = Len(log) + 1 /\ Len(log) \in Nat
    BY <1>1, <1>2, <1>4, WriteGrows DEF Grows
  <1>6. numRevision[s] \in Nat /\ answered[s] \in Nat
    BY <1>1, CoverTypes
  <1>7. RevisionsRise(s)'
    BY <1>2, <1>5, <1>6 DEF Covered, RevisionsRise, atomics, stream
  <1> QED
    BY <1>3, <1>7 DEF Covered, TurnCovered, HeldCovered

LEMMA CoverInvStep == CoverInv /\ [Next]_vars => CoverInv'
  <1> SUFFICES ASSUME CoverInv, [Next]_vars PROVE CoverInv'
    OBVIOUS
  <1>1. /\ TicketInv /\ TypeInv /\ DownForgets /\ InsideServed /\ KnownNotAhead
        /\ \A s \in Servers : Covered(s)
    BY DEF CoverInv, TicketInv
  <1>2. TicketInv'
    BY <1>1, TicketInvStep
  <1> SUFFICES ASSUME NEW s \in Servers PROVE Covered(s)'
    BY <1>2 DEF CoverInv
  <1>3. Covered(s) /\ numberVersion + 1 \in Nat
    BY <1>1 DEF TypeInv, TypeOK
  <1>4. ASSUME NEW r \in Servers,
               Launch(r) \/ EtcdAnswersRange(r) \/ EtcdStartsWatch(r) \/ DataStream(r)
        PROVE  Covered(s)'
    <2>1. CASE r = s
      <3>1. RevisionsRise(s)'
        BY <1>1, <1>3, <1>4, <2>1, StreamRises DEF Covered
      <3>2. CASE Launch(s)
        <4>1. phase'[s] = "idle"
          BY <1>1, <3>2 DEF Launch, TypeInv, TypeOK
        <4> QED
          BY <3>1, <4>1 DEF Covered, TurnCovered, HeldCovered
      <3>3. CASE EtcdAnswersRange(s) \/ EtcdStartsWatch(s) \/ DataStream(s)
        BY <1>1, <1>3, <3>1, <3>3, StreamCovers DEF Covered
      <3> QED
        BY <1>4, <2>1, <3>2, <3>3
    <2>2. CASE r # s
      <3>1. StreamOf(s)' = StreamOf(s)
        BY <1>1, <1>4, <2>2 DEF Launch, EtcdAnswersRange, EtcdStartsWatch, DataStream,
             ReceiveInit, HandleResponse, ReceiveEvent, StoreRevision, StoreVersion,
             OnUpdate, StreamOf, atomics, TypeInv, TypeOK
      <3>2. HandlerOf(s)' = HandlerOf(s) /\ UNCHANGED <<log, queueVersion>>
        BY <1>1, <1>4, <2>2 DEF Launch, EtcdAnswersRange, EtcdStartsWatch, DataStream,
             ReceiveInit, ReceiveEvent, StoreRevision, StoreVersion,
             OnUpdate, HandlerOf, etcd, handler, TypeInv, TypeOK
      <3> QED
        BY <1>1, <1>3, <3>1, <3>2, SameCovered
    <2> QED
      BY <2>1, <2>2
  <1>5. ASSUME NEW r \in Servers, Handler(r) \/ Crash(r) PROVE Covered(s)'
    <2>1. CASE r = s
      BY <1>1, <1>3, <1>5, <2>1, HandlerCovers
    <2>2. CASE r # s
      <3>1. StreamOf(s)' = StreamOf(s) /\ HandlerOf(s)' = HandlerOf(s)
        <4>1. CASE Handler(r)
          BY <1>1, <2>2, <4>1 DEF Handler, TakeTicket, TakeTicketLost, SeeTurn,
               LoadRevision, Update, Release, ReleaseLost, StreamOf, HandlerOf, atomics,
               stream, TypeInv, TypeOK
        <4>2. CASE Crash(r)
          BY <1>1, <2>2, <4>2 DEF Crash, StreamOf, HandlerOf, TypeInv, TypeOK
        <4> QED
          BY <1>5, <4>1, <4>2
      <3>2. CASE TakeTicket(r) \/ TakeTicketLost(r)
        <4>1. UNCHANGED queueVersion /\ Write("lock_number", numberVersion + 1)
          BY <3>2 DEF TakeTicket, TakeTicketLost, GiveTicket
        <4>2. Grows /\ log'[Len(log) + 1].key = "lock_number"
          BY <1>1, <1>3, <4>1, WriteGrows
        <4> QED
          BY <1>1, <1>3, <3>1, <4>1, <4>2, SameCovered
      <3>3. CASE SeeTurn(r) \/ LoadRevision(r) \/ ReleaseLost(r) \/ Crash(r)
        <4>1. UNCHANGED <<log, queueVersion>>
          BY <3>3 DEF SeeTurn, LoadRevision, ReleaseLost, Crash, etcd
        <4> QED
          BY <1>1, <1>3, <3>1, <4>1, SameCovered
      <3>4. CASE Update(r)
        BY <1>1, <1>3, <2>2, <3>4, UpdateCovers
      <3>5. CASE Release(r)
        BY <1>1, <1>3, <3>1, <3>5, PassOnCovers DEF Release
      <3> QED
        BY <1>5, <3>2, <3>3, <3>4, <3>5 DEF Handler
    <2> QED
      BY <2>1, <2>2
  <1>6. CASE Tool
    <2>1. StreamOf(s)' = StreamOf(s) /\ HandlerOf(s)' = HandlerOf(s)
      BY <1>6 DEF Tool, ToolReadNumber, ToolTakeTicket, ToolTakeFails, ToolSeesTurn,
           ToolReadQueue, ToolUnlock, ToolInit, StreamOf, HandlerOf, handler, atomics,
           stream
    <2>2. CASE ToolReadNumber \/ ToolTakeFails \/ ToolSeesTurn \/ ToolReadQueue
      <3>1. UNCHANGED <<log, queueVersion>>
        BY <2>2 DEF ToolReadNumber, ToolTakeFails, ToolSeesTurn, ToolReadQueue, etcd
      <3> QED
        BY <1>1, <1>3, <2>1, <3>1, SameCovered
    <2>3. CASE ToolTakeTicket
      <3>1. UNCHANGED queueVersion /\ Write("lock_number", numberVersion + 1)
        BY <2>3 DEF ToolTakeTicket, GiveTicket
      <3>2. Grows /\ log'[Len(log) + 1].key = "lock_number"
        BY <1>1, <1>3, <3>1, WriteGrows
      <3> QED
        BY <1>1, <1>3, <2>1, <3>1, <3>2, SameCovered
    <2>4. CASE ToolUnlock
      BY <1>1, <1>3, <2>1, <2>4, PassOnCovers DEF ToolUnlock
    \* the keys are deleted while no server runs
    <2>5. CASE ToolInit
      <3>1. phase'[s] = "down" /\ Write("lock_queue", 0)
            /\ numRevision'[s] = numRevision[s]
        BY <2>5 DEF ToolInit, handler
      <3>2. Len(log') = Len(log) + 1 /\ Len(log) \in Nat
        BY <1>1, <3>1, WriteGrows DEF Grows
      <3>3. numRevision[s] \in Nat /\ answered[s] \in Nat
        BY <1>1, CoverTypes
      <3>4. RevisionsRise(s)'
        BY <1>3, <2>1, <3>1, <3>2, <3>3 DEF Covered, RevisionsRise, StreamOf
      <3> QED
        BY <3>1, <3>4 DEF Covered, TurnCovered, HeldCovered
    <2> QED
      BY <1>6, <2>2, <2>3, <2>4, <2>5 DEF Tool
  <1>7. CASE UNCHANGED vars
    <2>1. /\ StreamOf(s)' = StreamOf(s) /\ HandlerOf(s)' = HandlerOf(s)
          /\ UNCHANGED <<log, queueVersion>>
      BY <1>7 DEF vars, etcd, handler, atomics, stream, StreamOf, HandlerOf
    <2> QED
      BY <1>1, <1>3, <2>1, SameCovered
  <1> QED
    BY <1>4, <1>5, <1>6, <1>7 DEF Next

\* The version acquireLock returns is not before any write made under the lock,
\* whenever servers start and come back and however late etcd answers them,
\* unless the turn came between the ticket and the answer to the range request.
THEOREM LockVersionCoversPastCorrect == Spec => []LockVersionCoversPast
  <1>1. Init => CoverInv
    BY InitCover
  <1>2. CoverInv /\ [Next]_vars => CoverInv'
    BY CoverInvStep
  <1>3. CoverInv => LockVersionCoversPast
    BY DEF CoverInv, Covered, HeldCovered, DataBy, IsData, LockVersionCoversPast
  <1> QED
    BY <1>1, <1>2, <1>3, PTL DEF Spec

-----------------------------------------------------------------------------
(* The owner decides on the latest data, when every server follows etcd     *)
(* before the first ticket is taken: the watch of each tells it every change. *)

\* While nothing is written nobody has a ticket; afterwards no server starts,
\* and all that run have heard from the first change on.
StartIsQuiet ==
  /\ log = <<>> => /\ numberVersion = 0 /\ queueVersion = 0 /\ dataVersion = 0
                   /\ tool.phase = "idle" /\ unlockSeen = None
  /\ \A s \in Servers :
       /\ log # <<>> => starting[s] = {} /\ initResponse[s] = NoResponse
       /\ initResponse[s] \in {NoResponse, [number |-> 0, queue |-> 0, data |-> 0]}
       /\ answered[s] = 0
       /\ "watch" \in starting[s] => watchNext[s] = 0
       /\ phase[s] # "down" /\ "watch" \notin starting[s] => watchNext[s] > 0

\* v is the version of the data after the first n changes.
DataAt(n, v) ==
  \/ v = 0 /\ \A i \in 1..n : ~ IsData(i)
  \/ \E i \in 1..n : /\ IsData(i) /\ log[i].version = v
                     /\ \A k \in 1..n : IsData(k) => k <= i

\* What the watch thread works on is the last change it has been told, ...
HandlesLast(s) ==
  handling[s] # Nothing =>
    LET r == handling[s].revision IN
    /\ r \in 1..Len(log) /\ r + 1 = watchNext[s]
    /\ handling[s].data = IF IsData(r) THEN log[r].version ELSE None

\* ... and its listener has been given all those before.
CopyIsCurrent(s) ==
  /\ copy[s].version \in 0..Len(log)
  /\ watchNext[s] = 0 => copy[s].version = 0 /\ handling[s] = Nothing
  /\ watchNext[s] > 0 =>
       copy[s].version = watchNext[s] - (IF handling[s] = Nothing THEN 1 ELSE 2)
  /\ DataAt(copy[s].version, copy[s].data)

DataIsLatest == DataAt(Len(log), dataVersion)

DownIsEmpty == \A s \in Servers : phase[s] = "down" => copy[s] = EmptyCopy

StreamInOrder == \A s \in Servers : HandlesLast(s) /\ CopyIsCurrent(s)

SerialInv ==
  CoverInv /\ StartIsQuiet /\ DownIsEmpty /\ StreamInOrder /\ DataIsLatest

LEMMA InitSerial == Init => SerialInv
  <1> SUFFICES ASSUME Init PROVE SerialInv
    OBVIOUS
  <1>1. CoverInv
    BY InitCover
  <1>2. /\ log = <<>> /\ Len(log) = 0 /\ dataVersion = 0
        /\ \A s \in Servers : /\ phase[s] = "down" /\ starting[s] = {}
                              /\ initResponse[s] = NoResponse /\ watchNext[s] = 0
                              /\ handling[s] = Nothing /\ copy[s] = EmptyCopy
                              /\ answered[s] = 0
    BY DEF Init
  <1>3. StartIsQuiet
    BY <1>2 DEF Init, StartIsQuiet
  <1>4. DownIsEmpty
    BY <1>2 DEF DownIsEmpty
  <1>5. DataIsLatest
    BY <1>2 DEF DataIsLatest, DataAt
  <1>6. StreamInOrder
    BY <1>2 DEF StreamInOrder, HandlesLast, CopyIsCurrent, DataAt, EmptyCopy
  <1> QED
    BY <1>1, <1>3, <1>4, <1>5, <1>6 DEF SerialInv

\* Who writes with a ticket, or about one, is not the first to write.
LEMMA NotTheFirst ==
  ASSUME TicketInv, StartIsQuiet,
         (\E s \in Servers : Waits(s)) \/ tool.phase # "idle" \/ unlockSeen # None
           \/ numberVersion > 0
  PROVE  log # <<>>
  <1>1. CASE \E s \in Servers : Waits(s)
    <2>1. numberVersion \in Nat /\ queueVersion \in Nat /\ queueVersion < numberVersion
      BY <1>1 DEF TicketInv, TypeInv, TypeOK, TicketsOpen
    <2> QED
      BY <2>1 DEF StartIsQuiet
  <1> QED
    BY <1>1 DEF StartIsQuiet

LEMMA StreamKeepsQuiet ==
  ASSUME QuietStart, TicketInv, StartIsQuiet, NEW s \in Servers,
         Launch(s) \/ EtcdAnswersRange(s) \/ EtcdStartsWatch(s) \/ DataStream(s)
  PROVE  StartIsQuiet'
  <1>1. /\ log \in Seq(Event)
        /\ starting \in [Servers -> SUBSET {"range", "watch"}]
        /\ initResponse \in [Servers -> Versions \cup {NoResponse}]
        /\ watchNext \in [Servers -> Nat] /\ phase \in [Servers -> Phases]
        /\ answered \in [Servers -> Nat] /\ DownForgets
    BY DEF TicketInv, TypeInv, TypeOK
  <1>2. CASE Launch(s)
    BY <1>1, <1>2 DEF Launch, StartIsQuiet, DownForgets, etcd, helper
  <1>3. CASE EtcdAnswersRange(s)
    <2>1. /\ log = <<>> /\ Len(log) = 0
          /\ numberVersion = 0 /\ queueVersion = 0 /\ dataVersion = 0
      BY <1>3 DEF EtcdAnswersRange, StartIsQuiet
    <2> QED
      BY <1>1, <1>3, <2>1 DEF EtcdAnswersRange, StartIsQuiet, etcd, helper, handler
  <1>4. CASE EtcdStartsWatch(s)
    <2>1. Len(log) + 1 > 0
      BY <1>1
    <2> QED
      BY <1>1, <1>4, <2>1 DEF EtcdStartsWatch, StartIsQuiet, etcd, helper, handler
  <1>5. CASE ReceiveInit(s)
    BY <1>1, <1>5 DEF ReceiveInit, StartIsQuiet, etcd, helper, handler
  <1>6. CASE ReceiveEvent(s)
    <2>1. watchNext[s] > 0 /\ watchNext[s] + 1 > 0
      BY <1>1, <1>6 DEF ReceiveEvent
    <2> QED
      BY <1>1, <1>6, <2>1 DEF ReceiveEvent, StartIsQuiet, etcd, helper, handler
  <1>7. CASE StoreRevision(s) \/ StoreVersion(s) \/ OnUpdate(s)
    BY <1>7 DEF StoreRevision, StoreVersion, OnUpdate, StartIsQuiet, etcd, helper, handler
  <1> QED
    BY <1>2, <1>3, <1>4, <1>5, <1>6, <1>7 DEF DataStream

LEMMA OthersKeepQuiet ==
  ASSUME QuietStart, TicketInv, StartIsQuiet,
         \/ \E s \in Servers : Handler(s) \/ Crash(s)
         \/ Tool
  PROVE  StartIsQuiet'
  <1>1. /\ log \in Seq(Event) /\ numberVersion \in Nat /\ queueVersion \in Nat
        /\ dataVersion \in Nat
        /\ phase \in [Servers -> Phases]
        /\ tool \in [phase: {"idle", "taking", "waiting", "holding"}, number: Nat]
        /\ watchNext \in [Servers -> Nat] /\ UnlockIsSafe
        /\ starting \in [Servers -> SUBSET {"range", "watch"}]
        /\ answered \in [Servers -> Nat]
        /\ initResponse \in [Servers -> Versions \cup {NoResponse}]
    BY DEF TicketInv, TypeInv, TypeOK
  <1>2. ASSUME NEW key, NEW version, Write(key, version)
        PROVE  log' # <<>>
    BY <1>1, <1>2 DEF Write
  <1>3. ASSUME log # <<>> \/ UNCHANGED <<numberVersion, queueVersion, dataVersion, tool,
                                        unlockSeen>>,
               log # <<>> \/ UNCHANGED log, log # <<>> => log' # <<>>,
               UNCHANGED stream,
               \A s \in Servers : phase'[s] # "down" => phase[s] # "down"
        PROVE  StartIsQuiet'
    BY <1>3 DEF StartIsQuiet, stream
  <1>4. ASSUME NEW s \in Servers, TakeTicket(s) \/ TakeTicketLost(s) PROVE StartIsQuiet'
    <2>1. MayAsk(s) /\ Write("lock_number", numberVersion + 1) /\ UNCHANGED stream
      BY <1>4 DEF TakeTicket, TakeTicketLost, GiveTicket
    <2>2. log' # <<>>
      BY <1>2, <2>1
    <2>3. \A r \in Servers : phase'[r] # "down" => phase[r] # "down"
      BY <1>1, <1>4, <2>1 DEF TakeTicket, TakeTicketLost, MayAsk
    <2>4. CASE log # <<>>
      BY <1>3, <2>1, <2>2, <2>3, <2>4
    <2>5. CASE log = <<>>
      <3>1. \A r \in Servers : Following(r)
        BY <2>1, <2>5 DEF MayAsk
      <3> QED
        BY <2>1, <2>2, <2>3, <3>1 DEF StartIsQuiet, Following, stream
    <2> QED
      BY <2>4, <2>5
  <1>5. ASSUME NEW s \in Servers, SeeTurn(s) \/ LoadRevision(s) \/ ReleaseLost(s)
        PROVE  StartIsQuiet'
    <2>1. UNCHANGED <<etcd, stream, helper>>
      BY <1>5 DEF SeeTurn, LoadRevision, ReleaseLost
    <2>2. \A r \in Servers : phase'[r] # "down" => phase[r] # "down"
      BY <1>1, <1>5 DEF SeeTurn, LoadRevision, ReleaseLost, CaughtUp
    <2> QED
      BY <1>3, <2>1, <2>2 DEF etcd, helper
  <1>6. ASSUME NEW s \in Servers, Update(s) \/ Release(s) PROVE StartIsQuiet'
    <2>1. log # <<>>
      BY <1>6, NotTheFirst DEF Update, Release, CaughtUp, Waits
    <2>2. log' # <<>> /\ UNCHANGED stream
      BY <1>2, <1>6 DEF Update, Release, PassOn
    <2>3. \A r \in Servers : phase'[r] # "down" => phase[r] # "down"
      BY <1>1, <1>6 DEF Update, Release, CaughtUp
    <2> QED
      BY <1>3, <2>1, <2>2, <2>3
  <1>7. ASSUME NEW s \in Servers, Crash(s) PROVE StartIsQuiet'
    <2>1. UNCHANGED <<etcd, helper>> /\ phase'[s] = "down" /\ starting'[s] = {}
          /\ initResponse'[s] = NoResponse /\ answered'[s] = 0
      BY <1>1, <1>7 DEF Crash
    <2>2. \A r \in Servers \ {s} :
            /\ phase'[r] = phase[r] /\ starting'[r] = starting[r]
            /\ initResponse'[r] = initResponse[r] /\ watchNext'[r] = watchNext[r]
            /\ answered'[r] = answered[r]
      BY <1>1, <1>7 DEF Crash
    <2> QED
      BY <2>1, <2>2 DEF StartIsQuiet, etcd, helper
  <1>8. CASE Tool
    <2>1. CASE ToolReadNumber \/ ToolTakeFails \/ ToolSeesTurn \/ ToolReadQueue
      <3>1. log # <<>>
        BY <2>1, <1>1, NotTheFirst DEF ToolReadNumber, ToolTakeFails, ToolSeesTurn, ToolReadQueue, Stuck
      <3>2. UNCHANGED <<log, stream, phase>>
        BY <2>1 DEF ToolReadNumber, ToolTakeFails, ToolSeesTurn, ToolReadQueue, etcd, handler
      <3> QED
        BY <1>3, <3>1, <3>2
    <2>2. CASE ToolTakeTicket \/ ToolUnlock \/ ToolInit
      <3>1. log # <<>>
        <4>1. ToolUnlock => unlockSeen # None
          BY <1>1 DEF ToolUnlock, None
        <4> QED
          BY <2>2, <4>1, NotTheFirst DEF ToolTakeTicket, ToolInit
      <3>2. log' # <<>> /\ UNCHANGED <<stream, phase>>
        BY <1>2, <2>2 DEF ToolTakeTicket, ToolUnlock, ToolInit, GiveTicket, PassOn, handler
      <3> QED
        BY <1>3, <3>1, <3>2
    <2> QED
      BY <1>8, <2>1, <2>2 DEF Tool
  <1> QED
    BY <1>4, <1>5, <1>6, <1>7, <1>8 DEF Handler

\* What is true of a stream stays true when the log grows elsewhere, ...
LEMMA GrowthKeepsStream ==
  ASSUME TypeInv, StreamInOrder, DownIsEmpty, Grows \/ UNCHANGED log,
         UNCHANGED stream,
         \A s \in Servers : phase'[s] = "down" => phase[s] = "down"
  PROVE  StreamInOrder' /\ DownIsEmpty'
  <1>1. CASE UNCHANGED log
    BY <1>1 DEF StreamInOrder, DownIsEmpty, HandlesLast, CopyIsCurrent, DataAt, IsData,
                stream
  <1>2. CASE Grows
    <2>1. PICK n : n = Len(log) /\ n \in Nat /\ Len(log') = n + 1
                   /\ \A i \in 1..n : log'[i] = log[i]
      BY <1>2 DEF Grows
    <2>2. DownIsEmpty'
      BY DEF DownIsEmpty, stream
    <2> SUFFICES ASSUME NEW s \in Servers
                 PROVE  (HandlesLast(s) /\ CopyIsCurrent(s))'
      BY <2>2 DEF StreamInOrder
    <2>3. HandlesLast(s) /\ CopyIsCurrent(s)
      BY DEF StreamInOrder
    <2>6. HandlesLast(s)'
      BY <2>1, <2>3 DEF HandlesLast, IsData, stream
    <2>7. CopyIsCurrent(s)'
      <3>1. PICK c, d : c = copy[s].version /\ d = copy[s].data /\ copy' = copy
        BY DEF stream
      <3>2. c \in 0..n /\ DataAt(c, d)
        BY <2>1, <2>3, <3>1 DEF CopyIsCurrent
      <3>3. \A i \in 1..c : log'[i] = log[i]
        BY <2>1, <3>2
      <3>4. DataAt(c, d)'
        BY <3>2, <3>3 DEF DataAt, IsData
      <3>5. c \in 0..(n + 1)
        BY <2>1, <3>2
      <3> QED
        BY <2>1, <2>3, <3>1, <3>4, <3>5 DEF CopyIsCurrent, stream
    <2> QED
      BY <2>6, <2>7
  <1> QED
    BY <1>1, <1>2

\* ... and the stream of s is moved on in order by its watch.
LEMMA StreamMovesInOrder ==
  ASSUME QuietStart, TicketInv, StartIsQuiet, StreamInOrder, DownIsEmpty,
         NEW s \in Servers,
         Launch(s) \/ EtcdAnswersRange(s) \/ EtcdStartsWatch(s) \/ DataStream(s)
  PROVE  StreamInOrder' /\ DownIsEmpty'
  <1>1. /\ log \in Seq(Event) /\ watchNext \in [Servers -> Nat]
        /\ phase \in [Servers -> Phases] /\ handling \in [Servers -> Response]
        /\ copy \in [Servers -> [version: Nat, data: Nat]]
        /\ TypeInv /\ DownForgets
    BY DEF TicketInv, TypeInv, TypeOK
  <1>2. Len(log) \in Nat
    BY <1>1
  <1>3. HandlesLast(s) /\ CopyIsCurrent(s)
    BY DEF StreamInOrder
  <1>4. handling[s] # Nothing => phase[s] # "down"
    BY <1>1 DEF DownForgets
  <1>5. ASSUME UNCHANGED log,
               \A r \in Servers \ {s} :
                 /\ watchNext'[r] = watchNext[r] /\ handling'[r] = handling[r]
                 /\ copy'[r] = copy[r] /\ phase'[r] = phase[r],
               (HandlesLast(s) /\ CopyIsCurrent(s))',
               phase'[s] # "down" \/ copy'[s] = EmptyCopy
        PROVE  StreamInOrder' /\ DownIsEmpty'
    <2>1. \A r \in Servers \ {s} : HandlesLast(r)' /\ CopyIsCurrent(r)'
      <3> TAKE r \in Servers \ {s}
      <3>1. HandlesLast(r) /\ CopyIsCurrent(r)
        BY DEF StreamInOrder
      <3>3. HandlesLast(r)'
        BY <1>5, <3>1 DEF HandlesLast, IsData
      <3>4. CopyIsCurrent(r)'
        BY <1>5, <3>1 DEF CopyIsCurrent, DataAt, IsData
      <3> QED
        BY <3>3, <3>4
    <2>2. StreamInOrder'
      BY <1>5, <2>1 DEF StreamInOrder
    <2>3. DownIsEmpty'
      BY <1>5 DEF DownIsEmpty
    <2> QED
      BY <2>2, <2>3
  <1>6. CASE Launch(s)
    <2>1. UNCHANGED <<log, watchNext, handling, copy>> /\ phase'[s] = "idle"
          /\ \A r \in Servers \ {s} : phase'[r] = phase[r]
      BY <1>1, <1>6 DEF Launch, etcd
    <2>2. (HandlesLast(s) /\ CopyIsCurrent(s))'
      BY <1>3, <2>1 DEF HandlesLast, CopyIsCurrent, DataAt, IsData
    <2> QED
      BY <1>5, <2>1, <2>2
  <1>7. CASE EtcdAnswersRange(s) \/ ReceiveInit(s)
    <2>1. UNCHANGED <<log, phase, watchNext, handling, copy>>
      BY <1>7 DEF EtcdAnswersRange, ReceiveInit, StartIsQuiet, etcd, handler
    <2> QED
      BY <2>1 DEF StreamInOrder, DownIsEmpty, HandlesLast, CopyIsCurrent, DataAt, IsData
  <1>8. CASE EtcdStartsWatch(s)
    <2>1. Len(log) = 0 /\ watchNext[s] = 0
      BY <1>8 DEF EtcdStartsWatch, StartIsQuiet
    <2>3. copy[s].version = 0 /\ handling[s] = Nothing
      BY <1>3, <2>1 DEF CopyIsCurrent
    <2>4. /\ watchNext'[s] = 1
          /\ UNCHANGED <<log, phase, handling, copy>>
          /\ \A r \in Servers \ {s} : watchNext'[r] = watchNext[r]
      BY <1>1, <1>8, <2>1 DEF EtcdStartsWatch, etcd, handler
    <2>5. HandlesLast(s)'
      BY <2>1, <2>3, <2>4 DEF HandlesLast
    <2>6. CopyIsCurrent(s)'
      BY <1>3, <2>1, <2>3, <2>4 DEF CopyIsCurrent, DataAt, IsData
    <2> QED
      BY <1>5, <2>4, <2>5, <2>6 DEF DownIsEmpty
  <1>9. CASE ReceiveEvent(s)
    <2>1. PICK r : r = watchNext[s] /\ r \in 1..Len(log)
      BY <1>9 DEF ReceiveEvent
    <2>2. handling[s] = Nothing /\ copy[s].version = r - 1 /\ log[r] \in Event
      BY <1>1, <1>3, <1>9, <2>1 DEF ReceiveEvent, CopyIsCurrent
    <2>3. PICK queue, data :
            /\ queue = (IF log[r].key = "lock_queue" THEN log[r].version ELSE None)
            /\ data = (IF log[r].key = "data" THEN log[r].version ELSE None)
      OBVIOUS
    <2>4. HandleResponse(s, r, queue, data)
      BY <1>9, <2>1, <2>3 DEF ReceiveEvent
    <2>5. /\ handling'[s].stage = (IF queue = None THEN "listener" ELSE "revision")
          /\ handling'[s].revision = r /\ handling'[s].queue = queue
          /\ handling'[s].data = data /\ handling'[s] # Nothing
      BY <1>1, <2>1, <2>4 DEF HandleResponse, Nothing
    <2>6. /\ watchNext'[s] = r + 1
          /\ UNCHANGED <<log, phase, copy>>
          /\ \A q \in Servers \ {s} : watchNext'[q] = watchNext[q] /\ handling'[q] = handling[q]
      BY <1>1, <1>9, <2>1, <2>4 DEF ReceiveEvent, HandleResponse, etcd, handler
    <2>8. HandlesLast(s)'
      BY <2>1, <2>3, <2>5, <2>6 DEF HandlesLast, IsData
    <2>9. CopyIsCurrent(s)'
      <3>1. r + 1 - 2 = r - 1 /\ r + 1 > 0 /\ r + 1 # 0
        BY <1>2, <2>1
      <3>2. PICK c, d : c = copy[s].version /\ d = copy[s].data
        OBVIOUS
      <3>3. DataAt(c, d) /\ c \in 0..Len(log)
        BY <1>3, <3>2 DEF CopyIsCurrent
      <3>4. DataAt(c, d)'
        BY <2>6, <3>3 DEF DataAt, IsData
      <3>5. copy'[s].version = c /\ copy'[s].data = d /\ log' = log /\ c = r - 1
        BY <2>2, <2>6, <3>2
      <3>6. /\ handling'[s] # Nothing /\ watchNext'[s] = r + 1
            /\ copy'[s].version = watchNext'[s] - 2
        <4>1. handling'[s] # Nothing
          BY <2>5
        <4>2. watchNext'[s] = r + 1 /\ r - 1 = (r + 1) - 2
          BY <1>2, <2>1, <2>6
        <4> QED
          BY <3>5, <4>1, <4>2
      <3>7. /\ copy'[s].version \in 0..Len(log') /\ copy'[s].version = c
            /\ copy'[s].data = d /\ watchNext'[s] # 0
        BY <3>1, <3>3, <3>5, <3>6
      <3> QED
        BY <3>4, <3>6, <3>7 DEF CopyIsCurrent
    <2> QED
      BY <1>5, <2>6, <2>8, <2>9 DEF DownIsEmpty
  <1> DEFINE r == handling[s].revision
  <1>10. handling[s] # Nothing =>
          /\ r \in 1..Len(log) /\ r \in Nat /\ r + 1 = watchNext[s]
          /\ copy[s].version = r - 1
    BY <1>1, <1>3 DEF HandlesLast, CopyIsCurrent
  <1>11. CASE StoreRevision(s) \/ StoreVersion(s)
    <2>1. handling[s] # Nothing
      BY <1>11 DEF StoreRevision, StoreVersion, Nothing
    <2>2. /\ handling'[s].revision = handling[s].revision
          /\ handling'[s].data = handling[s].data /\ handling'[s] # Nothing
          /\ UNCHANGED <<log, phase, watchNext, copy>>
          /\ \A q \in Servers \ {s} : handling'[q] = handling[q]
      BY <1>1, <1>11 DEF StoreRevision, StoreVersion, Response, Nothing, etcd, handler
    <2>3. HandlesLast(s)'
      BY <1>3, <2>1, <2>2 DEF HandlesLast, IsData
    <2>4. CopyIsCurrent(s)'
      BY <1>3, <2>1, <2>2 DEF CopyIsCurrent, DataAt, IsData
    <2> QED
      BY <1>4, <1>5, <2>1, <2>2, <2>3, <2>4
  <1>13. CASE OnUpdate(s)
    <2>1. handling[s] # Nothing /\ handling[s].stage = "listener"
      BY <1>13 DEF OnUpdate, Nothing
    <2>2. /\ handling'[s] = Nothing
          /\ copy'[s].version = r
          /\ copy'[s].data = (IF handling[s].data = None THEN copy[s].data
                              ELSE handling[s].data)
          /\ UNCHANGED <<log, phase, watchNext>>
          /\ \A q \in Servers \ {s} : copy'[q] = copy[q] /\ handling'[q] = handling[q]
      BY <1>1, <1>13 DEF OnUpdate, etcd, handler
    <2>3. PICK d, e, k : /\ d = copy[s].data /\ e = copy'[s].data /\ k = r
                         /\ e = IF IsData(k) THEN log[k].version ELSE d
      <3>1. handling[s].data = IF IsData(r) THEN log[r].version ELSE None
        BY <1>3, <2>1 DEF HandlesLast
      <3>2. log[r] \in Event
        BY <1>1, <1>2, <1>10, <2>1
      <3>3. log[r].version # None
        BY <3>2 DEF Event, None
      <3>4. copy'[s].data = IF IsData(r) THEN log[r].version ELSE copy[s].data
        BY <2>2, <3>1, <3>3
      <3> HIDE DEF r
      <3> QED
        BY <3>4
    <2>4. k \in 1..Len(log) /\ k \in Nat /\ k + 1 = watchNext[s] /\ DataAt(k - 1, d)
      BY <1>3, <1>10, <2>1, <2>3 DEF CopyIsCurrent
    <2>5. DataAt(k, e)
      <3>1. \A i \in 1..k : i = k \/ i \in 1..(k - 1)
        BY <2>4
      <3>2. \A i \in 1..(k - 1) : i \in 1..k
        BY <2>4
      <3>3. \A i \in 1..k : i <= k
        BY <2>4
      <3>4. CASE IsData(k)
        BY <2>3, <2>4, <3>3, <3>4 DEF DataAt
      <3>5. CASE ~ IsData(k)
        BY <2>3, <2>4, <3>1, <3>2, <3>5 DEF DataAt
      <3> QED
        BY <3>4, <3>5
    <2>6. HandlesLast(s)'
      BY <2>2 DEF HandlesLast
    <2>7. CopyIsCurrent(s)'
      <3>1. DataAt(k, e)'
        BY <2>2, <2>5 DEF DataAt, IsData
      <3>2. copy'[s].version = k /\ copy'[s].data = e /\ handling'[s] = Nothing
            /\ watchNext'[s] = k + 1 /\ log' = log
        BY <2>2, <2>3, <2>4
      <3>3. k \in 0..Len(log) /\ k + 1 > 0 /\ k + 1 # 0 /\ k + 1 - 1 = k
        BY <1>2, <2>4
      <3> QED
        BY <3>1, <3>2, <3>3 DEF CopyIsCurrent
    <2> QED
      BY <1>4, <1>5, <2>1, <2>2, <2>6, <2>7
  <1> QED
    BY <1>6, <1>7, <1>8, <1>9, <1>11, <1>13 DEF DataStream

\* A change of another key than the data.
LEMMA NoDataKeepsData ==
  ASSUME DataIsLatest, UNCHANGED dataVersion,
         UNCHANGED log \/ (Grows /\ log'[Len(log) + 1].key # "data")
  PROVE  DataIsLatest'
  <1>1. CASE UNCHANGED log
    BY <1>1 DEF DataIsLatest, DataAt, IsData
  <1>2. CASE Grows /\ log'[Len(log) + 1].key # "data"
    <2>1. PICK n, v : /\ n = Len(log) /\ n \in Nat /\ Len(log') = n + 1 /\ v = dataVersion
                      /\ \A i \in 1..n : log'[i] = log[i]
                      /\ log'[n + 1].key # "data"
      BY <1>2 DEF Grows
    <2>2. DataAt(n, v)
      BY <2>1 DEF DataIsLatest
    <2>3. \A i \in 1..(n + 1) : i = n + 1 \/ i \in 1..n
      BY <2>1
    <2>4. \A i \in 1..n : i \in 1..(n + 1)
      BY <2>1
    <2>5. DataAt(n + 1, v)'
      BY <2>1, <2>2, <2>3, <2>4 DEF DataAt, IsData
    <2> QED
      BY <2>1, <2>5 DEF DataIsLatest
  <1> QED
    BY <1>1, <1>2

\* A transaction is the latest data.
LEMMA UpdateIsLatest ==
  ASSUME TypeInv, NEW s \in Servers, Update(s)
  PROVE  DataIsLatest'
  <1>1. /\ Write("data", dataVersion + 1) /\ dataVersion + 1 \in Nat
        /\ dataVersion' = dataVersion + 1
    BY DEF Update, TypeInv, TypeOK
  <1>2. /\ Grows /\ log'[Len(log) + 1].key = "data"
        /\ log'[Len(log) + 1].version = dataVersion'
    BY <1>1, WriteGrows
  <1>3. PICK n, v : /\ n = Len(log) /\ n \in Nat /\ Len(log') = n + 1
                    /\ v = dataVersion' /\ log'[n + 1].key = "data"
                    /\ log'[n + 1].version = v
    BY <1>2 DEF Grows
  <1>4. n + 1 \in 1..(n + 1) /\ \A k \in 1..(n + 1) : k <= n + 1
    BY <1>3
  <1>5. DataAt(n + 1, v)'
    BY <1>3, <1>4 DEF DataAt, IsData
  <1> QED
    BY <1>3, <1>5 DEF DataIsLatest

LEMMA SerialInvStep == QuietStart /\ SerialInv /\ [Next]_vars => SerialInv'
  <1> SUFFICES ASSUME QuietStart, SerialInv, [Next]_vars PROVE SerialInv'
    OBVIOUS
  <1>1. /\ CoverInv /\ TicketInv /\ StartIsQuiet /\ DownIsEmpty /\ StreamInOrder
        /\ DataIsLatest /\ TypeInv
    BY DEF SerialInv, CoverInv, TicketInv
  <1>2. CoverInv'
    BY <1>1, CoverInvStep
  <1>3. CASE \E s \in Servers :
               Launch(s) \/ EtcdAnswersRange(s) \/ EtcdStartsWatch(s) \/ DataStream(s)
    <2>1. StartIsQuiet' /\ StreamInOrder' /\ DownIsEmpty'
      BY <1>1, <1>3, StreamKeepsQuiet, StreamMovesInOrder
    <2>2. UNCHANGED <<log, dataVersion>>
      BY <1>3 DEF Launch, EtcdAnswersRange, EtcdStartsWatch, DataStream, ReceiveInit,
                  ReceiveEvent, StoreRevision, StoreVersion, OnUpdate, etcd
    <2>3. DataIsLatest'
      BY <1>1, <2>2, NoDataKeepsData
    <2> QED
      BY <1>2, <2>1, <2>3 DEF SerialInv
  <1>4. CASE (\E s \in Servers : Handler(s)) \/ Tool
    <2>1. StartIsQuiet'
      BY <1>1, <1>4, OthersKeepQuiet
    <2>2. UNCHANGED stream
      BY <1>4 DEF Handler, TakeTicket, TakeTicketLost, SeeTurn, LoadRevision, Update,
                  Release, ReleaseLost, Tool, ToolReadNumber, ToolTakeTicket, ToolTakeFails,
                  ToolSeesTurn, ToolReadQueue, ToolUnlock, ToolInit
    <2>3. /\ numberVersion + 1 \in Nat /\ queueVersion + 1 \in Nat
          /\ dataVersion + 1 \in Nat /\ 0 \in Nat
      BY <1>1 DEF TypeInv, TypeOK
    <2>4. \/ UNCHANGED <<log, dataVersion>>
          \/ /\ UNCHANGED dataVersion
             /\ \/ Write("lock_number", numberVersion + 1)
                \/ Write("lock_queue", queueVersion + 1)
                \/ Write("lock_queue", 0)
          \/ \E s \in Servers : Update(s)
      BY <1>4 DEF Handler, TakeTicket, TakeTicketLost, SeeTurn, LoadRevision,
                  Release, ReleaseLost, Tool, ToolReadNumber, ToolTakeTicket,
                  ToolTakeFails, ToolSeesTurn, ToolReadQueue, ToolUnlock, ToolInit,
                  GiveTicket, PassOn, etcd
    <2>5. (\E s \in Servers : Update(s)) => Write("data", dataVersion + 1)
      BY DEF Update
    <2>6. /\ UNCHANGED log \/ Grows
          /\ DataIsLatest'
      <3>1. CASE \E s \in Servers : Update(s)
        BY <1>1, <2>3, <2>5, <3>1, UpdateIsLatest, WriteGrows
      <3>2. CASE UNCHANGED <<log, dataVersion>>
        BY <1>1, <3>2, NoDataKeepsData
      <3>3. ASSUME UNCHANGED dataVersion, NEW key \in {"lock_number", "lock_queue"},
                   NEW version \in Nat, Write(key, version)
            PROVE  Grows /\ DataIsLatest'
        BY <1>1, <3>3, NoDataKeepsData, WriteGrows
      <3> QED
        BY <2>3, <2>4, <3>1, <3>2, <3>3
    <2>7. \A s \in Servers : phase'[s] = "down" => phase[s] = "down"
      <3>1. phase \in [Servers -> Phases]
        BY <1>1 DEF TypeInv, TypeOK
      <3> QED
        BY <1>4, <3>1 DEF Handler, TakeTicket, TakeTicketLost, SeeTurn, LoadRevision, Update,
                  Release, ReleaseLost, Tool, ToolReadNumber, ToolTakeTicket, ToolTakeFails,
                  ToolSeesTurn, ToolReadQueue, ToolUnlock, ToolInit, etcd, handler
    <2>8. StreamInOrder' /\ DownIsEmpty'
      BY <1>1, <2>2, <2>6, <2>7, GrowthKeepsStream
    <2> QED
      BY <1>2, <2>1, <2>6, <2>8 DEF SerialInv
  <1>5. ASSUME NEW s \in Servers, Crash(s) PROVE SerialInv'
    <2>1. StartIsQuiet'
      BY <1>1, <1>5, OthersKeepQuiet
    <2>2. /\ UNCHANGED <<log, dataVersion>>
          /\ watchNext'[s] = 0 /\ handling'[s] = Nothing /\ copy'[s] = EmptyCopy
          /\ \A r \in Servers \ {s} :
               /\ watchNext'[r] = watchNext[r] /\ handling'[r] = handling[r]
               /\ copy'[r] = copy[r] /\ phase'[r] = phase[r]
      BY <1>1, <1>5 DEF Crash, TypeInv, TypeOK, etcd
    <2>3. Len(log) \in Nat
      BY <1>1, CoverTypes
    <2>4. (HandlesLast(s) /\ CopyIsCurrent(s))'
      BY <2>2, <2>3 DEF HandlesLast, CopyIsCurrent, DataAt, EmptyCopy
    <2>5. \A r \in Servers \ {s} : HandlesLast(r)' /\ CopyIsCurrent(r)'
      <3> TAKE r \in Servers \ {s}
      <3>1. HandlesLast(r) /\ CopyIsCurrent(r)
        BY <1>1 DEF StreamInOrder
      <3>2. HandlesLast(r)'
        BY <2>2, <3>1 DEF HandlesLast, IsData
      <3>3. CopyIsCurrent(r)'
        BY <2>2, <3>1 DEF CopyIsCurrent, DataAt, IsData
      <3> QED
        BY <3>2, <3>3
    <2>6. StreamInOrder' /\ DownIsEmpty' /\ DataIsLatest'
      BY <1>1, <2>2, <2>4, <2>5, NoDataKeepsData DEF StreamInOrder, DownIsEmpty
    <2> QED
      BY <1>2, <2>1, <2>6 DEF SerialInv
  <1>6. CASE UNCHANGED vars
    <2>1. UNCHANGED <<etcd, handler, stream, helper>>
      BY <1>6 DEF vars
    <2>2. StartIsQuiet' /\ DataIsLatest'
      BY <1>1, <2>1, NoDataKeepsData DEF StartIsQuiet, etcd, handler, stream, helper
    <2>3. StreamInOrder' /\ DownIsEmpty'
      BY <1>1, <2>1, GrowthKeepsStream DEF etcd, handler
    <2> QED
      BY <1>2, <2>2, <2>3 DEF SerialInv
  <1> QED
    BY <1>3, <1>4, <1>5, <1>6 DEF Next

\* When every server follows etcd before the first ticket is taken, a server
\* that has waited for the version acquireLock returned decides on the latest
\* data.
THEOREM OwnerSeesLatestDataCorrect == QuietStart /\ Spec => []OwnerSeesLatestData
  <1>1. Init => SerialInv
    BY InitSerial
  <1>2. QuietStart /\ SerialInv /\ [Next]_vars => SerialInv'
    BY SerialInvStep
  <1>3. SerialInv => OwnerSeesLatestData
    <2> SUFFICES ASSUME SerialInv, NEW s \in Servers, CaughtUp(s)
                 PROVE  copy[s].data = dataVersion
      BY DEF OwnerSeesLatestData
    <2>1. PICK n, c, d, v : /\ n = Len(log) /\ c = copy[s].version /\ d = copy[s].data
                            /\ v = dataVersion
      OBVIOUS
    <2>2. DataAt(n, v) /\ DataAt(c, d) /\ c \in 0..n
      BY <2>1 DEF SerialInv, DataIsLatest, StreamInOrder, CopyIsCurrent
    <2>3. TypeInv /\ Covered(s)
      BY DEF SerialInv, CoverInv, TicketInv
    <2>4. n \in Nat /\ granted[s] \in Nat /\ numRevision[s] \in Nat
      BY <2>1, <2>3, CoverTypes
    \* the range request was answered before the first ticket
    <2>5. ~ TurnBeforeAnswer(s)
      BY <2>4 DEF SerialInv, StartIsQuiet, TurnBeforeAnswer
    \* every write is among the changes the copy stands for
    <2>6. \A i \in 1..n : IsData(i) => i <= granted[s]
      BY <2>1, <2>3, <2>5 DEF Covered, HeldCovered, DataBy, CaughtUp
    <2>7. granted[s] <= c
      BY <2>1 DEF CaughtUp
    <2>8. \A i \in 1..n : IsData(i) => i \in 1..c
      BY <2>2, <2>4, <2>6, <2>7
    <2>9. \A i \in 1..c : i \in 1..n
      BY <2>2, <2>4
    <2>10. \A i, k \in 1..n : i <= k /\ k <= i => i = k
      BY <2>4
    <2>11. d = v
      BY <2>2, <2>8, <2>9, <2>10 DEF DataAt
    <2> QED
      BY <2>1, <2>11
  <1> SUFFICES ASSUME QuietStart PROVE Spec => []OwnerSeesLatestData
    OBVIOUS
  <1>4. SerialInv /\ [Next]_vars => SerialInv'
    BY <1>2
  <1> QED
    BY <1>1, <1>3, <1>4, PTL DEF Spec

-----------------------------------------------------------------------------
(* The lock implements a line of clients, FifoLock *)

Clients == Servers \cup {Operator}
Tenants == Clients \cup {Nobody}
OwnerMaps == [Nat -> Tenants]
OwnerMap == [t \in Nat |-> Owner(t)]
Line == [i \in 1..(numberVersion - queueVersion) |-> Owner(queueVersion + i - 1)]

\* the values of o from q up to n
Places(o, q, n) == [i \in 1..(n - q) |-> o[q + i - 1]]

\* the owners of a ticket o is the owner of
Holding(c) == IF c = Nobody THEN {} ELSE {c}

LineFacts ==
  /\ OwnerMap \in OwnerMaps
  /\ \A t \in Nat : OwnersOf(t) = Holding(OwnerMap[t])
  /\ Line = Places(OwnerMap, queueVersion, numberVersion)
  /\ queueVersion \in Nat /\ numberVersion \in Nat /\ queueVersion <= numberVersion

\* L: the values of o from q up to n
Lists(L, o, q, n) ==
  /\ L \in Seq(Tenants) /\ Len(L) = n - q
  /\ \A i \in 1..(n - q) : q + i - 1 \in q..(n - 1) /\ L[i] = o[q + i - 1]
  /\ q < n => L # <<>> /\ Head(L) = o[q]

LEMMA PlacesLine ==
  ASSUME NEW o \in OwnerMaps, NEW q \in Nat, NEW n \in Nat, q <= n
  PROVE  Lists(Places(o, q, n), o, q, n)
  <1> DEFINE L == Places(o, q, n)
  <1>1. n - q \in Nat /\ \A i \in 1..(n - q) : q + i - 1 \in Nat /\ q + i - 1 \in q..(n - 1)
    OBVIOUS
  <1>2. L \in [1..(n - q) -> Tenants]
    BY <1>1 DEF Places, OwnerMaps
  <1>3. \A i \in 1..(n - q) : L[i] = o[q + i - 1]
    BY DEF Places
  <1>4. L \in Seq(Tenants) /\ Len(L) = n - q
    BY <1>1, <1>2
  <1>5. ASSUME q < n PROVE L # <<>> /\ Head(L) = o[q]
    <2>1. 1 \in 1..(n - q) /\ q + 1 - 1 = q
      BY <1>5
    <2>2. L[1] = o[q]
      BY <1>3, <2>1
    <2> QED
      BY <1>4, <1>5, <2>2
  <1> HIDE DEF L
  <1>6. Lists(L, o, q, n)
    BY <1>1, <1>3, <1>4, <1>5 DEF Lists
  <1> QED
    BY <1>6 DEF L

LEMMA PlacesJoined ==
  ASSUME NEW o \in OwnerMaps, NEW u \in OwnerMaps, NEW q \in Nat, NEW n \in Nat, q <= n,
         NEW m \in Nat, m = n + 1,
         NEW c \in Tenants, u[n] = c, \A t \in q..(n - 1) : u[t] = o[t]
  PROVE  Places(u, q, m) = Append(Places(o, q, n), c)
  <1>0. PICK L, M : L = Places(o, q, n) /\ M = Places(u, q, m)
    OBVIOUS
  <1>1. Lists(L, o, q, n)
    BY <1>0, PlacesLine
  <1>2. Lists(M, u, q, m)
    <2>1. q <= m
      OBVIOUS
    <2> QED
      BY <1>0, <2>1, PlacesLine
  <1> USE DEF Lists
  <1>3. /\ Append(L, c) \in Seq(Tenants) /\ Len(Append(L, c)) = m - q
        /\ \A i \in 1..(n - q) : Append(L, c)[i] = L[i]
        /\ Append(L, c)[n - q + 1] = c
    BY <1>1
  <1>4. ASSUME NEW i \in 1..(m - q) PROVE M[i] = Append(L, c)[i]
    <2>1. CASE i \in 1..(n - q)
      BY <1>1, <1>2, <1>3, <2>1
    <2>2. CASE i = n - q + 1
      <3>1. q + i - 1 = n
        BY <2>2
      <3>2. M[i] = u[n]
        BY <1>2, <3>1
      <3> QED
        BY <1>3, <2>2, <3>2
    <2>3. i \in 1..(n - q) \/ i = n - q + 1
      OBVIOUS
    <2> QED
      BY <2>1, <2>2, <2>3
  <1>5. Len(M) = Len(Append(L, c)) /\ \A i \in 1..Len(M) : M[i] = Append(L, c)[i]
    BY <1>2, <1>3, <1>4
  <1>6. M \in Seq(Tenants) /\ Append(L, c) \in Seq(Tenants)
    BY <1>2, <1>3
  <1>7. M = Append(L, c)
    BY <1>5, <1>6, SeqEqual
  <1> QED
    BY <1>0, <1>7

LEMMA PlacesLeft ==
  ASSUME NEW o \in OwnerMaps, NEW u \in OwnerMaps, NEW q \in Nat, NEW n \in Nat, q < n,
         NEW p \in Nat, p = q + 1, \A t \in p..(n - 1) : u[t] = o[t]
  PROVE  Places(u, p, n) = Tail(Places(o, q, n))
  <1>0. PICK L, M : L = Places(o, q, n) /\ M = Places(u, p, n)
    OBVIOUS
  <1>1. Lists(L, o, q, n)
    <2>1. q <= n
      OBVIOUS
    <2> QED
      BY <1>0, <2>1, PlacesLine
  <1>2. Lists(M, u, p, n)
    <2>1. p <= n
      OBVIOUS
    <2> QED
      BY <1>0, <2>1, PlacesLine
  <1> USE DEF Lists
  <1>3. /\ Tail(L) \in Seq(Tenants) /\ Len(Tail(L)) = n - p
        /\ \A i \in 1..(n - p) : Tail(L)[i] = L[i + 1]
    BY <1>1
  <1>4. ASSUME NEW i \in 1..(n - p) PROVE M[i] = Tail(L)[i]
    <2>1. i + 1 \in 1..(n - q) /\ q + (i + 1) - 1 = p + i - 1
      OBVIOUS
    <2>2. L[i + 1] = o[p + i - 1]
      BY <1>1, <2>1
    <2>3. M[i] = u[p + i - 1] /\ p + i - 1 \in p..(n - 1)
      BY <1>2
    <2>4. Tail(L)[i] = L[i + 1]
      BY <1>3
    <2> QED
      BY <2>2, <2>3, <2>4
  <1>5. Len(M) = Len(Tail(L)) /\ \A i \in 1..Len(M) : M[i] = Tail(L)[i]
    BY <1>2, <1>3, <1>4
  <1>6. M \in Seq(Tenants) /\ Tail(L) \in Seq(Tenants)
    BY <1>2, <1>3
  <1>7. M = Tail(L)
    BY <1>5, <1>6, SeqEqual
  <1> QED
    BY <1>0, <1>7

LEMMA LineSeen == TicketInv => LineFacts
  <1> SUFFICES ASSUME TicketInv PROVE LineFacts
    OBVIOUS
  <1>1. queueVersion \in Nat /\ numberVersion \in Nat /\ queueVersion <= numberVersion
    BY DEF TicketInv, TypeInv, TypeOK, TicketsOpen
  <1>2. Nobody \notin Clients /\ Operator \notin Servers
    BY ConstantsOK DEF ConstantsAssumption, Clients
  <1>3. ASSUME NEW t \in Nat
        PROVE  Owner(t) \in Tenants /\ OwnersOf(t) = Holding(Owner(t))
    <2>1. OwnersOf(t) \subseteq Clients
      BY DEF OwnersOf, Clients
    <2>2. \A c, d \in OwnersOf(t) : c = d
      BY <1>2 DEF OwnersOf, TicketInv, TicketsDiffer
    <2>3. CASE OwnersOf(t) = {}
      BY <2>3 DEF Owner, Holding, Tenants
    <2>4. CASE OwnersOf(t) # {}
      <3>1. Owner(t) \in OwnersOf(t)
        BY <2>4 DEF Owner
      <3>2. OwnersOf(t) = {Owner(t)}
        BY <2>2, <3>1
      <3> QED
        BY <1>2, <2>1, <3>1, <3>2 DEF Holding, Tenants
    <2> QED
      BY <2>3, <2>4
  <1>4. \A t \in Nat : OwnerMap[t] = Owner(t)
    BY DEF OwnerMap
  <1>5. OwnerMap \in OwnerMaps
    BY <1>3 DEF OwnerMap, OwnerMaps
  <1>6. \A i \in 1..(numberVersion - queueVersion) : queueVersion + i - 1 \in Nat
    BY <1>1
  <1>7. Line = Places(OwnerMap, queueVersion, numberVersion)
    BY <1>4, <1>6 DEF Line, Places
  <1> QED
    BY <1>1, <1>3, <1>4, <1>5, <1>7 DEF LineFacts

LEMMA OwnerKept ==
  ASSUME LineFacts, LineFacts', NEW t \in Nat, OwnersOf(t)' = OwnersOf(t)
  PROVE  OwnerMap'[t] = OwnerMap[t]
  <1>1. OwnersOf(t) = Holding(OwnerMap[t]) /\ OwnersOf(t)' = Holding(OwnerMap'[t])
    BY DEF LineFacts
  <1> QED
    BY <1>1 DEF Holding

LEMMA LineStays ==
  ASSUME LineFacts, LineFacts', UNCHANGED <<queueVersion, numberVersion>>,
         \A t \in Nat : OwnersOf(t)' = OwnersOf(t)
  PROVE  UNCHANGED Line
  <1>1. \A t \in Nat : OwnerMap'[t] = OwnerMap[t]
    BY OwnerKept
  <1>2. OwnerMap' = OwnerMap
    BY <1>1 DEF LineFacts, OwnerMaps
  <1> QED
    BY <1>2 DEF LineFacts

\* what L is for FifoLock
LEMMA LineParts ==
  ASSUME LineFacts, NEW q \in Nat, NEW n \in Nat, q = queueVersion, n = numberVersion
  PROVE  /\ Line \in Seq(Tenants) /\ Len(Line) = n - q /\ q <= n
         /\ \A i \in 1..(n - q) : q + i - 1 \in q..(n - 1) /\ Line[i] = OwnerMap[q + i - 1]
         /\ q < n => Line # <<>> /\ Head(Line) = OwnerMap[q]
  <1>1. PICK o \in OwnerMaps : o = OwnerMap
    BY DEF LineFacts
  <1>2. Lists(Places(o, q, n), o, q, n) /\ q <= n
    BY PlacesLine DEF LineFacts
  <1> QED
    BY <1>1, <1>2 DEF Lists, LineFacts

LEMMA JoinsLine ==
  ASSUME LineFacts, LineFacts', NEW n \in Nat, n = numberVersion, numberVersion' = n + 1,
         UNCHANGED <<queueVersion, InLock>>, NEW c \in Tenants,
         OwnersOf(n)' = Holding(c), \A t \in Nat \ {n} : OwnersOf(t)' = OwnersOf(t),
         c # Nobody => \A t \in Nat : c \notin OwnersOf(t)
  PROVE  Fifo!Join(c)
  <1>1. PICK q \in Nat : q = queueVersion
    BY DEF LineFacts
  <1>2. PICK o \in OwnerMaps, u \in OwnerMaps : o = OwnerMap /\ u = OwnerMap'
    BY DEF LineFacts
  <1>3. \A t \in q..(n - 1) : u[t] = o[t]
    <2>1. \A t \in q..(n - 1) : t \in Nat \ {n}
      OBVIOUS
    <2> QED
      BY <1>2, <2>1, OwnerKept
  <1>4. u[n] = c
    <2>1. Holding(u[n]) = Holding(c)
      BY <1>2 DEF LineFacts
    <2> QED
      BY <2>1 DEF Holding
  <1>5. PICK m \in Nat : m = n + 1
    OBVIOUS
  <1>6. PICK L, M : L = Line /\ M = Line'
    OBVIOUS
  <1>7. L = Places(o, q, n) /\ M = Places(u, q, m) /\ q <= n
    BY <1>1, <1>2, <1>5, <1>6 DEF LineFacts
  <1>8. M = Append(L, c)
    BY <1>3, <1>4, <1>5, <1>7, PlacesJoined
  <1>9. c = Nobody \/ \A i \in 1..Len(L) : L[i] # c
    <2> SUFFICES ASSUME c # Nobody, NEW i \in 1..Len(L) PROVE L[i] # c
      OBVIOUS
    <2>1. L[i] = o[q + i - 1] /\ q + i - 1 \in Nat
      BY <1>1, <1>2, <1>6, LineParts
    <2>2. Holding(o[q + i - 1]) = OwnersOf(q + i - 1)
      BY <1>2, <2>1 DEF LineFacts
    <2>3. c \notin Holding(o[q + i - 1])
      BY <2>1, <2>2
    <2> QED
      BY <2>1, <2>3 DEF Holding
  <1> QED
    BY <1>6, <1>8, <1>9 DEF Line, Fifo!Join

\* The first place is given up: by its client or, if it has none, by the others.
LEMMA FirstLeaves ==
  ASSUME LineFacts, LineFacts', NEW q \in Nat, q = queueVersion, queueVersion' = q + 1,
         UNCHANGED numberVersion, queueVersion < numberVersion,
         \A t \in Nat \ {q} : OwnersOf(t)' = OwnersOf(t)
  PROVE  Line' = Tail(Line) /\ Line # <<>> /\ OwnersOf(q) = Holding(Head(Line))
  <1>1. PICK n \in Nat : n = numberVersion
    BY DEF LineFacts
  <1>2. PICK o \in OwnerMaps, u \in OwnerMaps : o = OwnerMap /\ u = OwnerMap'
    BY DEF LineFacts
  <1>3. PICK p \in Nat : p = q + 1
    OBVIOUS
  <1>4. \A t \in p..(n - 1) : u[t] = o[t]
    <2>1. \A t \in p..(n - 1) : t \in Nat \ {q}
      BY <1>3
    <2> QED
      BY <1>2, <2>1, OwnerKept
  <1>5. PICK L, M : L = Line /\ M = Line'
    OBVIOUS
  <1>6. L = Places(o, q, n) /\ M = Places(u, p, n) /\ q < n
    BY <1>1, <1>2, <1>3, <1>5 DEF LineFacts
  <1>7. M = Tail(L)
    BY <1>3, <1>4, <1>6, PlacesLeft
  <1>8. L # <<>> /\ Head(L) = o[q]
    BY <1>1, <1>2, <1>5, <1>6, LineParts
  <1>9. OwnersOf(q) = Holding(o[q])
    BY <1>2 DEF LineFacts
  <1> QED
    BY <1>5, <1>7, <1>8, <1>9

LEMMA LeavesLine ==
  ASSUME LineFacts, LineFacts', NEW q \in Nat, q = queueVersion, queueVersion' = q + 1,
         UNCHANGED numberVersion, queueVersion < numberVersion,
         \A t \in Nat \ {q} : OwnersOf(t)' = OwnersOf(t),
         NEW c, InLock = {c}, InLock' = {}
  PROVE  Fifo!Leave(c)
  <1>1. Line' = Tail(Line)
    BY FirstLeaves
  <1> QED
    BY <1>1 DEF Line, Fifo!Leave

LEMMA PassedOver ==
  ASSUME LineFacts, LineFacts', NEW q \in Nat, q = queueVersion, queueVersion' = q + 1,
         UNCHANGED numberVersion, queueVersion < numberVersion,
         \A t \in Nat \ {q} : OwnersOf(t)' = OwnersOf(t),
         OwnersOf(q) = {}, UNCHANGED InLock
  PROVE  Fifo!PassOver
  <1>1. Line' = Tail(Line) /\ Line # <<>> /\ Holding(Head(Line)) = {}
    BY FirstLeaves
  <1>2. Head(Line) = Nobody
    BY <1>1 DEF Holding
  <1> QED
    BY <1>1, <1>2 DEF Line, Fifo!PassOver

LEMMA EntersLine ==
  ASSUME LineFacts, LineFacts', NEW q \in Nat, q = queueVersion,
         UNCHANGED <<queueVersion, numberVersion>>, queueVersion < numberVersion,
         \A t \in Nat : OwnersOf(t)' = OwnersOf(t),
         NEW c, c \in OwnersOf(q), InLock = {}, InLock' = {c}
  PROVE  Fifo!Enter(c)
  <1>1. UNCHANGED Line
    BY LineStays
  <1>2. PICK n \in Nat : n = numberVersion
    BY DEF LineFacts
  <1>3. Line # <<>> /\ Head(Line) = OwnerMap[q]
    BY <1>2, LineParts
  <1>4. OwnersOf(q) = Holding(OwnerMap[q])
    BY DEF LineFacts
  <1>5. OwnerMap[q] = c
    BY <1>4 DEF Holding
  <1> QED
    BY <1>1, <1>3, <1>5 DEF Line, Fifo!Enter

LEMMA FailsLine ==
  ASSUME LineFacts, LineFacts', UNCHANGED <<queueVersion, numberVersion>>,
         NEW c \in Clients, NEW d \in queueVersion..(numberVersion - 1), c \in OwnersOf(d),
         \A t \in Nat : OwnersOf(t)' = OwnersOf(t) \ {c}, InLock' = InLock \ {c}
  PROVE  Fifo!Fail(c)
  <1>1. PICK q \in Nat, n \in Nat : q = queueVersion /\ n = numberVersion
    BY DEF LineFacts
  <1>2. PICK o \in OwnerMaps, u \in OwnerMaps : o = OwnerMap /\ u = OwnerMap'
    BY DEF LineFacts
  <1>3. PICK L, M : L = Line /\ M = Line'
    OBVIOUS
  <1>4. c # Nobody
    BY ConstantsOK DEF ConstantsAssumption, Clients
  <1>5. ASSUME NEW t \in Nat
        PROVE  u[t] = IF o[t] = c THEN Nobody ELSE o[t]
    <2>1. Holding(u[t]) = Holding(o[t]) \ {c}
      BY <1>2 DEF LineFacts
    <2> QED
      BY <1>4, <2>1 DEF Holding
  <1>6. /\ L \in Seq(Tenants) /\ Len(L) = n - q
        /\ \A i \in 1..(n - q) : q + i - 1 \in Nat /\ L[i] = o[q + i - 1]
    BY <1>1, <1>2, <1>3, LineParts
  <1>7. M = [i \in 1..(n - q) |-> u[q + i - 1]]
    BY <1>1, <1>2, <1>3 DEF LineFacts, Places
  <1>8. M = [i \in 1..Len(L) |-> IF L[i] = c THEN Nobody ELSE L[i]]
    BY <1>5, <1>6, <1>7
  <1>9. \E i \in 1..Len(L) : L[i] = c
    <2>1. d - q + 1 \in 1..(n - q) /\ q + (d - q + 1) - 1 = d /\ d \in Nat
      BY <1>1
    <2>2. OwnersOf(d) = Holding(o[d])
      BY <1>2, <2>1 DEF LineFacts
    <2>3. o[d] = c
      BY <2>2 DEF Holding
    <2>4. L[d - q + 1] = c
      BY <1>6, <2>1, <2>3
    <2> QED
      BY <1>6, <2>1, <2>4
  <1> QED
    BY <1>3, <1>8, <1>9 DEF Line, Fifo!Fail

\* What a step of one server, or of the tool, changes.
LEMMA ServerMoves ==
  ASSUME NEW s \in Servers, UNCHANGED tool,
         \A r \in Servers \ {s} : phase'[r] = phase[r] /\ ticket'[r] = ticket[r]
  PROVE  /\ \A t : OwnersOf(t)' = (OwnersOf(t) \ {s}) \cup
                                  (IF Waits(s)' /\ ticket'[s] = t THEN {s} ELSE {})
         /\ InLock' = (InLock \ {s}) \cup
                      (IF phase'[s] \in {"seen", "holding", "updated"} THEN {s} ELSE {})
         /\ \A t : s \in OwnersOf(t) <=> Waits(s) /\ ticket[s] = t
         /\ s \in InLock <=> phase[s] \in {"seen", "holding", "updated"}
  <1>1. Operator # s
    BY ConstantsOK DEF ConstantsAssumption
  <1>2. \A r \in Servers \ {s} : Waits(r)' = Waits(r)
    BY DEF Waits
  <1>3. ToolWaits' = ToolWaits
    BY DEF ToolWaits
  <1>4. ASSUME NEW t
        PROVE  /\ OwnersOf(t)' = (OwnersOf(t) \ {s}) \cup
                                 (IF Waits(s)' /\ ticket'[s] = t THEN {s} ELSE {})
               /\ s \in OwnersOf(t) <=> Waits(s) /\ ticket[s] = t
    BY <1>1, <1>2, <1>3 DEF OwnersOf
  <1>5. /\ InLock' = (InLock \ {s}) \cup
                      (IF phase'[s] \in {"seen", "holding", "updated"} THEN {s} ELSE {})
        /\ s \in InLock <=> phase[s] \in {"seen", "holding", "updated"}
    BY <1>1 DEF InLock
  <1> QED
    BY <1>4, <1>5

LEMMA ToolMoves ==
  ASSUME UNCHANGED <<phase, ticket>>
  PROVE  /\ \A t : OwnersOf(t)' = (OwnersOf(t) \ {Operator}) \cup
                                  (IF ToolWaits' /\ tool'.number = t THEN {Operator} ELSE {})
         /\ InLock' = (InLock \ {Operator}) \cup
                      (IF tool'.phase = "holding" THEN {Operator} ELSE {})
         /\ \A t : Operator \in OwnersOf(t) <=> ToolWaits /\ tool.number = t
         /\ Operator \in InLock <=> tool.phase = "holding"
  <1>1. Operator \notin Servers
    BY ConstantsOK DEF ConstantsAssumption
  <1>2. \A r \in Servers : Waits(r)' = Waits(r)
    BY DEF Waits
  <1>3. ASSUME NEW t
        PROVE  /\ OwnersOf(t)' = (OwnersOf(t) \ {Operator}) \cup
                                 (IF ToolWaits' /\ tool'.number = t THEN {Operator} ELSE {})
               /\ Operator \in OwnersOf(t) <=> ToolWaits /\ tool.number = t
    BY <1>1, <1>2 DEF OwnersOf
  <1>4. /\ InLock' = (InLock \ {Operator}) \cup
                     (IF tool'.phase = "holding" THEN {Operator} ELSE {})
        /\ Operator \in InLock <=> tool.phase = "holding"
    BY <1>1 DEF InLock
  <1> QED
    BY <1>3, <1>4

\* Tickets with an owner are open, and whoever owns the one being served is the
\* only one who may be inside.
LEMMA OwnersOpen ==
  ASSUME TicketInv
  PROVE  /\ \A t \in Nat : \A c \in OwnersOf(t) :
              queueVersion <= t /\ t < numberVersion /\ c \in Clients
         /\ InLock \subseteq OwnersOf(queueVersion)
         /\ \A c \in OwnersOf(queueVersion) : InLock \subseteq {c}
         /\ \A c, t, u : c \in OwnersOf(t) /\ c \in OwnersOf(u) => t = u
  <1>1. Operator \notin Servers
    BY ConstantsOK DEF ConstantsAssumption
  <1>2. queueVersion \in Nat /\ numberVersion \in Nat
    BY DEF TicketInv, TypeInv, TypeOK
  <1>3. \A t \in Nat : \A c \in OwnersOf(t) :
          queueVersion <= t /\ t < numberVersion /\ c \in Clients
    BY <1>2 DEF TicketInv, TicketsOpen, OwnersOf, Clients
  <1>4. InLock \subseteq OwnersOf(queueVersion)
    BY DEF TicketInv, InsideServed, OwnersOf, InLock, Waits, ToolWaits
  <1>5. \A t : \A c, d \in OwnersOf(t) : c = d
    BY <1>1 DEF OwnersOf, TicketInv, TicketsDiffer
  <1>6. \A c, t, u : c \in OwnersOf(t) /\ c \in OwnersOf(u) => t = u
    BY <1>1 DEF OwnersOf
  <1> QED
    BY <1>3, <1>4, <1>5, <1>6

FifoStep == Fifo!Next \/ UNCHANGED <<Line, InLock>>

LEMMA ServerSteps ==
  ASSUME TicketInv, TicketInv', NEW s \in Servers, Handler(s) \/ Crash(s) \/ Launch(s)
  PROVE  FifoStep
  <1> USE DEF FifoStep, Fifo!Next
  <1>1. LineFacts /\ LineFacts'
    BY LineSeen, PTL
  <1>2. PICK q \in Nat, n \in Nat : q = queueVersion /\ n = numberVersion
    BY <1>1 DEF LineFacts
  <1>3. /\ phase \in [Servers -> Phases] /\ ticket \in [Servers -> Nat]
        /\ s \in Clients /\ s # Nobody /\ s \in Tenants
    BY ConstantsOK DEF ConstantsAssumption, Clients, Tenants, TicketInv, TypeInv, TypeOK
  <1>4. UNCHANGED tool /\ \A r \in Servers \ {s} : phase'[r] = phase[r] /\ ticket'[r] = ticket[r]
    BY <1>3 DEF Handler, TakeTicket, TakeTicketLost, SeeTurn, LoadRevision, Update, Release,
                ReleaseLost, Crash, Launch, helper
  <1> DEFINE Inside == phase[s] \in {"seen", "holding", "updated"}
             InsideNext == phase'[s] \in {"seen", "holding", "updated"}
  <1>5. /\ \A t : OwnersOf(t)' = (OwnersOf(t) \ {s}) \cup
                                  (IF Waits(s)' /\ ticket'[s] = t THEN {s} ELSE {})
        /\ InLock' = (InLock \ {s}) \cup (IF InsideNext THEN {s} ELSE {})
        /\ \A t : s \in OwnersOf(t) <=> Waits(s) /\ ticket[s] = t
        /\ s \in InLock <=> Inside
    BY <1>4, ServerMoves
  <1>6. CASE TakeTicket(s)
    <2>1. /\ ~ Waits(s) /\ Waits(s)' /\ ticket'[s] = n /\ ~ Inside /\ ~ InsideNext
          /\ numberVersion' = n + 1 /\ queueVersion' = q
      BY <1>2, <1>3, <1>6 DEF TakeTicket, MayAsk, GiveTicket, Waits
    <2>2. OwnersOf(n) = {}
      BY <1>2, OwnersOpen
    <2>3. OwnersOf(n)' = Holding(s) /\ \A t \in Nat \ {n} : OwnersOf(t)' = OwnersOf(t)
      BY <1>3, <1>5, <2>1, <2>2 DEF Holding
    <2>4. UNCHANGED InLock /\ \A t \in Nat : s \notin OwnersOf(t)
      BY <1>5, <2>1
    <2>5. Fifo!Join(s)
      BY <1>1, <1>2, <1>3, <2>1, <2>3, <2>4, JoinsLine
    <2> QED
      BY <1>3, <2>5 DEF Clients
  <1>7. CASE TakeTicketLost(s)
    <2>1. /\ ~ Waits(s) /\ ~ Waits(s)' /\ ~ Inside /\ ~ InsideNext
          /\ numberVersion' = n + 1 /\ queueVersion' = q
      BY <1>2, <1>3, <1>7 DEF TakeTicketLost, MayAsk, GiveTicket, Waits
    <2>2. OwnersOf(n) = {}
      BY <1>2, OwnersOpen
    <2>3. OwnersOf(n)' = Holding(Nobody) /\ \A t \in Nat \ {n} : OwnersOf(t)' = OwnersOf(t)
      BY <1>5, <2>1, <2>2 DEF Holding
    <2>4. UNCHANGED InLock /\ Nobody \in Tenants
      BY <1>5, <2>1 DEF Tenants
    <2>5. Fifo!Join(Nobody)
      BY <1>1, <1>2, <2>1, <2>3, <2>4, JoinsLine
    <2> QED
      BY <2>5
  <1>8. CASE SeeTurn(s)
    <2>1. /\ Waits(s) /\ Waits(s)' /\ ticket'[s] = ticket[s] /\ ~ Inside /\ InsideNext
          /\ UNCHANGED <<queueVersion, numberVersion>>
      BY <1>3, <1>8 DEF SeeTurn, Waits, etcd
    <2>2. \A t \in Nat : OwnersOf(t)' = OwnersOf(t)
      BY <1>5, <2>1
    <2>3. ticket'[s] = queueVersion'
      BY <2>1 DEF TicketInv, InsideServed
    <2>4. s \in OwnersOf(q)
      BY <1>2, <1>5, <2>1, <2>3
    <2>5. InLock = {} /\ InLock' = {s}
      BY <1>2, <1>5, <2>1, <2>4, OwnersOpen
    <2>6. queueVersion < numberVersion
      BY <1>2, <2>4, OwnersOpen
    <2>7. Fifo!Enter(s)
      BY <1>1, <1>2, <2>1, <2>2, <2>4, <2>5, <2>6, EntersLine
    <2> QED
      BY <1>3, <2>7 DEF Clients
  <1>9. CASE \/ LoadRevision(s) \/ Update(s) \/ Launch(s)
             \/ Crash(s) /\ ~ Waits(s)
    <2>1. /\ Waits(s)' = Waits(s) /\ (Waits(s) => ticket'[s] = ticket[s])
          /\ (InsideNext <=> Inside) /\ UNCHANGED <<queueVersion, numberVersion>>
      BY <1>3, <1>9 DEF LoadRevision, Update, Launch, Crash, CaughtUp, Waits, etcd
    <2>2. /\ \A t \in Nat : OwnersOf(t)' = OwnersOf(t)
          /\ UNCHANGED InLock
      BY <1>5, <2>1
    <2> QED
      BY <1>1, <2>1, <2>2, LineStays
  <1>10. CASE Release(s)
    <2>1. /\ Waits(s) /\ ~ Waits(s)' /\ Inside /\ ~ InsideNext
          /\ UNCHANGED numberVersion /\ queueVersion' = q + 1
      BY <1>2, <1>3, <1>10 DEF Release, PassOn, CaughtUp, Waits
    <2>2. s \in OwnersOf(q) /\ s \in InLock
      BY <1>2, <1>5, <2>1, OwnersOpen
    <2>3. InLock = {s} /\ InLock' = {} /\ q < n
      BY <1>2, <1>5, <2>1, <2>2, OwnersOpen
    <2>4. \A t \in Nat \ {q} : OwnersOf(t)' = OwnersOf(t)
      BY <1>5, <2>1, <2>2, OwnersOpen
    <2>5. Fifo!Leave(s)
      BY <1>1, <1>2, <2>1, <2>3, <2>4, LeavesLine
    <2> QED
      BY <1>3, <2>5 DEF Clients
  <1>11. CASE ReleaseLost(s) \/ (Crash(s) /\ Waits(s))
    <2>1. /\ Waits(s) /\ ~ Waits(s)' /\ ~ InsideNext
          /\ UNCHANGED <<queueVersion, numberVersion>>
      BY <1>3, <1>11 DEF ReleaseLost, Crash, CaughtUp, Waits, etcd
    <2>2. PICK d \in Nat : d = ticket[s]
      BY <1>3
    <2>3. s \in OwnersOf(d)
      BY <1>5, <2>1, <2>2
    <2>4. d \in queueVersion..(numberVersion - 1)
      BY <1>2, <2>3, OwnersOpen
    <2>5. (\A t \in Nat : OwnersOf(t)' = OwnersOf(t) \ {s}) /\ InLock' = InLock \ {s}
      BY <1>5, <2>1
    <2>6. Fifo!Fail(s)
      BY <1>1, <1>3, <2>1, <2>3, <2>4, <2>5, FailsLine
    <2> QED
      BY <1>3, <2>6 DEF Clients
  <1> QED
    BY <1>6, <1>7, <1>8, <1>9, <1>10, <1>11 DEF Handler

LEMMA ToolSteps ==
  ASSUME TicketInv, TicketInv', Tool
  PROVE  FifoStep
  <1> USE DEF FifoStep, Fifo!Next
  <1>1. LineFacts /\ LineFacts'
    BY LineSeen, PTL
  <1>2. PICK q \in Nat, n \in Nat : q = queueVersion /\ n = numberVersion
    BY <1>1 DEF LineFacts
  <1>3. /\ tool \in [phase: {"idle", "taking", "waiting", "holding"}, number: Nat]
        /\ Operator \in Tenants /\ Operator # Nobody
    BY ConstantsOK DEF ConstantsAssumption, Clients, Tenants, TicketInv, TypeInv, TypeOK
  <1>4. UNCHANGED <<phase, ticket>>
    BY DEF Tool, ToolReadNumber, ToolTakeTicket, ToolTakeFails, ToolSeesTurn, ToolReadQueue,
           ToolUnlock, ToolInit, handler
  <1>5. /\ \A t : OwnersOf(t)' = (OwnersOf(t) \ {Operator}) \cup
                                  (IF ToolWaits' /\ tool'.number = t THEN {Operator} ELSE {})
        /\ InLock' = (InLock \ {Operator}) \cup
                      (IF tool'.phase = "holding" THEN {Operator} ELSE {})
        /\ \A t : Operator \in OwnersOf(t) <=> ToolWaits /\ tool.number = t
        /\ Operator \in InLock <=> tool.phase = "holding"
    BY <1>4, ToolMoves
  <1>6. CASE ToolReadNumber \/ ToolTakeFails \/ ToolReadQueue
    <2>1. /\ ToolWaits' = ToolWaits /\ (ToolWaits => tool' = tool)
          /\ (tool'.phase = "holding" <=> tool.phase = "holding")
          /\ UNCHANGED <<queueVersion, numberVersion>>
      BY <1>3, <1>6 DEF ToolReadNumber, ToolTakeFails, ToolReadQueue, ToolWaits, etcd
    <2>2. (\A t \in Nat : OwnersOf(t)' = OwnersOf(t)) /\ UNCHANGED InLock
      BY <1>5, <2>1
    <2> QED
      BY <1>1, <2>1, <2>2, LineStays
  <1>7. CASE ToolTakeTicket
    <2>1. /\ ~ ToolWaits /\ ToolWaits' /\ tool'.number = n /\ tool'.phase = "waiting"
          /\ tool.phase # "holding" /\ numberVersion' = n + 1 /\ queueVersion' = q
      BY <1>2, <1>3, <1>7 DEF ToolTakeTicket, GiveTicket, ToolWaits
    <2>2. OwnersOf(n) = {}
      BY <1>2, OwnersOpen
    <2>3. OwnersOf(n)' = Holding(Operator) /\ \A t \in Nat \ {n} : OwnersOf(t)' = OwnersOf(t)
      BY <1>3, <1>5, <2>1, <2>2 DEF Holding
    <2>4. UNCHANGED InLock /\ \A t \in Nat : Operator \notin OwnersOf(t)
      BY <1>5, <2>1
    <2>5. Fifo!Join(Operator)
      BY <1>1, <1>2, <1>3, <2>1, <2>3, <2>4, JoinsLine
    <2> QED
      BY <2>5
  <1>8. CASE ToolSeesTurn
    <2>1. /\ ToolWaits /\ ToolWaits' /\ tool'.number = tool.number /\ tool.number = q
          /\ tool.phase # "holding" /\ tool'.phase = "holding"
          /\ UNCHANGED <<queueVersion, numberVersion>>
      BY <1>2, <1>3, <1>8 DEF ToolSeesTurn, ToolWaits, etcd
    <2>2. \A t \in Nat : OwnersOf(t)' = OwnersOf(t)
      BY <1>5, <2>1
    <2>3. Operator \in OwnersOf(q)
      BY <1>5, <2>1
    <2>4. InLock = {} /\ InLock' = {Operator} /\ queueVersion < numberVersion
      BY <1>2, <1>5, <2>1, <2>3, OwnersOpen
    <2>5. Fifo!Enter(Operator)
      BY <1>1, <1>2, <2>1, <2>2, <2>3, <2>4, EntersLine
    <2> QED
      BY <2>5
  <1>9. CASE ToolUnlock
    <2>1. unlockSeen # None /\ queueVersion' = q + 1 /\ UNCHANGED numberVersion
      BY <1>2, <1>9 DEF ToolUnlock, PassOn, None
    <2>2. CASE tool.phase = "holding"
      <3>1. ToolWaits /\ ~ ToolWaits' /\ tool'.phase = "idle"
        BY <1>3, <1>9, <2>2 DEF ToolUnlock, ToolWaits
      <3>2. Operator \in OwnersOf(q)
        BY <1>2, <1>5, <2>2, OwnersOpen
      <3>3. InLock = {Operator} /\ InLock' = {} /\ queueVersion < numberVersion
        BY <1>2, <1>5, <2>2, <3>1, <3>2, OwnersOpen
      <3>4. \A t \in Nat \ {q} : OwnersOf(t)' = OwnersOf(t)
        BY <1>5, <3>1, <3>2, OwnersOpen
      <3>5. Fifo!Leave(Operator)
        BY <1>1, <1>2, <2>1, <3>3, <3>4, LeavesLine
      <3> QED
        BY <3>5
    <2>3. CASE tool.phase # "holding"
      <3>1. Unowned
        BY <2>1, <2>3 DEF TicketInv, UnlockIsSafe
      <3>2. OwnersOf(q) = {} /\ queueVersion < numberVersion
        BY <1>2, <3>1 DEF Unowned, OwnersOf
      <3>3. UNCHANGED tool
        BY <1>3, <1>9, <2>3 DEF ToolUnlock
      <3>4. (\A t \in Nat \ {q} : OwnersOf(t)' = OwnersOf(t)) /\ UNCHANGED InLock
        BY <1>5, <3>3 DEF ToolWaits
      <3>5. Fifo!PassOver
        BY <1>1, <1>2, <2>1, <3>2, <3>4, PassedOver
      <3> QED
        BY <3>5
    <2> QED
      BY <2>2, <2>3
  <1>10. CASE ToolInit
    <2>1. /\ tool.phase = "idle" /\ UNCHANGED <<tool, phase>>
          /\ \A s \in Servers : phase[s] = "down"
          /\ queueVersion' = 0 /\ numberVersion' = 0
      BY <1>10 DEF ToolInit, helper, handler
    <2>2. ~ ToolWaits /\ \A s \in Servers : ~ Waits(s)
      BY <2>1 DEF ToolWaits, Waits
    <2>3. \A t : OwnersOf(t) = {}
      BY <2>2 DEF OwnersOf
    <2>4. \A i \in 1..Len(Line) : Line[i] = Nobody
      <3> SUFFICES ASSUME NEW i \in 1..Len(Line) PROVE Line[i] = Nobody
        OBVIOUS
      <3>1. Line[i] = OwnerMap[q + i - 1] /\ q + i - 1 \in Nat
        BY <1>1, <1>2, LineParts
      <3>2. Holding(OwnerMap[q + i - 1]) = {}
        BY <1>1, <2>3, <3>1 DEF LineFacts
      <3> QED
        BY <3>1, <3>2 DEF Holding
    <2>5. Line' = <<>>
      BY <2>1 DEF Line
    <2>6. UNCHANGED InLock
      BY <2>1 DEF InLock
    <2>7. Fifo!Clear
      BY <2>4, <2>5, <2>6 DEF Line, Fifo!Clear
    <2> QED
      BY <2>7
  <1> QED
    BY <1>6, <1>7, <1>8, <1>9, <1>10 DEF Tool

LEMMA FifoSteps ==
  ASSUME TicketInv, TicketInv', [Next]_vars
  PROVE  FifoStep
  <1>1. LineFacts /\ LineFacts'
    BY LineSeen, PTL
  <1>2. ASSUME UNCHANGED <<queueVersion, numberVersion, phase, ticket, tool>>
        PROVE  FifoStep
    <2>1. (\A t \in Nat : OwnersOf(t)' = OwnersOf(t)) /\ UNCHANGED InLock
      BY <1>2 DEF OwnersOf, InLock, Waits, ToolWaits
    <2>2. UNCHANGED Line
      BY <1>1, <1>2, <2>1, LineStays
    <2> QED
      BY <2>1, <2>2 DEF FifoStep
  <1>3. ASSUME NEW s \in Servers, EtcdAnswersRange(s) \/ EtcdStartsWatch(s) \/ DataStream(s)
        PROVE  FifoStep
    <2>1. UNCHANGED <<queueVersion, numberVersion, phase, ticket, tool>>
      BY <1>3 DEF EtcdAnswersRange, EtcdStartsWatch, DataStream, ReceiveInit, ReceiveEvent,
                  StoreRevision, StoreVersion, OnUpdate, etcd, handler, helper
    <2> QED
      BY <1>2, <2>1
  <1>4. CASE UNCHANGED vars
    BY <1>2, <1>4 DEF vars, etcd, handler, helper
  <1> QED
    BY <1>3, <1>4, ServerSteps, ToolSteps DEF Next

\* Tickets, versions, watches and polls implement a line of clients, with empty
\* places where a client has failed, whenever servers start and whatever is lost.
THEOREM ImplementsFifoLockCorrect == Spec => ImplementsFifoLock
  <1>1. Init => Fifo!Init
    <2> SUFFICES ASSUME Init PROVE Line = <<>> /\ InLock = {}
      BY DEF Fifo!Init, Line
    <2> QED
      BY DEF Init, Line, InLock
  <1>2. TicketInv /\ TicketInv' /\ [Next]_vars => [Fifo!Next]_<<Line, InLock>>
    BY FifoSteps DEF FifoStep
  <1> QED
    BY <1>1, <1>2, InitTickets, TicketInvStep, PTL DEF Spec, ImplementsFifoLock, Fifo!Spec, Line
=============================================================================
