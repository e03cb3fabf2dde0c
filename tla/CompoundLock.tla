---------------------------- MODULE CompoundLock ----------------------------
(***************************************************************************)
(* The compound lock of src/transaction_redundancy_test: a ticket lock     *)
(* kept in two etcd keys.  The VERSION of lock_number, which counts its    *)
(* puts, is the next ticket; the version of lock_queue is the ticket being *)
(* served.  The lock serialises the transactions of redundant servers.     *)
(*                                                                         *)
(* A server has two sides.  Its transaction handler (THComponent) takes a  *)
(* ticket and spins on lockQueueVersion; its data stream (DSComponent)     *)
(* follows etcd by one range request and one watch, both sent at start,    *)
(* and stores what it hears of lock_queue into two atomics, lockQueueRevision *)
(* and lockQueueVersion, before it gives the response to its listener.     *)
(* lock_helpers/LockHelper.ts lets an operator take, pass on and reset the *)
(* lock from outside.                                                      *)
(*                                                                         *)
(* etcd, and the framework that waits for the local copy of the data to    *)
(* reach the version acquireLock returned, are outside this repository.    *)
(***************************************************************************)
EXTENDS Integers, Sequences, FiniteSets

CONSTANTS
  Servers,       \* redundant transaction servers
  Operator,      \* the user of LockHelper.ts
  Nobody,        \* stands for the owner of an abandoned ticket
  OperatorActs,  \* whether the operator does anything
  QuietStart,    \* no ticket is taken before every server follows etcd
  MaxLog,        \* bound: no ticket is taken at this revision or later
  MaxCrashes,    \* bound: crashes of servers
  MaxLost        \* bound: calls to etcd that fail

VARIABLES
  log,            \* the changes of the watched keys, by revision
  numberVersion,  \* version of lock_number
  queueVersion,   \* version of lock_queue
  dataVersion,    \* version of the data the lock protects
  phase,          \* phase[s]: where the transaction handler of s is
  ticket,         \* ticket[s]: numVersion of acquireCompundLock
  numRevision,    \* numRevision[s]: the revision that gave the ticket
  granted,        \* granted[s]: what acquireLock returned
  lockQueueVersion, lockQueueRevision,  \* the atomics the two sides share
  starting,       \* starting[s]: requests etcd has not seen yet
  answered,       \* history: the revision at which etcd answered the range request
  initResponse,   \* initResponse[s]: the answer to the range request
  watchNext,      \* watchNext[s]: next revision the watch delivers, or 0
  watchHeader,    \* watchHeader[s]: revision in the last watch response
  handling,       \* handling[s]: the response the watch thread works on
  copy,           \* copy[s]: the local copy of the data
  tool,           \* LockHelper.ts --lock
  unlockSeen,     \* LockHelper.ts --unlock: the version of lock_queue it read
  crashes, lost   \* how many crashes and lost calls there have been

etcd == <<log, numberVersion, queueVersion, dataVersion>>
handler == <<phase, ticket, numRevision, granted>>
atomics == <<lockQueueVersion, lockQueueRevision>>
stream == <<starting, answered, initResponse, watchNext, watchHeader, handling, copy>>
helper == <<tool, unlockSeen>>
faults == <<crashes, lost>>
vars == <<etcd, handler, atomics, stream, helper, faults>>

ConstantsAssumption ==
  /\ Operator \notin Servers /\ Nobody \notin Servers \cup {Operator}
  /\ OperatorActs \in BOOLEAN /\ QuietStart \in BOOLEAN
  /\ MaxLog \in Nat /\ MaxCrashes \in Nat /\ MaxLost \in Nat

ASSUME ConstantsOK == ConstantsAssumption

None == -1  \* no version, no response

Event == [key: {"lock_number", "lock_queue", "data"}, version: Nat]
Versions == [number: Nat, queue: Nat, data: Nat]
NoResponse == [number |-> 0, queue |-> None, data |-> 0]
Nothing == [stage |-> "none", revision |-> 0, queue |-> None, data |-> None]
Response == [stage: {"none", "revision", "version", "listener"}, revision: Nat,
             queue: Nat \cup {None}, data: Nat \cup {None}]
EmptyCopy == [version |-> 0, data |-> 0]

Phases == {"down", "idle", "asking", "waiting", "seen", "holding", "updated"}

Init ==
  /\ log = <<>> /\ numberVersion = 0 /\ queueVersion = 0 /\ dataVersion = 0
  /\ phase = [s \in Servers |-> "down"]
  /\ ticket = [s \in Servers |-> 0]
  /\ numRevision = [s \in Servers |-> 0]
  /\ granted = [s \in Servers |-> 0]
  /\ lockQueueVersion = [s \in Servers |-> 0]
  /\ lockQueueRevision = [s \in Servers |-> 0]
  /\ starting = [s \in Servers |-> {}]
  /\ answered = [s \in Servers |-> 0]
  /\ initResponse = [s \in Servers |-> NoResponse]
  /\ watchNext = [s \in Servers |-> 0]
  /\ watchHeader = [s \in Servers |-> 0]
  /\ handling = [s \in Servers |-> Nothing]
  /\ copy = [s \in Servers |-> EmptyCopy]
  /\ tool = [phase |-> "idle", number |-> 0]
  /\ unlockSeen = None
  /\ crashes = 0 /\ lost = 0

\* etcd gives every write the next revision and tells it to the watches
Write(key, version) == log' = Append(log, [key |-> key, version |-> version])

-----------------------------------------------------------------------------
(* The data stream: DSComponent::initialize and runWatchThread. *)

Following(s) == /\ phase[s] # "down" /\ starting[s] = {}
                /\ initResponse[s] = NoResponse

Launch(s) ==
  /\ phase[s] = "down"
  /\ QuietStart => log = <<>>
  /\ phase' = [phase EXCEPT ![s] = "idle"]
  /\ starting' = [starting EXCEPT ![s] = {"range", "watch"}]
  /\ UNCHANGED <<etcd, ticket, numRevision, granted, atomics, answered,
                 initResponse, watchNext, watchHeader, handling, copy, helper,
                 faults>>

EtcdAnswersRange(s) ==
  /\ "range" \in starting[s]
  /\ starting' = [starting EXCEPT ![s] = @ \ {"range"}]
  /\ initResponse' = [initResponse EXCEPT ![s] =
       [number |-> numberVersion, queue |-> queueVersion, data |-> dataVersion]]
  /\ answered' = [answered EXCEPT ![s] = Len(log)]
  /\ UNCHANGED <<etcd, handler, atomics, watchNext, watchHeader, handling, copy,
                 helper, faults>>

\* The watch has no start_revision: it tells what happens from now on.
EtcdStartsWatch(s) ==
  /\ "watch" \in starting[s]
  /\ starting' = [starting EXCEPT ![s] = @ \ {"watch"}]
  /\ watchNext' = [watchNext EXCEPT ![s] = Len(log) + 1]
  /\ UNCHANGED <<etcd, handler, atomics, answered, initResponse, watchHeader,
                 handling, copy, helper, faults>>

\* slip: every key is taken for lock_queue
HandleResponse_AnyKey(s, revision, queue, data) ==
  handling' = [handling EXCEPT ![s] =
    [stage |-> "revision", revision |-> revision, queue |-> queue, data |-> data]]

HandleResponse(s, revision, queue, data) ==
  handling' = [handling EXCEPT ![s] =
    [stage |-> IF queue = None THEN "listener" ELSE "revision",
     revision |-> revision, queue |-> queue, data |-> data]]

(* The revision of the range response is taken from watchResponse: that of *)
(* the last response read, none at first, or the one the pending Read is   *)
(* filling in meanwhile, the confirmation of the watch or the next event.  *)
ReceiveInit(s) ==
  LET kvs == initResponse[s] IN
  /\ handling[s] = Nothing
  /\ kvs # NoResponse
  /\ initResponse' = [initResponse EXCEPT ![s] = NoResponse]
  /\ IF kvs = [number |-> 0, queue |-> 0, data |-> 0] THEN UNCHANGED handling
     ELSE \E revision \in {watchHeader[s]}
                            \cup ({watchNext[s] - 1, watchNext[s]} \cap 0..Len(log)) :
            HandleResponse(s, revision, IF kvs.queue = 0 THEN None ELSE kvs.queue,
                           IF kvs.data = 0 THEN None ELSE kvs.data)
  /\ UNCHANGED <<etcd, handler, atomics, starting, answered, watchNext,
                 watchHeader, copy, helper, faults>>

ReceiveEvent(s) ==
  /\ handling[s] = Nothing
  /\ watchNext[s] \in 1..Len(log)
  /\ LET e == log[watchNext[s]] IN
       HandleResponse(s, watchNext[s],
                      IF e.key = "lock_queue" THEN e.version ELSE None,
                      IF e.key = "data" THEN e.version ELSE None)
  /\ watchHeader' = [watchHeader EXCEPT ![s] = watchNext[s]]
  /\ watchNext' = [watchNext EXCEPT ![s] = @ + 1]
  /\ UNCHANGED <<etcd, handler, atomics, starting, answered, initResponse, copy,
                 helper, faults>>

StoreRevision(s) ==
  /\ handling[s].stage = "revision"
  /\ lockQueueRevision' = [lockQueueRevision EXCEPT ![s] = handling[s].revision]
  /\ handling' = [handling EXCEPT ![s].stage = "version"]
  /\ UNCHANGED <<etcd, handler, lockQueueVersion, starting, answered,
                 initResponse, watchNext, watchHeader, copy, helper, faults>>

StoreVersion(s) ==
  /\ handling[s].stage = "version"
  /\ lockQueueVersion' = [lockQueueVersion EXCEPT ![s] = handling[s].queue]
  /\ handling' = [handling EXCEPT ![s].stage = "listener"]
  /\ UNCHANGED <<etcd, handler, lockQueueRevision, starting, answered,
                 initResponse, watchNext, watchHeader, copy, helper, faults>>

OnUpdate(s) ==
  /\ handling[s].stage = "listener"
  /\ copy' = [copy EXCEPT ![s] =
       [version |-> handling[s].revision,
        data |-> IF handling[s].data = None THEN copy[s].data ELSE handling[s].data]]
  /\ handling' = [handling EXCEPT ![s] = Nothing]
  /\ UNCHANGED <<etcd, handler, atomics, starting, answered, initResponse,
                 watchNext, watchHeader, helper, faults>>

DataStream(s) ==
  \/ ReceiveInit(s) \/ ReceiveEvent(s)
  \/ StoreRevision(s) \/ StoreVersion(s) \/ OnUpdate(s)

-----------------------------------------------------------------------------
(* The transaction handler: acquireCompundLock, handleUpdate and            *)
(* releaseCompoundLock, for one transaction at a time.                      *)

GiveTicket ==
  /\ Len(log) < MaxLog
  /\ numberVersion' = numberVersion + 1
  /\ Write("lock_number", numberVersion + 1)
  /\ UNCHANGED <<queueVersion, dataVersion>>

MayAsk(s) == /\ phase[s] \in {"idle", "asking"}
             /\ QuietStart /\ log = <<>> => \A r \in Servers : Following(r)

\* slip: without --numVersion
TakeTicket_NoDecrement(s) ==
  /\ MayAsk(s)
  /\ GiveTicket
  /\ ticket' = [ticket EXCEPT ![s] = numberVersion + 1]
  /\ numRevision' = [numRevision EXCEPT ![s] = Len(log) + 1]
  /\ phase' = [phase EXCEPT ![s] = "waiting"]
  /\ UNCHANGED <<granted, atomics, stream, helper, faults>>

TakeTicket(s) ==
  /\ MayAsk(s)
  /\ GiveTicket
  /\ ticket' = [ticket EXCEPT ![s] = numberVersion]
  /\ numRevision' = [numRevision EXCEPT ![s] = Len(log) + 1]
  /\ phase' = [phase EXCEPT ![s] = "waiting"]
  /\ UNCHANGED <<granted, atomics, stream, helper, faults>>

\* etcd gives a ticket, the answer is lost, and the loop asks again
TakeTicketLost(s) ==
  /\ MayAsk(s) /\ lost < MaxLost
  /\ GiveTicket
  /\ phase' = [phase EXCEPT ![s] = "asking"]
  /\ lost' = lost + 1
  /\ UNCHANGED <<ticket, numRevision, granted, atomics, stream, helper, crashes>>

\* slip: enters one ticket early
SeeTurn_Early(s) ==
  /\ phase[s] = "waiting"
  /\ lockQueueVersion[s] + 1 >= ticket[s]
  /\ phase' = [phase EXCEPT ![s] = "seen"]
  /\ UNCHANGED <<etcd, ticket, numRevision, granted, atomics, stream, helper, faults>>

\* slip: asks etcd for lock_queue, as LockHelper.ts does
SeeTurn_Polling(s) ==
  /\ phase[s] = "waiting"
  /\ queueVersion = ticket[s]
  /\ phase' = [phase EXCEPT ![s] = "seen"]
  /\ UNCHANGED <<etcd, ticket, numRevision, granted, atomics, stream, helper, faults>>

SeeTurn(s) ==
  /\ phase[s] = "waiting"
  /\ lockQueueVersion[s] = ticket[s]
  /\ phase' = [phase EXCEPT ![s] = "seen"]
  /\ UNCHANGED <<etcd, ticket, numRevision, granted, atomics, stream, helper, faults>>

Later(a, b) == IF a < b THEN b ELSE a

\* slip: only the revision of the ticket is returned
LoadRevision_TicketOnly(s) ==
  /\ phase[s] = "seen"
  /\ granted' = [granted EXCEPT ![s] = numRevision[s]]
  /\ phase' = [phase EXCEPT ![s] = "holding"]
  /\ UNCHANGED <<etcd, ticket, numRevision, atomics, stream, helper, faults>>

LoadRevision(s) ==
  /\ phase[s] = "seen"
  /\ granted' = [granted EXCEPT ![s] = Later(lockQueueRevision[s], numRevision[s])]
  /\ phase' = [phase EXCEPT ![s] = "holding"]
  /\ UNCHANGED <<etcd, ticket, numRevision, atomics, stream, helper, faults>>

CaughtUp(s) == phase[s] = "holding" /\ copy[s].version >= granted[s]

\* the transaction that the caught-up copy allows is written
Update(s) ==
  /\ CaughtUp(s)
  /\ dataVersion' = dataVersion + 1
  /\ Write("data", dataVersion + 1)
  /\ phase' = [phase EXCEPT ![s] = "updated"]
  /\ UNCHANGED <<numberVersion, queueVersion, ticket, numRevision, granted, atomics,
                 stream, helper, faults>>

PassOn ==
  /\ queueVersion' = queueVersion + 1
  /\ Write("lock_queue", queueVersion + 1)
  /\ UNCHANGED <<numberVersion, dataVersion>>

Release(s) ==
  /\ CaughtUp(s) \/ phase[s] = "updated"
  /\ PassOn
  /\ phase' = [phase EXCEPT ![s] = "idle"]
  /\ UNCHANGED <<ticket, numRevision, granted, atomics, stream, helper, faults>>

\* the put fails and nobody looks at its status
ReleaseLost(s) ==
  /\ CaughtUp(s) \/ phase[s] = "updated"
  /\ lost < MaxLost
  /\ lost' = lost + 1
  /\ phase' = [phase EXCEPT ![s] = "idle"]
  /\ UNCHANGED <<etcd, ticket, numRevision, granted, atomics, stream, helper, crashes>>

Handler(s) ==
  \/ TakeTicket(s) \/ TakeTicketLost(s) \/ SeeTurn(s) \/ LoadRevision(s)
  \/ Update(s) \/ Release(s) \/ ReleaseLost(s)

Crash(s) ==
  /\ phase[s] # "down" /\ crashes < MaxCrashes
  /\ crashes' = crashes + 1
  /\ phase' = [phase EXCEPT ![s] = "down"]
  /\ ticket' = [ticket EXCEPT ![s] = 0]
  /\ numRevision' = [numRevision EXCEPT ![s] = 0]
  /\ granted' = [granted EXCEPT ![s] = 0]
  /\ lockQueueVersion' = [lockQueueVersion EXCEPT ![s] = 0]
  /\ lockQueueRevision' = [lockQueueRevision EXCEPT ![s] = 0]
  /\ starting' = [starting EXCEPT ![s] = {}]
  /\ answered' = [answered EXCEPT ![s] = 0]
  /\ initResponse' = [initResponse EXCEPT ![s] = NoResponse]
  /\ watchNext' = [watchNext EXCEPT ![s] = 0]
  /\ watchHeader' = [watchHeader EXCEPT ![s] = 0]
  /\ handling' = [handling EXCEPT ![s] = Nothing]
  /\ copy' = [copy EXCEPT ![s] = EmptyCopy]
  /\ UNCHANGED <<etcd, helper, lost>>

-----------------------------------------------------------------------------
(* The operator's tool, LockHelper.ts.  Its reads and its compare-and-put   *)
(* transactions are separate calls.                                         *)

Waits(s) == phase[s] \in {"waiting", "seen", "holding", "updated"}
ToolWaits == tool.phase \in {"waiting", "holding"}

OwnersOf(t) == {s \in Servers : Waits(s) /\ ticket[s] = t}
               \cup {o \in {Operator} : ToolWaits /\ tool.number = t}

\* a crash or a lost call has left the ticket being served without an owner
Stuck == queueVersion < numberVersion /\ OwnersOf(queueVersion) = {}

ToolReadNumber ==
  /\ OperatorActs /\ tool.phase = "idle" /\ Len(log) < MaxLog
  /\ QuietStart => log # <<>>
  /\ tool' = [phase |-> "taking", number |-> numberVersion]
  /\ UNCHANGED <<etcd, handler, atomics, stream, unlockSeen, faults>>

\* slip: the put without its compare
ToolTakeTicket_Unchecked ==
  /\ tool.phase = "taking"
  /\ GiveTicket
  /\ tool' = [tool EXCEPT !.phase = "waiting"]
  /\ UNCHANGED <<handler, atomics, stream, unlockSeen, faults>>

ToolTakeTicket ==
  /\ tool.phase = "taking" /\ tool.number = numberVersion
  /\ GiveTicket
  /\ tool' = [tool EXCEPT !.phase = "waiting"]
  /\ UNCHANGED <<handler, atomics, stream, unlockSeen, faults>>

\* another ticket was given in between: sleep and read again
ToolTakeFails ==
  /\ tool.phase = "taking" /\ tool.number # numberVersion
  /\ tool' = [tool EXCEPT !.number = numberVersion]
  /\ UNCHANGED <<etcd, handler, atomics, stream, unlockSeen, faults>>

ToolSeesTurn ==
  /\ tool.phase = "waiting" /\ queueVersion = tool.number
  /\ tool' = [tool EXCEPT !.phase = "holding"]
  /\ UNCHANGED <<etcd, handler, atomics, stream, unlockSeen, faults>>

\* The operator unlocks what is his own, or passes on a ticket without owner.
ToolReadQueue ==
  /\ OperatorActs /\ unlockSeen = None
  /\ tool.phase = "holding" \/ Stuck
  /\ unlockSeen' = queueVersion
  /\ UNCHANGED <<etcd, handler, atomics, stream, tool, faults>>

\* Nobody else passes on a lock that is his or stuck: the compare succeeds.
ToolUnlock ==
  /\ unlockSeen = queueVersion
  /\ PassOn
  /\ unlockSeen' = None
  /\ tool' = [tool EXCEPT !.phase = IF @ = "holding" THEN "idle" ELSE @]
  /\ UNCHANGED <<handler, atomics, stream, faults>>

\* --init deletes both keys, which the operator does while no server runs
ToolInit ==
  /\ OperatorActs /\ tool.phase = "idle" /\ unlockSeen = None
  /\ \A s \in Servers : phase[s] = "down"
  /\ numberVersion > 0 /\ Len(log) < MaxLog
  /\ numberVersion' = 0 /\ queueVersion' = 0
  /\ Write("lock_queue", 0)
  /\ UNCHANGED <<dataVersion, handler, atomics, stream, helper, faults>>

Tool == \/ ToolReadNumber \/ ToolTakeTicket \/ ToolTakeFails \/ ToolSeesTurn
        \/ ToolReadQueue \/ ToolUnlock \/ ToolInit

Next ==
  \/ \E s \in Servers : \/ Launch(s) \/ EtcdAnswersRange(s) \/ EtcdStartsWatch(s)
                        \/ DataStream(s) \/ Handler(s) \/ Crash(s)
  \/ Tool

Spec == Init /\ [][Next]_vars

\* Every server's threads run and etcd answers; a handler that has the lock
\* finishes; the operator, if there is one, sees to stuck tickets and unlocks
\* what he locked.  Transactions, launches, crashes and --lock are not promised.
Fairness ==
  /\ \A s \in Servers :
       /\ WF_vars(EtcdAnswersRange(s)) /\ WF_vars(EtcdStartsWatch(s))
       /\ WF_vars(DataStream(s))
       /\ WF_vars(SeeTurn(s) \/ LoadRevision(s))
       /\ WF_vars(Release(s))
  /\ WF_vars(ToolSeesTurn) /\ WF_vars(ToolReadQueue) /\ WF_vars(ToolUnlock)

FairSpec == Spec /\ Fairness

-----------------------------------------------------------------------------
(* Properties *)

\* Every variable keeps its type.
TypeOK ==
  /\ log \in Seq(Event)
  /\ numberVersion \in Nat /\ queueVersion \in Nat /\ dataVersion \in Nat
  /\ phase \in [Servers -> Phases]
  /\ ticket \in [Servers -> Nat] /\ numRevision \in [Servers -> Nat]
  /\ granted \in [Servers -> Nat]
  /\ lockQueueVersion \in [Servers -> Nat]
  /\ lockQueueRevision \in [Servers -> Nat]
  /\ starting \in [Servers -> SUBSET {"range", "watch"}]
  /\ answered \in [Servers -> Nat]
  /\ initResponse \in [Servers -> Versions \cup {NoResponse}]
  /\ watchNext \in [Servers -> Nat] /\ watchHeader \in [Servers -> Nat]
  /\ handling \in [Servers -> Response]
  /\ copy \in [Servers -> [version: Nat, data: Nat]]
  /\ tool \in [phase: {"idle", "taking", "waiting", "holding"}, number: Nat]
  /\ unlockSeen \in Nat \cup {None}
  /\ crashes \in Nat /\ lost \in Nat

InLock == {s \in Servers : phase[s] \in {"seen", "holding", "updated"}}
          \cup {o \in {Operator} : tool.phase = "holding"}

\* At most one server, or the operator, is between its turn and its release:
\* although a server decides by a copy of lock_queue that is old, that may go
\* back when the answer to the range request comes after newer events, and
\* although tickets are lost, abandoned and passed on by hand.
MutualExclusion == \A c, d \in InLock : c = d

\* The turn of s came after its ticket but before etcd answered the range
\* request.  The answer then tells s of its turn, with the revision of a watch
\* response that is older or none.
TurnBeforeAnswer(s) ==
  \E j \in (numRevision[s] + 1)..answered[s] :
    log[j].key = "lock_queue" /\ log[j].version = ticket[s]

\* The version acquireLock returns is not before any write made under the lock
\* by earlier owners: waiting for it is waiting for their transactions.  It
\* rests on the order of the two stores of the watch thread, and holds whenever
\* servers start, crash and come back and however late the range request is
\* answered, except for a server that took its ticket and whose turn came
\* before that answer (see TurnBeforeAnswer).
LockVersionCoversPast ==
  \A s \in Servers :
    phase[s] = "holding" =>
      \/ TurnBeforeAnswer(s)
      \/ \A i \in 1..Len(log) : log[i].key = "data" => i <= granted[s]

\* A server that has the lock and has waited for that version decides on the
\* latest data: transactions are applied one after the other.  Said of servers
\* that all follow etcd before the lock is used (QuietStart): one that starts
\* later may miss data between its range answer and its watch.
OwnerSeesLatestData ==
  \A s \in Servers : CaughtUp(s) => copy[s].data = dataVersion

\* A server that has a ticket gets the lock ("This lock is lockout-free"),
\* unless it crashes: past crashed owners, lost tickets and lost releases.  Said
\* of servers that all follow etcd before the lock is used, and within the day
\* after which their watches end.
LockoutFree ==
  \A s \in Servers : phase[s] = "waiting" ~> phase[s] \in {"holding", "down"}

\* A server whose ticket is being served comes to see it: part of what
\* "lockout-free" says, whatever happened while the server was starting.
TurnIsSeen ==
  \A s \in Servers :
    phase[s] = "waiting" /\ queueVersion = ticket[s] ~> phase[s] # "waiting"


-----------------------------------------------------------------------------
(* The lock as a line of clients: FifoLock. *)

Owner(t) == IF OwnersOf(t) = {} THEN Nobody ELSE CHOOSE c \in OwnersOf(t) : TRUE

Fifo == INSTANCE FifoLock WITH
  Clients <- Servers \cup {Operator},
  line <- [i \in 1..(numberVersion - queueVersion) |-> Owner(queueVersion + i - 1)],
  inside <- InLock

\* Tickets, queue versions, watches and polls implement a line: clients join at
\* the end, only its head enters, nobody overtakes, and the lock is passed over
\* a place only if its client is gone.
ImplementsFifoLock == Fifo!Spec
=============================================================================
