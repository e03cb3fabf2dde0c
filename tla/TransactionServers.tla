------------------------- MODULE TransactionServers -------------------------
(***************************************************************************)
(* Redundant transaction servers over one etcd                             *)
(* (src/transaction_redundancy_test).  A client composes a command from    *)
(* its copy of the data and adds the versions and values of what the       *)
(* command names.  Any server takes it, checks it against a copy of its    *)
(* own, computes a slice, and writes the slice in one etcd transaction     *)
(* that compares the client's versions.                                    *)
(*                                                                         *)
(* Over a queue one of the servers gets a command.  Over reverse broadcast *)
(* every server gets it, and carries it out if it still can.               *)
(*                                                                         *)
(* With LockChoice::Compound a server does this inside the compound lock,  *)
(* on a copy that holds everything written under it: module CompoundLock   *)
(* shows MutualExclusion and OwnerSeesLatestData, which are assumed here.  *)
(* With LockChoice::None it does it at once, on any copy.  A "Local"       *)
(* server (--local_test) is one process without etcd: its own copy is the  *)
(* data, and the versions are what the clients send.                       *)
(*                                                                         *)
(* A copy is a position in the history of the data: copies are built from  *)
(* the slices etcd announces, in order (ApplyVersionSlice, ApplyDataSlice).*)
(***************************************************************************)
EXTENDS Accounts

CONSTANTS
  Servers,
  Clients,
  LockChoices,      \* the lock choices the servers may be started with
  Transports,       \* how commands may reach them
  CommandTypes,     \* the commands clients give
  UnlockedCommands, \* those of them clients give when there is no lock
  InitialAmounts,   \* amounts of the accounts that were injected at first
  MaxCommands,      \* bound: how many commands are given
  MaxBroadcasts     \* bound: how many of them over reverse broadcast

VARIABLES
  lockChoice,  \* lockChoice_, the same at every server
  transport,   \* "queue" or "broadcast"
  history,     \* the data and versions after every etcd transaction
  view,        \* view[c]: how much of the history client c has seen
  request,     \* request[c]: the command of c that servers still have to take
               \* (left) or are at, and how often it was carried out
  copy,        \* copy[s]: how much of the history server s has seen
  work,        \* work[s]: the transaction server s is at
  given        \* how many commands there have been

mode == <<lockChoice, transport>>
vars == <<mode, history, view, request, copy, work, given>>

ServersAssumption ==
  /\ LockChoices \subseteq {"None", "Compound", "Local"}
  /\ Transports \subseteq {"queue", "broadcast"}
  /\ CommandTypes \subseteq {"transfer", "process", "inject", "close"}
  /\ UnlockedCommands \subseteq CommandTypes
  /\ DOMAIN InitialAmounts \subseteq AccountNames
  /\ InitialAmounts \in [DOMAIN InitialAmounts -> Amounts]
  /\ SumFunction(InitialAmounts) \in Total
  /\ IsFiniteSet(Servers) /\ IsFiniteSet(DOMAIN InitialAmounts)
  /\ MaxCommands \in Nat /\ MaxBroadcasts \in 0..MaxCommands

ASSUME ServersOK == ServersAssumption

InitialRevision ==
  [data |-> [overallStat |-> SumFunction(InitialAmounts),
             accounts |-> [a \in DOMAIN InitialAmounts |->
               [amount |-> InitialAmounts[a], pending_amount |-> 0]],
             pendingTransfers |-> <<>>],
   version |-> [overallStat |-> Cardinality(DOMAIN InitialAmounts),
                accounts |-> [a \in DOMAIN InitialAmounts |-> 1],
                pendingTransfers |-> 0]]

\* LocalDSComponent starts with data of its own
LocalRevision == [InitialRevision EXCEPT !.version.overallStat = 1,
                                         !.version.pendingTransfers = 1]

Idle == [stage |-> "idle"]
NoRequest == [left |-> {}]

Init ==
  /\ lockChoice \in LockChoices /\ transport \in Transports
  /\ lockChoice = "Local" => transport = "queue"
  /\ history = <<IF lockChoice = "Local" THEN LocalRevision ELSE InitialRevision>>
  /\ view = [c \in Clients |-> 1]
  /\ request = [c \in Clients |-> NoRequest]
  /\ copy = [s \in Servers |-> 1]
  /\ work = [s \in Servers |-> Idle]
  /\ given = 0

Latest == history[Len(history)]

\* one command at a time, on the newest data
Serial == lockChoice # "None"

-----------------------------------------------------------------------------
(* UserInputHandler: what a client sends.  It refuses to transfer between,  *)
(* or to close with a check, accounts it does not see data and versions of. *)

Sees(at, cmd) ==
  LET seen == DOMAIN history[at].data.accounts \cap DOMAIN history[at].version.accounts IN
  CASE cmd.type = "transfer" -> {cmd.from, cmd.to} \subseteq seen
    [] cmd.type = "close" -> cmd.unchecked \/ cmd.which \in seen
    [] OTHER -> TRUE

\* an assumption about the users, not a check of the code
Offered(cmd) ==
  cmd.type \in IF Serial THEN CommandTypes ELSE UnlockedCommands

\* UserInputReverseBroadcastHandler knows no autoRounds
BroadcastSends(cmd) == cmd.type = "close" => ~ cmd.unchecked

Allowance == IF transport = "broadcast" THEN MaxBroadcasts ELSE MaxCommands

Give(c) ==
  /\ request[c] = NoRequest /\ given < Allowance
  /\ \E at \in view[c]..Len(history), cmd \in Command :
       /\ Offered(cmd) /\ Sees(at, cmd)
       /\ transport = "broadcast" => BroadcastSends(cmd)
       /\ view' = [view EXCEPT ![c] = at]
       /\ request' = [request EXCEPT ![c] =
            [cmd |-> cmd, left |-> Servers, effects |-> 0]]
  /\ given' = given + 1
  /\ UNCHANGED <<mode, history, copy, work>>

VersionSlice(c) == Named(request[c].cmd, history[view[c]].version)
Summary(c) == Named(request[c].cmd, history[view[c]].data)

-----------------------------------------------------------------------------
(* The servers. *)

\* the watch thread hands the next etcd transaction to the local copy
Follow(s) ==
  /\ copy[s] < Len(history)
  /\ copy' = [copy EXCEPT ![s] = @ + 1]
  /\ UNCHANGED <<mode, history, view, request, work, given>>

\* a queue gives a command to one server, a broadcast to each of them
LeftTo(left, s) == IF transport = "broadcast" THEN left \ {s} ELSE {}

\* acquireLock
Begin(s, c) ==
  /\ s \in request[c].left /\ work[s] = Idle
  /\ Serial => \A r \in Servers : work[r] = Idle
  /\ work' = [work EXCEPT ![s] = [stage |-> "begun", client |-> c]]
  /\ request' = [request EXCEPT ![c].left = LeftTo(@, s)]
  /\ UNCHANGED <<mode, history, view, copy, given>>

\* what acquireLock returns, waited for
MayDecide(s) ==
  /\ work[s].stage = "begun"
  /\ Serial => copy[s] = Len(history)

Accepts(s, c) ==
  /\ VersionMatches(history[copy[s]].version, VersionSlice(c))
  /\ SummaryMatches(history[copy[s]].data, Summary(c))
  /\ Valid(history[copy[s]].data, request[c].cmd)

Decide(s) ==
  LET c == work[s].client IN
  /\ MayDecide(s) /\ Accepts(s, c)
  /\ work' = [work EXCEPT ![s] = [stage |-> "decided", client |-> c,
       slice |-> SliceOf(history[copy[s]].data, request[c].cmd)]]
  /\ UNCHANGED <<mode, history, view, request, copy, given>>

\* The command is done with when no other server has it or is to get it.
Answer(s, effects) ==
  LET c == work[s].client
      last == request[c].left = {} /\ \A r \in Servers \ {s} :
                work[r] = Idle \/ work[r].client # c
  IN /\ work' = [work EXCEPT ![s] = Idle]
     /\ request' = [request EXCEPT ![c] =
          IF last THEN NoRequest ELSE [request[c] EXCEPT !.effects = @ + effects]]
     /\ UNCHANGED <<mode, view, given>>

Refuse(s) ==
  /\ MayDecide(s) /\ ~ Accepts(s, work[s].client)
  /\ Answer(s, 0)
  /\ UNCHANGED <<history, copy>>

-----------------------------------------------------------------------------
(* THComponent::handleUpdate: one etcd transaction, then releaseLock. *)

\* slip: the version of the list of pending transfers is not compared
Compares_NoList(c) ==
  LET v == Latest.version
      slice == VersionSlice(c)
  IN /\ v.overallStat = Value(slice.overallStat, v.overallStat)
     /\ \A a \in DOMAIN slice.accounts : slice.accounts[a] = {VersionIn(v.accounts, a)}

\* slip: without a lock the client's versions are not compared
Compares_LockedOnly(c) ==
  lockChoice = "Compound" => Compares_NoList(c)

Compares(c) ==
  LET v == Latest.version
      slice == VersionSlice(c)
  IN /\ v.overallStat = Value(slice.overallStat, v.overallStat)
     /\ \A a \in DOMAIN slice.accounts : slice.accounts[a] = {VersionIn(v.accounts, a)}
     /\ v.pendingTransfers = Value(slice.pendingTransfers, v.pendingTransfers)

\* a transaction that has nothing to write changes nothing
Effect(s) == IF work[s].slice = EmptySlice THEN 0 ELSE 1

HandleUpdate(s) ==
  /\ work[s].stage = "decided" /\ lockChoice # "Local"
  /\ Compares(work[s].client)
  /\ history' = IF Effect(s) = 0 THEN history
                ELSE Append(history, [data |-> Apply(Latest.data, work[s].slice),
                                      version |-> NextVersion(Latest.version, work[s].slice)])
  /\ Answer(s, Effect(s))
  /\ UNCHANGED copy

FailurePrecondition(s) ==
  /\ work[s].stage = "decided" /\ lockChoice # "Local"
  /\ ~ Compares(work[s].client)
  /\ Answer(s, 0)
  /\ UNCHANGED <<history, copy>>

\* LocalTHComponent::handleUpdate: the versions the client sent are announced
\* with the slice, to the one copy there is.
HandleUpdateLocally(s) ==
  /\ work[s].stage = "decided" /\ lockChoice = "Local"
  /\ history' = Append(history,
       [data |-> Apply(Latest.data, work[s].slice),
        version |-> Apply(Latest.version, VersionSlice(work[s].client))])
  /\ copy' = [r \in Servers |-> Len(history')]
  /\ Answer(s, 1)

Serve(s) ==
  \/ Follow(s) \/ Decide(s) \/ Refuse(s)
  \/ HandleUpdate(s) \/ FailurePrecondition(s) \/ HandleUpdateLocally(s)

Next ==
  \/ \E c \in Clients : Give(c)
  \/ \E s \in Servers : Serve(s) \/ \E c \in Clients : Begin(s, c)

Spec == Init /\ [][Next]_vars

-----------------------------------------------------------------------------
(* Properties *)

\* Every variable keeps its type; in particular no arithmetic leaves the width
\* of its field and the list of pending transfers its limit.
TypeOK ==
  /\ lockChoice \in LockChoices /\ transport \in Transports
  /\ history # <<>>
  /\ \A i \in 1..Len(history) : /\ IsData(history[i].data)
                                /\ IsVersion(history[i].version)
  /\ view \in [Clients -> 1..Len(history)]
  /\ copy \in [Servers -> 1..Len(history)]
  /\ \A c \in Clients : \/ request[c] = NoRequest
                        \/ request[c] \in [cmd: Command, left: SUBSET Servers,
                                          effects: 0..Cardinality(Servers)]
  /\ \A s \in Servers : \/ work[s] = Idle
                        \/ work[s].stage \in {"begun", "decided"} /\ work[s].client \in Clients
  /\ given \in 0..MaxCommands

Balances == [a \in DOMAIN Latest.data.accounts |-> Balance(Latest.data.accounts[a])]

\* "It contains the sum of all amounts in all accounts": overallStat is what the
\* balances add up to, whatever is pending between accounts that are open,
\* closed, or closed and opened again.
TotalIsSum == Latest.data.overallStat = SumFunction(Balances)

\* A command is carried out only on the values its client saw when it gave it.
\* Versions alone would not do, since a closed account starts again at one; nor
\* do values alone, which is all a local server compares.
ActsOnWhatClientSaw ==
  [][\A s \in Servers : lockChoice # "Local" /\
       work[s].stage = "decided" /\ history' # history /\ work'[s] # work[s]
         => LET c == work[s].client IN
            Named(request[c].cmd, Latest.data) = Summary(c)]_vars

\* However many servers get a command, it is carried out once if its client
\* named versions: the first to write makes them old for the others.
CarriedOutOnce ==
  [][\A s \in Servers :
       work[s].stage = "decided" /\ history' # history /\ work'[s] # work[s]
         => LET c == work[s].client IN
            VersionSlice(c) # EmptySlice => request[c].effects = 0]_vars

\* Servers, copies and versions implement a bank in which every command is one
\* step on the current balances.
TheBank == INSTANCE Bank WITH
  Names <- AccountNames, Sums <- Amounts,
  balance <- Balances, total <- Latest.data.overallStat
ImplementsBank == TheBank!Spec
=============================================================================
