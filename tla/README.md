# TLA+ specifications of tm_examples

These modules specify the programs of this repository whose correctness depends
on how concurrent processes, queues, crashes and stale copies interact:

* the *shared request chain* (`src/simple_demo_chain_version`), with the main
  program around it and its enable server;
* its predecessor, the *simple demo* (`src/simple_demo`), which keeps everything
  in memory;
* the *redundant transaction servers* (`src/transaction_redundancy_test`), as two
  layers, a lock and the accounts it protects;
* the *database servers* (`src/db_subscription`, `src/db_one_list_subscription`);
* the *shared chain test* (`src/shared_chain_test`);
* how the *client programs* of these servers give back their subscriptions and
  end (`src/transaction_redundancy_test`, `src/db_one_list_subscription`,
  `src/db_subscription`).

TLC checks them on small instances. TLAPS proves, for every value of the
constants, every safety property these checks are about: the invariants, the
action properties, and that each detailed specification implements its abstract
one. Where a property needs an assumption the theorem names it (section 9).
Liveness is checked by TLC only.

| Module | What it is |
|---|---|
| `RequestChain` | main programs, the one-shot tool and calculators around one append-only chain |
| `RequestLifecycle` | abstract: the life of one request |
| `RequestChainProof` | proofs: ids, the history the chain tells, the limit, what calculators know, `RequestLifecycle` |
| `MainProgram` | extends `RequestChain` by one main program: enabling, queueing, routing of answers |
| `MainProgramProof` | proofs: `MainProgram` implements `RequestChain`; the routing |
| `SimpleDemo` | main logic, calculator program and operator of the demo without a chain |
| `CalculatorThread` | the thread and queues of the external calculator, used by `SimpleDemo` |
| `TwoAnswers` | abstract: what a calculator owes; also the variable `running` of `RequestChain` |
| `SimpleDemoProof` | proofs: the limit on the load, the way answers take, `TwoAnswers` |
| `CompoundLock` | the ticket lock over two etcd keys, the servers' copies of it, the operator's tool |
| `FifoLock` | abstract: tickets served in order |
| `CompoundLockProof` | proofs: mutual exclusion, the version granted, serial transactions, `FifoLock` |
| `Accounts` | the data of the transaction servers and the pure functions on it |
| `TransactionServers` | clients and servers with stale copies over one etcd, by queue or broadcast, or one server without etcd |
| `TransactionServersProof` | proofs: types and widths, once, what clients saw, the sum, `Bank` |
| `SharedChainBank` | transfers between two accounts on an append-only chain |
| `Bank` | abstract: one command at a time on current balances; implemented by both of the above |
| `SharedChainBankProof` | proofs: states are folds, the limit, `Bank` |
| `Stores` | servers with a database and a copy, their subscribers and updates |
| `StoresProof` | proofs: copy and database, subscribers, checked updates |
| `Subscriptions` | six client programs that subscribe, are told to end, and end |
| `SubscriptionsProof` | proofs: nothing is left behind |
| `MC*` | instances for TLC: model values, group assignments, symmetry |

Definitions keep the names of the source. `X_Slip` operators next to an
operator `X` (marked `slip:`) are `X` with a plausible mistake; each property is
violated when one of them takes the place of the correct operator, so that it
is known to say something.

## 1. Inventory

### Shared request chain (`src/simple_demo_chain_version`)

Programs share an append-only chain of `ChainData` entries (place, confirm,
respond, complete). Each folds the chain into a state of its own, computes what
to write from that state, and appends it with a compare-and-append at the
position it has read up to; if somebody else wrote first, it reads on and
computes again.

* **Main programs** (`main_program_logic`). State: `max_id_sofar`,
  `outstandingIDs`, read position. Operations: place a request if fewer than two
  are outstanding (`MainProgramFacilityInputHandler::handleInput`), save the
  state from a detached thread every ten seconds, load it at the start.
* **One-shot tool** (`executables/place_request`). The same fold, no limit.
* **Calculators** (`calculator_logic`). State: `newlyPlacedRequests`,
  `requestsBeingHandled`. Operations: confirm what is young enough, time out
  what is not, close what has its final response or none for too long
  (`CalculatorIdleWorker::realWork`); on a successful confirmation hand the
  requests to the external calculator; append its results
  (`CalculatorFacilityInputHandler`). They are redundant, or each serves some of
  ten groups of storage ids.
* **External calculator** (`external_logic`): a thread that answers each request
  twice, with twice the input and later with -1.
* **Main program pipeline** (`OperationLogic`, `MainProgramLogicProvider`,
  `MainProgramIDAndFinalFlagExtractor`). State: `enabled_`, the inputs that wait
  for the chain-backed facility, `idMap_`. Operations: enable or disable, let an
  input through, refuse it, route what the chain says of a request to who asked.
* **Enable server and clients** (`executables/enable_server`, `enable_client`).
  State: one Boolean with a version in RocksDB, a copy of it in memory.
* Around them, not modelled: the averages that select inputs, progress reports,
  tools that print or copy a chain, a deterministic simulation.

Interactions: the chain (all programs), extra data beside the chain (saved
states, one key per kind of program), callbacks between a calculator and its
external calculator. Hard: races for the tail of the chain, decisions on
states that are behind, time-outs against late answers, crashes with older or
foreign saved states. Correct means: an id belongs to one request, one
calculator works on a request, what a completion says is what happened, time
windows hold along the chain, every request is completed.

### Transaction servers (`src/transaction_redundancy_test`)

* **Data** (`DBData.hpp`, `TransactionInterface.*`): accounts (amount, pending
  amount), a list of at most ten pending transfers, the sum of all amounts, each
  part with its own etcd version. Operations: transfer, process, inject, close.
* **Clients** (`UserInputHandler.cpp`): a copy of the data; commands carry the
  versions and values the client saw of what they name. `process`, and `close`
  in an automatic run, carry nothing.
* **Servers** (`TransactionServer.cpp`, `TransactionServerComponents.*`): a
  watch thread that keeps a copy; per command, acquire the lock, wait for the
  copy, check and compute a slice, write it in one etcd transaction that
  compares the client's versions, release.
* **Compound lock** (same files): `lock_number`, whose version is the next
  ticket, and `lock_queue`, whose version is the ticket served. A server takes a
  ticket in an etcd transaction and then spins on two atomics its watch thread
  stores. `LockHelper.ts` lets an operator lock, unlock and reset.
* **Reverse broadcast** (`TransactionReverseBroadcastServer.cpp`,
  `UserInputReverseBroadcastHandler.cpp`): every server receives every command
  and carries it out if it still can. **Without etcd** (`--local_test`,
  `LocalTransactionServerComponents.*`): one process, whose copy is the data.
* **Clients, sessions**: a client registers with every server whose heartbeat it
  hears, subscribes by the registration, forgets servers it misses, and on
  "exit" gives back what subscriptions it knows of; it ends when all are gone.

Hard: copies behind the database, range answer and watch that are not
synchronised, stores and loads of two atomics, lost calls and crashed owners,
versions that start again when an account is deleted, fixed-width arithmetic.
Correct means: mutual exclusion, an owner that sees everything written before,
no lost update, sum and balances agree, nothing settled twice, no overdraft.

### Simple demo (`src/simple_demo`)

* **Main logic** (`program_logic/MainLogic.cpp`). State: `outstandingCommands_`,
  `idCounter_`, `enabled_`. Operations: create a command if fewer than two are
  outstanding, take a result, enable, query and clear outstanding commands.
* **Calculator** (`plain_executables/Calculator.cpp`, `external_logic`). State:
  a map from ids to the keys of who asked; `incoming_` and `processing_` of the
  calculator's thread. Two answers to each command, two seconds apart.
* **Combinations**: commands travel over a message queue or, in a virtual run, to
  a mock on a simulated clock.

Hard: late and lost answers, ids that start again at 1 with every start of the
main program, the operator clearing what is still being worked on. Correct
means: no more work than the limit allows, each answer reaches the command it is
for, the places in the limit become free again.

### Database and enable servers

`db_subscription` (a table, a version per row), `db_one_list_subscription` (one
list, one version) and the enable server keep named values in a database and a
copy in memory. State: the committed rows, the open transaction, copy and
version, the announcements on their way to subscribers, the views of users.
Operations: subscribe, insert, update and delete with or without the old
version and data, announce, commit, restart. Hard: changes are announced and
applied to the copy before COMMIT; versions start again with the process, or are
read from the store. Correct means: the copy is the database, subscribers agree
with the copy, a checked update replaces what its user saw.

Their clients (console, page in Electron, window, command line) subscribe, keep
the id of the subscription, and give it back when they are closed; those of the
versionless server also set a timer. Hard: the id is not known yet when the
program is closed, the server is gone, or somebody else has given the
subscription back. Correct means: the program ends, and leaves no subscription
behind it knew of.

### Shared chain test (`src/shared_chain_test`)

Programs append transfers between two accounts, and requests to process what is
pending, to a chain (in memory, files, etcd, redis). Each folds the chain, checks
its request on the state, and appends it if nobody has written since; programs
that process save their state beside the chain. Hard: states saved late and
loaded by others, checks on states others may have left behind. Correct means:
states are folds, the limit on pending requests and the balances hold.

### The rest of the repository

`transport_utils`, `rpc_examples`, `websocket_test`, `json_rest_test`,
`grpc_interop_test`, `bcl_compat_test`, `clock_logic_test`,
`synthetic_facility_test`, `common_flow_util_tests`, `serialization_test`,
`csv_test`, `hdf5_test`. `PROJECT.json` lists each with its status. The framework
itself (`tm_kit`: chain writer, transaction facility, transports) is not in the
repository; what the programs rely on of it is modelled from its use and marked
external.

## 2. Request chain and main program

### State and actions

| TLA+ | Code |
|---|---|
| `chain`, `pos[w]` | the shared chain; `latestID` of the state of `w` |
| `main[p]`, `calc[c]` | `MainProgramState`, `CalculatorState` |
| `pending[w]` | what a handler or the idle worker returned to the chain writer, before the append |
| `idLookup[c]` | `idLookup_` of `ExternalCalculatorWrappedAsFacility` |
| `running[c]`, `results[c]` | outputs the external calculator owes (see `TwoAnswers`); results on their way to the chain |
| `saving[w]`, `savedMain`, `savedCalc` | detached save threads; extra data of the chain |
| `now` | the clock all programs read |
| `enabled`, `waiting`, `externalID`, `open`, `idMap`, `readAt` (`MainProgram`) | `enabled_`; inputs that wait for the facility; the key an entry carries; keys that expect answers; `idMap_` and the position of the reader that routes |

`ReadNext` folds one entry. `HandleInput`, `OneShotWrite`, `Accept`,
`TimeOutUnaccepted`, `CloseHandled` and `PutResult` compute a batch from the
state at the tail; `AppendBatch` appends it if nobody has written since, with the
effects of a success (the confirmed requests go to the external calculator), and
`AppendFails` drops it. `CalculateResult` is an output of the external
calculator. `StartSave` and `FinishSave` are the two ends of a detached save
thread, so that saves overtake each other. `CrashMain` and `CrashCalc` restart a
program from the saved state, if the chain has extra data, else from nothing.
`Fulfilled` is written as a batch of two equal entries, as in the code. A request
value is its sign: zero and negative results are final for one or both of the two
places that ask. The one-shot tool is one program that reads on between its writes;
in the code each start is a process of its own, which loads the saved state of the
main programs where the chain has extra data. Both write an entry computed from the
whole chain up to where it is appended.

`MainProgram` extends `RequestChain` by the rest of one main program. `RunLogic`
lets an input through while `enabled`, `HandleWaiting` and `Refuse` are the two
answers of the facility, `Write` is any writer's append with what its entries
carry, `Route` is the extractor with the framework's rule that a key is forgotten
with its final answer. An answer is the number of the chain entry it brings, so
that "the right answer, once, in order" can be said. The averages that decide
whether an input is worth a request are left out: any input may be. When the
main program restarts, its reader starts at the beginning of the chain.

### Runs

| Run | Instance | Shows |
|---|---|---|
| `redundant` | 2 calculators, one for every group and one for some, 1 request, windows 1, clock 2..5, 1 crash | one confirmation, one completion, true fashions, windows, final output on the chain; implements `RequestLifecycle`; every request is completed |
| `main_program` | main program (limit 1), one-shot tool, 1 calculator, 2 requests, windows 0, 1 crash | unique ids, the limit, every input is answered with the story of its own request |
| `saved_state` | tool, 2 calculators with saved states, 1 save in flight, 1 crash | a calculator knows exactly the open requests |
| `groups_saved` | calculators of disjoint groups with saved states | **violated**: see below |

A clock of few ticks is enough: what matters is on which side of a window an
instant falls, and each run has ticks on both sides. A second crash or save
repeats the first. Two calculators are the least that race; a third would race
in the same way, each append being decided between the one that succeeds and the
others. Entries but confirmations are about one request each, so that one request
is enough where nothing is counted; where ids and places are, there are two.
`MaxKeys` bounds the inputs of the main program, `MaxOthers` the requests of
everyone else.

`groups_saved` finds that calculators of different groups save their state under
one key: one that restarts takes over the state *and the position* of the other,
and never learns of its own earlier requests.

### Fairness

Weak fairness of the clock, of every writer's next step (read, append), of the
idle worker, of putting results and of the external calculator: each is a thread
that runs on its own as long as its program is up, and an append that fails is
followed by reading what was appended. Nothing is assumed of inputs, saves and
crashes.

### Proofs

`TypeInv == TypeOK /\ PendingCurrent`: a batch that may still be appended
(position at the tail) was computed from the whole chain. `IdsInv == TypeInv /\
IdsKnown /\ UniqueIds`: the `max_id_sofar` of every program, and of every
snapshot that may be loaded, bounds the ids of the requests up to its position.
`UniqueIds` alone is not inductive: that the next id is new follows from the
first two. There is one lemma per kind of step (read, append, save, crash), and
the step lemma has one case per action. Assumed: `ConstantsAssumption`.

The second part proves what the chain tells. `History` says of every entry that
it is legal after those before it: a confirmation names requests placed and not
confirmed, in their window; a completion has the fashion the entries before it
show. It is inductive because whoever writes knows the truth about the requests
he writes of. `CalculatorsTell`: whatever a calculator that has read `n` entries
says of a request is what the first `n` entries say. This holds of states in
memory, saved or being saved, and whichever groups they were made for: a state
taken over from other groups knows other requests, but nothing false.
`BatchesFit`: a pending batch fits the state it was computed from and the time it
was computed at. With `PendingCurrent`, that state is the truth about the whole
chain at the moment of the append. From `HistoryInv`, the conjunction of these,
follow `ConfirmedOnce`, `OneCompletion`, `FashionIsTrue`, `WindowsRespected`
and, entry by entry, the refinement of `RequestLifecycle`.

Three properties are about what programs know of *all* requests:
`FacilityRespectsLimit` (a placer's outstanding ids are the open ones up to its
position, so that what was below the limit when checked is below it when
appended), `KnowsOpenRequests`, and `FinalOutputReachesChain`. The second assumes
`GroupsAgree`: calculators that share a saved state serve the same groups. The run
`groups_saved` shows what happens otherwise. The third assumes `"zero" \notin
Values`: if twice an input is zero, the wrapper around the external calculator
takes the first output, which is not positive, for the last and forgets the
request, while the handler marks only negative ones as final.

`MainProgramProof`: every step of `MainProgram` is a step of `RequestChain` or
leaves the variables of the chain alone, so `MainSpec` implements its `Spec`, and
what is proved of the chain holds there too. `AnswersAreOneStory` rests on
`KeysInv` (a key waits, or one entry carries it, which places a request),
`MapInv` (`idMap_` has exactly the requests up to the reader's position, each with
its key) and `HeardInv` (a key has heard, in order, the entries about its request
up to there, and is open until one that ends it). Unique ids are needed: without
them a map from ids to keys routes to the wrong one.

## 3. Simple demo

`SimpleDemo` has the main logic (`CreateCommand`, `HandleResult`, `Configure`,
`QueryOutstandingCommands`, `ClearCommands`, one handler each), the calculator
program with its map from ids to keys, and the mock of a virtual run; `virtual`
is chosen in the initial state. `CalculatorThread` is the thread behind the
calculator: detached threads that queue a request, sleep and queue it again, the
list taken over under the mutex, the listener. The same code stands in
`simple_demo_chain_version/external_logic`; `TwoAnswers` is the abstraction of it
that `RequestChain` uses (`running`, `results`), and the run checks that the
thread implements it.

The run `demo` (limit 1; 2 lives of the main program, which may start again at any
time, with 1 command in the first and 2 in the second, positive and zero inputs; 1
crash of the calculator) shows: the limit of the main logic limits the work in the
air (`LoadIsLimited`); answers reach the life and the command they are for, in
order (`AnswersGoHome`); every command is outstanding for a limited time unless a
crash took it along (`CommandsFinish`). Two commands and limit 1 are what it takes
for a place to be freed and used again, and one earlier command is what it takes
for late answers to meet a new command with the same id. `Choices` bounds the values
each command may have: the run needs a final first answer (zero) and a two-part
story (positive) in the life that listens, not every pair of them. Fairness: queues
are served and threads run; nothing is promised of data and operator.

The main program keeps nothing, and its ids start again at 1. If it restarts while
the calculator works on an earlier command, the calculator keeps the old key for the
id (`insert` of an `unordered_map`) or the old answers find the new key: the new
command's answer goes to the dead one, or the new command hears what was computed for
the old one. No comment or test of the repository speaks of such restarts. The model
lets them happen at any time and `contested` remembers the ids they touch: those
given out while a command of an earlier life with the same id is in the air.
`AnswersGoHome` says of every id that a real run hears the end of a command once and
nothing after it, contested or not: the reuse of ids mixes up values, but never ends
a command twice. Of the other ids, it says that what is heard is the command's own
story. `CommandsFinish` excludes contested ids too: if the answers go to the earlier
command, the place stays taken until the operator clears it.

Proofs. `PlacesInv` says where commands are: on their way to the calculator, or in
its thread once for each answer due, in one place at a time, never newer than the
main program's counter, and those not outstanding any more have been cleared or
have heard their final answer. `LoadIsLimited` follows, since work in the air is
outstanding; and the thread's queue and detached threads, taken as one set, are
what `TwoAnswers` owes. `AnswersGoHome` needs `StoryInv`, which has two halves. Of
ids that are this life's own and not contested, `idLookup_` has the key of every
command whose first answer is due, and the second answer of a command is behind its
first wherever both are. Of all ids, `EndFits`: once the end of a command is heard or
on its way, it is the last answer in the queue for its id, and neither `idLookup_`
nor the commands sent have anything of this life left to answer it with. None of the
theorems assumes anything of restarts.

## 4. Compound lock

### State and actions

| TLA+ | Code |
|---|---|
| `numberVersion`, `queueVersion`, `dataVersion`, `log` | etcd: versions of `lock_number`, `lock_queue`, of the data; all writes by revision |
| `phase[s]`, `ticket[s]`, `numRevision[s]`, `granted[s]` | where `acquireCompundLock` and the transaction are, `numVersion`, `numRevision`, what is returned |
| `lockQueueVersion[s]`, `lockQueueRevision[s]` | the two atomics |
| `starting[s]`, `initResponse[s]`, `watchNext[s]`, `watchHeader[s]`, `handling[s]` | range request, watch and completion queue of `runWatchThread` |
| `copy[s]` | the framework's copy of the data |
| `tool`, `unlockSeen` | runs of `LockHelper.ts` |

`EtcdAnswersRange` and `EtcdStartsWatch` happen in either order and any time
apart, since the code does not tie them together; `ReceiveInit` may come after
any number of events. `answered[s]` is a history: the end of the log when etcd
answered the range request. Each response is handled in the order of the code: store
the revision (`StoreRevision`), store the version (`StoreVersion`), call the
listener (`OnUpdate`), with other threads in between. The handler of the range
answer reads the header of a response that may be being written (a data race):
the model lets it be the last header read (none, revision 0, before the first), or
that of the response before the next event or of the next. `SeeTurn` and `LoadRevision`
are the two loads of `acquireCompundLock`. `TakeTicketLost` and `ReleaseLost` are
calls whose result is lost. The tool's reads and compare-and-puts are separate
actions. The operator unlocks only what he locked or what is `Stuck`, and resets
only while no server is up; under that discipline the retry of `--unlock` never
happens. A server handles one transaction at a time.

### Runs

| Run | Instance | Shows |
|---|---|---|
| `lock_serial` | 2 servers that follow etcd before the first ticket, operator, log to 3, 2 crashes, 1 lost call | mutual exclusion, the version granted covers all earlier transactions, an owner sees the latest data, tickets are served in order, no server is locked out |
| `lock_start_gap` | 2 servers that start at any time, no failure at all | **violated**: see below |

`MaxLog` bounds only what is *started* (tickets taken, resets); what was started
runs to its end. Within it a server and the operator, or two servers, hold
tickets at once, one passes the lock on to the other, and a third ticket is
abandoned by a crash or a lost call. `QuietStart` (every server follows etcd before
the first ticket is taken, and none starts after that) is a restriction the code
does not enforce. The run `lock_serial` is made under it because of its size, and two
properties are stated under it because they need it, `OwnerSeesLatestData` and
`LockoutFree`; the others are proved without it. `lock_start_gap` shows
that they need it: the watch has no `start_revision`, so a release between the
range answer and the start of the watch is heard in neither, the copy of the
turn stays behind, and the server spins for ever with everyone queued behind it,
although `TransactionServerComponents.hpp:90` calls the lock lockout-free. In the
same gap a server can miss data, so that its copy is behind without its knowing.

A second thing the code does when a server starts while the lock is in use: if its
turn comes after it took its ticket and before etcd answers its range request, the
answer tells it of its turn, and the revision stored with it is that of the header
of `watchResponse`, which is older or has not been read at all. Then `acquireLock`
returns a version that does not cover what earlier owners wrote
(`TurnBeforeAnswer`). `LockVersionCoversPast` excludes exactly these turns: without
the exclusion TLC finds a violation in 18 steps when servers start at any time.

The watch has a deadline of 24 hours, and its thread ends then or when a call fails
(`TransactionServerComponents.cpp:100-112`, `130-132`); a server whose watch has
ended hears of no turn. That end is left out: `LockoutFree` speaks of the day
before. The safety properties are not about it, since a server that hears nothing
more only waits.

Fairness: etcd answers, the watch thread runs, a spinning handler looks again,
an owner releases, and the operator is diligent about stuck tickets and about
what he locked. Transactions, launches and crashes are not promised.

### Proofs

`MutualExclusion` follows from `TicketInv == TypeInv /\ TicketsOpen /\
TicketsDiffer /\ InsideServed /\ KnownNotAhead /\ DownForgets /\ UnlockIsSafe`:
tickets held are below `numberVersion` and differ, whoever is inside has the
ticket etcd serves, and no server's knowledge of the turn (its atomic, a range
answer on its way, or an event in its future) is ahead of `queueVersion`. The
last point is what late and missed messages cannot break: old knowledge makes a
server wait, never enter. `UnlockIsSafe` says that a ticket the operator is about
to pass on is his or has no owner. The theorem holds for any number of servers,
crashes and lost calls, and without `QuietStart`, that is, for servers that start
while the lock is in use.

So does `ImplementsFifoLock`, from the same invariant: the line is the owners of
the tickets from `queueVersion` to `numberVersion - 1`. A new ticket joins at its
end, a release or an unlock takes away its head, and a crash or a lost call leaves
`Nobody` in its place, which only the operator passes over.

`LockVersionCoversPast` is proved for servers that start, crash and come back at any
time, with range answers of any lateness, from `CoverInv`. For each server, the
revisions its responses carry do not go back (`RevisionsRise`), although the one
that goes with the range answer may be none. When a server's turn comes, all data is
in the log before the change of `lock_queue` at `j` that gives it (`TurnAt`), and
whatever can tell the server of its turn from then on (the atomics, the response
being handled, the events to come) carries a revision that is not before `j`
(`TurnKnown`). The one exception is a range answer given after `j`, which is
`TurnBeforeAnswer`. If the server is first in line at once, the revision of its ticket
covers the past instead (`TurnCovered`). The order of the two stores, of the two loads
and of data before release are each needed.

`OwnerSeesLatestData` is proved under `QuietStart`, from `SerialInv`, which adds that
a server's stream delivers the log in order and without gaps (`CopyIsCurrent`: the
copy is at the revision before the one being handled). It is this that fails for a
server that starts while others write: what is put between its range answer and its
watch is in neither.

## 5. Accounts

### State and actions

`Accounts` translates `ValidateCommandImpl`, `ProcessCommandOnLocalDataImpl`,
`ApplyShapedSlice`, `CheckVersionSlice` and `CheckSummary` with the widths of
their integers with `Half` for 2^31. `TransactionServers` keeps the `history` of
the data and of the versions; a client's `view` and a server's `copy` are
positions in it, since both are built from the slices etcd announces, in order.
`Give` is the client's parser, `Begin` is `acquireLock`, `Decide` and `Refuse` are
the checks and the computation on the copy, `HandleUpdate` and
`FailurePrecondition` are the two outcomes of the etcd transaction, with the
release of the lock. The initial state chooses how the servers were started:

* `lockChoice = "Compound"`: the model assumes what `CompoundLock` shows, mutual
  exclusion and a copy that is up to date;
* `"None"`, the default: it assumes nothing (`LockChoice::Simple` is compiled out
  and behaves as this);
* `"Local"`, the server without etcd: one transaction at a time on the only
  copy, and `HandleUpdateLocally` announces the versions the client sent;
* `transport = "queue"`: one server takes a command; `"broadcast"`: every server
  takes it, each at its own time, and `request[c].left` is who still has to.

A client gives one command at a time.

### Runs

`accounts` (2 servers, 2 clients, 2 accounts, amounts of 1, at most two pending
transfers, 4 commands over a queue or 2 over broadcast; servers, clients and
accounts are interchangeable): all commands under the lock and at the local
server, and without a lock those with versions that only grow (transfer,
inject), keep `TotalIsSum`, are carried out on what their client saw
(`ActsOnWhatClientSaw`; not at the local server, which compares values only) and,
if they name versions, once (`CarriedOutOnce`), and implement `Bank`, in which
settling pending transfers is invisible and nothing is overdrawn. Four commands
are what it takes to close an account with a pending transfer, open it again and
settle; two servers and two clients are what it takes for a copy and a command to
be stale at once. Two broadcast commands reach two servers each: four
transactions that race.

A reply of etcd that is lost is left out: clients only print replies. A user who
repeats a command gives another one, with what the client has seen by then.
`CarriedOutOnce` says that the same command, carried out again and again, has
its effect once. `process` and the unversioned `close` name no versions; a
second `process` finds nothing pending.

`accounts_unlocked` (**violated**): without the lock, an automatic client's
`close`, sent without versions, lets a server rewrite the sum from a copy that
has not seen an injection carried out meanwhile. `DBData.hpp:17-20` promises a
sum that the system maintains. `process`, sent without versions as well, has the
same exposure.

`Half = 8` keeps sums below 2^31, as the theorems below assume. They must:
with `Half = 2` TLC finds that closing an account whose balance has reached 2^31
adds to the sum what it should take away, the balance having been converted to
`int32_t` (`TransactionInterface.cpp:279`).

### Proofs

* `TypesInv`: everything computed stays in its field, for every width, and a
  command has as many servers left as may still carry it out (`Counted`).
* `OnceInv`, for `CarriedOutOnce`: a decided slice touches what the command
  names, and once a command has been carried out a version it names is old
  (`Superseded`). Versions of an account start again when it is closed and
  opened, which is why the sum's version counts for those commands.
* `SawInv`, for `ActsOnWhatClientSaw`: at most one transaction at a time is
  between `acquireLock` and the write when transactions are serial
  (`OneAtWork`), and, of any revision of the past, equal versions now mean equal
  values (`Before`; without a lock also of accounts, `AccountsBefore`). Assumed
  is `NoCloseWithoutLock`: an account closed and opened again has its old
  version and another balance, which nothing but the lock keeps apart.
* `DecisionInv` and `BooksInv`, for `TotalIsSum` and `ImplementsBank`. A slice is
  computed on a copy of the past. Under the lock the copy is the latest data. If
  not, etcd takes the slice only if the versions the client named, and thus the
  values the slice depends on, are still there: it is what the command does to
  the latest data (`WriteOfCommand`). What a command does to sound books is one
  step of the bank and leaves them sound (`CommandStep`): the balances, pending
  amounts included, are not negative, and add up to `overallStat`.

The last two theorems assume `OnlyTransfersUnlocked` and `SumsFit`. The first says
that without a lock clients give transfers and injections only; `process` and
`close` may be sent without versions, and `accounts_unlocked` shows what then
becomes of the sum. The second says that some `m` bounds every amount, and that the
initial sum and `m` times the number of commands are less than 2^31, so that
neither the casts to `int32_t` nor the additions in `uint32_t` change a value. It
bounds all that is ever injected, not what accounts hold: without it the
sum need not be that of the balances, as above. A command
is counted from when it is given to when it first has an effect, since
`CarriedOutOnce` says an injection adds to the sum once, however many servers
have it. The run `accounts` satisfies both assumptions (2 + 1 * 4 < 8).

## 6. Bank on a shared chain

`SharedChainBank` has, for every program, the chain writer with its folded state
(`ReadNext`, `HandleInput`, `AppendRequest`, `AppendFails`) and the reader behind
its clock (`Read`), whose state is saved beside the chain (`SaveState`) and loaded
by every program that starts (`Restart`). `ledger` is a history: the fold of every
prefix of the chain.

The run `chain_bank` (2 programs that do everything, chain to 4, limit 2, 1
restart) shows that states are folds (`StateIsFold`), that the limit holds on the
chain itself (`PendingIsLimited`), and that `Bank` is implemented: settling is
invisible and no account is overdrawn, though requests are checked on a state of
the past. Amounts of 6 and accounts of 10 let one transfer pass and a second fail.

All four properties are proved for every value of the constants.
`LedgerIsFold` says that each element of `ledger` is the fold of the one before
with the entry between; with it every saved, loaded or folded state is the element
at its position (`StateIsFold`). `CheckedLast` says that a request that may still
be appended was accepted by the last element of `ledger`, since the writer had
read the whole chain when it checked and nothing has come since; it gives
`PendingIsLimited` and `LedgerCovered` (no balance below zero, counting what is
pending), and these the steps of `Bank`.

## 7. Database and enable servers

`Stores` is three servers in one module, `backend` being chosen in the initial
state; they differ in what a row's version is, what an update may name, and how a
row is written. `HandleUpdate` is the facility's transaction up to the
announcement: the checks on the copy, BEGIN, the statements, the announcement to
all subscribers; `Commit` follows. `Crash` may come between: what was announced
is taken back, and a server of the first two kinds starts its versions at 0 again.
A statement that throws ends the process between BEGIN and COMMIT, which is the
same crash, so that a transaction half of whose statements were executed is one that
never was. The transaction facility runs one transaction at a time. A user who has
received nothing yet may send what his page or window then shows (`Shown`): an empty
list, version 0. Left out: deltas of the one-list server that name several rows
(the clients of the repository send one), and a `Commit` of the enable server that
fails, whose status the code ignores (`enable_server/main.cpp:155`), so that copy and
subscribers would go on with a value that was not stored.

The run `stores` (2 users, 1 name, 2 values, 2 changes per life, 1 crash) shows
that the copy is what the database has or is about to have, also after a crash
(`CopyIsDatabase`), that a subscriber who has received everything has the server's
copy, whenever he subscribed (`SubscribersAgree`), and that a checked update
replaces what its user saw (`ReplacesWhatUserSaw`). The last holds across a
restart in a table only, where the old row is compared too; for the list and the
enable server a version that was announced and lost in a crash is given to
another value, so that the property is stated within one life.

Proofs, for any users, names and values (one name for the enable server, which
has one). What a subscriber has and the announcements on their way to him,
applied in order, are a line of copies that ends in the server's copy
(`StreamsLead`): with an empty channel, `SubscribersAgree`. `CopyMatches` relates
the copy to the rows, or, while a transaction is open, to the rows it will leave.
For `ReplacesWhatUserSaw` versions must mean something: along the line of one life
they do not decrease, and those equal to the server's come with its data (`Fits`),
also in views and in requests that have been sent. A table needs none of this,
since its statements compare the old row.

## 8. Subscriptions and the end of clients

`Subscriptions` is one client program, the servers it deals with and the channels
between. `program` is chosen in the initial state:

| `program` | Code | Ends |
|---|---|---|
| `transaction` | `UserInputHandler.cpp`, `UserInputReverseBroadcastHandler.cpp` | when the ids it keeps are all given back, whoever asked |
| `versionless` | `versionless_gui_client/GuiClientDataFlow.cpp` | likewise, by its own orders only; or by a timer |
| `page` | `versionless_gui_client/GuiDataFlow.ts` | when its subscription is given back; or by a timer |
| `console` | `gui_client/ConsoleGuiClient.ts` | when its subscription is given back |
| `window` | `gui_client/GuiClientDataFlow.cpp` | when its subscription's order has its last answer |
| `order` | `db_subscription/DBSubscriptionClient.cpp` | when its order has its last answer |

A registration with a server begins with its first heartbeat (`Register`) and ends
when heartbeats are missed (`Deregister`), rightly or not. A server keeps a set of
subscriptions and loses them, and perhaps what it was asked, when it crashes; it
may be back before anyone misses it. Assumed of the framework: whoever asks to
give a subscription back is answered even if there is none, so is the
subscription, and answers to a registration that has ended find nobody. What
servers do after the program has ended is left out. The user may close the program
again, but only when nothing is on its way (`Quiet`); a click in between adds
requests that are answered like the first.

The run `sessions` (2 servers, 3 registrations each, 2 crashes, 1 late heartbeat,
1 subscription given back by another program) shows that a program that ends on
answers leaves no subscription it was told of on a connection that stands
(`CleanExit`), and that every program that is told to end does end (`ExitEnds`),
except `console` and `window` after a crash of their server: these wait for an
answer about a subscription the server no longer has, and have neither a timer nor
a heartbeat to tell them. Fairness: programs, servers and the timer do not
stop for ever, a server that crashed is started again, a missing heartbeat is
noticed, and a user who told the program to end tells it again when nothing
happens: `transaction` needs that when a subscription was confirmed after the
program had asked for those it knew, or the request to give one back was lost.

`CleanExit` is proved for any servers, registrations, crashes and missed
heartbeats. Nothing a program says to one server depends on another, so the
invariant is about one line at a time (`LineOK`), and its lemmas are about the
values on a line rather than states. Its core is an order: the request that
subscribes is the first on its registration. While it is under way, nothing is
known of the registration and nothing held; once an answer says the subscription
was given back, it is not held, and no request is left that could bring it back.

## 9. What is proved and what is checked

| Module | Proved for all constants | Assumed, besides the types of the constants |
|---|---|---|
| `RequestChainProof` | `TypeOK`, `UniqueIds`, `ConfirmedOnce`, `OneCompletion`, `FashionIsTrue`, `WindowsRespected`, `FacilityRespectsLimit`, `ImplementsLifecycle` | |
| | `KnowsOpenRequests` | `GroupsAgree` |
| | `FinalOutputReachesChain` | `"zero" \notin Values` |
| `MainProgramProof` | `MainSpec` implements `Spec` of the request chain, hence `UniqueIds`, `WindowsRespected` and the rest; `MainTypeOK`, `AnswersAreOneStory` | |
| `SimpleDemoProof` | `TypeOK`, `LoadIsLimited`, `AnswersGoHome`, `ImplementsTwoAnswers` | |
| `CompoundLockProof` | `TypeOK`, `MutualExclusion`, `LockVersionCoversPast`, `ImplementsFifoLock` | |
| | `OwnerSeesLatestData` | `QuietStart` |
| `TransactionServersProof` | `TypeOK`, `CarriedOutOnce` | |
| | `ActsOnWhatClientSaw` | `NoCloseWithoutLock` |
| | `TotalIsSum`, `ImplementsBank` | `OnlyTransfersUnlocked`, `SumsFit` |
| `SharedChainBankProof` | `TypeOK`, `StateIsFold`, `PendingIsLimited`, `ImplementsBank` | |
| `StoresProof` | `TypeOK`, `CopyIsDatabase`, `SubscribersAgree`, `ReplacesWhatUserSaw` | |
| `SubscriptionsProof` | `TypeOK`, `CleanExit` | |

Each assumption of the last column describes how the programs are configured or
used, not what the code enforces; sections 2 to 5 say what goes wrong without it,
and the runs of the
properties satisfy it. The types of the constants are the `ASSUME` of each
module, which TLC evaluates on every run.

The theorems about the transaction servers take from the lock what
`CompoundLock` is proved to give: one transaction at a time, on the latest data.
That the two are used together is the reading of `acquireLock` in section 5, not a
theorem: the modules share no variables.

Liveness (`RequestsComplete`, `LockoutFree`, `CommandsFinish`, `ExitEnds`) rests
on fairness and on which actions are enabled, which is out of the proof system's
reach; it stays with TLC, on the instances given. So do the three runs that show a
violation: a counterexample needs no proof. Sums over the accounts are defined by
recursion over finite sets. Induction as a rule takes a predicate, which the
provers cannot be given; the lemmas about sums are proved from the existence of a
least number instead. Deadlock is not checked: every system here may stop, when
its bounds are used up or its users ask for nothing more.

## 10. Not modelled, and the plan

Not modelled:

* secured programs of the simple demo: the key exchange and signatures around the
  same logic (`security_logic`);
* the one-list server over etcd and the versionless servers, which are calls of
  the framework without control of their own, and the command-line clients of the
  one-list servers;
* the averages that select inputs; progress reports; the generator and placer of
  requests split over redis;
* the end of a server's watch of etcd after its deadline of 24 hours or a failed call;
* a commit of the enable server that fails, and list deltas of several rows;
* several transactions at a time in one server, a put to etcd delayed past its
  caller's crash, `--init` while servers run;
* `CompareVersion` and `CheckVersion`, which serve what these servers do not use;
* user interfaces, pure I/O, examples of the framework's transports, programs that
  print what the framework does, and generated code (about 3400 lines of gRPC).

Plan, in this order:

1. The composition of the lock and the accounts as a theorem: a serial
   specification that `CompoundLock` implements under `QuietStart` and that
   `TransactionServers` uses, in place of the reading of section 5.
2. Weaker assumptions: `ActsOnWhatClientSaw` for commands that name accounts
   nobody closes, where others are closed without a lock; `SumsFit` as a bound on
   what accounts hold at a time, closing included, rather than on all that is
   ever injected.
3. Safety parts of the liveness properties that can be proved: what is enabled as
   long as something is owed (a ticket with an owner is reached, a request that is
   open has a calculator that will close it).
4. The secured programs of the simple demo, if the key exchange is modelled.
