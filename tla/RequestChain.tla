---------------------------- MODULE RequestChain ----------------------------
(***************************************************************************)
(* The chain version of the demo (src/simple_demo_chain_version): programs *)
(* that share nothing but an append-only chain of ChainData entries.       *)
(*                                                                         *)
(*  - Facilities are main programs, which place requests through a         *)
(*    chain-backed facility and keep at most Limit of them outstanding;    *)
(*  - Tools are runs of executables/place_request, which place a request   *)
(*    whatever is outstanding;                                             *)
(*  - Calculators are redundant (or group-partitioned) calculator          *)
(*    programs, which confirm requests, hand them to the external          *)
(*    calculator that runs in their own process, put its results on the    *)
(*    chain and close the requests.                                        *)
(*                                                                         *)
(* Every program folds the chain into a local state, computes from that    *)
(* state what to write, and appends it with a compare-and-append at the    *)
(* position it has read up to.  The chain, its writers' loop and the       *)
(* compare-and-append belong to tm_basic/tm_transport, outside this        *)
(* repository; the folds, the handlers and the idle worker are its own.    *)
(***************************************************************************)
EXTENDS Integers, Sequences, FiniteSets

CONSTANTS
  Facilities,       \* main programs (chain-backed facility)
  Tools,            \* users of the place_request executable
  Calculators,      \* calculator programs
  Groups,           \* values of convertChainIDStringToGroup(storageID, 10)
  useTheseGroups,   \* the groups each calculator serves
  Values,           \* signs of request values
  Limit,            \* outstanding requests a facility tolerates (2)
  AcceptWindow,     \* 1000 ms, in clock ticks
  ResponseWindow,   \* 5000 ms, in clock ticks
  SupportsExtraData,\* Chain::SupportsExtraData of the chain in use
  StartTime,        \* epoch time at start; any real one exceeds ResponseWindow
  MaxTime,          \* bound: last tick of the clock
  MaxId,            \* bound: last request id
  MaxCrashes,       \* bound: crashes of programs
  LastCrashTime,    \* bound: no crash after this tick
  MaxSaves          \* bound: saves a program has in flight

VARIABLES
  now,         \* the clock all programs read
  chain,       \* the shared chain
  pos,         \* pos[w]: how much of the chain w has folded
  pending,     \* pending[w]: what w has computed and not yet tried to append
  main,        \* main[p]: MainProgramState of a placer
  calc,        \* calc[c]: CalculatorState of a calculator
  idLookup,    \* idLookup[c]: ids whose external calculation is not final
  running,     \* running[c]: <<id, count, sign>> c's external calculator owes
  results,     \* results[c]: external results waiting for the chain facility
  saving,      \* saving[w]: snapshots w's detached threads have yet to save
  savedMain,   \* extra data "main_program_state" of the chain
  savedCalc,   \* extra data "calculator_state" of the chain
  crashes      \* how many crashes have happened

vars == <<now, chain, pos, pending, main, calc, idLookup, running, results,
          saving, savedMain, savedCalc, crashes>>
external == <<idLookup, running, results>>
saved == <<saving, savedMain, savedCalc>>

Placers == Facilities \cup Tools
Writers == Placers \cup Calculators
Ids == 1..MaxId

Signs == {"negative", "zero", "positive"}

ConstantsAssumption ==
  /\ Facilities \cap Tools = {}
  /\ Placers \cap Calculators = {}
  /\ useTheseGroups \in [Calculators -> SUBSET Groups]
  /\ Values \subseteq Signs
  /\ Limit \in Nat /\ AcceptWindow \in Nat /\ ResponseWindow \in Nat
  /\ SupportsExtraData \in BOOLEAN
  /\ StartTime \in Nat /\ StartTime > ResponseWindow
  /\ MaxTime \in Nat /\ MaxId \in Nat /\ MaxCrashes \in Nat
  /\ LastCrashTime \in Nat /\ MaxSaves \in Nat

ASSUME ConstantsOK == ConstantsAssumption

-----------------------------------------------------------------------------
(* Chain entries, as in chain_data/ChainData.hpp. *)

Fashions == {"Fulfilled", "TimeoutBeforeAcceptance",
             "AcceptedThenTimeoutBeforeResponse", "PartiallyHandledThenTimeout"}

Entry ==
  [update: {"PlaceRequest"}, timestamp: Nat, id: Ids, value: Values, group: Groups]
  \cup [update: {"ConfirmRequestReceipt"}, timestamp: Nat, ids: (SUBSET Ids) \ {{}}]
  \cup [update: {"RespondToRequest"}, timestamp: Nat, id: Ids, isFinalResponse: BOOLEAN]
  \cup [update: {"RequestCompleted"}, timestamp: Nat, id: Ids, fashion: Fashions]

Place(id, v, g) == [update |-> "PlaceRequest", timestamp |-> now, id |-> id,
                    value |-> v, group |-> g]
Confirm(ids) == [update |-> "ConfirmRequestReceipt", timestamp |-> now, ids |-> ids]
Respond(id, final) == [update |-> "RespondToRequest", timestamp |-> now, id |-> id,
                       isFinalResponse |-> final]
Complete(id, f) == [update |-> "RequestCompleted", timestamp |-> now, id |-> id,
                    fashion |-> f]

-----------------------------------------------------------------------------
(* The folds: what a program knows from the part of the chain it has read. *)

MainState == [max_id_sofar: Nat, outstandingIDs: SUBSET Ids]

InitMain == [max_id_sofar |-> 0, outstandingIDs |-> {}]

\* MainProgramStateFolder::foldInPlace
FoldMain(s, e) ==
  CASE e.update = "PlaceRequest" ->
         [max_id_sofar |-> IF s.max_id_sofar < e.id THEN e.id ELSE s.max_id_sofar,
          outstandingIDs |-> s.outstandingIDs \cup {e.id}]
    [] e.update = "RequestCompleted" ->
         [s EXCEPT !.outstandingIDs = @ \ {e.id}]
    [] OTHER -> s

Request == [placedTimestamp: Nat, acceptedTimestamp: Nat,
            latestResponseTimestamp: Nat, finalResponseReceived: BOOLEAN,
            requestValue: Values]

\* an unordered_map from ids to OneRequestState
IsRequestMap(m) == DOMAIN m \subseteq Ids /\ m \in [DOMAIN m -> Request]

IsCalcState(s) ==
  /\ s = [newlyPlacedRequests |-> s.newlyPlacedRequests,
          requestsBeingHandled |-> s.requestsBeingHandled]
  /\ IsRequestMap(s.newlyPlacedRequests)
  /\ IsRequestMap(s.requestsBeingHandled)

IsCalcSnapshot(s) == /\ s = [at |-> s.at, state |-> s.state]
                     /\ s.at \in Nat /\ IsCalcState(s.state)

EmptyMap == [id \in {} |-> 0]
InitCalc == [newlyPlacedRequests |-> EmptyMap, requestsBeingHandled |-> EmptyMap]

\* unordered_map::insert of the pairs of n: a key that is there keeps its value
Insert(m, n) ==
  [k \in DOMAIN m \cup DOMAIN n |-> IF k \in DOMAIN m THEN m[k] ELSE n[k]]
Erase(m, K) == [k \in DOMAIN m \ K |-> m[k]]

FoldPlace(c, s, e) ==
  IF e.group \notin useTheseGroups[c] THEN s
  ELSE [s EXCEPT !.newlyPlacedRequests =
          Insert(@, [k \in {e.id} |->
            [placedTimestamp |-> e.timestamp, acceptedTimestamp |-> 0,
             latestResponseTimestamp |-> 0, finalResponseReceived |-> FALSE,
             requestValue |-> e.value]])]

\* slip: the confirmed request stays among the newly placed ones
FoldConfirm_Keeping(s, e) ==
  [s EXCEPT !.requestsBeingHandled =
     Insert(@, [k \in e.ids \cap DOMAIN s.newlyPlacedRequests |->
                  [s.newlyPlacedRequests[k] EXCEPT !.acceptedTimestamp = e.timestamp]])]

FoldConfirm(s, e) ==
  LET new == s.newlyPlacedRequests
      moved == e.ids \cap DOMAIN new
  IN [newlyPlacedRequests |-> Erase(new, moved),
      requestsBeingHandled |->
        Insert(s.requestsBeingHandled,
               [k \in moved |-> [new[k] EXCEPT !.acceptedTimestamp = e.timestamp]])]

\* slip: requestsBeingHandled[id] instead of find, which inserts an unknown id
FoldRespond_Inserting(s, e) ==
  [s EXCEPT !.requestsBeingHandled =
     [id \in DOMAIN @ \cup {e.id} |->
        IF id # e.id THEN @[id]
        ELSE [placedTimestamp |-> 0, acceptedTimestamp |-> 0,
              latestResponseTimestamp |-> e.timestamp,
              finalResponseReceived |-> e.isFinalResponse,
              requestValue |-> "zero"]]]

Answered(r, e) == [r EXCEPT !.latestResponseTimestamp = e.timestamp,
                            !.finalResponseReceived = @ \/ e.isFinalResponse]

FoldRespond(s, e) ==
  IF e.id \notin DOMAIN s.requestsBeingHandled THEN s
  ELSE [s EXCEPT !.requestsBeingHandled[e.id] = Answered(@, e)]

\* slip: only the newly placed requests forget a completed one
FoldComplete_NewOnly(s, e) ==
  [s EXCEPT !.newlyPlacedRequests = Erase(@, {e.id})]

FoldComplete(s, e) ==
  [newlyPlacedRequests |-> Erase(s.newlyPlacedRequests, {e.id}),
   requestsBeingHandled |-> Erase(s.requestsBeingHandled, {e.id})]

\* CalculatorStateFolder::foldInPlace
FoldCalc(c, s, e) ==
  CASE e.update = "PlaceRequest" -> FoldPlace(c, s, e)
    [] e.update = "ConfirmRequestReceipt" -> FoldConfirm(s, e)
    [] e.update = "RespondToRequest" -> FoldRespond(s, e)
    [] e.update = "RequestCompleted" -> FoldComplete(s, e)

-----------------------------------------------------------------------------
Init ==
  /\ now = StartTime
  /\ chain = <<>>
  /\ pos = [w \in Writers |-> 0]
  /\ pending = [w \in Writers |-> <<>>]
  /\ main = [p \in Placers |-> InitMain]
  /\ calc = [c \in Calculators |-> InitCalc]
  /\ idLookup = [c \in Calculators |-> {}]
  /\ running = [c \in Calculators |-> {}]
  /\ results = [c \in Calculators |-> <<>>]
  /\ saving = [w \in Writers |-> {}]
  /\ savedMain = [at |-> 0, state |-> InitMain]
  /\ savedCalc = [at |-> 0, state |-> InitCalc]
  /\ crashes = 0

Tick ==
  /\ now < MaxTime
  /\ now' = now + 1
  /\ UNCHANGED <<chain, pos, pending, main, calc, external, saved, crashes>>

(* The writer's loop fetches the next entry and folds it in. *)
ReadNext(w) ==
  /\ pending[w] = <<>>
  /\ pos[w] < Len(chain)
  /\ pos' = [pos EXCEPT ![w] = @ + 1]
  /\ main' = IF w \in Placers
             THEN [main EXCEPT ![w] = FoldMain(@, chain[pos[w] + 1])] ELSE main
  /\ calc' = IF w \in Calculators
             THEN [calc EXCEPT ![w] = FoldCalc(w, @, chain[pos[w] + 1])] ELSE calc
  /\ UNCHANGED <<now, chain, pending, external, saved, crashes>>

\* w has read the whole chain and is about to call its handler or idle worker
AtTail(w) == pending[w] = <<>> /\ pos[w] = Len(chain)

Propose(w, entries) ==
  /\ pending' = [pending EXCEPT ![w] = entries]
  /\ UNCHANGED <<now, chain, pos, main, calc, external, saved, crashes>>

\* slip: the limit is off by one
HandleInput_OffByOne(p) ==
  /\ p \in Facilities
  /\ AtTail(p)
  /\ Cardinality(main[p].outstandingIDs) <= Limit
  /\ main[p].max_id_sofar < MaxId
  /\ \E v \in Values, g \in Groups :
       Propose(p, <<Place(main[p].max_id_sofar + 1, v, g)>>)

(* MainProgramFacilityInputHandler::handleInput: an input that finds Limit  *)
(* requests outstanding is answered false and leaves no trace.              *)
HandleInput(p) ==
  /\ p \in Facilities
  /\ AtTail(p)
  /\ Cardinality(main[p].outstandingIDs) < Limit
  /\ main[p].max_id_sofar < MaxId
  /\ \E v \in Values, g \in Groups :
       Propose(p, <<Place(main[p].max_id_sofar + 1, v, g)>>)

(* executables/place_request: the same entry without the limit. *)
OneShotWrite(p) ==
  /\ p \in Tools
  /\ AtTail(p)
  /\ main[p].max_id_sofar < MaxId
  /\ \E v \in Values, g \in Groups :
       Propose(p, <<Place(main[p].max_id_sofar + 1, v, g)>>)

\* slip: a request is accepted one tick too late
Acceptable_Late(c) ==
  {id \in DOMAIN calc[c].newlyPlacedRequests :
     calc[c].newlyPlacedRequests[id].placedTimestamp + AcceptWindow + 1 >= now}

(* CalculatorIdleWorker::realWork.  The maps are unordered, so "the first"  *)
(* entry that can be closed is any of them.                                 *)
Acceptable(c) ==
  {id \in DOMAIN calc[c].newlyPlacedRequests :
     calc[c].newlyPlacedRequests[id].placedTimestamp + AcceptWindow >= now}

\* slip: time-outs are looked at before the final response
MayClose_TimeoutFirst(r, f) ==
  \/ f = "Fulfilled" /\ r.finalResponseReceived
  \/ /\ f = "PartiallyHandledThenTimeout"
     /\ r.latestResponseTimestamp # 0
     /\ r.latestResponseTimestamp + ResponseWindow < now

MayClose(r, f) ==
  \/ f = "Fulfilled" /\ r.finalResponseReceived
  \/ /\ ~ r.finalResponseReceived
     /\ r.latestResponseTimestamp + ResponseWindow < now
     /\ \/ /\ f = "PartiallyHandledThenTimeout"
           /\ r.latestResponseTimestamp # 0
        \/ /\ f = "AcceptedThenTimeoutBeforeResponse"
           /\ r.latestResponseTimestamp = 0
           /\ r.acceptedTimestamp + ResponseWindow < now

\* slip: an empty confirmation is written too
Accept_Empty(c) ==
  /\ AtTail(c)
  /\ DOMAIN calc[c].newlyPlacedRequests # {}
  /\ Propose(c, <<Confirm(Acceptable(c))>>)

Accept(c) ==
  /\ AtTail(c)
  /\ Acceptable(c) # {}
  /\ Propose(c, <<Confirm(Acceptable(c))>>)

TimeOutUnaccepted(c) ==
  /\ AtTail(c)
  /\ Acceptable(c) = {}
  /\ \E id \in DOMAIN calc[c].newlyPlacedRequests :
       Propose(c, <<Complete(id, "TimeoutBeforeAcceptance")>>)

\* A fulfilled request is closed by a batch of two equal entries.
CloseHandled(c) ==
  /\ AtTail(c)
  /\ DOMAIN calc[c].newlyPlacedRequests = {}
  /\ \E id \in DOMAIN calc[c].requestsBeingHandled, f \in Fashions :
       /\ MayClose(calc[c].requestsBeingHandled[id], f)
       /\ Propose(c, IF f = "Fulfilled" THEN <<Complete(id, f), Complete(id, f)>>
                                       ELSE <<Complete(id, f)>>)

(* CalculatorFacilityInputHandler::handleInput: the oldest result waiting   *)
(* is put on the chain, whatever has become of its request.                 *)
PutResult(c) ==
  /\ AtTail(c)
  /\ results[c] # <<>>
  /\ Propose(c, <<Respond(Head(results[c]).id, Head(results[c]).sign = "negative")>>)

(* What the calculator does once its batch is on the chain: a confirmed     *)
(* request goes to the external calculator (sendCommand, handle), a result  *)
(* leaves the facility's queue.                                             *)
Effects(c, e) ==
  CASE e.update = "ConfirmRequestReceipt" ->
         /\ idLookup' = [idLookup EXCEPT ![c] = @ \cup e.ids]
         /\ running' = [running EXCEPT ![c] = @ \cup
              {[id |-> id, count |-> 1,
                sign |-> calc[c].newlyPlacedRequests[id].requestValue] : id \in e.ids}]
         /\ UNCHANGED results
    [] e.update = "RespondToRequest" ->
         /\ results' = [results EXCEPT ![c] = Tail(@)]
         /\ UNCHANGED <<idLookup, running>>
    [] OTHER -> UNCHANGED external

(* The compare-and-append: it succeeds exactly when nobody has appended     *)
(* since w read the chain; a writer that fails reads on and computes again. *)
AppendBatch(w) ==
  /\ pending[w] # <<>>
  /\ pos[w] = Len(chain)
  /\ chain' = chain \o pending[w]
  /\ pending' = [pending EXCEPT ![w] = <<>>]
  /\ IF w \in Calculators THEN Effects(w, Head(pending[w])) ELSE UNCHANGED external
  /\ UNCHANGED <<now, pos, main, calc, saved, crashes>>

AppendFails(w) ==
  /\ pending[w] # <<>>
  /\ pos[w] # Len(chain)
  /\ pending' = [pending EXCEPT ![w] = <<>>]
  /\ UNCHANGED <<now, chain, pos, main, calc, external, saved, crashes>>

\* slip: the second answer carries the result as well
Output_NoMark(j) == j.sign

(* ExternalCalculator answers a request twice: 2*input, and -1 at least two *)
(* seconds later; ExternalCalculatorWrappedAsFacility forgets the id at the *)
(* first output that is not positive and drops what comes after.            *)
Output(j) == IF j.count = 1 THEN j.sign ELSE "negative"

CalculateResult(c) ==
  \E j \in running[c] :
    /\ running' = [running EXCEPT ![c] = (@ \ {j}) \cup
         (IF j.count = 1 THEN {[j EXCEPT !.count = 2]} ELSE {})]
    /\ results' = [results EXCEPT ![c] =
         IF j.id \in idLookup[c] THEN Append(@, [id |-> j.id, sign |-> Output(j)])
                                 ELSE @]
    /\ idLookup' = [idLookup EXCEPT ![c] =
         IF Output(j) \in {"zero", "negative"} THEN @ \ {j.id} ELSE @]
    /\ UNCHANGED <<now, chain, pos, pending, main, calc, saved, crashes>>

(* Idle programs save their state beside the chain, under one key for all   *)
(* main programs and one for all calculators: a detached thread takes a copy *)
(* of the state and writes it whenever it gets to it.                       *)
Snapshot(w) == [at |-> pos[w], state |-> IF w \in Placers THEN main[w] ELSE calc[w]]

StartSave(w) ==
  /\ SupportsExtraData /\ w \notin Tools
  /\ pending[w] = <<>>
  /\ Cardinality(saving[w]) < MaxSaves
  /\ saving' = [saving EXCEPT ![w] = @ \cup {Snapshot(w)}]
  /\ UNCHANGED <<now, chain, pos, pending, main, calc, external, savedMain,
                 savedCalc, crashes>>

FinishSave(w) ==
  \E snapshot \in saving[w] :
    /\ saving' = [saving EXCEPT ![w] = @ \ {snapshot}]
    /\ savedMain' = IF w \in Placers THEN snapshot ELSE savedMain
    /\ savedCalc' = IF w \in Placers THEN savedCalc ELSE snapshot
    /\ UNCHANGED <<now, chain, pos, pending, main, calc, external, crashes>>

(* A crash loses everything a process holds; it comes back with the state   *)
(* saved beside the chain, or none, and reads on from there.                *)
MayCrash == crashes < MaxCrashes /\ now <= LastCrashTime

\* slip: the saved state is restored, but reading goes on where it was
CrashMain_AtTail(p) ==
  /\ p \in Facilities /\ MayCrash
  /\ main' = [main EXCEPT ![p] = savedMain.state]
  /\ pending' = [pending EXCEPT ![p] = <<>>]
  /\ saving' = [saving EXCEPT ![p] = {}]
  /\ crashes' = crashes + 1
  /\ UNCHANGED <<now, chain, pos, calc, external, savedMain, savedCalc>>

CrashMain(p) ==
  /\ p \in Facilities /\ MayCrash
  /\ main' = [main EXCEPT ![p] = savedMain.state]
  /\ pos' = [pos EXCEPT ![p] = savedMain.at]
  /\ pending' = [pending EXCEPT ![p] = <<>>]
  /\ saving' = [saving EXCEPT ![p] = {}]
  /\ crashes' = crashes + 1
  /\ UNCHANGED <<now, chain, calc, external, savedMain, savedCalc>>

\* slip: the saved state is restored, but reading goes on where it was
CrashCalc_AtTail(c) ==
  /\ MayCrash
  /\ calc' = [calc EXCEPT ![c] = savedCalc.state]
  /\ pending' = [pending EXCEPT ![c] = <<>>]
  /\ idLookup' = [idLookup EXCEPT ![c] = {}]
  /\ running' = [running EXCEPT ![c] = {}]
  /\ results' = [results EXCEPT ![c] = <<>>]
  /\ saving' = [saving EXCEPT ![c] = {}]
  /\ crashes' = crashes + 1
  /\ UNCHANGED <<now, chain, pos, main, savedMain, savedCalc>>

CrashCalc(c) ==
  /\ MayCrash
  /\ calc' = [calc EXCEPT ![c] = savedCalc.state]
  /\ pos' = [pos EXCEPT ![c] = savedCalc.at]
  /\ pending' = [pending EXCEPT ![c] = <<>>]
  /\ idLookup' = [idLookup EXCEPT ![c] = {}]
  /\ running' = [running EXCEPT ![c] = {}]
  /\ results' = [results EXCEPT ![c] = <<>>]
  /\ saving' = [saving EXCEPT ![c] = {}]
  /\ crashes' = crashes + 1
  /\ UNCHANGED <<now, chain, main, savedMain, savedCalc>>

WriterStep(w) == ReadNext(w) \/ AppendBatch(w) \/ AppendFails(w)
SaveStep(w) == StartSave(w) \/ FinishSave(w)
PlacerStep(p) == HandleInput(p) \/ OneShotWrite(p) \/ CrashMain(p)
IdleWork(c) == Accept(c) \/ TimeOutUnaccepted(c) \/ CloseHandled(c)
CalculatorStep(c) == IdleWork(c) \/ PutResult(c) \/ CalculateResult(c) \/ CrashCalc(c)

Next ==
  \/ Tick
  \/ \E w \in Writers : WriterStep(w) \/ SaveStep(w)
  \/ \E p \in Placers : PlacerStep(p)
  \/ \E c \in Calculators : CalculatorStep(c)

Spec == Init /\ [][Next]_vars

\* Every program keeps taking the steps it can take, the external calculator
\* answers, and time passes.  Inputs, saves and crashes are never promised.
Fairness ==
  /\ WF_vars(Tick)
  /\ \A w \in Writers : WF_vars(WriterStep(w))
  /\ \A c \in Calculators : /\ WF_vars(IdleWork(c))
                            /\ WF_vars(PutResult(c))
                            /\ WF_vars(CalculateResult(c))

FairSpec == Spec /\ Fairness

-----------------------------------------------------------------------------
(* What the first n entries of the chain say of a request. *)

PlacedBy(n) == {chain[i].id : i \in {j \in 1..n : chain[j].update = "PlaceRequest"}}
IsConfirm(i, id) == chain[i].update = "ConfirmRequestReceipt" /\ id \in chain[i].ids
IsResponse(i, id) == chain[i].update = "RespondToRequest" /\ chain[i].id = id
IsCompletion(i, id) == chain[i].update = "RequestCompleted" /\ chain[i].id = id

Placed(id, n) == \E i \in 1..n : chain[i].update = "PlaceRequest" /\ chain[i].id = id
Confirmed(id, n) == \E i \in 1..n : IsConfirm(i, id)
Responded(id, n) == \E i \in 1..n : IsResponse(i, id)
Finished(id, n) == \E i \in 1..n : IsResponse(i, id) /\ chain[i].isFinalResponse
Completed(id, n) == \E i \in 1..n : IsCompletion(i, id)
Outstanding == {id \in PlacedBy(Len(chain)) : ~ Completed(id, Len(chain))}

-----------------------------------------------------------------------------
(* Properties *)

\* Every variable keeps its type.
TypeOK ==
  /\ now \in Nat
  /\ chain \in Seq(Entry)
  /\ pos \in [Writers -> Nat]
  /\ pending \in [Writers -> Seq(Entry)]
  /\ main \in [Placers -> MainState]
  /\ calc = [c \in Calculators |-> calc[c]]
  /\ \A c \in Calculators : IsCalcState(calc[c])
  /\ idLookup \in [Calculators -> SUBSET Ids]
  /\ running \in [Calculators -> SUBSET [id: Ids, count: {1, 2}, sign: Values]]
  /\ results \in [Calculators -> Seq([id: Ids, sign: Signs])]
  /\ saving = [w \in Writers |-> saving[w]]
  /\ \A p \in Placers : saving[p] \subseteq [at: Nat, state: MainState]
  /\ \A c \in Calculators : \A snapshot \in saving[c] : IsCalcSnapshot(snapshot)
  /\ savedMain \in [at: Nat, state: MainState]
  /\ IsCalcSnapshot(savedCalc)
  /\ crashes \in Nat

\* However many main programs and one-shot tools race for the chain, crash and
\* come back with an older state, no two requests get the same id: each takes
\* max_id_sofar+1 of a state that the compare-and-append proves current.
UniqueIds ==
  \A i, j \in 1..Len(chain) :
    /\ chain[i].update = "PlaceRequest"
    /\ chain[j].update = "PlaceRequest"
    /\ chain[i].id = chain[j].id
    => i = j

\* A main program never adds a request to Limit outstanding ones, although it
\* checks the limit on a copy of the state and writes later: when its request
\* reaches the chain, fewer than Limit requests of it are open.
FacilityRespectsLimit ==
  [][\A p \in Facilities :
       pending[p] # <<>> /\ pending'[p] = <<>> /\ chain' # chain
         => Cardinality(Outstanding) < Limit]_vars

\* No request is confirmed twice, so no two of the redundant calculators (nor
\* one that crashed after confirming) ever give it to an external calculator
\* again.
ConfirmedOnce ==
  LET confirms == {i \in 1..Len(chain) : chain[i].update = "ConfirmRequestReceipt"} IN
  \A i, j \in confirms : i # j => chain[i].ids \cap chain[j].ids = {}

\* The fashion a request is completed with tells its true history: one timed
\* out before acceptance is never confirmed, not even later; one accepted then
\* timed out had no response, one partially handled had one that was not
\* final, one fulfilled had its final response.
FashionIsTrue ==
  \A i \in 1..Len(chain) :
    chain[i].update = "RequestCompleted" =>
      LET id == chain[i].id
          f == chain[i].fashion
      IN /\ Placed(id, i)
         /\ f = "TimeoutBeforeAcceptance" => ~ Confirmed(id, Len(chain))
         /\ f # "TimeoutBeforeAcceptance" => Confirmed(id, i)
         /\ f = "AcceptedThenTimeoutBeforeResponse" => ~ Responded(id, i)
         /\ f = "PartiallyHandledThenTimeout" => Responded(id, i) /\ ~ Finished(id, i)
         /\ f = "Fulfilled" => Finished(id, i)

\* Redundant calculators never complete a request twice, with one exception
\* the idle worker makes itself: a fulfilled request is closed by one batch of
\* two equal entries.
OneCompletion ==
  \A i, j \in 1..Len(chain) :
    /\ chain[i].update = "RequestCompleted"
    /\ chain[j].update = "RequestCompleted"
    /\ chain[i].id = chain[j].id
    /\ i < j
    => j = i + 1 /\ chain[i] = chain[j] /\ chain[i].fashion = "Fulfilled"

\* The windows hold between the entries of the chain itself: a request is
\* confirmed within AcceptWindow of its placing and timed out only after it; a
\* confirmed one is given up only ResponseWindow after its confirmation and
\* after each of its responses.
WindowsRespected ==
  \A i, j \in 1..Len(chain) :
    LET between == chain[j].timestamp - chain[i].timestamp IN
    /\ chain[i].update = "PlaceRequest" =>
         /\ IsConfirm(j, chain[i].id) => between <= AcceptWindow
         /\ /\ IsCompletion(j, chain[i].id)
            /\ chain[j].fashion = "TimeoutBeforeAcceptance"
            => between > AcceptWindow
    /\ /\ i < j /\ chain[j].update = "RequestCompleted"
       /\ chain[j].fashion \in {"AcceptedThenTimeoutBeforeResponse",
                                "PartiallyHandledThenTimeout"}
       /\ IsConfirm(i, chain[j].id) \/ IsResponse(i, chain[j].id)
       => between > ResponseWindow

\* A calculator knows exactly the requests of its groups that the entries it
\* has read leave open: none is lost, none comes back after its completion
\* through a late response, a crash or a restored state.
Serves(c, id, n) ==
  \E i \in 1..n : /\ chain[i].update = "PlaceRequest" /\ chain[i].id = id
                  /\ chain[i].group \in useTheseGroups[c]
KnowsOpenRequests ==
  \A c \in Calculators : \A id \in Ids :
    LET open == Serves(c, id, pos[c]) /\ ~ Completed(id, pos[c])
    IN /\ id \in DOMAIN calc[c].newlyPlacedRequests
            <=> open /\ ~ Confirmed(id, pos[c])
       /\ id \in DOMAIN calc[c].requestsBeingHandled
            <=> open /\ Confirmed(id, pos[c])

\* The half of KnowsOpenRequests a request's life depends on: a calculator that
\* has read past the placing of a request of its groups, and not its completion,
\* has it in one of its maps and so "also accepts newly placed requests".
ServedRequestsKnown ==
  \A c \in Calculators : \A id \in Ids :
    Serves(c, id, pos[c]) /\ ~ Completed(id, pos[c])
      => id \in DOMAIN calc[c].newlyPlacedRequests \cup DOMAIN calc[c].requestsBeingHandled

\* Once the external calculator that has a request is done with it, and all its
\* results are on the chain, the last of them is there as the final response.
FinalOutputReachesChain ==
  \A id \in Ids :
    /\ crashes = 0
    /\ Responded(id, Len(chain))
    /\ \A c \in Calculators : /\ \A j \in running[c] : j.id # id
                             /\ \A k \in DOMAIN results[c] : results[c][k].id # id
    => Finished(id, Len(chain))

\* Every request on the chain is completed in the end, whatever crashes.
RequestsComplete ==
  \A id \in Ids : Placed(id, Len(chain)) ~> Completed(id, Len(chain))

-----------------------------------------------------------------------------
(* What all this amounts to for one request: RequestLifecycle. *)

phase ==
  [id \in Ids |->
     IF Completed(id, Len(chain))
     THEN chain[CHOOSE i \in 1..Len(chain) : IsCompletion(i, id)].fashion
     ELSE IF Finished(id, Len(chain)) THEN "finished"
     ELSE IF Responded(id, Len(chain)) THEN "responded"
     ELSE IF Confirmed(id, Len(chain)) THEN "accepted"
     ELSE IF Placed(id, Len(chain)) THEN "placed" ELSE "unknown"]

Lifecycle == INSTANCE RequestLifecycle WITH RequestIds <- Ids, phase <- phase

\* The chain and its writers implement the life of a request: crashes, lost
\* races, late responses and duplicated completions are stutters of it.
ImplementsLifecycle == Lifecycle!Spec
=============================================================================
