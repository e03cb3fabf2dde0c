--------------------------- MODULE SharedChainBank ---------------------------
(***************************************************************************)
(* The shared chain test (src/shared_chain_test): programs that transfer   *)
(* amounts between the accounts a and b by appending requests to a chain.  *)
(* A request is checked against the state its program has folded so far,   *)
(* and appended only if nobody has written since.  Process settles what is *)
(* pending.  Programs that process save their state beside the chain, and  *)
(* every program that starts goes on from what is saved.                   *)
(***************************************************************************)
EXTENDS Integers, Sequences

CONSTANTS
  Programs,
  Parts,        \* Parts[p] \subseteq {"a-to-b", "b-to-a", "process"}
  Amounts,      \* of transfers (100, 200, ..., 900)
  StartAmount,  \* of each account (1000)
  PendingLimit, \* requests that may be pending (10)
  SupportsExtraData,
  MaxLength,    \* bound: length of the chain
  MaxRestarts   \* bound: restarts of programs

BankAssumption ==
  /\ Parts \in [Programs -> SUBSET {"a-to-b", "b-to-a", "process"}]
  /\ Amounts \subseteq Nat \ {0} /\ StartAmount \in Nat
  /\ PendingLimit \in Nat /\ SupportsExtraData \in BOOLEAN
  /\ MaxLength \in Nat /\ MaxRestarts \in Nat

ASSUME BankOK == BankAssumption

Process == [type |-> "process"]
Transfer == [type: {"transfer"}, from: {"a", "b"}, to: {"a", "b"}, amount: Amounts]
Data == Transfer \cup {Process}

VARIABLES
  chain,
  ledger,    \* history: ledger[i + 1] is the fold of the first i entries
  writer,    \* writer[p]: state of its chain writer, and how far it has read
  reader,    \* reader[p]: the same of the chain reader behind its clock
  request,   \* request[p]: a set with the request p checked and is to append
  saved,     \* extra data <today>-state
  restarts

vars == <<chain, ledger, writer, reader, request, saved, restarts>>

-----------------------------------------------------------------------------
(* StateFolder *)

State == [a: Nat, b: Nat, a_pending: Int, b_pending: Int, pendingRequestCount: Nat]
Folded == [at: Nat, state: State]

StartState == [a |-> StartAmount, b |-> StartAmount, a_pending |-> 0,
               b_pending |-> 0, pendingRequestCount |-> 0]

Change(x, acc) == (IF x.to = acc THEN x.amount ELSE 0) - (IF x.from = acc THEN x.amount ELSE 0)

\* slip: what was settled stays pending for b
Fold_Keeping(s, x) ==
  IF x.type = "transfer"
  THEN [s EXCEPT !.a_pending = @ + Change(x, "a"), !.b_pending = @ + Change(x, "b"),
                 !.pendingRequestCount = @ + 1]
  ELSE [s EXCEPT !.a = @ + s.a_pending, !.b = @ + s.b_pending,
                 !.a_pending = 0, !.pendingRequestCount = 0]

Fold(s, x) ==
  IF x.type = "transfer"
  THEN [s EXCEPT !.a_pending = @ + Change(x, "a"), !.b_pending = @ + Change(x, "b"),
                 !.pendingRequestCount = @ + 1]
  ELSE [a |-> s.a + s.a_pending, b |-> s.b + s.b_pending, a_pending |-> 0,
        b_pending |-> 0, pendingRequestCount |-> 0]

\* StateFolder::fold with a storage id, which lastSeenID takes over
Seen(f) == [at |-> f.at + 1, state |-> Fold(f.state, chain[f.at + 1])]

Initial == [at |-> 0, state |-> StartState]

Init ==
  /\ chain = <<>> /\ ledger = <<StartState>>
  /\ writer = [p \in Programs |-> Initial] /\ reader = [p \in Programs |-> Initial]
  /\ request = [p \in Programs |-> {}]
  /\ saved = Initial /\ restarts = 0

-----------------------------------------------------------------------------
(* ChainWriter with RequestHandler.  An input that cannot be appended at    *)
(* once is handled again after what came between has been read: that is     *)
(* another HandleInput.                                                     *)

Last(s) == s[Len(s)]

Asked(p) ==
  {x \in Transfer : \/ "a-to-b" \in Parts[p] /\ x.from = "a" /\ x.to = "b"
                    \/ "b-to-a" \in Parts[p] /\ x.from = "b" /\ x.to = "a"}
  \cup (IF "process" \in Parts[p] THEN {Process} ELSE {})

\* slip: one request too many may be pending
Accepts_OneMore(s, x) ==
  x.type = "transfer" =>
    /\ s.pendingRequestCount <= PendingLimit
    /\ IF x.from = "a" THEN s.a + s.a_pending >= x.amount ELSE s.b + s.b_pending >= x.amount

\* slip: what is pending already is not counted
Accepts_IgnoringPending(s, x) ==
  x.type = "transfer" =>
    /\ s.pendingRequestCount < PendingLimit
    /\ IF x.from = "a" THEN s.a >= x.amount ELSE s.b >= x.amount

\* RequestHandler::basicHandleInput
Accepts(s, x) ==
  x.type = "transfer" =>
    /\ s.pendingRequestCount < PendingLimit
    /\ IF x.from = "a" THEN s.a + s.a_pending >= x.amount ELSE s.b + s.b_pending >= x.amount

ReadNext(p) ==
  /\ writer[p].at < Len(chain)
  /\ request[p] = {}
  /\ writer' = [writer EXCEPT ![p] = Seen(@)]
  /\ UNCHANGED <<chain, ledger, reader, request, saved, restarts>>

HandleInput(p) ==
  /\ request[p] = {} /\ writer[p].at = Len(chain) /\ Len(chain) < MaxLength
  /\ \E x \in Asked(p) :
       /\ Accepts(writer[p].state, x)
       /\ request' = [request EXCEPT ![p] = {x}]
  /\ UNCHANGED <<chain, ledger, writer, reader, saved, restarts>>

AppendRequest(p) ==
  /\ writer[p].at = Len(chain)
  /\ \E x \in request[p] :
       /\ chain' = Append(chain, x)
       /\ ledger' = Append(ledger, Fold(Last(ledger), x))
  /\ request' = [request EXCEPT ![p] = {}]
  /\ UNCHANGED <<writer, reader, saved, restarts>>

AppendFails(p) ==
  /\ request[p] # {} /\ writer[p].at # Len(chain)
  /\ request' = [request EXCEPT ![p] = {}]
  /\ UNCHANGED <<chain, ledger, writer, reader, saved, restarts>>

-----------------------------------------------------------------------------
(* ChainReader and the saved state *)

Read(p) ==
  /\ reader[p].at < Len(chain)
  /\ reader' = [reader EXCEPT ![p] = Seen(@)]
  /\ UNCHANGED <<chain, ledger, writer, request, saved, restarts>>

\* A program may save a state older than the one another program has saved.
SaveState(p) ==
  /\ SupportsExtraData /\ "process" \in Parts[p]
  /\ saved # reader[p]
  /\ saved' = reader[p]
  /\ UNCHANGED <<chain, ledger, writer, reader, request, restarts>>

\* slip: the amounts are restored, but not how far they were read
Restart_StateOnly(p) ==
  /\ restarts < MaxRestarts
  /\ restarts' = restarts + 1
  /\ writer' = [writer EXCEPT ![p] = [at |-> 0, state |-> saved.state]]
  /\ reader' = [reader EXCEPT ![p] = [at |-> 0, state |-> saved.state]]
  /\ request' = [request EXCEPT ![p] = {}]
  /\ UNCHANGED <<chain, ledger, saved>>

\* StateFolder::initialize, of the writer and of the reader; without extra data
\* nothing is ever saved
Restart(p) ==
  /\ restarts < MaxRestarts
  /\ restarts' = restarts + 1
  /\ writer' = [writer EXCEPT ![p] = saved]
  /\ reader' = [reader EXCEPT ![p] = saved]
  /\ request' = [request EXCEPT ![p] = {}]
  /\ UNCHANGED <<chain, ledger, saved>>

Step(p) ==
  \/ ReadNext(p) \/ HandleInput(p) \/ AppendRequest(p) \/ AppendFails(p)
  \/ Read(p) \/ SaveState(p) \/ Restart(p)

Next == \E p \in Programs : Step(p)

Spec == Init /\ [][Next]_vars

-----------------------------------------------------------------------------
(* Properties *)

\* Every variable keeps its type; the amounts, which are unsigned, and the
\* number of pending requests never go below zero.
TypeOK ==
  /\ chain \in Seq(Data)
  /\ ledger \in Seq(State)
  /\ writer \in [Programs -> Folded] /\ reader \in [Programs -> Folded]
  /\ request \in [Programs -> SUBSET Data]
  /\ saved \in Folded
  /\ restarts \in 0..MaxRestarts

\* What a program knows, works on or has saved is what the chain says up to the
\* entry it names, in spite of states saved late and loaded by other programs:
\* no request is counted twice or left out.
StateIsFold ==
  \A f \in {writer[p] : p \in Programs} \cup {reader[p] : p \in Programs} \cup {saved} :
    f.at < Len(ledger) /\ f.state = ledger[f.at + 1]

\* The chain never holds more unsettled requests than the limit, although each
\* was checked against a state that others may have written after.
PendingIsLimited == \A i \in DOMAIN ledger : ledger[i].pendingRequestCount <= PendingLimit

\* Chain, optimistic appends and settling implement a bank that carries out one
\* transfer at a time: no overdraft, nothing gained or lost.
TheBank == INSTANCE Bank WITH
  Names <- {"a", "b"}, Sums <- Amounts, total <- 2 * StartAmount,
  balance <- [acc \in {"a", "b"} |->
    IF acc = "a" THEN Last(ledger).a + Last(ledger).a_pending
                 ELSE Last(ledger).b + Last(ledger).b_pending]
ImplementsBank == TheBank!Spec
=============================================================================
