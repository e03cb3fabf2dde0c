------------------------ MODULE SharedChainBankProof ------------------------
(***************************************************************************)
(* Theorems about SharedChainBank for any programs, amounts, limit and     *)
(* bounds: types, the states programs know, the limit on pending requests, *)
(* and that the chain implements a bank.                                   *)
(***************************************************************************)
EXTENDS SharedChainBank, TLAPS

-----------------------------------------------------------------------------
(* One request on one state. *)

\* what both accounts will have after the next Process
Covered(s) == s.a + s.a_pending >= 0 /\ s.b + s.b_pending >= 0

LEMMA ChangeType ==
  ASSUME BankAssumption, NEW x \in Transfer, NEW acc \in {"a", "b"}
  PROVE  /\ Change(x, acc) \in Int
         /\ Change(x, acc) >= 0 \/ (x.from = acc /\ Change(x, acc) >= 0 - x.amount)
<1>1. x.amount \in Nat
  BY DEF Transfer, BankAssumption
<1> QED BY <1>1 DEF Change

\* A request that is accepted on a state leaves it covered and within the limit.
LEMMA FoldAccepted ==
  ASSUME BankAssumption, NEW s \in State, NEW x \in Data, Covered(s),
         s.pendingRequestCount <= PendingLimit, Accepts(s, x)
  PROVE  /\ Fold(s, x) \in State
         /\ Covered(Fold(s, x))
         /\ Fold(s, x).pendingRequestCount <= PendingLimit
<1>0. /\ s.a \in Nat /\ s.b \in Nat /\ s.a_pending \in Int /\ s.b_pending \in Int
      /\ s.pendingRequestCount \in Nat /\ PendingLimit \in Nat
  BY DEF State, BankAssumption
<1>1. CASE x = Process
  <2>1. x.type # "transfer"
    BY <1>1 DEF Process
  <2>2. Fold(s, x) = [a |-> s.a + s.a_pending, b |-> s.b + s.b_pending, a_pending |-> 0,
                      b_pending |-> 0, pendingRequestCount |-> 0]
    BY <2>1 DEF Fold
  <2> QED BY <1>0, <2>2 DEF Covered, State
<1>2. CASE x \in Transfer
  <2>1. /\ x.type = "transfer" /\ x.amount \in Nat
        /\ x.from \in {"a", "b"} /\ x.to \in {"a", "b"}
    BY <1>2 DEF Transfer, BankAssumption
  <2> DEFINE A == Change(x, "a")
             B == Change(x, "b")
  <2>2. A \in Int /\ (A >= 0 \/ (x.from = "a" /\ A >= 0 - x.amount))
    BY <1>2, ChangeType
  <2>3. B \in Int /\ (B >= 0 \/ (x.from = "b" /\ B >= 0 - x.amount))
    BY <1>2, ChangeType
  <2>4. /\ s.pendingRequestCount < PendingLimit
        /\ x.from = "a" => s.a + s.a_pending >= x.amount
        /\ x.from = "b" => s.b + s.b_pending >= x.amount
    BY <2>1 DEF Accepts
  <2>5. Fold(s, x) = [s EXCEPT !.a_pending = @ + A, !.b_pending = @ + B,
                               !.pendingRequestCount = @ + 1]
    BY <2>1 DEF Fold
  <2> HIDE DEF A, B
  <2>6. /\ Fold(s, x).a = s.a /\ Fold(s, x).b = s.b
        /\ Fold(s, x).a_pending = s.a_pending + A
        /\ Fold(s, x).b_pending = s.b_pending + B
        /\ Fold(s, x).pendingRequestCount = s.pendingRequestCount + 1
    BY <2>5 DEF State
  <2>7. Fold(s, x) \in State
    <3>1. Fold(s, x) = [a |-> s.a, b |-> s.b, a_pending |-> s.a_pending + A,
                        b_pending |-> s.b_pending + B,
                        pendingRequestCount |-> s.pendingRequestCount + 1]
      BY <2>5 DEF State
    <3> QED BY <1>0, <2>2, <2>3, <3>1 DEF State
  <2>8. s.a + (s.a_pending + A) >= 0
    BY <1>0, <2>1, <2>2, <2>4 DEF Covered
  <2>9. s.b + (s.b_pending + B) >= 0
    BY <1>0, <2>1, <2>3, <2>4 DEF Covered
  <2> QED BY <1>0, <2>4, <2>6, <2>7, <2>8, <2>9 DEF Covered
<1> QED BY <1>1, <1>2 DEF Data

-----------------------------------------------------------------------------
(* The invariant.  LedgerIsFold ties the history variable to the chain;      *)
(* CheckedLast is what the compare-and-append is for: a request that may     *)
(* still be appended was checked on the state at the end of the chain.       *)

LedgerIsFold ==
  /\ Len(ledger) = Len(chain) + 1
  /\ \A i \in 1..Len(chain) : ledger[i + 1] = Fold(ledger[i], chain[i])

LedgerCovered == Covered(Last(ledger))

CheckedLast ==
  \A p \in Programs : \A x \in request[p] :
    writer[p].at = Len(chain) => Accepts(Last(ledger), x)

BankInv == /\ TypeOK /\ LedgerIsFold /\ StateIsFold /\ LedgerCovered
           /\ PendingIsLimited /\ CheckedLast

LEMMA InitBank == BankAssumption /\ Init => BankInv
<1> SUFFICES ASSUME BankAssumption, Init PROVE BankInv
  OBVIOUS
<1>1. StartState \in State
  BY DEF StartState, State, BankAssumption
<1>2. Initial \in Folded
  BY <1>1 DEF Initial, Folded
<1>3. TypeOK
  BY <1>1, <1>2 DEF Init, TypeOK, BankAssumption
<1>4. LedgerIsFold
  BY DEF Init, LedgerIsFold
<1>5. StateIsFold
  BY DEF Init, StateIsFold, Initial
<1>6. Last(ledger) = StartState
  BY DEF Init, Last
<1>7. LedgerCovered
  BY <1>6 DEF LedgerCovered, Covered, StartState, BankAssumption
<1>8. PendingIsLimited
  BY DEF Init, PendingIsLimited, StartState, BankAssumption
<1>9. CheckedLast
  BY DEF Init, CheckedLast
<1> QED BY <1>3, <1>4, <1>5, <1>7, <1>8, <1>9 DEF BankInv

\* Reading one entry more turns a fold into the next one.
LEMMA SeenIsFold ==
  ASSUME BankInv, NEW f \in Folded, f.at < Len(chain), f.state = ledger[f.at + 1]
  PROVE  /\ Seen(f) \in Folded
         /\ Seen(f).at < Len(ledger) /\ Seen(f).state = ledger[Seen(f).at + 1]
<1>1. /\ ledger \in Seq(State) /\ Len(ledger) = Len(chain) + 1 /\ Len(chain) \in Nat
      /\ f.at \in Nat
  BY DEF BankInv, TypeOK, LedgerIsFold, Folded
<1>2. f.at + 1 \in 1..Len(chain)
  BY <1>1
<1>3. Seen(f) = [at |-> f.at + 1, state |-> ledger[(f.at + 1) + 1]]
  BY <1>2 DEF BankInv, LedgerIsFold, Seen
<1>4. ledger[(f.at + 1) + 1] \in State
  BY <1>1
<1> QED BY <1>1, <1>3, <1>4 DEF Folded

\* Steps that leave the chain alone: every state known is still a fold.
LEMMA SameChain ==
  ASSUME BankInv, UNCHANGED <<chain, ledger>>, TypeOK', StateIsFold', CheckedLast'
  PROVE  BankInv'
BY DEF BankInv, LedgerIsFold, LedgerCovered, PendingIsLimited, Last

LEMMA ReadNextBank ==
  ASSUME BankAssumption, BankInv, NEW p \in Programs, ReadNext(p)
  PROVE  BankInv'
<1>1. /\ writer \in [Programs -> Folded] /\ writer[p] \in Folded
      /\ writer[p].state = ledger[writer[p].at + 1] /\ writer[p].at < Len(chain)
  BY DEF BankInv, TypeOK, StateIsFold, ReadNext
<1>2. /\ Seen(writer[p]) \in Folded /\ Seen(writer[p]).at < Len(ledger)
      /\ Seen(writer[p]).state = ledger[Seen(writer[p]).at + 1]
  BY <1>1, SeenIsFold
<1>3. /\ writer' = [writer EXCEPT ![p] = Seen(writer[p])]
      /\ UNCHANGED <<chain, ledger, reader, request, saved, restarts>>
      /\ request[p] = {}
  BY DEF ReadNext
<1>4. \A q \in Programs : writer'[q] = IF q = p THEN Seen(writer[p]) ELSE writer[q]
  BY <1>1, <1>3
<1>5. TypeOK'
  BY <1>1, <1>2, <1>3 DEF BankInv, TypeOK
<1>6. StateIsFold'
  BY <1>2, <1>3, <1>4 DEF BankInv, StateIsFold
<1>7. CheckedLast'
  BY <1>3, <1>4 DEF BankInv, CheckedLast
<1> QED BY <1>3, <1>5, <1>6, <1>7, SameChain

LEMMA HandleInputBank ==
  ASSUME BankAssumption, BankInv, NEW p \in Programs, HandleInput(p)
  PROVE  BankInv'
<1>1. PICK x \in Asked(p) : /\ Accepts(writer[p].state, x)
                            /\ request' = [request EXCEPT ![p] = {x}]
  BY DEF HandleInput
<1>2. x \in Data
  BY DEF Asked, Data
<1>3. /\ UNCHANGED <<chain, ledger, writer, reader, saved, restarts>>
      /\ writer[p].at = Len(chain)
  BY DEF HandleInput
<1>4. request \in [Programs -> SUBSET Data]
  BY DEF BankInv, TypeOK
<1>5. \A q \in Programs : request'[q] = IF q = p THEN {x} ELSE request[q]
  BY <1>1, <1>4
<1>6. TypeOK'
  BY <1>1, <1>2, <1>3, <1>4 DEF BankInv, TypeOK
<1>7. StateIsFold'
  BY <1>3 DEF BankInv, StateIsFold
<1>8. writer[p].state = Last(ledger)
  BY <1>3 DEF BankInv, StateIsFold, LedgerIsFold, Last
<1>9. CheckedLast'
  BY <1>1, <1>3, <1>5, <1>8 DEF BankInv, CheckedLast, Last
<1> QED BY <1>3, <1>6, <1>7, <1>9, SameChain

LEMMA AppendRequestBank ==
  ASSUME BankAssumption, BankInv, NEW p \in Programs, AppendRequest(p)
  PROVE  BankInv'
<1>1. PICK x \in request[p] : /\ chain' = Append(chain, x)
                              /\ ledger' = Append(ledger, Fold(Last(ledger), x))
  BY DEF AppendRequest
<1>2. /\ request' = [request EXCEPT ![p] = {}]
      /\ UNCHANGED <<writer, reader, saved, restarts>>
      /\ writer[p].at = Len(chain)
  BY DEF AppendRequest
<1> DEFINE s == Last(ledger)
<1>3. /\ chain \in Seq(Data) /\ ledger \in Seq(State) /\ request \in [Programs -> SUBSET Data]
      /\ writer \in [Programs -> Folded] /\ reader \in [Programs -> Folded]
      /\ saved \in Folded /\ restarts \in 0..MaxRestarts
      /\ Len(ledger) = Len(chain) + 1 /\ Len(chain) \in Nat
  BY DEF BankInv, TypeOK, LedgerIsFold
<1>4. x \in Data /\ s \in State
  BY <1>1, <1>3 DEF Last
<1>5. Accepts(s, x)
  BY <1>1, <1>2 DEF BankInv, CheckedLast
<1>6. s.pendingRequestCount <= PendingLimit
  BY <1>3 DEF BankInv, PendingIsLimited, Last
<1>7. /\ Fold(s, x) \in State /\ Covered(Fold(s, x))
      /\ Fold(s, x).pendingRequestCount <= PendingLimit
  BY <1>4, <1>5, <1>6, FoldAccepted DEF BankInv, LedgerCovered
<1>8. /\ Len(chain') = Len(chain) + 1 /\ Len(ledger') = Len(ledger) + 1
      /\ \A i \in 1..Len(chain) : chain'[i] = chain[i]
      /\ chain'[Len(chain) + 1] = x
      /\ \A i \in 1..Len(ledger) : ledger'[i] = ledger[i]
      /\ ledger'[Len(ledger) + 1] = Fold(s, x)
  BY <1>1, <1>3, <1>4, <1>7
<1> HIDE DEF s
<1>9. Last(ledger') = Fold(s, x)
  BY <1>3, <1>8 DEF Last
<1>10. TypeOK'
  <2>1. chain' \in Seq(Data) /\ ledger' \in Seq(State)
    BY <1>1, <1>3, <1>4, <1>7 DEF s
  <2>2. request' \in [Programs -> SUBSET Data]
    BY <1>2, <1>3
  <2> QED BY <1>2, <1>3, <2>1, <2>2 DEF TypeOK
<1>11. LedgerIsFold'
  <2>1. Len(ledger') = Len(chain') + 1
    BY <1>3, <1>8
  <2>2. ASSUME NEW i \in 1..Len(chain') PROVE ledger'[i + 1] = Fold(ledger'[i], chain'[i])
    <3>1. CASE i \in 1..Len(chain)
      <4>1. i \in 1..Len(ledger) /\ i + 1 \in 1..Len(ledger)
        BY <1>3, <3>1
      <4> QED BY <1>8, <3>1, <4>1 DEF BankInv, LedgerIsFold
    <3>2. CASE i = Len(chain) + 1
      <4>1. i = Len(ledger) /\ i \in 1..Len(ledger)
        BY <1>3, <3>2
      <4>2. ledger'[i] = s
        BY <1>8, <4>1 DEF s, Last
      <4> QED BY <1>8, <3>2, <4>1, <4>2
    <3> QED BY <1>3, <1>8, <3>1, <3>2
  <2> QED BY <2>1, <2>2 DEF LedgerIsFold
<1>12. StateIsFold'
  <2>1. ASSUME NEW f \in Folded, f.at < Len(ledger), f.state = ledger[f.at + 1]
        PROVE  f.at < Len(ledger') /\ f.state = ledger'[f.at + 1]
    <3>1. f.at \in Nat /\ f.at + 1 \in 1..Len(ledger)
      BY <1>3, <2>1 DEF Folded
    <3> QED BY <1>3, <1>8, <2>1, <3>1
  <2>2. \A f \in {writer[q] : q \in Programs} \cup {reader[q] : q \in Programs} \cup {saved} :
          f \in Folded /\ f.at < Len(ledger) /\ f.state = ledger[f.at + 1]
    BY <1>3 DEF BankInv, StateIsFold
  <2> QED BY <1>2, <2>1, <2>2 DEF StateIsFold
<1>13. LedgerCovered'
  BY <1>7, <1>9 DEF LedgerCovered
<1>14. PendingIsLimited'
  <2>1. ASSUME NEW i \in DOMAIN ledger' PROVE ledger'[i].pendingRequestCount <= PendingLimit
    <3>1. i \in 1..Len(ledger) \/ i = Len(ledger) + 1
      BY <1>3, <1>8, <1>10 DEF TypeOK
    <3> QED BY <1>3, <1>7, <1>8, <3>1 DEF BankInv, PendingIsLimited
  <2> QED BY <2>1 DEF PendingIsLimited
<1>15. CheckedLast'
  <2>1. ASSUME NEW q \in Programs PROVE writer'[q].at # Len(chain')
    <3>1. writer[q].at < Len(ledger)
      BY DEF BankInv, StateIsFold
    <3>2. writer[q].at \in Nat
      BY <1>3 DEF Folded
    <3> QED BY <1>2, <1>3, <1>8, <3>1, <3>2
  <2> QED BY <2>1 DEF CheckedLast
<1> QED BY <1>10, <1>11, <1>12, <1>13, <1>14, <1>15 DEF BankInv

LEMMA AppendFailsBank ==
  ASSUME BankAssumption, BankInv, NEW p \in Programs, AppendFails(p)
  PROVE  BankInv'
<1>1. /\ request' = [request EXCEPT ![p] = {}]
      /\ UNCHANGED <<chain, ledger, writer, reader, saved, restarts>>
  BY DEF AppendFails
<1>2. request \in [Programs -> SUBSET Data]
  BY DEF BankInv, TypeOK
<1>3. TypeOK'
  BY <1>1, <1>2 DEF BankInv, TypeOK
<1>4. StateIsFold'
  BY <1>1 DEF BankInv, StateIsFold
<1>5. \A q \in Programs : request'[q] \subseteq request[q]
  BY <1>1, <1>2
<1>6. CheckedLast'
  BY <1>1, <1>5 DEF BankInv, CheckedLast, Last
<1> QED BY <1>1, <1>3, <1>4, <1>6, SameChain

LEMMA ReadBank ==
  ASSUME BankAssumption, BankInv, NEW p \in Programs, Read(p)
  PROVE  BankInv'
<1>1. /\ reader \in [Programs -> Folded] /\ reader[p] \in Folded
      /\ reader[p].state = ledger[reader[p].at + 1] /\ reader[p].at < Len(chain)
  BY DEF BankInv, TypeOK, StateIsFold, Read
<1>2. /\ Seen(reader[p]) \in Folded /\ Seen(reader[p]).at < Len(ledger)
      /\ Seen(reader[p]).state = ledger[Seen(reader[p]).at + 1]
  BY <1>1, SeenIsFold
<1>3. /\ reader' = [reader EXCEPT ![p] = Seen(reader[p])]
      /\ UNCHANGED <<chain, ledger, writer, request, saved, restarts>>
  BY DEF Read
<1>4. \A q \in Programs : reader'[q] = IF q = p THEN Seen(reader[p]) ELSE reader[q]
  BY <1>1, <1>3
<1>5. TypeOK'
  BY <1>1, <1>2, <1>3 DEF BankInv, TypeOK
<1>6. StateIsFold'
  BY <1>2, <1>3, <1>4 DEF BankInv, StateIsFold
<1>7. CheckedLast'
  BY <1>3 DEF BankInv, CheckedLast, Last
<1> QED BY <1>3, <1>5, <1>6, <1>7, SameChain

LEMMA SaveStateBank ==
  ASSUME BankAssumption, BankInv, NEW p \in Programs, SaveState(p)
  PROVE  BankInv'
<1>1. /\ saved' = reader[p]
      /\ UNCHANGED <<chain, ledger, writer, reader, request, restarts>>
  BY DEF SaveState
<1>2. TypeOK'
  BY <1>1 DEF BankInv, TypeOK
<1>3. StateIsFold'
  BY <1>1 DEF BankInv, StateIsFold
<1>4. CheckedLast'
  BY <1>1 DEF BankInv, CheckedLast, Last
<1> QED BY <1>1, <1>2, <1>3, <1>4, SameChain

LEMMA RestartBank ==
  ASSUME BankAssumption, BankInv, NEW p \in Programs, Restart(p)
  PROVE  BankInv'
<1>1. /\ writer' = [writer EXCEPT ![p] = saved] /\ reader' = [reader EXCEPT ![p] = saved]
      /\ request' = [request EXCEPT ![p] = {}]
      /\ UNCHANGED <<chain, ledger, saved>>
  BY DEF Restart
<1>2. /\ writer \in [Programs -> Folded] /\ reader \in [Programs -> Folded]
      /\ saved \in Folded /\ request \in [Programs -> SUBSET Data]
      /\ restarts \in 0..MaxRestarts /\ MaxRestarts \in Nat
  BY DEF BankInv, TypeOK, BankAssumption
<1>3. restarts' \in 0..MaxRestarts
  BY <1>2 DEF Restart
<1>4. TypeOK'
  BY <1>1, <1>2, <1>3 DEF BankInv, TypeOK
<1>5. \A q \in Programs : /\ writer'[q] \in {writer[q], saved}
                          /\ reader'[q] \in {reader[q], saved}
  BY <1>1, <1>2
<1>6. StateIsFold'
  BY <1>1, <1>5 DEF BankInv, StateIsFold
<1>7. \A q \in Programs : request'[q] = {} \/ (request'[q] = request[q] /\ writer'[q] = writer[q])
  BY <1>1, <1>2
<1>8. CheckedLast'
  BY <1>1, <1>7 DEF BankInv, CheckedLast, Last
<1> QED BY <1>1, <1>4, <1>6, <1>8, SameChain

LEMMA BankStep == BankAssumption /\ BankInv /\ [Next]_vars => BankInv'
<1> SUFFICES ASSUME BankAssumption, BankInv, [Next]_vars PROVE BankInv'
  OBVIOUS
<1>1. ASSUME NEW p \in Programs, Step(p) PROVE BankInv'
  BY <1>1, ReadNextBank, HandleInputBank, AppendRequestBank, AppendFailsBank, ReadBank,
     SaveStateBank, RestartBank DEF Step
<1>2. CASE UNCHANGED vars
  <2>1. TypeOK'
    BY <1>2 DEF BankInv, TypeOK, vars
  <2>2. StateIsFold' /\ CheckedLast'
    BY <1>2 DEF BankInv, StateIsFold, CheckedLast, Last, vars
  <2> QED BY <1>2, <2>1, <2>2, SameChain DEF vars
<1> QED BY <1>1, <1>2 DEF Next

LEMMA BankInvCorrect == Spec => []BankInv
<1>1. Init => BankInv
  BY InitBank, BankOK
<1>2. BankInv /\ [Next]_vars => BankInv'
  BY BankStep, BankOK
<1> QED BY <1>1, <1>2, PTL DEF Spec

-----------------------------------------------------------------------------
\* Every variable keeps its type; in particular amounts, which are unsigned,
\* and the number of pending requests never go below zero.
THEOREM TypeCorrect == Spec => []TypeOK
BY BankInvCorrect, PTL DEF BankInv

\* What any number of programs know, work on, have saved or loaded is the fold
\* of the entries they name: no request is counted twice or left out.
THEOREM StateIsFoldCorrect == Spec => []StateIsFold
BY BankInvCorrect, PTL DEF BankInv

\* The chain never holds more unsettled requests than the limit: a request that
\* passes the compare-and-append was checked on the state at the chain's end.
THEOREM PendingIsLimitedCorrect == Spec => []PendingIsLimited
BY BankInvCorrect, PTL DEF BankInv

-----------------------------------------------------------------------------
(* The refinement. *)

\* what the bank takes for the balances
Due == [acc \in {"a", "b"} |-> IF acc = "a" THEN Last(ledger).a + Last(ledger).a_pending
                                           ELSE Last(ledger).b + Last(ledger).b_pending]

LEMMA BankInitial == BankAssumption /\ Init => TheBank!Init
<1> SUFFICES ASSUME BankAssumption, Init PROVE TheBank!Init
  OBVIOUS
<1>1. Last(ledger) = StartState
  BY DEF Init, Last
<1> QED BY <1>1 DEF TheBank!Init, StartState, BankAssumption

\* what an append means to the bank: a transfer is one, the rest is a stutter
LEMMA BankAppends ==
  ASSUME BankAssumption, BankInv, BankInv', NEW p \in Programs, AppendRequest(p)
  PROVE  [TheBank!Next]_<<Due, 2 * StartAmount>>
<1>1. PICK x \in request[p] : /\ chain' = Append(chain, x)
                              /\ ledger' = Append(ledger, Fold(Last(ledger), x))
  BY DEF AppendRequest
<1> DEFINE s == Last(ledger)
           t == Fold(s, x)
<1>2. /\ ledger \in Seq(State) /\ Len(ledger) = Len(chain) + 1 /\ Len(chain) \in Nat
      /\ ledger' \in Seq(State) /\ x \in Data
  BY <1>1 DEF BankInv, TypeOK, LedgerIsFold
<1>3. s \in State /\ Last(ledger') = t
  BY <1>1, <1>2 DEF Last
<1>4. /\ s.a \in Nat /\ s.b \in Nat /\ s.a_pending \in Int /\ s.b_pending \in Int
      /\ s.pendingRequestCount \in Nat
  BY <1>3 DEF State
<1>5. Accepts(s, x)
  BY <1>1 DEF BankInv, CheckedLast, AppendRequest
<1>6. /\ Due = [acc \in {"a", "b"} |->
                  IF acc = "a" THEN s.a + s.a_pending ELSE s.b + s.b_pending]
      /\ Due' = [acc \in {"a", "b"} |->
                   IF acc = "a" THEN t.a + t.a_pending ELSE t.b + t.b_pending]
  BY <1>3 DEF Due
<1> HIDE DEF s
<1>7. CASE x = Process
  <2>1. x.type # "transfer"
    BY <1>7 DEF Process
  <2>2. t = [a |-> s.a + s.a_pending, b |-> s.b + s.b_pending, a_pending |-> 0,
             b_pending |-> 0, pendingRequestCount |-> 0]
    BY <2>1 DEF Fold
  <2>3. t.a + t.a_pending = s.a + s.a_pending /\ t.b + t.b_pending = s.b + s.b_pending
    BY <1>4, <2>2
  <2>4. UNCHANGED <<Due, 2 * StartAmount>>
    BY <1>6, <2>3
  <2> QED BY <2>4
<1>8. CASE x \in Transfer
  <2>1. /\ x.type = "transfer" /\ x.amount \in Amounts /\ x.amount \in Nat
        /\ x.from \in {"a", "b"} /\ x.to \in {"a", "b"}
    BY <1>8 DEF Transfer, BankAssumption
  <2> DEFINE A == Change(x, "a")
             B == Change(x, "b")
  <2>2. t = [s EXCEPT !.a_pending = @ + A, !.b_pending = @ + B,
                      !.pendingRequestCount = @ + 1]
    BY <2>1 DEF Fold
  <2>3. A \in Int /\ B \in Int
    BY <1>8, ChangeType
  <2>4. /\ t.a + t.a_pending = (s.a + s.a_pending) + A
        /\ t.b + t.b_pending = (s.b + s.b_pending) + B
    <3> HIDE DEF t, A, B
    <3>1. /\ t.a = s.a /\ t.b = s.b
          /\ t.a_pending = s.a_pending + A /\ t.b_pending = s.b_pending + B
      BY <1>3, <2>2 DEF State
    <3> QED BY <1>4, <2>3, <3>1
  <2> HIDE DEF t
  <2>5. \A acc \in {"a", "b"} :
          Due'[acc] = Due[acc] - (IF acc = x.from THEN x.amount ELSE 0)
                               + (IF acc = x.to THEN x.amount ELSE 0)
    BY <1>4, <1>6, <2>1, <2>4 DEF Change
  <2>6. Due[x.from] >= x.amount
    BY <1>4, <1>5, <1>6, <2>1 DEF Accepts
  <2>7. /\ DOMAIN Due = {"a", "b"}
        /\ Due' = [acc \in {"a", "b"} |-> Due'[acc]]
    BY <1>6
  <2>8. TheBank!Transfer(x.from, x.to, x.amount)
    <3>1. Due' = [acc \in DOMAIN Due |->
             Due[acc] - (IF acc = x.from THEN x.amount ELSE 0)
                      + (IF acc = x.to THEN x.amount ELSE 0)]
      BY <2>5, <2>7
    <3>2. {x.from, x.to} \subseteq DOMAIN Due
      BY <2>1, <2>7
    <3> QED BY <2>6, <3>1, <3>2 DEF TheBank!Transfer, Due
  <2> QED BY <2>1, <2>8 DEF TheBank!Next
<1> QED BY <1>2, <1>7, <1>8 DEF Data

LEMMA BankRefines ==
  BankAssumption /\ BankInv /\ BankInv' /\ [Next]_vars
    => [TheBank!Next]_<<Due, 2 * StartAmount>>
<1> SUFFICES ASSUME BankAssumption, BankInv, BankInv', [Next]_vars
             PROVE  [TheBank!Next]_<<Due, 2 * StartAmount>>
  OBVIOUS
<1>1. ASSUME UNCHANGED ledger PROVE UNCHANGED <<Due, 2 * StartAmount>>
  BY <1>1 DEF Due, Last
<1>2. ASSUME NEW p \in Programs, Step(p) PROVE [TheBank!Next]_<<Due, 2 * StartAmount>>
  <2>1. CASE AppendRequest(p)
    BY <2>1, BankAppends
  <2>2. CASE ~ AppendRequest(p)
    <3>1. UNCHANGED ledger
      BY <1>2, <2>2 DEF Step, ReadNext, HandleInput, AppendFails, Read, SaveState, Restart
    <3> QED BY <1>1, <3>1
  <2> QED BY <2>1, <2>2
<1>3. CASE UNCHANGED vars
  BY <1>1, <1>3 DEF vars
<1> QED BY <1>2, <1>3 DEF Next

\* However many programs append to the chain, and start again from whatever was
\* saved, together they are a bank that carries out one transfer at a time.
THEOREM ImplementsBankCorrect == Spec => ImplementsBank
<1>1. Init => TheBank!Init
  BY BankInitial, BankOK
<1>2. BankInv /\ BankInv' /\ [Next]_vars => [TheBank!Next]_<<Due, 2 * StartAmount>>
  BY BankRefines, BankOK
<1> QED BY <1>1, <1>2, BankInvCorrect, PTL DEF Spec, ImplementsBank, TheBank!Spec, Due
=============================================================================
