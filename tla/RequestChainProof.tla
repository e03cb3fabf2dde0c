------------------------- MODULE RequestChainProof --------------------------
(***************************************************************************)
(* Theorems about RequestChain for any number of programs, requests,       *)
(* groups and crashes.                                                     *)
(*                                                                         *)
(* The first part is about types and ids.  The second is about what the    *)
(* entries of the chain tell, with or without saved states: every entry is *)
(* legal after those before it, because its writer knew the truth about    *)
(* the requests it wrote of.  From this follow ConfirmedOnce,              *)
(* OneCompletion, FashionIsTrue, WindowsRespected and the refinement of    *)
(* RequestLifecycle; with what programs know of all requests, not only of  *)
(* those they write of, also FacilityRespectsLimit, KnowsOpenRequests and  *)
(* FinalOutputReachesChain.                                                *)
(***************************************************************************)
EXTENDS RequestChain, TLAPS

-----------------------------------------------------------------------------
(* The folds keep their states well typed. *)

LEMMA FoldMainType ==
  ASSUME ConstantsAssumption, NEW s \in MainState, NEW e \in Entry
  PROVE  FoldMain(s, e) \in MainState
<1>1. CASE e.update = "PlaceRequest"
  <2>1. e.id \in Ids
    BY <1>1 DEF Entry
  <2>2. e.id \in Nat
    BY <2>1 DEF Ids, ConstantsAssumption
  <2> QED BY <1>1, <2>1, <2>2 DEF FoldMain, MainState
<1>2. CASE e.update = "RequestCompleted"
  BY <1>2 DEF FoldMain, MainState
<1>3. CASE e.update \notin {"PlaceRequest", "RequestCompleted"}
  BY <1>3 DEF FoldMain, MainState
<1> QED BY <1>1, <1>2, <1>3

LEMMA FoldCalcType ==
  ASSUME ConstantsAssumption, NEW c \in Calculators, NEW s, IsCalcState(s),
         NEW e \in Entry
  PROVE  IsCalcState(FoldCalc(c, s, e))
<1> DEFINE new == s.newlyPlacedRequests
           handled == s.requestsBeingHandled
<1>1. /\ s = [newlyPlacedRequests |-> new, requestsBeingHandled |-> handled]
      /\ DOMAIN new \subseteq Ids /\ new \in [DOMAIN new -> Request]
      /\ DOMAIN handled \subseteq Ids /\ handled \in [DOMAIN handled -> Request]
  BY DEF IsCalcState, IsRequestMap
<1>0. IsRequestMap(new) /\ IsRequestMap(handled)
  BY DEF IsCalcState
<1>2. CASE e.update = "PlaceRequest"
  <2>1. e.id \in Ids /\ e.timestamp \in Nat /\ e.value \in Values
    BY <1>2 DEF Entry
  <2>2. FoldCalc(c, s, e) = FoldPlace(c, s, e)
    BY <1>2 DEF FoldCalc
  <2>3. CASE e.group \notin useTheseGroups[c]
    BY <2>2, <2>3 DEF FoldPlace
  <2>4. CASE e.group \in useTheseGroups[c]
    <3> DEFINE r == [placedTimestamp |-> e.timestamp, acceptedTimestamp |-> 0,
                     latestResponseTimestamp |-> 0, finalResponseReceived |-> FALSE,
                     requestValue |-> e.value]
               m == [k \in DOMAIN new \cup {e.id} |-> IF k \in DOMAIN new THEN new[k] ELSE r]
    <3>1. r \in Request
      BY <2>1 DEF Request
    <3>2. IsRequestMap(m)
      BY <1>1, <2>1, <3>1 DEF IsRequestMap
    <3>3. FoldPlace(c, s, e) = [newlyPlacedRequests |-> m, requestsBeingHandled |-> handled]
      BY <1>1, <2>4 DEF FoldPlace, Insert
    <3> HIDE DEF m
    <3> QED BY <1>0, <2>2, <3>2, <3>3 DEF IsCalcState
  <2> QED BY <2>3, <2>4
<1>3. CASE e.update = "ConfirmRequestReceipt"
  <2>1. e.timestamp \in Nat /\ e.ids \in SUBSET Ids
    BY <1>3 DEF Entry
  <2> DEFINE moved == e.ids \cap DOMAIN new
             kept == [k \in DOMAIN new \ moved |-> new[k]]
             m == [k \in DOMAIN handled \cup moved |->
                     IF k \in DOMAIN handled THEN handled[k]
                     ELSE [new[k] EXCEPT !.acceptedTimestamp = e.timestamp]]
  <2>2. FoldCalc(c, s, e) = [newlyPlacedRequests |-> kept, requestsBeingHandled |-> m]
    BY <1>3 DEF FoldCalc, FoldConfirm, Insert, Erase
  <2>3. IsRequestMap(kept)
    BY <1>1 DEF IsRequestMap
  <2>4. \A k \in moved : [new[k] EXCEPT !.acceptedTimestamp = e.timestamp] \in Request
    BY <1>1, <2>1 DEF Request
  <2>5. IsRequestMap(m)
    BY <1>1, <2>1, <2>4 DEF IsRequestMap
  <2> QED BY <2>2, <2>3, <2>5 DEF IsCalcState
<1>4. CASE e.update = "RespondToRequest"
  <2>1. e.timestamp \in Nat /\ e.id \in Ids /\ e.isFinalResponse \in BOOLEAN
    BY <1>4 DEF Entry
  <2>2. FoldCalc(c, s, e) = FoldRespond(s, e)
    BY <1>4 DEF FoldCalc
  <2>3. CASE e.id \notin DOMAIN handled
    BY <2>2, <2>3 DEF FoldRespond
  <2>4. CASE e.id \in DOMAIN handled
    <3> DEFINE m == [handled EXCEPT ![e.id] = Answered(handled[e.id], e)]
    <3>1. Answered(handled[e.id], e) \in Request
      BY <1>1, <2>1, <2>4 DEF Request, Answered
    <3>2. IsRequestMap(m)
      BY <1>1, <2>4, <3>1 DEF IsRequestMap
    <3>a. FoldRespond(s, e) = [s EXCEPT !.requestsBeingHandled = m]
      BY <2>4 DEF FoldRespond
    <3> HIDE DEF m
    <3>3. FoldRespond(s, e) = [newlyPlacedRequests |-> new, requestsBeingHandled |-> m]
      BY <1>1, <3>a
    <3> QED BY <1>0, <2>2, <3>2, <3>3 DEF IsCalcState
  <2> QED BY <2>3, <2>4
<1>5. CASE e.update = "RequestCompleted"
  BY <1>1, <1>5 DEF FoldCalc, FoldComplete, Erase, IsCalcState, IsRequestMap
<1>6. e.update \in {"PlaceRequest", "ConfirmRequestReceipt", "RespondToRequest",
                    "RequestCompleted"}
  BY DEF Entry
<1> QED BY <1>2, <1>3, <1>4, <1>5, <1>6

-----------------------------------------------------------------------------
(* Type correctness. *)

LEMMA InitType == ConstantsAssumption /\ Init => TypeOK
<1> SUFFICES ASSUME ConstantsAssumption, Init PROVE TypeOK
  OBVIOUS
<1>1. IsCalcState(InitCalc)
  <2>1. IsRequestMap(EmptyMap)
    BY DEF IsRequestMap, EmptyMap
  <2> QED BY <2>1 DEF IsCalcState, InitCalc
<1>2. InitMain \in MainState
  BY DEF InitMain, MainState
<1>3. IsCalcSnapshot([at |-> 0, state |-> InitCalc])
  BY <1>1 DEF IsCalcSnapshot
<1> QED BY <1>1, <1>2, <1>3 DEF Init, TypeOK, Writers, ConstantsAssumption, saved

LEMMA EntriesType ==
  ASSUME ConstantsAssumption, now \in Nat
  PROVE  /\ \A id \in Ids, v \in Values, g \in Groups : Place(id, v, g) \in Entry
         /\ \A ids \in (SUBSET Ids) \ {{}} : Confirm(ids) \in Entry
         /\ \A id \in Ids, final \in BOOLEAN : Respond(id, final) \in Entry
         /\ \A id \in Ids, f \in Fashions : Complete(id, f) \in Entry
BY DEF Place, Confirm, Respond, Complete, Entry

LEMMA ProposeType ==
  ASSUME TypeOK, NEW w \in Writers, NEW q \in Seq(Entry), Propose(w, q)
  PROVE  TypeOK'
BY DEF Propose, TypeOK, external, saved

LEMMA NextIdType ==
  ASSUME ConstantsAssumption, TypeOK, NEW p \in Placers, main[p].max_id_sofar < MaxId
  PROVE  main[p].max_id_sofar + 1 \in Ids
BY DEF TypeOK, MainState, Ids, ConstantsAssumption

(* What a writer has computed still fits the state it was computed from:    *)
(* the writer neither reads nor works on while a batch is pending.          *)
PlacerPending(p) ==
  pending[p] # <<>> =>
    /\ Len(pending[p]) = 1
    /\ pending[p][1].update = "PlaceRequest"
    /\ pending[p][1].id = main[p].max_id_sofar + 1

CalculatorPending(c) ==
  pending[c] # <<>> =>
    /\ \A k \in DOMAIN pending[c] : pending[c][k].update # "PlaceRequest"
    /\ pending[c][1].update = "ConfirmRequestReceipt"
         => pending[c][1].ids \subseteq DOMAIN calc[c].newlyPlacedRequests
    /\ pending[c][1].update = "RespondToRequest" => results[c] # <<>>

PendingCurrent ==
  /\ \A p \in Placers : PlacerPending(p)
  /\ \A c \in Calculators : CalculatorPending(c)

TypeInv == TypeOK /\ PendingCurrent

LEMMA EffectsType ==
  ASSUME ConstantsAssumption, TypeOK, NEW c \in Calculators, CalculatorPending(c),
         pending[c] # <<>>, Effects(c, pending[c][1])
  PROVE  /\ idLookup' \in [Calculators -> SUBSET Ids]
         /\ running' \in [Calculators -> SUBSET [id: Ids, count: {1, 2}, sign: Values]]
         /\ results' \in [Calculators -> Seq([id: Ids, sign: Signs])]
         /\ \A d \in Calculators : d # c => results'[d] = results[d]
<1> DEFINE e == pending[c][1]
<1>1. e \in Entry /\ pending[c] \in Seq(Entry)
  BY DEF TypeOK, Writers
<1>2. CASE e.update = "ConfirmRequestReceipt"
  <2>1. e.ids \subseteq Ids /\ e.ids \subseteq DOMAIN calc[c].newlyPlacedRequests
    BY <1>1, <1>2 DEF Entry, CalculatorPending
  <2>2. \A id \in e.ids : calc[c].newlyPlacedRequests[id].requestValue \in Values
    BY <2>1 DEF TypeOK, IsCalcState, IsRequestMap, Request
  <2> DEFINE jobs == {[id |-> id, count |-> 1,
                       sign |-> calc[c].newlyPlacedRequests[id].requestValue] : id \in e.ids}
  <2>3. jobs \subseteq [id: Ids, count: {1, 2}, sign: Values]
    BY <2>1, <2>2
  <2>4. /\ idLookup' = [idLookup EXCEPT ![c] = @ \cup e.ids]
        /\ running' = [running EXCEPT ![c] = @ \cup jobs]
        /\ results' = results
    BY <1>2 DEF Effects
  <2> HIDE DEF jobs
  <2> QED BY <2>1, <2>3, <2>4 DEF TypeOK
<1>3. CASE e.update = "RespondToRequest"
  <2>1. results[c] # <<>> /\ results[c] \in Seq([id: Ids, sign: Signs])
    BY <1>3 DEF TypeOK, CalculatorPending
  <2>2. Tail(results[c]) \in Seq([id: Ids, sign: Signs])
    BY <2>1
  <2>3. /\ results' = [results EXCEPT ![c] = Tail(@)]
        /\ UNCHANGED <<idLookup, running>>
    BY <1>3 DEF Effects
  <2> QED BY <2>2, <2>3 DEF TypeOK
<1>4. CASE e.update \notin {"ConfirmRequestReceipt", "RespondToRequest"}
  BY <1>4 DEF Effects, TypeOK, external
<1> QED BY <1>2, <1>3, <1>4

(* A batch may be proposed when it fits the state of its writer.            *)
LEMMA ProposeInv ==
  ASSUME ConstantsAssumption, TypeInv, NEW w \in Writers, NEW q \in Seq(Entry),
         Propose(w, q),
         w \in Placers => /\ Len(q) = 1 /\ q[1].update = "PlaceRequest"
                          /\ q[1].id = main[w].max_id_sofar + 1,
         w \in Calculators =>
           /\ \A k \in DOMAIN q : q[k].update # "PlaceRequest"
           /\ q[1].update = "ConfirmRequestReceipt"
                => q[1].ids \subseteq DOMAIN calc[w].newlyPlacedRequests
           /\ q[1].update = "RespondToRequest" => results[w] # <<>>
  PROVE  TypeInv'
<1>1. TypeOK'
  BY ProposeType DEF TypeInv
<1>2. /\ pending' = [pending EXCEPT ![w] = q] /\ pending \in [Writers -> Seq(Entry)]
      /\ UNCHANGED <<main, calc, results>>
  BY DEF Propose, TypeInv, TypeOK, external
<1>3. ASSUME NEW p \in Placers PROVE PlacerPending(p)'
  <2>1. PlacerPending(p) /\ p \in Writers
    BY DEF TypeInv, PendingCurrent, Writers
  <2>2. CASE p = w
    BY <1>2, <2>1, <2>2 DEF PlacerPending
  <2>3. CASE p # w
    BY <1>2, <2>1, <2>3 DEF PlacerPending
  <2> QED BY <2>2, <2>3
<1>4. ASSUME NEW c \in Calculators PROVE CalculatorPending(c)'
  <2>1. CalculatorPending(c) /\ c \in Writers
    BY DEF TypeInv, PendingCurrent, Writers
  <2>2. CASE c = w
    BY <1>2, <2>1, <2>2 DEF CalculatorPending
  <2>3. CASE c # w
    BY <1>2, <2>1, <2>3 DEF CalculatorPending
  <2> QED BY <2>2, <2>3
<1> QED BY <1>1, <1>3, <1>4 DEF TypeInv, PendingCurrent

LEMMA PlaceInv ==
  ASSUME ConstantsAssumption, TypeInv, NEW p \in Placers, NEW v \in Values, NEW g \in Groups,
         main[p].max_id_sofar < MaxId, Propose(p, <<Place(main[p].max_id_sofar + 1, v, g)>>)
  PROVE  TypeInv'
<1> DEFINE e == Place(main[p].max_id_sofar + 1, v, g)
<1>1. e \in Entry
  BY NextIdType, EntriesType DEF TypeInv, TypeOK
<1>2. e.update = "PlaceRequest" /\ e.id = main[p].max_id_sofar + 1
  BY DEF Place
<1>3. p \in Writers /\ p \notin Calculators
  BY DEF Writers, ConstantsAssumption
<1> HIDE DEF e
<1>4. Propose(p, <<e>>)
  BY DEF e
<1>5. <<e>> \in Seq(Entry) /\ Len(<<e>>) = 1 /\ <<e>>[1] = e
  BY <1>1
<1> QED BY <1>2, <1>3, <1>4, <1>5, ProposeInv

(* The idle worker's completions and the answers.                           *)
LEMMA CalculatorProposesInv ==
  ASSUME ConstantsAssumption, TypeInv, NEW c \in Calculators, NEW e \in Entry,
         NEW q \in {<<e>>, <<e, e>>}, Propose(c, q),
         \/ e.update = "RequestCompleted"
         \/ e.update = "RespondToRequest" /\ results[c] # <<>>
         \/ /\ e.update = "ConfirmRequestReceipt"
            /\ e.ids \subseteq DOMAIN calc[c].newlyPlacedRequests
  PROVE  TypeInv'
<1>1. c \in Writers /\ c \notin Placers
  BY DEF Writers, ConstantsAssumption
<1>2. q \in Seq(Entry) /\ q[1] = e /\ \A k \in DOMAIN q : q[k] = e
  <2>1. CASE q = <<e>>
    BY <2>1
  <2>2. CASE q = <<e, e>>
    BY <2>2
  <2> QED BY <2>1, <2>2
<1> QED BY <1>1, <1>2, ProposeInv

(* Steps that do not touch pending batches keep TypeInv when they keep the  *)
(* types, and what the batches were computed from.                          *)
LEMMA KeepPending ==
  ASSUME TypeInv, TypeOK', NEW w \in Writers,
         pending' = pending \/ pending' = [pending EXCEPT ![w] = <<>>],
         \A p \in Placers : pending'[p] # <<>> => main'[p] = main[p],
         \A c \in Calculators : pending'[c] # <<>> =>
           calc'[c] = calc[c] /\ (results[c] # <<>> => results'[c] # <<>>)
  PROVE  TypeInv'
<1>1. \A x \in Writers : pending'[x] # <<>> => pending'[x] = pending[x]
  BY DEF TypeInv, TypeOK
<1>2. ASSUME NEW p \in Placers PROVE PlacerPending(p)'
  BY <1>1 DEF TypeInv, PendingCurrent, PlacerPending, Writers
<1>3. ASSUME NEW c \in Calculators PROVE CalculatorPending(c)'
  BY <1>1 DEF TypeInv, PendingCurrent, CalculatorPending, Writers
<1> QED BY <1>2, <1>3 DEF TypeInv, PendingCurrent

LEMMA SamePending ==
  ASSUME TypeInv, TypeOK', UNCHANGED <<pending, main, calc, results>>
  PROVE  TypeInv'
<1>1. ASSUME NEW p \in Placers PROVE PlacerPending(p)'
  BY DEF TypeInv, PendingCurrent, PlacerPending
<1>2. ASSUME NEW c \in Calculators PROVE CalculatorPending(c)'
  BY DEF TypeInv, PendingCurrent, CalculatorPending
<1> QED BY <1>1, <1>2 DEF TypeInv, PendingCurrent

LEMMA ReadNextType ==
  ASSUME ConstantsAssumption, TypeOK, NEW w \in Writers, ReadNext(w)
  PROVE  TypeOK'
<1>1. chain[pos[w] + 1] \in Entry /\ pos[w] \in Nat
  BY DEF ReadNext, TypeOK
<1>2. main' \in [Placers -> MainState]
  <2>1. CASE w \in Placers
    <3>1. FoldMain(main[w], chain[pos[w] + 1]) \in MainState
      BY <1>1, <2>1, FoldMainType DEF TypeOK
    <3> QED BY <2>1, <3>1 DEF ReadNext, TypeOK
  <2>2. CASE w \notin Placers
    BY <2>2 DEF ReadNext, TypeOK
  <2> QED BY <2>1, <2>2
<1>3. /\ calc' = [c \in Calculators |-> calc'[c]]
      /\ \A c \in Calculators : IsCalcState(calc'[c])
  <2>1. CASE w \in Calculators
    <3>1. IsCalcState(FoldCalc(w, calc[w], chain[pos[w] + 1]))
      BY <1>1, <2>1, FoldCalcType DEF TypeOK
    <3>2. calc' = [calc EXCEPT ![w] = FoldCalc(w, calc[w], chain[pos[w] + 1])]
      BY <2>1 DEF ReadNext
    <3>3. /\ calc = [c \in Calculators |-> calc[c]]
          /\ \A c \in Calculators : IsCalcState(calc[c])
      BY DEF TypeOK
    <3> QED BY <2>1, <3>1, <3>2, <3>3
  <2>2. CASE w \notin Calculators
    BY <2>2 DEF ReadNext, TypeOK
  <2> QED BY <2>1, <2>2
<1>4. pos' \in [Writers -> Nat]
  BY <1>1 DEF ReadNext, TypeOK
<1> QED BY <1>2, <1>3, <1>4 DEF ReadNext, TypeOK, external, saved

LEMMA AppendType ==
  ASSUME ConstantsAssumption, TypeInv, NEW w \in Writers, AppendBatch(w)
  PROVE  /\ TypeOK'
         /\ \A c \in Calculators : c # w => results'[c] = results[c]
<1>0. TypeOK
  BY DEF TypeInv
<1>1. chain' \in Seq(Entry) /\ pending' \in [Writers -> Seq(Entry)]
  BY <1>0 DEF AppendBatch, TypeOK
<1>2. /\ idLookup' \in [Calculators -> SUBSET Ids]
      /\ running' \in [Calculators -> SUBSET [id: Ids, count: {1, 2}, sign: Values]]
      /\ results' \in [Calculators -> Seq([id: Ids, sign: Signs])]
      /\ \A c \in Calculators : c # w => results'[c] = results[c]
  <2>1. CASE w \in Calculators
    <3>1. pending[w] # <<>> /\ Effects(w, pending[w][1])
      BY <2>1 DEF AppendBatch
    <3>2. CalculatorPending(w)
      BY <2>1 DEF TypeInv, PendingCurrent
    <3> QED BY <1>0, <2>1, <3>1, <3>2, EffectsType
  <2>2. CASE w \notin Calculators
    BY <1>0, <2>2 DEF AppendBatch, TypeOK, external
  <2> QED BY <2>1, <2>2
<1> QED BY <1>0, <1>1, <1>2 DEF AppendBatch, TypeOK, saved

LEMMA CalculateResultType ==
  ASSUME ConstantsAssumption, TypeOK, NEW c \in Calculators, CalculateResult(c)
  PROVE  /\ TypeOK'
         /\ \A d \in Calculators : results[d] # <<>> => results'[d] # <<>>
<1>1. PICK j \in running[c] :
        /\ running' = [running EXCEPT ![c] = (@ \ {j}) \cup
             (IF j.count = 1 THEN {[j EXCEPT !.count = 2]} ELSE {})]
        /\ results' = [results EXCEPT ![c] =
             IF j.id \in idLookup[c] THEN Append(@, [id |-> j.id, sign |-> Output(j)])
                                     ELSE @]
        /\ idLookup' = [idLookup EXCEPT ![c] =
             IF Output(j) \in {"zero", "negative"} THEN @ \ {j.id} ELSE @]
        /\ UNCHANGED <<now, chain, pos, pending, main, calc, saved, crashes>>
  BY DEF CalculateResult
<1>2. j \in [id: Ids, count: {1, 2}, sign: Values]
  BY DEF TypeOK
<1>3. Output(j) \in Signs
  BY <1>2 DEF Output, Signs, ConstantsAssumption
<1>4. [id |-> j.id, sign |-> Output(j)] \in [id: Ids, sign: Signs]
  BY <1>2, <1>3
<1>5. [j EXCEPT !.count = 2] \in [id: Ids, count: {1, 2}, sign: Values]
  BY <1>2
<1>6. running' \in [Calculators -> SUBSET [id: Ids, count: {1, 2}, sign: Values]]
  BY <1>1, <1>5 DEF TypeOK
<1>7. /\ results' \in [Calculators -> Seq([id: Ids, sign: Signs])]
      /\ \A d \in Calculators : results[d] # <<>> => results'[d] # <<>>
  <2> DEFINE r == [id |-> j.id, sign |-> Output(j)]
  <2>1. results \in [Calculators -> Seq([id: Ids, sign: Signs])]
    BY DEF TypeOK
  <2>2. results' = [results EXCEPT ![c] = IF j.id \in idLookup[c] THEN Append(@, r) ELSE @]
    BY <1>1
  <2>3. r \in [id: Ids, sign: Signs]
    BY <1>4
  <2> HIDE DEF r
  <2> DEFINE q == results[c]
  <2>4. q \in Seq([id: Ids, sign: Signs])
    BY <2>1
  <2>5. results'[c] \in {q, Append(q, r)} /\ results' = [results EXCEPT ![c] = results'[c]]
    BY <2>1, <2>2
  <2> HIDE DEF q
  <2>6. Append(q, r) \in Seq([id: Ids, sign: Signs]) /\ Append(q, r) # <<>>
    <3>1. Len(Append(q, r)) = Len(q) + 1 /\ Len(q) \in Nat
      BY <2>3, <2>4
    <3>2. Append(q, r) \in Seq([id: Ids, sign: Signs])
      BY <2>3, <2>4
    <3> QED BY <3>1, <3>2
  <2> QED BY <2>1, <2>4, <2>5, <2>6 DEF q
<1>8. idLookup' \in [Calculators -> SUBSET Ids]
  BY <1>1 DEF TypeOK
<1> QED BY <1>1, <1>6, <1>7, <1>8 DEF TypeOK, saved

LEMMA StartSaveType ==
  ASSUME ConstantsAssumption, TypeOK, NEW w \in Writers, StartSave(w)
  PROVE  TypeOK'
<1> DEFINE new == Snapshot(w)
<1>1. /\ saving = [x \in Writers |-> saving[x]]
      /\ saving' = [saving EXCEPT ![w] = @ \cup {new}]
      /\ \A p \in Placers : saving[p] \subseteq [at: Nat, state: MainState]
      /\ \A c \in Calculators : \A s \in saving[c] : IsCalcSnapshot(s)
  BY DEF TypeOK, StartSave
<1>2. w \in Placers => new \in [at: Nat, state: MainState]
  BY DEF Snapshot, TypeOK
<1>3. w \in Calculators => IsCalcSnapshot(new)
  BY DEF Snapshot, IsCalcSnapshot, TypeOK, ConstantsAssumption
<1> HIDE DEF new
<1>4. saving' = [x \in Writers |-> saving'[x]]
  BY <1>1
<1>5. \A x \in Writers : \A s \in saving'[x] : s \in saving[x] \/ (x = w /\ s = new)
  BY <1>1
<1>6. /\ \A p \in Placers : saving'[p] \subseteq [at: Nat, state: MainState]
      /\ \A c \in Calculators : \A s \in saving'[c] : IsCalcSnapshot(s)
  BY <1>1, <1>2, <1>3, <1>5 DEF Writers
<1> QED BY <1>4, <1>6 DEF StartSave, TypeOK, external

LEMMA FinishSaveType ==
  ASSUME ConstantsAssumption, TypeOK, NEW w \in Writers, FinishSave(w)
  PROVE  TypeOK'
<1>1. PICK s \in saving[w] :
        /\ saving' = [saving EXCEPT ![w] = @ \ {s}]
        /\ savedMain' = IF w \in Placers THEN s ELSE savedMain
        /\ savedCalc' = IF w \in Placers THEN savedCalc ELSE s
        /\ UNCHANGED <<now, chain, pos, pending, main, calc, external, crashes>>
  BY DEF FinishSave
<1>2. /\ saving = [x \in Writers |-> saving[x]]
      /\ \A p \in Placers : saving[p] \subseteq [at: Nat, state: MainState]
      /\ \A c \in Calculators : \A t \in saving[c] : IsCalcSnapshot(t)
  BY DEF TypeOK
<1>3. /\ saving' = [x \in Writers |-> saving'[x]]
      /\ \A x \in Writers : saving'[x] \subseteq saving[x]
  BY <1>1, <1>2
<1>4. /\ savedMain' \in [at: Nat, state: MainState]
      /\ IsCalcSnapshot(savedCalc')
  BY <1>1, <1>2 DEF TypeOK, Writers
<1>5. /\ \A p \in Placers : saving'[p] \subseteq [at: Nat, state: MainState]
      /\ \A c \in Calculators : \A t \in saving'[c] : IsCalcSnapshot(t)
  BY <1>2, <1>3 DEF Writers
<1>6. /\ now' \in Nat /\ chain' \in Seq(Entry) /\ pos' \in [Writers -> Nat]
      /\ pending' \in [Writers -> Seq(Entry)] /\ main' \in [Placers -> MainState]
      /\ calc' = [c \in Calculators |-> calc'[c]]
      /\ \A c \in Calculators : IsCalcState(calc'[c])
      /\ idLookup' \in [Calculators -> SUBSET Ids]
      /\ running' \in [Calculators -> SUBSET [id: Ids, count: {1, 2}, sign: Values]]
      /\ results' \in [Calculators -> Seq([id: Ids, sign: Signs])]
      /\ crashes' \in Nat
  BY <1>1 DEF TypeOK, external
<1> QED BY <1>3, <1>4, <1>5, <1>6 DEF TypeOK

\* A crash forgets the snapshots a program was about to save.
LEMMA CrashSaving ==
  ASSUME TypeOK, NEW w \in Writers, saving' = [saving EXCEPT ![w] = {}]
  PROVE  /\ saving' = [x \in Writers |-> saving'[x]]
         /\ \A p \in Placers : saving'[p] \subseteq [at: Nat, state: MainState]
         /\ \A c \in Calculators : \A s \in saving'[c] : IsCalcSnapshot(s)
<1>1. /\ saving = [x \in Writers |-> saving[x]]
      /\ \A p \in Placers : saving[p] \subseteq [at: Nat, state: MainState]
      /\ \A c \in Calculators : \A s \in saving[c] : IsCalcSnapshot(s)
  BY DEF TypeOK
<1>2. /\ saving' = [x \in Writers |-> saving'[x]]
      /\ \A x \in Writers : saving'[x] \subseteq saving[x]
  BY <1>1
<1> QED BY <1>1, <1>2 DEF Writers

LEMMA TypeInvStep == ConstantsAssumption /\ TypeInv /\ [Next]_vars => TypeInv'
<1> SUFFICES ASSUME ConstantsAssumption, TypeInv, [Next]_vars PROVE TypeInv'
  OBVIOUS
<1>0. TypeOK
  BY DEF TypeInv
<1>w. Placers \subseteq Writers /\ Calculators \subseteq Writers
  BY DEF Writers
<1>1. CASE Tick
  <2>0. now' \in Nat
    BY <1>0, <1>1 DEF Tick, TypeOK
  <2>1. TypeOK'
    BY <1>0, <1>1, <2>0 DEF Tick, TypeOK, external, saved
  <2> QED BY <1>1, <2>1, SamePending DEF Tick, external
<1>2. ASSUME NEW w \in Writers, ReadNext(w) PROVE TypeInv'
  <2>1. TypeOK'
    BY <1>0, <1>2, ReadNextType
  <2>2. /\ pending[w] = <<>> /\ pending' = pending /\ results' = results
        /\ \A p \in Placers : p # w => main'[p] = main[p]
        /\ \A c \in Calculators : c # w => calc'[c] = calc[c]
    BY <1>0, <1>2 DEF ReadNext, TypeOK, external
  <2> QED BY <2>1, <2>2, KeepPending
<1>3. ASSUME NEW w \in Writers, AppendBatch(w) PROVE TypeInv'
  <2>1. TypeOK' /\ \A c \in Calculators : c # w => results'[c] = results[c]
    BY <1>3, AppendType
  <2>2. /\ pending' = [pending EXCEPT ![w] = <<>>] /\ pending'[w] = <<>>
        /\ main' = main /\ calc' = calc
    BY <1>0, <1>3 DEF AppendBatch, TypeOK
  <2> QED BY <2>1, <2>2, KeepPending
<1>4. ASSUME NEW w \in Writers, AppendFails(w) PROVE TypeInv'
  <2>0. pending' \in [Writers -> Seq(Entry)]
    BY <1>0, <1>4 DEF AppendFails, TypeOK
  <2>1. TypeOK'
    BY <1>0, <1>4, <2>0 DEF AppendFails, TypeOK, external, saved
  <2>2. /\ pending' = [pending EXCEPT ![w] = <<>>]
        /\ main' = main /\ calc' = calc /\ results' = results
    BY <1>4 DEF AppendFails, external
  <2> QED BY <2>1, <2>2, KeepPending
<1>5. ASSUME NEW p \in Placers, HandleInput(p) \/ OneShotWrite(p) PROVE TypeInv'
  <2>1. PICK v \in Values, g \in Groups :
          /\ main[p].max_id_sofar < MaxId
          /\ Propose(p, <<Place(main[p].max_id_sofar + 1, v, g)>>)
    BY <1>5 DEF HandleInput, OneShotWrite
  <2> QED BY <2>1, PlaceInv
<1>6. ASSUME NEW w \in Writers, StartSave(w) PROVE TypeInv'
  <2>1. TypeOK'
    BY <1>0, <1>6, StartSaveType
  <2> QED BY <1>6, <2>1, SamePending DEF StartSave, external
<1>13. ASSUME NEW w \in Writers, FinishSave(w) PROVE TypeInv'
  <2>1. TypeOK'
    BY <1>0, <1>13, FinishSaveType
  <2> QED BY <1>13, <2>1, SamePending DEF FinishSave, external
<1>7. ASSUME NEW p \in Placers, CrashMain(p) PROVE TypeInv'
  <2>0. savedMain.at \in Nat /\ savedMain.state \in MainState
    BY <1>0 DEF TypeOK
  <2>a. /\ pos' \in [Writers -> Nat] /\ main' \in [Placers -> MainState]
        /\ pending' \in [Writers -> Seq(Entry)] /\ crashes' \in Nat
    BY <1>0, <1>7, <1>w, <2>0 DEF CrashMain, TypeOK
  <2>1. TypeOK'
    <3>1. /\ saving' = [x \in Writers |-> saving'[x]]
          /\ \A x \in Placers : saving'[x] \subseteq [at: Nat, state: MainState]
          /\ \A c \in Calculators : \A s \in saving'[c] : IsCalcSnapshot(s)
      BY <1>0, <1>7, <1>w, CrashSaving DEF CrashMain
    <3>2. UNCHANGED <<now, chain, calc, idLookup, running, results, savedMain, savedCalc>>
      BY <1>7 DEF CrashMain, external
    <3> QED BY <1>0, <2>a, <3>1, <3>2 DEF TypeOK
  <2>2. /\ pending' = [pending EXCEPT ![p] = <<>>] /\ pending'[p] = <<>>
        /\ calc' = calc /\ results' = results
        /\ \A x \in Placers : x # p => main'[x] = main[x]
    BY <1>0, <1>7, <1>w DEF CrashMain, TypeOK, external
  <2> QED BY <1>w, <2>1, <2>2, KeepPending
<1>8. ASSUME NEW c \in Calculators, Accept(c) PROVE TypeInv'
  <2> DEFINE e == Confirm(Acceptable(c))
  <2>1. Acceptable(c) \subseteq DOMAIN calc[c].newlyPlacedRequests
    BY DEF Acceptable
  <2>2. Acceptable(c) \in (SUBSET Ids) \ {{}}
    <3>1. IsRequestMap(calc[c].newlyPlacedRequests) /\ Acceptable(c) # {}
      BY <1>0, <1>8 DEF Accept, TypeOK, IsCalcState
    <3>2. Acceptable(c) \subseteq Ids
      BY <2>1, <3>1 DEF IsRequestMap
    <3>3. Acceptable(c) \in SUBSET Ids
      BY <3>2
    <3>4. Acceptable(c) \notin {{}}
      BY <3>1
    <3> QED BY <3>3, <3>4
  <2>3. e \in Entry /\ e.update = "ConfirmRequestReceipt" /\ e.ids = Acceptable(c)
    <3>1. e \in Entry
      BY <1>0, <2>2, EntriesType DEF TypeOK
    <3> QED BY <3>1 DEF Confirm
  <2>4. Propose(c, <<e>>)
    BY <1>8 DEF Accept
  <2> HIDE DEF e
  <2> QED BY <2>1, <2>3, <2>4, CalculatorProposesInv
<1>9. ASSUME NEW c \in Calculators, TimeOutUnaccepted(c) PROVE TypeInv'
  <2>1. PICK id \in DOMAIN calc[c].newlyPlacedRequests :
          Propose(c, <<Complete(id, "TimeoutBeforeAcceptance")>>)
    BY <1>9 DEF TimeOutUnaccepted
  <2> DEFINE e == Complete(id, "TimeoutBeforeAcceptance")
  <2>2. id \in Ids
    BY <1>0 DEF TypeOK, IsCalcState, IsRequestMap
  <2>3. e \in Entry /\ e.update = "RequestCompleted"
    <3>1. e \in Entry
      BY <1>0, <2>2, EntriesType DEF TypeOK, Fashions
    <3> QED BY <3>1 DEF Complete
  <2>4. Propose(c, <<e>>)
    BY <2>1
  <2> HIDE DEF e
  <2> QED BY <2>3, <2>4, CalculatorProposesInv
<1>10. ASSUME NEW c \in Calculators, CloseHandled(c) PROVE TypeInv'
  <2>1. PICK id \in DOMAIN calc[c].requestsBeingHandled, f \in Fashions :
          Propose(c, IF f = "Fulfilled" THEN <<Complete(id, f), Complete(id, f)>>
                                        ELSE <<Complete(id, f)>>)
    BY <1>10 DEF CloseHandled
  <2> DEFINE e == Complete(id, f)
  <2>2. id \in Ids
    BY <1>0 DEF TypeOK, IsCalcState, IsRequestMap
  <2>3. e \in Entry /\ e.update = "RequestCompleted"
    <3>1. e \in Entry
      BY <1>0, <2>2, EntriesType DEF TypeOK
    <3> QED BY <3>1 DEF Complete
  <2>4. Propose(c, <<e>>) \/ Propose(c, <<e, e>>)
    BY <2>1
  <2> HIDE DEF e
  <2> QED BY <2>3, <2>4, CalculatorProposesInv
<1>11. ASSUME NEW c \in Calculators, PutResult(c) PROVE TypeInv'
  <2> DEFINE e == Respond(Head(results[c]).id, Head(results[c]).sign = "negative")
  <2>1. results[c] # <<>> /\ Propose(c, <<e>>)
    BY <1>11 DEF PutResult
  <2>2. Head(results[c]).id \in Ids
    <3> DEFINE R == [id: Ids, sign: Signs]
               q == results[c]
    <3>1. q \in Seq(R) /\ q # <<>>
      BY <1>0, <2>1 DEF TypeOK
    <3> HIDE DEF R, q
    <3>2. Head(q) \in R
      BY <3>1
    <3>3. Head(results[c]) \in [id: Ids, sign: Signs]
      BY <3>2 DEF R, q
    <3> QED BY <3>3
  <2>3. e \in Entry /\ e.update = "RespondToRequest"
    <3>1. (Head(results[c]).sign = "negative") \in BOOLEAN
      OBVIOUS
    <3>2. e \in Entry
      BY <1>0, <2>2, <3>1, EntriesType DEF TypeOK
    <3> QED BY <3>2 DEF Respond
  <2> HIDE DEF e
  <2> QED BY <2>1, <2>3, CalculatorProposesInv
<1>12. ASSUME NEW c \in Calculators, CalculateResult(c) PROVE TypeInv'
  <2>1. TypeOK' /\ \A d \in Calculators : results[d] # <<>> => results'[d] # <<>>
    BY <1>0, <1>12, CalculateResultType
  <2>2. UNCHANGED <<pending, main, calc>>
    BY <1>12 DEF CalculateResult
  <2> QED BY <1>w, <2>1, <2>2, KeepPending
<1>14. ASSUME NEW c \in Calculators, CrashCalc(c) PROVE TypeInv'
  <2>0. savedCalc.at \in Nat /\ IsCalcState(savedCalc.state)
    BY <1>0 DEF TypeOK, IsCalcSnapshot
  <2>a. /\ pos' \in [Writers -> Nat] /\ pending' \in [Writers -> Seq(Entry)]
        /\ crashes' \in Nat
    BY <1>0, <1>14, <1>w, <2>0 DEF CrashCalc, TypeOK
  <2>c. /\ idLookup' \in [Calculators -> SUBSET Ids]
        /\ running' \in [Calculators -> SUBSET [id: Ids, count: {1, 2}, sign: Values]]
    BY <1>0, <1>14 DEF CrashCalc, TypeOK
  <2>d. results' \in [Calculators -> Seq([id: Ids, sign: Signs])]
    <3> DEFINE R == [id: Ids, sign: Signs]
    <3>1. results \in [Calculators -> Seq(R)] /\ results' = [results EXCEPT ![c] = <<>>]
      BY <1>0, <1>14 DEF CrashCalc, TypeOK
    <3> HIDE DEF R
    <3>2. <<>> \in Seq(R)
      OBVIOUS
    <3>3. results' \in [Calculators -> Seq(R)]
      BY <3>1, <3>2
    <3> QED BY <3>3 DEF R
  <2>b. /\ calc' = [d \in Calculators |-> calc'[d]]
        /\ \A d \in Calculators : IsCalcState(calc'[d])
    <3>1. /\ calc = [d \in Calculators |-> calc[d]]
          /\ \A d \in Calculators : IsCalcState(calc[d])
      BY <1>0 DEF TypeOK
    <3>2. calc' = [calc EXCEPT ![c] = savedCalc.state]
      BY <1>14 DEF CrashCalc
    <3> QED BY <2>0, <3>1, <3>2
  <2>1. TypeOK'
    <3>1. /\ saving' = [x \in Writers |-> saving'[x]]
          /\ \A x \in Placers : saving'[x] \subseteq [at: Nat, state: MainState]
          /\ \A d \in Calculators : \A s \in saving'[d] : IsCalcSnapshot(s)
      BY <1>0, <1>14, <1>w, CrashSaving DEF CrashCalc
    <3>2. UNCHANGED <<now, chain, main, savedMain, savedCalc>>
      BY <1>14 DEF CrashCalc
    <3> QED BY <1>0, <2>a, <2>b, <2>c, <2>d, <3>1, <3>2 DEF TypeOK
  <2>2. /\ pending' = [pending EXCEPT ![c] = <<>>] /\ pending'[c] = <<>>
        /\ main' = main
        /\ \A d \in Calculators : d # c => calc'[d] = calc[d] /\ results'[d] = results[d]
    BY <1>0, <1>14, <1>w DEF CrashCalc, TypeOK
  <2> QED BY <1>w, <2>1, <2>2, KeepPending
<1>15. CASE UNCHANGED vars
  <2>1. TypeOK'
    BY <1>0, <1>15 DEF TypeOK, vars, external, saved
  <2> QED BY <1>15, <2>1, SamePending DEF vars, external
<1> QED BY <1>1, <1>2, <1>3, <1>4, <1>5, <1>6, <1>7, <1>8, <1>9, <1>10, <1>11, <1>12,
           <1>13, <1>14, <1>15 DEF Next, WriterStep, SaveStep, PlacerStep, CalculatorStep, IdleWork

LEMMA TypeInvCorrect == Spec => []TypeInv
<1>1. Init => TypeInv
  <2>1. Init => TypeOK
    BY InitType, ConstantsOK
  <2>2. Init => PendingCurrent
    BY DEF Init, PendingCurrent, PlacerPending, CalculatorPending, Writers
  <2> QED BY <2>1, <2>2 DEF TypeInv
<1>2. TypeInv /\ [Next]_vars => TypeInv'
  BY TypeInvStep, ConstantsOK
<1> QED BY <1>1, <1>2, PTL DEF Spec

\* Whatever the number of programs, requests, groups and crashes, every variable
\* keeps its type: the maps a calculator folds the chain into stay maps of
\* requests, and what its external calculator holds stays made of known ids.
THEOREM TypeCorrect == Spec => []TypeOK
BY TypeInvCorrect, PTL DEF TypeInv

-----------------------------------------------------------------------------
(* The ids of requests.                                                     *)

\* A state of the main-program fold that has read n entries knows the largest
\* id among them.
Knows(n, s) ==
  /\ n <= Len(chain)
  /\ \A i \in 1..n : chain[i].update = "PlaceRequest" => chain[i].id <= s.max_id_sofar

\* Every placer, and the state saved for its restart, knows the largest id of
\* the entries it has read.
IdsKnown ==
  /\ \A p \in Placers : Knows(pos[p], main[p])
  /\ Knows(savedMain.at, savedMain.state)
  /\ \A p \in Placers : \A s \in saving[p] : Knows(s.at, s.state)

IdsInv == TypeInv /\ IdsKnown /\ UniqueIds

LEMMA KnowsMore ==
  ASSUME TypeOK, chain' \in Seq(Entry), Len(chain) <= Len(chain'),
         \A i \in 1..Len(chain) : chain'[i] = chain[i],
         UNCHANGED <<pos, main, savedMain, saving>>, IdsKnown
  PROVE  IdsKnown'
<1>1. /\ savedMain.at \in Nat /\ pos \in [Writers -> Nat] /\ Len(chain) \in Nat
      /\ Len(chain') \in Nat /\ Placers \subseteq Writers
      /\ \A p \in Placers : \A s \in saving[p] : s.at \in Nat
  BY DEF TypeOK, Writers
<1>2. ASSUME NEW n \in Nat, NEW s, n <= Len(chain), 
             \A i \in 1..n : chain[i].update = "PlaceRequest" => chain[i].id <= s.max_id_sofar
      PROVE  /\ n <= Len(chain')
             /\ \A i \in 1..n : chain'[i].update = "PlaceRequest"
                                 => chain'[i].id <= s.max_id_sofar
  BY <1>1, <1>2
<1> QED BY <1>1, <1>2 DEF IdsKnown, Knows

LEMMA SameIds ==
  ASSUME UNCHANGED <<chain, pos, main, savedMain, saving>>, IdsKnown, UniqueIds
  PROVE  IdsKnown' /\ UniqueIds'
BY DEF IdsKnown, Knows, UniqueIds

LEMMA ReadKnows ==
  ASSUME ConstantsAssumption, TypeOK, NEW p \in Placers, Knows(pos[p], main[p]),
         pos[p] < Len(chain)
  PROVE  Knows(pos[p] + 1, FoldMain(main[p], chain[pos[p] + 1]))
<1> DEFINE e == chain[pos[p] + 1]
           s == main[p]
<1>1. pos[p] \in Nat /\ e \in Entry /\ s \in MainState /\ Len(chain) \in Nat
  BY DEF TypeOK, Writers
<1>2. \A i \in 1..Len(chain) : chain[i].update = "PlaceRequest" => chain[i].id \in Nat
  <2>1. \A i \in 1..Len(chain) : chain[i] \in Entry
    BY DEF TypeOK
  <2> QED BY <2>1 DEF Entry, Ids, ConstantsAssumption
<1>3. s.max_id_sofar \in Nat
  BY <1>1 DEF MainState
<1>4. /\ FoldMain(s, e).max_id_sofar \in Nat
      /\ FoldMain(s, e).max_id_sofar >= s.max_id_sofar
      /\ e.update = "PlaceRequest" => FoldMain(s, e).max_id_sofar >= e.id
  <2>1. CASE e.update = "PlaceRequest"
    <3>1. e.id \in Nat
      BY <1>1, <1>2, <2>1
    <3>2. FoldMain(s, e).max_id_sofar = IF s.max_id_sofar < e.id THEN e.id ELSE s.max_id_sofar
      BY <2>1 DEF FoldMain
    <3> QED BY <1>3, <3>1, <3>2
  <2>2. CASE e.update # "PlaceRequest"
    <3>1. FoldMain(s, e).max_id_sofar = s.max_id_sofar
      BY <1>1, <2>2 DEF FoldMain, MainState
    <3> QED BY <1>3, <2>2, <3>1
  <2> QED BY <2>1, <2>2
<1> DEFINE m == FoldMain(s, e).max_id_sofar
<1> HIDE DEF m
<1>5. /\ m \in Nat /\ m >= s.max_id_sofar
      /\ e.update = "PlaceRequest" => m >= e.id
  BY <1>4 DEF m
<1>6. ASSUME NEW i \in 1..(pos[p] + 1), chain[i].update = "PlaceRequest"
      PROVE  chain[i].id <= m
  <2>1. chain[i].id \in Nat
    BY <1>1, <1>2, <1>6
  <2>2. CASE i = pos[p] + 1
    BY <1>5, <1>6, <2>1, <2>2
  <2>3. CASE i # pos[p] + 1
    <3>1. i \in 1..pos[p]
      BY <1>1, <2>3
    <3>2. chain[i].id <= s.max_id_sofar
      BY <1>6, <3>1 DEF Knows
    <3> QED BY <1>3, <1>5, <2>1, <3>2
  <2> QED BY <2>2, <2>3
<1> QED BY <1>1, <1>6 DEF Knows, m

LEMMA AppendIds ==
  ASSUME ConstantsAssumption, IdsInv, NEW w \in Writers, AppendBatch(w)
  PROVE  IdsKnown' /\ UniqueIds'
<1> DEFINE q == pending[w]
<1>1. /\ TypeOK /\ PendingCurrent /\ IdsKnown /\ UniqueIds
      /\ q \in Seq(Entry) /\ q # <<>> /\ chain \in Seq(Entry)
      /\ chain' = chain \o q /\ pos[w] = Len(chain)
      /\ UNCHANGED <<pos, main, savedMain, saving>>
  BY DEF IdsInv, TypeInv, TypeOK, AppendBatch, saved
<1>2. PlacerPending(w) \/ CalculatorPending(w)
  BY <1>1 DEF PendingCurrent, Writers
<1>3. w \in Placers => PlacerPending(w) /\ Knows(pos[w], main[w])
  BY <1>1 DEF PendingCurrent, IdsKnown
<1>4. w \notin Placers => CalculatorPending(w)
  BY <1>1 DEF PendingCurrent, Writers
<1> HIDE DEF q
<1>5. /\ chain' \in Seq(Entry) /\ Len(chain') = Len(chain) + Len(q)
      /\ Len(chain) \in Nat /\ Len(q) \in Nat
      /\ \A i \in 1..Len(chain) : chain'[i] = chain[i]
      /\ \A i \in (Len(chain) + 1)..Len(chain') :
           i - Len(chain) \in 1..Len(q) /\ chain'[i] = q[i - Len(chain)]
  BY <1>1
<1>6. IdsKnown'
  BY <1>1, <1>5, KnowsMore
<1>7. \A i \in 1..Len(chain') : i \in 1..Len(chain) \/ i \in (Len(chain) + 1)..Len(chain')
  BY <1>5
<1>8. CASE w \in Placers
  <2>1. /\ Len(q) = 1 /\ q[1].id = main[w].max_id_sofar + 1
        /\ \A i \in 1..Len(chain) :
             chain[i].update = "PlaceRequest" => chain[i].id <= main[w].max_id_sofar
    BY <1>1, <1>3, <1>8 DEF PlacerPending, Knows, q
  <2>2. main[w].max_id_sofar \in Nat
    BY <1>1, <1>8 DEF TypeOK, MainState
  <2>3. \A i \in 1..Len(chain) : chain[i].update = "PlaceRequest" => chain[i].id \in Nat
    <3>1. \A i \in 1..Len(chain) : chain[i] \in Entry
      BY <1>1
    <3> QED BY <3>1 DEF Entry, Ids, ConstantsAssumption
  <2>4. \A i \in 1..Len(chain) :
          chain[i].update = "PlaceRequest" => chain[i].id # q[1].id
    BY <2>1, <2>2, <2>3
  <2>5. /\ Len(chain') = Len(chain) + 1 /\ chain'[Len(chain) + 1] = q[1]
        /\ \A i \in 1..Len(chain') : i \in 1..Len(chain) \/ i = Len(chain) + 1
    BY <1>5, <2>1
  <2> QED BY <1>1, <1>5, <1>6, <2>4, <2>5 DEF UniqueIds
<1>9. CASE w \notin Placers
  <2>1. \A k \in 1..Len(q) : q[k].update # "PlaceRequest"
    BY <1>1, <1>4, <1>9 DEF CalculatorPending, q
  <2>2. \A i \in 1..Len(chain') : chain'[i].update = "PlaceRequest"
          => i \in 1..Len(chain) /\ chain'[i] = chain[i]
    BY <1>5, <1>7, <2>1
  <2>3. ASSUME NEW i \in 1..Len(chain'), NEW j \in 1..Len(chain'),
               chain'[i].update = "PlaceRequest", chain'[j].update = "PlaceRequest",
               chain'[i].id = chain'[j].id
        PROVE  i = j
    <3>1. /\ i \in 1..Len(chain) /\ chain'[i] = chain[i]
          /\ j \in 1..Len(chain) /\ chain'[j] = chain[j]
      BY <2>2, <2>3
    <3> QED BY <1>1, <2>3, <3>1 DEF UniqueIds
  <2>4. UniqueIds'
    BY <2>3 DEF UniqueIds
  <2> QED BY <1>6, <2>4
<1> QED BY <1>8, <1>9

LEMMA IdsStep ==
  ConstantsAssumption /\ IdsInv /\ [Next]_vars => IdsKnown' /\ UniqueIds'
<1> SUFFICES ASSUME ConstantsAssumption, IdsInv, [Next]_vars PROVE IdsKnown' /\ UniqueIds'
  OBVIOUS
<1>0. TypeOK /\ IdsKnown /\ UniqueIds
  BY DEF IdsInv, TypeInv
<1>1. ASSUME NEW w \in Writers, ReadNext(w) PROVE IdsKnown' /\ UniqueIds'
  <2>1. /\ UNCHANGED <<chain, savedMain, saving>> /\ pos[w] < Len(chain)
        /\ pos' = [pos EXCEPT ![w] = @ + 1]
        /\ main' = IF w \in Placers
                   THEN [main EXCEPT ![w] = FoldMain(@, chain[pos[w] + 1])] ELSE main
    BY <1>1 DEF ReadNext, saved
  <2>2. ASSUME NEW p \in Placers PROVE Knows(pos'[p], main'[p])
    <3>1. Knows(pos[p], main[p]) /\ p \in Writers
      BY <1>0 DEF IdsKnown, Writers
    <3>2. CASE p = w
      <4>1. Knows(pos[p] + 1, FoldMain(main[p], chain[pos[p] + 1]))
        BY <1>0, <2>1, <3>1, <3>2, ReadKnows
      <4>2. pos'[p] = pos[p] + 1 /\ main'[p] = FoldMain(main[p], chain[pos[p] + 1])
        BY <1>0, <2>1, <3>1, <3>2 DEF TypeOK
      <4> QED BY <4>1, <4>2
    <3>3. CASE p # w
      BY <1>0, <2>1, <3>1, <3>3 DEF TypeOK
    <3> QED BY <3>2, <3>3
  <2> QED BY <1>0, <2>1, <2>2 DEF IdsKnown, Knows, UniqueIds
<1>2. ASSUME NEW w \in Writers, AppendBatch(w) PROVE IdsKnown' /\ UniqueIds'
  BY <1>2, AppendIds
<1>3. ASSUME NEW w \in Writers, StartSave(w) PROVE IdsKnown' /\ UniqueIds'
  <2>1. /\ saving' = [saving EXCEPT ![w] = @ \cup {Snapshot(w)}]
        /\ UNCHANGED <<chain, pos, main, savedMain>>
    BY <1>3 DEF StartSave
  <2>2. ASSUME NEW p \in Placers, NEW s \in saving'[p] PROVE Knows(s.at, s.state)
    <3>1. Knows(pos[p], main[p]) /\ p \in Writers /\ \A t \in saving[p] : Knows(t.at, t.state)
      BY <1>0 DEF IdsKnown, Writers
    <3>2. s \in saving[p] \/ (p = w /\ s = Snapshot(w))
      <4>1. saving = [x \in Writers |-> saving[x]]
        BY <1>0 DEF TypeOK
      <4> QED BY <2>1, <2>2, <3>1, <4>1
    <3> QED BY <3>1, <3>2 DEF Snapshot
  <2> QED BY <1>0, <2>1, <2>2 DEF IdsKnown, Knows, UniqueIds
<1>13. ASSUME NEW w \in Writers, FinishSave(w) PROVE IdsKnown' /\ UniqueIds'
  <2>1. PICK s \in saving[w] :
          /\ saving' = [saving EXCEPT ![w] = @ \ {s}]
          /\ savedMain' = IF w \in Placers THEN s ELSE savedMain
          /\ UNCHANGED <<chain, pos, main>>
    BY <1>13 DEF FinishSave
  <2>2. Knows(savedMain'.at, savedMain'.state)
    BY <1>0, <2>1 DEF IdsKnown
  <2>3. \A x \in Writers : saving'[x] \subseteq saving[x]
    <3>1. saving = [x \in Writers |-> saving[x]]
      BY <1>0 DEF TypeOK
    <3> QED BY <2>1, <3>1
  <2>4. \A p \in Placers : \A t \in saving'[p] : Knows(t.at, t.state)
    BY <1>0, <2>3 DEF IdsKnown, Writers
  <2> QED BY <1>0, <2>1, <2>2, <2>4 DEF IdsKnown, Knows, UniqueIds
<1>4. ASSUME NEW p \in Placers, CrashMain(p) PROVE IdsKnown' /\ UniqueIds'
  <2>0. \A x \in Writers : saving'[x] \subseteq saving[x]
    <3>1. saving = [x \in Writers |-> saving[x]] /\ p \in Writers
      BY <1>0 DEF TypeOK, Writers
    <3> QED BY <1>4, <3>1 DEF CrashMain
  <2>1. /\ UNCHANGED <<chain, savedMain>>
        /\ pos' = [pos EXCEPT ![p] = savedMain.at]
        /\ main' = [main EXCEPT ![p] = savedMain.state]
    BY <1>4 DEF CrashMain, saved
  <2>2. ASSUME NEW x \in Placers PROVE Knows(pos'[x], main'[x])
    <3>1. Knows(pos[x], main[x]) /\ Knows(savedMain.at, savedMain.state) /\ x \in Writers
      BY <1>0 DEF IdsKnown, Writers
    <3>2. \/ pos'[x] = savedMain.at /\ main'[x] = savedMain.state
          \/ pos'[x] = pos[x] /\ main'[x] = main[x]
      BY <1>0, <2>1, <3>1 DEF TypeOK
    <3> QED BY <3>1, <3>2
  <2>3. \A x \in Placers : \A s \in saving'[x] : Knows(s.at, s.state)
    BY <1>0, <2>0 DEF IdsKnown, Writers
  <2> QED BY <1>0, <2>1, <2>2, <2>3 DEF IdsKnown, Knows, UniqueIds
<1>5. ASSUME NEW c \in Calculators, CrashCalc(c) PROVE IdsKnown' /\ UniqueIds'
  <2>1. /\ UNCHANGED <<chain, main, savedMain>>
        /\ pos' = [pos EXCEPT ![c] = savedCalc.at]
    BY <1>5 DEF CrashCalc, saved
  <2>2. \A p \in Placers : pos'[p] = pos[p]
    BY <1>0, <2>1 DEF TypeOK, Writers, ConstantsAssumption
  <2>3. \A p \in Placers : saving'[p] = saving[p]
    <3>1. saving = [x \in Writers |-> saving[x]]
      BY <1>0 DEF TypeOK
    <3> QED BY <1>5, <3>1 DEF CrashCalc, Writers, ConstantsAssumption
  <2> QED BY <1>0, <2>1, <2>2, <2>3 DEF IdsKnown, Knows, UniqueIds
<1>6. ASSUME UNCHANGED <<chain, pos, main, savedMain, saving>> PROVE IdsKnown' /\ UniqueIds'
  BY <1>0, <1>6, SameIds
<1>7. CASE Tick
  BY <1>6, <1>7 DEF Tick, saved
<1>8. ASSUME NEW w \in Writers, AppendFails(w) PROVE IdsKnown' /\ UniqueIds'
  BY <1>6, <1>8 DEF AppendFails, saved
<1>9. ASSUME NEW p \in Placers, HandleInput(p) \/ OneShotWrite(p)
      PROVE  IdsKnown' /\ UniqueIds'
  BY <1>6, <1>9 DEF HandleInput, OneShotWrite, Propose, saved
<1>10. ASSUME NEW c \in Calculators, IdleWork(c) \/ PutResult(c)
       PROVE  IdsKnown' /\ UniqueIds'
  BY <1>6, <1>10 DEF IdleWork, Accept, TimeOutUnaccepted, CloseHandled, PutResult,
     Propose, saved
<1>11. ASSUME NEW c \in Calculators, CalculateResult(c) PROVE IdsKnown' /\ UniqueIds'
  BY <1>6, <1>11 DEF CalculateResult, saved
<1>12. CASE UNCHANGED vars
  BY <1>6, <1>12 DEF vars, saved
<1> QED BY <1>1, <1>2, <1>3, <1>4, <1>5, <1>7, <1>8, <1>9, <1>10, <1>11, <1>12,
           <1>13 DEF Next, WriterStep, SaveStep, PlacerStep, CalculatorStep

\* No two requests ever get the same id, however many main programs and tools
\* race for the chain, crash and come back with whatever state was saved: a
\* placer that has read n entries knows the largest id among them, its batch
\* takes the next one, and the compare-and-append lets it through only if n is
\* the whole chain.
THEOREM UniqueIdsCorrect == Spec => []UniqueIds
<1>1. Init => IdsKnown /\ UniqueIds
  <2>1. ConstantsAssumption
    BY ConstantsOK
  <2> QED BY <2>1 DEF Init, IdsKnown, Knows, UniqueIds, InitMain, Writers, saved
<1>2. IdsInv /\ [Next]_vars => IdsKnown' /\ UniqueIds'
  BY IdsStep, ConstantsOK
<1> QED BY <1>1, <1>2, TypeInvCorrect, PTL DEF Spec, IdsInv

-----------------------------------------------------------------------------
(* The truth about a request after the first n entries of the chain.        *)

IsPlace(i, id) == chain[i].update = "PlaceRequest" /\ chain[i].id = id

\* After n entries, at time t, request id may be confirmed.
MayAccept(id, n, t) ==
  /\ Placed(id, n) /\ ~ Confirmed(id, n) /\ ~ Completed(id, n)
  /\ \A k \in 1..n : IsPlace(k, id) => t <= chain[k].timestamp + AcceptWindow

\* After n entries, at time t, request id may be completed with fashion f.
MayComplete(id, f, n, t) ==
  /\ Placed(id, n) /\ ~ Completed(id, n)
  /\ f = "TimeoutBeforeAcceptance" =>
       /\ ~ Confirmed(id, n)
       /\ \A k \in 1..n : IsPlace(k, id) => chain[k].timestamp + AcceptWindow < t
  /\ f # "TimeoutBeforeAcceptance" => Confirmed(id, n)
  /\ f = "AcceptedThenTimeoutBeforeResponse" => ~ Responded(id, n)
  /\ f = "PartiallyHandledThenTimeout" => Responded(id, n) /\ ~ Finished(id, n)
  /\ f = "Fulfilled" => Finished(id, n)
  /\ f \in {"AcceptedThenTimeoutBeforeResponse", "PartiallyHandledThenTimeout"} =>
       \A k \in 1..n : IsConfirm(k, id) \/ IsResponse(k, id)
                         => chain[k].timestamp + ResponseWindow < t

LegalConfirm(i) ==
  chain[i].update = "ConfirmRequestReceipt" =>
    \A id \in chain[i].ids : MayAccept(id, i - 1, chain[i].timestamp)

LegalResponse(i) ==
  chain[i].update = "RespondToRequest" => Confirmed(chain[i].id, i - 1)

\* the second entry of a batch that closes a fulfilled request
SecondCopy(i) ==
  /\ i > 1 /\ chain[i] = chain[i - 1] /\ chain[i].fashion = "Fulfilled"
  /\ MayComplete(chain[i].id, "Fulfilled", i - 2, chain[i].timestamp)

LegalCompletion(i) ==
  chain[i].update = "RequestCompleted" =>
    \/ MayComplete(chain[i].id, chain[i].fashion, i - 1, chain[i].timestamp)
    \/ SecondCopy(i)

InOrder(i) == \A k \in 1..(i - 1) : chain[k].timestamp <= chain[i].timestamp

Legal(i) == LegalConfirm(i) /\ LegalResponse(i) /\ LegalCompletion(i) /\ InOrder(i)

History == \A i \in 1..Len(chain) : Legal(i)

\* Time zero stands for "never" in the states of calculators.
Clocked ==
  /\ now > 0
  /\ \A i \in 1..Len(chain) : chain[i].timestamp > 0 /\ chain[i].timestamp <= now

-----------------------------------------------------------------------------
(* What a calculator that has read n entries says of the requests it knows  *)
(* is true.  Which requests it knows is another matter: a state that was    *)
(* saved for other groups knows other requests.                             *)

Waits(n, id, r) ==
  /\ ~ Confirmed(id, n) /\ ~ Completed(id, n)
  /\ \E i \in 1..n : IsPlace(i, id) /\ chain[i].timestamp = r.placedTimestamp
  /\ r.latestResponseTimestamp = 0 /\ ~ r.finalResponseReceived

IsHandled(n, id, r) ==
  /\ ~ Completed(id, n)
  /\ \E i \in 1..n : IsConfirm(i, id) /\ chain[i].timestamp = r.acceptedTimestamp
  /\ r.latestResponseTimestamp = 0 <=> ~ Responded(id, n)
  /\ \A i \in 1..n : IsResponse(i, id) => chain[i].timestamp <= r.latestResponseTimestamp
  /\ r.finalResponseReceived <=> Finished(id, n)

Tells(n, s) ==
  /\ n <= Len(chain)
  /\ \A id \in DOMAIN s.newlyPlacedRequests : Waits(n, id, s.newlyPlacedRequests[id])
  /\ \A id \in DOMAIN s.requestsBeingHandled :
       IsHandled(n, id, s.requestsBeingHandled[id])

CalculatorsTell ==
  /\ \A c \in Calculators : Tells(pos[c], calc[c])
  /\ Tells(savedCalc.at, savedCalc.state)
  /\ \A c \in Calculators : \A s \in saving[c] : Tells(s.at, s.state)

\* The external calculator works on confirmed requests only.
AnswersConfirmed ==
  \A c \in Calculators :
    /\ \A j \in running[c] : Confirmed(j.id, Len(chain))
    /\ \A k \in DOMAIN results[c] : Confirmed(results[c][k].id, Len(chain))

-----------------------------------------------------------------------------
(* What a writer is about to append fits the state it was computed from,    *)
(* at the time it was computed.                                             *)

MayCloseAt(r, f, t) ==
  \/ f = "Fulfilled" /\ r.finalResponseReceived
  \/ /\ ~ r.finalResponseReceived
     /\ r.latestResponseTimestamp + ResponseWindow < t
     /\ \/ f = "PartiallyHandledThenTimeout" /\ r.latestResponseTimestamp # 0
        \/ /\ f = "AcceptedThenTimeoutBeforeResponse"
           /\ r.latestResponseTimestamp = 0
           /\ r.acceptedTimestamp + ResponseWindow < t

FitsConfirm(c, e) ==
  e.update = "ConfirmRequestReceipt" =>
    \A id \in e.ids :
      /\ id \in DOMAIN calc[c].newlyPlacedRequests
      /\ e.timestamp <= calc[c].newlyPlacedRequests[id].placedTimestamp + AcceptWindow

FitsResponse(c, e) ==
  e.update = "RespondToRequest" =>
    /\ results[c] # <<>>
    /\ e.id = results[c][1].id
    /\ e.isFinalResponse <=> results[c][1].sign = "negative"

FitsCompletion(c, e) ==
  e.update = "RequestCompleted" =>
    \/ /\ e.fashion = "TimeoutBeforeAcceptance"
       /\ e.id \in DOMAIN calc[c].newlyPlacedRequests
       /\ calc[c].newlyPlacedRequests[e.id].placedTimestamp + AcceptWindow < e.timestamp
    \/ /\ e.id \in DOMAIN calc[c].requestsBeingHandled
       /\ MayCloseAt(calc[c].requestsBeingHandled[e.id], e.fashion, e.timestamp)

Timely(w, e) ==
  /\ e.timestamp > 0 /\ e.timestamp <= now
  /\ \A k \in 1..pos[w] : chain[k].timestamp <= e.timestamp

BatchFits(c) ==
  pending[c] # <<>> =>
    LET e == pending[c][1] IN
    /\ FitsConfirm(c, e) /\ FitsResponse(c, e) /\ FitsCompletion(c, e)
    /\ \/ pending[c] = <<e>>
       \/ pending[c] = <<e, e>> /\ e.update = "RequestCompleted" /\ e.fashion = "Fulfilled"

BatchesFit ==
  /\ \A w \in Writers : pending[w] # <<>> => Timely(w, pending[w][1])
  /\ \A c \in Calculators : BatchFits(c)

HistoryInv ==
  /\ IdsInv /\ Clocked /\ History /\ CalculatorsTell /\ AnswersConfirmed /\ BatchesFit

-----------------------------------------------------------------------------
(* What is true of a part of the chain stays true when the chain grows.     *)

Grows ==
  /\ Len(chain) <= Len(chain')
  /\ \A i \in 1..Len(chain) : chain'[i] = chain[i]

LEMMA FactsKept ==
  ASSUME TypeOK, Grows, NEW n \in 0..Len(chain)
  PROVE  \A id :
           /\ Placed(id, n)' <=> Placed(id, n)
           /\ Confirmed(id, n)' <=> Confirmed(id, n)
           /\ Responded(id, n)' <=> Responded(id, n)
           /\ Finished(id, n)' <=> Finished(id, n)
           /\ Completed(id, n)' <=> Completed(id, n)
<1>1. \A i \in 1..n : chain'[i] = chain[i]
  BY DEF Grows, TypeOK
<1>2. ASSUME NEW id PROVE Placed(id, n)' <=> Placed(id, n)
  BY <1>1 DEF Placed
<1>3. ASSUME NEW id PROVE Confirmed(id, n)' <=> Confirmed(id, n)
  BY <1>1 DEF Confirmed, IsConfirm
<1>4. ASSUME NEW id PROVE Responded(id, n)' <=> Responded(id, n)
  BY <1>1 DEF Responded, IsResponse
<1>5. ASSUME NEW id PROVE Finished(id, n)' <=> Finished(id, n)
  BY <1>1 DEF Finished, IsResponse
<1>6. ASSUME NEW id PROVE Completed(id, n)' <=> Completed(id, n)
  BY <1>1 DEF Completed, IsCompletion
<1> QED BY <1>2, <1>3, <1>4, <1>5, <1>6

LEMMA MayKept ==
  ASSUME TypeOK, Grows, NEW n \in 0..Len(chain), NEW id, NEW t
  PROVE  /\ MayAccept(id, n, t) => MayAccept(id, n, t)'
         /\ \A f : MayComplete(id, f, n, t) => MayComplete(id, f, n, t)'
<1>1. \A k \in 1..n : chain'[k] = chain[k]
  BY DEF Grows, TypeOK
<1>2. MayAccept(id, n, t) => MayAccept(id, n, t)'
  BY <1>1, FactsKept DEF MayAccept, IsPlace
<1>3. ASSUME NEW f PROVE MayComplete(id, f, n, t) => MayComplete(id, f, n, t)'
  BY <1>1, FactsKept DEF MayComplete, IsPlace, IsConfirm, IsResponse
<1> QED BY <1>2, <1>3

LEMMA LegalKept ==
  ASSUME TypeOK, Grows, NEW i \in 1..Len(chain), Legal(i)
  PROVE  Legal(i)'
<1>0. /\ chain'[i] = chain[i] /\ Len(chain) \in Nat
      /\ \A k \in 1..i : chain'[k] = chain[k]
      /\ i - 1 \in 0..Len(chain) /\ i > 1 => i - 2 \in 0..Len(chain)
  BY DEF Grows, TypeOK
<1>1. ASSUME NEW n \in 0..Len(chain), NEW id, NEW t, MayAccept(id, n, t)
      PROVE  MayAccept(id, n, t)'
  BY <1>1, MayKept
<1>2. ASSUME NEW n \in 0..Len(chain), NEW id, NEW f, NEW t, MayComplete(id, f, n, t)
      PROVE  MayComplete(id, f, n, t)'
  BY <1>2, MayKept
<1>3. PICK m, e : m = i - 1 /\ e = chain[i] /\ m \in 0..Len(chain)
  BY <1>0
<1>4. LegalConfirm(i)'
  <2>1. LegalConfirm(i) /\ chain'[i] = e /\ chain[i] = e
    BY <1>0, <1>3 DEF Legal
  <2>2. \A id : MayAccept(id, m, e.timestamp) => MayAccept(id, m, e.timestamp)'
    BY <1>1, <1>3
  <2>3. e.update = "ConfirmRequestReceipt" => \A id \in e.ids : MayAccept(id, m, e.timestamp)
    BY <1>3, <2>1 DEF LegalConfirm
  <2>4. e.update = "ConfirmRequestReceipt" => \A id \in e.ids : MayAccept(id, m, e.timestamp)'
    BY <2>2, <2>3
  <2> QED BY <1>3, <2>1, <2>4 DEF LegalConfirm
<1>5. LegalResponse(i)'
  <2>1. Confirmed(e.id, m) => Confirmed(e.id, m)'
    BY <1>3, FactsKept
  <2>2. LegalResponse(i) /\ chain'[i] = e /\ chain[i] = e
    BY <1>0, <1>3 DEF Legal
  <2> QED BY <1>3, <2>1, <2>2 DEF LegalResponse
<1>6. LegalCompletion(i)'
  <2>1. ASSUME SecondCopy(i) PROVE SecondCopy(i)'
    <3>1. /\ i > 1 /\ e = chain[i - 1] /\ e.fashion = "Fulfilled"
          /\ MayComplete(e.id, "Fulfilled", i - 2, e.timestamp)
      BY <1>3, <2>1 DEF SecondCopy
    <3>2. chain'[i] = e /\ chain'[i - 1] = e
      BY <1>0, <1>3, <3>1
    <3>3. MayComplete(e.id, "Fulfilled", i - 2, e.timestamp)'
      BY <1>0, <1>2, <3>1
    <3> QED BY <3>1, <3>2, <3>3 DEF SecondCopy
  <2> QED BY <1>0, <1>2, <2>1 DEF Legal, LegalCompletion
<1>7. InOrder(i)'
  BY <1>0 DEF Legal, InOrder
<1> QED BY <1>4, <1>5, <1>6, <1>7 DEF Legal

LEMMA TellsKept ==
  ASSUME TypeOK, Grows, NEW n \in Nat, NEW s, Tells(n, s)
  PROVE  Tells(n, s)'
<1>1. n \in 0..Len(chain) /\ n <= Len(chain') /\ \A k \in 1..n : chain'[k] = chain[k]
  BY DEF Tells, Grows, TypeOK
<1>2. ASSUME NEW id, NEW r, Waits(n, id, r) PROVE Waits(n, id, r)'
  BY <1>1, <1>2, FactsKept DEF Waits, IsPlace
<1>3. ASSUME NEW id, NEW r, IsHandled(n, id, r) PROVE IsHandled(n, id, r)'
  BY <1>1, <1>3, FactsKept DEF IsHandled, IsConfirm, IsResponse
<1> QED BY <1>1, <1>2, <1>3 DEF Tells

-----------------------------------------------------------------------------
(* The facts about a request as a program reads on.                         *)

LEMMA FactsGrow ==
  ASSUME NEW m \in Nat, NEW n \in Nat, m <= n
  PROVE  \A id : /\ Placed(id, m) => Placed(id, n)
                 /\ Confirmed(id, m) => Confirmed(id, n)
                 /\ Responded(id, m) => Responded(id, n)
                 /\ Finished(id, m) => Finished(id, n)
                 /\ Completed(id, m) => Completed(id, n)
<1>1. 1..m \subseteq 1..n
  OBVIOUS
<1> QED BY <1>1 DEF Placed, Confirmed, Responded, Finished, Completed

LEMMA NextFacts ==
  ASSUME NEW n \in Nat
  PROVE  \A id :
           /\ Placed(id, n + 1) <=> Placed(id, n) \/ IsPlace(n + 1, id)
           /\ Confirmed(id, n + 1) <=> Confirmed(id, n) \/ IsConfirm(n + 1, id)
           /\ Responded(id, n + 1) <=> Responded(id, n) \/ IsResponse(n + 1, id)
           /\ Finished(id, n + 1) <=>
                Finished(id, n) \/ (IsResponse(n + 1, id) /\ chain[n + 1].isFinalResponse)
           /\ Completed(id, n + 1) <=> Completed(id, n) \/ IsCompletion(n + 1, id)
<1>1. \A i : i \in 1..(n + 1) <=> i \in 1..n \/ i = n + 1
  OBVIOUS
<1>2. ASSUME NEW id PROVE Placed(id, n + 1) <=> Placed(id, n) \/ IsPlace(n + 1, id)
  BY <1>1 DEF Placed, IsPlace
<1>3. ASSUME NEW id PROVE Confirmed(id, n + 1) <=> Confirmed(id, n) \/ IsConfirm(n + 1, id)
  BY <1>1 DEF Confirmed
<1>4. ASSUME NEW id PROVE Responded(id, n + 1) <=> Responded(id, n) \/ IsResponse(n + 1, id)
  BY <1>1 DEF Responded
<1>5. ASSUME NEW id
      PROVE  Finished(id, n + 1) <=>
               Finished(id, n) \/ (IsResponse(n + 1, id) /\ chain[n + 1].isFinalResponse)
  BY <1>1 DEF Finished
<1>6. ASSUME NEW id PROVE Completed(id, n + 1) <=> Completed(id, n) \/ IsCompletion(n + 1, id)
  BY <1>1 DEF Completed
<1> QED BY <1>2, <1>3, <1>4, <1>5, <1>6

\* Nothing is confirmed or completed before it is placed, nor answered before
\* it is confirmed.
LEMMA FirstThings ==
  ASSUME TypeOK, History, NEW n \in 0..Len(chain)
  PROVE  \A id : /\ Confirmed(id, n) => Placed(id, n)
                 /\ Responded(id, n) => Confirmed(id, n)
                 /\ Finished(id, n) => Responded(id, n)
                 /\ Completed(id, n) => Placed(id, n)
<1>0. n \in Nat /\ \A i \in 1..n : i \in 1..Len(chain) /\ i - 1 \in Nat /\ i - 1 <= n
  BY DEF TypeOK
<1>1. ASSUME NEW id, Confirmed(id, n) PROVE Placed(id, n)
  <2>1. PICK i \in 1..n : IsConfirm(i, id)
    BY <1>1 DEF Confirmed
  <2>2. Placed(id, i - 1)
    BY <1>0, <2>1 DEF History, Legal, LegalConfirm, MayAccept, IsConfirm
  <2> QED BY <1>0, <2>2, FactsGrow
<1>2. ASSUME NEW id, Responded(id, n) PROVE Confirmed(id, n)
  <2>1. PICK i \in 1..n : IsResponse(i, id)
    BY <1>2 DEF Responded
  <2>2. Confirmed(id, i - 1)
    BY <1>0, <2>1 DEF History, Legal, LegalResponse, IsResponse
  <2> QED BY <1>0, <2>2, FactsGrow
<1>3. ASSUME NEW id, Finished(id, n) PROVE Responded(id, n)
  BY <1>3 DEF Finished, Responded
<1>4. ASSUME NEW id, Completed(id, n) PROVE Placed(id, n)
  <2>1. PICK i \in 1..n : IsCompletion(i, id)
    BY <1>4 DEF Completed
  <2>2. Placed(id, i - 1) \/ (i > 1 /\ Placed(id, i - 2))
    BY <1>0, <2>1 DEF History, Legal, LegalCompletion, SecondCopy, MayComplete, IsCompletion
  <2>3. i > 1 => i - 2 \in Nat /\ i - 2 <= n
    BY <1>0
  <2> QED BY <1>0, <2>2, <2>3, FactsGrow
<1> QED BY <1>1, <1>2, <1>3, <1>4

\* A request that is placed by entry n + 1 is new.
LEMMA PlacedAnew ==
  ASSUME TypeOK, UniqueIds, History, NEW n \in Nat, n < Len(chain), NEW id, IsPlace(n + 1, id)
  PROVE  ~ Placed(id, n) /\ ~ Confirmed(id, n) /\ ~ Responded(id, n) /\ ~ Completed(id, n)
<1>1. n \in 0..Len(chain) /\ n + 1 \in 1..Len(chain)
  BY DEF TypeOK
<1>2. ~ Placed(id, n)
  <2> SUFFICES ASSUME NEW i \in 1..n, IsPlace(i, id) PROVE FALSE
    BY DEF Placed, IsPlace
  <2> QED BY <1>1 DEF UniqueIds, IsPlace
<1> QED BY <1>1, <1>2, FirstThings

LEMMA WaitsOn ==
  ASSUME NEW n \in Nat, NEW id, NEW r, Waits(n, id, r),
         ~ IsConfirm(n + 1, id), ~ IsCompletion(n + 1, id)
  PROVE  Waits(n + 1, id, r)
<1>1. 1..n \subseteq 1..(n + 1)
  OBVIOUS
<1> QED BY <1>1, NextFacts DEF Waits

LEMMA HandledOn ==
  ASSUME NEW n \in Nat, NEW id, NEW r, IsHandled(n, id, r),
         ~ IsResponse(n + 1, id), ~ IsCompletion(n + 1, id)
  PROVE  IsHandled(n + 1, id, r)
<1>1. \A i : i \in 1..(n + 1) <=> i \in 1..n \/ i = n + 1
  OBVIOUS
<1> QED BY <1>1, NextFacts DEF IsHandled

-----------------------------------------------------------------------------
(* Folding the next entry into a state that tells the truth.                *)

LEMMA ReadPlace ==
  ASSUME TypeOK, UniqueIds, History, NEW c \in Calculators, NEW n \in Nat, n < Len(chain),
         NEW s, Tells(n, s), chain[n + 1].update = "PlaceRequest"
  PROVE  Tells(n + 1, FoldPlace(c, s, chain[n + 1]))
<1> DEFINE e == chain[n + 1]
           new == s.newlyPlacedRequests
           handled == s.requestsBeingHandled
           r == [placedTimestamp |-> e.timestamp, acceptedTimestamp |-> 0,
                 latestResponseTimestamp |-> 0, finalResponseReceived |-> FALSE,
                 requestValue |-> e.value]
<1>1. \A id : ~ IsConfirm(n + 1, id) /\ ~ IsCompletion(n + 1, id) /\ ~ IsResponse(n + 1, id)
  BY DEF IsConfirm, IsCompletion, IsResponse
<1>2. \A id \in DOMAIN new : Waits(n + 1, id, new[id])
  BY <1>1, WaitsOn DEF Tells
<1>3. \A id \in DOMAIN handled : IsHandled(n + 1, id, handled[id])
  BY <1>1, HandledOn DEF Tells
<1>4. Waits(n + 1, e.id, r)
  <2>1. IsPlace(n + 1, e.id)
    BY DEF IsPlace
  <2>2. ~ Confirmed(e.id, n + 1) /\ ~ Completed(e.id, n + 1)
    BY <1>1, <2>1, PlacedAnew, NextFacts
  <2>3. n + 1 \in 1..(n + 1)
    OBVIOUS
  <2> QED BY <2>1, <2>2, <2>3 DEF Waits
<1>5. n + 1 <= Len(chain)
  BY DEF TypeOK
<1>6. CASE e.group \notin useTheseGroups[c]
  BY <1>2, <1>3, <1>5, <1>6 DEF Tells, FoldPlace
<1>7. CASE e.group \in useTheseGroups[c]
  <2> DEFINE m == Insert(new, [k \in {e.id} |-> r])
  <2>1. DOMAIN m = DOMAIN new \cup {e.id}
    BY DEF Insert
  <2>2. \A id \in DOMAIN m : m[id] = IF id \in DOMAIN new THEN new[id] ELSE r
    BY DEF Insert
  <2>3. \A id \in DOMAIN m : Waits(n + 1, id, m[id])
    BY <1>2, <1>4, <2>1, <2>2
  <2>4. FoldPlace(c, s, e) = [s EXCEPT !.newlyPlacedRequests = m]
    BY <1>7 DEF FoldPlace
  <2> HIDE DEF m, r
  <2>5. \A id \in DOMAIN FoldPlace(c, s, e).newlyPlacedRequests :
          Waits(n + 1, id, FoldPlace(c, s, e).newlyPlacedRequests[id])
    BY <2>3, <2>4
  <2> QED BY <2>4, <1>3, <2>3, <1>5 DEF Tells
<1> QED BY <1>6, <1>7

LEMMA ReadConfirm ==
  ASSUME TypeOK, History, NEW n \in Nat, n < Len(chain), NEW s, IsCalcState(s), Tells(n, s),
         chain[n + 1].update = "ConfirmRequestReceipt"
  PROVE  Tells(n + 1, FoldConfirm(s, chain[n + 1]))
<1> DEFINE e == chain[n + 1]
           new == s.newlyPlacedRequests
           handled == s.requestsBeingHandled
           moved == e.ids \cap DOMAIN new
           rest == Erase(new, moved)
           at == [k \in moved |-> [new[k] EXCEPT !.acceptedTimestamp = e.timestamp]]
           m == Insert(handled, at)
<1>0. n \in 0..Len(chain) /\ n + 1 \in 1..Len(chain)
  BY DEF TypeOK
<1>1. /\ \A id : ~ IsCompletion(n + 1, id) /\ ~ IsResponse(n + 1, id)
      /\ \A id : IsConfirm(n + 1, id) <=> id \in e.ids
  BY DEF IsConfirm, IsCompletion, IsResponse
<1>2. \A id \in DOMAIN rest : Waits(n + 1, id, rest[id])
  BY <1>1, WaitsOn DEF Tells, Erase
<1>3. \A id \in DOMAIN handled : IsHandled(n + 1, id, handled[id])
  BY <1>1, HandledOn DEF Tells
<1>4. ASSUME NEW id \in moved PROVE IsHandled(n + 1, id, at[id])
  <2>1. /\ Waits(n, id, new[id]) /\ IsConfirm(n + 1, id)
        /\ ~ Responded(id, n) /\ ~ Finished(id, n)
    BY <1>0, <1>1, FirstThings DEF Tells, Waits
  <2>2. ~ Completed(id, n + 1) /\ ~ Responded(id, n + 1) /\ ~ Finished(id, n + 1)
    BY <1>1, <2>1, NextFacts DEF Waits
  <2>3. /\ new[id] \in Request
        /\ at[id].acceptedTimestamp = e.timestamp
        /\ at[id].latestResponseTimestamp = new[id].latestResponseTimestamp
        /\ at[id].finalResponseReceived = new[id].finalResponseReceived
    BY DEF IsCalcState, IsRequestMap, Request
  <2>4. \A i \in 1..(n + 1) : ~ IsResponse(i, id)
    BY <2>2 DEF Responded
  <2>5. n + 1 \in 1..(n + 1)
    OBVIOUS
  <2> HIDE DEF at
  <2> QED BY <2>1, <2>2, <2>3, <2>4, <2>5 DEF IsHandled, Waits
<1>5. /\ DOMAIN m = DOMAIN handled \cup moved
      /\ \A id \in DOMAIN m : m[id] = IF id \in DOMAIN handled THEN handled[id] ELSE at[id]
  BY DEF Insert
<1>6. FoldConfirm(s, e) = [newlyPlacedRequests |-> rest, requestsBeingHandled |-> m]
  BY DEF FoldConfirm
<1> HIDE DEF rest, at, m
<1> QED BY <1>0, <1>2, <1>3, <1>4, <1>5, <1>6 DEF Tells

LEMMA ReadRespond ==
  ASSUME TypeOK, History, Clocked, NEW n \in Nat, n < Len(chain),
         NEW s, IsCalcState(s), Tells(n, s), chain[n + 1].update = "RespondToRequest"
  PROVE  Tells(n + 1, FoldRespond(s, chain[n + 1]))
<1> DEFINE e == chain[n + 1]
           new == s.newlyPlacedRequests
           handled == s.requestsBeingHandled
<1>0. /\ n \in 0..Len(chain) /\ n + 1 \in 1..Len(chain) /\ e \in Entry
      /\ e.timestamp \in Nat /\ e.isFinalResponse \in BOOLEAN
  BY DEF TypeOK, Entry
<1>1. /\ \A id : ~ IsCompletion(n + 1, id) /\ ~ IsConfirm(n + 1, id)
      /\ \A id : IsResponse(n + 1, id) <=> id = e.id
  BY DEF IsConfirm, IsCompletion, IsResponse
<1>2. \A id \in DOMAIN new : Waits(n + 1, id, new[id])
  BY <1>1, WaitsOn DEF Tells
<1>3. \A id \in DOMAIN handled : id # e.id => IsHandled(n + 1, id, handled[id])
  BY <1>1, HandledOn DEF Tells
<1>4. ASSUME e.id \in DOMAIN handled PROVE IsHandled(n + 1, e.id, Answered(handled[e.id], e))
  <2> DEFINE id == e.id
             old == handled[id]
             r == Answered(old, e)
  <2>1. IsHandled(n, id, old) /\ old \in Request
    BY <1>4 DEF Tells, IsCalcState, IsRequestMap
  <2>2. /\ r.acceptedTimestamp = old.acceptedTimestamp
        /\ r.latestResponseTimestamp = e.timestamp
        /\ r.finalResponseReceived <=> old.finalResponseReceived \/ e.isFinalResponse
    BY <2>1 DEF Answered, Request
  <2>3. \A i \in 1..(n + 1) : chain[i].timestamp <= e.timestamp
    BY <1>0 DEF History, Legal, InOrder
  <2>4. e.timestamp # 0
    BY <1>0 DEF Clocked
  <2>5. /\ ~ Completed(id, n + 1) /\ Responded(id, n + 1)
        /\ Finished(id, n + 1) <=> Finished(id, n) \/ e.isFinalResponse
    BY <1>1, <2>1, NextFacts DEF IsHandled
  <2>6. 1..n \subseteq 1..(n + 1)
    OBVIOUS
  <2> HIDE DEF r
  <2> QED BY <2>1, <2>2, <2>3, <2>4, <2>5, <2>6 DEF IsHandled, r
<1>5. CASE e.id \notin DOMAIN handled
  BY <1>0, <1>2, <1>3, <1>5 DEF Tells, FoldRespond
<1>6. CASE e.id \in DOMAIN handled
  <2> DEFINE m == [handled EXCEPT ![e.id] = Answered(handled[e.id], e)]
  <2>1. /\ DOMAIN m = DOMAIN handled
        /\ \A id \in DOMAIN m :
             m[id] = IF id = e.id THEN Answered(handled[e.id], e) ELSE handled[id]
    BY <1>6
  <2>2. FoldRespond(s, e) = [s EXCEPT !.requestsBeingHandled = m]
    BY <1>6 DEF FoldRespond
  <2> HIDE DEF m
  <2>3. s = [newlyPlacedRequests |-> new, requestsBeingHandled |-> handled]
    BY DEF IsCalcState
  <2>4. FoldRespond(s, e) = [newlyPlacedRequests |-> new, requestsBeingHandled |-> m]
    BY <2>2, <2>3
  <2>5. \A id \in DOMAIN m : IsHandled(n + 1, id, m[id])
    BY <1>3, <1>4, <1>6, <2>1
  <2> QED BY <1>0, <1>2, <2>4, <2>5 DEF Tells
<1> QED BY <1>5, <1>6

LEMMA ReadComplete ==
  ASSUME TypeOK, NEW n \in Nat, n < Len(chain), NEW s, Tells(n, s),
         chain[n + 1].update = "RequestCompleted"
  PROVE  Tells(n + 1, FoldComplete(s, chain[n + 1]))
<1> DEFINE e == chain[n + 1]
           new == s.newlyPlacedRequests
           handled == s.requestsBeingHandled
<1>1. \A id : /\ ~ IsResponse(n + 1, id) /\ ~ IsConfirm(n + 1, id)
              /\ IsCompletion(n + 1, id) <=> id = e.id
  BY DEF IsConfirm, IsCompletion, IsResponse
<1>2. \A id \in DOMAIN new \ {e.id} : Waits(n + 1, id, new[id])
  BY <1>1, WaitsOn DEF Tells
<1>3. \A id \in DOMAIN handled \ {e.id} : IsHandled(n + 1, id, handled[id])
  BY <1>1, HandledOn DEF Tells
<1>4. n + 1 <= Len(chain)
  BY DEF TypeOK
<1> QED BY <1>2, <1>3, <1>4 DEF Tells, FoldComplete, Erase

LEMMA ReadTells ==
  ASSUME TypeOK, UniqueIds, History, Clocked, NEW c \in Calculators, NEW n \in Nat,
         n < Len(chain), NEW s, IsCalcState(s), Tells(n, s)
  PROVE  Tells(n + 1, FoldCalc(c, s, chain[n + 1]))
<1>1. chain[n + 1].update \in {"PlaceRequest", "ConfirmRequestReceipt", "RespondToRequest",
                               "RequestCompleted"}
  <2>1. chain[n + 1] \in Entry
    BY DEF TypeOK
  <2> QED BY <2>1 DEF Entry
<1> QED BY <1>1, ReadPlace, ReadConfirm, ReadRespond, ReadComplete DEF FoldCalc

-----------------------------------------------------------------------------
(* What a step does to the chain and to the states of programs.             *)

LEMMA StepGrows ==
  ASSUME ConstantsAssumption, TypeOK, [Next]_vars
  PROVE  /\ chain' = chain \/ \E w \in Writers : AppendBatch(w)
         /\ Grows /\ now <= now' /\ now \in Nat /\ now' \in Nat
<1>0. now \in Nat /\ chain \in Seq(Entry) /\ pending \in [Writers -> Seq(Entry)]
  BY DEF TypeOK
<1>1. now' = now \/ now' = now + 1
  BY DEF Next, Tick, WriterStep, ReadNext, AppendBatch, AppendFails, SaveStep, StartSave,
     FinishSave, PlacerStep, HandleInput, OneShotWrite, CrashMain, CalculatorStep, IdleWork,
     Accept, TimeOutUnaccepted, CloseHandled, PutResult, CalculateResult, CrashCalc,
     Propose, vars
<1>2. chain' = chain \/ \E w \in Writers : AppendBatch(w)
  BY DEF Next, Tick, WriterStep, ReadNext, AppendFails, SaveStep, StartSave,
     FinishSave, PlacerStep, HandleInput, OneShotWrite, CrashMain, CalculatorStep, IdleWork,
     Accept, TimeOutUnaccepted, CloseHandled, PutResult, CalculateResult, CrashCalc,
     Propose, vars
<1>3. CASE chain' = chain
  BY <1>0, <1>1, <1>2, <1>3 DEF Grows
<1>4. ASSUME NEW w \in Writers, AppendBatch(w) PROVE Grows
  <2>1. chain' = chain \o pending[w]
    BY <1>4 DEF AppendBatch
  <2> QED BY <1>0, <2>1 DEF Grows
<1> QED BY <1>0, <1>1, <1>2, <1>3, <1>4

\* where the states of calculators come from
CalculatorStates ==
  /\ \A c \in Calculators :
       \/ pos'[c] = pos[c] /\ calc'[c] = calc[c]
       \/ pos'[c] = savedCalc.at /\ calc'[c] = savedCalc.state
       \/ /\ pos[c] < Len(chain) /\ pos'[c] = pos[c] + 1
          /\ calc'[c] = FoldCalc(c, calc[c], chain[pos[c] + 1])
  /\ \A c \in Calculators : \A s \in saving'[c] :
       s \in saving[c] \/ (SupportsExtraData /\ s = [at |-> pos[c], state |-> calc[c]])
  /\ savedCalc' = savedCalc \/ \E c \in Calculators : savedCalc' \in saving[c]

\* the same of main programs and tools
PlacerStates ==
  /\ \A p \in Placers :
       \/ pos'[p] = pos[p] /\ main'[p] = main[p]
       \/ pos'[p] = savedMain.at /\ main'[p] = savedMain.state
       \/ /\ pos[p] < Len(chain) /\ pos'[p] = pos[p] + 1
          /\ main'[p] = FoldMain(main[p], chain[pos[p] + 1])
  /\ \A p \in Placers : \A s \in saving'[p] :
       s \in saving[p] \/ s = [at |-> pos[p], state |-> main[p]]
  /\ savedMain' = savedMain \/ \E p \in Placers : savedMain' \in saving[p]

LEMMA StepStates ==
  ASSUME ConstantsAssumption, TypeOK, [Next]_vars
  PROVE  CalculatorStates /\ PlacerStates
<1>0. /\ Placers \subseteq Writers /\ Calculators \subseteq Writers
      /\ \A p \in Placers : p \notin Calculators
      /\ Writers = Placers \cup Calculators
  BY DEF Writers, ConstantsAssumption
<1>t. /\ pos = [w \in Writers |-> pos[w]] /\ main = [p \in Placers |-> main[p]]
      /\ calc = [c \in Calculators |-> calc[c]] /\ saving = [w \in Writers |-> saving[w]]
  BY DEF TypeOK
<1>1. ASSUME UNCHANGED <<pos, main, calc, saving, savedMain, savedCalc>>
      PROVE  CalculatorStates /\ PlacerStates
  BY <1>1 DEF CalculatorStates, PlacerStates
<1>2. ASSUME NEW w \in Writers, ReadNext(w) PROVE CalculatorStates /\ PlacerStates
  <2>1. /\ pos[w] < Len(chain) /\ pos' = [pos EXCEPT ![w] = @ + 1]
        /\ main' = IF w \in Placers
                   THEN [main EXCEPT ![w] = FoldMain(@, chain[pos[w] + 1])] ELSE main
        /\ calc' = IF w \in Calculators
                   THEN [calc EXCEPT ![w] = FoldCalc(w, @, chain[pos[w] + 1])] ELSE calc
        /\ UNCHANGED <<saving, savedMain, savedCalc>>
    BY <1>2 DEF ReadNext, saved
  <2>2. CalculatorStates
    BY <1>0, <1>t, <2>1 DEF CalculatorStates
  <2>3. PlacerStates
    BY <1>0, <1>t, <2>1 DEF PlacerStates
  <2> QED BY <2>2, <2>3
<1>3. ASSUME NEW w \in Writers, StartSave(w) PROVE CalculatorStates /\ PlacerStates
  <2>1. /\ saving' = [saving EXCEPT ![w] = @ \cup {Snapshot(w)}] /\ SupportsExtraData
        /\ UNCHANGED <<pos, main, calc, savedMain, savedCalc>>
    BY <1>3 DEF StartSave
  <2>2. \A x \in Writers : \A s \in saving'[x] : s \in saving[x] \/ (x = w /\ s = Snapshot(w))
    BY <1>t, <2>1
  <2> QED BY <1>0, <2>1, <2>2 DEF CalculatorStates, PlacerStates, Snapshot
<1>4. ASSUME NEW w \in Writers, FinishSave(w) PROVE CalculatorStates /\ PlacerStates
  <2>1. PICK s \in saving[w] :
          /\ saving' = [saving EXCEPT ![w] = @ \ {s}]
          /\ savedMain' = IF w \in Placers THEN s ELSE savedMain
          /\ savedCalc' = IF w \in Placers THEN savedCalc ELSE s
          /\ UNCHANGED <<pos, main, calc>>
    BY <1>4 DEF FinishSave
  <2>2. \A x \in Writers : saving'[x] \subseteq saving[x]
    BY <1>t, <2>1
  <2> QED BY <1>0, <2>1, <2>2 DEF CalculatorStates, PlacerStates
<1>5. ASSUME NEW p \in Placers, CrashMain(p) PROVE CalculatorStates /\ PlacerStates
  <2>1. /\ main' = [main EXCEPT ![p] = savedMain.state]
        /\ pos' = [pos EXCEPT ![p] = savedMain.at]
        /\ saving' = [saving EXCEPT ![p] = {}]
        /\ UNCHANGED <<calc, savedMain, savedCalc>>
    BY <1>5 DEF CrashMain
  <2> QED BY <1>0, <1>t, <2>1 DEF CalculatorStates, PlacerStates
<1>6. ASSUME NEW c \in Calculators, CrashCalc(c) PROVE CalculatorStates /\ PlacerStates
  <2>1. /\ calc' = [calc EXCEPT ![c] = savedCalc.state]
        /\ pos' = [pos EXCEPT ![c] = savedCalc.at]
        /\ saving' = [saving EXCEPT ![c] = {}]
        /\ UNCHANGED <<main, savedMain, savedCalc>>
    BY <1>6 DEF CrashCalc
  <2> QED BY <1>0, <1>t, <2>1 DEF CalculatorStates, PlacerStates
<1>7. CASE Tick \/ UNCHANGED vars
  BY <1>1, <1>7 DEF Tick, vars, saved
<1>8. ASSUME NEW w \in Writers, AppendBatch(w) \/ AppendFails(w)
      PROVE  CalculatorStates /\ PlacerStates
  BY <1>1, <1>8 DEF AppendBatch, AppendFails, saved
<1>9. ASSUME NEW p \in Placers, HandleInput(p) \/ OneShotWrite(p)
      PROVE  CalculatorStates /\ PlacerStates
  BY <1>1, <1>9 DEF HandleInput, OneShotWrite, Propose, saved
<1>10. ASSUME NEW c \in Calculators, IdleWork(c) \/ PutResult(c) \/ CalculateResult(c)
       PROVE  CalculatorStates /\ PlacerStates
  BY <1>1, <1>10 DEF IdleWork, Accept, TimeOutUnaccepted, CloseHandled, PutResult,
     CalculateResult, Propose, saved
<1> QED BY <1>2, <1>3, <1>4, <1>5, <1>6, <1>7, <1>8, <1>9, <1>10
        DEF Next, WriterStep, SaveStep, PlacerStep, CalculatorStep

LEMMA TellsStep ==
  ASSUME ConstantsAssumption, HistoryInv, [Next]_vars
  PROVE  CalculatorsTell'
<1>0. /\ TypeOK /\ UniqueIds /\ History /\ Clocked /\ CalculatorsTell
      /\ Grows /\ CalculatorStates
      /\ \A c \in Calculators : pos[c] \in Nat /\ IsCalcState(calc[c])
                                /\ \A s \in saving[c] : s.at \in Nat
      /\ savedCalc.at \in Nat
  BY StepGrows, StepStates DEF HistoryInv, IdsInv, TypeInv, TypeOK, IsCalcSnapshot, Writers
<1>1. ASSUME NEW n \in Nat, NEW s, Tells(n, s) PROVE Tells(n, s)'
  BY <1>0, <1>1, TellsKept
<1>2. ASSUME NEW c \in Calculators PROVE Tells(pos[c], calc[c])'
  <2>1. PICK n, s : n \in Nat /\ n = pos'[c] /\ s = calc'[c] /\ Tells(n, s)
    <3>1. CASE pos'[c] = pos[c] /\ calc'[c] = calc[c]
      BY <1>0, <3>1 DEF CalculatorsTell
    <3>2. CASE pos'[c] = savedCalc.at /\ calc'[c] = savedCalc.state
      BY <1>0, <3>2 DEF CalculatorsTell
    <3>3. CASE /\ pos[c] < Len(chain) /\ pos'[c] = pos[c] + 1
               /\ calc'[c] = FoldCalc(c, calc[c], chain[pos[c] + 1])
      <4>1. Tells(pos[c], calc[c])
        BY <1>0 DEF CalculatorsTell
      <4>2. Tells(pos[c] + 1, FoldCalc(c, calc[c], chain[pos[c] + 1]))
        BY <1>0, <3>3, <4>1, ReadTells
      <4> QED BY <1>0, <3>3, <4>2
    <3> QED BY <1>0, <3>1, <3>2, <3>3 DEF CalculatorStates
  <2>2. Tells(n, s)'
    BY <1>1, <2>1
  <2> QED BY <2>1, <2>2
<1>3. ASSUME NEW c \in Calculators, NEW s \in saving'[c] PROVE Tells(s.at, s.state)'
  <2>1. s.at \in Nat /\ Tells(s.at, s.state)
    BY <1>0 DEF CalculatorStates, CalculatorsTell
  <2> QED BY <1>1, <2>1
<1>4. Tells(savedCalc.at, savedCalc.state)'
  <2>1. PICK s : savedCalc' = s /\ s.at \in Nat /\ Tells(s.at, s.state)
    BY <1>0 DEF CalculatorStates, CalculatorsTell
  <2>2. Tells(s.at, s.state)'
    BY <1>1, <2>1
  <2> QED BY <2>1, <2>2
<1> QED BY <1>2, <1>3, <1>4 DEF CalculatorsTell

-----------------------------------------------------------------------------
(* A batch that fits the state of a calculator at the end of the chain may  *)
(* be appended.                                                             *)

LEMMA ConfirmOnlyOnce ==
  ASSUME TypeOK, History, NEW i \in 1..Len(chain), NEW k \in 1..Len(chain), NEW id,
         IsConfirm(i, id), IsConfirm(k, id)
  PROVE  i = k
<1>0. Len(chain) \in Nat
  BY DEF TypeOK
<1>1. ASSUME NEW a \in 1..Len(chain), NEW b \in 1..Len(chain), IsConfirm(a, id),
             IsConfirm(b, id), a < b
      PROVE  FALSE
  <2>1. ~ Confirmed(id, b - 1)
    BY <1>1 DEF History, Legal, LegalConfirm, MayAccept, IsConfirm
  <2>2. a \in 1..(b - 1)
    BY <1>0, <1>1
  <2> QED BY <1>1, <2>1, <2>2 DEF Confirmed
<1> QED BY <1>0, <1>1

LEMMA WaitingMay ==
  ASSUME ConstantsAssumption, TypeOK, UniqueIds, NEW n \in 0..Len(chain), NEW id,
         NEW r \in Request, Waits(n, id, r), NEW t \in Nat
  PROVE  /\ t <= r.placedTimestamp + AcceptWindow => MayAccept(id, n, t)
         /\ r.placedTimestamp + AcceptWindow < t
              => MayComplete(id, "TimeoutBeforeAcceptance", n, t)
<1>1. PICK i \in 1..n : IsPlace(i, id) /\ chain[i].timestamp = r.placedTimestamp
  BY DEF Waits
<1>2. \A k \in 1..n : IsPlace(k, id) => k = i
  BY <1>1 DEF UniqueIds, IsPlace, TypeOK
<1>3. Placed(id, n) /\ ~ Confirmed(id, n) /\ ~ Completed(id, n)
  BY <1>1 DEF Placed, Waits, IsPlace
<1> QED BY <1>1, <1>2, <1>3 DEF MayAccept, MayComplete

LEMMA HandledMay ==
  ASSUME ConstantsAssumption, TypeOK, History, NEW n \in 0..Len(chain), NEW id,
         NEW r \in Request, IsHandled(n, id, r), NEW t \in Nat, NEW f, MayCloseAt(r, f, t)
  PROVE  MayComplete(id, f, n, t) /\ f # "TimeoutBeforeAcceptance"
<1>0. /\ n \in Nat /\ 1..n \subseteq 1..Len(chain)
      /\ r.latestResponseTimestamp \in Nat /\ r.acceptedTimestamp \in Nat
      /\ r.finalResponseReceived \in BOOLEAN /\ ResponseWindow \in Nat
      /\ \A k \in 1..n : chain[k].timestamp \in Nat
  <2>1. \A k \in 1..Len(chain) : chain[k] \in Entry
    BY DEF TypeOK
  <2>2. \A k \in 1..Len(chain) : chain[k].timestamp \in Nat
    BY <2>1 DEF Entry
  <2>3. Len(chain) \in Nat
    BY DEF TypeOK
  <2>4. n \in Nat /\ 1..n \subseteq 1..Len(chain)
    BY <2>3
  <2>5. /\ r.latestResponseTimestamp \in Nat /\ r.acceptedTimestamp \in Nat
        /\ r.finalResponseReceived \in BOOLEAN
    BY DEF Request
  <2> QED BY <2>2, <2>4, <2>5 DEF ConstantsAssumption
<1>1. PICK i \in 1..n : IsConfirm(i, id) /\ chain[i].timestamp = r.acceptedTimestamp
  BY DEF IsHandled
<1>2. \A k \in 1..n : IsConfirm(k, id) => k = i
  BY <1>0, <1>1, ConfirmOnlyOnce
<1>3. Confirmed(id, n) /\ Placed(id, n) /\ ~ Completed(id, n)
  BY <1>1, FirstThings DEF Confirmed, IsHandled
<1>4. \A k \in 1..n : IsResponse(k, id) => r.acceptedTimestamp <= chain[k].timestamp
  <2> SUFFICES ASSUME NEW k \in 1..n, IsResponse(k, id)
               PROVE  r.acceptedTimestamp <= chain[k].timestamp
    OBVIOUS
  <2>1. Legal(k)
    BY <1>0 DEF History
  <2>2. Confirmed(id, k - 1)
    BY <2>1 DEF Legal, LegalResponse, IsResponse
  <2>3. PICK j \in 1..(k - 1) : IsConfirm(j, id)
    BY <2>2 DEF Confirmed
  <2>4. j = i
    BY <1>0, <1>2, <2>3
  <2> QED BY <1>1, <2>1, <2>3, <2>4 DEF Legal, InOrder
<1>5. CASE f = "Fulfilled"
  BY <1>3, <1>5 DEF MayComplete, MayCloseAt, IsHandled
<1>6. CASE f = "AcceptedThenTimeoutBeforeResponse"
  <2>1. /\ r.latestResponseTimestamp = 0 /\ ~ Responded(id, n)
        /\ r.acceptedTimestamp + ResponseWindow < t
    BY <1>6 DEF MayCloseAt, IsHandled
  <2>2. \A k \in 1..n : ~ IsResponse(k, id)
    BY <2>1 DEF Responded
  <2> QED BY <1>1, <1>2, <1>3, <1>6, <2>1, <2>2 DEF MayComplete
<1>7. CASE f = "PartiallyHandledThenTimeout"
  <2>1. /\ r.latestResponseTimestamp # 0 /\ Responded(id, n) /\ ~ Finished(id, n)
        /\ r.latestResponseTimestamp + ResponseWindow < t
    BY <1>7 DEF MayCloseAt, IsHandled
  <2>2. PICK m \in 1..n : IsResponse(m, id)
    BY <2>1 DEF Responded
  <2>3. /\ \A k \in 1..n : IsResponse(k, id) => chain[k].timestamp <= r.latestResponseTimestamp
        /\ r.acceptedTimestamp <= r.latestResponseTimestamp
    BY <1>0, <1>4, <2>2 DEF IsHandled
  <2>4. \A k \in 1..n : IsConfirm(k, id) \/ IsResponse(k, id)
                          => chain[k].timestamp + ResponseWindow < t
    BY <1>0, <1>1, <1>2, <2>1, <2>3
  <2> QED BY <1>3, <1>7, <2>1, <2>4 DEF MayComplete
<1> QED BY <1>5, <1>6, <1>7 DEF MayCloseAt

LEMMA BatchIsLegal ==
  ASSUME ConstantsAssumption, HistoryInv, NEW c \in Calculators, pending[c] # <<>>,
         pos[c] = Len(chain), NEW e \in Entry, e = pending[c][1]
  PROVE  LET n == Len(chain) IN
         /\ e.update = "ConfirmRequestReceipt" =>
              \A id \in e.ids : MayAccept(id, n, e.timestamp)
         /\ e.update = "RespondToRequest" => Confirmed(e.id, n)
         /\ e.update = "RequestCompleted" => MayComplete(e.id, e.fashion, n, e.timestamp)
<1> DEFINE n == Len(chain)
           new == calc[c].newlyPlacedRequests
           handled == calc[c].requestsBeingHandled
<1>0. /\ TypeOK /\ UniqueIds /\ History /\ n \in 0..Len(chain) /\ e.timestamp \in Nat
      /\ Tells(n, calc[c])
      /\ \A id \in DOMAIN new : new[id] \in Request
      /\ \A id \in DOMAIN handled : handled[id] \in Request
      /\ FitsConfirm(c, e) /\ FitsResponse(c, e) /\ FitsCompletion(c, e)
  <2>1. TypeOK
    BY DEF HistoryInv, IdsInv, TypeInv
  <2>2. IsCalcState(calc[c]) /\ Len(chain) \in Nat
    BY <2>1 DEF TypeOK
  <2>3. Tells(pos[c], calc[c])
    BY DEF HistoryInv, CalculatorsTell
  <2>4. BatchFits(c) /\ UniqueIds /\ History
    BY DEF HistoryInv, IdsInv, BatchesFit
  <2>5. e.timestamp \in Nat
    BY DEF Entry
  <2> QED BY <2>1, <2>2, <2>3, <2>4, <2>5 DEF IsCalcState, IsRequestMap, BatchFits
<1>1. ASSUME e.update = "ConfirmRequestReceipt", NEW id \in e.ids
      PROVE  MayAccept(id, n, e.timestamp)
  <2>1. /\ id \in DOMAIN new /\ Waits(n, id, new[id])
        /\ e.timestamp <= new[id].placedTimestamp + AcceptWindow
    BY <1>0, <1>1 DEF FitsConfirm, Tells
  <2> QED BY <1>0, <2>1, WaitingMay
<1>2. ASSUME e.update = "RespondToRequest" PROVE Confirmed(e.id, n)
  <2> DEFINE R == [id: Ids, sign: Signs]
             q == results[c]
  <2>1. q # <<>> /\ e.id = q[1].id
    BY <1>0, <1>2 DEF FitsResponse
  <2>2. q \in Seq(R)
    BY <1>0 DEF TypeOK
  <2>3. \A k \in DOMAIN q : Confirmed(q[k].id, n)
    BY DEF HistoryInv, AnswersConfirmed
  <2> HIDE DEF R, q
  <2>4. 1 \in DOMAIN q
    BY <2>1, <2>2
  <2> QED BY <2>1, <2>3, <2>4
<1>3. ASSUME e.update = "RequestCompleted" PROVE MayComplete(e.id, e.fashion, n, e.timestamp)
  <2>1. CASE /\ e.fashion = "TimeoutBeforeAcceptance"
             /\ e.id \in DOMAIN new
             /\ new[e.id].placedTimestamp + AcceptWindow < e.timestamp
    <3>1. Waits(n, e.id, new[e.id])
      BY <1>0, <2>1 DEF Tells
    <3> QED BY <1>0, <2>1, <3>1, WaitingMay
  <2>2. CASE /\ e.id \in DOMAIN handled
             /\ MayCloseAt(handled[e.id], e.fashion, e.timestamp)
    <3>1. IsHandled(n, e.id, handled[e.id])
      BY <1>0, <2>2 DEF Tells
    <3> QED BY <1>0, <2>2, <3>1, HandledMay
  <2> QED BY <1>0, <1>3, <2>1, <2>2 DEF FitsCompletion
<1> QED BY <1>1, <1>2, <1>3

LEMMA AppendLegal ==
  ASSUME ConstantsAssumption, HistoryInv, NEW w \in Writers, AppendBatch(w), Grows
  PROVE  History' /\ Clocked'
<1>0. PICK n, e, q : n = Len(chain) /\ q = pending[w] /\ e = q[1]
  OBVIOUS
<1>1. TypeOK /\ PendingCurrent /\ History /\ Clocked
  BY DEF HistoryInv, IdsInv, TypeInv
<1>2. /\ n \in Nat /\ q # <<>> /\ pos[w] = n /\ chain' = chain \o q /\ now' = now
      /\ chain \in Seq(Entry) /\ q \in Seq(Entry)
  BY <1>0, <1>1 DEF TypeOK, AppendBatch
<1>3. e \in Entry /\ Len(q) \in Nat
  BY <1>0, <1>2
<1>4. Timely(w, e)
  BY <1>0, <1>2 DEF HistoryInv, BatchesFit
<1>5. w \in Calculators => BatchFits(w)
  BY DEF HistoryInv, BatchesFit
<1>6. /\ w \notin Calculators => e.update = "PlaceRequest"
      /\ \/ q = <<e>>
         \/ q = <<e, e>> /\ e.update = "RequestCompleted" /\ e.fashion = "Fulfilled"
  <2>1. CASE w \in Calculators
    BY <1>0, <1>2, <1>5, <2>1 DEF BatchFits
  <2>2. CASE w \notin Calculators
    <3>1. Len(q) = 1 /\ e.update = "PlaceRequest"
      BY <1>0, <1>1, <1>2, <2>2 DEF PendingCurrent, PlacerPending, Writers
    <3>2. q = <<e>>
      BY <1>0, <1>2, <3>1
    <3> QED BY <2>2, <3>1, <3>2
  <2> QED BY <2>1, <2>2
<1>7. /\ e.update = "ConfirmRequestReceipt" =>
           \A id \in e.ids : MayAccept(id, n, e.timestamp)
      /\ e.update = "RespondToRequest" => Confirmed(e.id, n)
      /\ e.update = "RequestCompleted" => MayComplete(e.id, e.fashion, n, e.timestamp)
  BY <1>0, <1>2, <1>3, <1>6, BatchIsLegal
<1>8. /\ e.update = "ConfirmRequestReceipt" =>
           \A id \in e.ids : MayAccept(id, n, e.timestamp)'
      /\ e.update = "RespondToRequest" => Confirmed(e.id, n)'
      /\ e.update = "RequestCompleted" => MayComplete(e.id, e.fashion, n, e.timestamp)'
  <2>0. n \in 0..Len(chain)
    BY <1>0, <1>2
  <2>1. ASSUME NEW id, MayAccept(id, n, e.timestamp) PROVE MayAccept(id, n, e.timestamp)'
    BY <1>1, <2>0, <2>1, MayKept
  <2>2. Confirmed(e.id, n) => Confirmed(e.id, n)'
    BY <1>1, <2>0, FactsKept
  <2>3. MayComplete(e.id, e.fashion, n, e.timestamp)
          => MayComplete(e.id, e.fashion, n, e.timestamp)'
    BY <1>1, <2>0, MayKept
  <2> QED BY <1>7, <2>1, <2>2, <2>3
<1>9. /\ chain'[n + 1] = e
      /\ \A i \in 1..Len(chain') : i \in 1..n \/ i = n + 1 \/ i = n + 2
      /\ n + 2 \in 1..Len(chain') => /\ chain'[n + 2] = e /\ e.update = "RequestCompleted"
                                     /\ e.fashion = "Fulfilled"
  <2>1. /\ Len(chain') = n + Len(q) /\ Len(q) \in {1, 2}
        /\ \A k \in 1..Len(q) : chain'[n + k] = q[k] /\ q[k] = e
        /\ Len(q) = 2 => e.update = "RequestCompleted" /\ e.fashion = "Fulfilled"
    <3>1. Len(chain') = n + Len(q) /\ \A k \in 1..Len(q) : chain'[n + k] = q[k]
      BY <1>0, <1>2
    <3>2. CASE q = <<e>>
      BY <3>1, <3>2
    <3>3. CASE q = <<e, e>> /\ e.update = "RequestCompleted" /\ e.fashion = "Fulfilled"
      BY <3>1, <3>3
    <3> QED BY <1>6, <3>2, <3>3
  <2>2. 1 \in 1..Len(q) /\ (Len(q) = 2 => 2 \in 1..Len(q))
    <3>1. Len(q) = 1 \/ Len(q) = 2
      BY <2>1
    <3> QED BY <3>1
  <2>4. n \in Nat
    BY <1>2
  <2>3. chain'[n + 1] = e /\ (Len(q) = 2 => chain'[n + 2] = e)
    BY <2>1, <2>2
  <2>5. n + 2 \in 1..Len(chain') => Len(q) = 2
    BY <2>1, <2>4
  <2>6. \A i \in 1..Len(chain') : i \in 1..n \/ i = n + 1 \/ i = n + 2
    BY <2>1, <2>4
  <2> QED BY <2>1, <2>3, <2>5, <2>6
<1>10. \A i \in 1..n : chain'[i] = chain[i] /\ chain[i].timestamp <= e.timestamp
  BY <1>0, <1>2, <1>4 DEF Grows, Timely
<1>11. ASSUME NEW i \in 1..n PROVE Legal(i)'
  BY <1>0, <1>1, LegalKept DEF History
<1>e. e.timestamp \in Nat
  BY <1>3 DEF Entry
<1>12. ASSUME NEW m, m = n + 1 PROVE Legal(m)'
  <2>1. m - 1 = n /\ chain'[m] = e
    <3>1. n \in Nat
      BY <1>2
    <3>2. m - 1 = n
      BY <1>12, <3>1
    <3> QED BY <1>9, <1>12, <3>2
  <2>2. InOrder(m)'
    BY <1>10, <2>1 DEF InOrder
  <2>3. LegalConfirm(m)' /\ LegalResponse(m)' /\ LegalCompletion(m)'
    BY <1>8, <2>1 DEF LegalConfirm, LegalResponse, LegalCompletion
  <2> QED BY <2>2, <2>3 DEF Legal
<1>13. ASSUME NEW m, m = n + 2, m \in 1..Len(chain') PROVE Legal(m)'
  <2>1. /\ m - 1 = n + 1 /\ m - 2 = n /\ m > 1 /\ chain'[m] = e /\ chain'[m - 1] = e
        /\ e.update = "RequestCompleted" /\ e.fashion = "Fulfilled"
    BY <1>2, <1>9, <1>13
  <2>2. InOrder(m)'
    <3>1. \A k \in 1..(n + 1) : k \in 1..n \/ k = n + 1
      BY <1>2
    <3> QED BY <1>9, <1>10, <1>e, <2>1, <3>1 DEF InOrder
  <2>3. SecondCopy(m)'
    BY <1>8, <2>1 DEF SecondCopy
  <2>4. LegalConfirm(m)' /\ LegalResponse(m)' /\ LegalCompletion(m)'
    BY <2>1, <2>3 DEF LegalConfirm, LegalResponse, LegalCompletion
  <2> QED BY <2>2, <2>4 DEF Legal
<1>14. History'
  BY <1>9, <1>11, <1>12, <1>13 DEF History
<1>15. Clocked'
  BY <1>0, <1>1, <1>2, <1>4, <1>9, <1>10 DEF Clocked, Timely
<1> QED BY <1>14, <1>15

LEMMA HistoryStep ==
  ASSUME ConstantsAssumption, HistoryInv, [Next]_vars
  PROVE  History' /\ Clocked'
<1>0. /\ TypeOK /\ History /\ Clocked /\ Grows /\ now <= now' /\ now \in Nat /\ now' \in Nat
      /\ chain' = chain \/ \E w \in Writers : AppendBatch(w)
  BY StepGrows DEF HistoryInv, IdsInv, TypeInv
<1>1. CASE chain' = chain
  <2>1. History'
    BY <1>0, <1>1, LegalKept DEF History
  <2>2. \A i \in 1..Len(chain) : chain[i].timestamp \in Nat
    <3>1. \A i \in 1..Len(chain) : chain[i] \in Entry
      BY <1>0 DEF TypeOK
    <3> QED BY <3>1 DEF Entry
  <2>3. Clocked'
    BY <1>0, <1>1, <2>2 DEF Clocked
  <2> QED BY <2>1, <2>3
<1>2. ASSUME NEW w \in Writers, AppendBatch(w) PROVE History' /\ Clocked'
  BY <1>0, <1>2, AppendLegal
<1> QED BY <1>0, <1>1, <1>2

-----------------------------------------------------------------------------
(* Where pending batches come from: a batch that is pending after a step    *)
(* was pending before, and so were the states it was computed from, or it   *)
(* has just been computed.                                                  *)

KeptBatch(w) ==
  /\ pending'[w] = pending[w] /\ pos'[w] = pos[w]
  /\ w \in Placers => main'[w] = main[w]
  /\ w \in Calculators =>
       /\ calc'[w] = calc[w]
       /\ results[w] # <<>> => results'[w] # <<>> /\ results'[w][1] = results[w][1]

NewBatch(w) ==
  \/ w \in Placers /\ (HandleInput(w) \/ OneShotWrite(w))
  \/ w \in Calculators /\ (IdleWork(w) \/ PutResult(w))

BatchStates == \A w \in Writers : pending'[w] # <<>> => KeptBatch(w) \/ NewBatch(w)

LEMMA StepBatches ==
  ASSUME ConstantsAssumption, TypeInv, [Next]_vars
  PROVE  BatchStates
<1>0. /\ TypeOK /\ Placers \subseteq Writers /\ Calculators \subseteq Writers
      /\ pos \in [Writers -> Nat] /\ pending \in [Writers -> Seq(Entry)]
      /\ main = [p \in Placers |-> main[p]] /\ calc = [c \in Calculators |-> calc[c]]
  BY DEF TypeInv, TypeOK, Writers
<1>1. ASSUME UNCHANGED <<pending, pos, main, calc, results>> PROVE BatchStates
  BY <1>1 DEF BatchStates, KeptBatch
<1>2. ASSUME NEW x \in Writers, ReadNext(x) PROVE BatchStates
  BY <1>0, <1>2 DEF ReadNext, external, BatchStates, KeptBatch
<1>3. ASSUME NEW x \in Writers, AppendBatch(x) PROVE BatchStates
  <2>1. /\ \A c \in Calculators : c # x => results'[c] = results[c]
        /\ pending' = [pending EXCEPT ![x] = <<>>] /\ UNCHANGED <<pos, main, calc>>
    BY <1>3, AppendType DEF AppendBatch
  <2> QED BY <1>0, <2>1 DEF BatchStates, KeptBatch
<1>4. ASSUME NEW x \in Writers, AppendFails(x) PROVE BatchStates
  BY <1>0, <1>4 DEF AppendFails, external, BatchStates, KeptBatch
<1>5. ASSUME NEW p \in Placers, CrashMain(p) PROVE BatchStates
  BY <1>0, <1>5 DEF CrashMain, external, BatchStates, KeptBatch
<1>6. ASSUME NEW c \in Calculators, CrashCalc(c) PROVE BatchStates
  <2>1. \A d \in Calculators : d # c => results'[d] = results[d]
    BY <1>0, <1>6 DEF CrashCalc, TypeOK
  <2> QED BY <1>0, <1>6, <2>1 DEF CrashCalc, BatchStates, KeptBatch
<1>7. ASSUME NEW c \in Calculators, CalculateResult(c) PROVE BatchStates
  <2> DEFINE R == [id: Ids, sign: Signs]
  <2>1. results \in [Calculators -> Seq(R)]
    BY <1>0 DEF TypeOK
  <2>2. PICK j : results' = [results EXCEPT ![c] =
                    IF j.id \in idLookup[c] THEN Append(@, [id |-> j.id, sign |-> Output(j)])
                                            ELSE @]
    BY <1>7 DEF CalculateResult
  <2>3. PICK x : x = [id |-> j.id, sign |-> Output(j)]
    OBVIOUS
  <2> HIDE DEF R
  <2>4. \A d \in Calculators : \/ results'[d] = results[d]
                               \/ results'[d] = Append(results[d], x)
    BY <2>1, <2>2, <2>3
  <2>5. \A d \in Calculators : results[d] # <<>> =>
          results'[d] # <<>> /\ results'[d][1] = results[d][1]
    <3> SUFFICES ASSUME NEW d \in Calculators, results[d] # <<>>
                 PROVE  results'[d] # <<>> /\ results'[d][1] = results[d][1]
      OBVIOUS
    <3>1. PICK s : s = results[d] /\ s \in Seq(R) /\ s # <<>>
      BY <2>1
    <3>2. Append(s, x) # <<>> /\ Append(s, x)[1] = s[1]
      BY <3>1
    <3> QED BY <2>4, <3>1, <3>2
  <2> QED BY <1>0, <1>7, <2>5 DEF CalculateResult, BatchStates, KeptBatch
<1>8. ASSUME NEW x \in Writers, NewBatch(x) PROVE BatchStates
  <2>1. /\ UNCHANGED <<pos, main, calc, results>>
        /\ \A w \in Writers : w # x => pending'[w] = pending[w]
    BY <1>0, <1>8 DEF NewBatch, HandleInput, OneShotWrite, IdleWork, Accept,
       TimeOutUnaccepted, CloseHandled, PutResult, Propose, external
  <2> QED BY <1>8, <2>1 DEF BatchStates, KeptBatch
<1>9. CASE Tick \/ UNCHANGED vars
  BY <1>1, <1>9 DEF Tick, vars, external
<1>10. ASSUME NEW x \in Writers, SaveStep(x) PROVE BatchStates
  BY <1>1, <1>10 DEF SaveStep, StartSave, FinishSave, external
<1> QED BY <1>0, <1>2, <1>3, <1>4, <1>5, <1>6, <1>7, <1>8, <1>9, <1>10
        DEF Next, WriterStep, PlacerStep, CalculatorStep, NewBatch

\* A batch that has just been computed fits the state it was computed from.
LEMMA NewBatchFits ==
  ASSUME ConstantsAssumption, HistoryInv, NEW c \in Calculators, IdleWork(c) \/ PutResult(c)
  PROVE  BatchFits(c)' /\ pending'[c][1].timestamp = now
<1>0. /\ TypeOK /\ now \in Nat /\ c \in Writers
      /\ IsRequestMap(calc[c].newlyPlacedRequests)
      /\ IsRequestMap(calc[c].requestsBeingHandled)
      /\ pending = [w \in Writers |-> pending[w]]
  BY DEF HistoryInv, IdsInv, TypeInv, TypeOK, IsCalcState, Writers
<1>1. ASSUME NEW q, Propose(c, q)
      PROVE  pending'[c] = q /\ now' = now /\ calc' = calc /\ results' = results
  BY <1>0, <1>1 DEF Propose, external
<1>2. CASE Accept(c)
  <2>1. PICK e : e = Confirm(Acceptable(c))
    OBVIOUS
  <2>2. pending'[c] = <<e>> /\ calc' = calc
    BY <1>1, <1>2, <2>1 DEF Accept
  <2>3. e.update = "ConfirmRequestReceipt" /\ e.ids = Acceptable(c) /\ e.timestamp = now
    BY <2>1 DEF Confirm
  <2>4. pending'[c][1] = e
    BY <2>2
  <2>5. FitsConfirm(c, e)' /\ FitsResponse(c, e)' /\ FitsCompletion(c, e)'
    BY <2>2, <2>3 DEF FitsConfirm, FitsResponse, FitsCompletion, Acceptable
  <2> QED BY <2>2, <2>3, <2>4, <2>5 DEF BatchFits
<1>3. CASE TimeOutUnaccepted(c)
  <2>1. PICK id, e :
          /\ id \in DOMAIN calc[c].newlyPlacedRequests
          /\ e = Complete(id, "TimeoutBeforeAcceptance")
          /\ Acceptable(c) = {} /\ Propose(c, <<e>>)
    BY <1>3 DEF TimeOutUnaccepted
  <2>2. pending'[c] = <<e>> /\ calc' = calc
    BY <1>1, <2>1
  <2>3. /\ e.update = "RequestCompleted" /\ e.id = id /\ e.timestamp = now
        /\ e.fashion = "TimeoutBeforeAcceptance"
    BY <2>1 DEF Complete
  <2>4. calc[c].newlyPlacedRequests[id].placedTimestamp + AcceptWindow < now
    <3>1. calc[c].newlyPlacedRequests[id].placedTimestamp \in Nat /\ AcceptWindow \in Nat
      BY <1>0, <2>1 DEF IsRequestMap, Request, ConstantsAssumption
    <3> QED BY <1>0, <2>1, <3>1 DEF Acceptable
  <2> QED BY <2>1, <2>2, <2>3, <2>4 DEF BatchFits, FitsConfirm, FitsResponse, FitsCompletion
<1>4. CASE CloseHandled(c)
  <2>1. PICK id, f, e :
          /\ id \in DOMAIN calc[c].requestsBeingHandled /\ f \in Fashions
          /\ e = Complete(id, f) /\ MayClose(calc[c].requestsBeingHandled[id], f)
          /\ Propose(c, IF f = "Fulfilled" THEN <<e, e>> ELSE <<e>>)
    BY <1>4 DEF CloseHandled
  <2>2. pending'[c] = (IF f = "Fulfilled" THEN <<e, e>> ELSE <<e>>) /\ calc' = calc
    BY <1>1, <2>1
  <2>3. /\ e.update = "RequestCompleted" /\ e.id = id /\ e.timestamp = now
        /\ e.fashion = f
    BY <2>1 DEF Complete
  <2>4. MayCloseAt(calc[c].requestsBeingHandled[id], f, now)
    BY <2>1 DEF MayClose, MayCloseAt
  <2>5. FitsConfirm(c, e)' /\ FitsResponse(c, e)' /\ FitsCompletion(c, e)'
    BY <2>1, <2>2, <2>3, <2>4 DEF FitsConfirm, FitsResponse, FitsCompletion
  <2>6. pending'[c][1] = e
    BY <2>2
  <2> QED BY <2>2, <2>3, <2>5, <2>6 DEF BatchFits
<1>5. CASE PutResult(c)
  <2>1. PICK e : e = Respond(Head(results[c]).id, Head(results[c]).sign = "negative")
    OBVIOUS
  <2>2. pending'[c] = <<e>> /\ results' = results /\ results[c] # <<>>
    BY <1>1, <1>5, <2>1 DEF PutResult
  <2>3. /\ e.update = "RespondToRequest" /\ e.timestamp = now
        /\ e.id = results[c][1].id
        /\ e.isFinalResponse <=> results[c][1].sign = "negative"
    <3>1. PICK h : h = Head(results[c]) /\ h = results[c][1]
      OBVIOUS
    <3>2. PICK final \in BOOLEAN : final <=> h.sign = "negative"
      OBVIOUS
    <3>3. e = Respond(h.id, final)
      BY <2>1, <3>1, <3>2
    <3>4. e.update = "RespondToRequest" /\ e.timestamp = now /\ e.id = h.id
      BY <3>3 DEF Respond
    <3>5. e.isFinalResponse = final
      BY <3>3 DEF Respond
    <3> QED BY <3>1, <3>2, <3>4, <3>5
  <2>4. pending'[c][1] = e
    BY <2>2
  <2>5. FitsConfirm(c, e)' /\ FitsResponse(c, e)' /\ FitsCompletion(c, e)'
    BY <2>2, <2>3 DEF FitsConfirm, FitsResponse, FitsCompletion
  <2> QED BY <2>2, <2>3, <2>4, <2>5 DEF BatchFits
<1> QED BY <1>2, <1>3, <1>4, <1>5 DEF IdleWork

LEMMA BatchesStep ==
  ASSUME ConstantsAssumption, HistoryInv, [Next]_vars
  PROVE  BatchesFit'
<1>0. /\ TypeOK /\ Grows /\ now <= now' /\ now \in Nat /\ now' \in Nat /\ BatchStates
      /\ \A w \in Writers : pos[w] \in Nat /\ pos[w] <= Len(chain)
      /\ Len(chain) \in Nat
  <2>1. TypeInv /\ TypeOK /\ \A w \in Writers : pos[w] \in Nat
    BY DEF HistoryInv, IdsInv, TypeInv, TypeOK
  <2>2. \A w \in Writers : pos[w] <= Len(chain)
    BY DEF HistoryInv, IdsInv, IdsKnown, Knows, CalculatorsTell, Tells, Writers
  <2>3. Len(chain) \in Nat
    BY <2>1 DEF TypeOK
  <2> QED BY <2>1, <2>2, <2>3, StepGrows, StepBatches
<1>1. \A i \in 1..Len(chain) : chain[i].timestamp \in Nat /\ chain[i].timestamp <= now
                               /\ chain'[i] = chain[i]
  <2>1. \A i \in 1..Len(chain) : chain[i] \in Entry
    BY <1>0 DEF TypeOK
  <2> QED BY <1>0, <2>1 DEF Entry, HistoryInv, Clocked, Grows
<1>2. ASSUME NEW w \in Writers, pending'[w] # <<>>, NEW e, e = pending'[w][1]
      PROVE  Timely(w, e)'
  <2>1. CASE KeptBatch(w)
    <3>1. PICK n : n = pos[w] /\ n \in Nat /\ n <= Len(chain)
      BY <1>0
    <3>2. e = pending[w][1] /\ pos'[w] = n /\ Timely(w, e) /\ e.timestamp \in Nat
      <4>1. pending[w] \in Seq(Entry) /\ pending[w] # <<>> /\ pos'[w] = n
            /\ pending[w][1] = e
        BY <1>0, <1>2, <2>1, <3>1 DEF KeptBatch, TypeOK
      <4>2. e \in Entry
        BY <4>1
      <4> QED BY <3>1, <4>1, <4>2 DEF HistoryInv, BatchesFit, Entry
    <3>3. e.timestamp > 0 /\ e.timestamp <= now'
      BY <1>0, <3>2 DEF Timely
    <3>4. \A k \in 1..n : chain'[k].timestamp <= e.timestamp
      BY <1>0, <1>1, <3>1, <3>2 DEF Timely
    <3> QED BY <3>2, <3>3, <3>4 DEF Timely
  <2>2. CASE NewBatch(w)
    <3>1. pending'[w][1].timestamp = now /\ now' = now /\ pos' = pos /\ chain' = chain
      <4>1. now' = now /\ pos' = pos /\ chain' = chain
        BY <2>2 DEF NewBatch, HandleInput, OneShotWrite, IdleWork, Accept, TimeOutUnaccepted,
           CloseHandled, PutResult, Propose
      <4>2. CASE w \in Placers /\ (HandleInput(w) \/ OneShotWrite(w))
        <5>1. PICK v \in Values, g \in Groups :
                Propose(w, <<Place(main[w].max_id_sofar + 1, v, g)>>)
          BY <4>2 DEF HandleInput, OneShotWrite
        <5>2. pending'[w] = <<Place(main[w].max_id_sofar + 1, v, g)>>
          BY <1>0, <5>1 DEF Propose, TypeOK
        <5>3. Place(main[w].max_id_sofar + 1, v, g).timestamp = now
          BY DEF Place
        <5> QED BY <4>1, <5>2, <5>3
      <4> QED BY <2>2, <4>1, <4>2, NewBatchFits DEF NewBatch
    <3>2. now > 0 /\ pos[w] <= Len(chain) /\ pos[w] \in Nat
      BY <1>0 DEF HistoryInv, Clocked
    <3>3. \A k \in 1..pos[w] : chain[k].timestamp <= now
      BY <1>0, <1>1, <3>2
    <3> QED BY <1>0, <1>2, <3>1, <3>2, <3>3 DEF Timely
  <2> QED BY <1>0, <1>2, <2>1, <2>2 DEF BatchStates
<1>3. ASSUME NEW c \in Calculators PROVE BatchFits(c)'
  <2>0. c \in Writers /\ c \notin Placers
    BY DEF Writers, ConstantsAssumption
  <2>1. CASE pending'[c] = <<>>
    BY <2>1 DEF BatchFits
  <2>2. CASE pending'[c] # <<>> /\ KeptBatch(c)
    <3>1. PICK e : e = pending[c][1]
      OBVIOUS
    <3>2. /\ pending'[c] = pending[c] /\ calc'[c] = calc[c]
          /\ results[c] # <<>> => results'[c] # <<>> /\ results'[c][1] = results[c][1]
          /\ BatchFits(c)
      BY <2>2 DEF KeptBatch, HistoryInv, BatchesFit
    <3>3. FitsConfirm(c, e)' /\ FitsResponse(c, e)' /\ FitsCompletion(c, e)'
      BY <2>2, <3>1, <3>2 DEF BatchFits, FitsConfirm, FitsResponse, FitsCompletion
    <3> QED BY <2>2, <3>1, <3>2, <3>3 DEF BatchFits
  <2>3. CASE pending'[c] # <<>> /\ NewBatch(c)
    BY <2>0, <2>3, NewBatchFits DEF NewBatch
  <2> QED BY <1>0, <2>0, <2>1, <2>2, <2>3 DEF BatchStates
<1>4. ASSUME NEW w \in Writers, pending'[w] # <<>> PROVE Timely(w, pending[w][1])'
  BY <1>2, <1>4 DEF Timely
<1> QED BY <1>3, <1>4 DEF BatchesFit

LEMMA AnswersStep ==
  ASSUME ConstantsAssumption, HistoryInv, [Next]_vars
  PROVE  AnswersConfirmed'
<1> DEFINE R == [id: Ids, sign: Signs]
<1>0. /\ TypeOK /\ Grows /\ AnswersConfirmed /\ Len(chain) \in Nat /\ Len(chain') \in Nat
      /\ results \in [Calculators -> Seq(R)] /\ running = [c \in Calculators |-> running[c]]
      /\ PendingCurrent /\ pending \in [Writers -> Seq(Entry)] /\ Calculators \subseteq Writers
  <2>0. TypeInv /\ TypeOK /\ PendingCurrent /\ AnswersConfirmed
    BY DEF HistoryInv, IdsInv, TypeInv
  <2>1. TypeOK' /\ Grows
    BY <2>0, TypeInvStep, StepGrows DEF TypeInv
  <2>2. Len(chain) \in Nat /\ Len(chain') \in Nat
    BY <2>0, <2>1 DEF TypeOK
  <2> QED BY <2>0, <2>1, <2>2 DEF TypeOK, Writers
<1>1. ASSUME NEW id, Confirmed(id, Len(chain)) PROVE Confirmed(id, Len(chain))'
  <2>1. PICK n : n = Len(chain) /\ n \in 0..Len(chain)
    BY <1>0
  <2>2. PICK i \in 1..Len(chain) : IsConfirm(i, id)
    BY <1>1 DEF Confirmed
  <2>3. i \in 1..Len(chain') /\ IsConfirm(i, id)'
    BY <1>0, <2>2 DEF Grows, IsConfirm
  <2> QED BY <2>3 DEF Confirmed
<1> HIDE DEF R
<1>2. ASSUME UNCHANGED <<running, results>> PROVE AnswersConfirmed'
  BY <1>0, <1>1, <1>2 DEF AnswersConfirmed
<1>3. ASSUME NEW w \in Writers, AppendBatch(w) PROVE AnswersConfirmed'
  <2>1. CASE w \notin Calculators \/ UNCHANGED external
    BY <1>2, <1>3, <2>1 DEF AppendBatch, external
  <2>2. CASE w \in Calculators /\ ~ UNCHANGED external
    <3>1. PICK e : e = Head(pending[w]) /\ Effects(w, e) /\ e = pending[w][1]
      BY <1>3, <2>2 DEF AppendBatch
    <3>2. CASE e.update = "ConfirmRequestReceipt"
      <4>0. \A id \in e.ids : Confirmed(id, Len(chain))'
        <5>1. PICK n : n = Len(chain) + 1
          OBVIOUS
        <5>2. chain'[n] = e /\ n \in 1..Len(chain')
          BY <1>0, <1>3, <3>1, <5>1 DEF AppendBatch, TypeOK
        <5>3. \A id \in e.ids : IsConfirm(n, id)'
          BY <3>2, <5>2 DEF IsConfirm
        <5> QED BY <5>2, <5>3 DEF Confirmed
      <4>1. PICK J : /\ running' = [running EXCEPT ![w] = @ \cup J] /\ results' = results
                     /\ \A j \in J : j.id \in e.ids
        <5> DEFINE J == {[id |-> id, count |-> 1,
                          sign |-> calc[w].newlyPlacedRequests[id].requestValue] : id \in e.ids}
        <5>1. \A j \in J : j.id \in e.ids
          OBVIOUS
        <5>2. running' = [running EXCEPT ![w] = @ \cup J] /\ results' = results
          BY <3>1, <3>2 DEF Effects
        <5> HIDE DEF J
        <5> QED BY <5>1, <5>2
      <4>2. ASSUME NEW c \in Calculators, NEW j \in running'[c]
            PROVE  Confirmed(j.id, Len(chain))'
        <5>1. j \in running[c] \/ j \in J
          BY <1>0, <2>2, <4>1
        <5>2. CASE j \in running[c]
          BY <1>0, <1>1, <5>2 DEF AnswersConfirmed
        <5>3. CASE j \in J
          BY <4>0, <4>1, <5>3
        <5> QED BY <5>1, <5>2, <5>3
      <4> QED BY <1>0, <1>1, <4>1, <4>2 DEF AnswersConfirmed
    <3>3. CASE e.update = "RespondToRequest"
      <4>1. /\ running' = running /\ results' = [results EXCEPT ![w] = Tail(@)]
            /\ results[w] # <<>>
        BY <1>0, <2>2, <3>1, <3>3, <1>3
           DEF Effects, PendingCurrent, CalculatorPending, AppendBatch
      <4>2. ASSUME NEW c \in Calculators, NEW k \in DOMAIN results'[c]
            PROVE  Confirmed(results[c][k].id, Len(chain))'
        <5>1. CASE c # w
          BY <1>0, <1>1, <4>1, <4>2, <5>1 DEF AnswersConfirmed
        <5>2. CASE c = w
          <6>1. PICK s : s = results[w] /\ s \in Seq(R) /\ s # <<>>
            BY <1>0, <2>2, <4>1
          <6>2. results'[c] = Tail(s) /\ k \in DOMAIN Tail(s)
            BY <1>0, <2>2, <4>1, <4>2, <5>2, <6>1
          <6>3. k + 1 \in DOMAIN s /\ Tail(s)[k] = s[k + 1]
            BY <6>1, <6>2
          <6> QED BY <1>0, <1>1, <5>2, <6>1, <6>2, <6>3 DEF AnswersConfirmed
        <5> QED BY <5>1, <5>2
      <4> QED BY <1>0, <1>1, <4>1, <4>2 DEF AnswersConfirmed
    <3> QED BY <2>2, <3>1, <3>2, <3>3 DEF Effects
  <2> QED BY <2>1, <2>2
<1>4. ASSUME NEW c \in Calculators, CalculateResult(c) PROVE AnswersConfirmed'
  <2>1. PICK j \in running[c] :
          /\ running' = [running EXCEPT ![c] = (@ \ {j}) \cup
               (IF j.count = 1 THEN {[j EXCEPT !.count = 2]} ELSE {})]
          /\ results' = [results EXCEPT ![c] =
               IF j.id \in idLookup[c] THEN Append(@, [id |-> j.id, sign |-> Output(j)])
                                       ELSE @]
    BY <1>4 DEF CalculateResult
  <2>2. PICK x, j2 : x = [id |-> j.id, sign |-> Output(j)] /\ j2 = [j EXCEPT !.count = 2]
    OBVIOUS
  <2>3. x.id = j.id /\ j2.id = j.id /\ Confirmed(j.id, Len(chain))
    <3>1. j \in [id: Ids, count: {1, 2}, sign: Values]
      BY <1>0 DEF TypeOK
    <3> QED BY <1>0, <2>2, <3>1 DEF AnswersConfirmed
  <2>4. ASSUME NEW d \in Calculators, NEW k \in running'[d] PROVE Confirmed(k.id, Len(chain))'
    <3>1. k \in running[d] \/ (k = j2 /\ d = c)
      BY <1>0, <2>1, <2>2
    <3> QED BY <1>0, <1>1, <2>3, <3>1 DEF AnswersConfirmed
  <2>5. ASSUME NEW d \in Calculators, NEW k \in DOMAIN results'[d]
        PROVE  Confirmed(results[d][k].id, Len(chain))'
    <3>1. PICK s : s = results[d] /\ s \in Seq(R)
      BY <1>0
    <3>2. results'[d] = s \/ results'[d] = Append(s, x)
      BY <1>0, <2>1, <2>2, <3>1
    <3>3. (k \in DOMAIN s /\ results'[d][k] = s[k]) \/ results'[d][k] = x
      <4>1. CASE results'[d] = s
        BY <2>5, <4>1
      <4>2. CASE results'[d] = Append(s, x)
        <5>1. k \in DOMAIN Append(s, x)
          BY <2>5, <4>2
        <5>2. (k \in DOMAIN s /\ Append(s, x)[k] = s[k]) \/ Append(s, x)[k] = x
          BY <3>1, <5>1
        <5> QED BY <4>2, <5>2
      <4> QED BY <3>2, <4>1, <4>2
    <3> QED BY <1>0, <1>1, <2>3, <3>1, <3>3 DEF AnswersConfirmed
  <2> QED BY <2>4, <2>5 DEF AnswersConfirmed
<1>5. ASSUME NEW c \in Calculators, CrashCalc(c) PROVE AnswersConfirmed'
  <2>1. /\ \A d \in Calculators : running'[d] = running[d] \/ running'[d] = {}
        /\ \A d \in Calculators : results'[d] = results[d] \/ results'[d] = <<>>
    BY <1>0, <1>5 DEF CrashCalc
  <2>2. DOMAIN <<>> = {}
    OBVIOUS
  <2> QED BY <1>0, <1>1, <2>1, <2>2 DEF AnswersConfirmed
<1>6. CASE Tick \/ UNCHANGED vars
  BY <1>2, <1>6 DEF Tick, vars, external
<1>7. ASSUME NEW w \in Writers, ReadNext(w) \/ AppendFails(w) \/ SaveStep(w)
      PROVE  AnswersConfirmed'
  BY <1>2, <1>7 DEF ReadNext, AppendFails, SaveStep, StartSave, FinishSave, external
<1>8. ASSUME NEW p \in Placers, PlacerStep(p) PROVE AnswersConfirmed'
  BY <1>2, <1>8 DEF PlacerStep, HandleInput, OneShotWrite, CrashMain, Propose, external
<1>9. ASSUME NEW c \in Calculators, IdleWork(c) \/ PutResult(c) PROVE AnswersConfirmed'
  BY <1>2, <1>9 DEF IdleWork, Accept, TimeOutUnaccepted, CloseHandled, PutResult, Propose,
     external
<1> QED BY <1>3, <1>4, <1>5, <1>6, <1>7, <1>8, <1>9 DEF Next, WriterStep, CalculatorStep

LEMMA HistoryFacts ==
  ASSUME HistoryInv
  PROVE  /\ TypeInv /\ TypeOK /\ UniqueIds /\ History /\ Clocked /\ Len(chain) \in Nat
         /\ \A i \in 1..Len(chain) : chain[i] \in Entry
<1>1. TypeInv /\ TypeOK /\ UniqueIds /\ History /\ Clocked
  BY DEF HistoryInv, IdsInv, TypeInv
<1>2. Len(chain) \in Nat /\ \A i \in 1..Len(chain) : chain[i] \in Entry
  BY <1>1 DEF TypeOK
<1> QED BY <1>1, <1>2

LEMMA HistoryCorrect == Spec => []HistoryInv
<1>1. Init => Clocked /\ History /\ CalculatorsTell /\ AnswersConfirmed /\ BatchesFit
  <2> SUFFICES ASSUME Init
               PROVE  Clocked /\ History /\ CalculatorsTell /\ AnswersConfirmed /\ BatchesFit
    OBVIOUS
  <2>0. ConstantsAssumption
    BY ConstantsOK
  <2>1. Clocked /\ History
    BY <2>0 DEF Init, ConstantsAssumption, Clocked, History
  <2>2. Tells(0, InitCalc)
    BY DEF Tells, InitCalc, EmptyMap, Init
  <2>3. CalculatorsTell
    BY <2>2 DEF Init, CalculatorsTell, Writers
  <2>4. AnswersConfirmed /\ BatchesFit
    BY DEF Init, AnswersConfirmed, BatchesFit, BatchFits, Writers
  <2> QED BY <2>1, <2>3, <2>4
<1>2. HistoryInv /\ [Next]_vars =>
        Clocked' /\ History' /\ CalculatorsTell' /\ AnswersConfirmed' /\ BatchesFit'
  BY ConstantsOK, HistoryStep, TellsStep, AnswersStep, BatchesStep
<1>3. Init => IdsKnown /\ UniqueIds
  <2>1. ConstantsAssumption
    BY ConstantsOK
  <2> QED BY <2>1 DEF Init, IdsKnown, Knows, UniqueIds, InitMain, Writers, saved
<1>4. IdsInv /\ [Next]_vars => IdsKnown' /\ UniqueIds'
  BY IdsStep, ConstantsOK
<1> QED BY <1>1, <1>2, <1>3, <1>4, TypeInvCorrect, PTL DEF Spec, HistoryInv, IdsInv

-----------------------------------------------------------------------------
(* What the chain tells, as the properties of RequestChain say it.          *)

\* No request is confirmed twice, so none is ever given to an external
\* calculator again: whoever confirms has read the whole chain, and knows as
\* newly placed only what the chain does not confirm.
THEOREM ConfirmedOnceCorrect == Spec => []ConfirmedOnce
<1>1. HistoryInv => ConfirmedOnce
  BY ConfirmOnlyOnce DEF HistoryInv, IdsInv, TypeInv, ConfirmedOnce, IsConfirm
<1> QED BY <1>1, HistoryCorrect, PTL

LEMMA OnceCompleted ==
  ASSUME TypeOK, History, NEW i \in 1..Len(chain), NEW j \in 1..Len(chain), i < j, NEW id,
         IsCompletion(i, id), IsCompletion(j, id)
  PROVE  j = i + 1 /\ SecondCopy(j)
<1>0. /\ Len(chain) \in Nat /\ i \in 1..(j - 1) /\ (i # j - 1 => i \in 1..(j - 2))
  BY DEF TypeOK
<1>1. \A n : i \in 1..n => Completed(id, n)
  BY DEF Completed
<1>2. ~ MayComplete(id, chain[j].fashion, j - 1, chain[j].timestamp)
  BY <1>0, <1>1 DEF MayComplete
<1>3. SecondCopy(j)
  BY <1>2 DEF History, Legal, LegalCompletion, IsCompletion
<1>4. ~ Completed(id, j - 2)
  BY <1>3 DEF SecondCopy, MayComplete, IsCompletion
<1> QED BY <1>0, <1>1, <1>3, <1>4

\* Redundant calculators never complete a request twice, but for the batch of
\* two equal entries that closes a fulfilled one.
THEOREM OneCompletionCorrect == Spec => []OneCompletion
<1>1. HistoryInv => OneCompletion
  <2> SUFFICES ASSUME HistoryInv, NEW i \in 1..Len(chain), NEW j \in 1..Len(chain),
                      chain[i].update = "RequestCompleted",
                      chain[j].update = "RequestCompleted",
                      chain[i].id = chain[j].id, i < j
               PROVE  j = i + 1 /\ chain[i] = chain[j] /\ chain[i].fashion = "Fulfilled"
    BY DEF OneCompletion
  <2>1. j = i + 1 /\ SecondCopy(j)
    BY OnceCompleted DEF HistoryInv, IdsInv, TypeInv, IsCompletion
  <2>2. j - 1 = i
    BY <2>1
  <2> QED BY <2>1, <2>2 DEF SecondCopy
<1> QED BY <1>1, HistoryCorrect, PTL

\* A completed request is not confirmed later.
LEMMA NotConfirmedLater ==
  ASSUME TypeOK, History, NEW i \in 1..Len(chain), NEW id, IsCompletion(i, id),
         ~ Confirmed(id, i - 1)
  PROVE  ~ Confirmed(id, Len(chain))
<1> SUFFICES ASSUME NEW k \in 1..Len(chain), IsConfirm(k, id) PROVE FALSE
  BY DEF Confirmed
<1>0. Len(chain) \in Nat
  BY DEF TypeOK
<1>1. ~ Completed(id, k - 1)
  BY DEF History, Legal, LegalConfirm, MayAccept, IsConfirm
<1>2. i \notin 1..(k - 1)
  BY <1>1 DEF Completed
<1>3. k # i
  BY DEF IsConfirm, IsCompletion
<1>4. k \in 1..(i - 1)
  BY <1>0, <1>2, <1>3
<1> QED BY <1>4 DEF Confirmed

\* The fashion a request is completed with tells its true history.
THEOREM FashionIsTrueCorrect == Spec => []FashionIsTrue
<1>1. HistoryInv => FashionIsTrue
  <2> SUFFICES ASSUME HistoryInv, NEW i \in 1..Len(chain),
                      chain[i].update = "RequestCompleted", NEW id, id = chain[i].id,
                      NEW f, f = chain[i].fashion
               PROVE
         /\ Placed(id, i)
         /\ f = "TimeoutBeforeAcceptance" => ~ Confirmed(id, Len(chain))
         /\ f # "TimeoutBeforeAcceptance" => Confirmed(id, i)
         /\ f = "AcceptedThenTimeoutBeforeResponse" => ~ Responded(id, i)
         /\ f = "PartiallyHandledThenTimeout" => Responded(id, i) /\ ~ Finished(id, i)
         /\ f = "Fulfilled" => Finished(id, i)
    BY DEF FashionIsTrue
  <2>0. TypeOK /\ History /\ Len(chain) \in Nat
    BY HistoryFacts
  <2>1. PICK n : n = i - 1 /\ n \in Nat /\ n + 1 = i
    BY <2>0
  <2>2. CASE MayComplete(id, f, n, chain[i].timestamp)
    <3>1. IsCompletion(i, id) /\ ~ IsConfirm(i, id) /\ ~ IsResponse(i, id)
      BY DEF IsCompletion, IsConfirm, IsResponse
    <3>2. f = "TimeoutBeforeAcceptance" => ~ Confirmed(id, Len(chain))
      BY <2>0, <2>1, <2>2, <3>1, NotConfirmedLater DEF MayComplete
    <3> QED BY <2>1, <2>2, <3>1, <3>2, NextFacts DEF MayComplete
  <2>3. CASE SecondCopy(i)
    <3>1. /\ f = "Fulfilled" /\ i > 1
          /\ Placed(id, i - 2) /\ Confirmed(id, i - 2) /\ Finished(id, i - 2)
      BY <2>3 DEF SecondCopy, MayComplete
    <3>2. PICK m \in Nat : m = i - 2 /\ m <= i /\ i \in Nat
      BY <2>0, <3>1
    <3>3. Placed(id, i) /\ Confirmed(id, i) /\ Finished(id, i)
      BY <3>1, <3>2, FactsGrow
    <3> QED BY <3>1, <3>3
  <2> QED BY <2>0, <2>1, <2>2, <2>3 DEF History, Legal, LegalCompletion
<1> QED BY <1>1, HistoryCorrect, PTL

\* The windows hold between the entries of the chain, although every program
\* compares times of the chain with its own clock and writes later.
THEOREM WindowsRespectedCorrect == Spec => []WindowsRespected
<1>1. HistoryInv => WindowsRespected
  <2> SUFFICES ASSUME HistoryInv, NEW i \in 1..Len(chain), NEW j \in 1..Len(chain)
               PROVE
         LET between == chain[j].timestamp - chain[i].timestamp IN
         /\ chain[i].update = "PlaceRequest" =>
              /\ IsConfirm(j, chain[i].id) => between <= AcceptWindow
              /\ /\ IsCompletion(j, chain[i].id)
                 /\ chain[j].fashion = "TimeoutBeforeAcceptance"
                 => between > AcceptWindow
         /\ /\ i < j /\ chain[j].update = "RequestCompleted"
            /\ chain[j].fashion \in {"AcceptedThenTimeoutBeforeResponse",
                                     "PartiallyHandledThenTimeout"}
            /\ IsConfirm(i, chain[j].id) \/ IsResponse(i, chain[j].id)
            => between > ResponseWindow
    BY DEF WindowsRespected
  <2>0. /\ TypeOK /\ History /\ UniqueIds /\ Len(chain) \in Nat
        /\ AcceptWindow \in Nat /\ ResponseWindow \in Nat
    BY HistoryFacts, ConstantsOK DEF ConstantsAssumption
  <2>1. PICK t, u : /\ t = chain[i].timestamp /\ u = chain[j].timestamp
                    /\ t \in Nat /\ u \in Nat
    <3>1. chain[i] \in Entry /\ chain[j] \in Entry
      BY HistoryFacts
    <3> QED BY <3>1 DEF Entry
  <2>2. Legal(j)
    BY <2>0 DEF History
  <2>3. ASSUME chain[i].update = "PlaceRequest", Placed(chain[i].id, j - 1)
        PROVE  i \in 1..(j - 1)
    <3>1. PICK k \in 1..(j - 1) : IsPlace(k, chain[i].id)
      BY <2>3 DEF Placed, IsPlace
    <3> QED BY <2>0, <2>3, <3>1 DEF UniqueIds, IsPlace
  <2>4. ASSUME chain[i].update = "PlaceRequest", IsConfirm(j, chain[i].id)
        PROVE  u - t <= AcceptWindow
    <3>1. MayAccept(chain[i].id, j - 1, chain[j].timestamp)
      BY <2>2, <2>4 DEF Legal, LegalConfirm, IsConfirm
    <3>2. i \in 1..(j - 1) /\ IsPlace(i, chain[i].id)
      BY <2>3, <2>4, <3>1 DEF MayAccept, IsPlace
    <3>3. u <= t + AcceptWindow
      BY <2>1, <3>1, <3>2 DEF MayAccept
    <3> QED BY <2>0, <2>1, <3>3
  <2>5. ASSUME chain[i].update = "PlaceRequest", IsCompletion(j, chain[i].id),
               chain[j].fashion = "TimeoutBeforeAcceptance"
        PROVE  u - t > AcceptWindow
    <3>1. MayComplete(chain[i].id, "TimeoutBeforeAcceptance", j - 1, chain[j].timestamp)
      BY <2>2, <2>5 DEF Legal, LegalCompletion, SecondCopy, IsCompletion
    <3>2. i \in 1..(j - 1) /\ IsPlace(i, chain[i].id)
      BY <2>3, <2>5, <3>1 DEF MayComplete, IsPlace
    <3>3. t + AcceptWindow < u
      BY <2>1, <3>1, <3>2 DEF MayComplete
    <3> QED BY <2>0, <2>1, <3>3
  <2>6. ASSUME i < j, chain[j].update = "RequestCompleted",
               chain[j].fashion \in {"AcceptedThenTimeoutBeforeResponse",
                                     "PartiallyHandledThenTimeout"},
               IsConfirm(i, chain[j].id) \/ IsResponse(i, chain[j].id)
        PROVE  u - t > ResponseWindow
    <3>1. MayComplete(chain[j].id, chain[j].fashion, j - 1, chain[j].timestamp)
      BY <2>2, <2>6 DEF Legal, LegalCompletion, SecondCopy
    <3>2. i \in 1..(j - 1)
      BY <2>0, <2>6
    <3>3. t + ResponseWindow < u
      BY <2>1, <2>6, <3>1, <3>2 DEF MayComplete
    <3> QED BY <2>0, <2>1, <3>3
  <2> QED BY <2>1, <2>4, <2>5, <2>6
<1> QED BY <1>1, HistoryCorrect, PTL

-----------------------------------------------------------------------------
(* The refinement of RequestLifecycle.                                      *)

\* The step appends e, once or more.
Appends(e) ==
  /\ Len(chain) + 1 \in 1..Len(chain') /\ chain'[Len(chain) + 1] = e
  /\ \A i \in 1..Len(chain) : i \in 1..Len(chain') /\ chain'[i] = chain[i]
  /\ \A i \in 1..Len(chain') : i \in 1..Len(chain) \/ chain'[i] = e

\* e may follow the whole chain.
MayFollow(e) ==
  LET n == Len(chain) IN
  /\ e.update = "ConfirmRequestReceipt" => \A id \in e.ids : MayAccept(id, n, e.timestamp)
  /\ e.update = "RespondToRequest" => Confirmed(e.id, n)
  /\ e.update = "RequestCompleted" => MayComplete(e.id, e.fashion, n, e.timestamp)

LEMMA AppendsEntry ==
  ASSUME ConstantsAssumption, HistoryInv, NEW w \in Writers, AppendBatch(w)
  PROVE  \E e \in Entry : e = pending[w][1] /\ Appends(e) /\ MayFollow(e)
<1>0. PICK e, q : q = pending[w] /\ e = q[1]
  OBVIOUS
<1>1. /\ q # <<>> /\ pos[w] = Len(chain) /\ chain' = chain \o q
      /\ chain \in Seq(Entry) /\ q \in Seq(Entry)
  BY <1>0, HistoryFacts DEF TypeOK, AppendBatch
<1>2. e \in Entry
  BY <1>0, <1>1
<1>3. \A k \in 1..Len(q) : q[k] = e
  <2>1. CASE w \in Calculators
    <3>1. q = <<e>> \/ q = <<e, e>>
      BY <1>0, <1>1, <2>1 DEF HistoryInv, BatchesFit, BatchFits
    <3> QED BY <3>1
  <2>2. CASE w \notin Calculators
    <3>1. Len(q) = 1
      BY <1>0, <1>1, <2>2, HistoryFacts DEF TypeInv, PendingCurrent, PlacerPending, Writers
    <3> QED BY <1>0, <3>1
  <2> QED BY <2>1, <2>2
<1>4. Appends(e)
  <2>1. /\ Len(chain') = Len(chain) + Len(q) /\ Len(chain) \in Nat /\ Len(q) \in Nat \ {0}
        /\ \A i \in 1..Len(chain) : chain'[i] = chain[i]
        /\ \A i \in (Len(chain) + 1)..Len(chain') :
             i - Len(chain) \in 1..Len(q) /\ chain'[i] = q[i - Len(chain)]
    BY <1>1
  <2> QED BY <1>3, <2>1 DEF Appends
<1>5. MayFollow(e)
  <2>1. CASE w \in Calculators
    BY <1>0, <1>1, <1>2, <2>1, BatchIsLegal DEF MayFollow
  <2>2. CASE w \notin Calculators
    <3>1. e.update = "PlaceRequest"
      BY <1>0, <1>1, <2>2, HistoryFacts DEF TypeInv, PendingCurrent, PlacerPending, Writers
    <3> QED BY <3>1 DEF MayFollow
  <2> QED BY <2>1, <2>2
<1> QED BY <1>0, <1>2, <1>4, <1>5

LEMMA AppendFacts ==
  ASSUME NEW e, Appends(e), Len(chain) \in Nat
  PROVE  \A id :
    /\ Placed(id, Len(chain))' <=>
         Placed(id, Len(chain)) \/ (e.update = "PlaceRequest" /\ e.id = id)
    /\ Confirmed(id, Len(chain))' <=>
         Confirmed(id, Len(chain)) \/ (e.update = "ConfirmRequestReceipt" /\ id \in e.ids)
    /\ Responded(id, Len(chain))' <=>
         Responded(id, Len(chain)) \/ (e.update = "RespondToRequest" /\ e.id = id)
    /\ Finished(id, Len(chain))' <=>
         \/ Finished(id, Len(chain))
         \/ e.update = "RespondToRequest" /\ e.id = id /\ e.isFinalResponse
    /\ Completed(id, Len(chain))' <=>
         Completed(id, Len(chain)) \/ (e.update = "RequestCompleted" /\ e.id = id)
<1>1. PICK n : n = Len(chain) + 1
  OBVIOUS
<1>2. /\ n \in 1..Len(chain') /\ chain'[n] = e
      /\ \A i \in 1..Len(chain) : i \in 1..Len(chain') /\ chain'[i] = chain[i]
      /\ \A i \in 1..Len(chain') : i \in 1..Len(chain) \/ chain'[i] = e
  BY <1>1 DEF Appends
<1> SUFFICES ASSUME NEW id PROVE
    /\ Placed(id, Len(chain))' <=>
         Placed(id, Len(chain)) \/ (e.update = "PlaceRequest" /\ e.id = id)
    /\ Confirmed(id, Len(chain))' <=>
         Confirmed(id, Len(chain)) \/ (e.update = "ConfirmRequestReceipt" /\ id \in e.ids)
    /\ Responded(id, Len(chain))' <=>
         Responded(id, Len(chain)) \/ (e.update = "RespondToRequest" /\ e.id = id)
    /\ Finished(id, Len(chain))' <=>
         \/ Finished(id, Len(chain))
         \/ e.update = "RespondToRequest" /\ e.id = id /\ e.isFinalResponse
    /\ Completed(id, Len(chain))' <=>
         Completed(id, Len(chain)) \/ (e.update = "RequestCompleted" /\ e.id = id)
  OBVIOUS
<1>3. Placed(id, Len(chain))' <=>
        Placed(id, Len(chain)) \/ (e.update = "PlaceRequest" /\ e.id = id)
  BY <1>2 DEF Placed
<1>4. Confirmed(id, Len(chain))' <=>
        Confirmed(id, Len(chain)) \/ (e.update = "ConfirmRequestReceipt" /\ id \in e.ids)
  BY <1>2 DEF Confirmed, IsConfirm
<1>5. Responded(id, Len(chain))' <=>
        Responded(id, Len(chain)) \/ (e.update = "RespondToRequest" /\ e.id = id)
  BY <1>2 DEF Responded, IsResponse
<1>6. Finished(id, Len(chain))' <=>
        \/ Finished(id, Len(chain))
        \/ e.update = "RespondToRequest" /\ e.id = id /\ e.isFinalResponse
  BY <1>2 DEF Finished, IsResponse
<1>7. Completed(id, Len(chain))' <=>
        Completed(id, Len(chain)) \/ (e.update = "RequestCompleted" /\ e.id = id)
  BY <1>2 DEF Completed, IsCompletion
<1> QED BY <1>3, <1>4, <1>5, <1>6, <1>7

\* phase[id] in terms of the facts; all completions of a request agree.
PhaseTold ==
  /\ phase = [id \in Ids |-> phase[id]]
  /\ \A id \in Ids :
       /\ \A i \in 1..Len(chain) : IsCompletion(i, id) => phase[id] = chain[i].fashion
       /\ ~ Completed(id, Len(chain)) =>
            phase[id] = IF Finished(id, Len(chain)) THEN "finished"
                        ELSE IF Responded(id, Len(chain)) THEN "responded"
                        ELSE IF Confirmed(id, Len(chain)) THEN "accepted"
                        ELSE IF Placed(id, Len(chain)) THEN "placed" ELSE "unknown"

LEMMA PhaseIsTold == HistoryInv => PhaseTold
<1> SUFFICES ASSUME HistoryInv PROVE PhaseTold
  OBVIOUS
<1>0. TypeOK /\ History /\ Len(chain) \in Nat
  BY HistoryFacts
<1>1. phase = [id \in Ids |-> phase[id]]
  BY DEF phase
<1>2. ASSUME NEW id \in Ids, NEW i \in 1..Len(chain), IsCompletion(i, id)
      PROVE  phase[id] = chain[i].fashion
  <2> DEFINE k == CHOOSE k \in 1..Len(chain) : IsCompletion(k, id)
  <2>1. k \in 1..Len(chain) /\ IsCompletion(k, id)
    BY <1>2
  <2>2. phase[id] = chain[k].fashion
    BY <1>2 DEF phase, Completed
  <2> HIDE DEF k
  <2>3. ASSUME NEW a \in 1..Len(chain), NEW b \in 1..Len(chain), a < b,
               IsCompletion(a, id), IsCompletion(b, id)
        PROVE  chain[a] = chain[b]
    <3>1. b = a + 1 /\ SecondCopy(b)
      BY <1>0, <2>3, OnceCompleted
    <3>2. b - 1 = a
      BY <3>1
    <3> QED BY <3>1, <3>2 DEF SecondCopy
  <2> QED BY <1>0, <1>2, <2>1, <2>2, <2>3
<1>3. ASSUME NEW id \in Ids, ~ Completed(id, Len(chain))
      PROVE  phase[id] = IF Finished(id, Len(chain)) THEN "finished"
                         ELSE IF Responded(id, Len(chain)) THEN "responded"
                         ELSE IF Confirmed(id, Len(chain)) THEN "accepted"
                         ELSE IF Placed(id, Len(chain)) THEN "placed" ELSE "unknown"
  BY <1>3 DEF phase
<1> QED BY <1>1, <1>2, <1>3 DEF PhaseTold

\* A request the new entry tells nothing new about stays in its phase.
LEMMA PhaseKept ==
  ASSUME PhaseTold, PhaseTold', NEW e, Appends(e), Len(chain) \in Nat, NEW id \in Ids,
         \/ Completed(id, Len(chain))
         \/ /\ e.update = "PlaceRequest" => e.id # id
            /\ e.update = "ConfirmRequestReceipt" => id \notin e.ids
            /\ e.update = "RespondToRequest" =>
                 \/ e.id # id
                 \/ Finished(id, Len(chain))
                 \/ Responded(id, Len(chain)) /\ ~ e.isFinalResponse
            /\ e.update = "RequestCompleted" => e.id # id
  PROVE  phase'[id] = phase[id]
<1>1. CASE Completed(id, Len(chain))
  <2>1. PICK i \in 1..Len(chain) : IsCompletion(i, id)
    BY <1>1 DEF Completed
  <2>2. i \in 1..Len(chain') /\ chain'[i] = chain[i] /\ IsCompletion(i, id)'
    BY <2>1 DEF Appends, IsCompletion
  <2> QED BY <2>1, <2>2 DEF PhaseTold
<1>2. CASE ~ Completed(id, Len(chain))
  <2>1. ~ Completed(id, Len(chain))'
    BY <1>2, AppendFacts
  <2>2. CASE /\ e.update = "PlaceRequest" => e.id # id
             /\ e.update = "ConfirmRequestReceipt" => id \notin e.ids
             /\ e.update = "RespondToRequest" => e.id # id
    <3>1. /\ Placed(id, Len(chain))' <=> Placed(id, Len(chain))
          /\ Confirmed(id, Len(chain))' <=> Confirmed(id, Len(chain))
          /\ Responded(id, Len(chain))' <=> Responded(id, Len(chain))
          /\ Finished(id, Len(chain))' <=> Finished(id, Len(chain))
      BY <2>2, AppendFacts
    <3> QED BY <1>2, <2>1, <3>1 DEF PhaseTold
  <2>3. CASE /\ e.update = "RespondToRequest"
             /\ \/ Finished(id, Len(chain))
                \/ Responded(id, Len(chain)) /\ ~ e.isFinalResponse
    <3>1. CASE Finished(id, Len(chain))
      <4>1. Finished(id, Len(chain))'
        BY <3>1, AppendFacts
      <4> QED BY <1>2, <2>1, <3>1, <4>1 DEF PhaseTold
    <3>2. CASE ~ Finished(id, Len(chain))
      <4>1. /\ ~ Finished(id, Len(chain))' /\ Responded(id, Len(chain))
            /\ Responded(id, Len(chain))'
        BY <2>3, <3>2, AppendFacts
      <4> QED BY <1>2, <2>1, <3>2, <4>1 DEF PhaseTold
    <3> QED BY <3>1, <3>2
  <2> QED BY <1>2, <2>2, <2>3
<1> QED BY <1>1, <1>2

LEMMA LifecycleStep ==
  ConstantsAssumption /\ HistoryInv /\ HistoryInv' /\ PhaseTold /\ PhaseTold' /\ [Next]_vars
    => [Lifecycle!Next]_phase
<1> SUFFICES ASSUME ConstantsAssumption, HistoryInv, HistoryInv', PhaseTold, PhaseTold',
                    [Next]_vars
             PROVE  [Lifecycle!Next]_phase
  OBVIOUS
<1>0. /\ TypeOK /\ History /\ Len(chain) \in Nat
      /\ chain' = chain \/ \E w \in Writers : AppendBatch(w)
  BY HistoryFacts, StepGrows
<1>1. CASE chain' = chain
  BY <1>1 DEF phase, Completed, Finished, Responded, Confirmed, Placed, IsCompletion,
     IsResponse, IsConfirm
<1>2. ASSUME NEW e \in Entry, Appends(e), MayFollow(e) PROVE [Lifecycle!Next]_phase
  <2>0. PICK n : n = Len(chain) /\ n \in 0..Len(chain)
    BY <1>0
  <2>1. /\ phase = [id \in Ids |-> phase[id]] /\ phase' = [id \in Ids |-> phase'[id]]
    BY DEF PhaseTold
  <2>2. CASE e.update = "PlaceRequest"
    <3>1. e.id \in Ids
      BY <2>2 DEF Entry
    <3>2. ~ Placed(e.id, n)
      <4> SUFFICES ASSUME NEW i \in 1..n, IsPlace(i, e.id) PROVE FALSE
        BY DEF Placed, IsPlace
      <4>1. /\ i \in 1..Len(chain') /\ chain'[i] = chain[i]
            /\ n + 1 \in 1..Len(chain') /\ chain'[n + 1] = e
        BY <1>2, <2>0 DEF Appends
      <4>2. UniqueIds'
        BY DEF HistoryInv, IdsInv
      <4>3. i = n + 1
        BY <2>2, <4>1, <4>2 DEF UniqueIds, IsPlace
      <4> QED BY <1>0, <2>0, <4>3
    <3>3. /\ ~ Confirmed(e.id, n) /\ ~ Responded(e.id, n) /\ ~ Finished(e.id, n)
          /\ ~ Completed(e.id, n)
      BY <1>0, <2>0, <3>2, FirstThings
    <3>4. phase[e.id] = "unknown"
      BY <2>0, <3>1, <3>2, <3>3 DEF PhaseTold
    <3>5. phase'[e.id] = "placed"
      <4>1. /\ Placed(e.id, Len(chain))' /\ ~ Confirmed(e.id, Len(chain))'
            /\ ~ Responded(e.id, Len(chain))' /\ ~ Finished(e.id, Len(chain))'
            /\ ~ Completed(e.id, Len(chain))'
        BY <1>0, <1>2, <2>0, <2>2, <3>3, AppendFacts
      <4> QED BY <3>1, <4>1 DEF PhaseTold
    <3>6. \A id \in Ids : id # e.id => phase'[id] = phase[id]
      BY <1>0, <1>2, <2>2, PhaseKept
    <3>7. Lifecycle!Place(e.id)
      BY <2>1, <3>1, <3>4, <3>5, <3>6 DEF Lifecycle!Place, Lifecycle!Move
    <3> QED BY <3>1, <3>7 DEF Lifecycle!Next
  <2>3. CASE e.update = "ConfirmRequestReceipt"
    <3>1. e.ids \in SUBSET Ids
      BY <2>3 DEF Entry
    <3>2. ASSUME NEW id \in e.ids PROVE phase[id] = "placed" /\ phase'[id] = "accepted"
      <4>1. Placed(id, n) /\ ~ Confirmed(id, n) /\ ~ Completed(id, n)
        BY <1>2, <2>0, <2>3 DEF MayFollow, MayAccept
      <4>2. ~ Responded(id, n) /\ ~ Finished(id, n)
        BY <1>0, <2>0, <4>1, FirstThings
      <4>3. phase[id] = "placed"
        BY <2>0, <3>1, <4>1, <4>2 DEF PhaseTold
      <4>4. /\ Confirmed(id, Len(chain))' /\ ~ Responded(id, Len(chain))'
            /\ ~ Finished(id, Len(chain))' /\ ~ Completed(id, Len(chain))'
        BY <1>0, <1>2, <2>0, <2>3, <4>1, <4>2, AppendFacts
      <4>5. phase'[id] = "accepted"
        BY <3>1, <4>4 DEF PhaseTold
      <4> QED BY <4>3, <4>5
    <3>3. \A id \in Ids : id \notin e.ids => phase'[id] = phase[id]
      BY <1>0, <1>2, <2>3, PhaseKept
    <3>4. Lifecycle!Accept(e.ids)
      BY <2>1, <3>1, <3>2, <3>3 DEF Lifecycle!Accept
    <3> QED BY <3>1, <3>4 DEF Lifecycle!Next
  <2>4. CASE e.update = "RespondToRequest"
    <3>1. e.id \in Ids /\ e.isFinalResponse \in BOOLEAN /\ Confirmed(e.id, n)
      BY <1>2, <2>0, <2>4 DEF Entry, MayFollow
    <3>2. \A id \in Ids : id # e.id => phase'[id] = phase[id]
      BY <1>0, <1>2, <2>4, PhaseKept
    <3>3. CASE \/ Completed(e.id, n) \/ Finished(e.id, n)
               \/ Responded(e.id, n) /\ ~ e.isFinalResponse
      <4>1. phase'[e.id] = phase[e.id]
        BY <1>0, <1>2, <2>0, <2>4, <3>1, <3>3, PhaseKept
      <4>2. phase' = phase
        BY <2>1, <3>2, <4>1
      <4> QED BY <4>2
    <3>4. CASE /\ ~ Completed(e.id, n) /\ ~ Finished(e.id, n)
               /\ ~ Responded(e.id, n) \/ e.isFinalResponse
      <4>1. phase[e.id] = IF Responded(e.id, n) THEN "responded" ELSE "accepted"
        BY <2>0, <3>1, <3>4 DEF PhaseTold
      <4>2. /\ ~ Completed(e.id, Len(chain))' /\ Responded(e.id, Len(chain))'
            /\ Finished(e.id, Len(chain))' <=> e.isFinalResponse
        BY <1>0, <1>2, <2>0, <2>4, <3>4, AppendFacts
      <4>3. phase'[e.id] = IF e.isFinalResponse THEN "finished" ELSE "responded"
        BY <3>1, <4>2 DEF PhaseTold
      <4>4. phase' = [phase EXCEPT ![e.id] = phase'[e.id]]
        BY <2>1, <3>1, <3>2
      <4>5. Lifecycle!Answer(e.id)
        BY <3>4, <4>1, <4>3, <4>4 DEF Lifecycle!Answer, Lifecycle!Move
      <4> QED BY <3>1, <4>5 DEF Lifecycle!Next
    <3> QED BY <3>3, <3>4
  <2>5. CASE e.update = "RequestCompleted"
    <3>1. e.id \in Ids /\ e.fashion \in Fashions
      BY <2>5 DEF Entry
    <3>2. MayComplete(e.id, e.fashion, n, e.timestamp)
      BY <1>2, <2>0, <2>5 DEF MayFollow
    <3>3. /\ Responded(e.id, n) => Confirmed(e.id, n)
          /\ Finished(e.id, n) => Responded(e.id, n)
      BY <1>0, <2>0, FirstThings
    <3>4. phase[e.id] = CASE e.fashion = "TimeoutBeforeAcceptance" -> "placed"
                          [] e.fashion = "AcceptedThenTimeoutBeforeResponse" -> "accepted"
                          [] e.fashion = "PartiallyHandledThenTimeout" -> "responded"
                          [] e.fashion = "Fulfilled" -> "finished"
      BY <2>0, <3>1, <3>2, <3>3 DEF PhaseTold, MayComplete, Fashions
    <3>5. phase'[e.id] = e.fashion
      <4>1. PICK m : m = n + 1
        OBVIOUS
      <4>2. m \in 1..Len(chain') /\ chain'[m] = e
        BY <1>2, <2>0, <4>1 DEF Appends
      <4>3. IsCompletion(m, e.id)'
        BY <2>5, <4>2 DEF IsCompletion
      <4> QED BY <3>1, <4>2, <4>3 DEF PhaseTold
    <3>6. \A id \in Ids : id # e.id => phase'[id] = phase[id]
      BY <1>0, <1>2, <2>5, PhaseKept
    <3>7. phase' = [phase EXCEPT ![e.id] = e.fashion]
      BY <2>1, <3>1, <3>5, <3>6
    <3>8. Lifecycle!Close(e.id)
      BY <3>1, <3>4, <3>7 DEF Lifecycle!Close, Lifecycle!Move, Fashions
    <3> QED BY <3>1, <3>8 DEF Lifecycle!Next
  <2> QED BY <2>2, <2>3, <2>4, <2>5 DEF Entry
<1> QED BY <1>0, <1>1, <1>2, AppendsEntry

\* Whatever programs race, crash and come back with, one request lives the life
\* RequestLifecycle describes.
THEOREM ImplementsLifecycleCorrect == Spec => ImplementsLifecycle
<1>1. Init => Lifecycle!Init
  <2> SUFFICES ASSUME Init PROVE Lifecycle!Init
    OBVIOUS
  <2>1. \A id : /\ ~ Placed(id, Len(chain)) /\ ~ Confirmed(id, Len(chain))
                /\ ~ Responded(id, Len(chain)) /\ ~ Finished(id, Len(chain))
                /\ ~ Completed(id, Len(chain))
    BY DEF Init, Placed, Confirmed, Responded, Finished, Completed
  <2> QED BY <2>1 DEF phase, Lifecycle!Init
<1>2. HistoryInv /\ HistoryInv' /\ PhaseTold /\ PhaseTold' /\ [Next]_vars
        => [Lifecycle!Next]_phase
  BY ConstantsOK, LifecycleStep
<1> QED BY <1>1, <1>2, HistoryCorrect, PhaseIsTold, PTL
        DEF Spec, ImplementsLifecycle, Lifecycle!Spec

-----------------------------------------------------------------------------
(* The limit of a main program.                                             *)

OpenAt(n) == {id \in PlacedBy(n) : ~ Completed(id, n)}

\* A state of the main-program fold that has read n entries holds exactly the
\* requests these leave open, whatever the state was restored from.
HoldsOpen(n, s) == n <= Len(chain) /\ s.outstandingIDs = OpenAt(n)

PlacersHold ==
  /\ \A p \in Placers : HoldsOpen(pos[p], main[p])
  /\ HoldsOpen(savedMain.at, savedMain.state)
  /\ \A p \in Placers : \A s \in saving[p] : HoldsOpen(s.at, s.state)

\* A facility computes a request only below its limit, and reads nothing until
\* the request is on the chain or lost.
BelowLimit ==
  \A p \in Facilities : pending[p] # <<>> => Cardinality(main[p].outstandingIDs) < Limit

LEMMA InOpenAt ==
  ASSUME NEW n, NEW id
  PROVE  id \in OpenAt(n) <=> Placed(id, n) /\ ~ Completed(id, n)
BY DEF OpenAt, PlacedBy, Placed

LEMMA HoldsKept ==
  ASSUME TypeOK, Grows, NEW n \in Nat, NEW s, HoldsOpen(n, s)
  PROVE  HoldsOpen(n, s)'
<1>1. n \in 0..Len(chain) /\ n <= Len(chain')
  BY DEF HoldsOpen, Grows, TypeOK
<1>2. \A i \in 1..n : chain'[i] = chain[i]
  BY <1>1 DEF Grows, TypeOK
<1>3. PlacedBy(n)' = PlacedBy(n)
  BY <1>2 DEF PlacedBy
<1>4. OpenAt(n)' = OpenAt(n)
  BY <1>1, <1>3, FactsKept DEF OpenAt
<1> QED BY <1>1, <1>4 DEF HoldsOpen

LEMMA ReadHolds ==
  ASSUME TypeOK, UniqueIds, History, NEW n \in Nat, n < Len(chain),
         NEW s \in MainState, HoldsOpen(n, s)
  PROVE  HoldsOpen(n + 1, FoldMain(s, chain[n + 1]))
<1> DEFINE e == chain[n + 1]
<1>0. n + 1 <= Len(chain)
  BY DEF TypeOK
<1>1. CASE e.update = "PlaceRequest"
  <2>1. IsPlace(n + 1, e.id) /\ \A id : ~ IsCompletion(n + 1, id)
    BY <1>1 DEF IsPlace, IsCompletion
  <2>2. ~ Completed(e.id, n)
    BY <2>1, PlacedAnew
  <2>3. \A id : id \in OpenAt(n + 1) <=> id \in OpenAt(n) \/ id = e.id
    BY <1>1, <2>1, <2>2, NextFacts, InOpenAt DEF IsPlace
  <2>4. FoldMain(s, e).outstandingIDs = s.outstandingIDs \cup {e.id}
    BY <1>1 DEF FoldMain
  <2>5. OpenAt(n + 1) = OpenAt(n) \cup {e.id}
    BY <2>3
  <2> QED BY <1>0, <2>4, <2>5 DEF HoldsOpen
<1>2. CASE e.update = "RequestCompleted"
  <2>1. \A id : ~ IsPlace(n + 1, id) /\ (IsCompletion(n + 1, id) <=> id = e.id)
    BY <1>2 DEF IsPlace, IsCompletion
  <2>2. \A id : id \in OpenAt(n + 1) <=> id \in OpenAt(n) /\ id # e.id
    BY <2>1, NextFacts, InOpenAt
  <2>3. FoldMain(s, e).outstandingIDs = s.outstandingIDs \ {e.id}
    BY <1>2 DEF FoldMain, MainState
  <2>4. OpenAt(n + 1) = OpenAt(n) \ {e.id}
    BY <2>2
  <2> QED BY <1>0, <2>3, <2>4 DEF HoldsOpen
<1>3. CASE e.update \notin {"PlaceRequest", "RequestCompleted"}
  <2>1. \A id : ~ IsPlace(n + 1, id) /\ ~ IsCompletion(n + 1, id)
    BY <1>3 DEF IsPlace, IsCompletion
  <2>2. \A id : id \in OpenAt(n + 1) <=> id \in OpenAt(n)
    BY <2>1, NextFacts, InOpenAt
  <2>3. FoldMain(s, e) = s
    BY <1>3 DEF FoldMain
  <2>4. OpenAt(n + 1) = OpenAt(n)
    BY <2>2
  <2> QED BY <1>0, <2>3, <2>4 DEF HoldsOpen
<1> QED BY <1>1, <1>2, <1>3

LEMMA HoldsStep ==
  ASSUME ConstantsAssumption, HistoryInv, PlacersHold, BelowLimit, [Next]_vars
  PROVE  PlacersHold' /\ BelowLimit'
<1>0. /\ TypeOK /\ UniqueIds /\ History /\ Grows /\ PlacerStates /\ BatchStates
      /\ \A p \in Placers : /\ pos[p] \in Nat /\ main[p] \in MainState
                            /\ \A s \in saving[p] : s.at \in Nat
      /\ savedMain.at \in Nat
  <2>1. TypeInv /\ TypeOK /\ UniqueIds /\ History
    BY HistoryFacts
  <2>2. /\ \A p \in Placers : /\ pos[p] \in Nat /\ main[p] \in MainState
                              /\ \A s \in saving[p] : s.at \in Nat
        /\ savedMain.at \in Nat
    BY <2>1 DEF TypeOK, Writers
  <2> QED BY <2>1, <2>2, StepGrows, StepStates, StepBatches
<1>1. ASSUME NEW n \in Nat, NEW s, HoldsOpen(n, s) PROVE HoldsOpen(n, s)'
  BY <1>0, <1>1, HoldsKept
<1>2. ASSUME NEW p \in Placers PROVE HoldsOpen(pos[p], main[p])'
  <2>1. PICK n, s : n \in Nat /\ n = pos'[p] /\ s = main'[p] /\ HoldsOpen(n, s)
    <3>1. CASE pos'[p] = pos[p] /\ main'[p] = main[p]
      BY <1>0, <3>1 DEF PlacersHold
    <3>2. CASE pos'[p] = savedMain.at /\ main'[p] = savedMain.state
      BY <1>0, <3>2 DEF PlacersHold
    <3>3. CASE /\ pos[p] < Len(chain) /\ pos'[p] = pos[p] + 1
               /\ main'[p] = FoldMain(main[p], chain[pos[p] + 1])
      <4>1. HoldsOpen(pos[p], main[p])
        BY <1>0 DEF PlacersHold
      <4>2. HoldsOpen(pos[p] + 1, FoldMain(main[p], chain[pos[p] + 1]))
        BY <1>0, <3>3, <4>1, ReadHolds
      <4> QED BY <1>0, <3>3, <4>2
    <3> QED BY <1>0, <3>1, <3>2, <3>3 DEF PlacerStates
  <2>2. HoldsOpen(n, s)'
    BY <1>1, <2>1
  <2> QED BY <2>1, <2>2
<1>3. ASSUME NEW p \in Placers, NEW s \in saving'[p] PROVE HoldsOpen(s.at, s.state)'
  <2>1. s.at \in Nat /\ HoldsOpen(s.at, s.state)
    BY <1>0 DEF PlacerStates, PlacersHold
  <2> QED BY <1>1, <2>1
<1>4. HoldsOpen(savedMain.at, savedMain.state)'
  <2>1. PICK s : savedMain' = s /\ s.at \in Nat /\ HoldsOpen(s.at, s.state)
    BY <1>0 DEF PlacerStates, PlacersHold
  <2>2. HoldsOpen(s.at, s.state)'
    BY <1>1, <2>1
  <2> QED BY <2>1, <2>2
<1>5. ASSUME NEW p \in Facilities, pending'[p] # <<>>
      PROVE  Cardinality(main'[p].outstandingIDs) < Limit
  <2>1. p \in Placers /\ p \in Writers /\ p \notin Calculators /\ p \notin Tools
    BY DEF Placers, Writers, ConstantsAssumption
  <2>2. CASE KeptBatch(p)
    BY <1>5, <2>1, <2>2 DEF KeptBatch, BelowLimit
  <2>3. CASE NewBatch(p)
    BY <2>1, <2>3 DEF NewBatch, HandleInput, OneShotWrite, Propose
  <2> QED BY <1>0, <1>5, <2>1, <2>2, <2>3 DEF BatchStates
<1> QED BY <1>2, <1>3, <1>4, <1>5 DEF PlacersHold, BelowLimit

LEMMA HoldsCorrect == Spec => [](PlacersHold /\ BelowLimit)
<1>1. Init => PlacersHold /\ BelowLimit
  <2> SUFFICES ASSUME Init PROVE PlacersHold /\ BelowLimit
    OBVIOUS
  <2>1. OpenAt(0) = {}
    BY DEF OpenAt, PlacedBy
  <2>2. HoldsOpen(0, InitMain)
    BY <2>1 DEF HoldsOpen, InitMain, Init
  <2> QED BY <2>2 DEF Init, PlacersHold, BelowLimit, Writers, Placers
<1>2. HistoryInv /\ PlacersHold /\ BelowLimit /\ [Next]_vars => PlacersHold' /\ BelowLimit'
  BY HoldsStep, ConstantsOK
<1> QED BY <1>1, <1>2, HistoryCorrect, PTL DEF Spec

\* A main program's request reaches the chain only when fewer than Limit
\* requests are open there, although the limit is checked on a copy of the state
\* before: what the facility holds is what the chain leaves open up to where it
\* has read, and the compare-and-append proves that to be all of the chain.
THEOREM FacilityRespectsLimitCorrect == Spec => FacilityRespectsLimit
<1> DEFINE A == \A p \in Facilities :
                  pending[p] # <<>> /\ pending'[p] = <<>> /\ chain' # chain
                    => Cardinality(Outstanding) < Limit
<1>1. HistoryInv /\ PlacersHold /\ BelowLimit /\ [Next]_vars => [A]_vars
  <2> SUFFICES ASSUME HistoryInv, PlacersHold, BelowLimit, [Next]_vars,
                      NEW p \in Facilities,
                      pending[p] # <<>>, pending'[p] = <<>>, chain' # chain
               PROVE  Cardinality(Outstanding) < Limit
    OBVIOUS
  <2>0. TypeOK /\ p \in Writers /\ p \in Placers
    BY HistoryFacts DEF Writers, Placers
  <2>1. PICK w \in Writers : AppendBatch(w)
    BY <2>0, StepGrows, ConstantsOK
  <2>2. p = w
    BY <2>0, <2>1 DEF AppendBatch, TypeOK
  <2>3. pos[p] = Len(chain)
    BY <2>1, <2>2 DEF AppendBatch
  <2>4. main[p].outstandingIDs = Outstanding
    BY <2>0, <2>3 DEF PlacersHold, HoldsOpen, OpenAt, Outstanding
  <2> QED BY <2>4 DEF BelowLimit
<1> QED BY <1>1, HistoryCorrect, HoldsCorrect, PTL DEF Spec, FacilityRespectsLimit

-----------------------------------------------------------------------------
(* Calculators know all open requests of their groups, when no calculator   *)
(* can restart from a state that was saved for other groups.                *)

GroupsAgree == SupportsExtraData => \A c, d \in Calculators : useTheseGroups[c] = useTheseGroups[d]

\* A state that has read n entries for c holds exactly the requests of c's
\* groups they leave open.
Exact(c, n, s) ==
  /\ n <= Len(chain)
  /\ \A id \in Ids :
       /\ id \in DOMAIN s.newlyPlacedRequests <=>
            Serves(c, id, n) /\ ~ Completed(id, n) /\ ~ Confirmed(id, n)
       /\ id \in DOMAIN s.requestsBeingHandled <=>
            Serves(c, id, n) /\ ~ Completed(id, n) /\ Confirmed(id, n)

CalculatorsExact ==
  /\ \A c \in Calculators : Exact(c, pos[c], calc[c])
  /\ \A c \in Calculators : Exact(c, savedCalc.at, savedCalc.state)
  /\ \A c, d \in Calculators : \A s \in saving[c] : Exact(d, s.at, s.state)

LEMMA ExactKept ==
  ASSUME TypeOK, Grows, NEW c \in Calculators, NEW n \in Nat, NEW s, Exact(c, n, s)
  PROVE  Exact(c, n, s)'
<1>1. n \in 0..Len(chain) /\ n <= Len(chain') /\ \A i \in 1..n : chain'[i] = chain[i]
  BY DEF Exact, Grows, TypeOK
<1>2. ASSUME NEW id PROVE Serves(c, id, n)' <=> Serves(c, id, n)
  BY <1>1 DEF Serves
<1> QED BY <1>1, <1>2, FactsKept DEF Exact

LEMMA NextServes ==
  ASSUME NEW n \in Nat, NEW c, NEW id
  PROVE  /\ Serves(c, id, n + 1) <=>
              Serves(c, id, n) \/ (IsPlace(n + 1, id) /\ chain[n + 1].group \in useTheseGroups[c])
         /\ Serves(c, id, n) => Placed(id, n)
<1>1. \A i : i \in 1..(n + 1) <=> i \in 1..n \/ i = n + 1
  OBVIOUS
<1> QED BY <1>1 DEF Serves, IsPlace, Placed

LEMMA ReadExact ==
  ASSUME ConstantsAssumption, TypeOK, UniqueIds, History, NEW c \in Calculators,
         NEW n \in Nat, n < Len(chain), NEW s, IsCalcState(s), Exact(c, n, s)
  PROVE  Exact(c, n + 1, FoldCalc(c, s, chain[n + 1]))
<1> DEFINE e == chain[n + 1]
           t == FoldCalc(c, s, e)
           new == DOMAIN s.newlyPlacedRequests
           handled == DOMAIN s.requestsBeingHandled
<1>0. n + 1 <= Len(chain) /\ n + 1 \in 1..Len(chain) /\ n + 1 - 1 = n
  BY DEF TypeOK
<1>1. e \in Entry
  BY <1>0 DEF TypeOK
<1>2. ASSUME NEW id \in Ids
      PROVE  /\ id \in new <=> Serves(c, id, n) /\ ~ Completed(id, n) /\ ~ Confirmed(id, n)
             /\ id \in handled <=> Serves(c, id, n) /\ ~ Completed(id, n) /\ Confirmed(id, n)
  BY DEF Exact
<1>3. CASE e.update = "PlaceRequest"
  <2>1. \A id : ~ IsConfirm(n + 1, id) /\ ~ IsCompletion(n + 1, id) /\ (IsPlace(n + 1, id) <=> id = e.id)
    BY <1>3 DEF IsConfirm, IsCompletion, IsPlace
  <2>2. \A id : /\ Confirmed(id, n + 1) <=> Confirmed(id, n)
                /\ Completed(id, n + 1) <=> Completed(id, n)
    BY <2>1, NextFacts
  <2>3. ~ Confirmed(e.id, n) /\ ~ Completed(e.id, n)
    BY <2>1, PlacedAnew
  <2>4. CASE e.group \in useTheseGroups[c]
    <3>1. /\ DOMAIN t.newlyPlacedRequests = new \cup {e.id}
          /\ DOMAIN t.requestsBeingHandled = handled
      BY <1>3, <2>4 DEF FoldCalc, FoldPlace, Insert, IsCalcState
    <3>2. \A id : Serves(c, id, n + 1) <=> Serves(c, id, n) \/ id = e.id
      BY <2>1, <2>4, NextServes
    <3> HIDE DEF t
    <3> QED BY <1>0, <1>2, <2>2, <2>3, <3>1, <3>2 DEF Exact, t
  <2>5. CASE e.group \notin useTheseGroups[c]
    <3>1. t = s
      BY <1>3, <2>5 DEF FoldCalc, FoldPlace
    <3>2. \A id : Serves(c, id, n + 1) <=> Serves(c, id, n)
      BY <2>5, NextServes
    <3> HIDE DEF t
    <3> QED BY <1>0, <1>2, <2>2, <3>1, <3>2 DEF Exact, t
  <2> QED BY <2>4, <2>5
<1>4. CASE e.update = "ConfirmRequestReceipt"
  <2>1. \A id : /\ ~ IsCompletion(n + 1, id) /\ ~ IsPlace(n + 1, id)
                /\ IsConfirm(n + 1, id) <=> id \in e.ids
    BY <1>4 DEF IsConfirm, IsCompletion, IsPlace
  <2>2. \A id : /\ Confirmed(id, n + 1) <=> Confirmed(id, n) \/ id \in e.ids
                /\ Completed(id, n + 1) <=> Completed(id, n)
                /\ Serves(c, id, n + 1) <=> Serves(c, id, n)
    BY <2>1, NextFacts, NextServes
  <2>3. \A id \in e.ids : ~ Confirmed(id, n)
    <3>1. LegalConfirm(n + 1)
      BY <1>0 DEF History, Legal
    <3> QED BY <1>0, <1>4, <3>1 DEF LegalConfirm, MayAccept
  <2>4. /\ DOMAIN t.newlyPlacedRequests = new \ e.ids
        /\ DOMAIN t.requestsBeingHandled = handled \cup (new \cap e.ids)
    BY <1>4 DEF FoldCalc, FoldConfirm, Insert, Erase
  <2> HIDE DEF t
  <2> QED BY <1>0, <1>2, <2>2, <2>3, <2>4 DEF Exact, t
<1>5. CASE e.update = "RespondToRequest"
  <2>1. \A id : ~ IsCompletion(n + 1, id) /\ ~ IsPlace(n + 1, id) /\ ~ IsConfirm(n + 1, id)
    BY <1>5 DEF IsConfirm, IsCompletion, IsPlace
  <2>2. \A id : /\ Confirmed(id, n + 1) <=> Confirmed(id, n)
                /\ Completed(id, n + 1) <=> Completed(id, n)
                /\ Serves(c, id, n + 1) <=> Serves(c, id, n)
    BY <2>1, NextFacts, NextServes
  <2>3. DOMAIN t.newlyPlacedRequests = new /\ DOMAIN t.requestsBeingHandled = handled
    BY <1>5 DEF FoldCalc, FoldRespond, IsCalcState
  <2> HIDE DEF t
  <2> QED BY <1>0, <1>2, <2>2, <2>3 DEF Exact, t
<1>6. CASE e.update = "RequestCompleted"
  <2>1. \A id : /\ ~ IsPlace(n + 1, id) /\ ~ IsConfirm(n + 1, id)
                /\ IsCompletion(n + 1, id) <=> id = e.id
    BY <1>6 DEF IsConfirm, IsCompletion, IsPlace
  <2>2. \A id : /\ Confirmed(id, n + 1) <=> Confirmed(id, n)
                /\ Completed(id, n + 1) <=> Completed(id, n) \/ id = e.id
                /\ Serves(c, id, n + 1) <=> Serves(c, id, n)
    BY <2>1, NextFacts, NextServes
  <2>3. /\ DOMAIN t.newlyPlacedRequests = new \ {e.id}
        /\ DOMAIN t.requestsBeingHandled = handled \ {e.id}
    BY <1>6 DEF FoldCalc, FoldComplete, Erase
  <2> HIDE DEF t
  <2> QED BY <1>0, <1>2, <2>2, <2>3 DEF Exact, t
<1> QED BY <1>1, <1>3, <1>4, <1>5, <1>6 DEF Entry

LEMMA ExactStep ==
  ASSUME ConstantsAssumption, GroupsAgree, HistoryInv, CalculatorsExact, [Next]_vars
  PROVE  CalculatorsExact'
<1>0. /\ TypeOK /\ UniqueIds /\ History /\ Grows /\ CalculatorStates
      /\ \A c \in Calculators : pos[c] \in Nat /\ IsCalcState(calc[c])
                                /\ \A s \in saving[c] : s.at \in Nat
      /\ savedCalc.at \in Nat
  <2>1. TypeOK /\ UniqueIds /\ History
    BY HistoryFacts
  <2>2. /\ \A c \in Calculators : pos[c] \in Nat /\ IsCalcState(calc[c])
                                  /\ \A s \in saving[c] : s.at \in Nat
        /\ savedCalc.at \in Nat
    BY <2>1 DEF TypeOK, IsCalcSnapshot, Writers
  <2> QED BY <2>1, <2>2, StepGrows, StepStates
<1>1. ASSUME NEW c \in Calculators, NEW n \in Nat, NEW s, Exact(c, n, s) PROVE Exact(c, n, s)'
  BY <1>0, <1>1, ExactKept
<1>2. ASSUME NEW c \in Calculators PROVE Exact(c, pos[c], calc[c])'
  <2>1. PICK n, s : n \in Nat /\ n = pos'[c] /\ s = calc'[c] /\ Exact(c, n, s)
    <3>1. CASE pos'[c] = pos[c] /\ calc'[c] = calc[c]
      BY <1>0, <3>1 DEF CalculatorsExact
    <3>2. CASE pos'[c] = savedCalc.at /\ calc'[c] = savedCalc.state
      BY <1>0, <3>2 DEF CalculatorsExact
    <3>3. CASE /\ pos[c] < Len(chain) /\ pos'[c] = pos[c] + 1
               /\ calc'[c] = FoldCalc(c, calc[c], chain[pos[c] + 1])
      <4>1. Exact(c, pos[c], calc[c])
        BY <1>0 DEF CalculatorsExact
      <4>2. Exact(c, pos[c] + 1, FoldCalc(c, calc[c], chain[pos[c] + 1]))
        BY <1>0, <3>3, <4>1, ReadExact
      <4> QED BY <1>0, <3>3, <4>2
    <3> QED BY <1>0, <3>1, <3>2, <3>3 DEF CalculatorStates
  <2>2. Exact(c, n, s)'
    BY <1>1, <2>1
  <2> QED BY <2>1, <2>2
<1>3. ASSUME NEW c \in Calculators, NEW d \in Calculators, NEW s \in saving'[c]
      PROVE  Exact(d, s.at, s.state)'
  <2>1. s.at \in Nat /\ Exact(d, s.at, s.state)
    <3>1. CASE s \in saving[c]
      BY <1>0, <3>1 DEF CalculatorsExact
    <3>2. CASE SupportsExtraData /\ s = [at |-> pos[c], state |-> calc[c]]
      <4>1. Exact(c, pos[c], calc[c]) /\ useTheseGroups[d] = useTheseGroups[c]
        BY <3>2 DEF CalculatorsExact, GroupsAgree
      <4>2. \A id, n : Serves(d, id, n) <=> Serves(c, id, n)
        BY <4>1 DEF Serves
      <4>3. Exact(d, pos[c], calc[c])
        BY <4>1, <4>2 DEF Exact
      <4> QED BY <1>0, <3>2, <4>3
    <3> QED BY <1>0, <3>1, <3>2 DEF CalculatorStates
  <2> QED BY <1>1, <2>1
<1>4. ASSUME NEW d \in Calculators PROVE Exact(d, savedCalc.at, savedCalc.state)'
  <2>1. PICK s : savedCalc' = s /\ s.at \in Nat /\ Exact(d, s.at, s.state)
    BY <1>0 DEF CalculatorStates, CalculatorsExact
  <2>2. Exact(d, s.at, s.state)'
    BY <1>1, <2>1
  <2> QED BY <2>1, <2>2
<1> QED BY <1>2, <1>3, <1>4 DEF CalculatorsExact

\* A calculator knows exactly the open requests of its groups, however it
\* crashed and whatever it restarted from: unless two calculators that share the
\* saved state serve different groups.
THEOREM KnowsOpenRequestsCorrect == GroupsAgree /\ Spec => []KnowsOpenRequests
<1>1. Init => CalculatorsExact
  <2> SUFFICES ASSUME Init PROVE CalculatorsExact
    OBVIOUS
  <2>1. \A c, id : ~ Serves(c, id, 0)
    BY DEF Serves
  <2>2. \A c : Exact(c, 0, InitCalc)
    BY <2>1 DEF Exact, InitCalc, EmptyMap, Init
  <2> QED BY <2>2 DEF Init, CalculatorsExact, Writers
<1>2. GroupsAgree /\ HistoryInv /\ CalculatorsExact /\ [Next]_vars => CalculatorsExact'
  BY ExactStep, ConstantsOK
<1>3. CalculatorsExact => KnowsOpenRequests
  BY DEF CalculatorsExact, Exact, KnowsOpenRequests
<1>4. CASE GroupsAgree
  BY <1>1, <1>2, <1>3, <1>4, HistoryCorrect, PTL DEF Spec
<1>5. CASE ~ GroupsAgree
  BY <1>5
<1> QED BY <1>4, <1>5

-----------------------------------------------------------------------------
(* The final output of the external calculator.                             *)

\* Program c still owes the chain the final response of request id.
FinalOwed(c, id) ==
  \/ id \in idLookup[c] /\ \E j \in running[c] : j.id = id
  \/ \E k \in DOMAIN results[c] : results[c][k].id = id /\ results[c][k].sign = "negative"

NoneIsLost ==
  crashes = 0 =>
    \A id \in Ids : Confirmed(id, Len(chain)) =>
      Finished(id, Len(chain)) \/ \E c \in Calculators : FinalOwed(c, id)

LEMMA CalculateOwes ==
  ASSUME ConstantsAssumption, "zero" \notin Values, TypeOK, NEW c \in Calculators,
         CalculateResult(c), NEW d \in Calculators, NEW id, FinalOwed(d, id)
  PROVE  FinalOwed(d, id)'
<1> DEFINE R == [id: Ids, sign: Signs]
           J == [id: Ids, count: {1, 2}, sign: Values]
<1>1. PICK j \in running[c] :
        /\ running' = [running EXCEPT ![c] = (@ \ {j}) \cup
             (IF j.count = 1 THEN {[j EXCEPT !.count = 2]} ELSE {})]
        /\ results' = [results EXCEPT ![c] =
             IF j.id \in idLookup[c] THEN Append(@, [id |-> j.id, sign |-> Output(j)])
                                     ELSE @]
        /\ idLookup' = [idLookup EXCEPT ![c] =
             IF Output(j) \in {"zero", "negative"} THEN @ \ {j.id} ELSE @]
  BY DEF CalculateResult
<1>2. /\ results \in [Calculators -> Seq(R)] /\ running \in [Calculators -> SUBSET J]
      /\ idLookup \in [Calculators -> SUBSET Ids]
  BY DEF TypeOK
<1>3. PICK x, j2 : x = [id |-> j.id, sign |-> Output(j)] /\ j2 = [j EXCEPT !.count = 2]
  OBVIOUS
<1>4. /\ x.id = j.id /\ x.sign = Output(j) /\ j2.id = j.id
      /\ Output(j) # "zero" /\ (j.count # 1 => Output(j) = "negative")
  BY <1>2, <1>3 DEF Output
<1>5. j.id \in Ids /\ j.count \in {1, 2}
  BY <1>2
<1> HIDE DEF J, R
<1>6. CASE d # c
  BY <1>1, <1>2, <1>6 DEF FinalOwed
<1>7. CASE d = c
  <2>1. PICK s : s = results[c] /\ s \in Seq(R)
    BY <1>2
  <2>2. /\ \A k \in DOMAIN s : k \in DOMAIN Append(s, x) /\ Append(s, x)[k] = s[k]
        /\ Len(s) + 1 \in DOMAIN Append(s, x) /\ Append(s, x)[Len(s) + 1] = x
    BY <2>1
  <2>3. results'[c] = IF j.id \in idLookup[c] THEN Append(s, x) ELSE s
    BY <1>1, <1>2, <1>3, <2>1
  <2>4. CASE \E k \in DOMAIN s : s[k].id = id /\ s[k].sign = "negative"
    <3>1. PICK k \in DOMAIN s : s[k].id = id /\ s[k].sign = "negative"
      BY <2>4
    <3>2. k \in DOMAIN results'[c] /\ results'[c][k] = s[k]
      BY <2>2, <2>3, <3>1
    <3> QED BY <1>7, <3>1, <3>2 DEF FinalOwed
  <2>5. CASE id \in idLookup[c] /\ \E i \in running[c] : i.id = id
    <3>1. PICK i \in running[c] : i.id = id
      BY <2>5
    <3>2. CASE j.id = id /\ Output(j) = "negative"
      <4>1. PICK k : k = Len(s) + 1
        OBVIOUS
      <4>2. k \in DOMAIN results'[c] /\ results'[c][k] = x
        BY <2>2, <2>3, <2>5, <3>2, <4>1
      <4> QED BY <1>4, <1>7, <3>2, <4>2 DEF FinalOwed
    <3>3. CASE j.id = id /\ Output(j) # "negative"
      <4>1. j2 \in running'[c] /\ idLookup'[c] = idLookup[c]
        BY <1>1, <1>2, <1>3, <1>4, <3>3
      <4> QED BY <1>4, <1>7, <2>5, <3>3, <4>1 DEF FinalOwed
    <3>4. CASE j.id # id
      <4>1. i \in running'[c] /\ id \in idLookup'[c]
        BY <1>1, <1>2, <2>5, <3>1, <3>4
      <4> QED BY <1>7, <3>1, <4>1 DEF FinalOwed
    <3> QED BY <3>2, <3>3, <3>4
  <2> QED BY <1>7, <2>1, <2>4, <2>5 DEF FinalOwed
<1> QED BY <1>6, <1>7

LEMMA AppendOwes ==
  ASSUME ConstantsAssumption, HistoryInv, NEW w \in Writers, AppendBatch(w),
         NEW id, Confirmed(id, Len(chain))',
         Confirmed(id, Len(chain)) =>
           Finished(id, Len(chain)) \/ \E c \in Calculators : FinalOwed(c, id)
  PROVE  Finished(id, Len(chain))' \/ \E c \in Calculators : FinalOwed(c, id)'
<1> DEFINE R == [id: Ids, sign: Signs]
<1>0. /\ TypeOK /\ Len(chain) \in Nat /\ results \in [Calculators -> Seq(R)]
      /\ running = [c \in Calculators |-> running[c]]
      /\ idLookup = [c \in Calculators |-> idLookup[c]]
      /\ CalculatorPending(w) \/ w \notin Calculators
  <2>1. TypeOK /\ Len(chain) \in Nat /\ TypeInv
    BY HistoryFacts
  <2>2. /\ results \in [Calculators -> Seq(R)]
        /\ running = [c \in Calculators |-> running[c]]
        /\ idLookup = [c \in Calculators |-> idLookup[c]]
    BY <2>1 DEF TypeOK
  <2> QED BY <2>1, <2>2 DEF TypeInv, PendingCurrent
<1> HIDE DEF R
<1>1. PICK e \in Entry : e = pending[w][1] /\ Appends(e)
  BY AppendsEntry
<1>2. CASE Finished(id, Len(chain))
  BY <1>0, <1>1, <1>2, AppendFacts
<1>3. CASE ~ Confirmed(id, Len(chain))
  <2>1. e.update = "ConfirmRequestReceipt" /\ id \in e.ids
    BY <1>0, <1>1, <1>3, AppendFacts
  <2>2. w \in Calculators
    <3>1. pending[w] # <<>> /\ (w \in Placers => PlacerPending(w))
      BY HistoryFacts DEF TypeInv, PendingCurrent, AppendBatch
    <3> QED BY <1>1, <2>1, <3>1 DEF PlacerPending, Writers
  <2>3. Effects(w, e)
    BY <1>1, <2>2 DEF AppendBatch
  <2>4. id \in idLookup'[w] /\ \E j \in running'[w] : j.id = id
    <3> DEFINE job(k) == [id |-> k, count |-> 1, sign |-> calc[w].newlyPlacedRequests[k].requestValue]
               J == {job(k) : k \in e.ids}
    <3>1. /\ idLookup' = [idLookup EXCEPT ![w] = @ \cup e.ids]
          /\ running' = [running EXCEPT ![w] = @ \cup J]
      BY <2>1, <2>3 DEF Effects
    <3>2. job(id) \in J /\ job(id).id = id
      BY <2>1
    <3> HIDE DEF J, job
    <3> QED BY <1>0, <2>1, <2>2, <3>1, <3>2
  <2> QED BY <2>2, <2>4 DEF FinalOwed
<1>4. ASSUME NEW c \in Calculators, FinalOwed(c, id), ~ Finished(id, Len(chain))'
      PROVE  FinalOwed(c, id)'
  <2>1. CASE UNCHANGED external
    BY <1>4, <2>1 DEF FinalOwed, external
  <2>2. CASE w \in Calculators /\ Effects(w, e) /\ e.update = "ConfirmRequestReceipt"
    <3>1. PICK J : /\ idLookup' = [idLookup EXCEPT ![w] = @ \cup e.ids] /\ results' = results
                   /\ running' = [running EXCEPT ![w] = @ \cup J]
      BY <2>2 DEF Effects
    <3>2. idLookup[c] \subseteq idLookup'[c] /\ running[c] \subseteq running'[c]
      BY <1>0, <2>2, <3>1
    <3> QED BY <1>4, <3>1, <3>2 DEF FinalOwed
  <2>3. CASE w \in Calculators /\ Effects(w, e) /\ e.update = "RespondToRequest"
    <3>1. /\ results' = [results EXCEPT ![w] = Tail(@)] /\ UNCHANGED <<idLookup, running>>
          /\ results[w] # <<>>
      BY <1>0, <1>1, <2>3 DEF Effects, CalculatorPending, AppendBatch
    <3>2. /\ e.id = results[w][1].id
          /\ e.isFinalResponse <=> results[w][1].sign = "negative"
      BY <1>1, <2>3 DEF HistoryInv, BatchesFit, BatchFits, FitsResponse, AppendBatch
    <3>3. CASE c # w \/ (id \in idLookup[c] /\ \E j \in running[c] : j.id = id)
      BY <1>0, <1>4, <2>3, <3>1, <3>3 DEF FinalOwed
    <3>4. CASE /\ c = w
               /\ \E k \in DOMAIN results[c] :
                    results[c][k].id = id /\ results[c][k].sign = "negative"
      <4>1. PICK s : s = results[w] /\ s \in Seq(R) /\ s # <<>>
        BY <1>0, <2>3, <3>1
      <4>2. PICK k \in DOMAIN s : s[k].id = id /\ s[k].sign = "negative"
        BY <3>4, <4>1
      <4>3. k # 1
        BY <1>0, <1>1, <1>4, <2>3, <3>2, <4>1, <4>2, AppendFacts
      <4>4. PICK m : m = k - 1
        OBVIOUS
      <4>5. m \in DOMAIN Tail(s) /\ Tail(s)[m] = s[k]
        BY <4>1, <4>3, <4>4
      <4>6. results'[w] = Tail(s)
        BY <1>0, <2>3, <3>1, <4>1
      <4> QED BY <3>4, <4>2, <4>5, <4>6 DEF FinalOwed
    <3> QED BY <1>4, <3>3, <3>4 DEF FinalOwed
  <2> QED BY <1>1, <2>1, <2>2, <2>3 DEF AppendBatch, Effects
<1> QED BY <1>2, <1>3, <1>4

LEMMA NoneIsLostStep ==
  ASSUME ConstantsAssumption, "zero" \notin Values, HistoryInv, NoneIsLost, [Next]_vars
  PROVE  NoneIsLost'
<1>0. TypeOK /\ crashes \in Nat
  <2>1. TypeOK
    BY HistoryFacts
  <2> QED BY <2>1 DEF TypeOK
<1>1. ASSUME UNCHANGED <<chain, external, crashes>> PROVE NoneIsLost'
  BY <1>1 DEF NoneIsLost, external, FinalOwed, Confirmed, Finished, IsConfirm, IsResponse
<1>2. ASSUME NEW w \in Writers, AppendBatch(w) PROVE NoneIsLost'
  BY <1>2, AppendOwes DEF NoneIsLost, AppendBatch
<1>3. ASSUME NEW c \in Calculators, CalculateResult(c) PROVE NoneIsLost'
  <2>1. UNCHANGED <<chain, crashes>>
    BY <1>3 DEF CalculateResult
  <2>2. \A d \in Calculators : \A id : FinalOwed(d, id) => FinalOwed(d, id)'
    BY <1>0, <1>3, CalculateOwes
  <2> QED BY <2>1, <2>2 DEF NoneIsLost, Confirmed, Finished, IsConfirm, IsResponse
<1>4. ASSUME crashes' = crashes + 1 PROVE NoneIsLost'
  BY <1>0, <1>4 DEF NoneIsLost
<1>5. CASE Tick \/ UNCHANGED vars
  BY <1>1, <1>5 DEF Tick, vars, external
<1>6. ASSUME NEW w \in Writers, ReadNext(w) \/ AppendFails(w) \/ SaveStep(w) PROVE NoneIsLost'
  BY <1>1, <1>6 DEF ReadNext, AppendFails, SaveStep, StartSave, FinishSave, external
<1>7. ASSUME NEW p \in Placers, PlacerStep(p) PROVE NoneIsLost'
  BY <1>1, <1>4, <1>7 DEF PlacerStep, HandleInput, OneShotWrite, CrashMain, Propose, external
<1>8. ASSUME NEW c \in Calculators, IdleWork(c) \/ PutResult(c) \/ CrashCalc(c) PROVE NoneIsLost'
  BY <1>1, <1>4, <1>8 DEF IdleWork, Accept, TimeOutUnaccepted, CloseHandled, PutResult,
     CrashCalc, Propose, external
<1> QED BY <1>2, <1>3, <1>5, <1>6, <1>7, <1>8 DEF Next, WriterStep, CalculatorStep

\* While no program crashes, the final output of the external calculator is on
\* the chain when nobody owes it any more; unless results can be zero, which the
\* wrapper takes for the last and the handler does not.
THEOREM FinalOutputReachesChainCorrect ==
  "zero" \notin Values /\ Spec => []FinalOutputReachesChain
<1>1. Init => NoneIsLost
  BY DEF Init, NoneIsLost, Confirmed
<1>2. "zero" \notin Values /\ HistoryInv /\ NoneIsLost /\ [Next]_vars => NoneIsLost'
  BY NoneIsLostStep, ConstantsOK
<1>3. HistoryInv /\ NoneIsLost => FinalOutputReachesChain
  <2> SUFFICES ASSUME HistoryInv, NoneIsLost, NEW id \in Ids, crashes = 0,
                      Responded(id, Len(chain)),
                      \A c \in Calculators :
                        /\ \A j \in running[c] : j.id # id
                        /\ \A k \in DOMAIN results[c] : results[c][k].id # id
               PROVE  Finished(id, Len(chain))
    BY DEF FinalOutputReachesChain
  <2>1. PICK n : n = Len(chain) /\ n \in 0..Len(chain)
    BY HistoryFacts
  <2>2. Confirmed(id, Len(chain))
    BY <2>1, HistoryFacts, FirstThings
  <2> QED BY <2>2 DEF NoneIsLost, FinalOwed
<1>4. CASE "zero" \notin Values
  BY <1>1, <1>2, <1>3, <1>4, HistoryCorrect, PTL DEF Spec
<1>5. CASE ~ ("zero" \notin Values)
  BY <1>5
<1> QED BY <1>4, <1>5
=============================================================================
