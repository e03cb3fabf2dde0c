-------------------------- MODULE MainProgramProof --------------------------
(***************************************************************************)
(* What RequestChain promises also holds around a main program, for any    *)
(* number of programs and inputs: every step of MainProgram is a step of   *)
(* the chain or leaves the chain alone.  On top of it, the routing: every  *)
(* answer goes to the input whose request it is about.  The invariant says *)
(* which entry carries a key, that the reader's map holds the requests it  *)
(* has read, and that each key has heard what they say of its request.     *)
(***************************************************************************)
EXTENDS MainProgram, RequestChainProof

\* Each handler of the main program is one of the chain's or touches nothing of it.
LEMMA MainStepIsChainStep == [MainNext]_allVars => [Next]_vars
<1> SUFFICES ASSUME [MainNext]_allVars PROVE [Next]_vars
  OBVIOUS
<1>0. Self \in Facilities
  BY MainOK
<1>1. Self \in Placers
  BY <1>0 DEF Placers
<1>2. CASE SetEnabled \/ RunLogic \/ Refuse \/ Route
  BY <1>2 DEF SetEnabled, RunLogic, Refuse, Route
<1>3. CASE HandleWaiting
  BY <1>1, <1>3 DEF HandleWaiting, PlacerStep, Next
<1>4. CASE CrashSelf
  BY <1>1, <1>4 DEF CrashSelf, PlacerStep, Next
<1>5. CASE OthersStep
  BY <1>5 DEF OthersStep, Next
<1>6. ASSUME NEW w \in Writers, Write(w) PROVE Next
  BY <1>6 DEF Write, Next
<1>7. CASE UNCHANGED allVars
  BY <1>7 DEF allVars
<1> QED BY <1>2, <1>3, <1>4, <1>5, <1>6, <1>7 DEF MainNext, MainProgram

\* A main program with its inputs and answers is one of the writers of the
\* request chain: all it does to the chain is what RequestChain allows.
THEOREM MainProgramImplementsChain == MainSpec => Spec
<1>1. MainInit => Init
  BY DEF MainInit
<1> QED BY <1>1, MainStepIsChainStep, PTL DEF MainSpec, Spec

\* Hence no id is given twice, which the routing of answers by id relies on.
THEOREM UniqueIdsOfMainProgram == MainSpec => []UniqueIds
  BY MainProgramImplementsChain, UniqueIdsCorrect, PTL

\* And so is the rest of what the chain promises, around this main program.
THEOREM ChainPromisesOfMainProgram ==
  MainSpec => /\ [](ConfirmedOnce /\ OneCompletion /\ FashionIsTrue /\ WindowsRespected)
              /\ FacilityRespectsLimit /\ ImplementsLifecycle
  BY MainProgramImplementsChain, ConfirmedOnceCorrect, OneCompletionCorrect,
     FashionIsTrueCorrect, WindowsRespectedCorrect, FacilityRespectsLimitCorrect,
     ImplementsLifecycleCorrect, PTL

-----------------------------------------------------------------------------
(* Keys: where they wait, and which entries carry them.                     *)

\* A key is carried by the entry of its request alone, and waits before that.
KeysInv ==
  /\ asked \in 0..MaxKeys
  /\ waiting \in Seq(Keys)
  /\ \A m \in 1..Len(waiting) : waiting[m] <= asked
  /\ \A m, n \in 1..Len(waiting) : m < n => waiting[m] < waiting[n]
  /\ externalID \in Seq(Keys \cup {0}) /\ Len(externalID) = Len(chain)
  /\ \A i \in 1..Len(chain) : externalID[i] # 0 =>
       /\ chain[i].update = "PlaceRequest" /\ externalID[i] <= asked
       /\ \A m \in 1..Len(waiting) : waiting[m] # externalID[i]
       /\ \A j \in 1..Len(chain) : externalID[j] = externalID[i] => j = i
  /\ pending[Self] # <<>> => waiting # <<>>

-----------------------------------------------------------------------------
(* Routing: what the reader knows after readAt entries, and what the inputs *)
(* have heard.                                                              *)

\* The map of the reader holds the requests it has read, with their keys.
MapInv ==
  /\ readAt \in 0..Len(chain)
  /\ idMap = [id \in DOMAIN idMap |-> idMap[id]]
  /\ DOMAIN idMap = PlacedBy(readAt)
  /\ \A i \in 1..readAt :
       chain[i].update = "PlaceRequest" => idMap[chain[i].id] = externalID[i]

\* Entry i is about the request of k, which is among the first n entries.
IsAnswer(i, k, n) ==
  \E j \in 1..n : /\ externalID[j] = k /\ chain[j].update = "PlaceRequest"
                  /\ chain[j].id \in About(chain[i])

\* s holds in order the entries up to n that are about the request of k, all of
\* them or those up to its completion.
HasHeard(s, k, n) ==
  /\ Increasing(s)
  /\ \A m \in 1..Len(s) : s[m] \in 1..n /\ IsAnswer(s[m], k, n)
  /\ \A i \in 1..n : IsAnswer(i, k, n) =>
       \/ \E m \in 1..Len(s) : s[m] = i
       \/ \E m \in 1..Len(s) : EndsIt(chain[s[m]]) /\ s[m] < i
  /\ \A m \in 1..Len(s) : EndsIt(chain[s[m]]) => m = Len(s)

KeyHeard(k) ==
  /\ k \in open => /\ HasHeard(heard[k], k, readAt)
                   /\ \A m \in 1..Len(heard[k]) : ~ EndsIt(chain[heard[k][m]])
  /\ k \notin open /\ heard[k] # <<>> =>
       \/ heard[k] = <<Refused>>
       \/ /\ HasHeard(heard[k], k, readAt)
          /\ EndsIt(chain[heard[k][Len(heard[k])]])

HeardInv ==
  /\ open \subseteq Keys /\ heard \in [Keys -> Seq(Nat)]
  /\ \A m \in 1..Len(waiting) : waiting[m] \in open
  /\ \A k \in Keys : k > asked => k \notin open /\ heard[k] = <<>>
  /\ \A k \in Keys : KeyHeard(k)

MainInv == HistoryInv /\ enabled \in BOOLEAN /\ KeysInv /\ MapInv /\ HeardInv

-----------------------------------------------------------------------------
(* The keys.                                                                *)

Copies(k, d) == [i \in 1..d |-> k]

LEMMA Extended ==
  ASSUME NEW S, NEW s \in Seq(S), NEW d \in Nat, NEW k, k \in S \/ d = 0
  PROVE  /\ s \o Copies(k, d) \in Seq(S) /\ Len(s \o Copies(k, d)) = Len(s) + d
         /\ \A i \in 1..Len(s) : (s \o Copies(k, d))[i] = s[i]
         /\ \A i \in 1..(Len(s) + d) : i \in 1..Len(s) \/ (s \o Copies(k, d))[i] = k
<1> DEFINE r == Copies(k, d)
           t == s \o r
<1>1. r \in Seq(S) /\ Len(r) = d
  <2>1. r \in [1..d -> S]
    BY DEF Copies
  <2> QED BY <2>1
<1>2. \A i \in 1..d : r[i] = k
  BY DEF Copies
<1> HIDE DEF r
<1>3. t \in Seq(S) /\ Len(t) = Len(s) + d /\ Len(s) \in Nat
  BY <1>1
<1>4. \A i \in 1..Len(s) : t[i] = s[i]
  BY <1>1
<1>5. ASSUME NEW i \in 1..(Len(s) + d), i \notin 1..Len(s) PROVE t[i] = k
  <2>1. i - Len(s) \in 1..d
    BY <1>3, <1>5
  <2>2. t[i] = r[i - Len(s)]
    BY <1>1, <2>1
  <2> QED BY <1>2, <2>1, <2>2
<1> QED BY <1>3, <1>4, <1>5 DEF r

KeysGrow ==
  /\ Len(externalID) <= Len(externalID')
  /\ \A i \in 1..Len(externalID) : externalID'[i] = externalID[i]

\* What a write does to the keys: it appends entries without a key, or one
\* request with the key that has waited longest.
WritesKeys ==
  /\ externalID' \in Seq(Keys \cup {0}) /\ Len(externalID') = Len(chain')
  /\ KeysGrow
  /\ \/ /\ waiting' = waiting
        /\ \A i \in 1..Len(chain') : i \in 1..Len(chain) \/ externalID'[i] = 0
     \/ /\ waiting # <<>> /\ waiting' = Tail(waiting) /\ pending'[Self] = <<>>
        /\ Len(chain') = Len(chain) + 1
        /\ chain'[Len(chain) + 1].update = "PlaceRequest"
        /\ externalID'[Len(chain) + 1] = Head(waiting)
  /\ pending'[Self] # <<>> => waiting' = waiting /\ pending'[Self] = pending[Self]

LEMMA WriteKeys ==
  ASSUME ConstantsAssumption, HistoryInv, KeysInv, NEW w \in Writers, Write(w)
  PROVE  WritesKeys
<1>0. /\ Self \in Placers /\ Self \in Writers
      /\ pending \in [Writers -> Seq(Entry)] /\ chain \in Seq(Entry) /\ Len(chain) \in Nat
      /\ externalID \in Seq(Keys \cup {0}) /\ Len(externalID) = Len(chain)
      /\ waiting \in Seq(Keys) /\ (pending[Self] # <<>> => waiting # <<>>)
  BY MainOK, HistoryFacts DEF Placers, Writers, TypeOK, KeysInv
<1>s. ASSUME NEW d \in Nat, NEW k, k \in Keys \cup {0} \/ d = 0,
             externalID' = externalID \o Copies(k, d), Len(chain') = Len(chain) + d
      PROVE  /\ externalID' \in Seq(Keys \cup {0}) /\ Len(externalID') = Len(chain')
             /\ KeysGrow
             /\ \A i \in 1..Len(chain') : i \in 1..Len(chain) \/ externalID'[i] = k
  <2> DEFINE S == Keys \cup {0}
             s == externalID
  <2>1. s \in Seq(S) /\ (k \in S \/ d = 0)
    BY <1>0, <1>s
  <2> HIDE DEF S, s
  <2>2. s \o Copies(k, d) \in Seq(S) /\ Len(s \o Copies(k, d)) = Len(s) + d
    BY <2>1, Extended
  <2>3. \A i \in 1..Len(s) : (s \o Copies(k, d))[i] = s[i]
    BY <2>1, Extended
  <2>4. \A i \in 1..(Len(s) + d) : i \in 1..Len(s) \/ (s \o Copies(k, d))[i] = k
    BY <2>1, Extended
  <2> QED BY <1>0, <1>s, <2>2, <2>3, <2>4 DEF KeysGrow, S, s
<1>1. CASE ReadNext(w) \/ AppendFails(w)
  <2>1. chain' = chain /\ (pending'[Self] # <<>> => pending'[Self] = pending[Self])
    BY <1>0, <1>1 DEF ReadNext, AppendFails
  <2>2. Len(chain') - Len(externalID) = 0 /\ waiting' = waiting
    BY <1>0, <2>1 DEF Write
  <2>3. PICK d, k : d = 0 /\ externalID' = externalID \o Copies(k, d)
    BY <2>2 DEF Write, Copies
  <2>4. /\ externalID' \in Seq(Keys \cup {0}) /\ Len(externalID') = Len(chain') /\ KeysGrow
        /\ \A i \in 1..Len(chain') : i \in 1..Len(chain) \/ externalID'[i] = k
    <3>1. Len(chain') = Len(chain) + d /\ d \in Nat
      BY <1>0, <2>1, <2>3
    <3> QED BY <1>s, <2>3, <3>1
  <2> QED BY <2>1, <2>2, <2>4 DEF WritesKeys
<1>2. CASE AppendBatch(w) /\ w # Self
  <2>1. PICK q : q = pending[w]
    OBVIOUS
  <2>2. /\ chain' = chain \o q /\ q \in Seq(Entry) /\ pending'[Self] = pending[Self]
        /\ waiting' = waiting
    BY <1>0, <1>2, <2>1 DEF AppendBatch, Write
  <2>3. Len(chain') = Len(chain) + Len(q) /\ Len(q) \in Nat
    BY <1>0, <2>2
  <2>4. externalID' = externalID \o Copies(0, Len(q))
    <3>1. Len(chain') - Len(externalID) = Len(q)
      BY <1>0, <2>3
    <3> QED BY <1>2, <3>1 DEF Write, Copies
  <2> QED BY <1>0, <1>s, <2>2, <2>3, <2>4 DEF WritesKeys
<1>3. CASE AppendBatch(w) /\ w = Self
  <2>0. PICK q : q = pending[Self]
    OBVIOUS
  <2>1. Len(q) = 1 /\ q[1].update = "PlaceRequest"
    BY <1>0, <1>3, <2>0 DEF AppendBatch, HistoryInv, IdsInv, TypeInv, PendingCurrent, PlacerPending
  <2>2. pending'[Self] = <<>> /\ waiting # <<>>
    BY <1>0, <1>3, <2>0 DEF AppendBatch
  <2>3. chain \in Seq(Entry) /\ q \in Seq(Entry) /\ chain' = chain \o q
    BY <1>0, <1>3, <2>0 DEF AppendBatch
  <2>4. /\ Len(chain') = Len(chain) + Len(q) /\ Len(chain) \in Nat
        /\ \A i \in (Len(chain) + 1)..Len(chain') : chain'[i] = q[i - Len(chain)]
    BY <2>3
  <2>5. Len(chain') = Len(chain) + 1 /\ chain'[Len(chain) + 1] = q[1]
    BY <2>1, <2>4
  <2>6. Head(waiting) \in Keys /\ chain' # chain
    BY <1>0, <2>2, <2>4, <2>5
  <2>7. waiting' = Tail(waiting) /\ externalID' = externalID \o Copies(Head(waiting), 1)
    <3>1. Len(chain') - Len(externalID) = 1
      BY <1>0, <2>5
    <3> QED BY <1>3, <2>6, <3>1 DEF Write, Copies
  <2>8. /\ externalID' \in Seq(Keys \cup {0}) /\ Len(externalID') = Len(chain') /\ KeysGrow
        /\ \A i \in 1..Len(chain') : i \in 1..Len(chain) \/ externalID'[i] = Head(waiting)
    BY <1>0, <1>s, <2>5, <2>6, <2>7
  <2>9. externalID'[Len(chain) + 1] = Head(waiting)
    BY <1>0, <2>5, <2>8
  <2> QED BY <2>1, <2>2, <2>5, <2>7, <2>8, <2>9 DEF WritesKeys
<1> QED BY <1>1, <1>2, <1>3 DEF Write, WriterStep

\* A step either leaves chain and keys alone or is a write.
LEMMA StepOrWrite ==
  ASSUME [MainNext]_allVars
  PROVE  \/ chain' = chain /\ externalID' = externalID
         \/ \E w \in Writers : Write(w)
BY DEF MainNext, MainProgram, SetEnabled, RunLogic, HandleWaiting, HandleInput, Propose, Refuse,
       Route, CrashSelf, CrashMain, OthersStep, Tick, SaveStep, StartSave, FinishSave, PlacerStep,
       OneShotWrite, CalculatorStep, IdleWork, Accept, TimeOutUnaccepted, CloseHandled, PutResult,
       CalculateResult, CrashCalc, allVars, vars, mainVars

LEMMA KeysGrowing ==
  ASSUME ConstantsAssumption, HistoryInv, KeysInv, [MainNext]_allVars
  PROVE  Grows /\ KeysGrow
<1>1. Grows
  BY MainStepIsChainStep, StepGrows, HistoryFacts
<1>2. externalID' = externalID => KeysGrow
  BY DEF KeysInv, KeysGrow
<1> QED BY <1>1, <1>2, StepOrWrite, WriteKeys DEF WritesKeys

LEMMA KeysStep ==
  ASSUME ConstantsAssumption, HistoryInv, KeysInv, [MainNext]_allVars
  PROVE  KeysInv'
<1>0. /\ asked \in Nat /\ MaxKeys \in Nat /\ asked <= MaxKeys /\ Len(chain) \in Nat
      /\ waiting \in Seq(Keys) /\ Len(waiting) \in Nat
      /\ externalID \in Seq(Keys \cup {0}) /\ Len(externalID) = Len(chain)
      /\ pending = [x \in Writers |-> pending[x]] /\ Self \in Writers /\ Self \notin Calculators
  BY MainOK, HistoryFacts DEF KeysInv, ConstantsAssumption, TypeOK, Writers, Placers
<1>1. ASSUME UNCHANGED <<asked, waiting, externalID, chain>>,
             pending'[Self] # <<>> => pending'[Self] = pending[Self] \/ waiting # <<>>
      PROVE  KeysInv'
  BY <1>1 DEF KeysInv
<1>2. CASE SetEnabled \/ HandleWaiting \/ Route \/ UNCHANGED allVars
  BY <1>1, <1>2 DEF SetEnabled, HandleWaiting, HandleInput, Propose, Route, allVars, mainVars, vars
<1>3. CASE OthersStep
  <2>1. pending'[Self] = pending[Self]
    BY <1>0, <1>3 DEF OthersStep, Tick, SaveStep, StartSave, FinishSave, PlacerStep, HandleInput,
       OneShotWrite, CrashMain, CalculatorStep, IdleWork, Accept, TimeOutUnaccepted, CloseHandled,
       PutResult, CalculateResult, CrashCalc, Propose
  <2>2. UNCHANGED <<chain, mainVars>>
    BY <1>3 DEF OthersStep, Tick, SaveStep, StartSave, FinishSave, PlacerStep, HandleInput,
       OneShotWrite, CrashMain, CalculatorStep, IdleWork, Accept, TimeOutUnaccepted, CloseHandled,
       PutResult, CalculateResult, CrashCalc, Propose
  <2> QED BY <1>1, <2>1, <2>2 DEF mainVars
<1>4. CASE RunLogic
  <2>1. /\ asked' = asked + 1 /\ asked' \in Keys /\ asked' <= MaxKeys /\ asked' \in Nat
        /\ waiting' = Append(waiting, asked')
        /\ UNCHANGED <<externalID, chain, pending>>
    BY <1>0, <1>4 DEF RunLogic, vars, Keys
  <2>2. /\ waiting' \in Seq(Keys) /\ Len(waiting') = Len(waiting) + 1
        /\ \A m \in 1..Len(waiting) : waiting'[m] = waiting[m]
        /\ waiting'[Len(waiting) + 1] = asked'
    BY <1>0, <2>1
  <2>3. \A m \in 1..Len(waiting') : m \in 1..Len(waiting) \/ m = Len(waiting) + 1
    BY <1>0, <2>2
  <2>4. \A m \in 1..Len(waiting) : waiting[m] \in Nat /\ waiting[m] <= asked
    BY <1>0 DEF KeysInv, Keys
  <2>5. /\ \A m \in 1..Len(waiting') : waiting'[m] <= asked'
        /\ \A m, n \in 1..Len(waiting') : m < n => waiting'[m] < waiting'[n]
    BY <1>0, <2>1, <2>2, <2>3, <2>4 DEF KeysInv
  <2>6. \A i \in 1..Len(chain) : externalID[i] # 0 =>
          externalID[i] \in Nat /\ externalID[i] <= asked' /\ externalID[i] # asked'
    BY <1>0, <2>1 DEF KeysInv, Keys
  <2>7. \A i \in 1..Len(chain) : externalID[i] # 0 =>
          \A m \in 1..Len(waiting') : waiting'[m] # externalID[i]
    BY <2>2, <2>3, <2>6 DEF KeysInv
  <2>8. pending'[Self] # <<>> => waiting' # <<>>
    BY <1>0, <2>2
  <2> QED BY <1>0, <2>1, <2>2, <2>5, <2>6, <2>7, <2>8 DEF KeysInv
<1>5. ASSUME waiting # <<>>, waiting' = Tail(waiting)
      PROVE  /\ waiting' \in Seq(Keys) /\ Len(waiting') = Len(waiting) - 1
             /\ \A m \in 1..Len(waiting') : m + 1 \in 1..Len(waiting) /\ waiting'[m] = waiting[m + 1]
             /\ \A m \in 1..Len(waiting') : waiting'[m] <= asked
             /\ \A m, n \in 1..Len(waiting') : m < n => waiting'[m] < waiting'[n]
             /\ \A m \in 1..Len(waiting') : waiting'[m] # Head(waiting)
             /\ Head(waiting) \in Keys /\ Head(waiting) = waiting[1] /\ Head(waiting) <= asked
  <2>1. /\ waiting' \in Seq(Keys) /\ Len(waiting') = Len(waiting) - 1
        /\ \A m \in 1..Len(waiting') : waiting'[m] = waiting[m + 1]
    BY <1>0, <1>5
  <2>2. \A m \in 1..Len(waiting') : m + 1 \in 1..Len(waiting) /\ m \in Nat /\ m + 1 > 1
    BY <1>0, <2>1
  <2>3. 1 \in 1..Len(waiting) /\ Head(waiting) = waiting[1] /\ waiting[1] \in Keys
    BY <1>0, <1>5
  <2>4. \A m \in 1..Len(waiting) : waiting[m] \in Nat
    BY <1>0 DEF Keys
  <2>5. \A m \in 1..Len(waiting') : waiting[1] < waiting[m + 1] /\ waiting[m + 1] <= asked
    BY <2>2, <2>3 DEF KeysInv
  <2>6. \A m, n \in 1..Len(waiting') : m < n => waiting[m + 1] < waiting[n + 1]
    BY <2>2 DEF KeysInv
  <2>7. \A m \in 1..Len(waiting') : waiting[m + 1] # waiting[1]
    BY <2>2, <2>3, <2>4, <2>5
  <2> QED BY <2>1, <2>2, <2>3, <2>5, <2>6, <2>7 DEF KeysInv
<1>6. CASE Refuse
  <2>1. waiting # <<>> /\ waiting' = Tail(waiting) /\ UNCHANGED <<asked, externalID, chain>>
    BY <1>6 DEF Refuse, vars
  <2>2. pending'[Self] = <<>>
    BY <1>6 DEF Refuse, AtTail, vars
  <2>3. \A i \in 1..Len(chain) : externalID[i] # 0 =>
          \A m \in 1..Len(waiting') : waiting'[m] # externalID[i]
    BY <1>5, <2>1 DEF KeysInv
  <2> QED BY <1>5, <2>1, <2>2, <2>3 DEF KeysInv
<1>7. CASE CrashSelf
  <2>1. waiting' = <<>> /\ UNCHANGED <<asked, externalID, chain>> /\ pending'[Self] = <<>>
    BY <1>0, <1>7 DEF CrashSelf, CrashMain
  <2> QED BY <2>1 DEF KeysInv
<1>8. ASSUME NEW w \in Writers, Write(w) PROVE KeysInv'
  <2>1. WritesKeys /\ Grows /\ asked' = asked
    BY <1>8, WriteKeys, KeysGrowing DEF Write
  <2>2. /\ externalID' \in Seq(Keys \cup {0}) /\ Len(externalID') = Len(chain')
        /\ Len(chain) <= Len(chain') /\ Len(chain') \in Nat
        /\ \A i \in 1..Len(chain) : i \in 1..Len(chain')
                                    /\ chain'[i] = chain[i] /\ externalID'[i] = externalID[i]
    BY <1>0, <2>1 DEF WritesKeys, KeysGrow, Grows
  <2>3. CASE /\ waiting' = waiting
             /\ \A i \in 1..Len(chain') : i \in 1..Len(chain) \/ externalID'[i] = 0
    <3>1. pending'[Self] # <<>> => waiting' # <<>>
      BY <2>1 DEF KeysInv, WritesKeys
    <3>2. \A i \in 1..Len(chain') : externalID'[i] # 0 => i \in 1..Len(chain)
      BY <2>3
    <3> QED BY <2>1, <2>2, <2>3, <3>1, <3>2 DEF KeysInv
  <2>4. CASE /\ waiting # <<>> /\ waiting' = Tail(waiting) /\ pending'[Self] = <<>>
             /\ Len(chain') = Len(chain) + 1
             /\ chain'[Len(chain) + 1].update = "PlaceRequest"
             /\ externalID'[Len(chain) + 1] = Head(waiting)
    <3>1. PICK n, h : n = Len(chain) + 1 /\ h = Head(waiting)
      OBVIOUS
    <3>2. \A i \in 1..Len(chain') : i \in 1..Len(chain) \/ i = n
      BY <1>0, <2>4, <3>1
    <3>3. n \notin 1..Len(chain)
      BY <1>0, <3>1
    <3>4. /\ h \in Keys /\ h <= asked /\ 1 \in 1..Len(waiting) /\ h = waiting[1]
          /\ \A m \in 1..Len(waiting') : waiting'[m] # h
      BY <1>0, <1>5, <2>4, <3>1
    <3>5. \A i \in 1..Len(chain) : externalID[i] # h
      BY <3>4 DEF KeysInv, Keys
    <3>6. \A i \in 1..Len(chain) : externalID[i] # 0 =>
            \A m \in 1..Len(waiting') : waiting'[m] # externalID[i]
      BY <1>5, <2>4 DEF KeysInv
    <3>7. \A i \in 1..Len(chain') : externalID'[i] # 0 =>
            /\ chain'[i].update = "PlaceRequest" /\ externalID'[i] <= asked
            /\ \A m \in 1..Len(waiting') : waiting'[m] # externalID'[i]
            /\ \A j \in 1..Len(chain') : externalID'[j] = externalID'[i] => j = i
      <4>1. ASSUME NEW i \in 1..Len(chain), externalID[i] # 0,
                   NEW j \in 1..Len(chain'), externalID'[j] = externalID[i]
            PROVE  j = i
        <5>1. j # n
          BY <2>4, <3>1, <3>5, <4>1
        <5>2. j \in 1..Len(chain) /\ externalID[j] = externalID[i]
          BY <2>2, <3>2, <4>1, <5>1
        <5> QED BY <4>1, <5>2 DEF KeysInv
      <4>2. \A j \in 1..Len(chain') : externalID'[j] = h => j = n
        BY <2>2, <3>2, <3>5
      <4>3. \A i \in 1..Len(chain) : externalID[i] # 0 =>
              chain[i].update = "PlaceRequest" /\ externalID[i] <= asked
        BY DEF KeysInv
      <4>4. ASSUME NEW i \in 1..Len(chain'), externalID'[i] # 0, i \in 1..Len(chain)
            PROVE  /\ chain'[i].update = "PlaceRequest" /\ externalID'[i] <= asked
                   /\ \A m \in 1..Len(waiting') : waiting'[m] # externalID'[i]
                   /\ \A j \in 1..Len(chain') : externalID'[j] = externalID'[i] => j = i
        BY <2>2, <3>6, <4>1, <4>3, <4>4
      <4> QED BY <2>4, <3>1, <3>2, <3>4, <4>2, <4>4
    <3> QED BY <1>5, <2>1, <2>2, <2>4, <3>7 DEF KeysInv
  <2> QED BY <2>1, <2>3, <2>4 DEF WritesKeys
<1> QED BY <1>2, <1>3, <1>4, <1>6, <1>7, <1>8 DEF MainNext, MainProgram

-----------------------------------------------------------------------------
(* The reader's map.                                                        *)

LEMMA MapKept ==
  ASSUME MapInv, KeysInv, Grows, KeysGrow, Len(chain) \in Nat, Len(chain') \in Nat,
         UNCHANGED <<idMap, readAt>>
  PROVE  MapInv'
<1>1. /\ readAt \in 0..Len(chain) /\ readAt \in 0..Len(chain')
      /\ \A i \in 1..readAt : chain'[i] = chain[i] /\ externalID'[i] = externalID[i]
  BY DEF MapInv, KeysInv, Grows, KeysGrow
<1>2. PlacedBy(readAt)' = PlacedBy(readAt)
  BY <1>1 DEF PlacedBy
<1> QED BY <1>1, <1>2 DEF MapInv

\* Reading an entry adds the request it places, which is not in the map yet.
LEMMA MapRead ==
  ASSUME ConstantsAssumption, HistoryInv, MapInv, Route
  PROVE  MapInv'
<1> DEFINE n == readAt
           e == chain[n + 1]
<1>0. /\ n \in Nat /\ n < Len(chain) /\ Len(chain) \in Nat /\ n + 1 \in 1..Len(chain)
      /\ readAt' = n + 1 /\ idMap' = Known(n + 1) /\ UNCHANGED <<chain, externalID>>
  BY HistoryFacts DEF MapInv, Route, vars
<1>1. idMap = [id \in DOMAIN idMap |-> idMap[id]] /\ DOMAIN idMap = PlacedBy(n)
  BY DEF MapInv
<1>2. \A i \in 1..(n + 1) : i \in 1..n \/ i = n + 1
  BY <1>0
<1>3. \A i \in 1..n : i \in 1..(n + 1)
  BY <1>0
<1>4. CASE e.update = "PlaceRequest"
  <2>1. idMap' = Insert(idMap, [id \in {e.id} |-> externalID[n + 1]])
    BY <1>0, <1>4 DEF Known
  <2>2. ~ Placed(e.id, n)
    BY <1>0, <1>4, PlacedAnew, HistoryFacts DEF IsPlace
  <2>3. e.id \notin DOMAIN idMap
    BY <1>1, <2>2 DEF PlacedBy, Placed
  <2>4. /\ DOMAIN idMap' = DOMAIN idMap \cup {e.id}
        /\ idMap' = [id \in DOMAIN idMap' |-> idMap'[id]]
        /\ \A id \in DOMAIN idMap : idMap'[id] = idMap[id]
        /\ idMap'[e.id] = externalID[n + 1]
    BY <2>1, <2>3 DEF Insert
  <2>5. PlacedBy(n + 1) = PlacedBy(n) \cup {e.id}
    BY <1>2, <1>3, <1>4, <1>0 DEF PlacedBy
  <2>6. PlacedBy(readAt)' = PlacedBy(n + 1)
    BY <1>0 DEF PlacedBy
  <2>7. ASSUME NEW i \in 1..(n + 1), chain[i].update = "PlaceRequest"
        PROVE  idMap'[chain[i].id] = externalID[i]
    <3>1. CASE i = n + 1
      BY <2>4, <3>1
    <3>2. CASE i \in 1..n
      <4>1. chain[i].id \in DOMAIN idMap
        BY <1>1, <2>7, <3>2 DEF PlacedBy
      <4>2. idMap[chain[i].id] = externalID[i]
        BY <2>7, <3>2 DEF MapInv
      <4> QED BY <2>4, <4>1, <4>2
    <3> QED BY <1>2, <3>1, <3>2
  <2>8. \A i \in 1..readAt' :
          chain'[i].update = "PlaceRequest" => idMap'[chain'[i].id] = externalID'[i]
    BY <1>0, <2>7
  <2>9. readAt' \in 0..Len(chain') /\ DOMAIN idMap' = PlacedBy(readAt)'
    <3>1. readAt' \in 0..Len(chain')
      BY <1>0
    <3>2. DOMAIN idMap' = PlacedBy(n + 1)
      BY <1>1, <2>4, <2>5
    <3> QED BY <2>6, <3>1, <3>2
  <2> QED BY <2>4, <2>8, <2>9 DEF MapInv
<1>5. CASE e.update # "PlaceRequest"
  <2>1. idMap' = idMap
    BY <1>0, <1>5 DEF Known
  <2>2. PlacedBy(n + 1) = PlacedBy(n)
    BY <1>2, <1>3, <1>5 DEF PlacedBy
  <2>3. PlacedBy(readAt)' = PlacedBy(n + 1)
    BY <1>0 DEF PlacedBy
  <2>4. \A i \in 1..(n + 1) : chain[i].update = "PlaceRequest" => i \in 1..n
    BY <1>2, <1>5
  <2> QED BY <1>0, <1>1, <2>1, <2>2, <2>3, <2>4 DEF MapInv
<1> QED BY <1>4, <1>5

\* Only the reader and a crash touch what the reader has.
LEMMA ReadingStep ==
  ASSUME [MainNext]_allVars
  PROVE  Route \/ CrashSelf \/ UNCHANGED <<idMap, readAt>>
BY DEF MainNext, MainProgram, SetEnabled, RunLogic, HandleWaiting, Refuse, OthersStep, Write,
       allVars, mainVars, routing

LEMMA MapStep ==
  ASSUME ConstantsAssumption, HistoryInv, HistoryInv', KeysInv, MapInv, [MainNext]_allVars
  PROVE  MapInv'
<1>1. Len(chain) \in Nat /\ Len(chain') \in Nat
  BY HistoryFacts DEF HistoryInv, IdsInv, TypeInv, TypeOK
<1>2. CASE UNCHANGED <<idMap, readAt>>
  BY <1>1, <1>2, MapKept, KeysGrowing
<1>3. CASE Route
  BY <1>3, MapRead
<1>4. CASE CrashSelf
  <2>1. readAt' = 0 /\ idMap' = EmptyMap
    BY <1>4 DEF CrashSelf
  <2>2. PlacedBy(readAt)' = {}
    BY <2>1 DEF PlacedBy
  <2> QED BY <1>1, <2>1, <2>2 DEF MapInv, EmptyMap
<1> QED BY <1>2, <1>3, <1>4, ReadingStep

-----------------------------------------------------------------------------
(* What the inputs have heard.                                              *)

LEMMA AnswersKept ==
  ASSUME KeysInv, Grows, KeysGrow, Len(chain) \in Nat, NEW n \in 0..Len(chain),
         NEW i \in 1..n, NEW k
  PROVE  IsAnswer(i, k, n)' <=> IsAnswer(i, k, n)
<1>1. \A j \in 1..n : chain'[j] = chain[j] /\ externalID'[j] = externalID[j]
  BY DEF KeysInv, Grows, KeysGrow
<1> QED BY <1>1 DEF IsAnswer, About

LEMMA HeardKept ==
  ASSUME KeysInv, Grows, KeysGrow, Len(chain) \in Nat, NEW n \in 0..Len(chain),
         NEW k, NEW s \in Seq(Nat), HasHeard(s, k, n)
  PROVE  /\ HasHeard(s, k, n)'
         /\ \A m \in 1..Len(s) : EndsIt(chain[s[m]])' <=> EndsIt(chain[s[m]])
<1>1. \A j \in 1..n : chain'[j] = chain[j]
  BY DEF Grows
<1>2. \A m \in 1..Len(s) : s[m] \in 1..n
  BY DEF HasHeard
<1>3. \A m \in 1..Len(s) : EndsIt(chain[s[m]])' <=> EndsIt(chain[s[m]])
  BY <1>1, <1>2 DEF EndsIt
<1>4. \A i \in 1..n : IsAnswer(i, k, n)' <=> IsAnswer(i, k, n)
  BY AnswersKept
<1> QED BY <1>2, <1>3, <1>4 DEF HasHeard, Increasing

\* What the extractor finds for the entry it reads are the keys it is about.
LEMMA ExtractsAnswers ==
  ASSUME ConstantsAssumption, HistoryInv, MapInv, readAt < Len(chain), NEW k
  PROVE  k \in Extract(readAt + 1) <=> IsAnswer(readAt + 1, k, readAt + 1)
<1> DEFINE n == readAt
           e == chain[n + 1]
<1>0. /\ n \in Nat /\ n + 1 \in 1..Len(chain) /\ Len(chain) \in Nat /\ UniqueIds
      /\ \A j \in 1..(n + 1) : j \in 1..n \/ j = n + 1
      /\ \A j \in 1..n : j \in 1..(n + 1)
      /\ \A j \in 1..(n + 1) : j \in 1..Len(chain)
      /\ n + 1 \in 1..(n + 1)
  BY HistoryFacts DEF MapInv
<1>1. CASE e.update = "PlaceRequest"
  <2>1. About(e) = {e.id}
    BY <1>1 DEF About
  <2>2. Extract(n + 1) = {externalID[n + 1]}
    BY <1>1 DEF Extract
  <2>3. ASSUME NEW j \in 1..(n + 1), chain[j].update = "PlaceRequest", chain[j].id = e.id
        PROVE  j = n + 1
    BY <1>0, <1>1, <2>3 DEF UniqueIds
  <2> QED BY <1>0, <1>1, <2>1, <2>2, <2>3 DEF IsAnswer
<1>2. CASE e.update # "PlaceRequest"
  <2>1. Extract(n + 1) = {idMap[id] : id \in About(e) \cap DOMAIN idMap}
    BY <1>2 DEF Extract
  <2>2. DOMAIN idMap = PlacedBy(n)
    BY DEF MapInv
  <2>3. ASSUME NEW id \in About(e) \cap DOMAIN idMap, k = idMap[id]
        PROVE  IsAnswer(n + 1, k, n + 1)
    <3>1. PICK j \in 1..n : chain[j].update = "PlaceRequest" /\ chain[j].id = id
      BY <2>2, <2>3 DEF PlacedBy
    <3>2. externalID[j] = k
      BY <2>3, <3>1 DEF MapInv
    <3> QED BY <1>0, <2>3, <3>1, <3>2 DEF IsAnswer
  <2>4. ASSUME IsAnswer(n + 1, k, n + 1) PROVE k \in Extract(n + 1)
    <3>1. PICK j \in 1..(n + 1) : /\ externalID[j] = k /\ chain[j].update = "PlaceRequest"
                                  /\ chain[j].id \in About(e)
      BY <2>4 DEF IsAnswer
    <3>2. j \in 1..n
      BY <1>0, <1>2, <3>1
    <3>3. chain[j].id \in DOMAIN idMap
      BY <2>2, <3>1, <3>2 DEF PlacedBy
    <3>4. idMap[chain[j].id] = k
      BY <3>1, <3>2 DEF MapInv
    <3> QED BY <2>1, <3>1, <3>3, <3>4
  <2> QED BY <2>1, <2>3, <2>4
<1> QED BY <1>1, <1>2

\* A request placed by the next entry is not what earlier entries are about.
LEMMA AnswersSoFar ==
  ASSUME ConstantsAssumption, HistoryInv, NEW n \in Nat, n < Len(chain), NEW i \in 1..n, NEW k
  PROVE  IsAnswer(i, k, n + 1) <=> IsAnswer(i, k, n)
<1>0. /\ Len(chain) \in Nat /\ TypeOK /\ UniqueIds /\ History /\ n \in 0..Len(chain)
      /\ \A j \in 1..(n + 1) : j \in 1..n \/ j = n + 1
      /\ \A j \in 1..n : j \in 1..(n + 1)
      /\ i \in 1..Len(chain) /\ chain[i] \in Entry
  BY HistoryFacts
<1>1. ASSUME chain[n + 1].update = "PlaceRequest", chain[n + 1].id \in About(chain[i])
      PROVE  FALSE
  <2>1. PICK id : id = chain[n + 1].id
    OBVIOUS
  <2>2. ~ Placed(id, n) /\ ~ Confirmed(id, n) /\ ~ Responded(id, n) /\ ~ Completed(id, n)
    BY <1>0, <1>1, <2>1, PlacedAnew DEF IsPlace
  <2>3. chain[i].update \in {"PlaceRequest", "ConfirmRequestReceipt", "RespondToRequest",
                             "RequestCompleted"}
    BY <1>0 DEF Entry
  <2>4. id \in About(chain[i])
    BY <1>1, <2>1
  <2> QED BY <2>2, <2>3, <2>4 DEF About, Placed, Confirmed, Responded, Completed, IsConfirm,
             IsResponse, IsCompletion
<1> QED BY <1>0, <1>1 DEF IsAnswer

LEMMA HearsNext ==
  ASSUME ConstantsAssumption, HistoryInv, NEW n \in Nat, n < Len(chain), NEW k,
         NEW s \in Seq(Nat), HasHeard(s, k, n)
  PROVE  /\ (\A m \in 1..Len(s) : ~ EndsIt(chain[s[m]]))
            => /\ IsAnswer(n + 1, k, n + 1) => HasHeard(Append(s, n + 1), k, n + 1)
               /\ ~ IsAnswer(n + 1, k, n + 1) => HasHeard(s, k, n + 1)
         /\ s # <<>> /\ EndsIt(chain[s[Len(s)]]) => HasHeard(s, k, n + 1)
<1>0. /\ \A j \in 1..(n + 1) : j \in 1..n \/ j = n + 1
      /\ \A j \in 1..n : j \in 1..(n + 1)
      /\ n + 1 \in 1..(n + 1)
  OBVIOUS
<1>1. \A m \in 1..Len(s) : s[m] \in 1..n /\ s[m] \in 1..(n + 1) /\ IsAnswer(s[m], k, n)
  BY <1>0 DEF HasHeard
<1>2. \A i \in 1..n : IsAnswer(i, k, n + 1) <=> IsAnswer(i, k, n)
  BY AnswersSoFar
<1>3. \A i \in 1..n : IsAnswer(i, k, n) =>
        \/ \E m \in 1..Len(s) : s[m] = i
        \/ \E m \in 1..Len(s) : EndsIt(chain[s[m]]) /\ s[m] < i
  BY DEF HasHeard
<1>4. /\ \A a, b \in DOMAIN s : a < b => s[a] < s[b]
      /\ \A m \in 1..Len(s) : EndsIt(chain[s[m]]) => m = Len(s)
  BY DEF HasHeard, Increasing
<1>5. ASSUME \A m \in 1..Len(s) : ~ EndsIt(chain[s[m]]), IsAnswer(n + 1, k, n + 1)
      PROVE  HasHeard(Append(s, n + 1), k, n + 1)
  <2>0. n + 1 \in Nat
    OBVIOUS
  <2>1. PICK t : t = Append(s, n + 1) /\ t \in Seq(Nat)
    <3>1. Append(s, n + 1) \in Seq(Nat)
      BY <2>0
    <3> QED BY <3>1
  <2>2. PICK L : L = Len(s) + 1
    OBVIOUS
  <2>3. /\ Len(t) = L /\ DOMAIN t = 1..L /\ DOMAIN s = 1..Len(s) /\ t[L] = n + 1
        /\ \A m \in 1..Len(s) : t[m] = s[m]
    BY <2>1, <2>2
  <2>4. /\ \A m \in 1..L : m \in 1..Len(s) \/ m = L
        /\ \A m \in 1..Len(s) : m \in 1..L /\ m < L
        /\ L \in 1..L
    BY <2>2
  <2>5. Increasing(t)
    <3>1. ASSUME NEW a \in 1..L, NEW b \in 1..L, a < b PROVE t[a] < t[b]
      <4>1. a \in 1..Len(s)
        BY <2>2, <2>4, <3>1
      <4>2. CASE b \in 1..Len(s)
        BY <1>4, <2>3, <3>1, <4>1, <4>2
      <4>3. CASE b = L
        BY <1>1, <2>3, <4>1, <4>3
      <4> QED BY <2>4, <4>2, <4>3
    <3> QED BY <2>3, <3>1 DEF Increasing
  <2>6. \A m \in 1..L : t[m] \in 1..(n + 1) /\ IsAnswer(t[m], k, n + 1)
    BY <1>0, <1>1, <1>2, <1>5, <2>3, <2>4
  <2>7. ASSUME NEW i \in 1..(n + 1), IsAnswer(i, k, n + 1) PROVE \E m \in 1..L : t[m] = i
    <3>1. CASE i = n + 1
      BY <2>3, <2>4, <3>1
    <3>2. CASE i \in 1..n
      <4>1. PICK m \in 1..Len(s) : s[m] = i
        BY <1>2, <1>3, <1>5, <2>7, <3>2
      <4> QED BY <2>3, <2>4, <4>1
    <3> QED BY <1>0, <3>1, <3>2
  <2>8. \A m \in 1..L : EndsIt(chain[t[m]]) => m = L
    BY <1>5, <2>3, <2>4
  <2>9. HasHeard(t, k, n + 1)
    BY <2>3, <2>5, <2>6, <2>7, <2>8 DEF HasHeard
  <2> QED BY <2>1, <2>9
<1>6. ASSUME \/ ~ IsAnswer(n + 1, k, n + 1)
             \/ s # <<>> /\ EndsIt(chain[s[Len(s)]])
      PROVE  HasHeard(s, k, n + 1)
  <2>1. ASSUME NEW i \in 1..(n + 1), IsAnswer(i, k, n + 1)
        PROVE  \/ \E m \in 1..Len(s) : s[m] = i
               \/ \E m \in 1..Len(s) : EndsIt(chain[s[m]]) /\ s[m] < i
    <3>1. CASE i \in 1..n
      BY <1>2, <1>3, <2>1, <3>1
    <3>2. CASE i = n + 1
      <4>1. s # <<>> /\ EndsIt(chain[s[Len(s)]])
        BY <1>6, <2>1, <3>2
      <4>2. Len(s) \in 1..Len(s)
        BY <4>1
      <4>3. s[Len(s)] < n + 1
        BY <1>1, <4>2
      <4> QED BY <3>2, <4>1, <4>2, <4>3
    <3> QED BY <1>0, <3>1, <3>2
  <2>2. \A m \in 1..Len(s) : s[m] \in 1..(n + 1) /\ IsAnswer(s[m], k, n + 1)
    BY <1>1, <1>2
  <2>3. Increasing(s)
    BY DEF HasHeard
  <2> QED BY <1>4, <2>1, <2>2, <2>3 DEF HasHeard
<1> QED BY <1>5, <1>6

LEMMA KeyKept ==
  ASSUME KeysInv, Grows, KeysGrow, Len(chain) \in Nat, readAt \in 0..Len(chain),
         NEW k \in Keys, KeyHeard(k), heard[k] \in Seq(Nat),
         heard'[k] = heard[k], k \in open' <=> k \in open, readAt' = readAt
  PROVE  KeyHeard(k)'
<1>1. PICK s, n : s = heard[k] /\ n = readAt /\ s \in Seq(Nat)
  OBVIOUS
<1>2. HasHeard(s, k, n) => /\ HasHeard(s, k, n)'
                           /\ \A m \in 1..Len(s) : EndsIt(chain[s[m]])' <=> EndsIt(chain[s[m]])
  BY <1>1, HeardKept
<1>3. k \in open => /\ HasHeard(s, k, n)
                    /\ \A m \in 1..Len(s) : ~ EndsIt(chain[s[m]])
  BY <1>1 DEF KeyHeard
<1>4. k \notin open /\ s # <<>> => \/ s = <<Refused>>
                                   \/ HasHeard(s, k, n) /\ EndsIt(chain[s[Len(s)]])
  BY <1>1 DEF KeyHeard
<1>5. s # <<>> => Len(s) \in 1..Len(s)
  BY <1>1
<1>6. k \in open => /\ HasHeard(s, k, n)'
                    /\ \A m \in 1..Len(s) : ~ EndsIt(chain[s[m]])'
  BY <1>2, <1>3
<1>7. k \notin open /\ s # <<>> => \/ s = <<Refused>>
                                   \/ HasHeard(s, k, n)' /\ EndsIt(chain[s[Len(s)]])'
  BY <1>2, <1>4, <1>5
<1>8. heard'[k] = s /\ readAt' = n
  BY <1>1
<1> QED BY <1>6, <1>7, <1>8 DEF KeyHeard, Refused

\* The reader tells the keys the entry is about, as long as they listen.
LEMMA RouteHeard ==
  ASSUME ConstantsAssumption, HistoryInv, KeysInv, MapInv, HeardInv, Route
  PROVE  HeardInv'
<1> DEFINE n == readAt
           K == Extract(n + 1) \cap open
<1>0. /\ n \in Nat /\ n < Len(chain) /\ n + 1 \in 0..Len(chain) /\ Len(chain) \in Nat
      /\ readAt' = n + 1 /\ UNCHANGED <<chain, externalID, waiting, asked>>
      /\ open' = IF EndsIt(chain[n + 1]) THEN open \ K ELSE open
      /\ heard' = [k \in Keys |-> IF k \in K THEN Append(heard[k], n + 1) ELSE heard[k]]
  BY HistoryFacts DEF MapInv, Route, vars, Answer
<1>1. /\ open \subseteq Keys /\ heard \in [Keys -> Seq(Nat)]
      /\ \A m \in 1..Len(waiting) : waiting[m] \in open
      /\ \A k \in Keys : k > asked => k \notin open /\ heard[k] = <<>>
  BY DEF HeardInv
<1>2. \A k \in open : k \in K <=> IsAnswer(n + 1, k, n + 1)
  BY <1>0, ExtractsAnswers
<1>3. ASSUME NEW k \in K PROVE \E j \in 1..Len(chain) : externalID[j] = k /\ k # 0
  <2>1. IsAnswer(n + 1, k, n + 1) /\ k \in Keys
    BY <1>1, <1>2
  <2>2. \A j \in 1..(n + 1) : j \in 1..Len(chain)
    BY <1>0
  <2> QED BY <2>1, <2>2 DEF IsAnswer, Keys
<1>4. \A m \in 1..Len(waiting) : waiting[m] \notin K
  BY <1>3 DEF KeysInv
<1>5. \A k \in K : k <= asked
  BY <1>3 DEF KeysInv
<1>6. heard' \in [Keys -> Seq(Nat)]
  <2>1. n + 1 \in Nat
    BY <1>0
  <2>2. \A k \in Keys : Append(heard[k], n + 1) \in Seq(Nat) /\ heard[k] \in Seq(Nat)
    BY <1>1, <2>1
  <2> QED BY <1>0, <2>2
<1>7. ASSUME NEW k \in Keys PROVE KeyHeard(k)'
  <2>0. PICK r : r = n + 1 /\ readAt' = r /\ r \in 0..Len(chain)
    BY <1>0
  <2>1. PICK s, t : s = heard[k] /\ t = heard'[k] /\ s \in Seq(Nat) /\ t \in Seq(Nat)
    BY <1>1, <1>6
  <2>2. t = IF k \in K THEN Append(s, n + 1) ELSE s
    BY <1>0, <2>1
  <2>3. /\ k \in open => HasHeard(s, k, n) /\ \A m \in 1..Len(s) : ~ EndsIt(chain[s[m]])
        /\ k \notin open /\ s # <<>> =>
             s = <<Refused>> \/ (HasHeard(s, k, n) /\ EndsIt(chain[s[Len(s)]]))
    BY <2>1 DEF HeardInv, KeyHeard
  <2>4. ASSUME HasHeard(t, k, r)
        PROVE  /\ HasHeard(t, k, r)'
               /\ \A m \in 1..Len(t) : EndsIt(chain[t[m]])' <=> EndsIt(chain[t[m]])
    <3>1. Grows /\ KeysGrow
      BY <1>0 DEF Grows, KeysGrow, KeysInv
    <3> QED BY <1>0, <2>0, <2>1, <2>4, <3>1, HeardKept
  <2>5. CASE k \in K
    <3>1. k \in open /\ IsAnswer(n + 1, k, n + 1) /\ t = Append(s, n + 1)
      BY <1>2, <2>2, <2>5
    <3>2. HasHeard(t, k, r)
      BY <1>0, <2>0, <2>1, <2>3, <3>1, HearsNext
    <3>3. /\ Len(t) = Len(s) + 1 /\ Len(s) \in Nat /\ t[Len(s) + 1] = n + 1
          /\ \A m \in 1..Len(s) : t[m] = s[m]
      BY <1>0, <2>1, <3>1
    <3>4. \A m \in 1..Len(t) : m \in 1..Len(s) \/ m = Len(s) + 1
      BY <3>3
    <3>5. Len(t) \in 1..Len(t) /\ t # <<>>
      BY <2>1, <3>3
    <3>6. CASE EndsIt(chain[n + 1])
      <4>1. k \notin open' /\ EndsIt(chain[t[Len(t)]])
        BY <1>0, <2>5, <3>3, <3>6
      <4>2. HasHeard(t, k, r)' /\ EndsIt(chain[t[Len(t)]])'
        BY <2>4, <3>2, <3>5, <4>1
      <4> QED BY <2>0, <2>1, <4>1, <4>2 DEF KeyHeard
    <3>7. CASE ~ EndsIt(chain[n + 1])
      <4>1. k \in open' /\ \A m \in 1..Len(t) : ~ EndsIt(chain[t[m]])
        BY <1>0, <2>3, <3>1, <3>3, <3>4, <3>7
      <4>2. HasHeard(t, k, r)' /\ \A m \in 1..Len(t) : ~ EndsIt(chain[t[m]])'
        BY <2>4, <3>2, <4>1
      <4> QED BY <2>0, <2>1, <4>1, <4>2 DEF KeyHeard
    <3> QED BY <3>6, <3>7
  <2>6. CASE k \notin K
    <3>1. t = s /\ (k \in open' <=> k \in open)
      BY <1>0, <2>2, <2>6
    <3>2. CASE k \in open
      <4>1. ~ IsAnswer(n + 1, k, n + 1)
        BY <1>2, <2>6, <3>2
      <4>2. HasHeard(t, k, r)
        BY <1>0, <2>0, <2>1, <2>3, <3>1, <3>2, <4>1, HearsNext
      <4>3. HasHeard(t, k, r)' /\ \A m \in 1..Len(t) : ~ EndsIt(chain[t[m]])'
        BY <2>3, <2>4, <3>1, <3>2, <4>2
      <4> QED BY <2>0, <2>1, <3>1, <3>2, <4>3 DEF KeyHeard
    <3>3. CASE k \notin open /\ s # <<>> /\ s # <<Refused>>
      <4>1. HasHeard(s, k, n) /\ EndsIt(chain[s[Len(s)]])
        BY <2>3, <3>3
      <4>2. HasHeard(t, k, r)
        BY <1>0, <2>0, <2>1, <3>1, <3>3, <4>1, HearsNext
      <4>3. Len(t) \in 1..Len(t)
        BY <2>1, <3>1, <3>3
      <4>4. HasHeard(t, k, r)' /\ EndsIt(chain[t[Len(t)]])'
        BY <2>4, <3>1, <4>1, <4>2, <4>3
      <4> QED BY <2>0, <2>1, <3>1, <3>3, <4>4 DEF KeyHeard
    <3>4. CASE k \notin open /\ (s = <<>> \/ s = <<Refused>>)
      BY <2>1, <3>1, <3>4 DEF KeyHeard, Refused
    <3> QED BY <3>2, <3>3, <3>4
  <2> QED BY <2>5, <2>6
<1>8. open' \subseteq Keys /\ \A m \in 1..Len(waiting) : waiting[m] \in open'
  BY <1>0, <1>1, <1>4
<1>9. \A k \in Keys : k > asked => k \notin open' /\ heard'[k] = <<>>
  <2>1. ASSUME NEW k \in Keys, k > asked PROVE k \notin K
    BY <1>5, <2>1 DEF KeysInv, Keys
  <2> QED BY <1>0, <1>1, <2>1
<1> QED BY <1>0, <1>6, <1>7, <1>8, <1>9 DEF HeardInv

LEMMA HeardStep ==
  ASSUME ConstantsAssumption, HistoryInv, KeysInv, MapInv, HeardInv, [MainNext]_allVars
  PROVE  HeardInv'
<1>0. /\ Grows /\ KeysGrow /\ Len(chain) \in Nat /\ readAt \in 0..Len(chain)
      /\ asked \in Nat /\ waiting \in Seq(Keys)
      /\ open \subseteq Keys /\ heard \in [Keys -> Seq(Nat)]
      /\ \A m \in 1..Len(waiting) : waiting[m] \in open
      /\ \A k \in Keys : k > asked => k \notin open /\ heard[k] = <<>>
      /\ \A k \in Keys : KeyHeard(k) /\ heard[k] \in Seq(Nat)
  BY KeysGrowing, HistoryFacts DEF HeardInv, MapInv, KeysInv
<1>1. ASSUME UNCHANGED <<open, heard, readAt, asked>>,
             \A m \in 1..Len(waiting') : waiting'[m] \in open
      PROVE  HeardInv'
  <2>1. ASSUME NEW k \in Keys PROVE KeyHeard(k)'
    BY <1>0, <1>1, KeyKept
  <2> QED BY <1>0, <1>1, <2>1 DEF HeardInv
<1>2. CASE SetEnabled \/ HandleWaiting \/ OthersStep \/ UNCHANGED allVars
  <2>1. UNCHANGED <<open, heard, readAt, asked, waiting>>
    BY <1>2 DEF SetEnabled, HandleWaiting, OthersStep, allVars, mainVars, routing
  <2> QED BY <1>0, <1>1, <2>1
<1>3. ASSUME NEW w \in Writers, Write(w) PROVE HeardInv'
  <2>1. UNCHANGED <<open, heard, readAt, asked>> /\ WritesKeys
    BY <1>3, WriteKeys DEF Write, routing
  <2>2. waiting' = waiting \/ (waiting # <<>> /\ waiting' = Tail(waiting))
    BY <2>1 DEF WritesKeys
  <2>3. CASE waiting # <<>> /\ waiting' = Tail(waiting)
    <3>1. \A m \in 1..Len(waiting') : m + 1 \in 1..Len(waiting) /\ waiting'[m] = waiting[m + 1]
      BY <1>0, <2>3
    <3> QED BY <1>0, <1>1, <2>1, <3>1
  <2> QED BY <1>0, <1>1, <2>1, <2>2, <2>3
<1>4. CASE RunLogic
  <2>1. PICK a : a = asked + 1 /\ a \in Keys /\ asked' = a
    BY <1>0, <1>4, MainOK DEF RunLogic, Keys
  <2>2. open' = open \cup {a} /\ waiting' = Append(waiting, a)
        /\ UNCHANGED <<heard, readAt, chain, externalID>>
    BY <1>4, <2>1 DEF RunLogic, vars
  <2>3. heard[a] = <<>>
    BY <1>0, <2>1
  <2>4. ASSUME NEW k \in Keys, k # a PROVE KeyHeard(k)'
    BY <1>0, <2>2, <2>4, KeyKept
  <2>5. KeyHeard(a)'
    <3>1. PICK s, r : s = heard[a] /\ s = <<>> /\ r = readAt /\ r \in 0..Len(chain)
      BY <1>0, <2>3
    <3>2. \A j \in 1..Len(chain) : externalID[j] # a
      <4>1. \A j \in 1..Len(chain) : externalID[j] # 0 => externalID[j] <= asked
        BY DEF KeysInv
      <4>2. a # 0 /\ ~ (a <= asked)
        BY <1>0, <2>1 DEF Keys
      <4> QED BY <4>1, <4>2
    <3>3. \A i : ~ IsAnswer(i, a, r)
      BY <1>0, <3>1, <3>2 DEF IsAnswer
    <3>4. HasHeard(s, a, r)
      BY <3>1, <3>3 DEF HasHeard, Increasing
    <3>5. s \in Seq(Nat)
      BY <1>0, <2>1, <3>1
    <3>6. HasHeard(s, a, r)'
      BY <1>0, <2>1, <3>1, <3>4, <3>5, HeardKept
    <3>7. heard'[a] = s /\ readAt' = r
      BY <2>2, <3>1
    <3> QED BY <2>2, <3>1, <3>6, <3>7 DEF KeyHeard
  <2>6. \A m \in 1..Len(waiting') : waiting'[m] \in open'
    <3>1. /\ Len(waiting') = Len(waiting) + 1 /\ waiting'[Len(waiting) + 1] = a
          /\ \A m \in 1..Len(waiting) : waiting'[m] = waiting[m]
          /\ \A m \in 1..Len(waiting') : m \in 1..Len(waiting) \/ m = Len(waiting) + 1
      BY <1>0, <2>1, <2>2
    <3> QED BY <1>0, <2>2, <3>1
  <2>7. open' \subseteq Keys
    BY <1>0, <2>1, <2>2
  <2>8. \A k \in Keys : k > a => k \notin open' /\ heard[k] = <<>>
    <3>1. \A k \in Keys : k \in Nat
      BY DEF Keys
    <3> QED BY <1>0, <2>1, <2>2, <3>1
  <2> QED BY <1>0, <2>1, <2>2, <2>4, <2>5, <2>6, <2>7, <2>8 DEF HeardInv
<1>5. CASE Refuse
  <2>1. PICK h : h = Head(waiting)
    OBVIOUS
  <2>2. /\ waiting # <<>> /\ open' = open \ {h} /\ waiting' = Tail(waiting)
        /\ heard' = [k \in Keys |-> IF k \in {h} THEN Append(heard[k], Refused) ELSE heard[k]]
        /\ UNCHANGED <<asked, chain, readAt>>
    BY <1>5, <2>1 DEF Refuse, Answer, vars
  <2>3. /\ 1 \in 1..Len(waiting) /\ h = waiting[1] /\ h \in open /\ h \in Keys
        /\ \A m \in 1..Len(waiting') : m + 1 \in 1..Len(waiting) /\ 1 < m + 1
                                       /\ waiting'[m] = waiting[m + 1]
    BY <1>0, <2>1, <2>2
  <2>4. \A j \in 1..Len(chain) : externalID[j] # h
    BY <2>3 DEF KeysInv, Keys
  <2>5. heard[h] = <<>>
    <3>1. PICK s : s = heard[h] /\ s \in Seq(Nat)
      BY <1>0, <2>3
    <3>2. HasHeard(s, h, readAt)
      BY <1>0, <2>3, <3>1 DEF KeyHeard
    <3>3. \A i : ~ IsAnswer(i, h, readAt)
      BY <1>0, <2>4 DEF IsAnswer
    <3>4. \A m \in 1..Len(s) : FALSE
      BY <3>2, <3>3 DEF HasHeard
    <3> QED BY <3>1, <3>4
  <2>6. heard' \in [Keys -> Seq(Nat)] /\ heard'[h] = <<Refused>>
    <3>1. Append(heard[h], Refused) = <<Refused>> /\ <<Refused>> \in Seq(Nat)
      BY <2>5 DEF Refused
    <3> QED BY <1>0, <2>2, <2>3, <3>1
  <2>7. ASSUME NEW k \in Keys PROVE KeyHeard(k)'
    <3>1. CASE k = h
      BY <2>2, <2>6, <3>1 DEF KeyHeard, Refused
    <3>2. CASE k # h
      <4>1. heard'[k] = heard[k] /\ (k \in open' <=> k \in open)
        BY <2>2, <3>2
      <4> QED BY <1>0, <2>2, <4>1, KeyKept
    <3> QED BY <3>1, <3>2
  <2>8. \A m \in 1..Len(waiting') : waiting'[m] \in open'
    <3>1. ASSUME NEW m \in 1..Len(waiting') PROVE waiting[m + 1] # h
      <4>1. waiting[1] < waiting[m + 1] /\ waiting[1] \in Nat
        BY <1>0, <2>3 DEF KeysInv, Keys
      <4> QED BY <2>3, <4>1
    <3> QED BY <1>0, <2>2, <2>3, <3>1
  <2>9. \A k \in Keys : k > asked => k \notin open' /\ heard'[k] = <<>>
    <3>1. h <= asked /\ asked \in Nat /\ h \in Nat
      BY <1>0, <2>3 DEF KeysInv, Keys
    <3> QED BY <1>0, <2>2, <3>1
  <2> QED BY <1>0, <2>2, <2>6, <2>7, <2>8, <2>9 DEF HeardInv
<1>6. CASE CrashSelf
  <2>1. waiting' = <<>> /\ open' = {} /\ heard' = [k \in Keys |-> <<>>]
    BY <1>6 DEF CrashSelf
  <2> QED BY <2>1 DEF HeardInv, KeyHeard
<1> QED BY <1>2, <1>3, <1>4, <1>5, <1>6, RouteHeard DEF MainNext, MainProgram

-----------------------------------------------------------------------------
LEMMA MainCorrect == MainSpec => []MainInv
<1> DEFINE J == enabled \in BOOLEAN /\ KeysInv /\ MapInv /\ HeardInv
<1>1. MainInit => J
  <2> SUFFICES ASSUME MainInit PROVE J
    OBVIOUS
  <2>1. /\ enabled = TRUE /\ asked = 0 /\ waiting = <<>> /\ externalID = <<>> /\ chain = <<>>
        /\ open = {} /\ idMap = EmptyMap /\ readAt = 0
        /\ heard = [k \in Keys |-> <<>>] /\ pending = [w \in Writers |-> <<>>]
    BY DEF MainInit, Init
  <2>2. KeysInv
    <3>1. Self \in Writers /\ MaxKeys \in Nat
      BY MainOK DEF Writers, Placers
    <3> QED BY <2>1, <3>1 DEF KeysInv
  <2>3. MapInv
    BY <2>1 DEF MapInv, EmptyMap, PlacedBy
  <2>4. HeardInv
    BY <2>1 DEF HeardInv, KeyHeard
  <2> QED BY <2>1, <2>2, <2>3, <2>4
<1>2. HistoryInv /\ HistoryInv' /\ J /\ [MainNext]_allVars => J'
  <2> SUFFICES ASSUME HistoryInv, HistoryInv', J, [MainNext]_allVars PROVE J'
    OBVIOUS
  <2>1. enabled' \in BOOLEAN
    BY DEF MainNext, MainProgram, SetEnabled, RunLogic, HandleWaiting, Refuse, Route, CrashSelf,
           OthersStep, Write, allVars, mainVars
  <2> QED BY <2>1, ConstantsOK, KeysStep, MapStep, HeardStep
<1> QED BY <1>1, <1>2, MainProgramImplementsChain, HistoryCorrect, PTL DEF MainSpec, MainInv

LEMMA MainInvType == MainInv => MainTypeOK
<1> SUFFICES ASSUME MainInv PROVE MainTypeOK
  OBVIOUS
<1>0. TypeOK /\ Len(chain) \in Nat /\ \A i \in 1..Len(chain) : chain[i] \in Entry
  BY HistoryFacts DEF MainInv
<1>1. /\ enabled \in BOOLEAN /\ asked \in 0..MaxKeys /\ waiting \in Seq(Keys)
      /\ externalID \in Seq(Keys \cup {0}) /\ Len(externalID) = Len(chain)
      /\ open \subseteq Keys /\ heard \in [Keys -> Seq(Nat)]
      /\ \A m \in 1..Len(waiting) : waiting[m] \in open
      /\ readAt \in 0..Len(chain)
  BY DEF MainInv, KeysInv, MapInv, HeardInv
<1>2. ASSUME NEW id \in DOMAIN idMap PROVE id \in Ids /\ idMap[id] \in Keys \cup {0}
  <2>1. PICK i \in 1..readAt : chain[i].update = "PlaceRequest" /\ chain[i].id = id
    BY <1>2 DEF MainInv, MapInv, PlacedBy
  <2>2. idMap[id] = externalID[i] /\ i \in 1..Len(chain)
    BY <1>0, <1>1, <2>1 DEF MainInv, MapInv
  <2>3. chain[i].id \in Ids
    BY <1>0, <2>1, <2>2 DEF Entry
  <2>4. externalID[i] \in Keys \cup {0}
    BY <1>1, <2>2
  <2> QED BY <2>1, <2>2, <2>3, <2>4
<1>3. idMap = [id \in DOMAIN idMap |-> idMap[id]]
  BY DEF MainInv, MapInv
<1>4. idMap \in [DOMAIN idMap -> Keys \cup {0}] /\ DOMAIN idMap \subseteq Ids
  BY <1>2, <1>3
<1>5. {waiting[n] : n \in DOMAIN waiting} \subseteq open
  BY <1>1
<1> QED BY <1>1, <1>4, <1>5 DEF MainTypeOK

\* The variables of a main program keep their types, and every key that waits
\* for the facility is one somebody waits for.
THEOREM MainTypeCorrect == MainSpec => []MainTypeOK
  BY MainCorrect, MainInvType, PTL

LEMMA HeardIsStory ==
  ASSUME MainInv, NEW k \in Keys, NEW s \in Seq(Nat), HasHeard(s, k, readAt),
         \/ \A m \in 1..Len(s) : ~ EndsIt(chain[s[m]])
         \/ s # <<>> /\ EndsIt(chain[s[Len(s)]])
  PROVE  {s[n] : n \in DOMAIN s} = Story(k) /\ Increasing(s)
<1> DEFINE told == {i \in 1..readAt : IsAnswer(i, k, readAt)}
           end == {i \in told : EndsIt(chain[i])}
<1>1. Story(k) = {i \in told : \A j \in end : i <= j}
  <2>1. ASSUME NEW i \in 1..readAt
        PROVE  About(chain[i]) \cap {chain[j].id : j \in RequestOf(k)} # {}
                 <=> IsAnswer(i, k, readAt)
    BY DEF IsAnswer, RequestOf
  <2> QED BY <2>1 DEF Story, EndsIt
<1>2. /\ \A a, b \in 1..Len(s) : a < b => s[a] < s[b]
      /\ \A m \in 1..Len(s) : s[m] \in told /\ s[m] \in Nat
      /\ \A i \in told : \/ \E m \in 1..Len(s) : s[m] = i
                         \/ \E m \in 1..Len(s) : EndsIt(chain[s[m]]) /\ s[m] < i
      /\ \A m \in 1..Len(s) : EndsIt(chain[s[m]]) => m = Len(s)
  BY DEF HasHeard, Increasing
<1>3. readAt \in Nat /\ \A i \in told : i \in Nat
  BY HistoryFacts DEF MainInv, MapInv
<1>4. ASSUME NEW m \in 1..Len(s), NEW j \in end PROVE s[m] <= j
  <2>1. PICK b \in 1..Len(s) : EndsIt(chain[s[b]]) /\ (s[b] = j \/ s[b] < j)
    BY <1>2
  <2>2. b = Len(s)
    BY <1>2, <2>1
  <2>3. m = b \/ m < b
    BY <2>2
  <2>4. s[m] = s[b] \/ s[m] < s[b]
    BY <1>2, <2>3
  <2> QED BY <1>2, <1>3, <2>1, <2>4
<1>5. ASSUME NEW i \in told, \A j \in end : i <= j PROVE \E m \in 1..Len(s) : s[m] = i
  <2>1. SUFFICES ASSUME NEW m \in 1..Len(s), EndsIt(chain[s[m]]), s[m] < i PROVE FALSE
    BY <1>2
  <2>2. s[m] \in end /\ i <= s[m]
    BY <1>2, <1>5, <2>1
  <2> QED BY <1>2, <1>3, <2>1, <2>2
<1>6. DOMAIN s = 1..Len(s) /\ Increasing(s)
  BY DEF HasHeard
<1> HIDE DEF told, end
<1>7. \A m \in 1..Len(s) : s[m] \in Story(k)
  BY <1>1, <1>2, <1>4
<1>8. \A i \in Story(k) : \E m \in 1..Len(s) : s[m] = i
  BY <1>1, <1>5
<1> QED BY <1>6, <1>7, <1>8

\* Whoever asked hears the whole story of his own request, every entry once and
\* in order, and nothing else, however other programs' entries, late answers,
\* double completions and crashes interleave with it.
THEOREM AnswersAreOneStoryCorrect == MainSpec => []AnswersAreOneStory
<1>1. MainInv => AnswersAreOneStory
  <2> SUFFICES ASSUME MainInv, NEW k \in open \cup {j \in Keys : heard[j] # <<>>},
                      heard[k] # <<Refused>>
               PROVE  /\ {heard[k][n] : n \in DOMAIN heard[k]} = Story(k)
                      /\ Increasing(heard[k])
    BY DEF AnswersAreOneStory
  <2>1. k \in Keys /\ heard[k] \in Seq(Nat) /\ KeyHeard(k)
    BY DEF MainInv, HeardInv
  <2>2. PICK s \in Seq(Nat) : s = heard[k]
    BY <2>1
  <2>3. /\ HasHeard(s, k, readAt)
        /\ \/ \A m \in 1..Len(s) : ~ EndsIt(chain[s[m]])
           \/ s # <<>> /\ EndsIt(chain[s[Len(s)]])
    BY <2>1, <2>2 DEF KeyHeard
  <2> QED BY <2>1, <2>2, <2>3, HeardIsStory
<1> QED BY <1>1, MainCorrect, PTL
=============================================================================
