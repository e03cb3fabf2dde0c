----------------------------- MODULE MainProgram -----------------------------
(***************************************************************************)
(* One main program of the chain version, Self, among the other writers of *)
(* RequestChain.  Input data that passes the operation logic gets a key    *)
(* (an id of the environment) and waits for the chain-backed facility,     *)
(* which places a request that carries the key, or refuses it; a reader of *)
(* its own then routes what the chain says of a request to the key in it.  *)
(* The averages that select the input data are left out: any datum may     *)
(* pass.  An answer is the number of the chain entry it brings.            *)
(***************************************************************************)
EXTENDS RequestChain

CONSTANTS
  Self,      \* the main program
  MaxKeys,   \* bound: inputs that pass the operation logic
  MaxOthers  \* bound: requests others place

ASSUME MainOK ==
  Self \in Facilities /\ MaxKeys \in Nat /\ MaxOthers \in Nat /\ MaxKeys + MaxOthers <= MaxId

VARIABLES
  enabled,     \* enabled_ of the operation logic
  asked,       \* keys given so far
  waiting,     \* keys the facility has yet to handle
  externalID,  \* externalID[i]: the key entry i carries, 0 if it is no key of Self
  open,        \* keys of this life that expect more answers
  idMap,       \* idMap_
  readAt,      \* how far the facility's reader is
  heard        \* history: heard[k], the entries k has been answered with

routing == <<open, idMap, readAt, heard>>
mainVars == <<enabled, asked, waiting, externalID, routing>>
allVars == <<vars, mainVars>>

Keys == 1..MaxKeys

\* the answer to an input that is not placed
Refused == 0

MainInit ==
  /\ Init
  /\ enabled = TRUE /\ asked = 0 /\ waiting = <<>> /\ externalID = <<>>
  /\ open = {} /\ idMap = EmptyMap /\ readAt = 0
  /\ heard = [k \in Keys |-> <<>>]

-----------------------------------------------------------------------------
(* From the data to the facility *)

\* convertToBool and OperationLogic::setEnabled: an update of the enable server;
\* looked at as long as there are inputs for it to stop
SetEnabled ==
  /\ asked < MaxKeys
  /\ enabled' = ~ enabled
  /\ UNCHANGED <<vars, asked, waiting, externalID, routing>>

\* OperationLogic::runLogic and keyify
RunLogic ==
  /\ enabled /\ asked < MaxKeys
  /\ asked' = asked + 1
  /\ waiting' = Append(waiting, asked')
  /\ open' = open \cup {asked'}
  /\ UNCHANGED <<vars, enabled, externalID, idMap, readAt, heard>>

Answer(K, i) == heard' = [k \in Keys |-> IF k \in K THEN Append(heard[k], i) ELSE heard[k]]

HandleWaiting ==
  /\ waiting # <<>>
  /\ HandleInput(Self)
  /\ UNCHANGED mainVars

\* slip: what is refused stays in the queue and is tried again
Refuse_Retrying ==
  /\ waiting # <<>> /\ AtTail(Self)
  /\ Cardinality(main[Self].outstandingIDs) >= Limit
  /\ Answer({Head(waiting)}, Refused)
  /\ open' = open \ {Head(waiting)}
  /\ UNCHANGED <<vars, enabled, asked, waiting, externalID, idMap, readAt>>

\* writeSucceeded: what is not to be written is answered at once, for good
Refuse ==
  /\ waiting # <<>> /\ AtTail(Self)
  /\ Cardinality(main[Self].outstandingIDs) >= Limit
  /\ Answer({Head(waiting)}, Refused)
  /\ open' = open \ {Head(waiting)}
  /\ waiting' = Tail(waiting)
  /\ UNCHANGED <<vars, enabled, asked, externalID, idMap, readAt>>

\* requests others have placed; a one-shot tool ends with the last of them
ByOthers ==
  Cardinality({i \in DOMAIN chain : chain[i].update = "PlaceRequest" /\ externalID[i] = 0})
OthersMayPlace == ByOthers < MaxOthers

\* what an entry carries is part of it from the append on
Write(w) ==
  /\ w \in Tools => OthersMayPlace
  /\ WriterStep(w)
  /\ externalID' = externalID \o [i \in 1..(Len(chain') - Len(externalID)) |->
                                    IF w = Self THEN Head(waiting) ELSE 0]
  /\ waiting' = IF w = Self /\ chain' # chain THEN Tail(waiting) ELSE waiting
  /\ UNCHANGED <<enabled, asked, routing>>

-----------------------------------------------------------------------------
(* From the chain to who asked: MainProgramIDAndFinalFlagExtractor *)

About(e) == IF e.update = "ConfirmRequestReceipt" THEN e.ids ELSE {e.id}

\* unordered_map::insert keeps what is there
Known(i) ==
  IF chain[i].update = "PlaceRequest"
  THEN Insert(idMap, [id \in {chain[i].id} |-> externalID[i]])
  ELSE idMap

\* the keys that are told of entry i
Extract(i) ==
  IF chain[i].update = "PlaceRequest" THEN {externalID[i]}
  ELSE {idMap[id] : id \in About(chain[i]) \cap DOMAIN idMap}

\* slip: the last answer to a request is taken for the end of it
EndsIt_Response(e) == e.update = "RespondToRequest" /\ e.isFinalResponse

EndsIt(e) == e.update = "RequestCompleted"

\* The framework forgets a key with its final answer, and drops answers to keys
\* it does not know.
Route ==
  /\ readAt < Len(chain)
  /\ LET i == readAt + 1
         K == Extract(i) \cap open
     IN /\ readAt' = i
        /\ idMap' = Known(i)
        /\ Answer(K, i)
        /\ open' = IF EndsIt(chain[i]) THEN open \ K ELSE open
  /\ UNCHANGED <<vars, enabled, asked, waiting, externalID>>

-----------------------------------------------------------------------------
\* Who asked goes with the process.  The reader of the next one starts at the
\* beginning of the chain, as in print_chain, which prints whole chains with it.
CrashSelf ==
  /\ CrashMain(Self)
  /\ enabled' = TRUE /\ waiting' = <<>>
  /\ open' = {} /\ idMap' = EmptyMap /\ readAt' = 0
  /\ heard' = [k \in Keys |-> <<>>]
  /\ UNCHANGED <<asked, externalID>>

OthersStep ==
  /\ \/ Tick
     \/ \E w \in Writers : SaveStep(w)
     \/ OthersMayPlace /\ \E p \in Placers \ {Self} : PlacerStep(p)
     \/ \E c \in Calculators : CalculatorStep(c)
  /\ UNCHANGED mainVars

MainProgram == SetEnabled \/ RunLogic \/ HandleWaiting \/ Refuse \/ Route \/ CrashSelf

MainNext == MainProgram \/ OthersStep \/ \E w \in Writers : Write(w)

MainSpec == MainInit /\ [][MainNext]_allVars

-----------------------------------------------------------------------------
(* Properties *)

\* Every variable keeps its type, and nothing waits that nobody waits for.
MainTypeOK ==
  /\ enabled \in BOOLEAN /\ asked \in 0..MaxKeys
  /\ waiting \in Seq(Keys) /\ {waiting[n] : n \in DOMAIN waiting} \subseteq open
  /\ open \subseteq Keys
  /\ externalID \in Seq(Keys \cup {0}) /\ Len(externalID) = Len(chain)
  /\ idMap \in [DOMAIN idMap -> Keys \cup {0}] /\ DOMAIN idMap \subseteq Ids
  /\ readAt \in 0..Len(chain)
  /\ heard \in [Keys -> Seq(Nat)]

RequestOf(k) == {i \in 1..readAt : externalID[i] = k /\ chain[i].update = "PlaceRequest"}

\* what the entries the reader has read say of the request of k, as far as its
\* completion
Story(k) ==
  LET ids == {chain[i].id : i \in RequestOf(k)}
      told == {i \in 1..readAt : About(chain[i]) \cap ids # {}}
      end == {i \in told : chain[i].update = "RequestCompleted"}
  IN {i \in told : \A j \in end : i <= j}

Increasing(s) == \A m, n \in DOMAIN s : m < n => s[m] < s[n]

\* Who asked hears the whole story of his own request, in order, each entry
\* once, and nothing else: not of requests of others, nor anything after the
\* completion, which calculators write twice and answers may follow.
AnswersAreOneStory ==
  \A k \in open \cup {j \in Keys : heard[j] # <<>>} :
    \/ heard[k] = <<Refused>>
    \/ /\ {heard[k][n] : n \in DOMAIN heard[k]} = Story(k)
       /\ Increasing(heard[k])
=============================================================================
