----------------------------- MODULE SimpleDemo -----------------------------
(***************************************************************************)
(* The demo without a chain (src/simple_demo): the main logic turns input  *)
(* data into commands, at most Limit of which are outstanding, a           *)
(* calculator program answers them over a message queue, and an operator   *)
(* enables, queries and clears.  In a virtual run the main logic uses a    *)
(* calculator of its own (MockCalculatorCombination).                      *)
(*                                                                         *)
(* MainLogicImpl and MainLogic2Impl differ only in who averages the data,  *)
(* that is, in when CreateCommand happens, which is open here.  A command  *)
(* stands for its own key: the framework gives each a new one.             *)
(***************************************************************************)
EXTENDS Integers, FiniteSets, Functions, CalculatorThread

CONSTANTS
  Values,      \* signs of input values
  Limit,       \* commands the main logic lets be outstanding (2)
  MaxId,       \* bound: commands of one life
  Choices,     \* bound: Choices[life][id], the values that command may have
  MaxLives,    \* bound: starts of the main program
  MaxCrashes   \* bound: restarts of the calculator program

ASSUME DemoOK ==
  /\ Values \subseteq {"negative", "zero", "positive"}
  /\ Limit \in Nat /\ MaxId \in Nat
  /\ MaxLives \in Nat \ {0} /\ MaxCrashes \in Nat
  /\ Choices \in [1..MaxLives -> [1..MaxId -> SUBSET Values]]
  /\ Inputs = [life: 1..MaxLives, id: 1..MaxId, value: Values]

VARIABLES
  virtual,      \* the main program runs with the calculator of its own
  life,         \* starts of the main program
  enabled,      \* enabled_
  outstanding,  \* outstandingCommands_
  idCounter,    \* idCounter_
  seen,         \* ids the operator's last query returned
  toCalc,       \* commands on their way
  idLookup,     \* idLookup_ of the calculator program
  mock,         \* <<command, count>> the clock of a virtual run will answer
  toMain,       \* answers on their way: key, <<command, count>> computed
  crashes,      \* restarts of the calculator program
  heard,        \* history: heard[id], the answers this life has been given
  cleared,      \* history: ids the operator has cleared in this life
  lost,         \* history: ids of commands a crash of the calculator took along
  contested     \* history: ids given out while a command of an earlier life with
                \* the same id was in the air

main == <<enabled, outstanding, idCounter>>
history == <<heard, cleared, lost, contested>>
vars == <<virtual, life, main, seen, toCalc, idLookup, mock, toMain, crashes,
          history, thread>>

Ids == 1..MaxId

Init ==
  /\ virtual \in BOOLEAN
  /\ life = 1 /\ enabled = TRUE /\ outstanding = {} /\ idCounter = 0
  /\ seen = {} /\ toCalc = <<>> /\ toMain = <<>> /\ crashes = 0
  /\ idLookup = [id \in {} |-> 0] /\ mock = {} /\ ThreadInit
  /\ heard = [id \in Ids |-> <<>>] /\ cleared = {} /\ lost = {} /\ contested = {}

\* twice the input, then -1: a result that is not positive is final
IsFinal(c, count) == count = 2 \/ c.value # "positive"

\* everything sent and not answered for good, of this life or an earlier one
InTheAir ==
  {toCalc[n] : n \in DOMAIN toCalc} \cup {toMain[n].answer[1] : n \in DOMAIN toMain}
  \cup {j[1] : j \in mock \cup Owed}

-----------------------------------------------------------------------------
(* Main program *)

\* slip: one command too many
HasRoom_OneMore == Cardinality(outstanding) <= Limit

HasRoom == Cardinality(outstanding) < Limit

\* handleInput, when the value is far enough above the average
CreateCommand(v) ==
  /\ enabled /\ HasRoom
  /\ idCounter < MaxId /\ v \in Choices[life][idCounter + 1]
  /\ idCounter' = idCounter + 1
  /\ contested' = contested \cup ({idCounter'} \cap {c.id : c \in InTheAir})
  /\ outstanding' = outstanding \cup {idCounter'}
  /\ toCalc' = Append(toCalc, [life |-> life, id |-> idCounter', value |-> v])
  /\ UNCHANGED <<virtual, life, enabled, seen, idLookup, mock, toMain, crashes,
                 heard, cleared, lost, thread>>

\* slip: the first answer already ends a command
HandleResult_First ==
  /\ toMain # <<>>
  /\ LET id == Head(toMain).key.id IN
       /\ heard' = [heard EXCEPT ![id] = Append(@, Head(toMain).answer)]
       /\ outstanding' = outstanding \ {id}
  /\ toMain' = Tail(toMain)
  /\ UNCHANGED <<virtual, life, enabled, idCounter, seen, toCalc, idLookup, mock,
                 crashes, cleared, lost, contested, thread>>

HandleResult ==
  /\ toMain # <<>>
  /\ LET id == Head(toMain).key.id
         answer == Head(toMain).answer
     IN /\ heard' = [heard EXCEPT ![id] = Append(@, answer)]
        /\ outstanding' = IF IsFinal(answer[1], answer[2]) THEN outstanding \ {id}
                                                           ELSE outstanding
  /\ toMain' = Tail(toMain)
  /\ UNCHANGED <<virtual, life, enabled, idCounter, seen, toCalc, idLookup, mock,
                 crashes, cleared, lost, contested, thread>>

Configure(on) ==
  /\ enabled' = on
  /\ UNCHANGED <<virtual, life, outstanding, idCounter, seen, toCalc, idLookup, mock,
                 toMain, crashes, history, thread>>

QueryOutstandingCommands ==
  /\ seen' = outstanding
  /\ UNCHANGED <<virtual, life, main, toCalc, idLookup, mock, toMain, crashes,
                 history, thread>>

\* The operator clears ids he was told of, perhaps by an earlier life.
ClearCommands(ids) ==
  /\ ids \subseteq seen
  /\ outstanding' = outstanding \ ids
  /\ cleared' = cleared \cup (ids \cap outstanding)
  /\ UNCHANGED <<virtual, life, enabled, idCounter, seen, toCalc, idLookup, mock,
                 toMain, crashes, heard, lost, contested, thread>>

\* Answers to an earlier life have nowhere to go.
RestartMain ==
  /\ life < MaxLives
  /\ life' = life + 1
  /\ enabled' = TRUE /\ outstanding' = {} /\ idCounter' = 0
  /\ toMain' = <<>>
  /\ toCalc' = IF virtual THEN <<>> ELSE toCalc
  /\ mock' = {}
  /\ heard' = [id \in Ids |-> <<>>] /\ cleared' = {} /\ lost' = {} /\ contested' = {}
  /\ UNCHANGED <<virtual, seen, idLookup, crashes, thread>>

-----------------------------------------------------------------------------
(* Calculator program *)

\* CalculatorFacility::handle.  unordered_map::insert keeps a key that is there.
Handle ==
  /\ ~ virtual /\ toCalc # <<>>
  /\ LET c == Head(toCalc) IN
       /\ idLookup' = [id \in DOMAIN idLookup \cup {c.id} |->
                         IF id \in DOMAIN idLookup THEN idLookup[id] ELSE c]
       /\ StartThread(c)
  /\ toCalc' = Tail(toCalc)
  /\ UNCHANGED <<virtual, life, main, seen, mock, toMain, crashes, history>>

\* An answer reaches the main program only if it is the one that asked.
Publish(key, answer) ==
  toMain' = IF key.life = life THEN Append(toMain, [key |-> key, answer |-> answer])
                               ELSE toMain

\* slip: ids that are done with are not forgotten
OnCalculateResult_Keeping(c, count) ==
  /\ Answer(c, count)
  /\ IF c.id \in DOMAIN idLookup THEN Publish(idLookup[c.id], <<c, count>>)
                                 ELSE UNCHANGED toMain
  /\ UNCHANGED <<virtual, life, main, seen, toCalc, idLookup, mock, crashes, history>>

OnCalculateResult(c, count) ==
  /\ Answer(c, count)
  /\ IF c.id \in DOMAIN idLookup
       THEN /\ Publish(idLookup[c.id], <<c, count>>)
            /\ idLookup' = IF IsFinal(c, count)
                             THEN Restrict(idLookup, DOMAIN idLookup \ {c.id})
                             ELSE idLookup
       ELSE UNCHANGED <<toMain, idLookup>>
  /\ UNCHANGED <<virtual, life, main, seen, toCalc, mock, crashes, history>>

ThreadStep ==
  /\ Splice \/ \E c \in Inputs, count \in {1, 2} : Request(c, count)
  /\ UNCHANGED <<virtual, life, main, seen, toCalc, idLookup, mock, toMain, crashes,
                 history>>

\* what a crash of the calculator leaves unanswered
Dropped == {j[1] : j \in Owed}
           \cup (IF toCalc' = toCalc THEN {} ELSE {toCalc[n] : n \in DOMAIN toCalc})

\* Its queue may go with it or be there when it comes back.
RestartCalculator ==
  /\ ~ virtual /\ crashes < MaxCrashes
  /\ crashes' = crashes + 1
  /\ toCalc' \in {toCalc, <<>>}
  /\ lost' = lost \cup {c.id : c \in {d \in Dropped : d.life = life}}
  /\ idLookup' = [id \in {} |-> 0]
  /\ Exit
  /\ UNCHANGED <<virtual, life, main, seen, mock, toMain, heard, cleared,
                 contested>>

-----------------------------------------------------------------------------
(* MockCalculatorCombination::service: the clock calls back at once and two *)
(* seconds later.                                                           *)

MockTake ==
  /\ virtual /\ toCalc # <<>>
  /\ mock' = mock \cup {<<Head(toCalc), 1>>}
  /\ toCalc' = Tail(toCalc)
  /\ UNCHANGED <<virtual, life, main, seen, idLookup, toMain, crashes, history, thread>>

MockAnswer(c, count) ==
  /\ <<c, count>> \in mock
  /\ mock' = (mock \ {<<c, count>>}) \cup (IF count = 1 THEN {<<c, 2>>} ELSE {})
  /\ Publish(c, <<c, count>>)
  /\ UNCHANGED <<virtual, life, main, seen, toCalc, idLookup, crashes, history, thread>>

-----------------------------------------------------------------------------
(* Programs *)

\* the action and the facilities that share one main logic
MainLogicCombination ==
  \/ \E v \in Values : CreateCommand(v)
  \/ HandleResult
  \/ \E on \in BOOLEAN : Configure(on)
  \/ QueryOutstandingCommands
  \/ \E ids \in (SUBSET seen) \ {{}} : ClearCommands(ids)

\* run_real_or_virtual: commands go to the calculator program or, in a virtual
\* run, to a clock
MainProgram ==
  \/ MainLogicCombination
  \/ MockTake \/ \E c \in Inputs, count \in {1, 2} : MockAnswer(c, count)
  \/ RestartMain

CalculatorProgram ==
  \/ Handle \/ ThreadStep
  \/ \E c \in Inputs, count \in {1, 2} : OnCalculateResult(c, count)
  \/ RestartCalculator

Next == MainProgram \/ CalculatorProgram

\* Queues are served and threads run; nothing is promised of data and operator.
Fairness ==
  /\ WF_vars(HandleResult) /\ WF_vars(Handle) /\ WF_vars(MockTake)
  /\ \A c \in Inputs, count \in {1, 2} :
       /\ WF_vars(OnCalculateResult(c, count)) /\ WF_vars(MockAnswer(c, count))
  /\ WF_vars(ThreadStep)

Spec == Init /\ [][Next]_vars /\ Fairness

-----------------------------------------------------------------------------
(* Properties *)

\* Every variable keeps its type, and what is outstanding its limit.
TypeOK ==
  /\ virtual \in BOOLEAN /\ life \in 1..MaxLives
  /\ enabled \in BOOLEAN /\ outstanding \subseteq Ids /\ idCounter \in 0..MaxId
  /\ Cardinality(outstanding) <= Limit
  /\ seen \subseteq Ids
  /\ toCalc \in Seq(Inputs) /\ mock \subseteq Inputs \X {1, 2}
  /\ DOMAIN idLookup \subseteq Ids /\ idLookup \in [DOMAIN idLookup -> Inputs]
  /\ toMain \in Seq([key: Inputs, answer: Inputs \X {1, 2}])
  /\ ThreadTypeOK
  /\ crashes \in 0..MaxCrashes
  /\ heard \in [Ids -> Seq(Inputs \X {1, 2})]
  /\ cleared \subseteq Ids /\ lost \subseteq Ids /\ contested \subseteq Ids

HeardFinal(id) ==
  \E n \in DOMAIN heard[id] : IsFinal(heard[id][n][1], heard[id][n][2])

\* The limit of the main logic is a limit on the work of the calculator: of the
\* commands of this life nobody has cleared, no more than Limit lack their final
\* answer, however late answers are and whatever is still on its way.
LoadIsLimited ==
  Cardinality({c \in InTheAir : /\ c.life = life /\ c.id \notin cleared
                                /\ ~ HeardFinal(c.id)}) <= Limit

\* heard[id], the answers of one command in their order
Story(c) == {<<<<c, 1>>>>, <<<<c, 1>>, <<c, 2>>>>}

\* idLookup_ knows ids only, and ids start again with every start of the main
\* program, which may come while the calculator works on earlier commands: they
\* keep or take the entry of a new command with their id.  Even so a real run
\* hears the end of a command once and nothing of it afterwards; and of a command
\* whose id is not contested in this way it hears what was computed for it, the
\* first answer first and the last one at most once.
AnswersGoHome ==
  \A id \in Ids :
    /\ virtual \/ \A n \in DOMAIN heard[id] :
                    IsFinal(heard[id][n][1], heard[id][n][2]) => n = Len(heard[id])
    /\ id \in contested \/ heard[id] = <<>>
       \/ \E c \in Inputs : c.life = life /\ c.id = id /\ heard[id] \in Story(c)

Stays(id) == id \in outstanding \ (lost \cup contested)

\* Every command is outstanding for a limited time, so that new ones can be
\* created, unless a crash of the calculator took it along or its answers can go
\* to an earlier command with its id, of before a restart of the main program:
\* such a command only the operator can clear.
CommandsFinish == \A id \in Ids : Stays(id) ~> ~ Stays(id)

\* The calculator's threads and queues implement a set of owed answers.
Calculator == INSTANCE TwoAnswers WITH owed <- Owed
ImplementsTwoAnswers == Calculator!Spec
=============================================================================
