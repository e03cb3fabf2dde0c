--------------------------- MODULE SimpleDemoProof ---------------------------
(***************************************************************************)
(* Proofs about the demo without a chain, for any number of commands,      *)
(* lives of the main program, crashes of the calculator, and any limit.    *)
(*                                                                         *)
(* A command is in one place at a time: on its way to the calculator, then *)
(* in its thread or the clock of a virtual run, once for each answer that  *)
(* is still due.  That the answers find the right command needs more: an   *)
(* id means another command in the next life, so the story of a command is *)
(* told for the ids that no earlier command in the air contests (Own); the *)
(* end of a command is heard once whatever earlier commands do.            *)
(***************************************************************************)
EXTENDS SimpleDemo, FiniteSetTheorems, SequenceTheorems, TLAPS

Line == processing \o incoming
Jobs == sleeping \cup Queued \cup mock
Sent == {toCalc[n] : n \in DOMAIN toCalc}
Answered == {toMain[n].answer[1] : n \in DOMAIN toMain}
Air == Sent \cup Answered \cup {j[1] : j \in Jobs}

\* S: what sleeps, L: what is queued.  Of a command, first and last answer are
\* due once; the last one never overtakes the first and follows it.
ThreadFits(S, L) ==
  /\ \A m, n \in DOMAIN L : L[m] = L[n] => m = n
  /\ \A m, n \in DOMAIN L : m < n /\ L[m][1] = L[n][1] => L[m][2] = 1
  /\ \A i, j \in S : i[1] = j[1] => i = j
  /\ \A j \in S : \A n \in DOMAIN L : j[1] = L[n][1] => j[2] = 2 /\ L[n][2] = 1
  /\ \A n \in DOMAIN L :
       L[n][2] = 1 => <<L[n][1], 2>> \in S \cup Range(L)

\* one calculator or the other is at work
ModeFits ==
  /\ virtual => thread = <<{}, <<>>, <<>>>> /\ DOMAIN idLookup = {}
  /\ ~ virtual => mock = {}
  /\ \A i, j \in mock : i[1] = j[1] => i = j

\* T: on the way to the calculator, J: its jobs
SentFits(T, J) ==
  /\ \A m, n \in DOMAIN T : T[m] = T[n] => m = n
  /\ \A n \in DOMAIN T : \A j \in J : j[1] # T[n]

\* A command of this life has an id it has given, and no other has the same.
AirFits(A, l, k) ==
  /\ \A c \in A : c.life <= l /\ (c.life = l => c.id <= k)
  /\ \A c, d \in A : c.life = d.life /\ c.id = d.id => c = d

\* Of the ids given, those not outstanding are cleared or have their answer.
Counted ==
  \A id \in Ids : id <= idCounter => id \in outstanding \cup cleared \/ HeardFinal(id)

PlacesInv == /\ TypeOK /\ ThreadFits(sleeping, Line) /\ ModeFits
             /\ SentFits(toCalc, Jobs) /\ AirFits(Air, life, idCounter) /\ Counted

\* the ids this life has given and no earlier command contests
Own == {id \in Ids : id <= idCounter /\ id \notin contested}

\* idLookup_ knows commands at work only, and a command of an uncontested id
\* from the start.
LookupFits ==
  /\ \A id \in DOMAIN idLookup : /\ idLookup[id].id = id
                                 /\ \E j \in sleeping \cup Queued : j[1] = idLookup[id]
  /\ \A j \in sleeping \cup Queued :
       j[2] = 1 /\ j[1].id \in Own => j[1].id \in DOMAIN idLookup

\* Answers go to commands of this life, with the id of the command they answer.
KeysFit == \A n \in DOMAIN toMain :
  /\ toMain[n].key.life = life /\ toMain[n].key.id <= idCounter
  /\ toMain[n].key.id = toMain[n].answer[1].id

\* I: ids, H: what has been heard, M: the answers on their way, J: the jobs.  Of
\* the ids in I, a first answer is to come as long as nothing has been heard; the
\* last one follows it.

\* the first answer to c has been heard, or comes before place z
FirstBefore(H, M, z, c) ==
  \/ H[c.id] = <<<<c, 1>>>>
  \/ H[c.id] = <<>> /\ \E m \in DOMAIN M : m < z /\ M[m].answer = <<c, 1>>

FirstGiven(H, M, c) ==
  \/ H[c.id] = <<<<c, 1>>>>
  \/ H[c.id] = <<>> /\ \E m \in DOMAIN M : M[m].answer = <<c, 1>>

MainFits(I, H, M) == \A n \in DOMAIN M :
  LET c == M[n].answer[1] IN c.id \in I =>
  /\ \A m \in DOMAIN M : M[m].answer = M[n].answer => m = n
  /\ M[n].answer[2] = 1 => H[c.id] = <<>>
  /\ M[n].answer[2] = 2 => FirstBefore(H, M, n, c)

JobsFit(I, H, M, J) == \A j \in J :
  LET c == j[1] IN c.id \in I =>
  /\ \A n \in DOMAIN M : M[n].answer # j
  /\ j[2] = 1 => H[c.id] = <<>> /\ \A n \in DOMAIN M : M[n].answer[1] # c
  /\ j[2] = 2 => <<c, 1>> \in J \/ FirstGiven(H, M, c)

SentUnheard(I, H, M, T) == \A k \in DOMAIN T : T[k].id \in I =>
  H[T[k].id] = <<>> /\ \A n \in DOMAIN M : M[n].answer[1] # T[k]

StoryFits(I, H, M, J, T) ==
  MainFits(I, H, M) /\ JobsFit(I, H, M, J) /\ SentUnheard(I, H, M, T)

Ends(M, n) == IsFinal(M[n].answer[1], M[n].answer[2])

HeardEnd(H, id) == \E n \in DOMAIN H[id] : IsFinal(H[id][n][1], H[id][n][2])

\* the end of the command id has been told, if not yet heard
Ended(H, M, id) == HeardEnd(H, id) \/ \E n \in DOMAIN M : M[n].key.id = id /\ Ends(M, n)

\* Nothing follows the end of a command.
EndsFit(H, M) ==
  /\ \A id \in Ids : \A n \in DOMAIN H[id] :
       IsFinal(H[id][n][1], H[id][n][2]) => n = Len(H[id])
  /\ \A m, n \in DOMAIN M : Ends(M, n) /\ M[m].key.id = M[n].key.id => m <= n
  /\ \A n \in DOMAIN M : ~ HeardEnd(H, M[n].key.id)

\* L: idLookup_, T: commands on their way.  No command of life l has ended of which
\* more could be told.
NoneLeft(H, M, L, T, l) ==
  /\ \A id \in DOMAIN L : L[id].life = l => ~ Ended(H, M, id)
  /\ \A n \in DOMAIN T : T[n].life = l => ~ Ended(H, M, T[n].id)

EndFits == EndsFit(heard, toMain) /\ NoneLeft(heard, toMain, idLookup, toCalc, life)

\* the second part of AnswersGoHome
StoriesHeard ==
  \A id \in Ids :
    id \in contested \/ heard[id] = <<>>
    \/ \E c \in Inputs : c.life = life /\ c.id = id /\ heard[id] \in Story(c)

StoryInv ==
  /\ \A c \in Air : c.id \in Own => c.life = life
  /\ LookupFits /\ KeysFit
  /\ \A id \in Ids : idCounter < id => heard[id] = <<>>
  /\ StoriesHeard
  /\ StoryFits(Own, heard, toMain, Jobs, toCalc)
  /\ virtual \/ EndFits

-----------------------------------------------------------------------------
(* Queues *)

LEMMA QueueAppend ==
  ASSUME NEW X, NEW p \in Seq(X), NEW q \in Seq(X), NEW x \in X
  PROVE  p \o Append(q, x) = Append(p \o q, x)
  <1>1. <<x>> \in Seq(X)
    OBVIOUS
  <1>2. p \o (q \o <<x>>) = (p \o q) \o <<x>>
    BY <1>1, ConcatAssociative
  <1>3. p \o q \in Seq(X)
    BY ConcatProperties
  <1> QED
    BY <1>2, <1>3, AppendIsConcat

LEMMA QueueTail ==
  ASSUME NEW X, NEW p \in Seq(X), NEW q \in Seq(X), p # <<>>
  PROVE  /\ p \o q # <<>>
         /\ Head(p \o q) = Head(p)
         /\ Tail(p) \o q = Tail(p \o q)
  <1>1. /\ p \o q \in Seq(X) /\ Len(p \o q) = Len(p) + Len(q)
        /\ Len(p) \in Nat \ {0} /\ Len(q) \in Nat
    BY ConcatProperties, EmptySeq, LenProperties
  <1>2. p \o q # <<>>
    BY <1>1, EmptySeq
  <1>3. /\ Tail(p) \in Seq(X) /\ Len(Tail(p)) = Len(p) - 1
        /\ Tail(p \o q) \in Seq(X) /\ Len(Tail(p \o q)) = Len(p \o q) - 1
    BY <1>1, <1>2, HeadTailProperties
  <1>4. /\ Tail(p) \o q \in Seq(X)
        /\ Len(Tail(p) \o q) = Len(Tail(p \o q))
    BY <1>1, <1>3, ConcatProperties
  <1>5. ASSUME NEW i \in 1..Len(Tail(p) \o q)
        PROVE  (Tail(p) \o q)[i] = Tail(p \o q)[i]
    <2>1. (Tail(p) \o q)[i] = IF i <= Len(p) - 1 THEN Tail(p)[i] ELSE q[i - (Len(p) - 1)]
      BY <1>1, <1>3, ConcatProperties
    <2>2. Tail(p \o q)[i] = (p \o q)[i + 1]
      BY <1>1, <1>2, <1>4, HeadTailProperties
    <2>3. (p \o q)[i + 1] = IF i + 1 <= Len(p) THEN p[i + 1] ELSE q[i + 1 - Len(p)]
      BY <1>1, <1>3, <1>4, ConcatProperties
    <2>4. i <= Len(p) - 1 => Tail(p)[i] = p[i + 1]
      BY <1>1, <1>3, HeadTailProperties
    <2> QED
      BY <2>1, <2>2, <2>3, <2>4, <1>1
  <1>6. Tail(p) \o q = Tail(p \o q)
    BY <1>3, <1>4, <1>5, SeqEqual
  <1>7. (p \o q)[1] = p[1]
    BY <1>1, ConcatProperties
  <1> QED
    BY <1>2, <1>6, <1>7

LEMMA AppendElements ==
  ASSUME NEW X, NEW q \in Seq(X), NEW x \in X
  PROVE  /\ DOMAIN Append(q, x) = 1..(Len(q) + 1) /\ DOMAIN q = 1..Len(q)
         /\ \A n \in DOMAIN q : n \in DOMAIN Append(q, x) /\ Append(q, x)[n] = q[n]
         /\ Append(q, x)[Len(q) + 1] = x /\ Len(q) \in Nat
         /\ Range(Append(q, x)) = Range(q) \cup {x}
  <1>1. /\ DOMAIN Append(q, x) = 1..(Len(q) + 1) /\ DOMAIN q = 1..Len(q)
        /\ Len(q) \in Nat
    BY AppendProperties, LenProperties
  <1>2. \A n \in DOMAIN q : n \in DOMAIN Append(q, x) /\ Append(q, x)[n] = q[n]
    BY <1>1, AppendProperties
  <1>3. Append(q, x)[Len(q) + 1] = x
    BY AppendProperties
  <1>4. \A n \in DOMAIN Append(q, x) : n \in DOMAIN q \/ n = Len(q) + 1
    BY <1>1
  <1>5. Len(q) + 1 \in DOMAIN Append(q, x)
    BY <1>1
  <1> DEFINE A == Append(q, x)
  <1>6. A[Len(q) + 1] = x /\ Len(q) + 1 \in DOMAIN A
    BY <1>3, <1>5
  <1>7. \A n \in DOMAIN q : n \in DOMAIN A /\ A[n] = q[n]
    BY <1>2
  <1>8. \A n \in DOMAIN A : n \in DOMAIN q \/ n = Len(q) + 1
    BY <1>4
  <1>9. Range(A) = Range(q) \cup {x}
    <2> HIDE DEF A
    <2> QED
      BY <1>6, <1>7, <1>8 DEF Range
  <1> QED
    BY <1>1, <1>2, <1>3, <1>9

LEMMA AppendShort ==
  ASSUME NEW X, NEW x \in X, NEW y \in X
  PROVE  Append(<<>>, x) = <<x>> /\ Append(<<x>>, y) = <<x, y>>
  <1>1. <<>> \in Seq(X) /\ <<x>> \in Seq(X) /\ <<x, y>> \in Seq(X)
    OBVIOUS
  <1>2. Append(<<>>, x) = <<x>>
    OBVIOUS
  <1>3. /\ Append(<<x>>, y) \in Seq(X) /\ Len(Append(<<x>>, y)) = 2
        /\ Append(<<x>>, y)[1] = x /\ Append(<<x>>, y)[2] = y
    OBVIOUS
  <1>4. Len(<<x, y>>) = 2 /\ <<x, y>>[1] = x /\ <<x, y>>[2] = y
    OBVIOUS
  <1>5. \A i \in 1..2 : Append(<<x>>, y)[i] = <<x, y>>[i]
    BY <1>3, <1>4
  <1>6. Append(<<x>>, y) = <<x, y>>
    BY <1>1, <1>3, <1>4, <1>5, SeqEqual
  <1> QED
    BY <1>2, <1>6

LEMMA TailElements ==
  ASSUME NEW X, NEW q \in Seq(X), q # <<>>
  PROVE  /\ Tail(q) \in Seq(X) /\ Head(q) \in X
         /\ DOMAIN q = 1..Len(q) /\ Len(q) \in Nat \ {0}
         /\ Head(q) = q[1] /\ 1 \in DOMAIN q
         /\ DOMAIN Tail(q) = 1..(Len(q) - 1)
         /\ \A n \in DOMAIN Tail(q) : n + 1 \in DOMAIN q /\ Tail(q)[n] = q[n + 1]
         /\ \A n \in DOMAIN q : n # 1 => n - 1 \in DOMAIN Tail(q) /\ Tail(q)[n - 1] = q[n]
         /\ Range(q) = Range(Tail(q)) \cup {Head(q)}
  <1>1. DOMAIN q = 1..Len(q) /\ Len(q) \in Nat \ {0}
    BY LenProperties, EmptySeq
  <1>2. /\ Tail(q) \in Seq(X) /\ Head(q) \in X
        /\ Len(Tail(q)) = Len(q) - 1
        /\ \A i \in 1..Len(Tail(q)) : Tail(q)[i] = q[i + 1]
    BY HeadTailProperties
  <1>3. DOMAIN Tail(q) = 1..(Len(q) - 1)
    BY <1>2, LenProperties
  <1>4. Head(q) = q[1]
    OBVIOUS
  <1> DEFINE T == Tail(q)
  <1>5. /\ \A n \in DOMAIN T : n + 1 \in DOMAIN q /\ T[n] = q[n + 1]
        /\ \A n \in DOMAIN q : n # 1 => n - 1 \in DOMAIN T /\ T[n - 1] = q[n]
    BY <1>1, <1>2, <1>3
  <1>6. Range(q) = Range(T) \cup {Head(q)}
    <2> HIDE DEF T
    <2> QED
      BY <1>1, <1>4, <1>5 DEF Range
  <1> QED
    BY <1>1, <1>2, <1>3, <1>4, <1>5, <1>6

-----------------------------------------------------------------------------
(* The thread, as a set of sleepers and one line *)

Pairs == Inputs \X {1, 2}

LEMMA PairParts ==
  \A j \in Pairs : /\ j = <<j[1], j[2]>> /\ j[1] \in Inputs
                   /\ j[2] \in {1, 2}
  BY DEF Pairs

LEMMA ThreadStarts ==
  ASSUME NEW S \in SUBSET Pairs, NEW L \in Seq(Pairs), NEW c \in Inputs,
         \A j \in S : j[1] # c, \A n \in DOMAIN L : L[n][1] # c,
         ThreadFits(S, L)
  PROVE  ThreadFits(S \cup {<<c, 1>>}, L)
  <1>1. <<c, 1>>[1] = c
    OBVIOUS
  <1> QED
    BY <1>1 DEF ThreadFits

LEMMA ThreadAnswers ==
  ASSUME NEW S \in SUBSET Pairs, NEW L \in Seq(Pairs), L # <<>>, ThreadFits(S, L)
  PROVE  ThreadFits(S, Tail(L))
  <1> DEFINE T == Tail(L)
  <1>1. /\ DOMAIN L = 1..Len(L) /\ Len(L) \in Nat \ {0}
        /\ DOMAIN T = 1..(Len(L) - 1)
        /\ \A n \in DOMAIN T : n + 1 \in DOMAIN L /\ T[n] = L[n + 1]
        /\ \A n \in DOMAIN L : n # 1 => n - 1 \in DOMAIN T /\ T[n - 1] = L[n]
    BY TailElements
  <1>2. \A n \in DOMAIN L : L[n] \in Pairs
    BY <1>1, ElementOfSeq
  <1> HIDE DEF T
  <1>3. \A m, n \in DOMAIN T : T[m] = T[n] => m = n
    <2> SUFFICES ASSUME NEW m \in DOMAIN T, NEW n \in DOMAIN T, T[m] = T[n]
                 PROVE  m = n
      OBVIOUS
    <2>1. m + 1 = n + 1
      BY <1>1 DEF ThreadFits
    <2> QED
      BY <1>1, <2>1
  <1>4. \A m, n \in DOMAIN T : m < n /\ T[m][1] = T[n][1] => T[m][2] = 1
    <2> SUFFICES ASSUME NEW m \in DOMAIN T, NEW n \in DOMAIN T, m < n, T[m][1] = T[n][1]
                 PROVE  T[m][2] = 1
      OBVIOUS
    <2>1. m + 1 < n + 1 /\ m + 1 \in DOMAIN L /\ n + 1 \in DOMAIN L
      BY <1>1
    <2>2. T[m] = L[m + 1] /\ T[n] = L[n + 1]
      BY <1>1
    <2> QED
      BY <2>1, <2>2 DEF ThreadFits
  <1>5. \A j \in S : \A n \in DOMAIN T : j[1] = T[n][1] => j[2] = 2 /\ T[n][2] = 1
    BY <1>1 DEF ThreadFits
  <1>6. ASSUME NEW n \in DOMAIN T, T[n][2] = 1
        PROVE  <<T[n][1], 2>> \in S \cup Range(T)
    <2>1. n + 1 \in DOMAIN L /\ T[n] = L[n + 1] /\ n \in Nat \ {0}
      BY <1>1
    <2>2. <<L[n + 1][1], 2>> \in S \cup Range(L)
      BY <1>6, <2>1 DEF ThreadFits
    <2>3. CASE <<T[n][1], 2>> \in S
      BY <2>3
    <2>4. ASSUME NEW m \in DOMAIN L, L[m] = <<T[n][1], 2>>
          PROVE  <<T[n][1], 2>> \in Range(T)
      <3>1. m # 1
        <4> SUFFICES ASSUME m = 1 PROVE FALSE
          OBVIOUS
        <4>1. m < n + 1 /\ L[m][1] = L[n + 1][1] /\ L[m][2] = 2
          BY <2>1, <2>4
        <4> QED
          BY <4>1, <2>1 DEF ThreadFits
      <3> QED
        BY <3>1, <1>1, <2>4 DEF Range
    <2> QED
      BY <2>1, <2>2, <2>3, <2>4 DEF Range
  <1> QED
    BY <1>3, <1>4, <1>5, <1>6 DEF ThreadFits, T

LEMMA ThreadQueues ==
  ASSUME NEW S \in SUBSET Pairs, NEW L \in Seq(Pairs), NEW c \in Inputs,
         NEW k \in {1, 2}, <<c, k>> \in S, ThreadFits(S, L)
  PROVE  ThreadFits((S \ {<<c, k>>}) \cup (IF k = 1 THEN {<<c, 2>>} ELSE {}),
                    Append(L, <<c, k>>))
  <1> DEFINE R == (S \ {<<c, k>>}) \cup (IF k = 1 THEN {<<c, 2>>} ELSE {})
             A == Append(L, <<c, k>>)
  <1>1. <<c, k>> \in Pairs
    OBVIOUS
  <1>2. /\ DOMAIN A = 1..(Len(L) + 1) /\ DOMAIN L = 1..Len(L) /\ Len(L) \in Nat
        /\ \A n \in DOMAIN L : n \in DOMAIN A /\ A[n] = L[n]
        /\ A[Len(L) + 1] = <<c, k>>
        /\ Range(A) = Range(L) \cup {<<c, k>>}
    BY <1>1, AppendElements
  <1>3. \A n \in DOMAIN L : L[n] \in Pairs
    BY <1>2, ElementOfSeq
  <1>4. \A n \in DOMAIN A : n \in DOMAIN L \/ n = Len(L) + 1
    BY <1>2
  <1>5. \A j \in R : \/ j = <<c, 2>> /\ k = 1
                     \/ j \in S /\ j[1] # c
    <2> SUFFICES ASSUME NEW j \in R
                 PROVE  \/ j = <<c, 2>> /\ k = 1
                        \/ j \in S /\ j[1] # c
      OBVIOUS
    <2>1. CASE j \in S /\ j # <<c, k>>
      BY <2>1 DEF ThreadFits
    <2>2. CASE j \in (IF k = 1 THEN {<<c, 2>>} ELSE {})
      BY <2>2
    <2> QED
      BY <2>1, <2>2
  <1>6. \A n \in DOMAIN L : L[n][1] = c => k = 2 /\ L[n][2] = 1
    BY DEF ThreadFits
  <1> HIDE DEF A, R
  <1>7. \A m, n \in DOMAIN A : A[m] = A[n] => m = n
    <2>1. \A n \in DOMAIN L : L[n] # <<c, k>>
      BY <1>6
    <2> QED
      BY <1>2, <1>4, <2>1 DEF ThreadFits
  <1>8. \A m, n \in DOMAIN A : m < n /\ A[m][1] = A[n][1] => A[m][2] = 1
    <2> SUFFICES ASSUME NEW m \in DOMAIN A, NEW n \in DOMAIN A, m < n, A[m][1] = A[n][1]
                 PROVE  A[m][2] = 1
      OBVIOUS
    <2>1. m \in DOMAIN L
      BY <1>2, <1>4
    <2>2. CASE n \in DOMAIN L
      BY <1>2, <2>1, <2>2 DEF ThreadFits
    <2>3. CASE n = Len(L) + 1
      BY <1>2, <1>6, <2>1, <2>3
    <2> QED
      BY <1>4, <2>2, <2>3
  <1>9. \A i, j \in R : i[1] = j[1] => i = j
    BY <1>5 DEF ThreadFits
  <1>10. ASSUME NEW j \in R, NEW n \in DOMAIN A, j[1] = A[n][1]
         PROVE  j[2] = 2 /\ A[n][2] = 1
    <2>1. CASE n = Len(L) + 1
      <3>1. A[n] = <<c, k>>
        BY <1>2, <2>1
      <3>2. j[1] = c
        BY <1>10, <3>1
      <3>3. j = <<c, 2>> /\ k = 1
        BY <1>5, <3>2
      <3> QED
        BY <3>1, <3>3
    <2>2. CASE n \in DOMAIN L
      <3>1. A[n] = L[n]
        BY <1>2, <2>2
      <3>2. j \in S \/ L[n][1] # c
        BY <1>5, <1>6, <2>2
      <3> QED
        BY <1>5, <1>10, <3>1, <3>2, <2>2 DEF ThreadFits
    <2> QED
      BY <1>4, <2>1, <2>2
  <1>11. ASSUME NEW n \in DOMAIN A, A[n][2] = 1
         PROVE  <<A[n][1], 2>> \in R \cup Range(A)
    <2>1. CASE n = Len(L) + 1
      BY <1>2, <1>11, <2>1 DEF R
    <2>2. CASE n \in DOMAIN L
      <3>1. A[n] = L[n]
        BY <1>2, <2>2
      <3>2. <<L[n][1], 2>> \in S \cup Range(L)
        BY <1>11, <2>2, <3>1 DEF ThreadFits
      <3> QED
        BY <1>2, <3>1, <3>2 DEF R
    <2> QED
      BY <1>4, <2>1, <2>2
  <1> QED
    BY <1>7, <1>8, <1>9, <1>10, <1>11 DEF ThreadFits, A, R

-----------------------------------------------------------------------------
(* Types *)

CommandResults == [key: Inputs, answer: Pairs]

LEMMA InputParts ==
  \A c \in Inputs : c.life \in 1..MaxLives /\ c.id \in Ids
  BY DemoOK DEF Ids

LEMMA JobTypes ==
  ASSUME TypeOK
  PROVE  /\ sleeping \in SUBSET Pairs /\ Queued \in SUBSET Pairs /\ mock \in SUBSET Pairs
         /\ Jobs \in SUBSET Pairs /\ Owed \in SUBSET Jobs
         /\ processing \in Seq(Pairs) /\ incoming \in Seq(Pairs) /\ Line \in Seq(Pairs)
         /\ Queued = Range(Line)
         /\ Sent \in SUBSET Inputs /\ Answered \in SUBSET Inputs
         /\ Air \in SUBSET Inputs
  <1>1. /\ sleeping \in SUBSET Pairs /\ mock \in SUBSET Pairs
        /\ processing \in Seq(Pairs) /\ incoming \in Seq(Pairs)
    BY DEF TypeOK, ThreadTypeOK, Pairs
  <1>2. Line \in Seq(Pairs)
    BY <1>1, ConcatProperties DEF Line
  <1>3. Queued = Range(Line)
    <2>1. PICK p \in Seq(Pairs), q \in Seq(Pairs) : p = processing /\ q = incoming
      BY <1>1
    <2>2. Range(p \o q) = Range(p) \cup Range(q)
      BY RangeConcatenation
    <2>3. Queued = Range(q) \cup Range(p)
      BY <2>1 DEF Queued, Range
    <2> QED
      BY <2>1, <2>2, <2>3 DEF Line
  <1>4. DOMAIN Line = 1..Len(Line)
    BY <1>2, LenProperties
  <1>5. Queued \in SUBSET Pairs
    BY <1>2, <1>3, RangeOfSeq
  <1>6. Jobs \in SUBSET Pairs /\ Owed \in SUBSET Jobs
    BY <1>1, <1>5 DEF Jobs, Owed
  <1>7. toCalc \in Seq(Inputs) /\ DOMAIN toCalc = 1..Len(toCalc)
    BY LenProperties DEF TypeOK
  <1>8. Sent \in SUBSET Inputs
    BY <1>7, ElementOfSeq DEF Sent
  <1>9. toMain \in Seq(CommandResults) /\ DOMAIN toMain = 1..Len(toMain)
    BY LenProperties DEF TypeOK, CommandResults, Pairs
  <1>10. \A n \in DOMAIN toMain : toMain[n].answer \in Pairs
    <2>1. \A n \in DOMAIN toMain : toMain[n] \in CommandResults
      BY <1>9, ElementOfSeq
    <2> QED
      BY <2>1 DEF CommandResults
  <1>11. Answered \in SUBSET Inputs
    BY <1>10 DEF Answered, Pairs
  <1>12. Air \in SUBSET Inputs
    BY <1>6, <1>8, <1>11, PairParts DEF Air
  <1> QED
    BY <1>1, <1>2, <1>3, <1>5, <1>6, <1>8, <1>11, <1>12

LEMMA TypeStart == Init => TypeOK
  <1> SUFFICES ASSUME Init PROVE TypeOK
    OBVIOUS
  <1>1. Cardinality({}) = 0
    BY FS_EmptySet
  <1>2. idLookup \in [DOMAIN idLookup -> Inputs] /\ DOMAIN idLookup = {}
    BY DEF Init
  <1>3. 1 \in 1..MaxLives /\ 0 \in 0..MaxId /\ 0 \in 0..MaxCrashes /\ 0 <= Limit
    BY DemoOK
  <1>4. <<>> \in Seq(Inputs) /\ <<>> \in Seq(Inputs \X {1, 2})
        /\ <<>> \in Seq([key: Inputs, answer: Inputs \X {1, 2}])
    OBVIOUS
  <1>5. ThreadTypeOK
    BY <1>4 DEF Init, ThreadInit, ThreadTypeOK
  <1>6. heard \in [Ids -> Seq(Inputs \X {1, 2})]
    BY <1>4 DEF Init
  <1> QED
    BY <1>1, <1>2, <1>3, <1>4, <1>5, <1>6 DEF Init, TypeOK

LEMMA IdsFinite == IsFiniteSet(Ids) /\ \A I \in SUBSET Ids : IsFiniteSet(I)
  <1>1. IsFiniteSet(1..MaxId)
    BY FS_Interval, DemoOK
  <1>2. \A I \in SUBSET (1..MaxId) : IsFiniteSet(I)
    BY <1>1, FS_Subset
  <1> QED
    BY <1>1, <1>2 DEF Ids

LEMMA PublishType ==
  ASSUME TypeOK, NEW key \in Inputs, NEW answer \in Inputs \X {1, 2},
         Publish(key, answer)
  PROVE  toMain' \in Seq([key: Inputs, answer: Inputs \X {1, 2}])
  <1> DEFINE Results == [key: Inputs, answer: Inputs \X {1, 2}]
             r == [key |-> key, answer |-> answer]
  <1>1. toMain \in Seq(Results)
    BY DEF TypeOK
  <1>2. r \in Results
    OBVIOUS
  <1>3. toMain' = Append(toMain, r) \/ toMain' = toMain
    BY DEF Publish
  <1> HIDE DEF Results, r
  <1>4. toMain' \in Seq(Results)
    BY <1>1, <1>2, <1>3
  <1> QED
    BY <1>4 DEF Results

LEMMA TypeCreate ==
  ASSUME TypeOK, NEW v \in Values, CreateCommand(v)
  PROVE  TypeOK'
  <1>1. idCounter' = idCounter + 1 /\ idCounter' \in Ids /\ idCounter' \in 0..MaxId
    BY DemoOK DEF TypeOK, CreateCommand, Ids
  <1>2. outstanding' = outstanding \cup {idCounter'} /\ outstanding' \subseteq Ids
    BY <1>1 DEF TypeOK, CreateCommand
  <1>3. IsFiniteSet(outstanding) /\ Cardinality(outstanding) \in Nat
    BY IdsFinite, FS_CardinalityType DEF TypeOK
  <1>4. Cardinality(outstanding') <= Limit
    <2>1. Cardinality(outstanding) < Limit
      BY DEF CreateCommand, HasRoom
    <2>2. \/ Cardinality(outstanding') = Cardinality(outstanding)
          \/ Cardinality(outstanding') = Cardinality(outstanding) + 1
      BY <1>2, <1>3, FS_AddElement
    <2> QED
      BY <1>3, <2>1, <2>2, DemoOK
  <1>5. [life |-> life, id |-> idCounter', value |-> v] \in Inputs
    BY <1>1, DemoOK DEF TypeOK, Ids
  <1>6. toCalc' \in Seq(Inputs)
    BY <1>5 DEF TypeOK, CreateCommand
  <1> QED
    BY <1>1, <1>2, <1>4, <1>6
    DEF TypeOK, CreateCommand, ThreadTypeOK, thread, history

LEMMA TypeHandleResult ==
  ASSUME TypeOK, HandleResult
  PROVE  TypeOK'
  <1> DEFINE Results == [key: Inputs, answer: Inputs \X {1, 2}]
             P == Inputs \X {1, 2}
             id == Head(toMain).key.id
             answer == Head(toMain).answer
  <1>1. toMain \in Seq(Results) /\ toMain # <<>>
    BY DEF TypeOK, HandleResult
  <1>2. Head(toMain) \in Results /\ Tail(toMain) \in Seq(Results)
    <2> HIDE DEF Results
    <2> QED
      BY <1>1
  <1>3. id \in Ids /\ answer \in P
    BY <1>2, InputParts
  <1>4. heard' = [heard EXCEPT ![id] = Append(@, answer)]
    BY DEF HandleResult
  <1>5. heard \in [Ids -> Seq(P)]
    BY DEF TypeOK
  <1>6. heard' \in [Ids -> Seq(P)]
    <2> HIDE DEF id, answer, P
    <2>1. Append(heard[id], answer) \in Seq(P)
      BY <1>3, <1>5
    <2> QED
      BY <1>3, <1>4, <1>5, <2>1
  <1>7. outstanding' = outstanding \/ outstanding' = outstanding \ {id}
    BY DEF HandleResult
  <1>8. outstanding' \subseteq Ids /\ Cardinality(outstanding') <= Limit
    <2>1. outstanding \subseteq Ids /\ Cardinality(outstanding) <= Limit
      BY DEF TypeOK
    <2>2. IsFiniteSet(outstanding) /\ outstanding' \in SUBSET outstanding
      BY <1>7, <2>1, IdsFinite
    <2>3. /\ Cardinality(outstanding') <= Cardinality(outstanding)
          /\ IsFiniteSet(outstanding')
      BY <2>2, FS_Subset
    <2>4. Cardinality(outstanding') \in Nat /\ Cardinality(outstanding) \in Nat
      BY <2>2, <2>3, FS_CardinalityType
    <2> QED
      BY <2>1, <2>2, <2>3, <2>4, DemoOK
  <1>9. toMain' = Tail(toMain)
    BY DEF HandleResult
  <1> QED
    BY <1>2, <1>6, <1>8, <1>9 DEF TypeOK, HandleResult, ThreadTypeOK, thread

LEMMA TypeOperator ==
  ASSUME TypeOK,
         \/ \E on \in BOOLEAN : Configure(on)
         \/ QueryOutstandingCommands
         \/ \E ids \in SUBSET seen : ClearCommands(ids)
  PROVE  TypeOK'
  <1>1. CASE \E on \in BOOLEAN : Configure(on)
    BY <1>1 DEF TypeOK, Configure, ThreadTypeOK, thread, history
  <1>2. CASE QueryOutstandingCommands
    BY <1>2 DEF TypeOK, QueryOutstandingCommands, main, ThreadTypeOK, thread, history
  <1>3. ASSUME NEW ids \in SUBSET seen, ClearCommands(ids)
        PROVE  TypeOK'
    <2>1. outstanding \subseteq Ids /\ Cardinality(outstanding) <= Limit
      BY DEF TypeOK
    <2>2. IsFiniteSet(outstanding) /\ outstanding' \in SUBSET outstanding
      BY <1>3, <2>1, IdsFinite DEF ClearCommands
    <2>3. /\ Cardinality(outstanding') <= Cardinality(outstanding)
          /\ IsFiniteSet(outstanding')
      BY <2>2, FS_Subset
    <2>4. Cardinality(outstanding') \in Nat /\ Cardinality(outstanding) \in Nat
      BY <2>2, <2>3, FS_CardinalityType
    <2>5. Cardinality(outstanding') <= Limit /\ outstanding' \subseteq Ids
      BY <2>1, <2>2, <2>3, <2>4, DemoOK
    <2> QED
      BY <1>3, <2>5 DEF TypeOK, ClearCommands, ThreadTypeOK, thread
  <1> QED
    BY <1>1, <1>2, <1>3

LEMMA TypeRestarts ==
  ASSUME TypeOK, RestartMain \/ RestartCalculator
  PROVE  TypeOK'
  <1>1. <<>> \in Seq(Inputs) /\ <<>> \in Seq(Inputs \X {1, 2})
        /\ <<>> \in Seq([key: Inputs, answer: Inputs \X {1, 2}])
    OBVIOUS
  <1>2. CASE RestartMain
    <2>1. Cardinality({}) <= Limit
      BY FS_EmptySet, DemoOK
    <2>2. life' \in 1..MaxLives /\ 0 \in 0..MaxId
      BY <1>2, DemoOK DEF TypeOK, RestartMain
    <2>3. toCalc' \in Seq(Inputs) /\ toMain' \in Seq([key: Inputs, answer: Inputs \X {1, 2}])
      BY <1>1, <1>2 DEF TypeOK, RestartMain
    <2>4. heard' \in [Ids -> Seq(Inputs \X {1, 2})]
      BY <1>1, <1>2 DEF RestartMain
    <2> QED
      BY <1>2, <2>1, <2>2, <2>3, <2>4 DEF TypeOK, RestartMain, ThreadTypeOK, thread
  <1>3. CASE RestartCalculator
    <2>1. Dropped \subseteq Inputs
      <3>1. Owed \subseteq Pairs /\ Sent \subseteq Inputs
        BY JobTypes
      <3> QED
        BY <3>1, PairParts DEF Dropped, Sent
    <2>2. lost' \subseteq Ids
      BY <1>3, <2>1, InputParts DEF TypeOK, RestartCalculator
    <2>3. DOMAIN idLookup' = {} /\ idLookup' \in [DOMAIN idLookup' -> Inputs]
      BY <1>3 DEF RestartCalculator
    <2>4. toCalc' \in Seq(Inputs)
      BY <1>1, <1>3 DEF TypeOK, RestartCalculator
    <2>5. ThreadTypeOK'
      BY <1>1, <1>3 DEF RestartCalculator, Exit, ThreadTypeOK
    <2>6. crashes' \in 0..MaxCrashes
      BY <1>3, DemoOK DEF TypeOK, RestartCalculator
    <2> QED
      BY <1>3, <2>2, <2>3, <2>4, <2>5, <2>6 DEF TypeOK, RestartCalculator, main
  <1> QED
    BY <1>2, <1>3

LEMMA TypeHandle ==
  ASSUME TypeOK, Handle
  PROVE  TypeOK'
  <1> DEFINE c == Head(toCalc)
  <1>1. toCalc \in Seq(Inputs) /\ toCalc # <<>>
    BY DEF TypeOK, Handle
  <1>2. c \in Inputs /\ Tail(toCalc) \in Seq(Inputs)
    BY <1>1
  <1>3. c.id \in Ids
    BY <1>2, InputParts
  <1>4. idLookup' = [id \in DOMAIN idLookup \cup {c.id} |->
                       IF id \in DOMAIN idLookup THEN idLookup[id] ELSE c]
    BY DEF Handle
  <1>5. DOMAIN idLookup' \subseteq Ids /\ idLookup' \in [DOMAIN idLookup' -> Inputs]
    BY <1>2, <1>3, <1>4 DEF TypeOK
  <1>6. ThreadTypeOK'
    BY <1>2 DEF TypeOK, Handle, StartThread, ThreadTypeOK
  <1>7. toCalc' \in Seq(Inputs)
    BY <1>2 DEF Handle
  <1> QED
    BY <1>5, <1>6, <1>7 DEF TypeOK, Handle, main, history

LEMMA TypeAnswer ==
  ASSUME TypeOK, NEW c \in Inputs, NEW count \in {1, 2}, OnCalculateResult(c, count)
  PROVE  TypeOK'
  <1>1. ThreadTypeOK'
    BY DEF TypeOK, OnCalculateResult, Answer, ThreadTypeOK
  <1>2. <<c, count>> \in Inputs \X {1, 2}
    OBVIOUS
  <1>3. CASE c.id \in DOMAIN idLookup
    <2>1. idLookup[c.id] \in Inputs
      BY <1>3 DEF TypeOK
    <2>2. toMain' \in Seq([key: Inputs, answer: Inputs \X {1, 2}])
      BY <1>2, <1>3, <2>1, PublishType DEF OnCalculateResult
    <2>3. DOMAIN idLookup' \subseteq Ids /\ idLookup' \in [DOMAIN idLookup' -> Inputs]
      BY <1>3 DEF OnCalculateResult, Restrict, TypeOK
    <2> QED
      BY <1>1, <2>2, <2>3 DEF TypeOK, OnCalculateResult, main, history
  <1>4. CASE c.id \notin DOMAIN idLookup
    BY <1>1, <1>4 DEF TypeOK, OnCalculateResult, main, history
  <1> QED
    BY <1>3, <1>4

LEMMA TypeThread ==
  ASSUME TypeOK, ThreadStep
  PROVE  TypeOK'
  <1>1. ThreadTypeOK'
    <2>1. CASE Splice
      BY <2>1 DEF TypeOK, Splice, ThreadTypeOK
    <2>2. ASSUME NEW c \in Inputs, NEW count \in {1, 2}, Request(c, count)
          PROVE  ThreadTypeOK'
      BY <2>2 DEF TypeOK, Request, ThreadTypeOK
    <2> QED
      BY <2>1, <2>2 DEF ThreadStep
  <1> QED
    BY <1>1 DEF TypeOK, ThreadStep, main, history

LEMMA TypeMock ==
  ASSUME TypeOK,
         MockTake \/ \E c \in Inputs, count \in {1, 2} : MockAnswer(c, count)
  PROVE  TypeOK'
  <1>1. CASE MockTake
    <2>1. toCalc' \in Seq(Inputs) /\ Head(toCalc) \in Inputs
      BY <1>1 DEF TypeOK, MockTake
    <2> QED
      BY <1>1, <2>1 DEF TypeOK, MockTake, ThreadTypeOK, thread, main, history
  <1>2. ASSUME NEW c \in Inputs, NEW count \in {1, 2}, MockAnswer(c, count)
        PROVE  TypeOK'
    <2>1. toMain' \in Seq([key: Inputs, answer: Inputs \X {1, 2}])
      BY <1>2, PublishType DEF MockAnswer
    <2>2. mock' \subseteq Inputs \X {1, 2}
      BY <1>2 DEF TypeOK, MockAnswer
    <2> QED
      BY <1>2, <2>1, <2>2 DEF TypeOK, MockAnswer, ThreadTypeOK, thread, main, history
  <1> QED
    BY <1>1, <1>2

LEMMA TypePreserved == TypeOK /\ [Next]_vars => TypeOK'
  <1> SUFFICES ASSUME TypeOK, [Next]_vars PROVE TypeOK'
    OBVIOUS
  <1>1. CASE MainLogicCombination
    BY <1>1, TypeCreate, TypeHandleResult, TypeOperator DEF MainLogicCombination
  <1>2. CASE MainProgram /\ ~ MainLogicCombination
    BY <1>2, TypeMock, TypeRestarts DEF MainProgram
  <1>3. CASE CalculatorProgram
    BY <1>3, TypeHandle, TypeThread, TypeAnswer, TypeRestarts DEF CalculatorProgram
  <1>4. CASE UNCHANGED vars
    BY <1>4 DEF vars, TypeOK, ThreadTypeOK, thread, main, history
  <1> QED
    BY <1>1, <1>2, <1>3, <1>4 DEF Next

\* Everything keeps its type and no more than Limit commands are outstanding.
THEOREM DemoTypeCorrect == Spec => []TypeOK
  BY TypeStart, TypePreserved, PTL DEF Spec

-----------------------------------------------------------------------------
(* Where commands are: what each step does to the jobs *)

\* Of one job, one stands at the head of the line.
LEMMA JobAnswered ==
  ASSUME TypeOK, ThreadFits(sleeping, Line), ModeFits,
         NEW c \in Inputs, NEW count \in {1, 2}, Answer(c, count), UNCHANGED mock
  PROVE  /\ ~ virtual /\ <<c, count>> \in Queued
         /\ Line # <<>> /\ Line[1] = <<c, count>> /\ Line' = Tail(Line)
         /\ Jobs' = Jobs \ {<<c, count>>} /\ UNCHANGED sleeping
  <1>1. PICK p \in Seq(Pairs), q \in Seq(Pairs) : p = processing /\ q = incoming
    BY JobTypes
  <1>2. /\ p # <<>> /\ Head(p) = <<c, count>>
        /\ processing' = Tail(p) /\ incoming' = q /\ sleeping' = sleeping
    BY <1>1 DEF Answer
  <1>3. PICK L \in Seq(Pairs) : L = p \o q /\ Line = L
    BY <1>1, JobTypes DEF Line
  <1>4. L # <<>> /\ Head(L) = <<c, count>> /\ Tail(p) \o q = Tail(L)
    BY <1>2, <1>3, QueueTail
  <1>5. Line' = Tail(L)
    BY <1>2, <1>4 DEF Line
  <1>6. /\ Tail(L) \in Seq(Pairs) /\ Tail(p) \in Seq(Pairs)
        /\ Head(L) = L[1] /\ 1 \in DOMAIN L
        /\ DOMAIN L = 1..Len(L) /\ Len(L) \in Nat \ {0}
        /\ DOMAIN Tail(L) = 1..(Len(L) - 1)
        /\ \A n \in DOMAIN Tail(L) : n + 1 \in DOMAIN L /\ Tail(L)[n] = L[n + 1]
        /\ Range(L) = Range(Tail(L)) \cup {<<c, count>>}
    BY <1>2, <1>4, TailElements
  <1>7. Queued = Range(L)
    BY <1>3, JobTypes
  <1>8. Queued' = Range(Tail(L))
    <2>1. Range(Tail(p) \o q) = Range(Tail(p)) \cup Range(q)
      BY <1>6, RangeConcatenation
    <2>2. Queued' = Range(q) \cup Range(Tail(p))
      BY <1>2 DEF Queued, Range
    <2> QED
      BY <2>1, <2>2, <1>4
  <1>9. ThreadFits(sleeping, L)
    BY <1>3
  <1>10. Queued' = Queued \ {<<c, count>>}
    <2>1. \A n \in DOMAIN Tail(L) : Tail(L)[n] # <<c, count>>
      <3> SUFFICES ASSUME NEW n \in DOMAIN Tail(L), Tail(L)[n] = <<c, count>>
                   PROVE  FALSE
        OBVIOUS
      <3>1. L[n + 1] = L[1] /\ n + 1 \in DOMAIN L
        BY <1>4, <1>6
      <3>2. n + 1 = 1
        BY <3>1, <1>6, <1>9 DEF ThreadFits
      <3> QED
        BY <3>2, <1>6
    <2>2. <<c, count>> \notin Range(Tail(L))
      BY <2>1 DEF Range
    <2> QED
      BY <1>6, <1>7, <1>8, <2>2
  <1>11. <<c, count>> \notin sleeping
    <2>1. \A j \in sleeping : j[1] = L[1][1] => j[2] = 2 /\ L[1][2] = 1
      BY <1>6, <1>9 DEF ThreadFits
    <2>2. L[1] = <<c, count>>
      BY <1>4, <1>6
    <2> QED
      BY <2>1, <2>2
  <1>12. ~ virtual
    BY <1>1, <1>2 DEF ModeFits, thread
  <1>13. mock = {}
    BY <1>12 DEF ModeFits
  <1>14. Jobs' = Jobs \ {<<c, count>>}
    BY <1>2, <1>10, <1>11, <1>13 DEF Jobs
  <1>15. <<c, count>> \in Queued
    BY <1>4, <1>6, <1>7
  <1> QED
    BY <1>2, <1>3, <1>4, <1>5, <1>6, <1>12, <1>14, <1>15

LEMMA JobQueued ==
  ASSUME TypeOK, NEW c \in Inputs, NEW count \in {1, 2}, Request(c, count), UNCHANGED mock
  PROVE  /\ Line' = Append(Line, <<c, count>>)
         /\ sleeping' \cup Queued' = sleeping \cup Queued \cup
                                       (IF count = 1 THEN {<<c, 2>>} ELSE {})
         /\ Jobs' = Jobs \cup (IF count = 1 THEN {<<c, 2>>} ELSE {})
         /\ <<c, count>> \in sleeping
  <1>1. PICK p \in Seq(Pairs), q \in Seq(Pairs) : p = processing /\ q = incoming
    BY JobTypes
  <1>2. <<c, count>> \in Pairs
    BY DEF Pairs
  <1>3. /\ incoming' = Append(q, <<c, count>>) /\ processing' = p
        /\ <<c, count>> \in sleeping
        /\ sleeping' = (sleeping \ {<<c, count>>}) \cup (IF count = 1 THEN {<<c, 2>>} ELSE {})
    BY <1>1 DEF Request
  <1>4. p \o Append(q, <<c, count>>) = Append(p \o q, <<c, count>>)
    BY <1>2, QueueAppend
  <1>5. Line' = Append(Line, <<c, count>>)
    BY <1>1, <1>3, <1>4 DEF Line
  <1>6. Range(Append(q, <<c, count>>)) = Range(q) \cup {<<c, count>>}
    BY <1>2, AppendElements
  <1>7. Queued' = Queued \cup {<<c, count>>}
    <2>1. Queued = Range(q) \cup Range(p)
      BY <1>1 DEF Queued, Range
    <2>2. Queued' = Range(Append(q, <<c, count>>)) \cup Range(p)
      BY <1>3 DEF Queued, Range
    <2> QED
      BY <1>6, <2>1, <2>2
  <1>8. sleeping' \cup Queued' = sleeping \cup Queued \cup
                                   (IF count = 1 THEN {<<c, 2>>} ELSE {})
    BY <1>3, <1>7
  <1> QED
    BY <1>3, <1>5, <1>8 DEF Jobs

LEMMA JobsSpliced ==
  ASSUME TypeOK, Splice, UNCHANGED mock
  PROVE  Line' = Line /\ Queued' = Queued /\ Jobs' = Jobs /\ UNCHANGED sleeping
  <1>1. PICK q \in Seq(Pairs) : q = incoming
    BY JobTypes
  <1>2. q \o <<>> = q /\ <<>> \o q = q
    BY ConcatEmptySeq
  <1>3. processing = <<>> /\ processing' = q /\ incoming' = <<>>
    BY <1>1 DEF Splice
  <1>4. Line' = Line
    BY <1>1, <1>2, <1>3 DEF Line
  <1>5. Queued' = Queued
    BY <1>1, <1>3 DEF Queued
  <1> QED
    BY <1>4, <1>5 DEF Jobs, Splice

\* A command on its way has no job yet.
LEMMA JobTaken ==
  ASSUME TypeOK, ModeFits, SentFits(toCalc, Jobs), Handle \/ MockTake
  PROVE  /\ toCalc # <<>> /\ Head(toCalc) \in Inputs /\ Head(toCalc) = toCalc[1]
         /\ toCalc' = Tail(toCalc) /\ Head(toCalc) \in Sent
         /\ \A j \in Jobs : j[1] # Head(toCalc)
         /\ Jobs' = Jobs \cup {<<Head(toCalc), 1>>}
         /\ UNCHANGED toMain
  <1>1. toCalc # <<>> /\ toCalc' = Tail(toCalc)
    BY DEF Handle, MockTake
  <1>2. PICK T \in Seq(Inputs) : T = toCalc
    BY DEF TypeOK
  <1>3. 1 \in DOMAIN T /\ Head(T) = T[1] /\ Head(T) \in Inputs
    BY <1>1, <1>2, TailElements
  <1>4. \A j \in Jobs : j[1] # Head(toCalc)
    BY <1>2, <1>3 DEF SentFits
  <1>5. Jobs' = Jobs \cup {<<Head(toCalc), 1>>}
    BY DEF Handle, MockTake, StartThread, Jobs, Queued, thread
  <1> QED
    BY <1>1, <1>2, <1>3, <1>4, <1>5 DEF Sent, Handle, MockTake

LEMMA MockAnswered ==
  ASSUME TypeOK, ModeFits, NEW c \in Inputs, NEW count \in {1, 2}, MockAnswer(c, count)
  PROVE  /\ <<c, count>> \in Jobs /\ <<c, count>> \in mock
         /\ Jobs' = (Jobs \ {<<c, count>>}) \cup (IF count = 1 THEN {<<c, 2>>} ELSE {})
         /\ mock' = (mock \ {<<c, count>>}) \cup (IF count = 1 THEN {<<c, 2>>} ELSE {})
  <1>1. virtual
    BY DEF MockAnswer, ModeFits
  <1>2. sleeping = {} /\ Queued = {} /\ sleeping' = {} /\ Queued' = {}
    BY <1>1 DEF ModeFits, MockAnswer, thread, Queued
  <1> QED
    BY <1>2 DEF MockAnswer, Jobs

-----------------------------------------------------------------------------
(* Each command in one place *)

LEMMA ThreadPreserved ==
  ASSUME PlacesInv, [Next]_vars
  PROVE  ThreadFits(sleeping, Line)'
  <1> USE DEF PlacesInv
  <1>1. ASSUME UNCHANGED thread
        PROVE  ThreadFits(sleeping, Line)'
    BY <1>1 DEF thread, Line
  <1>2. CASE Handle
    <2>1. PICK S \in SUBSET Pairs, L \in Seq(Pairs), c \in Inputs :
            S = sleeping /\ L = Line /\ c = Head(toCalc)
      BY <1>2, JobTypes, JobTaken
    <2>2. \A j \in S : j[1] # c
      BY <1>2, <2>1, JobTaken DEF Jobs
    <2>3. \A n \in DOMAIN L : L[n][1] # c
      <3>1. \A n \in DOMAIN L : L[n] \in Queued
        BY <2>1, JobTypes DEF Range
      <3> QED
        BY <1>2, <2>1, <3>1, JobTaken DEF Jobs
    <2>4. ThreadFits(S \cup {<<c, 1>>}, L)
      BY <2>1, <2>2, <2>3, ThreadStarts
    <2>5. sleeping' = S \cup {<<c, 1>>} /\ Line' = L
      BY <1>2, <2>1 DEF Handle, StartThread, Line
    <2> QED
      BY <2>4, <2>5
  <1>3. CASE ThreadStep
    <2>1. CASE Splice
      BY <1>3, <2>1, JobsSpliced DEF ThreadStep
    <2>2. ASSUME NEW c \in Inputs, NEW k \in {1, 2}, Request(c, k)
          PROVE  ThreadFits(sleeping, Line)'
      <3>1. PICK S \in SUBSET Pairs, L \in Seq(Pairs) : S = sleeping /\ L = Line
        BY JobTypes
      <3>2. /\ <<c, k>> \in S /\ Line' = Append(L, <<c, k>>)
            /\ sleeping' = (S \ {<<c, k>>}) \cup (IF k = 1 THEN {<<c, 2>>} ELSE {})
        BY <1>3, <2>2, <3>1, JobQueued DEF Request, ThreadStep
      <3>3. ThreadFits((S \ {<<c, k>>}) \cup (IF k = 1 THEN {<<c, 2>>} ELSE {}),
                       Append(L, <<c, k>>))
        BY <3>1, <3>2, ThreadQueues
      <3> QED
        BY <3>2, <3>3
    <2> QED
      BY <1>3, <2>1, <2>2 DEF ThreadStep
  <1>4. ASSUME NEW c \in Inputs, NEW k \in {1, 2}, OnCalculateResult(c, k)
        PROVE  ThreadFits(sleeping, Line)'
    <2>1. PICK S \in SUBSET Pairs, L \in Seq(Pairs) : S = sleeping /\ L = Line
      BY JobTypes
    <2>2. L # <<>> /\ Line' = Tail(L) /\ sleeping' = S
      BY <1>4, <2>1, JobAnswered DEF OnCalculateResult
    <2>3. ThreadFits(S, Tail(L))
      BY <2>1, <2>2, ThreadAnswers
    <2> QED
      BY <2>2, <2>3
  <1>5. CASE RestartCalculator
    <2>1. sleeping' = {} /\ Line' = <<>> \o <<>>
      BY <1>5 DEF RestartCalculator, Exit, Line
    <2>2. <<>> \o <<>> = <<>>
      OBVIOUS
    <2>3. ThreadFits({}, <<>>)
      BY DEF ThreadFits
    <2> QED
      BY <2>1, <2>2, <2>3
  <1>6. CASE MainProgram
    <2>1. UNCHANGED thread
      BY <1>6 DEF MainProgram, MainLogicCombination, CreateCommand, HandleResult,
                  Configure, QueryOutstandingCommands, ClearCommands, MockTake,
                  MockAnswer, RestartMain
    <2> QED
      BY <1>1, <2>1
  <1>7. CASE UNCHANGED vars
    BY <1>1, <1>7 DEF vars
  <1> QED
    BY <1>2, <1>3, <1>4, <1>5, <1>6, <1>7 DEF Next, CalculatorProgram

LEMMA ModePreserved ==
  ASSUME PlacesInv, [Next]_vars
  PROVE  ModeFits'
  <1> USE DEF PlacesInv
  <1>1. ASSUME UNCHANGED <<virtual, thread, idLookup, mock>>
        PROVE  ModeFits'
    BY <1>1 DEF ModeFits, thread
  <1>2. CASE MainLogicCombination
    <2>1. UNCHANGED <<virtual, thread, idLookup, mock>>
      BY <1>2 DEF MainLogicCombination, CreateCommand, HandleResult, Configure,
                  QueryOutstandingCommands, ClearCommands
    <2> QED
      BY <1>1, <2>1
  <1>3. CASE MockTake
    <2>1. PICK c : c = Head(toCalc) /\ \A j \in mock : j[1] # c
      BY <1>3, JobTaken DEF Jobs
    <2>2. mock' = mock \cup {<<c, 1>>} /\ virtual /\ UNCHANGED <<virtual, thread, idLookup>>
      BY <1>3, <2>1 DEF MockTake
    <2>3. <<c, 1>>[1] = c
      OBVIOUS
    <2> QED
      BY <2>1, <2>2, <2>3 DEF ModeFits, thread
  <1>4. ASSUME NEW c \in Inputs, NEW k \in {1, 2}, MockAnswer(c, k)
        PROVE  ModeFits'
    <2>1. /\ virtual /\ UNCHANGED <<virtual, thread, idLookup>> /\ <<c, k>> \in mock
          /\ mock' = (mock \ {<<c, k>>}) \cup (IF k = 1 THEN {<<c, 2>>} ELSE {})
      BY <1>4, MockAnswered DEF MockAnswer, ModeFits
    <2>2. \A j \in mock' : j = <<c, 2>> \/ (j \in mock /\ j[1] # c)
      BY <2>1 DEF ModeFits
    <2>3. \A i, j \in mock' : i[1] = j[1] => i = j
      BY <2>2 DEF ModeFits
    <2> QED
      BY <2>1, <2>3 DEF ModeFits, thread
  <1>5. CASE RestartMain
    BY <1>5 DEF RestartMain, ModeFits, thread
  <1>6. CASE CalculatorProgram
    <2>1. ~ virtual
      <3>1. CASE Handle \/ RestartCalculator
        BY <3>1 DEF Handle, RestartCalculator
      <3>2. CASE ThreadStep
        BY <3>2 DEF ThreadStep, Splice, Request, ModeFits, thread
      <3>3. CASE \E c \in Inputs, k \in {1, 2} : OnCalculateResult(c, k)
        BY <3>3 DEF OnCalculateResult, Answer, ModeFits, thread
      <3> QED
        BY <1>6, <3>1, <3>2, <3>3 DEF CalculatorProgram
    <2>2. UNCHANGED <<virtual, mock>>
      BY <1>6 DEF CalculatorProgram, Handle, ThreadStep, OnCalculateResult,
                  RestartCalculator
    <2> QED
      BY <2>1, <2>2 DEF ModeFits
  <1>7. CASE UNCHANGED vars
    BY <1>1, <1>7 DEF vars
  <1> QED
    BY <1>2, <1>3, <1>4, <1>5, <1>6, <1>7 DEF Next, MainProgram

\* Constant-level facts about commands on their way.
LEMMA SentFewer ==
  ASSUME NEW T, NEW J, NEW K, SentFits(T, J), \A k \in K : \E j \in J : k[1] = j[1]
  PROVE  SentFits(T, K)
  BY DEF SentFits

LEMMA SentMore ==
  ASSUME NEW T \in Seq(Inputs), NEW J, NEW c \in Inputs, SentFits(T, J),
         \A n \in DOMAIN T : T[n] # c, \A j \in J : j[1] # c
  PROVE  SentFits(Append(T, c), J)
  <1> DEFINE A == Append(T, c)
  <1>1. /\ \A n \in DOMAIN T : n \in DOMAIN A /\ A[n] = T[n]
        /\ \A n \in DOMAIN A : n \in DOMAIN T \/ n = Len(T) + 1
        /\ A[Len(T) + 1] = c
    BY AppendElements
  <1> HIDE DEF A
  <1>2. \A m, n \in DOMAIN A : A[m] = A[n] => m = n
    BY <1>1 DEF SentFits
  <1>3. \A n \in DOMAIN A : \A j \in J : j[1] # A[n]
    BY <1>1 DEF SentFits
  <1> QED
    BY <1>2, <1>3 DEF SentFits, A

LEMMA SentTaken ==
  ASSUME NEW T \in Seq(Inputs), NEW J, T # <<>>, SentFits(T, J)
  PROVE  SentFits(Tail(T), J \cup {<<Head(T), 1>>})
  <1> DEFINE R == Tail(T)
             K == J \cup {<<Head(T), 1>>}
  <1>1. /\ \A n \in DOMAIN R : n + 1 \in DOMAIN T /\ R[n] = T[n + 1]
        /\ DOMAIN R = 1..(Len(T) - 1) /\ Len(T) \in Nat \ {0}
        /\ Head(T) = T[1] /\ 1 \in DOMAIN T
    BY TailElements
  <1> HIDE DEF R
  <1>2. \A m, n \in DOMAIN R : R[m] = R[n] => m = n
    <2> SUFFICES ASSUME NEW m \in DOMAIN R, NEW n \in DOMAIN R, R[m] = R[n] PROVE m = n
      OBVIOUS
    <2>1. m + 1 = n + 1
      BY <1>1 DEF SentFits
    <2> QED
      BY <1>1, <2>1
  <1>3. \A n \in DOMAIN R : R[n] # Head(T)
    <2> SUFFICES ASSUME NEW n \in DOMAIN R, R[n] = T[1] PROVE FALSE
      BY <1>1
    <2>1. n + 1 = 1
      BY <1>1 DEF SentFits
    <2> QED
      BY <1>1, <2>1
  <1>4. \A n \in DOMAIN R : \A j \in K : j[1] # R[n]
    BY <1>1, <1>3 DEF SentFits
  <1> QED
    BY <1>2, <1>4 DEF SentFits, R

LEMMA AirFewer ==
  ASSUME NEW A \in SUBSET Inputs, NEW B \in SUBSET A, NEW l \in Nat, NEW k \in Nat,
         AirFits(A, l, k)
  PROVE  /\ AirFits(B, l, k)
         /\ AirFits(B, l + 1, 0)
  <1>1. AirFits(B, l, k)
    BY DEF AirFits
  <1>2. \A c \in B : c.life \in Nat /\ c.life <= l
    BY InputParts, DemoOK DEF AirFits
  <1>3. \A c \in B : c.life <= l + 1 /\ c.life # l + 1
    BY <1>2
  <1> QED
    BY <1>1, <1>3 DEF AirFits

LEMMA AirMore ==
  ASSUME NEW A \in SUBSET Inputs, NEW l \in Nat, NEW k \in Nat, NEW c \in Inputs,
         c.life = l, c.id = k + 1, AirFits(A, l, k)
  PROVE  AirFits(A \cup {c}, l, k + 1) /\ c \notin A
  <1>1. \A d \in A : d.life <= l /\ d.id \in Nat /\ (d.life = l => d.id <= k)
    BY InputParts, DemoOK DEF AirFits, Ids
  <1>2. \A d \in A : d.life = c.life => d.id # c.id
    BY <1>1
  <1>3. c \notin A
    BY <1>2
  <1>4. \A d \in A \cup {c} : d.life <= l /\ (d.life = l => d.id <= k + 1)
    BY <1>1
  <1>5. \A d, e \in A \cup {c} : d.life = e.life /\ d.id = e.id => d = e
    BY <1>2 DEF AirFits
  <1> QED
    BY <1>3, <1>4, <1>5 DEF AirFits

LEMMA PublishedElements ==
  ASSUME TypeOK, NEW key \in Inputs, NEW c \in Inputs, NEW count \in {1, 2},
         Publish(key, <<c, count>>)
  PROVE  Answered' \subseteq Answered \cup {c}
  <1>1. PICK M \in Seq(CommandResults) : M = toMain
    BY DEF TypeOK, CommandResults, Pairs
  <1>2. PICK r \in CommandResults : r = [key |-> key, answer |-> <<c, count>>]
    BY DEF CommandResults, Pairs
  <1>3. toMain' = Append(M, r) \/ toMain' = M
    BY <1>1, <1>2 DEF Publish
  <1>4. CASE toMain' = M
    BY <1>1, <1>4 DEF Answered
  <1>5. CASE toMain' = Append(M, r)
    <2>1. /\ \A n \in DOMAIN M : n \in DOMAIN toMain' /\ toMain'[n] = M[n]
          /\ \A n \in DOMAIN toMain' : n \in DOMAIN M \/ n = Len(M) + 1
          /\ toMain'[Len(M) + 1] = r
      BY <1>5, AppendElements
    <2>2. \A n \in DOMAIN toMain' : toMain'[n].answer[1] \in Answered \cup {c}
      BY <1>1, <1>2, <2>1 DEF Answered
    <2> QED
      BY <2>2 DEF Answered
  <1> QED
    BY <1>3, <1>4, <1>5

LEMMA SentShorter ==
  ASSUME TypeOK, toCalc # <<>>, toCalc' = Tail(toCalc)
  PROVE  Sent' \subseteq Sent
  <1>1. PICK T \in Seq(Inputs) : T = toCalc
    BY DEF TypeOK
  <1>2. \A n \in DOMAIN Tail(T) : n + 1 \in DOMAIN T /\ Tail(T)[n] = T[n + 1]
    BY <1>1, TailElements
  <1> DEFINE R == Tail(T)
  <1>3. \A n \in DOMAIN R : R[n] \in Sent
    <2> HIDE DEF R
    <2>1. \A n \in DOMAIN R : n + 1 \in DOMAIN T /\ R[n] = T[n + 1]
      BY <1>2 DEF R
    <2> QED
      BY <1>1, <2>1 DEF Sent
  <1>4. toCalc' = R
    BY <1>1
  <1> QED
    BY <1>3, <1>4 DEF Sent

LEMMA MovesTaken ==
  ASSUME PlacesInv, Handle \/ MockTake
  PROVE  SentFits(toCalc, Jobs)' /\ Air' \subseteq Air
  <1> USE DEF PlacesInv
  <1>1. PICK T \in Seq(Inputs), c \in Inputs : T = toCalc /\ c = Head(toCalc)
    BY JobTaken DEF TypeOK
  <1>2. /\ T # <<>> /\ toCalc' = Tail(T) /\ c \in Sent /\ c = Head(T)
        /\ Jobs' = Jobs \cup {<<c, 1>>} /\ UNCHANGED toMain
    BY <1>1, JobTaken
  <1>3. SentFits(Tail(T), Jobs \cup {<<c, 1>>})
    BY <1>1, <1>2, SentTaken
  <1>4. Sent' \subseteq Sent
    BY <1>1, <1>2, SentShorter
  <1>5. \A j \in Jobs' : j[1] \in Air
    BY <1>2 DEF Air
  <1>6. Air' \subseteq Air
    BY <1>2, <1>4, <1>5 DEF Air, Answered
  <1> QED
    BY <1>2, <1>3, <1>6

\* Jobs go on, and answers are published of commands that have one.
LEMMA MovesOn ==
  ASSUME PlacesInv, UNCHANGED toCalc,
         \A j \in Jobs' : \E i \in Jobs : j[1] = i[1],
         Answered' \subseteq Air
  PROVE  SentFits(toCalc, Jobs)' /\ Air' \subseteq Air
  <1> USE DEF PlacesInv
  <1>1. PICK T, J, K : T = toCalc /\ J = Jobs /\ K = Jobs'
    OBVIOUS
  <1>2. SentFits(T, K)
    BY <1>1, SentFewer
  <1>3. \A j \in Jobs' : j[1] \in Air
    BY DEF Air
  <1>4. Sent' = Sent
    BY DEF Sent
  <1>5. Air' \subseteq Air
    BY <1>3, <1>4 DEF Air
  <1> QED
    BY <1>1, <1>2, <1>5

LEMMA MovesAnswered ==
  ASSUME PlacesInv, NEW c \in Inputs, NEW count \in {1, 2},
         OnCalculateResult(c, count) \/ MockAnswer(c, count)
  PROVE  SentFits(toCalc, Jobs)' /\ Air' \subseteq Air
  <1> USE DEF PlacesInv
  <1>1. /\ <<c, count>> \in Jobs
        /\ Jobs' \subseteq Jobs \cup {<<c, 2>>}
    BY JobAnswered, MockAnswered DEF OnCalculateResult, Jobs
  <1>2. \A j \in Jobs' : \E i \in Jobs : j[1] = i[1]
    BY <1>1
  <1>3. Answered' \subseteq Answered \cup {c}
    <2>1. CASE OnCalculateResult(c, count) /\ c.id \notin DOMAIN idLookup
      BY <2>1 DEF OnCalculateResult, Answered
    <2>2. CASE OnCalculateResult(c, count) /\ c.id \in DOMAIN idLookup
      <3>1. idLookup[c.id] \in Inputs /\ Publish(idLookup[c.id], <<c, count>>)
        BY <2>2 DEF OnCalculateResult, TypeOK
      <3> QED
        BY <3>1, PublishedElements
    <2>3. CASE MockAnswer(c, count)
      BY <2>3, PublishedElements DEF MockAnswer
    <2> QED
      BY <2>1, <2>2, <2>3
  <1>4. c \in Air
    <2>1. <<c, count>>[1] = c
      OBVIOUS
    <2> QED
      BY <1>1, <2>1 DEF Air
  <1>5. Answered' \subseteq Air /\ UNCHANGED toCalc
    BY <1>3, <1>4 DEF Air, OnCalculateResult, MockAnswer
  <1> QED
    BY <1>2, <1>5, MovesOn

LEMMA MovesHeard ==
  ASSUME PlacesInv, HandleResult
  PROVE  SentFits(toCalc, Jobs)' /\ Air' \subseteq Air
  <1> USE DEF PlacesInv
  <1>1. PICK M \in Seq(CommandResults) : M = toMain
    BY DEF TypeOK, CommandResults, Pairs
  <1>2. M # <<>> /\ toMain' = Tail(M) /\ UNCHANGED <<toCalc, mock, thread>>
    BY <1>1 DEF HandleResult
  <1> DEFINE R == Tail(M)
  <1>3. \A n \in DOMAIN R : n + 1 \in DOMAIN M /\ R[n] = M[n + 1]
    BY <1>2, TailElements
  <1>4. \A n \in DOMAIN R : R[n].answer[1] \in Answered
    <2> HIDE DEF R
    <2> QED
      BY <1>1, <1>3 DEF Answered
  <1>5. Answered' \subseteq Answered
    BY <1>2, <1>4 DEF Answered
  <1>6. Jobs' = Jobs
    BY <1>2 DEF Jobs, Queued, thread
  <1>7. Answered' \subseteq Air
    BY <1>5 DEF Air
  <1> QED
    BY <1>2, <1>6, <1>7, MovesOn

LEMMA MovesInThread ==
  ASSUME PlacesInv, ThreadStep
  PROVE  SentFits(toCalc, Jobs)' /\ Air' \subseteq Air
  <1> USE DEF PlacesInv
  <1>1. UNCHANGED <<toCalc, toMain, mock>>
    BY DEF ThreadStep
  <1>2. \A j \in Jobs' : \E i \in Jobs : j[1] = i[1]
    <2>1. CASE Splice
      BY <1>1, <2>1, JobsSpliced
    <2>2. ASSUME NEW c \in Inputs, NEW k \in {1, 2}, Request(c, k)
          PROVE  \A j \in Jobs' : \E i \in Jobs : j[1] = i[1]
      <3>1. <<c, k>> \in Jobs /\ Jobs' \subseteq Jobs \cup {<<c, 2>>}
        BY <1>1, <2>2, JobQueued DEF Jobs
      <3>2. <<c, k>>[1] = c /\ <<c, 2>>[1] = c
        OBVIOUS
      <3> QED
        BY <3>1, <3>2
    <2> QED
      BY <2>1, <2>2 DEF ThreadStep
  <1>3. Answered' \subseteq Air
    BY <1>1 DEF Answered, Air
  <1> QED
    BY <1>1, <1>2, <1>3, MovesOn

\* A new command has an id no command of this life has, wherever it is.
LEMMA MovesCreated ==
  ASSUME PlacesInv, NEW v \in Values, CreateCommand(v)
  PROVE  /\ SentFits(toCalc, Jobs)'
         /\ AirFits(Air, life, idCounter)'
         /\ \E c \in Inputs : /\ c.life = life /\ c.id = idCounter' /\ c \notin Air
                              /\ toCalc' = Append(toCalc, c) /\ Air' = Air \cup {c}
  <1> USE DEF PlacesInv
  <1>1. life \in Nat /\ idCounter \in Nat /\ idCounter' = idCounter + 1
        /\ idCounter' \in Ids /\ life \in 1..MaxLives
    BY DemoOK DEF TypeOK, CreateCommand, Ids
  <1>2. PICK c \in Inputs : /\ c = [life |-> life, id |-> idCounter', value |-> v]
                            /\ c.life = life /\ c.id = idCounter + 1
    <2>1. PICK l \in 1..MaxLives, k \in 1..MaxId : l = life /\ k = idCounter'
      BY <1>1 DEF Ids
    <2>2. [life |-> l, id |-> k, value |-> v] \in Inputs
      BY DemoOK
    <2> QED
      BY <1>1, <2>1, <2>2
  <1>3. PICK T \in Seq(Inputs) : T = toCalc
    BY DEF TypeOK
  <1>4. toCalc' = Append(T, c) /\ UNCHANGED <<toMain, mock, thread, life>>
    BY <1>2, <1>3 DEF CreateCommand
  <1>5. AirFits(Air \cup {c}, life, idCounter + 1) /\ c \notin Air
    BY <1>1, <1>2, JobTypes, AirMore
  <1>6. Jobs' = Jobs /\ Answered' = Answered
    BY <1>4 DEF Jobs, Queued, thread, Answered
  <1>7. \A j \in Jobs : j[1] # c
    BY <1>5 DEF Air
  <1>8. \A n \in DOMAIN T : T[n] # c
    BY <1>3, <1>5 DEF Air, Sent
  <1>9. SentFits(Append(T, c), Jobs)
    BY <1>3, <1>7, <1>8, SentMore
  <1>10. Sent' = Sent \cup {c}
    <2>1. Range(Append(T, c)) = Range(T) \cup {c}
      BY AppendElements
    <2>2. Sent = Range(T) /\ Sent' = Range(Append(T, c))
      BY <1>3, <1>4 DEF Sent, Range
    <2> QED
      BY <2>1, <2>2
  <1>11. Air' = Air \cup {c}
    BY <1>6, <1>10 DEF Air
  <1> QED
    BY <1>1, <1>2, <1>3, <1>4, <1>5, <1>6, <1>9, <1>11

LEMMA MovesRestarted ==
  ASSUME PlacesInv, RestartMain \/ RestartCalculator
  PROVE  SentFits(toCalc, Jobs)' /\ Air' \subseteq Air
  <1> USE DEF PlacesInv
  <1>1. Jobs' \subseteq Jobs
    <2>1. CASE RestartMain
      BY <2>1 DEF RestartMain, Jobs, Queued, thread
    <2>2. CASE RestartCalculator
      <3>1. mock' = mock /\ sleeping' = {} /\ incoming' = <<>> /\ processing' = <<>>
        BY <2>2 DEF RestartCalculator, Exit
      <3>2. Queued' = {}
        BY <3>1 DEF Queued
      <3> QED
        BY <3>1, <3>2 DEF Jobs
    <2> QED
      BY <2>1, <2>2
  <1>2. PICK T, J, K : T = toCalc /\ J = Jobs /\ K = Jobs'
    OBVIOUS
  <1>3. toCalc' = T \/ toCalc' = <<>>
    BY <1>2 DEF RestartMain, RestartCalculator
  <1>4. SentFits(T, K) /\ SentFits(<<>>, K)
    <2>1. SentFits(T, K)
      BY <1>1, <1>2, SentFewer
    <2> QED
      BY <2>1 DEF SentFits
  <1>5. SentFits(toCalc, Jobs)'
    BY <1>2, <1>3, <1>4
  <1>6. Sent' \subseteq Sent
    BY <1>2, <1>3 DEF Sent
  <1>7. Answered' \subseteq Answered
    BY DEF RestartMain, RestartCalculator, Answered
  <1>8. Air' \subseteq Air
    BY <1>1, <1>6, <1>7 DEF Air
  <1> QED
    BY <1>5, <1>8

LEMMA PlacesMove ==
  ASSUME PlacesInv, [Next]_vars
  PROVE  /\ SentFits(toCalc, Jobs)' /\ AirFits(Air, life, idCounter)'
         /\ Air' \subseteq Air \/ \E v \in Values : CreateCommand(v)
  <1> USE DEF PlacesInv
  <1>1. life \in Nat /\ idCounter \in Nat /\ Air \in SUBSET Inputs
    BY DemoOK, JobTypes DEF TypeOK
  <1>2. CASE \E v \in Values : CreateCommand(v)
    BY <1>2, MovesCreated
  <1>3. ASSUME SentFits(toCalc, Jobs)', Air' \subseteq Air, UNCHANGED <<life, idCounter>>
        PROVE  SentFits(toCalc, Jobs)' /\ AirFits(Air, life, idCounter)'
               /\ Air' \subseteq Air
    <2>1. AirFits(Air', life, idCounter)
      BY <1>1, <1>3, AirFewer
    <2> QED
      BY <1>3, <2>1
  <1>4. CASE HandleResult
    BY <1>3, <1>4, MovesHeard DEF HandleResult
  <1>5. ASSUME UNCHANGED <<toCalc, toMain, mock, thread>>
        PROVE  SentFits(toCalc, Jobs)' /\ Air' \subseteq Air
    BY <1>5 DEF Jobs, Queued, Air, Sent, Answered, thread
  <1>6. CASE \/ \E on \in BOOLEAN : Configure(on)
             \/ QueryOutstandingCommands
             \/ \E I \in (SUBSET seen) \ {{}} : ClearCommands(I)
             \/ UNCHANGED vars
    <2>1. UNCHANGED <<toCalc, toMain, mock, thread, life, idCounter>>
      BY <1>6 DEF Configure, QueryOutstandingCommands, ClearCommands, vars, main
    <2> QED
      BY <1>3, <1>5, <2>1
  <1>7. CASE MockTake \/ Handle
    BY <1>3, <1>7, MovesTaken DEF MockTake, Handle, main
  <1>8. CASE \E c \in Inputs, k \in {1, 2} : MockAnswer(c, k) \/ OnCalculateResult(c, k)
    <2>1. UNCHANGED <<life, idCounter>>
      BY <1>8 DEF MockAnswer, OnCalculateResult, main
    <2> QED
      BY <1>3, <1>8, <2>1, MovesAnswered
  <1>9. CASE RestartMain
    <2>1. Air' \in SUBSET Air /\ life' = life + 1 /\ idCounter' = 0
      BY <1>9, MovesRestarted DEF RestartMain
    <2>2. AirFits(Air', life + 1, 0)
      BY <1>1, <2>1, AirFewer
    <2> QED
      BY <1>9, <2>1, <2>2, MovesRestarted
  <1>10. CASE RestartCalculator
    BY <1>3, <1>10, MovesRestarted DEF RestartCalculator, main
  <1>11. CASE ThreadStep
    BY <1>3, <1>11, MovesInThread DEF ThreadStep, main
  <1> QED
    BY <1>2, <1>4, <1>6, <1>7, <1>8, <1>9, <1>10, <1>11
    DEF Next, MainProgram, MainLogicCombination, CalculatorProgram

-----------------------------------------------------------------------------
(* Ids given *)

\* A command that is created is outstanding; it stops to be when it is cleared,
\* by its final answer, or with its life.
LEMMA CountedPreserved ==
  ASSUME PlacesInv, [Next]_vars
  PROVE  Counted'
  <1> USE DEF PlacesInv
  <1>1. idCounter \in Nat
    BY DemoOK DEF TypeOK
  <1>2. ASSUME NEW v \in Values, CreateCommand(v)
        PROVE  Counted'
    <2>1. /\ idCounter' = idCounter + 1 /\ outstanding' = outstanding \cup {idCounter'}
          /\ UNCHANGED <<cleared, heard>>
      BY <1>2 DEF CreateCommand, history
    <2>2. \A id \in Ids : id <= idCounter' => id <= idCounter \/ id = idCounter'
      BY <1>1, <2>1, DemoOK DEF Ids
    <2> QED
      BY <2>1, <2>2 DEF Counted, HeardFinal
  <1>3. CASE HandleResult
    <2> DEFINE r == Head(toMain)
               hid == r.key.id
    <2>1. r \in CommandResults
      <3>1. toMain \in Seq(CommandResults) /\ toMain # <<>>
        BY <1>3 DEF TypeOK, HandleResult, CommandResults, Pairs
      <3> QED
        BY <3>1
    <2>2. hid \in Ids /\ r.answer \in Pairs
      BY <2>1, InputParts DEF CommandResults
    <2>3. PICK k \in Ids, a \in Pairs : k = hid /\ a = r.answer
      BY <2>2
    <2>4. /\ heard' = [heard EXCEPT ![k] = Append(@, a)]
          /\ outstanding' = IF IsFinal(a[1], a[2]) THEN outstanding \ {k} ELSE outstanding
          /\ UNCHANGED <<cleared, idCounter>>
      BY <1>3, <2>3 DEF HandleResult
    <2>5. heard \in [Ids -> Seq(Pairs)]
      BY DEF TypeOK, Pairs
    <2>6. heard'[k] = Append(heard[k], a) /\ \A id \in Ids \ {k} : heard'[id] = heard[id]
      BY <2>4, <2>5
    <2>7. PICK h \in Seq(Pairs) : h = heard[k]
      BY <2>5
    <2>8. /\ \A n \in DOMAIN h : n \in DOMAIN heard'[k] /\ heard'[k][n] = h[n]
          /\ Len(h) + 1 \in DOMAIN heard'[k] /\ heard'[k][Len(h) + 1] = a
      BY <2>6, <2>7, AppendElements
    <2>9. \A id \in Ids : HeardFinal(id) => HeardFinal(id)'
      BY <2>6, <2>7, <2>8 DEF HeardFinal
    <2>10. IsFinal(a[1], a[2]) => HeardFinal(k)'
      BY <2>8 DEF HeardFinal
    <2> QED
      BY <2>4, <2>9, <2>10 DEF Counted
  <1>4. ASSUME UNCHANGED <<idCounter, outstanding, cleared, heard>>
        PROVE  Counted'
    BY <1>4 DEF Counted, HeardFinal
  <1>5. CASE \E on \in BOOLEAN : Configure(on)
    BY <1>4, <1>5 DEF Configure, history
  <1>6. CASE QueryOutstandingCommands
    BY <1>4, <1>6 DEF QueryOutstandingCommands, main, history
  <1>7. ASSUME NEW I, ClearCommands(I)
        PROVE  Counted'
    BY <1>7 DEF ClearCommands, Counted, HeardFinal
  <1>8. CASE RestartMain
    <2>1. idCounter' = 0
      BY <1>8 DEF RestartMain
    <2>2. \A id \in Ids : ~ (id <= 0)
      BY DemoOK DEF Ids
    <2> QED
      BY <2>1, <2>2 DEF Counted
  <1>9. CASE MockTake
    BY <1>4, <1>9 DEF MockTake, main, history
  <1>10. CASE \E c \in Inputs, k \in {1, 2} : MockAnswer(c, k)
    BY <1>4, <1>10 DEF MockAnswer, main, history
  <1>11. CASE CalculatorProgram
    <2>1. UNCHANGED <<idCounter, outstanding, cleared, heard>>
      BY <1>11 DEF CalculatorProgram, Handle, ThreadStep, OnCalculateResult,
                   RestartCalculator, main, history
    <2> QED
      BY <1>4, <2>1
  <1>12. CASE UNCHANGED vars
    BY <1>4, <1>12 DEF vars, main, history
  <1> QED
    BY <1>2, <1>3, <1>5, <1>6, <1>7, <1>8, <1>9, <1>10, <1>11, <1>12
    DEF Next, MainProgram, MainLogicCombination

LEMMA PlacesStart == Init => PlacesInv
  <1> SUFFICES ASSUME Init PROVE PlacesInv
    OBVIOUS
  <1>1. /\ toCalc = <<>> /\ toMain = <<>> /\ mock = {} /\ sleeping = {}
        /\ incoming = <<>> /\ processing = <<>> /\ DOMAIN idLookup = {}
    BY DEF Init, ThreadInit
  <1>2. Queued = {} /\ Jobs = {} /\ Sent = {} /\ Answered = {}
    BY <1>1 DEF Queued, Jobs, Sent, Answered
  <1>3. Air = {}
    BY <1>2 DEF Air
  <1>4. Line = <<>>
    BY <1>1 DEF Line
  <1>5. ThreadFits(sleeping, Line)
    BY <1>1, <1>4 DEF ThreadFits
  <1>6. ModeFits
    BY <1>1 DEF ModeFits, thread
  <1>7. SentFits(toCalc, Jobs) /\ AirFits(Air, life, idCounter)
    BY <1>1, <1>2, <1>3 DEF SentFits, AirFits
  <1>8. Counted
    <2>1. idCounter = 0 /\ \A id \in Ids : ~ (id <= 0)
      BY DemoOK DEF Init, Ids
    <2> QED
      BY <2>1 DEF Counted
  <1> QED
    BY <1>5, <1>6, <1>7, <1>8, TypeStart DEF PlacesInv

LEMMA PlacesPreserved == PlacesInv /\ [Next]_vars => PlacesInv'
  <1> SUFFICES ASSUME PlacesInv, [Next]_vars PROVE PlacesInv'
    OBVIOUS
  <1>1. TypeOK'
    BY TypePreserved DEF PlacesInv
  <1> QED
    BY <1>1, ThreadPreserved, ModePreserved, PlacesMove, CountedPreserved DEF PlacesInv

\* Every command is in one place, and its answers are due in their order.
THEOREM PlacesCorrect == Spec => []PlacesInv
  BY PlacesStart, PlacesPreserved, PTL DEF Spec

LEMMA InTheAirIsAir ==
  ASSUME TypeOK
  PROVE  InTheAir \subseteq Air
  <1>1. \A j \in mock \cup Owed : j \in Jobs
    BY JobTypes DEF Jobs
  <1> QED
    BY <1>1 DEF InTheAir, Air, Sent, Answered

LEMMA LoadFits == PlacesInv => LoadIsLimited
  <1> SUFFICES ASSUME PlacesInv PROVE LoadIsLimited
    OBVIOUS
  <1> USE DEF PlacesInv
  <1> DEFINE Load == {c \in InTheAir : /\ c.life = life /\ c.id \notin cleared
                                       /\ ~ HeardFinal(c.id)}
             f == [c \in Load |-> c.id]
  <1>1. \A c \in Load : c \in Inputs /\ c \in Air /\ c.id \in Ids /\ c.id <= idCounter
    BY InTheAirIsAir, JobTypes, InputParts DEF AirFits
  <1>2. \A c \in Load : c.id \in outstanding
    BY <1>1 DEF Counted
  <1>3. \A c, d \in Load : c.id = d.id => c = d
    BY <1>1 DEF AirFits
  <1> HIDE DEF Load
  <1>4. f \in Injection(Load, outstanding)
    BY <1>2, <1>3 DEF Injection, IsInjective
  <1>5. IsFiniteSet(outstanding) /\ Cardinality(outstanding) <= Limit
    BY IdsFinite DEF TypeOK
  <1>6. IsFiniteSet(Load) /\ Cardinality(Load) <= Cardinality(outstanding)
    BY <1>4, <1>5, FS_Injection
  <1>7. Cardinality(Load) \in Nat /\ Cardinality(outstanding) \in Nat
    BY <1>5, <1>6, FS_CardinalityType
  <1>8. Cardinality(Load) <= Limit
    BY <1>5, <1>6, <1>7, DemoOK
  <1> QED
    BY <1>8 DEF LoadIsLimited, Load

\* However late answers are, the calculator has at most Limit commands of this
\* life that nobody cleared and that lack their final answer.
THEOREM LoadIsLimitedCorrect == Spec => []LoadIsLimited
  BY PlacesCorrect, LoadFits, PTL

-----------------------------------------------------------------------------
(* The thread implements a set of owed answers *)

Due == sleeping \cup Queued

\* what is owed when D is due
Owing(D) == {j \in D : j[2] = 1 \/ <<j[1], 1>> \notin D}

LEMMA OwedIsOwing == Owed = Owing(Due)
  BY DEF Owed, Owing, Due

LEMMA OwingTaken ==
  ASSUME NEW D \in SUBSET Pairs, NEW c \in Inputs, \A j \in D : j[1] # c
  PROVE  /\ \A n \in {1, 2} : <<c, n>> \notin Owing(D)
         /\ Owing(D \cup {<<c, 1>>}) = Owing(D) \cup {<<c, 1>>}
  <1>1. \A n \in {1, 2} : <<c, n>> \notin D
    OBVIOUS
  <1>2. \A j \in D : <<j[1], 1>> # <<c, 1>>
    OBVIOUS
  <1> QED
    BY <1>1, <1>2 DEF Owing

LEMMA OwingQueued ==
  ASSUME NEW D \in SUBSET Pairs, NEW c \in Inputs, <<c, 1>> \in D
  PROVE  Owing(D \cup {<<c, 2>>}) = Owing(D)
  <1>1. \A j \in Pairs : <<j[1], 1>> # <<c, 2>>
    BY DEF Pairs
  <1>2. <<c, 2>>[1] = c /\ <<c, 2>>[2] # 1
    OBVIOUS
  <1> QED
    BY <1>1, <1>2 DEF Owing

LEMMA OwingFirst ==
  ASSUME NEW D \in SUBSET Pairs, NEW c \in Inputs, <<c, 1>> \in D, <<c, 2>> \in D
  PROVE  /\ <<c, 1>> \in Owing(D)
         /\ Owing(D \ {<<c, 1>>}) = (Owing(D) \ {<<c, 1>>}) \cup {<<c, 2>>}
  <1> DEFINE E == D \ {<<c, 1>>}
             O == (Owing(D) \ {<<c, 1>>}) \cup {<<c, 2>>}
  <1>1. <<c, 1>> \in Owing(D)
    BY DEF Owing
  <1>2. ASSUME NEW j \in Owing(E)
        PROVE  j \in O
    <2>1. j \in D /\ j # <<c, 1>> /\ j \in Pairs
      BY DEF Owing
    <2>2. j[1] = c => j = <<c, 2>>
      BY <2>1 DEF Pairs
    <2>3. j[1] # c => <<j[1], 1>> # <<c, 1>>
      OBVIOUS
    <2> QED
      BY <2>1, <2>2, <2>3 DEF Owing
  <1>3. ASSUME NEW j \in O
        PROVE  j \in Owing(E)
    BY <1>3 DEF Owing
  <1> QED
    BY <1>1, <1>2, <1>3

LEMMA OwingLast ==
  ASSUME NEW D \in SUBSET Pairs, NEW c \in Inputs, <<c, 2>> \in D, <<c, 1>> \notin D
  PROVE  /\ <<c, 2>> \in Owing(D)
         /\ Owing(D \ {<<c, 2>>}) = Owing(D) \ {<<c, 2>>}
  <1>1. \A j \in Pairs : <<j[1], 1>> # <<c, 2>>
    BY DEF Pairs
  <1>2. <<c, 2>> \in Owing(D)
    BY DEF Owing
  <1> QED
    BY <1>1, <1>2 DEF Owing

\* Of the two answers to the command at the head of the line, the last one is
\* due when the first is given, and the first is not due when the last is.
LEMMA HeadOfLine ==
  ASSUME PlacesInv, NEW c \in Inputs, NEW k \in {1, 2}, OnCalculateResult(c, k)
  PROVE  /\ <<c, k>> \in Due /\ Due' = Due \ {<<c, k>>}
         /\ k = 1 <=> <<c, 1>> \in Due
         /\ k = 1 => <<c, 2>> \in Due
  <1> USE DEF PlacesInv
  <1>1. /\ <<c, k>> \in Queued /\ Jobs' = Jobs \ {<<c, k>>}
        /\ Line # <<>> /\ Line[1] = <<c, k>> /\ mock = {} /\ mock' = {}
    BY JobAnswered DEF OnCalculateResult, ModeFits
  <1>2. Due = Jobs /\ Due' = Jobs'
    BY <1>1 DEF Due, Jobs
  <1>3. PICK L \in Seq(Pairs) : L = Line
    BY JobTypes
  <1>4. /\ L # <<>> /\ L[1] = <<c, k>> /\ Queued = Range(L) /\ ThreadFits(sleeping, L)
    BY <1>1, <1>3, JobTypes
  <1>5. DOMAIN L = 1..Len(L) /\ 1 \in DOMAIN L
    BY <1>4, TailElements
  <1>6. k = 1 => <<c, 2>> \in Due
    BY <1>4, <1>5 DEF ThreadFits, Due
  <1>7. ASSUME k = 2
        PROVE  <<c, 1>> \notin Due
    <2>1. <<c, 1>> \notin sleeping
      <3>1. \A j \in sleeping : j[1] = L[1][1] => L[1][2] = 1
        BY <1>4, <1>5 DEF ThreadFits
      <3> QED
        BY <3>1, <1>4, <1>7
    <2>2. \A n \in DOMAIN L : L[n] # <<c, 1>>
      <3> SUFFICES ASSUME NEW n \in DOMAIN L, L[n] = <<c, 1>> PROVE FALSE
        OBVIOUS
      <3>1. n # 1
        BY <1>4, <1>7
      <3>2. 1 < n
        BY <1>5, <3>1
      <3>3. L[1][1] = L[n][1] /\ L[1][2] = 2
        BY <1>4, <1>7
      <3> QED
        BY <1>4, <1>5, <3>2, <3>3 DEF ThreadFits
    <2> QED
      BY <1>4, <2>1, <2>2 DEF Due, Range
  <1>8. <<c, k>> \in Due
    BY <1>1 DEF Due
  <1> QED
    BY <1>1, <1>2, <1>6, <1>7, <1>8

LEMMA OwedStart == Init => Calculator!Init
  BY DEF Init, ThreadInit, Calculator!Init, Owed, Queued

LEMMA OwedStep ==
  ASSUME PlacesInv, [Next]_vars
  PROVE  [Calculator!Next]_Owed
  <1> USE DEF PlacesInv
  <1>1. PICK D \in SUBSET Pairs : D = Due
    BY JobTypes DEF Due
  <1>2. Owed = Owing(D) /\ Owed' = Owing(Due')
    <2>1. Owed' = Owing(Due')
      BY DEF Owed, Owing, Due, Queued
    <2> QED
      BY <1>1, <2>1, OwedIsOwing
  <1>3. ASSUME Due' = Due
        PROVE  Owed' = Owed
    BY <1>1, <1>2, <1>3
  <1>4. CASE UNCHANGED thread
    <2>1. Due' = Due
      BY <1>4 DEF thread, Due, Queued
    <2> QED
      BY <1>3, <2>1
  <1>5. CASE Handle
    <2>1. PICK c \in Inputs : c = Head(toCalc)
      BY <1>5, JobTaken
    <2>2. \A j \in D : j[1] # c
      BY <1>1, <1>5, <2>1, JobTaken DEF Jobs, Due
    <2>3. Due' = D \cup {<<c, 1>>}
      BY <1>1, <1>5, <2>1 DEF Handle, StartThread, Due, Queued
    <2>4. /\ \A n \in {1, 2} : <<c, n>> \notin Owing(D)
          /\ Owing(D \cup {<<c, 1>>}) = Owing(D) \cup {<<c, 1>>}
      BY <2>2, OwingTaken
    <2>5. Calculator!Take(c)
      BY <1>2, <2>3, <2>4 DEF Calculator!Take
    <2> QED
      BY <2>5 DEF Calculator!Next
  <1>6. CASE ThreadStep
    <2>1. CASE Splice
      <3>1. Due' = Due
        BY <1>6, <2>1, JobsSpliced DEF Due, ThreadStep
      <3> QED
        BY <1>3, <3>1
    <2>2. ASSUME NEW c \in Inputs, NEW k \in {1, 2}, Request(c, k)
          PROVE  Owed' = Owed
      <3>1. /\ <<c, k>> \in D
            /\ Due' = D \cup (IF k = 1 THEN {<<c, 2>>} ELSE {})
        BY <1>1, <1>6, <2>2, JobQueued DEF Due, ThreadStep
      <3>2. CASE k = 2
        BY <1>1, <1>3, <3>1, <3>2
      <3>3. CASE k = 1
        <4>1. Owing(D \cup {<<c, 2>>}) = Owing(D) /\ Due' = D \cup {<<c, 2>>}
          BY <3>1, <3>3, OwingQueued
        <4> QED
          BY <1>2, <4>1
      <3> QED
        BY <3>2, <3>3
    <2> QED
      BY <1>6, <2>1, <2>2 DEF ThreadStep
  <1>7. ASSUME NEW c \in Inputs, NEW k \in {1, 2}, OnCalculateResult(c, k)
        PROVE  Calculator!Next
    <2>1. /\ <<c, k>> \in D /\ Due' = D \ {<<c, k>>}
          /\ k = 1 <=> <<c, 1>> \in D
          /\ k = 1 => <<c, 2>> \in D
      BY <1>1, <1>7, HeadOfLine
    <2>2. CASE k = 1
      <3>1. Calculator!AnswerFirst(c)
        BY <1>2, <2>1, <2>2, OwingFirst DEF Calculator!AnswerFirst
      <3> QED
        BY <3>1 DEF Calculator!Next
    <2>3. CASE k = 2
      <3>1. Calculator!AnswerLast(c)
        BY <1>2, <2>1, <2>3, OwingLast DEF Calculator!AnswerLast
      <3> QED
        BY <3>1 DEF Calculator!Next
    <2> QED
      BY <2>2, <2>3
  <1>8. CASE RestartCalculator
    <2>1. sleeping' = {} /\ incoming' = <<>> /\ processing' = <<>>
      BY <1>8 DEF RestartCalculator, Exit
    <2>2. Due' = {}
      BY <2>1 DEF Due, Queued
    <2>3. Owed' = {}
      BY <1>2, <2>2 DEF Owing
    <2> QED
      BY <2>3 DEF Calculator!Next, Calculator!Stop
  <1>9. CASE MainProgram
    <2>1. UNCHANGED thread
      BY <1>9 DEF MainProgram, MainLogicCombination, CreateCommand, HandleResult,
                  Configure, QueryOutstandingCommands, ClearCommands, MockTake,
                  MockAnswer, RestartMain
    <2> QED
      BY <1>4, <2>1
  <1>10. CASE UNCHANGED vars
    BY <1>4, <1>10 DEF vars
  <1> QED
    BY <1>5, <1>6, <1>7, <1>8, <1>9, <1>10 DEF Next, CalculatorProgram

\* The calculator, with its detached threads, its queue and the spliced list,
\* takes each request once and gives two answers, in order, until it is stopped.
THEOREM ImplementsTwoAnswersCorrect == Spec => ImplementsTwoAnswers
  <1>1. Spec => Calculator!Init
    BY OwedStart DEF Spec
  <1>2. PlacesInv /\ [Next]_vars => [Calculator!Next]_Owed
    BY OwedStep
  <1> QED
    BY <1>1, <1>2, PlacesCorrect, PTL DEF Spec, ImplementsTwoAnswers, Calculator!Spec

-----------------------------------------------------------------------------
(* What the main program hears *)

\* I: ids, H: heard, M: answers on their way, J: jobs, T: commands on their way
Heard == [Ids -> Seq(Pairs)]

\* A new command joins the line, under an id of its own or one left aside.
LEMMA StoryCreated ==
  ASSUME NEW I, NEW H \in Heard, NEW M, NEW J, NEW T \in Seq(Inputs), NEW c \in Inputs,
         NEW K, StoryFits(I, H, M, J, T), H[c.id] = <<>>,
         \/ K = I /\ c.id \notin I
         \/ /\ K = I \cup {c.id}
            /\ \A n \in DOMAIN M : M[n].answer[1].id # c.id
            /\ \A j \in J : j[1].id # c.id
            /\ \A n \in DOMAIN T : T[n].id # c.id
  PROVE  StoryFits(K, H, M, J, Append(T, c))
  <1> DEFINE A == Append(T, c)
  <1>1. /\ \A n \in DOMAIN T : n \in DOMAIN A /\ A[n] = T[n]
        /\ \A n \in DOMAIN A : n \in DOMAIN T \/ n = Len(T) + 1
        /\ A[Len(T) + 1] = c
    BY AppendElements
  <1> HIDE DEF A
  <1>2. SentUnheard(K, H, M, A)
    <2> SUFFICES ASSUME NEW n \in DOMAIN A, A[n].id \in K
                 PROVE  H[A[n].id] = <<>> /\ \A m \in DOMAIN M : M[m].answer[1] # A[n]
      BY DEF SentUnheard
    <2>1. CASE n \in DOMAIN T
      BY <1>1, <2>1 DEF SentUnheard, StoryFits
    <2>2. CASE A[n] = c
      BY <2>2
    <2> QED
      BY <1>1, <2>1, <2>2
  <1>3. MainFits(K, H, M)
    BY DEF MainFits, StoryFits
  <1>4. JobsFit(K, H, M, J)
    BY DEF JobsFit, StoryFits
  <1> QED
    BY <1>2, <1>3, <1>4 DEF StoryFits, A

LEMMA StoryTaken ==
  ASSUME NEW I, NEW H \in Heard, NEW M, NEW J, NEW T \in Seq(Inputs), T # <<>>,
         StoryFits(I, H, M, J, T)
  PROVE  StoryFits(I, H, M, J \cup {<<Head(T), 1>>}, Tail(T))
  <1> DEFINE R == Tail(T)
             c == Head(T)
  <1>1. /\ \A n \in DOMAIN R : n + 1 \in DOMAIN T /\ R[n] = T[n + 1]
        /\ c = T[1] /\ 1 \in DOMAIN T
    BY TailElements
  <1> HIDE DEF R, c
  <1>2. SentUnheard(I, H, M, R)
    BY <1>1 DEF SentUnheard, StoryFits
  <1>3. c.id \in I => H[c.id] = <<>> /\ \A n \in DOMAIN M : M[n].answer[1] # c
    BY <1>1 DEF SentUnheard, StoryFits
  <1>4. <<c, 1>>[1] = c /\ <<c, 1>>[2] = 1
    OBVIOUS
  <1>5. JobsFit(I, H, M, J \cup {<<c, 1>>})
    <2>1. c.id \in I => \A n \in DOMAIN M : M[n].answer # <<c, 1>>
      BY <1>3, <1>4
    <2> QED
      BY <1>3, <1>4, <2>1 DEF JobsFit, StoryFits
  <1> QED
    BY <1>2, <1>5 DEF StoryFits, R, c

LEMMA StoryQueued ==
  ASSUME NEW I, NEW H \in Heard, NEW M, NEW J \in SUBSET Pairs, NEW T, NEW c \in Inputs,
         <<c, 1>> \in J, StoryFits(I, H, M, J, T)
  PROVE  StoryFits(I, H, M, J \cup {<<c, 2>>}, T)
  <1>1. <<c, 1>>[1] = c /\ <<c, 2>>[1] = c /\ <<c, 1>>[2] = 1 /\ <<c, 2>>[2] = 2
    OBVIOUS
  <1>2. c.id \in I => \A n \in DOMAIN M : M[n].answer[1] # c
    BY <1>1 DEF StoryFits, JobsFit
  <1>3. c.id \in I => \A n \in DOMAIN M : M[n].answer # <<c, 2>>
    BY <1>1, <1>2
  <1>4. JobsFit(I, H, M, J \cup {<<c, 2>>})
    <2> DEFINE K == J \cup {<<c, 2>>}
               Fits(j) ==
                 /\ \A n \in DOMAIN M : M[n].answer # j
                 /\ j[2] = 1 => H[j[1].id] = <<>> /\ \A n \in DOMAIN M : M[n].answer[1] # j[1]
                 /\ j[2] = 2 => <<j[1], 1>> \in K \/ FirstGiven(H, M, j[1])
    <2>1. ASSUME NEW j \in J, j[1].id \in I
          PROVE  Fits(j)
      BY <2>1 DEF StoryFits, JobsFit
    <2>2. ASSUME NEW j \in {<<c, 2>>}, j[1].id \in I
          PROVE  Fits(j)
      BY <1>1, <1>3, <2>2
    <2>3. \A j \in K : j \in J \/ j \in {<<c, 2>>}
      OBVIOUS
    <2> HIDE DEF K
    <2>4. JobsFit(I, H, M, K)
      BY <2>1, <2>2, <2>3 DEF JobsFit
    <2> QED
      BY <2>4 DEF K
  <1> QED
    BY <1>4 DEF StoryFits

\* Without the last answer to c, or any answer to an id left aside, nothing else
\* changes.
LEMMA StoryDropped ==
  ASSUME NEW I, NEW H \in Heard, NEW M, NEW J \in SUBSET Pairs, NEW T, NEW c \in Inputs,
         NEW k \in {1, 2}, k = 2 \/ c.id \notin I, NEW K \in SUBSET Pairs,
         K \subseteq (J \ {<<c, k>>}) \cup (IF k = 1 THEN {<<c, 2>>} ELSE {}),
         J \ {<<c, k>>} \subseteq K,
         StoryFits(I, H, M, J, T)
  PROVE  StoryFits(I, H, M, K, T)
  <1>1. JobsFit(I, H, M, K)
    <2> SUFFICES ASSUME NEW j \in K, j[1].id \in I
                 PROVE  /\ \A n \in DOMAIN M : M[n].answer # j
                        /\ j[2] = 1 => H[j[1].id] = <<>> /\ \A n \in DOMAIN M : M[n].answer[1] # j[1]
                        /\ j[2] = 2 => <<j[1], 1>> \in K \/ FirstGiven(H, M, j[1])
      BY DEF JobsFit
    <2>1. <<c, 2>>[1] = c /\ j[1] \in Inputs
      BY PairParts
    <2>2. j \in J
      BY <2>1
    <2>3. /\ \A n \in DOMAIN M : M[n].answer # j
          /\ j[2] = 1 => H[j[1].id] = <<>> /\ \A n \in DOMAIN M : M[n].answer[1] # j[1]
          /\ j[2] = 2 => <<j[1], 1>> \in J \/ FirstGiven(H, M, j[1])
      BY <2>2 DEF StoryFits, JobsFit
    <2>4. <<j[1], 1>> # <<c, k>>
      OBVIOUS
    <2> QED
      BY <2>3, <2>4
  <1> QED
    BY <1>1 DEF StoryFits

LEMMA StoryStopped ==
  ASSUME NEW I, NEW H, NEW M, NEW J, NEW T, NEW U, StoryFits(I, H, M, J, T), U = T \/ U = <<>>
  PROVE  StoryFits(I, H, M, {}, U)
  BY DEF StoryFits, JobsFit, SentUnheard

\* K: the jobs afterwards; the last answer to c remains if it is not given.
LEMMA StoryPublished ==
  ASSUME NEW I, NEW H \in Heard, NEW M \in Seq(CommandResults), NEW J \in SUBSET Pairs, NEW T,
         NEW c \in Inputs, NEW k \in {1, 2}, NEW K \in SUBSET Pairs,
         <<c, k>> \in J, k = 2 => <<c, 1>> \notin J,
         K \subseteq (J \ {<<c, k>>}) \cup (IF k = 1 THEN {<<c, 2>>} ELSE {}),
         J \ {<<c, k>>} \subseteq K,
         \A n \in DOMAIN T : c # T[n],
         c.id \in I, NEW key \in Inputs, StoryFits(I, H, M, J, T)
  PROVE  StoryFits(I, H, Append(M, [key |-> key, answer |-> <<c, k>>]), K, T)
  <1> DEFINE r == [key |-> key, answer |-> <<c, k>>]
             A == Append(M, r)
             z == Len(M) + 1
  <1>1. r \in CommandResults /\ r.answer = <<c, k>>
    BY DEF CommandResults, Pairs
  <1>2. <<c, k>>[1] = c /\ <<c, k>>[2] = k
    OBVIOUS
  <1> HIDE DEF r
  <1>3. /\ \A n \in DOMAIN M : n \in DOMAIN A /\ A[n] = M[n] /\ n < z
        /\ \A n \in DOMAIN A : n \in DOMAIN M \/ n = z
        /\ A[z] = r /\ z \in DOMAIN A
    <2>1. /\ DOMAIN A = 1..(Len(M) + 1) /\ DOMAIN M = 1..Len(M)
          /\ \A n \in DOMAIN M : n \in DOMAIN A /\ A[n] = M[n]
          /\ A[Len(M) + 1] = r /\ Len(M) \in Nat
      BY <1>1, AppendElements
    <2> QED
      BY <2>1
  <1> HIDE DEF A, z
  <1>4. JobsFit(I, H, M, J) /\ MainFits(I, H, M)
    BY DEF StoryFits
  <1>5. /\ \A n \in DOMAIN M : M[n].answer # <<c, k>>
        /\ k = 1 => H[c.id] = <<>> /\ \A n \in DOMAIN M : M[n].answer[1] # c
        /\ k = 2 => FirstGiven(H, M, c)
    BY <1>2, <1>4 DEF JobsFit
  <1>6. /\ \A d, n : FirstBefore(H, M, n, d) => FirstBefore(H, A, n, d)
        /\ \A d : FirstGiven(H, M, d) => FirstGiven(H, A, d) /\ FirstBefore(H, A, z, d)
    BY <1>3 DEF FirstBefore, FirstGiven
  <1>7. MainFits(I, H, A)
    <2>1. ASSUME NEW n \in DOMAIN A, A[n].answer[1].id \in I
          PROVE  \A m \in DOMAIN A : A[m].answer = A[n].answer => m = n
      <3>1. CASE n = z
        BY <1>1, <1>3, <1>5, <3>1
      <3>2. CASE n \in DOMAIN M
        <4>1. A[n].answer # <<c, k>> /\ A[n] = M[n]
          BY <1>3, <1>5, <3>2
        <4>2. \A m \in DOMAIN M : M[m].answer = M[n].answer => m = n
          BY <1>4, <2>1, <3>2, <4>1 DEF MainFits
        <4> QED
          BY <1>1, <1>3, <4>1, <4>2
      <3> QED
        BY <1>3, <3>1, <3>2
    <2>2. ASSUME NEW n \in DOMAIN A, A[n].answer[1].id \in I
          PROVE  /\ A[n].answer[2] = 1 => H[A[n].answer[1].id] = <<>>
                 /\ A[n].answer[2] = 2 => FirstBefore(H, A, n, A[n].answer[1])
      <3>1. CASE n = z
        BY <1>1, <1>2, <1>3, <1>5, <1>6, <3>1
      <3>2. CASE n \in DOMAIN M
        BY <1>3, <1>4, <1>6, <2>2, <3>2 DEF MainFits
      <3> QED
        BY <1>3, <3>1, <3>2
    <2> QED
      BY <2>1, <2>2 DEF MainFits
  <1>8. JobsFit(I, H, A, K)
    <2> SUFFICES ASSUME NEW j \in K, j[1].id \in I
                 PROVE  /\ \A n \in DOMAIN A : A[n].answer # j
                        /\ j[2] = 1 => H[j[1].id] = <<>> /\ \A n \in DOMAIN A : A[n].answer[1] # j[1]
                        /\ j[2] = 2 => <<j[1], 1>> \in K \/ FirstGiven(H, A, j[1])
      BY DEF JobsFit
    <2>1. CASE j \in J /\ j # <<c, k>>
      <3>1. j = <<j[1], j[2]>> /\ j[1] \in Inputs /\ j[2] \in {1, 2}
        BY PairParts
      <3>2. /\ \A n \in DOMAIN M : M[n].answer # j
            /\ j[2] = 1 => H[j[1].id] = <<>> /\ \A n \in DOMAIN M : M[n].answer[1] # j[1]
            /\ j[2] = 2 => <<j[1], 1>> \in J \/ FirstGiven(H, M, j[1])
        BY <1>4, <2>1 DEF JobsFit
      <3>3. \A n \in DOMAIN A : A[n].answer # j
        BY <1>1, <1>3, <2>1, <3>2
      <3>4. ASSUME j[2] = 1
            PROVE  H[j[1].id] = <<>> /\ \A n \in DOMAIN A : A[n].answer[1] # j[1]
        <4>1. j[1] # c
          BY <2>1, <3>1, <3>4
        <4> QED
          BY <1>1, <1>2, <1>3, <3>4, <3>2, <4>1
      <3>5. ASSUME j[2] = 2
            PROVE  <<j[1], 1>> \in K \/ FirstGiven(H, A, j[1])
        <4>1. CASE j[1] = c
          <5>1. k = 1
            BY <2>1, <3>1, <3>5, <4>1
          <5>2. FirstGiven(H, A, c)
            BY <1>1, <1>3, <1>5, <5>1 DEF FirstGiven
          <5> QED
            BY <4>1, <5>2
        <4>2. CASE j[1] # c
          <5>1. <<j[1], 1>> \in J \/ FirstGiven(H, M, j[1])
            BY <3>5, <3>2
          <5>2. <<j[1], 1>> # <<c, k>>
            BY <4>2
          <5> QED
            BY <1>6, <5>1, <5>2
        <4> QED
          BY <4>1, <4>2
      <3> QED
        BY <3>3, <3>4, <3>5
    <2>2. CASE k = 1 /\ j = <<c, 2>>
      <3>1. j[1] = c /\ j[2] = 2
        BY <2>2
      <3>2. \A n \in DOMAIN A : A[n].answer # j
        BY <1>1, <1>2, <1>3, <1>5, <2>2, <3>1
      <3>3. H[c.id] = <<>> /\ A[z].answer = <<c, 1>>
        BY <1>1, <1>3, <1>5, <2>2
      <3>4. FirstGiven(H, A, c)
        BY <1>3, <3>3 DEF FirstGiven
      <3> QED
        BY <3>1, <3>2, <3>4
    <2> QED
      BY <2>1, <2>2
  <1>9. SentUnheard(I, H, A, T)
    <2>1. SentUnheard(I, H, M, T)
      BY DEF StoryFits
    <2> QED
      BY <1>1, <1>2, <1>3, <2>1 DEF SentUnheard
  <1> QED
    BY <1>7, <1>8, <1>9 DEF StoryFits, A, r

\* c is the only command of its id
Alone(M, J, T, c) ==
  /\ \A n \in DOMAIN M : M[n].answer[1].id = c.id => M[n].answer[1] = c
  /\ \A j \in J : j[1].id = c.id => j[1] = c
  /\ \A n \in DOMAIN T : T[n].id = c.id => T[n] = c

\* what has been heard with the next answer to c
Hears(H, c, k) == [H EXCEPT ![c.id] = Append(@, <<c, k>>)]

NextAnswer(M, c, k) == M # <<>> /\ Head(M).answer = <<c, k>>

\* The main program hears the answer at the head of the line.
HearsNext(I, H, M, J, T, c, k) ==
  /\ H \in Heard /\ M \in Seq(CommandResults) /\ J \in SUBSET Pairs /\ T \in Seq(Inputs)
  /\ c \in Inputs /\ c.id \in I /\ k \in {1, 2} /\ Hears(H, c, k) \in Heard
  /\ StoryFits(I, H, M, J, T) /\ NextAnswer(M, c, k) /\ Alone(M, J, T, c)

LEMMA StoryHeard ==
  ASSUME NEW I, NEW H, NEW M, NEW J, NEW T, NEW c, NEW k, NEW G, G = Hears(H, c, k),
         HearsNext(I, H, M, J, T, c, k)
  PROVE  /\ StoryFits(I, G, Tail(M), J, T)
         /\ G[c.id] \in Story(c)
         /\ \A i \in Ids \ {c.id} : G[i] = H[i]
  <1> USE DEF HearsNext
  <1> DEFINE R == Tail(M)
             a == <<c, k>>
  <1>0. M # <<>> /\ Head(M).answer = <<c, k>>
    BY DEF NextAnswer
  <1>1. /\ DOMAIN M = 1..Len(M) /\ Len(M) \in Nat \ {0} /\ Head(M) = M[1] /\ 1 \in DOMAIN M
        /\ DOMAIN R = 1..(Len(M) - 1)
        /\ \A n \in DOMAIN R : n + 1 \in DOMAIN M /\ R[n] = M[n + 1]
        /\ \A n \in DOMAIN M : n # 1 => n - 1 \in DOMAIN R /\ R[n - 1] = M[n]
    BY <1>0, TailElements
  <1>2. \A n \in DOMAIN M : M[n].answer = <<M[n].answer[1], M[n].answer[2]>>
                            /\ M[n].answer[2] \in {1, 2}
    <2>1. \A n \in DOMAIN M : M[n] \in CommandResults
      BY <1>1, ElementOfSeq
    <2> QED
      BY <2>1, PairParts DEF CommandResults
  <1>3. a[1] = c /\ a[2] = k /\ a \in Pairs /\ c.id \in Ids
    BY InputParts DEF Pairs
  <1>4. /\ G[c.id] = Append(H[c.id], a)
        /\ \A i \in Ids \ {c.id} : G[i] = H[i]
    BY <1>3 DEF Heard, Hears
  <1>5. MainFits(I, H, M) /\ JobsFit(I, H, M, J) /\ SentUnheard(I, H, M, T)
    BY DEF StoryFits
  <1>6. /\ \A n \in DOMAIN M : M[n].answer = a => n = 1
        /\ k = 1 => H[c.id] = <<>>
        /\ k = 2 => FirstBefore(H, M, 1, c)
    <2>1. M[1].answer = a
      BY <1>0, <1>1
    <2>2. /\ \A m \in DOMAIN M : M[m].answer = M[1].answer => m = 1
          /\ M[1].answer[2] = 1 => H[M[1].answer[1].id] = <<>>
          /\ M[1].answer[2] = 2 => FirstBefore(H, M, 1, M[1].answer[1])
      <3>1. M[1].answer[1].id \in I
        BY <1>3, <2>1
      <3> QED
        BY <1>1, <1>5, <3>1 DEF MainFits
    <2> HIDE DEF a
    <2> QED
      BY <1>3, <2>1, <2>2
  <1>7. k = 2 => H[c.id] = <<<<c, 1>>>>
    <2>1. \A m \in DOMAIN M : ~ (m < 1)
      BY <1>1
    <2> QED
      BY <1>6, <2>1 DEF FirstBefore
  <1> HIDE DEF R
  <1>8. /\ k = 1 => G[c.id] = <<<<c, 1>>>>
        /\ k = 2 => G[c.id] = <<<<c, 1>>, <<c, 2>>>>
    <2>1. \A x, y \in Pairs : Append(<<>>, x) = <<x>> /\ Append(<<x>>, y) = <<x, y>>
      BY AppendShort
    <2>2. a \in Pairs /\ <<c, 1>> \in Pairs
      BY <1>3 DEF Pairs
    <2>3. CASE k = 1
      <3>1. G[c.id] = <<a>> /\ a = <<c, 1>>
        BY <1>4, <1>6, <2>1, <2>2, <2>3
      <3> QED
        BY <2>3, <3>1
    <2>4. CASE k = 2
      <3>1. G[c.id] = <<<<c, 1>>, a>> /\ a = <<c, 2>>
        BY <1>4, <1>7, <2>1, <2>2, <2>4
      <3> QED
        BY <2>4, <3>1
    <2> QED
      BY <2>3, <2>4
  <1> HIDE DEF a
  <1>9. ASSUME NEW d \in Inputs, d.id # c.id
        PROVE  /\ G[d.id] = H[d.id]
               /\ FirstGiven(H, M, d) => FirstGiven(G, R, d)
               /\ \A n \in DOMAIN R : FirstBefore(H, M, n + 1, d) => FirstBefore(G, R, n, d)
    <2>1. d.id \in Ids
      BY InputParts
    <2>2. G[d.id] = H[d.id]
      BY <1>4, <1>9, <2>1
    <2>3. \A m \in DOMAIN M : M[m].answer = <<d, 1>> => m # 1
      <3>1. d # c
        BY <1>9
      <3>2. M[1].answer = <<c, k>>
        BY <1>0, <1>1
      <3> QED
        BY <3>1, <3>2
    <2>4. FirstGiven(H, M, d) => FirstGiven(G, R, d)
      BY <1>1, <2>2, <2>3 DEF FirstGiven
    <2>5. ASSUME NEW n \in DOMAIN R, FirstBefore(H, M, n + 1, d)
          PROVE  FirstBefore(G, R, n, d)
      <3>1. CASE H[d.id] = <<<<d, 1>>>>
        BY <2>2, <3>1 DEF FirstBefore
      <3>2. ASSUME H[d.id] = <<>>, NEW m \in DOMAIN M, m < n + 1, M[m].answer = <<d, 1>>
            PROVE  FirstBefore(G, R, n, d)
        <4>1. m - 1 \in DOMAIN R /\ R[m - 1] = M[m] /\ m - 1 < n
          BY <1>1, <2>3, <3>2
        <4> QED
          BY <2>2, <3>2, <4>1 DEF FirstBefore
      <3> QED
        BY <2>5, <3>1, <3>2 DEF FirstBefore
    <2> QED
      BY <2>2, <2>4, <2>5
  <1>10. MainFits(I, G, R)
    <2> SUFFICES ASSUME NEW n \in DOMAIN R, NEW d, NEW l, d = R[n].answer[1], l = R[n].answer[2],
                        d.id \in I
                 PROVE  /\ \A m \in DOMAIN R : R[m].answer = R[n].answer => m = n
                        /\ l = 1 => G[d.id] = <<>>
                        /\ l = 2 => FirstBefore(G, R, n, d)
      BY DEF MainFits
    <2>1. R[n] = M[n + 1] /\ n + 1 \in DOMAIN M /\ n + 1 # 1
      BY <1>1
    <2>2. /\ \A m \in DOMAIN M : M[m].answer = R[n].answer => m = n + 1
          /\ l = 1 => H[d.id] = <<>>
          /\ l = 2 => FirstBefore(H, M, n + 1, d)
      BY <1>5, <2>1 DEF MainFits
    <2>3. \A m \in DOMAIN R : R[m].answer = R[n].answer => m = n
      <3> SUFFICES ASSUME NEW m \in DOMAIN R, R[m].answer = R[n].answer PROVE m = n
        OBVIOUS
      <3>1. m + 1 = n + 1
        BY <1>1, <2>2
      <3> QED
        BY <1>1, <3>1
    <2>4. d \in Inputs /\ l \in {1, 2} /\ R[n].answer = <<d, l>>
      <3>1. M[n + 1] \in CommandResults
        BY <1>1, <2>1, ElementOfSeq
      <3> QED
        BY <1>2, <2>1, <3>1 DEF CommandResults, Pairs
    <2>5. CASE d.id # c.id
      BY <1>9, <2>2, <2>3, <2>4, <2>5
    <2>6. CASE d.id = c.id
      <3>1. d = c
        BY <2>1, <2>6 DEF Alone
      <3>2. l # k
        BY <1>6, <2>1, <2>4, <3>1 DEF a
      <3>3. CASE l = 1
        <4>1. k = 2 /\ H[c.id] = <<>>
          BY <2>2, <3>1, <3>2, <3>3
        <4>2. <<<<c, 1>>>> # <<>>
          OBVIOUS
        <4> QED
          BY <1>7, <4>1, <4>2
      <3>4. CASE l = 2
        <4>1. G[c.id] = <<<<c, 1>>>>
          BY <1>8, <3>2, <3>4
        <4>2. FirstBefore(G, R, n, c)
          BY <4>1 DEF FirstBefore
        <4> QED
          BY <2>2, <2>3, <3>1, <3>4, <4>2
      <3> QED
        BY <2>4, <3>3, <3>4
    <2> QED
      BY <2>5, <2>6
  <1>11. JobsFit(I, G, R, J)
    <2> SUFFICES ASSUME NEW j \in J, j[1].id \in I
                 PROVE  /\ \A n \in DOMAIN R : R[n].answer # j
                        /\ j[2] = 1 => G[j[1].id] = <<>> /\ \A n \in DOMAIN R : R[n].answer[1] # j[1]
                        /\ j[2] = 2 => <<j[1], 1>> \in J \/ FirstGiven(G, R, j[1])
      BY DEF JobsFit
    <2>1. /\ \A n \in DOMAIN M : M[n].answer # j
          /\ j[2] = 1 => H[j[1].id] = <<>> /\ \A n \in DOMAIN M : M[n].answer[1] # j[1]
          /\ j[2] = 2 => <<j[1], 1>> \in J \/ FirstGiven(H, M, j[1])
      BY <1>5 DEF JobsFit
    <2>2. j[1] \in Inputs /\ j[2] \in {1, 2} /\ j = <<j[1], j[2]>>
      BY PairParts
    <2>3. /\ \A n \in DOMAIN R : R[n].answer # j
          /\ j[2] = 1 => \A n \in DOMAIN R : R[n].answer[1] # j[1]
      BY <1>1, <2>1
    <2>4. CASE j[1].id # c.id
      BY <1>9, <2>1, <2>2, <2>3, <2>4
    <2>5. CASE j[1].id = c.id
      <3>1. j[1] = c
        BY <2>5 DEF Alone
      <3>2. M[1].answer = <<c, k>> /\ M[1].answer[1] = c
        BY <1>0, <1>1, <1>3 DEF a
      <3>3. j[2] = 2 /\ k = 1
        BY <1>1, <2>1, <2>2, <3>1, <3>2
      <3>4. FirstGiven(G, R, c)
        BY <1>8, <3>3 DEF FirstGiven
      <3> QED
        BY <2>3, <3>1, <3>3, <3>4
    <2> QED
      BY <2>4, <2>5
  <1>12. SentUnheard(I, G, R, T)
    <2> SUFFICES ASSUME NEW n \in DOMAIN T, T[n].id \in I
                 PROVE  /\ G[T[n].id] = <<>>
                        /\ \A m \in DOMAIN R : R[m].answer[1] # T[n]
      BY DEF SentUnheard
    <2>1. /\ H[T[n].id] = <<>> /\ \A m \in DOMAIN M : M[m].answer[1] # T[n]
      BY <1>5 DEF SentUnheard
    <2>2. T[n] \in Inputs
      BY LenProperties, ElementOfSeq
    <2>3. T[n] # c
      BY <1>0, <1>1, <1>3, <2>1 DEF a
    <2>4. G[T[n].id] = H[T[n].id]
      BY <1>9, <2>2, <2>3 DEF Alone
    <2> QED
      BY <1>1, <2>1, <2>4
  <1>13. G[c.id] \in Story(c)
    BY <1>8 DEF Story
  <1> QED
    BY <1>4, <1>10, <1>11, <1>12, <1>13 DEF StoryFits, R

\* An answer to a command of an id left aside changes nothing for the others.
LEMMA StoryPassed ==
  ASSUME NEW I, NEW H \in Heard, NEW M \in Seq(CommandResults), NEW J \in SUBSET Pairs,
         NEW T \in Seq(Inputs), NEW G, M # <<>>, Head(M).answer[1].id \notin I,
         \A i \in Ids \cap I : G[i] = H[i], StoryFits(I, H, M, J, T)
  PROVE  StoryFits(I, G, Tail(M), J, T)
  <1> DEFINE R == Tail(M)
  <1>1. /\ DOMAIN M = 1..Len(M) /\ Len(M) \in Nat \ {0} /\ Head(M) = M[1] /\ 1 \in DOMAIN M
        /\ DOMAIN R = 1..(Len(M) - 1)
        /\ \A n \in DOMAIN R : n + 1 \in DOMAIN M /\ R[n] = M[n + 1]
        /\ \A n \in DOMAIN M : n # 1 => n - 1 \in DOMAIN R /\ R[n - 1] = M[n]
    BY TailElements
  <1>2. \A n \in DOMAIN M : M[n].answer[1] \in Inputs
    <2>1. \A n \in DOMAIN M : M[n] \in CommandResults
      BY <1>1, ElementOfSeq
    <2> QED
      BY <2>1, PairParts DEF CommandResults
  <1>3. MainFits(I, H, M) /\ JobsFit(I, H, M, J) /\ SentUnheard(I, H, M, T)
    BY DEF StoryFits
  <1> HIDE DEF R
  <1>4. ASSUME NEW d \in Inputs, d.id \in I
        PROVE  /\ G[d.id] = H[d.id]
               /\ FirstGiven(H, M, d) => FirstGiven(G, R, d)
               /\ \A n \in DOMAIN R : FirstBefore(H, M, n + 1, d) => FirstBefore(G, R, n, d)
    <2>1. G[d.id] = H[d.id]
      BY <1>4, InputParts
    <2>2. \A m \in DOMAIN M : M[m].answer = <<d, 1>> => m # 1
      <3>1. <<d, 1>>[1] = d
        OBVIOUS
      <3> QED
        BY <1>1, <1>4, <3>1
    <2>3. ASSUME FirstGiven(H, M, d) PROVE FirstGiven(G, R, d)
      <3>1. CASE H[d.id] = <<<<d, 1>>>>
        BY <2>1, <3>1 DEF FirstGiven
      <3>2. ASSUME H[d.id] = <<>>, NEW m \in DOMAIN M, M[m].answer = <<d, 1>>
            PROVE  FirstGiven(G, R, d)
        <4>1. m - 1 \in DOMAIN R /\ R[m - 1] = M[m]
          BY <1>1, <2>2, <3>2
        <4> QED
          BY <2>1, <3>2, <4>1 DEF FirstGiven
      <3> QED
        BY <2>3, <3>1, <3>2 DEF FirstGiven
    <2>4. ASSUME NEW n \in DOMAIN R, FirstBefore(H, M, n + 1, d)
          PROVE  FirstBefore(G, R, n, d)
      <3>1. CASE H[d.id] = <<<<d, 1>>>>
        BY <2>1, <3>1 DEF FirstBefore
      <3>2. ASSUME H[d.id] = <<>>, NEW m \in DOMAIN M, m < n + 1, M[m].answer = <<d, 1>>
            PROVE  FirstBefore(G, R, n, d)
        <4>1. m - 1 \in DOMAIN R /\ R[m - 1] = M[m] /\ m - 1 < n
          BY <1>1, <2>2, <3>2
        <4> QED
          BY <2>1, <3>2, <4>1 DEF FirstBefore
      <3> QED
        BY <2>4, <3>1, <3>2 DEF FirstBefore
    <2> QED
      BY <2>1, <2>3, <2>4
  <1>5. MainFits(I, G, R)
    <2> SUFFICES ASSUME NEW n \in DOMAIN R, NEW d, d = R[n].answer[1], d.id \in I
                 PROVE  /\ \A m \in DOMAIN R : R[m].answer = R[n].answer => m = n
                        /\ R[n].answer[2] = 1 => G[d.id] = <<>>
                        /\ R[n].answer[2] = 2 => FirstBefore(G, R, n, d)
      BY DEF MainFits
    <2>1. R[n] = M[n + 1] /\ n + 1 \in DOMAIN M /\ d \in Inputs
      BY <1>1, <1>2
    <2>2. /\ \A m \in DOMAIN M : M[m].answer = R[n].answer => m = n + 1
          /\ R[n].answer[2] = 1 => H[d.id] = <<>>
          /\ R[n].answer[2] = 2 => FirstBefore(H, M, n + 1, d)
      BY <1>3, <2>1 DEF MainFits
    <2>3. \A m \in DOMAIN R : R[m].answer = R[n].answer => m = n
      <3> SUFFICES ASSUME NEW m \in DOMAIN R, R[m].answer = R[n].answer PROVE m = n
        OBVIOUS
      <3>1. m + 1 = n + 1
        BY <1>1, <2>2
      <3> QED
        BY <1>1, <3>1
    <2> QED
      BY <1>4, <2>1, <2>2, <2>3
  <1>6. JobsFit(I, G, R, J)
    <2> SUFFICES ASSUME NEW j \in J, j[1].id \in I
                 PROVE  /\ \A n \in DOMAIN R : R[n].answer # j
                        /\ j[2] = 1 => G[j[1].id] = <<>> /\ \A n \in DOMAIN R : R[n].answer[1] # j[1]
                        /\ j[2] = 2 => <<j[1], 1>> \in J \/ FirstGiven(G, R, j[1])
      BY DEF JobsFit
    <2>1. /\ \A n \in DOMAIN M : M[n].answer # j
          /\ j[2] = 1 => H[j[1].id] = <<>> /\ \A n \in DOMAIN M : M[n].answer[1] # j[1]
          /\ j[2] = 2 => <<j[1], 1>> \in J \/ FirstGiven(H, M, j[1])
      BY <1>3 DEF JobsFit
    <2>2. j[1] \in Inputs
      BY PairParts
    <2> QED
      BY <1>1, <1>4, <2>1, <2>2
  <1>7. SentUnheard(I, G, R, T)
    <2> SUFFICES ASSUME NEW n \in DOMAIN T, T[n].id \in I
                 PROVE  /\ G[T[n].id] = <<>>
                        /\ \A m \in DOMAIN R : R[m].answer[1] # T[n]
      BY DEF SentUnheard
    <2>1. /\ H[T[n].id] = <<>> /\ \A m \in DOMAIN M : M[m].answer[1] # T[n]
      BY <1>3 DEF SentUnheard
    <2>2. T[n] \in Inputs
      BY LenProperties, ElementOfSeq
    <2> QED
      BY <1>1, <1>4, <2>1, <2>2
  <1> QED
    BY <1>5, <1>6, <1>7 DEF StoryFits, R

\* An answer to a command of an id left aside joins the line.
LEMMA StoryJoined ==
  ASSUME NEW I, NEW H \in Heard, NEW M \in Seq(CommandResults), NEW J \in SUBSET Pairs,
         NEW T, NEW c \in Inputs, NEW k \in {1, 2}, NEW key \in Inputs,
         c.id \notin I, StoryFits(I, H, M, J, T)
  PROVE  StoryFits(I, H, Append(M, [key |-> key, answer |-> <<c, k>>]), J, T)
  <1> DEFINE r == [key |-> key, answer |-> <<c, k>>]
             A == Append(M, r)
             z == Len(M) + 1
  <1>1. r \in CommandResults /\ r.answer = <<c, k>> /\ r.answer[1] = c
    BY DEF CommandResults, Pairs
  <1> HIDE DEF r
  <1>2. /\ \A n \in DOMAIN M : n \in DOMAIN A /\ A[n] = M[n]
        /\ \A n \in DOMAIN A : n \in DOMAIN M \/ n = z
        /\ A[z] = r
    <2>1. /\ DOMAIN A = 1..(Len(M) + 1) /\ DOMAIN M = 1..Len(M)
          /\ \A n \in DOMAIN M : n \in DOMAIN A /\ A[n] = M[n]
          /\ A[Len(M) + 1] = r /\ Len(M) \in Nat
      BY <1>1, AppendElements
    <2> QED
      BY <2>1
  <1> HIDE DEF A, z
  <1>3. MainFits(I, H, M) /\ JobsFit(I, H, M, J) /\ SentUnheard(I, H, M, T)
    BY DEF StoryFits
  <1>4. /\ \A d, n : FirstBefore(H, M, n, d) => FirstBefore(H, A, n, d)
        /\ \A d : FirstGiven(H, M, d) => FirstGiven(H, A, d)
    BY <1>2 DEF FirstBefore, FirstGiven
  <1>5. MainFits(I, H, A)
    <2> SUFFICES ASSUME NEW n \in DOMAIN A, A[n].answer[1].id \in I
                 PROVE  /\ \A m \in DOMAIN A : A[m].answer = A[n].answer => m = n
                        /\ A[n].answer[2] = 1 => H[A[n].answer[1].id] = <<>>
                        /\ A[n].answer[2] = 2 => FirstBefore(H, A, n, A[n].answer[1])
      BY DEF MainFits
    <2>1. n \in DOMAIN M
      BY <1>1, <1>2
    <2>2. /\ \A m \in DOMAIN M : M[m].answer = M[n].answer => m = n
          /\ M[n].answer[2] = 1 => H[M[n].answer[1].id] = <<>>
          /\ M[n].answer[2] = 2 => FirstBefore(H, M, n, M[n].answer[1])
      BY <1>2, <1>3, <2>1 DEF MainFits
    <2>3. \A m \in DOMAIN A : A[m].answer = A[n].answer => m \in DOMAIN M
      BY <1>1, <1>2
    <2> QED
      BY <1>2, <1>4, <2>1, <2>2, <2>3
  <1>6. JobsFit(I, H, A, J)
    <2> SUFFICES ASSUME NEW j \in J, j[1].id \in I
                 PROVE  /\ \A n \in DOMAIN A : A[n].answer # j
                        /\ j[2] = 1 => H[j[1].id] = <<>> /\ \A n \in DOMAIN A : A[n].answer[1] # j[1]
                        /\ j[2] = 2 => <<j[1], 1>> \in J \/ FirstGiven(H, A, j[1])
      BY DEF JobsFit
    <2>1. /\ \A n \in DOMAIN M : M[n].answer # j
          /\ j[2] = 1 => H[j[1].id] = <<>> /\ \A n \in DOMAIN M : M[n].answer[1] # j[1]
          /\ j[2] = 2 => <<j[1], 1>> \in J \/ FirstGiven(H, M, j[1])
      BY <1>3 DEF JobsFit
    <2>2. A[z].answer[1].id # j[1].id
      BY <1>1, <1>2
    <2>3. \A n \in DOMAIN A : A[n].answer # j
      BY <1>2, <2>1, <2>2
    <2> QED
      BY <1>2, <1>4, <2>1, <2>2, <2>3
  <1>7. SentUnheard(I, H, A, T)
    <2> SUFFICES ASSUME NEW n \in DOMAIN T, T[n].id \in I
                 PROVE  /\ H[T[n].id] = <<>>
                        /\ \A m \in DOMAIN A : A[m].answer[1] # T[n]
      BY DEF SentUnheard
    <2> QED
      BY <1>1, <1>2, <1>3 DEF SentUnheard
  <1> QED
    BY <1>5, <1>6, <1>7 DEF StoryFits, A, r

-----------------------------------------------------------------------------
(* The story goes on *)

\* Whatever is in the air is owed an answer.
LEMMA AirIsInTheAir ==
  ASSUME TypeOK
  PROVE  Air \subseteq InTheAir
  <1>1. Sent \cup Answered \cup {j[1] : j \in mock \cup Owed} = InTheAir
    BY DEF InTheAir, Sent, Answered
  <1>2. PICK D \in SUBSET Pairs : D = Due
    BY JobTypes DEF Due
  <1>3. Owed = Owing(D) /\ Jobs = D \cup mock
    BY <1>2, OwedIsOwing DEF Jobs, Due
  <1>4. ASSUME NEW j \in D PROVE \E i \in Owing(D) : i[1] = j[1]
    <2>1. CASE j \in Owing(D)
      BY <2>1
    <2>2. CASE <<j[1], 1>> \in D
      <3>1. <<j[1], 1>>[1] = j[1] /\ <<j[1], 1>>[2] = 1
        OBVIOUS
      <3> QED
        BY <2>2, <3>1 DEF Owing
    <2> QED
      BY <2>1, <2>2 DEF Owing
  <1>5. ASSUME NEW j \in Jobs PROVE \E i \in mock \cup Owed : i[1] = j[1]
    BY <1>3, <1>4
  <1> QED
    BY <1>1, <1>5 DEF Air

\* An uncontested id means one command.
LEMMA OneLife ==
  ASSUME PlacesInv, StoryInv
  PROVE  \A c, d \in Air : c.id = d.id /\ c.id \in Own => c = d
  BY DEF PlacesInv, StoryInv, AirFits

\* Only a new command makes an id one of Own, if nobody in the air has it; a
\* restart of the main program leaves none.
LEMMA OwnStays ==
  ASSUME PlacesInv, StoryInv, [Next]_vars
  PROVE  \/ UNCHANGED <<life, idCounter, contested>> /\ Own' = Own
         \/ (\E v \in Values : CreateCommand(v)) /\ UNCHANGED life
         \/ RestartMain
  BY DEF Next, MainProgram, MainLogicCombination, CalculatorProgram, HandleResult,
         CreateCommand, Configure, QueryOutstandingCommands, ClearCommands, Handle,
         MockTake, MockAnswer, OnCalculateResult, RestartCalculator, ThreadStep, vars,
         main, history, Own

LEMMA OwnGrows ==
  ASSUME PlacesInv, StoryInv, NEW v \in Values, CreateCommand(v)
  PROVE  /\ idCounter \in Nat /\ idCounter' = idCounter + 1 /\ idCounter' \in Ids
         /\ \/ Own' = Own /\ idCounter' \in contested'
            \/ Own' = Own \cup {idCounter'} /\ \A c \in Air : c.id # idCounter'
         /\ idCounter' \notin Own
         /\ contested \subseteq contested'
         /\ \A i \in contested' : i \in contested \/ i = idCounter'
  <1>1. idCounter \in Nat /\ idCounter' = idCounter + 1 /\ idCounter' \in Ids
    BY DemoOK DEF CreateCommand, PlacesInv, TypeOK, Ids
  <1>2. InTheAir = Air
    BY InTheAirIsAir, AirIsInTheAir DEF PlacesInv
  <1>3. PICK F : F = {c.id : c \in Air}
    OBVIOUS
  <1>4. contested' = contested \cup ({idCounter'} \cap F)
    BY <1>2, <1>3 DEF CreateCommand
  <1>5. \A i \in Ids : i <= idCounter' <=> i <= idCounter \/ i = idCounter'
    BY <1>1, DemoOK DEF Ids
  <1>6. ~ (idCounter' <= idCounter)
    BY <1>1
  <1>7. idCounter' \notin Own
    BY <1>6 DEF Own
  <1>8. \A i \in Ids : i <= idCounter => i # idCounter'
    BY <1>6
  <1>9. Own' = {i \in Ids : i <= idCounter' /\ i \notin contested'}
    BY DEF Own, Ids
  <1>10. CASE idCounter' \in F
    <2>1. idCounter' \in contested' /\ contested' = contested \cup {idCounter'}
      BY <1>4, <1>10
    <2>2. Own' = Own
      BY <1>5, <1>8, <1>9, <2>1 DEF Own
    <2> QED
      BY <1>1, <1>7, <2>1, <2>2
  <1>11. CASE idCounter' \notin F
    <2>1. contested' = contested
      BY <1>4, <1>11
    <2>2. \A c \in Air : c.id # idCounter'
      BY <1>3, <1>11
    <2>3. CASE idCounter' \in contested
      <3>1. Own' = Own
        BY <1>5, <1>8, <1>9, <2>1, <2>3 DEF Own
      <3> QED
        BY <1>1, <1>7, <2>1, <2>3, <3>1
    <2>4. CASE idCounter' \notin contested
      <3>1. Own' = Own \cup {idCounter'}
        BY <1>1, <1>5, <1>9, <2>1, <2>4 DEF Own
      <3> QED
        BY <1>1, <1>7, <2>1, <2>2, <3>1
    <2> QED
      BY <2>3, <2>4
  <1> QED
    BY <1>10, <1>11

LEMMA OwnEmpties == ASSUME TypeOK, RestartMain PROVE Own' = {}
  <1>1. idCounter' = 0 /\ \A i \in Ids : ~ (i <= 0)
    BY DemoOK DEF RestartMain, Ids
  <1> QED
    BY <1>1 DEF Own

LEMMA OwnKept ==
  ASSUME \/ CalculatorProgram \/ MockTake \/ HandleResult
         \/ \E c \in Inputs, k \in {1, 2} : MockAnswer(c, k)
  PROVE  Own' = Own /\ UNCHANGED <<life, idCounter, contested>>
  BY DEF CalculatorProgram, MockTake, HandleResult, MockAnswer, Handle, ThreadStep,
         OnCalculateResult, RestartCalculator, main, history, Own

\* The commands of uncontested ids are of this life.
LEMMA LifePreserved ==
  ASSUME PlacesInv, StoryInv, [Next]_vars
  PROVE  \A c \in Air' : c.id \in Own' => c.life = life'
  <1>1. CASE \E v \in Values : CreateCommand(v)
    <2>1. PICK v \in Values : CreateCommand(v)
      BY <1>1
    <2>2. PICK c \in Inputs : c.life = life /\ Air' = Air \cup {c}
      BY <2>1, MovesCreated
    <2>3. life' = life
      BY <2>1 DEF CreateCommand
    <2>4. ASSUME NEW d \in Air, d.id \in Own' PROVE d.id \in Own
      BY <2>1, <2>4, OwnGrows
    <2> QED
      BY <2>2, <2>3, <2>4 DEF StoryInv
  <1>2. CASE RestartMain
    BY <1>2, OwnEmpties DEF PlacesInv
  <1>3. CASE Air' \subseteq Air /\ UNCHANGED life /\ Own' = Own
    BY <1>3 DEF StoryInv
  <1> QED
    BY <1>1, <1>2, <1>3, PlacesMove, OwnStays

\* idLookup_ maps the uncontested id of a command at work to that command.
LEMMA LookupFinds ==
  ASSUME PlacesInv, StoryInv, NEW j \in Due, j[1].id \in DOMAIN idLookup,
         j[1].id \in Own
  PROVE  idLookup[j[1].id] = j[1]
  <1>1. PICK i \in Due : i[1] = idLookup[j[1].id] /\ i[1].id = j[1].id
    BY DEF StoryInv, LookupFits, Due
  <1>2. i[1] \in Air /\ j[1] \in Air
    BY DEF Due, Jobs, Air
  <1> QED
    BY <1>1, <1>2, OneLife

LEMMA LookupPreserved ==
  ASSUME PlacesInv, StoryInv, [Next]_vars
  PROVE  LookupFits'
  <1> USE DEF PlacesInv
  <1>0. CalculatorProgram => Own' = Own
    BY OwnKept
  <1>1. PICK D \in SUBSET Pairs : D = Due
    BY JobTypes DEF Due
  <1>2. /\ \A id \in DOMAIN idLookup : /\ idLookup[id].id = id
                                       /\ \E j \in D : j[1] = idLookup[id]
        /\ \A j \in D : j[2] = 1 /\ j[1].id \in Own => j[1].id \in DOMAIN idLookup
    BY <1>1 DEF StoryInv, LookupFits, Due
  <1>3. SUFFICES /\ \A id \in DOMAIN idLookup' : /\ idLookup'[id].id = id
                                                 /\ \E j \in Due' : j[1] = idLookup'[id]
                 /\ \A j \in Due' :
                      j[2] = 1 /\ j[1].id \in Own' => j[1].id \in DOMAIN idLookup'
    BY DEF LookupFits, Due
  <1>4. CASE UNCHANGED <<thread, idLookup>> /\ \A j \in D : j[1].id \in Own' => j[1].id \in Own
    <2>1. Due' = D
      BY <1>1, <1>4 DEF thread, Due, Queued
    <2> QED
      BY <1>2, <1>4, <2>1
  <1>5. CASE Handle
    <2>1. PICK c \in Inputs : c = Head(toCalc)
      BY <1>5, JobTaken
    <2>2. Due' = D \cup {<<c, 1>>}
      BY <1>1, <1>5, <2>1 DEF Handle, StartThread, Due, Queued
    <2>3. idLookup' = [id \in DOMAIN idLookup \cup {c.id} |->
                         IF id \in DOMAIN idLookup THEN idLookup[id] ELSE c]
      BY <1>5, <2>1 DEF Handle
    <2>4. <<c, 1>>[1] = c
      OBVIOUS
    <2>5. Own' = Own
      BY <1>0, <1>5 DEF CalculatorProgram
    <2> QED
      BY <1>2, <2>2, <2>3, <2>4, <2>5
  <1>6. CASE ThreadStep
    <2>1. idLookup' = idLookup
      BY <1>6 DEF ThreadStep
    <2>4. Own' = Own
      BY <1>0, <1>6 DEF CalculatorProgram
    <2>2. CASE Splice
      <3>1. Due' = D
        BY <1>1, <1>6, <2>2, JobsSpliced DEF Due, ThreadStep
      <3> QED
        BY <1>2, <2>1, <2>4, <3>1
    <2>3. ASSUME NEW c \in Inputs, NEW k \in {1, 2}, Request(c, k)
          PROVE  D \subseteq Due' /\ \A j \in Due' : j[2] = 1 => j \in D
      <3>1. Due' = D \cup (IF k = 1 THEN {<<c, 2>>} ELSE {})
        BY <1>1, <1>6, <2>3, JobQueued DEF Due, ThreadStep
      <3>2. <<c, 2>>[2] # 1
        OBVIOUS
      <3> QED
        BY <3>1, <3>2
    <2> QED
      BY <1>2, <1>6, <2>1, <2>2, <2>3, <2>4 DEF ThreadStep
  <1>7. ASSUME NEW c \in Inputs, NEW k \in {1, 2}, OnCalculateResult(c, k)
        PROVE  /\ \A id \in DOMAIN idLookup' : /\ idLookup'[id].id = id
                                               /\ \E j \in Due' : j[1] = idLookup'[id]
               /\ \A j \in Due' :
                      j[2] = 1 /\ j[1].id \in Own' => j[1].id \in DOMAIN idLookup'
    <2>1. /\ <<c, k>> \in D /\ Due' = D \ {<<c, k>>}
          /\ k = 1 <=> <<c, 1>> \in D
          /\ k = 1 => <<c, 2>> \in D
      BY <1>1, <1>7, HeadOfLine
    <2>2. <<c, k>>[1] = c /\ <<c, k>>[2] = k /\ <<c, 2>>[1] = c
      OBVIOUS
    <2>10. Own' = Own
      BY <1>0, <1>7 DEF CalculatorProgram
    <2>3. \A j \in D : j[1] \in Air
      BY <1>1 DEF Due, Jobs, Air
    <2>4. \A j \in D : j[1].id = c.id /\ c.id \in Own => j[1] = c
      BY <2>1, <2>2, <2>3, OneLife
    <2>5. \A j \in Due' : j[2] = 1 /\ j[1].id \in Own => j[1].id # c.id
      <3> SUFFICES ASSUME NEW j \in Due', j[2] = 1, j[1].id = c.id, c.id \in Own PROVE FALSE
        OBVIOUS
      <3>1. j = <<c, 1>>
        BY <2>1, <2>4, PairParts
      <3> QED
        BY <2>1, <3>1
    <2>6. ASSUME NEW id \in DOMAIN idLookup, id # c.id
          PROVE  \E j \in Due' : j[1] = idLookup[id]
      <3>1. PICK j \in D : j[1] = idLookup[id] /\ j[1].id = id
        BY <1>2
      <3>2. j # <<c, k>>
        BY <2>2, <2>6, <3>1
      <3> QED
        BY <2>1, <3>1, <3>2
    <2>7. CASE c.id \notin DOMAIN idLookup
      <3>1. idLookup' = idLookup
        BY <1>7, <2>7 DEF OnCalculateResult
      <3>2. \A j \in Due' : j \in D
        BY <2>1
      <3> QED
        BY <1>2, <2>6, <2>7, <2>10, <3>1, <3>2
    <2>8. CASE c.id \in DOMAIN idLookup /\ IsFinal(c, k)
      <3>1. idLookup' = [id \in DOMAIN idLookup \ {c.id} |-> idLookup[id]]
        BY <1>7, <2>8 DEF OnCalculateResult, Restrict
      <3>2. \A j \in Due' : j \in D
        BY <2>1
      <3> QED
        BY <1>2, <2>5, <2>6, <2>10, <3>1, <3>2
    <2>9. CASE c.id \in DOMAIN idLookup /\ ~ IsFinal(c, k)
      <3>1. idLookup' = idLookup
        BY <1>7, <2>9 DEF OnCalculateResult
      <3>2. k = 1
        BY <2>9 DEF IsFinal
      <3>3. <<c, 2>> \in Due'
        BY <2>1, <3>2
      <3>4. \E j \in Due' : j[1] = idLookup[c.id]
        <4>1. PICK j \in D : j[1] = idLookup[c.id]
          BY <1>2, <2>9
        <4> QED
          BY <2>1, <2>2, <3>3, <4>1
      <3>5. \A j \in Due' : j \in D
        BY <2>1
      <3> QED
        BY <1>2, <2>6, <2>10, <3>1, <3>4, <3>5
    <2> QED
      BY <2>7, <2>8, <2>9
  <1>8. CASE RestartCalculator
    <2>1. sleeping' = {} /\ incoming' = <<>> /\ processing' = <<>> /\ DOMAIN idLookup' = {}
      BY <1>8 DEF RestartCalculator, Exit
    <2>2. Due' = {}
      BY <2>1 DEF Due, Queued
    <2> QED
      BY <2>1, <2>2
  <1>9. CASE MainProgram
    <2>1. UNCHANGED <<thread, idLookup>>
      BY <1>9 DEF MainProgram, MainLogicCombination, CreateCommand, HandleResult,
                  Configure, QueryOutstandingCommands, ClearCommands, MockTake,
                  MockAnswer, RestartMain
    <2>2. \A j \in D : j[1] \in Air
      BY <1>1 DEF Due, Jobs, Air
    <2>3. \A j \in D : j[1].id \in Own' => j[1].id \in Own
      BY <2>2, OwnStays, OwnGrows, OwnEmpties
    <2> QED
      BY <1>4, <2>1, <2>3
  <1>10. CASE UNCHANGED vars
    <2>1. Own' = Own
      BY <1>10 DEF vars, main, history, Own
    <2> QED
      BY <1>4, <1>10, <2>1 DEF vars
  <1> QED
    BY <1>5, <1>6, <1>7, <1>8, <1>9, <1>10 DEF Next, CalculatorProgram

LEMMA StoryState ==
  ASSUME PlacesInv, StoryInv
  PROVE  /\ heard \in Heard /\ toMain \in Seq(CommandResults) /\ toCalc \in Seq(Inputs)
         /\ Jobs \in SUBSET Pairs /\ StoryFits(Own, heard, toMain, Jobs, toCalc)
         /\ \A j \in Jobs : j[1] \in Air
         /\ \A n \in DOMAIN toMain : toMain[n].answer[1] \in Air
         /\ \A n \in DOMAIN toCalc : toCalc[n] \in Air
  BY JobTypes DEF PlacesInv, StoryInv, TypeOK, Heard, CommandResults, Pairs,
                  Air, Sent, Answered

\* What an answer leaves of the jobs, of one calculator or the other.
LEMMA AnswerLeaves ==
  ASSUME PlacesInv, NEW c \in Inputs, NEW k \in {1, 2},
         OnCalculateResult(c, k) \/ MockAnswer(c, k)
  PROVE  /\ <<c, k>> \in Jobs
         /\ k = 2 => <<c, 1>> \notin Jobs
         /\ Jobs' \subseteq (Jobs \ {<<c, k>>}) \cup (IF k = 1 THEN {<<c, 2>>} ELSE {})
         /\ Jobs \ {<<c, k>>} \subseteq Jobs'
  <1> USE DEF PlacesInv
  <1>1. PICK J \in SUBSET Pairs : J = Jobs
    BY JobTypes
  <1>2. CASE OnCalculateResult(c, k)
    <2>1. mock = {}
      BY <1>2, JobAnswered DEF OnCalculateResult, ModeFits
    <2>2. Due = J
      BY <1>1, <2>1 DEF Due, Jobs
    <2>3. Jobs' = J \ {<<c, k>>} /\ <<c, k>> \in J
      BY <1>1, <1>2, JobAnswered DEF OnCalculateResult, Jobs
    <2> QED
      BY <1>1, <1>2, <2>2, <2>3, HeadOfLine
  <1>3. CASE MockAnswer(c, k)
    <2>1. <<c, k>> \in mock /\ <<c, k>> \in Jobs
          /\ Jobs' = (Jobs \ {<<c, k>>}) \cup (IF k = 1 THEN {<<c, 2>>} ELSE {})
      BY <1>3, MockAnswered
    <2>2. virtual
      BY <2>1 DEF ModeFits
    <2>3. sleeping = {} /\ Queued = {}
      BY <2>2 DEF ModeFits, thread, Queued
    <2>4. Jobs = mock
      BY <2>3 DEF Jobs
    <2>5. k = 2 => <<c, 1>> \notin mock
      BY <2>1 DEF ModeFits
    <2> QED
      BY <2>1, <2>4, <2>5
  <1> QED
    BY <1>2, <1>3

\* An answer is published to this life under a key with the id of its command, or
\* it goes nowhere; if the id is uncontested, to this life unless it is the last.
LEMMA Publishes ==
  ASSUME PlacesInv, StoryInv, NEW c \in Inputs, NEW k \in {1, 2},
         OnCalculateResult(c, k) \/ MockAnswer(c, k)
  PROVE  \/ UNCHANGED toMain /\ (k = 2 \/ c.id \notin Own)
         \/ \E key \in Inputs :
              /\ key \in Air /\ key.id = c.id /\ key.life = life
              /\ toMain' = Append(toMain, [key |-> key, answer |-> <<c, k>>])
              /\ ~ virtual => /\ c.id \in DOMAIN idLookup /\ key = idLookup[c.id]
                              /\ \A n \in DOMAIN toCalc : toCalc[n] # key
  <1> USE DEF PlacesInv
  <1>1. <<c, k>>[1] = c /\ <<c, k>>[2] = k
    OBVIOUS
  <1>2. <<c, k>> \in Jobs /\ c \in Air /\ (c.id \in Own => c.life = life)
    BY <1>1, AnswerLeaves, StoryState DEF StoryInv
  <1>3. CASE MockAnswer(c, k)
    <2>1. virtual
      BY <1>3 DEF MockAnswer, ModeFits
    <2> QED
      BY <1>2, <1>3, <2>1 DEF MockAnswer, Publish
  <1>4. CASE OnCalculateResult(c, k) /\ c.id \in DOMAIN idLookup
    <2>1. PICK j \in Due : j[1] = idLookup[c.id] /\ j[1].id = c.id
      BY <1>4 DEF StoryInv, LookupFits, Due
    <2>2. j \in Jobs
      BY DEF Due, Jobs
    <2>3. /\ j[1] \in Air /\ \A n \in DOMAIN toCalc : toCalc[n] # j[1]
          /\ j[1] \in Inputs
      BY <2>2, StoryState, PairParts DEF SentFits
    <2>4. CASE idLookup[c.id].life = life
      BY <1>4, <2>1, <2>3, <2>4 DEF OnCalculateResult, Publish
    <2>5. CASE idLookup[c.id].life # life
      <3>1. UNCHANGED toMain
        BY <1>4, <2>5 DEF OnCalculateResult, Publish
      <3>2. c.id \notin Own
        BY <2>1, <2>3, <2>5 DEF StoryInv
      <3> QED
        BY <3>1, <3>2
    <2> QED
      BY <2>4, <2>5
  <1>5. CASE OnCalculateResult(c, k) /\ c.id \notin DOMAIN idLookup
    <2>1. <<c, k>> \in Due
      BY <1>5, HeadOfLine
    <2>2. k = 2 \/ c.id \notin Own
      BY <1>1, <1>5, <2>1 DEF StoryInv, LookupFits, Due
    <2> QED
      BY <1>5, <2>2 DEF OnCalculateResult
  <1> QED
    BY <1>3, <1>4, <1>5

LEMMA StoryAnswered ==
  ASSUME PlacesInv, StoryInv, NEW c \in Inputs, NEW k \in {1, 2},
         OnCalculateResult(c, k) \/ MockAnswer(c, k)
  PROVE  StoryFits(Own, heard, toMain, Jobs, toCalc)' /\ KeysFit'
  <1> USE DEF PlacesInv
  <1>1. PICK I \in SUBSET Ids, H \in Heard, M \in Seq(CommandResults), J \in SUBSET Pairs,
             T \in Seq(Inputs) :
               I = Own /\ H = heard /\ M = toMain /\ J = Jobs /\ T = toCalc
    BY StoryState DEF Own
  <1>2. StoryFits(I, H, M, J, T)
    BY <1>1, StoryState
  <1>3. heard' = H /\ toCalc' = T /\ Own' = I /\ UNCHANGED <<life, idCounter>>
    BY <1>1 DEF OnCalculateResult, MockAnswer, history, main, Own
  <1>4. /\ <<c, k>> \in J
        /\ k = 2 => <<c, 1>> \notin J
        /\ Jobs' \subseteq (J \ {<<c, k>>}) \cup (IF k = 1 THEN {<<c, 2>>} ELSE {})
        /\ J \ {<<c, k>>} \subseteq Jobs'
    BY <1>1, AnswerLeaves
  <1>5. PICK K \in SUBSET Pairs : K = Jobs'
    BY <1>4 DEF Pairs
  <1>6. <<c, k>>[1] = c
    OBVIOUS
  <1>7. \A n \in DOMAIN T : c # T[n]
    BY <1>1, <1>4, <1>6 DEF SentFits
  <1>8. CASE UNCHANGED toMain /\ (k = 2 \/ c.id \notin I)
    <2>1. StoryFits(I, H, M, K, T)
      BY <1>2, <1>4, <1>5, <1>8, StoryDropped
    <2> QED
      BY <1>1, <1>3, <1>5, <1>8, <2>1 DEF StoryInv, KeysFit
  <1>9. ASSUME NEW key \in Inputs, key \in Air, key.id = c.id, key.life = life,
               toMain' = Append(M, [key |-> key, answer |-> <<c, k>>])
        PROVE  StoryFits(Own, heard, toMain, Jobs, toCalc)' /\ KeysFit'
    <2> DEFINE a == [key |-> key, answer |-> <<c, k>>]
    <2>1. ASSUME c.id \in I PROVE StoryFits(Own, heard, toMain, Jobs, toCalc)'
      <3>1. StoryFits(I, H, Append(M, a), K, T)
        BY <1>2, <1>4, <1>5, <1>7, <2>1, StoryPublished
      <3> QED
        BY <1>3, <1>5, <1>9, <3>1
    <2>2. ASSUME c.id \notin I PROVE StoryFits(Own, heard, toMain, Jobs, toCalc)'
      <3>1. StoryFits(I, H, M, K, T)
        BY <1>2, <1>4, <1>5, <2>2, StoryDropped
      <3>2. StoryFits(I, H, Append(M, a), K, T)
        BY <2>2, <3>1, StoryJoined
      <3> QED
        BY <1>3, <1>5, <1>9, <3>2
    <2>3. KeysFit'
      <3>1. a \in CommandResults /\ a.key = key /\ a.answer[1] = c
        BY DEF CommandResults, Pairs
      <3>2. key.id <= idCounter
        BY <1>9 DEF AirFits
      <3> HIDE DEF a
      <3>3. \A n \in DOMAIN toMain' : (n \in DOMAIN M /\ toMain'[n] = M[n]) \/ toMain'[n] = a
        BY <1>9, <3>1, AppendElements DEF a
      <3> QED
        BY <1>1, <1>3, <1>9, <3>1, <3>2, <3>3 DEF StoryInv, KeysFit
    <2> QED
      BY <2>1, <2>2, <2>3
  <1> QED
    BY <1>1, <1>8, <1>9, Publishes

\* What the main program hears goes under the id of its command.
LEMMA StoryHears ==
  ASSUME PlacesInv, StoryInv, HandleResult
  PROVE  \E c \in Inputs, k \in {1, 2}, G \in Heard :
           /\ Head(toMain).answer = <<c, k>> /\ Head(toMain).key.id = c.id
           /\ c \in Air /\ c.id \in Ids /\ c.id <= idCounter
           /\ heard' = G /\ G = Hears(heard, c, k)
           /\ toMain # <<>> /\ toMain' = Tail(toMain)
           /\ UNCHANGED <<toCalc, Jobs, life, idCounter, contested, Own, idLookup, virtual>>
  <1> USE DEF PlacesInv
  <1>1. PICK H \in Heard, M \in Seq(CommandResults) : H = heard /\ M = toMain
    BY StoryState
  <1>2. /\ M # <<>> /\ toMain' = Tail(M)
        /\ UNCHANGED <<toCalc, Jobs, life, idCounter, contested, Own, idLookup, virtual>>
    BY <1>1 DEF HandleResult, Jobs, Queued, thread, Own
  <1>3. Head(M) = M[1] /\ 1 \in DOMAIN M /\ Head(M) \in CommandResults
    BY <1>2, TailElements
  <1>4. PICK c \in Inputs, k \in {1, 2} : Head(M).answer = <<c, k>>
    BY <1>3 DEF CommandResults, Pairs
  <1>5. Head(M).answer[1] = c
    BY <1>4
  <1>6. Head(M).key.id = c.id /\ c.id <= idCounter
    BY <1>1, <1>3, <1>5 DEF StoryInv, KeysFit
  <1>7. c \in Air /\ c.id \in Ids
    BY <1>1, <1>3, <1>5, StoryState, InputParts
  <1>8. Hears(H, c, k) \in Heard
    <2>1. H[c.id] \in Seq(Pairs) /\ <<c, k>> \in Pairs
      BY <1>7 DEF Heard, Pairs
    <2>2. Append(H[c.id], <<c, k>>) \in Seq(Pairs)
      BY <2>1, AppendProperties
    <2> QED
      BY <1>7, <2>2 DEF Heard, Hears
  <1>9. heard' = Hears(H, c, k)
    BY <1>1, <1>4, <1>6 DEF HandleResult, Hears
  <1> QED
    BY <1>1, <1>2, <1>4, <1>6, <1>7, <1>8, <1>9

\* The main program hears the next answer to the right command, if its id is not
\* contested.
LEMMA StoryGoesHome ==
  ASSUME PlacesInv, StoryInv, HandleResult
  PROVE  /\ StoryFits(Own, heard, toMain, Jobs, toCalc)'
         /\ StoriesHeard'
         /\ \A id \in Ids : idCounter' < id => heard'[id] = <<>>
         /\ KeysFit'
  <1> USE DEF PlacesInv
  <1>1. PICK I \in SUBSET Ids, H \in Heard, M \in Seq(CommandResults), J \in SUBSET Pairs,
             T \in Seq(Inputs) :
               I = Own /\ H = heard /\ M = toMain /\ J = Jobs /\ T = toCalc
    BY StoryState DEF Own
  <1>2. StoryFits(I, H, M, J, T)
    BY <1>1, StoryState
  <1>3. PICK c \in Inputs, k \in {1, 2}, G \in Heard :
           /\ Head(M).answer = <<c, k>> /\ Head(M).key.id = c.id
           /\ c \in Air /\ c.id \in Ids /\ c.id <= idCounter
           /\ heard' = G /\ G = Hears(H, c, k)
           /\ M # <<>> /\ toMain' = Tail(M)
           /\ UNCHANGED <<toCalc, Jobs, life, idCounter, contested, Own>>
    BY <1>1, StoryHears
  <1>4. \A i \in Ids \ {c.id} : G[i] = H[i]
    BY <1>3 DEF Hears, Heard
  <1>5. StoryFits(I, G, Tail(M), J, T) /\ (c.id \in I => G[c.id] \in Story(c))
    <2>1. CASE c.id \in I
      <3>1. Alone(M, J, T, c)
        BY <1>1, <1>3, <2>1, StoryState, OneLife DEF Alone
      <3>2. NextAnswer(M, c, k)
        BY <1>3 DEF NextAnswer
      <3>3. HearsNext(I, H, M, J, T, c, k)
        BY <1>2, <1>3, <2>1, <3>1, <3>2 DEF HearsNext
      <3> QED
        BY <1>3, <3>3, StoryHeard
    <2>2. CASE c.id \notin I
      <3>1. Head(M).answer[1] = c
        BY <1>3
      <3>2. \A i \in Ids \cap I : G[i] = H[i]
        BY <1>4, <2>2
      <3>3. StoryFits(I, G, Tail(M), J, T)
        BY <1>2, <1>3, <2>2, <3>1, <3>2, StoryPassed
      <3> QED
        BY <2>2, <3>3
    <2> QED
      BY <2>1, <2>2
  <1>6. StoryFits(Own, heard, toMain, Jobs, toCalc)'
    BY <1>1, <1>3, <1>5
  <1>7. StoriesHeard'
    <2> SUFFICES ASSUME NEW i \in Ids, i \notin contested, heard'[i] # <<>>
                 PROVE  \E d \in Inputs :
                          /\ d.life = life' /\ d.id = i
                          /\ heard'[i] \in Story(d)
      BY <1>3 DEF StoriesHeard
    <2>1. CASE i = c.id
      <3>1. c.id \in I
        BY <1>1, <1>3, <2>1 DEF Own
      <3>2. c.life = life
        BY <1>1, <1>3, <3>1 DEF StoryInv
      <3> QED
        BY <1>3, <1>5, <2>1, <3>1, <3>2
    <2>2. CASE i # c.id
      <3>1. heard'[i] = heard[i]
        BY <1>1, <1>3, <1>4, <2>2
      <3> QED
        BY <1>3, <3>1 DEF StoryInv, StoriesHeard
    <2> QED
      BY <2>1, <2>2
  <1>8. ASSUME NEW i \in Ids, idCounter < i
        PROVE  heard'[i] = <<>>
    <2>1. i # c.id
      <3>1. idCounter \in Nat /\ i \in Nat /\ c.id \in Nat
        BY <1>3, DemoOK DEF TypeOK, Ids
      <3> QED
        BY <1>3, <1>8, <3>1
    <2>2. heard'[i] = heard[i]
      BY <1>1, <1>3, <1>4, <2>1
    <2> QED
      BY <1>8, <2>2 DEF StoryInv
  <1>9. KeysFit'
    <2>1. \A n \in DOMAIN Tail(M) : n + 1 \in DOMAIN M /\ Tail(M)[n] = M[n + 1]
      BY <1>3, TailElements
    <2> QED
      BY <1>1, <1>3, <2>1 DEF StoryInv, KeysFit
  <1> QED
    BY <1>3, <1>6, <1>7, <1>8, <1>9

\* A new command has an id nothing has been heard of.
LEMMA StoryBegins ==
  ASSUME PlacesInv, StoryInv, NEW v \in Values, CreateCommand(v)
  PROVE  /\ StoryFits(Own, heard, toMain, Jobs, toCalc)'
         /\ StoriesHeard'
         /\ \A id \in Ids : idCounter' < id => heard'[id] = <<>>
         /\ KeysFit'
  <1>1. PICK I \in SUBSET Ids, H \in Heard, M \in Seq(CommandResults), J \in SUBSET Pairs,
             T \in Seq(Inputs) :
               I = Own /\ H = heard /\ M = toMain /\ J = Jobs /\ T = toCalc
    BY StoryState DEF PlacesInv, Own
  <1>2. StoryFits(I, H, M, J, T)
    BY <1>1, StoryState
  <1>3. PICK c \in Inputs : /\ c.id = idCounter' /\ c \notin Air
                            /\ toCalc' = Append(toCalc, c)
    BY MovesCreated
  <1>4. heard' = H /\ toMain' = M /\ Jobs' = J /\ life' = life
    BY <1>1 DEF CreateCommand, Jobs, Queued, thread
  <1>5. idCounter \in Nat /\ idCounter' = idCounter + 1 /\ idCounter' \in Ids
    BY OwnGrows
  <1>6. H[c.id] = <<>>
    BY <1>1, <1>3, <1>5 DEF StoryInv
  <1>7. \/ Own' = I /\ c.id \notin I
        \/ /\ Own' = I \cup {c.id}
           /\ \A n \in DOMAIN M : M[n].answer[1].id # c.id
           /\ \A j \in J : j[1].id # c.id
           /\ \A n \in DOMAIN T : T[n].id # c.id
    BY <1>1, <1>3, OwnGrows, StoryState
  <1>8. PICK K : K = Own'
    OBVIOUS
  <1>9. StoryFits(K, H, M, J, Append(T, c))
    BY <1>2, <1>6, <1>7, <1>8, StoryCreated
  <1>10. StoryFits(Own, heard, toMain, Jobs, toCalc)'
    BY <1>1, <1>3, <1>4, <1>8, <1>9
  <1>11. \A id \in Ids : idCounter' < id => idCounter < id
    BY <1>5, DemoOK DEF Ids
  <1>12. StoriesHeard'
    BY <1>1, <1>4, OwnGrows DEF StoryInv, StoriesHeard
  <1>13. KeysFit'
    <2>1. \A n \in DOMAIN toMain : toMain[n].key.id \in Ids
      <3>1. \A n \in DOMAIN M : M[n] \in CommandResults
        BY LenProperties, ElementOfSeq
      <3> QED
        BY <1>1, <3>1, InputParts DEF CommandResults
    <2>2. \A i \in Ids : i <= idCounter => i <= idCounter'
      BY <1>5, DemoOK DEF Ids
    <2> QED
      BY <1>1, <1>4, <2>1, <2>2 DEF StoryInv, KeysFit
  <1> QED
    BY <1>1, <1>4, <1>10, <1>11, <1>12, <1>13 DEF StoryInv

\* Taking a command, queueing it and taking over the queue tell nobody.
LEMMA StoryPrepared ==
  ASSUME PlacesInv, StoryInv, Handle \/ MockTake \/ ThreadStep
  PROVE  StoryFits(Own, heard, toMain, Jobs, toCalc)'
  <1>1. PICK I \in SUBSET Ids, H \in Heard, M \in Seq(CommandResults), J \in SUBSET Pairs,
             T \in Seq(Inputs) :
               I = Own /\ H = heard /\ M = toMain /\ J = Jobs /\ T = toCalc
    BY StoryState DEF PlacesInv, Own
  <1>2. StoryFits(I, H, M, J, T)
    BY <1>1, StoryState
  <1>3. heard' = H /\ toMain' = M /\ Own' = I
    <2>1. Own' = Own
      BY OwnKept DEF CalculatorProgram
    <2> QED
      BY <1>1, <2>1 DEF Handle, MockTake, ThreadStep, history
  <1>4. CASE Handle \/ MockTake
    <2>1. T # <<>> /\ toCalc' = Tail(T) /\ Jobs' = J \cup {<<Head(T), 1>>}
      BY <1>1, <1>4, JobTaken DEF PlacesInv
    <2>2. StoryFits(I, H, M, J \cup {<<Head(T), 1>>}, Tail(T))
      BY <1>2, <2>1, StoryTaken
    <2> QED
      BY <1>3, <2>1, <2>2
  <1>5. CASE Splice /\ UNCHANGED <<mock, toCalc>>
    BY <1>1, <1>2, <1>3, <1>5, JobsSpliced DEF PlacesInv
  <1>6. ASSUME NEW c \in Inputs, NEW k \in {1, 2}, Request(c, k), UNCHANGED <<mock, toCalc>>
        PROVE  StoryFits(Own, heard, toMain, Jobs, toCalc)'
    <2>1. Jobs' = J \cup (IF k = 1 THEN {<<c, 2>>} ELSE {}) /\ <<c, k>> \in J
      BY <1>1, <1>6, JobQueued DEF PlacesInv, Jobs
    <2>2. CASE k = 1
      <3>1. StoryFits(I, H, M, J \cup {<<c, 2>>}, T)
        BY <1>2, <2>1, <2>2, StoryQueued
      <3> QED
        BY <1>1, <1>3, <1>6, <2>1, <2>2, <3>1
    <2>3. CASE k = 2
      BY <1>1, <1>2, <1>3, <1>6, <2>1, <2>3
    <2> QED
      BY <2>2, <2>3
  <1> QED
    BY <1>4, <1>5, <1>6 DEF ThreadStep

\* A restart leaves less to tell; nothing at all, if the main program's.
LEMMA StoryRestarted ==
  ASSUME PlacesInv, StoryInv, RestartMain \/ RestartCalculator
  PROVE  StoryFits(Own, heard, toMain, Jobs, toCalc)'
  <1>1. PICK I \in SUBSET Ids, H \in Heard, M \in Seq(CommandResults), J \in SUBSET Pairs,
             T \in Seq(Inputs) :
               I = Own /\ H = heard /\ M = toMain /\ J = Jobs /\ T = toCalc
    BY StoryState DEF PlacesInv, Own
  <1>2. StoryFits(I, H, M, J, T)
    BY <1>1, StoryState
  <1>3. CASE RestartCalculator
    <2>1. heard' = H /\ toMain' = M /\ mock' = mock /\ (toCalc' = T \/ toCalc' = <<>>)
      BY <1>1, <1>3 DEF RestartCalculator
    <2>2. mock = {}
      BY <1>3 DEF RestartCalculator, PlacesInv, ModeFits
    <2>3. sleeping' = {} /\ incoming' = <<>> /\ processing' = <<>>
      BY <1>3 DEF RestartCalculator, Exit
    <2>4. Jobs' = {}
      BY <2>1, <2>2, <2>3 DEF Jobs, Queued
    <2>5. \A U : U = T \/ U = <<>> => StoryFits(I, H, M, {}, U)
      BY <1>2, StoryStopped
    <2>6. Own' = I
      BY <1>1, <1>3, OwnKept DEF CalculatorProgram
    <2> QED
      BY <2>1, <2>4, <2>5, <2>6
  <1>4. CASE RestartMain
    <2>1. Own' = {}
      BY <1>4, OwnEmpties DEF PlacesInv
    <2> QED
      BY <2>1 DEF StoryFits, MainFits, JobsFit, SentUnheard
  <1> QED
    BY <1>3, <1>4

-----------------------------------------------------------------------------
(* The end is told once *)

\* No command that has ended comes back.
LEMMA EndStays ==
  ASSUME EndFits, UNCHANGED <<heard, toMain, life>>,
         \A id \in DOMAIN idLookup' : idLookup'[id].life = life =>
           \/ id \in DOMAIN idLookup /\ idLookup'[id] = idLookup[id]
           \/ ~ Ended(heard, toMain, id),
         \A n \in DOMAIN toCalc' : toCalc'[n].life = life =>
           \/ \E m \in DOMAIN toCalc : toCalc[m] = toCalc'[n]
           \/ ~ Ended(heard, toMain, toCalc'[n].id)
  PROVE  EndFits'
  <1>1. NoneLeft(heard, toMain, idLookup', toCalc', life)
    BY DEF EndFits, NoneLeft
  <1> QED
    BY <1>1 DEF EndFits

\* A new command has an id of which nothing has been told.
LEMMA EndBegins ==
  ASSUME PlacesInv, StoryInv, EndFits, NEW v \in Values, CreateCommand(v)
  PROVE  EndFits'
  <1>1. PICK c \in Inputs : c.id = idCounter' /\ toCalc' = Append(toCalc, c)
    BY MovesCreated
  <1>2. UNCHANGED <<heard, toMain, life, idLookup>>
    BY DEF CreateCommand
  <1>3. idCounter \in Nat /\ idCounter' = idCounter + 1 /\ idCounter' \in Ids
    BY OwnGrows
  <1>4. ~ Ended(heard, toMain, c.id)
    <2>1. heard[c.id] = <<>>
      BY <1>1, <1>3 DEF StoryInv
    <2>2. \A n \in DOMAIN toMain : toMain[n].key.id # c.id
      <3>1. ~ (c.id <= idCounter)
        BY <1>1, <1>3
      <3> QED
        BY <3>1 DEF StoryInv, KeysFit
    <2> QED
      BY <2>1, <2>2 DEF Ended, HeardEnd
  <1>5. \A n \in DOMAIN toCalc' : \/ \E m \in DOMAIN toCalc : toCalc[m] = toCalc'[n]
                                  \/ toCalc'[n] = c
    <2>1. PICK T \in Seq(Inputs) : T = toCalc
      BY DEF PlacesInv, TypeOK
    <2>2. \A n \in DOMAIN Append(T, c) :
            (n \in DOMAIN T /\ Append(T, c)[n] = T[n]) \/ Append(T, c)[n] = c
      BY AppendElements
    <2> QED
      BY <1>1, <2>1, <2>2
  <1> QED
    BY <1>2, <1>4, <1>5, EndStays

\* idLookup_ gets a command of this life from toCalc.
LEMMA EndHandled ==
  ASSUME PlacesInv, EndFits, Handle
  PROVE  EndFits'
  <1>1. PICK c \in Inputs : c = Head(toCalc)
    BY JobTaken DEF PlacesInv
  <1>2. UNCHANGED <<heard, toMain, life>> /\ toCalc # <<>> /\ toCalc' = Tail(toCalc)
    BY DEF Handle, history
  <1>3. idLookup' = [id \in DOMAIN idLookup \cup {c.id} |->
                       IF id \in DOMAIN idLookup THEN idLookup[id] ELSE c]
    BY <1>1 DEF Handle
  <1>4. c = toCalc[1] /\ 1 \in DOMAIN toCalc
        /\ \A n \in DOMAIN toCalc' : n + 1 \in DOMAIN toCalc /\ toCalc'[n] = toCalc[n + 1]
    BY <1>1, <1>2, TailElements DEF PlacesInv, TypeOK
  <1>5. c.life = life => ~ Ended(heard, toMain, c.id)
    BY <1>4 DEF EndFits, NoneLeft
  <1>6. \A id \in DOMAIN idLookup' : idLookup'[id].life = life =>
          \/ id \in DOMAIN idLookup /\ idLookup'[id] = idLookup[id]
          \/ ~ Ended(heard, toMain, id)
    BY <1>3, <1>5
  <1>7. \A n \in DOMAIN toCalc' : \E m \in DOMAIN toCalc : toCalc[m] = toCalc'[n]
    BY <1>4
  <1> QED
    BY <1>2, <1>6, <1>7, EndStays

\* K: idLookup_ after the answer k to c, which has not ended.
Forgets(H, M, L, T, l, K, c, k) ==
  /\ EndsFit(H, M) /\ NoneLeft(H, M, L, T, l) /\ ~ Ended(H, M, c.id)
  /\ \A id \in DOMAIN K : id \in DOMAIN L /\ K[id] = L[id]
  /\ IsFinal(c, k) => c.id \notin DOMAIN K
  /\ \A n \in DOMAIN T : T[n].life = l => T[n].id # c.id

\* An answer is told of a command that has not ended.
LEMMA EndTold ==
  ASSUME NEW H, NEW M \in Seq(CommandResults), NEW L, NEW T, NEW l, NEW K,
         NEW key \in Inputs, NEW c \in Inputs, NEW k \in {1, 2}, key.id = c.id,
         Forgets(H, M, L, T, l, K, c, k),
         NEW A, A = Append(M, [key |-> key, answer |-> <<c, k>>])
  PROVE  EndsFit(H, A) /\ NoneLeft(H, A, K, T, l)
  <1> USE DEF Forgets
  <1> DEFINE a == [key |-> key, answer |-> <<c, k>>]
             z == Len(M) + 1
  <1>1. a \in CommandResults /\ a.key = key /\ a.answer[1] = c /\ a.answer[2] = k
    BY DEF CommandResults, Pairs
  <1> HIDE DEF a
  <1>2. /\ \A n \in DOMAIN M : n \in DOMAIN A /\ A[n] = M[n] /\ n \in Nat /\ n <= z
        /\ \A n \in DOMAIN A : n \in DOMAIN M \/ n = z
        /\ A[z] = a /\ z \in DOMAIN A /\ z \in Nat
    <2>1. /\ DOMAIN A = 1..(Len(M) + 1) /\ DOMAIN M = 1..Len(M)
          /\ \A n \in DOMAIN M : n \in DOMAIN A /\ A[n] = M[n]
          /\ A[Len(M) + 1] = a /\ Len(M) \in Nat
      BY <1>1, AppendElements DEF a
    <2> QED
      BY <2>1
  <1> HIDE DEF z
  <1>3. /\ \A n \in DOMAIN M : Ends(A, n) <=> Ends(M, n)
        /\ Ends(A, z) <=> IsFinal(c, k)
    BY <1>1, <1>2 DEF Ends
  <1>4. \A id : Ended(H, A, id) => Ended(H, M, id) \/ (id = c.id /\ IsFinal(c, k))
    BY <1>1, <1>2, <1>3 DEF Ended
  <1>5. \A m, n \in DOMAIN A : Ends(A, n) /\ A[m].key.id = A[n].key.id => m <= n
    <2> SUFFICES ASSUME NEW m \in DOMAIN A, NEW n \in DOMAIN A,
                        Ends(A, n), A[m].key.id = A[n].key.id
                 PROVE  m <= n
      OBVIOUS
    <2>1. CASE n = z
      BY <1>2, <2>1
    <2>2. CASE n \in DOMAIN M /\ m \in DOMAIN M
      BY <1>2, <1>3, <2>2 DEF EndsFit
    <2>3. CASE n \in DOMAIN M /\ m = z
      <3>1. M[n].key.id = c.id /\ Ends(M, n)
        BY <1>1, <1>2, <1>3, <2>3
      <3> QED
        BY <2>3, <3>1 DEF Ended
    <2> QED
      BY <1>2, <2>1, <2>2, <2>3
  <1>6. \A n \in DOMAIN A : ~ HeardEnd(H, A[n].key.id)
    <2>1. ~ HeardEnd(H, c.id)
      BY DEF Ended
    <2> QED
      BY <1>1, <1>2, <2>1 DEF EndsFit
  <1>7. NoneLeft(H, A, K, T, l)
    BY <1>4 DEF NoneLeft
  <1> QED
    BY <1>5, <1>6, <1>7 DEF EndsFit

\* An answer told to this life belongs to a command that has not ended; if it is
\* the last one, idLookup_ forgets the id.
LEMMA EndAnswered ==
  ASSUME PlacesInv, StoryInv, EndFits, ~ virtual,
         NEW c \in Inputs, NEW k \in {1, 2}, OnCalculateResult(c, k)
  PROVE  EndFits'
  <1> USE DEF PlacesInv
  <1>1. UNCHANGED <<heard, toCalc, life>>
    BY DEF OnCalculateResult, history
  <1>2. \A id \in DOMAIN idLookup' : id \in DOMAIN idLookup /\ idLookup'[id] = idLookup[id]
    BY DEF OnCalculateResult, Restrict
  <1>3. CASE UNCHANGED toMain
    BY <1>1, <1>2, <1>3, EndStays
  <1>4. ASSUME NEW key \in Inputs, key \in Air, key.id = c.id, key.life = life,
               toMain' = Append(toMain, [key |-> key, answer |-> <<c, k>>]),
               c.id \in DOMAIN idLookup, key = idLookup[c.id],
               \A n \in DOMAIN toCalc : toCalc[n] # key
        PROVE  EndFits'
    <2>1. ~ Ended(heard, toMain, c.id)
      BY <1>4 DEF EndFits, NoneLeft
    <2>2. IsFinal(c, k) => c.id \notin DOMAIN idLookup'
      BY <1>4 DEF OnCalculateResult, Restrict
    <2>3. \A n \in DOMAIN toCalc : toCalc[n].life = life => toCalc[n].id # c.id
      BY <1>4, StoryState DEF AirFits
    <2>4. PICK H \in Heard, M \in Seq(CommandResults), T \in Seq(Inputs) :
                 H = heard /\ M = toMain /\ T = toCalc
      BY StoryState
    <2>5. PICK L, l, K, A : L = idLookup /\ l = life /\ K = idLookup' /\ A = toMain'
      OBVIOUS
    <2>6. EndsFit(H, M) /\ NoneLeft(H, M, L, T, l) /\ ~ Ended(H, M, c.id)
      BY <2>1, <2>4, <2>5 DEF EndFits
    <2>7. \A id \in DOMAIN K : id \in DOMAIN L /\ K[id] = L[id]
      BY <1>2, <2>5
    <2>8. IsFinal(c, k) => c.id \notin DOMAIN K
      BY <2>2, <2>5
    <2>9. \A n \in DOMAIN T : T[n].life = l => T[n].id # c.id
      BY <2>3, <2>4, <2>5
    <2>10. A = Append(M, [key |-> key, answer |-> <<c, k>>])
      BY <1>4, <2>4, <2>5
    <2>11. EndsFit(H, A) /\ NoneLeft(H, A, K, T, l)
      <3>1. Forgets(H, M, L, T, l, K, c, k)
        BY <2>6, <2>7, <2>8, <2>9 DEF Forgets
      <3> QED
        BY <1>4, <2>10, <3>1, EndTold
    <2> QED
      BY <1>1, <2>4, <2>5, <2>11 DEF EndFits
  <1> QED
    BY <1>3, <1>4, Publishes

\* The answer at the head of the line is heard.
LEMMA EndTaken ==
  ASSUME NEW H \in Heard, NEW M \in Seq(CommandResults), NEW c \in Inputs, NEW k \in {1, 2},
         NEW G \in Heard, G = Hears(H, c, k), M # <<>>, Head(M).answer = <<c, k>>,
         Head(M).key.id = c.id, EndsFit(H, M)
  PROVE  EndsFit(G, Tail(M)) /\ \A id \in Ids : Ended(G, Tail(M), id) => Ended(H, M, id)
  <1> DEFINE R == Tail(M)
             e == <<c, k>>
             h == H[c.id]
             g == G[c.id]
  <1>1. /\ Head(M) = M[1] /\ 1 \in DOMAIN M
        /\ \A n \in DOMAIN R : n + 1 \in DOMAIN M /\ R[n] = M[n + 1] /\ n \in Nat \ {0}
    BY TailElements
  <1>2. e \in Pairs /\ e[1] = c /\ e[2] = k /\ c.id \in Ids
    BY InputParts DEF Pairs
  <1>3. h \in Seq(Pairs) /\ g = Append(h, e) /\ \A i \in Ids \ {c.id} : G[i] = H[i]
    BY <1>2 DEF Hears, Heard
  <1>4. Ends(M, 1) <=> IsFinal(c, k)
    BY <1>1 DEF Ends
  <1>5. M[1].key.id = c.id
    BY <1>1
  <1> HIDE DEF R, e
  <1>6. /\ DOMAIN g = 1..(Len(h) + 1) /\ Len(g) = Len(h) + 1 /\ Len(h) \in Nat
        /\ \A n \in DOMAIN h : g[n] = h[n]
        /\ DOMAIN h = 1..Len(h) /\ g[Len(h) + 1] = e
    BY <1>2, <1>3, AppendElements, AppendProperties, LenProperties
  <1>7. \A n \in DOMAIN h : ~ IsFinal(h[n][1], h[n][2])
    BY <1>1, <1>5 DEF EndsFit, HeardEnd
  <1>8. \A n \in DOMAIN g : IsFinal(g[n][1], g[n][2]) => n = Len(g) /\ IsFinal(c, k)
    <2> SUFFICES ASSUME NEW n \in DOMAIN g, IsFinal(g[n][1], g[n][2])
                 PROVE  n = Len(g) /\ IsFinal(c, k)
      OBVIOUS
    <2>1. n \notin DOMAIN h
      BY <1>6, <1>7
    <2>2. n = Len(h) + 1
      BY <1>6, <2>1
    <2> QED
      BY <1>2, <1>6, <2>2
  <1>9. \A id \in Ids : \A n \in DOMAIN G[id] :
          IsFinal(G[id][n][1], G[id][n][2]) => n = Len(G[id])
    <2> SUFFICES ASSUME NEW id \in Ids
                 PROVE  \A n \in DOMAIN G[id] :
                          IsFinal(G[id][n][1], G[id][n][2]) => n = Len(G[id])
      OBVIOUS
    <2>1. CASE id = c.id
      BY <1>8, <2>1
    <2>2. CASE id # c.id
      BY <1>3, <2>2 DEF EndsFit
    <2> QED
      BY <2>1, <2>2
  <1>10. HeardEnd(G, c.id) => Ends(M, 1)
    BY <1>4, <1>8 DEF HeardEnd
  <1>11. \A i \in Ids \ {c.id} : HeardEnd(G, i) <=> HeardEnd(H, i)
    BY <1>3 DEF HeardEnd
  <1> HIDE DEF g, h
  <1>12. \A n \in DOMAIN R : Ends(R, n) <=> Ends(M, n + 1)
    BY <1>1 DEF Ends
  <1>13. \A n \in DOMAIN M : M[n].key.id \in Ids
    <2>1. \A n \in DOMAIN M : M[n] \in CommandResults
      BY LenProperties, ElementOfSeq
    <2> QED
      BY <2>1, InputParts DEF CommandResults
  <1>14. \A id \in Ids : Ended(G, R, id) => Ended(H, M, id)
    <2> SUFFICES ASSUME NEW id \in Ids, Ended(G, R, id) PROVE Ended(H, M, id)
      OBVIOUS
    <2>1. CASE HeardEnd(G, id) /\ id = c.id
      BY <1>1, <1>5, <1>10, <2>1 DEF Ended
    <2>2. CASE HeardEnd(G, id) /\ id # c.id
      BY <1>11, <2>2 DEF Ended
    <2>3. ASSUME NEW n \in DOMAIN R, R[n].key.id = id, Ends(R, n)
          PROVE  Ended(H, M, id)
      BY <1>1, <1>12, <2>3 DEF Ended
    <2> QED
      BY <2>1, <2>2, <2>3 DEF Ended
  <1>15. \A m, n \in DOMAIN R : Ends(R, n) /\ R[m].key.id = R[n].key.id => m <= n
    <2> SUFFICES ASSUME NEW m \in DOMAIN R, NEW n \in DOMAIN R,
                        Ends(R, n), R[m].key.id = R[n].key.id
                 PROVE  m <= n
      OBVIOUS
    <2>1. m + 1 <= n + 1
      BY <1>1, <1>12 DEF EndsFit
    <2> QED
      BY <1>1, <2>1
  <1>16. ASSUME NEW n \in DOMAIN R
         PROVE  ~ HeardEnd(G, R[n].key.id)
    <2>1. R[n] = M[n + 1] /\ n + 1 \in DOMAIN M /\ ~ (n + 1 <= 1)
      BY <1>1
    <2>2. CASE R[n].key.id = c.id
      <3>1. ~ Ends(M, 1)
        BY <1>1, <1>5, <2>1, <2>2 DEF EndsFit
      <3> QED
        BY <1>10, <2>2, <3>1
    <2>3. CASE R[n].key.id # c.id
      BY <1>11, <1>13, <2>1, <2>3 DEF EndsFit
    <2> QED
      BY <2>2, <2>3
  <1> QED
    BY <1>9, <1>14, <1>15, <1>16 DEF EndsFit, R

LEMMA EndHeard ==
  ASSUME PlacesInv, StoryInv, EndFits, HandleResult
  PROVE  EndFits'
  <1>1. PICK c \in Inputs, k \in {1, 2}, G \in Heard :
           /\ Head(toMain).answer = <<c, k>> /\ Head(toMain).key.id = c.id
           /\ heard' = G /\ G = Hears(heard, c, k)
           /\ toMain # <<>> /\ toMain' = Tail(toMain)
           /\ UNCHANGED <<toCalc, life, idLookup>>
    BY StoryHears
  <1>2. PICK H \in Heard, M \in Seq(CommandResults) : H = heard /\ M = toMain
    BY StoryState
  <1>3. EndsFit(G, Tail(M)) /\ \A id \in Ids : Ended(G, Tail(M), id) => Ended(H, M, id)
    BY <1>1, <1>2, EndTaken DEF EndFits
  <1>4. \A id \in DOMAIN idLookup : id \in Ids
    BY DEF PlacesInv, TypeOK
  <1>5. \A n \in DOMAIN toCalc : toCalc[n].id \in Ids
    BY StoryState, LenProperties, ElementOfSeq, InputParts
  <1>6. NoneLeft(G, Tail(M), idLookup, toCalc, life)
    BY <1>2, <1>3, <1>4, <1>5 DEF EndFits, NoneLeft
  <1> QED
    BY <1>1, <1>2, <1>3, <1>6 DEF EndFits

\* Nothing has been told to a life that begins.
LEMMA EndEmpty ==
  ASSUME NEW H, NEW M, NEW L, NEW T, NEW l, \A id \in Ids : H[id] = <<>>, DOMAIN M = {},
         \A id \in DOMAIN L : id \in Ids, \A n \in DOMAIN T : T[n].id \in Ids
  PROVE  EndsFit(H, M) /\ NoneLeft(H, M, L, T, l)
  <1>1. \A id \in Ids : ~ Ended(H, M, id)
    BY DEF Ended, HeardEnd
  <1> QED
    BY <1>1 DEF EndsFit, NoneLeft

LEMMA EndPreserved ==
  ASSUME PlacesInv, StoryInv, ~ virtual, [Next]_vars
  PROVE  EndFits'
  <1> USE DEF PlacesInv
  <1>1. EndFits
    BY DEF StoryInv
  <1>2. CASE HandleResult
    BY <1>1, <1>2, EndHeard
  <1>3. CASE \E v \in Values : CreateCommand(v)
    BY <1>1, <1>3, EndBegins
  <1>4. CASE Handle
    BY <1>1, <1>4, EndHandled
  <1>5. CASE \E c \in Inputs, k \in {1, 2} : OnCalculateResult(c, k)
    BY <1>1, <1>5, EndAnswered
  <1>6. CASE RestartCalculator
    <2>1. /\ UNCHANGED <<heard, toMain, life>> /\ DOMAIN idLookup' = {}
          /\ toCalc' = toCalc \/ toCalc' = <<>>
      BY <1>6 DEF RestartCalculator
    <2>2. toCalc' = toCalc \/ DOMAIN toCalc' = {}
      BY <2>1
    <2> QED
      BY <1>1, <2>1, <2>2, EndStays
  <1>7. CASE RestartMain
    <2>1. TypeOK'
      BY <1>7, TypePreserved DEF Next, MainProgram
    <2>2. \A id \in Ids : heard'[id] = <<>>
      BY <1>7 DEF RestartMain
    <2>3. DOMAIN toMain' = {}
      BY <1>7 DEF RestartMain
    <2>4. toCalc' \in Seq(Inputs) /\ \A id \in DOMAIN idLookup' : id \in Ids
      BY <2>1 DEF TypeOK, Ids
    <2>5. \A n \in DOMAIN toCalc' : toCalc'[n].id \in Ids
      BY <2>4, LenProperties, ElementOfSeq, InputParts
    <2>6. PICK H, M, L, T, l : /\ H = heard' /\ M = toMain' /\ L = idLookup'
                               /\ T = toCalc' /\ l = life'
      OBVIOUS
    <2>7. EndsFit(H, M) /\ NoneLeft(H, M, L, T, l)
      BY <2>2, <2>3, <2>4, <2>5, <2>6, EndEmpty
    <2> QED
      BY <2>6, <2>7 DEF EndFits
  <1>8. CASE UNCHANGED <<heard, toMain, life, idLookup, toCalc>>
    BY <1>1, <1>8, EndStays
  <1>9. ASSUME \/ \E on \in BOOLEAN : Configure(on)
               \/ QueryOutstandingCommands
               \/ \E I \in (SUBSET seen) \ {{}} : ClearCommands(I)
               \/ ThreadStep \/ UNCHANGED vars
        PROVE  UNCHANGED <<heard, toMain, life, idLookup, toCalc>>
    BY <1>9 DEF Configure, QueryOutstandingCommands, ClearCommands, ThreadStep, vars, history
  <1>10. ~ MockTake /\ \A c \in Inputs, k \in {1, 2} : ~ MockAnswer(c, k)
    BY DEF MockTake, MockAnswer, ModeFits
  <1> QED
    BY <1>2, <1>3, <1>4, <1>5, <1>6, <1>7, <1>8, <1>9, <1>10
    DEF Next, MainProgram, MainLogicCombination, CalculatorProgram

-----------------------------------------------------------------------------
(* Answers go home *)

LEMMA StoryPreserved ==
  ASSUME PlacesInv, StoryInv, [Next]_vars
  PROVE  StoryInv'
  <1> DEFINE Goal == /\ StoryFits(Own, heard, toMain, Jobs, toCalc)'
                     /\ StoriesHeard' /\ KeysFit'
                     /\ \A id \in Ids : idCounter' < id => heard'[id] = <<>>
  <1>1. virtual' = virtual
    BY DEF Next, MainProgram, MainLogicCombination, CalculatorProgram, HandleResult,
           CreateCommand, Configure, QueryOutstandingCommands, ClearCommands, Handle,
           MockTake, MockAnswer, OnCalculateResult, RestartCalculator, RestartMain,
           ThreadStep, vars
  <1>2. SUFFICES Goal
    BY <1>1, LifePreserved, LookupPreserved, EndPreserved DEF StoryInv, Ids
  <1>3. StoryFits(Own, heard, toMain, Jobs, toCalc)
    BY StoryState
  <1>4. ASSUME UNCHANGED <<heard, life, idCounter, contested>>,
               StoryFits(Own, heard, toMain, Jobs, toCalc)', KeysFit'
        PROVE  Goal
    BY <1>4 DEF StoryInv, StoriesHeard
  <1>5. ASSUME UNCHANGED <<toMain, life, idCounter>> PROVE KeysFit'
    BY <1>5 DEF StoryInv, KeysFit
  <1>6. CASE HandleResult
    BY <1>6, StoryGoesHome
  <1>7. CASE \E v \in Values : CreateCommand(v)
    BY <1>7, StoryBegins
  <1>8. CASE \/ \E on \in BOOLEAN : Configure(on)
             \/ QueryOutstandingCommands
             \/ \E I \in (SUBSET seen) \ {{}} : ClearCommands(I)
             \/ UNCHANGED vars
    <2>1. UNCHANGED <<toCalc, toMain, mock, thread, life, idCounter, heard, contested>>
      BY <1>8 DEF Configure, QueryOutstandingCommands, ClearCommands, vars, main, history
    <2>2. UNCHANGED <<Jobs, Own>>
      BY <2>1 DEF Jobs, Queued, thread, Own
    <2> QED
      BY <1>3, <1>4, <1>5, <2>1, <2>2
  <1>9. CASE MockTake \/ Handle \/ ThreadStep
    <2>1. UNCHANGED <<heard, life, idCounter, contested, toMain>>
      BY <1>9 DEF MockTake, Handle, ThreadStep, main, history
    <2> QED
      BY <1>4, <1>5, <1>9, <2>1, StoryPrepared
  <1>10. CASE \E c \in Inputs, k \in {1, 2} : MockAnswer(c, k) \/ OnCalculateResult(c, k)
    <2>1. UNCHANGED <<heard, life, idCounter, contested>>
      BY <1>10 DEF MockAnswer, OnCalculateResult, main, history
    <2> QED
      BY <1>4, <1>10, <2>1, StoryAnswered
  <1>11. CASE RestartCalculator
    <2>1. UNCHANGED <<heard, life, idCounter, contested, toMain>>
      BY <1>11 DEF RestartCalculator, main
    <2> QED
      BY <1>4, <1>5, <1>11, <2>1, StoryRestarted
  <1>12. CASE RestartMain
    <2>1. toMain' = <<>> /\ \A id \in Ids : heard'[id] = <<>>
      BY <1>12 DEF RestartMain
    <2>2. StoriesHeard' /\ KeysFit'
      BY <2>1 DEF StoriesHeard, KeysFit
    <2> QED
      BY <1>12, <2>1, <2>2, StoryRestarted
  <1> HIDE DEF Goal
  <1> QED
    BY <1>6, <1>7, <1>8, <1>9, <1>10, <1>11, <1>12
    DEF Next, MainProgram, MainLogicCombination, CalculatorProgram

LEMMA StoryStart == Init => StoryInv
  <1> SUFFICES ASSUME Init PROVE StoryInv
    OBVIOUS
  <1>1. /\ toCalc = <<>> /\ toMain = <<>> /\ mock = {} /\ heard = [id \in Ids |-> <<>>]
        /\ sleeping = {} /\ incoming = <<>> /\ processing = <<>> /\ DOMAIN idLookup = {}
    BY DEF Init, ThreadInit
  <1>2. Queued = {} /\ DOMAIN toCalc = {} /\ DOMAIN toMain = {}
    BY <1>1 DEF Queued
  <1>3. Jobs = {} /\ Air = {}
    BY <1>1, <1>2 DEF Jobs, Air, Sent, Answered
  <1>4. LookupFits /\ KeysFit
    BY <1>1, <1>2 DEF LookupFits, KeysFit
  <1>5. \A id \in Ids : heard[id] = <<>>
    BY <1>1
  <1>6. StoriesHeard
    BY <1>5 DEF StoriesHeard
  <1>7. StoryFits(Own, heard, toMain, Jobs, toCalc)
    BY <1>2, <1>3 DEF StoryFits, MainFits, JobsFit, SentUnheard
  <1>8. EndFits
    BY <1>1, <1>2, <1>5, EndEmpty DEF EndFits
  <1> QED
    BY <1>3, <1>4, <1>5, <1>6, <1>7, <1>8 DEF StoryInv

\* Whenever the main program starts again, and whatever the calculator is doing
\* then: the end of a command is heard once and last, and a command whose id no
\* earlier command in the air contests gets its own answers, in their order.
THEOREM AnswersGoHomeCorrect == Spec => []AnswersGoHome
  <1>1. PlacesInv /\ StoryInv /\ [Next]_vars => StoryInv'
    BY StoryPreserved
  <1>2. StoryInv => AnswersGoHome
    <2> SUFFICES ASSUME StoryInv PROVE AnswersGoHome
      OBVIOUS
    <2>1. StoriesHeard /\ (virtual \/ EndFits)
      BY DEF StoryInv
    <2> QED
      BY <2>1 DEF AnswersGoHome, StoriesHeard, EndFits, EndsFit
  <1> QED
    BY <1>1, <1>2, StoryStart, PlacesCorrect, PTL DEF Spec
=============================================================================
