-------------------------- MODULE SubscriptionsProof --------------------------
(***************************************************************************)
(* Proofs about Subscriptions.  Everything a program and a server say to   *)
(* each other stays on the line between them, so the invariant speaks of   *)
(* one line at a time, LineOK: what the program keeps, what the server     *)
(* holds and what is on its way agree about the current registration.      *)
(* Its core is that the request that subscribes comes first: while it is   *)
(* under way nothing is known of the registration, and once an answer says *)
(* that the subscription was given back, it is not held and no request     *)
(* that could bring it back is left.                                       *)
(***************************************************************************)
EXTENDS Subscriptions, SequenceTheorems, TLAPS

RequestSet == [kind: {"subscribe", "unsubscribe"}, id: Nat]
AnswerSet ==
  [kind: {"subscribed", "unsubscribed"}, to: {"subscriber", "closer"}, id: Nat]

Shape ==
  /\ ids \in [Servers -> Nat] /\ heard \in [Servers -> Nat]
  /\ held \in [Servers -> SUBSET Nat]
  /\ toServer \in [Servers -> Seq(RequestSet)]
  /\ toClient \in [Servers -> Seq(AnswerSet)]

\* What may be asked in registration r, of which h has been heard; only the
\* window may ask for subscription 0.
RequestOK(p, r, h, m) ==
  IF m.kind = "subscribe" THEN m.id \in 1..r
  ELSE m.id \in 0..r /\ (m.id = 0 => p = "window") /\ (m.id = r /\ r > 0 => h = r)

\* each registration subscribes once
SubscribesOnce(ts) ==
  \A j, k \in 1..Len(ts) :
    ts[j].kind = "subscribe" /\ ts[k].kind = "subscribe" /\ ts[j].id = ts[k].id => j = k

\* the request that subscribes is still under way
Pending(r, ts) == \E j \in 1..Len(ts) : ts[j] = Subscribe(r)

AnswerOK(p, r, hs, a) ==
  /\ a.id \in {0, r}
  /\ a.kind = "subscribed" => a.id = r
  /\ a.id = 0 => p = "window" /\ a.to = "closer"
  /\ a.kind = "unsubscribed" /\ a.id = r => r \notin hs

\* nothing is known of a registration whose request is under way
Unknown(r, h, hs, tc) ==
  h # r /\ r \notin hs /\ \A j \in 1..Len(tc) : tc[j].id # r

LineOK(p, r, con, id, h, hs, ts, tc) ==
  /\ h \in 0..r /\ hs \subseteq 1..r /\ id \in {0, r} /\ (id # 0 => h = r)
  /\ ~ con => tc = <<>> /\ id = 0
  /\ con => r > 0
  /\ \A j \in 1..Len(ts) : RequestOK(p, r, h, ts[j])
  /\ SubscribesOnce(ts)
  /\ Pending(r, ts) => Unknown(r, h, hs, tc)
  /\ \A j \in 1..Len(tc) : AnswerOK(p, r, hs, tc[j])
  /\ con /\ h = r /\ id = 0 => r \notin hs

Line(s) == LineOK(program, registration[s], connected[s], ids[s], heard[s],
                  held[s], toServer[s], toClient[s])

\* programs behind a fixed queue have one server from the start
FixedPartner ==
  program \notin Registering => \A s \in Servers : connected[s] = (s = Queue)

LinesOK == \A s \in Servers : Line(s)

TypesOK ==
  /\ program \in Programs /\ closing \in BOOLEAN
  /\ ended \in {"no", "answers", "timer"}
  /\ registration \in [Servers -> 0..MaxRegistrations]
  /\ connected \in [Servers -> BOOLEAN] /\ up \in [Servers -> BOOLEAN]

SubscriptionsInv == TypesOK /\ Shape /\ FixedPartner /\ LinesOK /\ CleanExit

-----------------------------------------------------------------------------
(* One line, step by step.  These lemmas are about values, not about states. *)

\* Nothing that was said before is about the new registration.
LEMMA LineRegister ==
  ASSUME NEW p, NEW r \in Nat, NEW id \in Nat, NEW h \in Nat,
         NEW hs \in SUBSET Nat, NEW ts \in Seq(RequestSet), NEW tc \in Seq(AnswerSet),
         LineOK(p, r, FALSE, id, h, hs, ts, tc)
  PROVE  LineOK(p, r + 1, TRUE, id, h, hs, Append(ts, Subscribe(r + 1)), tc)
<1> DEFINE m == Subscribe(r + 1)
           us == Append(ts, m)
<1>1. /\ h \in 0..r /\ hs \subseteq 1..r /\ id = 0 /\ tc = <<>>
      /\ \A j \in 1..Len(ts) : RequestOK(p, r, h, ts[j])
      /\ SubscribesOnce(ts)
  BY DEF LineOK
<1>2. /\ Len(us) = Len(ts) + 1
      /\ \A j \in 1..Len(ts) : us[j] = ts[j]
      /\ us[Len(ts) + 1] = m
      /\ Len(ts) \in Nat /\ m.kind = "subscribe" /\ m.id = r + 1
      /\ \A j \in 1..Len(ts) : ts[j] \in RequestSet
  <2>1. m \in RequestSet /\ m.kind = "subscribe" /\ m.id = r + 1
    BY DEF Subscribe, RequestSet
  <2> HIDE DEF m
  <2>2. /\ Len(us) = Len(ts) + 1 /\ us[Len(ts) + 1] = m
        /\ \A j \in 1..Len(ts) : us[j] = ts[j]
    BY <2>1, AppendProperties
  <2>3. \A j \in 1..Len(ts) : ts[j] \in RequestSet
    BY ElementOfSeq
  <2> QED BY <2>1, <2>2, <2>3, LenProperties
<1>3. ASSUME NEW j \in 1..Len(us) PROVE RequestOK(p, r + 1, h, us[j])
  <2>1. CASE j \in 1..Len(ts)
    BY <1>1, <1>2, <2>1, us[j] = ts[j] DEF RequestOK, RequestSet
  <2>2. CASE j = Len(ts) + 1
    BY <1>2, <2>2 DEF RequestOK
  <2> QED BY <1>2, <2>1, <2>2
<1>4. SubscribesOnce(us)
  <2> SUFFICES ASSUME NEW j \in 1..Len(us), NEW k \in 1..Len(us),
                      us[j].kind = "subscribe", us[k].kind = "subscribe", us[j].id = us[k].id
               PROVE  j = k
    BY DEF SubscribesOnce
  <2>1. \A i \in 1..Len(ts) : us[i].kind = "subscribe" => us[i].id \in 1..r
    BY <1>1, <1>2 DEF RequestOK
  <2>2. CASE j \in 1..Len(ts) /\ k \in 1..Len(ts)
    BY <1>1, <1>2, <2>2 DEF SubscribesOnce
  <2>3. CASE ~ (j \in 1..Len(ts) /\ k \in 1..Len(ts))
    BY <1>2, <2>1, <2>3
  <2> QED BY <2>2, <2>3
<1>5. Unknown(r + 1, h, hs, tc)
  BY <1>1 DEF Unknown
<1> HIDE DEF us, m
<1>6. LineOK(p, r + 1, TRUE, id, h, hs, us, tc)
  BY <1>1, <1>3, <1>4, <1>5 DEF LineOK
<1> QED BY <1>6 DEF us, m

\* What is lost with a registration was only about that registration.
LEMMA LineDeregister ==
  ASSUME NEW p, NEW r \in Nat, NEW id \in Nat, NEW h \in Nat, NEW con,
         NEW hs \in SUBSET Nat, NEW ts \in Seq(RequestSet), NEW tc \in Seq(AnswerSet),
         LineOK(p, r, con, id, h, hs, ts, tc)
  PROVE  LineOK(p, r, FALSE, 0, h, hs, ts, <<>>)
BY DEF LineOK, Unknown

\* Less is held after a crash and when someone gives a subscription back.
LEMMA LineCrash ==
  ASSUME NEW p, NEW r \in Nat, NEW id \in Nat, NEW h \in Nat, NEW con,
         NEW hs \in SUBSET Nat, NEW ts \in Seq(RequestSet), NEW tc \in Seq(AnswerSet),
         LineOK(p, r, con, id, h, hs, ts, tc)
  PROVE  /\ LineOK(p, r, con, id, h, {}, ts, tc)
         /\ LineOK(p, r, con, id, h, {}, <<>>, tc)
BY DEF LineOK, Unknown, AnswerOK, SubscribesOnce, Pending

\* What is answered to a request, as far as the line is concerned.
LEMMA AnswersAppended ==
  ASSUME NEW p, NEW r \in Nat, NEW hs \in SUBSET Nat,
         NEW tc \in Seq(AnswerSet), NEW as \in Seq(AnswerSet),
         \A j \in 1..Len(tc) : AnswerOK(p, r, hs, tc[j]),
         \A j \in 1..Len(as) : AnswerOK(p, r, hs, as[j])
  PROVE  /\ tc \o as \in Seq(AnswerSet)
         /\ \A j \in 1..Len(tc \o as) : AnswerOK(p, r, hs, (tc \o as)[j])
<1>1. /\ tc \o as \in Seq(AnswerSet) /\ Len(tc \o as) = Len(tc) + Len(as)
      /\ Len(tc) \in Nat /\ Len(as) \in Nat
      /\ \A j \in 1..(Len(tc) + Len(as)) :
           (tc \o as)[j] = IF j <= Len(tc) THEN tc[j] ELSE as[j - Len(tc)]
  BY ConcatProperties, LenProperties
<1>2. ASSUME NEW j \in 1..Len(tc \o as) PROVE AnswerOK(p, r, hs, (tc \o as)[j])
  <2>1. CASE j <= Len(tc)
    BY <1>1, <2>1
  <2>2. CASE ~ (j <= Len(tc))
    <3>1. j \in 1..(Len(tc) + Len(as))
      BY <1>1
    <3>2. (tc \o as)[j] = as[j - Len(tc)]
      BY <1>1, <2>2, <3>1
    <3>3. j - Len(tc) \in 1..Len(as)
      <4>1. Len(tc) \in Nat /\ Len(as) \in Nat
        BY <1>1
      <4>2. ASSUME NEW a \in Nat, NEW b \in Nat, NEW k \in 1..(a + b), ~ (k <= a)
            PROVE  k - a \in 1..b
        BY <4>2
      <4> QED BY <2>2, <3>1, <4>1, <4>2
    <3> QED BY <3>2, <3>3
  <2> QED BY <2>1, <2>2
<1> QED BY <1>1, <1>2

\* What is left of the requests when the server has taken the first.
LEMMA RequestTaken ==
  ASSUME NEW p, NEW r \in Nat, NEW h \in Nat, NEW ts \in Seq(RequestSet),
         ts # <<>>, SubscribesOnce(ts),
         \A j \in 1..Len(ts) : RequestOK(p, r, h, ts[j])
  PROVE  /\ Head(ts) \in RequestSet /\ Tail(ts) \in Seq(RequestSet)
         /\ RequestOK(p, r, h, Head(ts))
         /\ \A j \in 1..Len(Tail(ts)) : RequestOK(p, r, h, Tail(ts)[j])
         /\ SubscribesOnce(Tail(ts))
         /\ Pending(r, Tail(ts)) => Pending(r, ts) /\ Head(ts) # Subscribe(r)
         /\ Head(ts) = Subscribe(r) => Pending(r, ts)
<1>1. /\ Head(ts) \in RequestSet /\ Tail(ts) \in Seq(RequestSet)
      /\ \A j \in 1..Len(Tail(ts)) : Tail(ts)[j] = ts[j + 1]
      /\ Len(Tail(ts)) = Len(ts) - 1 /\ Len(ts) \in Nat
  BY HeadTailProperties, LenProperties
<1>2. Head(ts) = ts[1] /\ 1 \in 1..Len(ts)
  BY EmptySeq, LenProperties
<1>3. ASSUME NEW j \in 1..Len(Tail(ts)) PROVE j + 1 \in 1..Len(ts) /\ j + 1 # 1
  BY <1>1
<1>4. \A j \in 1..Len(Tail(ts)) : RequestOK(p, r, h, Tail(ts)[j])
  BY <1>1, <1>3
<1>5. SubscribesOnce(Tail(ts))
  <2> SUFFICES ASSUME NEW j \in 1..Len(Tail(ts)), NEW k \in 1..Len(Tail(ts)),
                      Tail(ts)[j].kind = "subscribe", Tail(ts)[k].kind = "subscribe",
                      Tail(ts)[j].id = Tail(ts)[k].id
               PROVE  j = k
    BY DEF SubscribesOnce
  <2>1. j + 1 = k + 1
    BY <1>1, <1>3 DEF SubscribesOnce
  <2> QED BY <2>1
<1>6. ASSUME Pending(r, Tail(ts)) PROVE Pending(r, ts) /\ Head(ts) # Subscribe(r)
  <2>1. PICK j \in 1..Len(Tail(ts)) : Tail(ts)[j] = Subscribe(r)
    BY <1>6 DEF Pending
  <2>2. ts[j + 1] = Subscribe(r) /\ j + 1 \in 1..Len(ts) /\ j + 1 # 1
    BY <1>1, <1>3, <2>1
  <2>3. Subscribe(r).kind = "subscribe"
    BY DEF Subscribe
  <2>4. ASSUME ts[1] = Subscribe(r) PROVE FALSE
    BY <1>2, <2>2, <2>3, <2>4 DEF SubscribesOnce
  <2> QED BY <1>2, <2>2, <2>4 DEF Pending
<1>7. Head(ts) = Subscribe(r) => Pending(r, ts)
  BY <1>2 DEF Pending
<1>8. RequestOK(p, r, h, Head(ts))
  BY <1>2
<1> QED BY <1>1, <1>4, <1>5, <1>6, <1>7, <1>8

\* The answers that reach the program: those to the current registration, and
\* the one that closes nothing.
Reaching(con, r, i, as) == IF con /\ i \in {0, r} THEN as ELSE <<>>

\* The server takes a request that subscribes.
LEMMA LineSubscribed ==
  ASSUME NEW p, NEW r \in Nat, NEW id \in Nat, NEW h \in Nat, NEW con,
         NEW hs \in SUBSET Nat, NEW ts \in Seq(RequestSet), NEW tc \in Seq(AnswerSet),
         NEW i, LineOK(p, r, con, id, h, hs, ts, tc), ts # <<>>,
         Head(ts).kind = "subscribe", Head(ts).id = i
  PROVE  /\ Reaching(con, r, i, <<Subscribed(i)>>) \in Seq(AnswerSet)
         /\ LineOK(p, r, con, id, h, hs \cup {i}, Tail(ts),
                   tc \o Reaching(con, r, i, <<Subscribed(i)>>))
<1> DEFINE as == Reaching(con, r, i, <<Subscribed(i)>>)
<1>1. /\ h \in 0..r /\ hs \subseteq 1..r /\ id \in {0, r} /\ (id # 0 => h = r)
      /\ ~ con => tc = <<>> /\ id = 0
      /\ con => r > 0
      /\ \A j \in 1..Len(ts) : RequestOK(p, r, h, ts[j])
      /\ SubscribesOnce(ts)
      /\ Pending(r, ts) => Unknown(r, h, hs, tc)
      /\ \A j \in 1..Len(tc) : AnswerOK(p, r, hs, tc[j])
      /\ con /\ h = r /\ id = 0 => r \notin hs
  BY DEF LineOK
<1>2. /\ i \in 1..r /\ Tail(ts) \in Seq(RequestSet)
      /\ \A j \in 1..Len(Tail(ts)) : RequestOK(p, r, h, Tail(ts)[j])
      /\ SubscribesOnce(Tail(ts))
      /\ Pending(r, Tail(ts)) => Unknown(r, h, hs, tc) /\ i # r
      /\ i = r => Unknown(r, h, hs, tc)
  <2>1. Head(ts) \in RequestSet /\ RequestOK(p, r, h, Head(ts))
    BY <1>1, RequestTaken
  <2>2. Head(ts) = Subscribe(i) /\ i \in 1..r
    BY <2>1 DEF RequestSet, Subscribe, RequestOK
  <2>3. /\ Tail(ts) \in Seq(RequestSet)
        /\ \A j \in 1..Len(Tail(ts)) : RequestOK(p, r, h, Tail(ts)[j])
        /\ SubscribesOnce(Tail(ts))
        /\ Pending(r, Tail(ts)) => Pending(r, ts) /\ Head(ts) # Subscribe(r)
        /\ Head(ts) = Subscribe(r) => Pending(r, ts)
    BY <1>1, RequestTaken
  <2> QED BY <1>1, <2>2, <2>3
<1>3. Subscribed(i) \in AnswerSet /\ Subscribed(i).id = i /\ Subscribed(i).kind = "subscribed"
  BY <1>2 DEF Subscribed, AnswerSet
<1>4. as \in Seq(AnswerSet) /\ \A j \in 1..Len(as) : as[j] = Subscribed(i) /\ con /\ i = r
  <2>1. CASE con /\ i = r
    <3>1. as = <<Subscribed(i)>>
      BY <2>1 DEF Reaching
    <3> HIDE DEF as
    <3> QED BY <1>3, <2>1, <3>1
  <2>2. CASE ~ (con /\ i = r)
    <3>1. as = <<>>
      BY <1>2, <2>2 DEF Reaching
    <3> HIDE DEF as
    <3> QED BY <3>1, EmptySeq
  <2> QED BY <2>1, <2>2
<1>5. \A j \in 1..Len(tc) : AnswerOK(p, r, hs \cup {i}, tc[j])
  BY <1>1, <1>2 DEF AnswerOK, Unknown
<1> HIDE DEF as
<1>6. \A j \in 1..Len(as) : AnswerOK(p, r, hs \cup {i}, as[j])
  <2>1. con /\ i = r => AnswerOK(p, r, hs \cup {i}, Subscribed(i))
    BY <1>2, <1>3 DEF AnswerOK
  <2> QED BY <1>4, <2>1
<1>7. /\ tc \o as \in Seq(AnswerSet)
      /\ \A j \in 1..Len(tc \o as) : AnswerOK(p, r, hs \cup {i}, (tc \o as)[j])
  <2> DEFINE ks == hs \cup {i}
  <2>1. ks \in SUBSET Nat
    BY <1>2
  <2>2. as \in Seq(AnswerSet)
    BY <1>4
  <2> HIDE DEF ks
  <2>3. /\ \A j \in 1..Len(tc) : AnswerOK(p, r, ks, tc[j])
        /\ \A j \in 1..Len(as) : AnswerOK(p, r, ks, as[j])
    BY <1>5, <1>6 DEF ks
  <2>4. /\ tc \o as \in Seq(AnswerSet)
        /\ \A j \in 1..Len(tc \o as) : AnswerOK(p, r, ks, (tc \o as)[j])
    BY <2>1, <2>2, <2>3, AnswersAppended
  <2> QED BY <2>4 DEF ks
<1>8. Pending(r, Tail(ts)) => Unknown(r, h, hs \cup {i}, tc \o as)
  <2> SUFFICES ASSUME Pending(r, Tail(ts)) PROVE Unknown(r, h, hs \cup {i}, tc \o as)
    OBVIOUS
  <2>1. i # r /\ Unknown(r, h, hs, tc)
    BY <1>2
  <2>2. as = <<>>
    BY <1>2, <2>1 DEF as, Reaching
  <2>3. tc \o as = tc
    BY <2>2
  <2> QED BY <2>1, <2>3 DEF Unknown
<1>9. con /\ h = r /\ id = 0 => r \notin hs \cup {i}
  BY <1>1, <1>2 DEF Unknown
<1>10. ~ con => tc \o as = <<>>
  BY <1>1 DEF as, Reaching
<1>11. LineOK(p, r, con, id, h, hs \cup {i}, Tail(ts), tc \o as)
  BY <1>1, <1>2, <1>7, <1>8, <1>9, <1>10 DEF LineOK
<1> QED BY <1>4, <1>11 DEF as

\* A request that is taken, or lost, changes nothing by itself.
LEMMA LineTaken ==
  ASSUME NEW p, NEW r \in Nat, NEW id \in Nat, NEW h \in Nat, NEW con,
         NEW hs \in SUBSET Nat, NEW ts \in Seq(RequestSet), NEW tc \in Seq(AnswerSet),
         LineOK(p, r, con, id, h, hs, ts, tc), ts # <<>>
  PROVE  /\ Head(ts) \in RequestSet /\ RequestOK(p, r, h, Head(ts))
         /\ Tail(ts) \in Seq(RequestSet)
         /\ LineOK(p, r, con, id, h, hs, Tail(ts), tc)
<1>1. SubscribesOnce(ts) /\ \A j \in 1..Len(ts) : RequestOK(p, r, h, ts[j])
  BY DEF LineOK
<1>2. /\ Head(ts) \in RequestSet /\ Tail(ts) \in Seq(RequestSet)
      /\ RequestOK(p, r, h, Head(ts))
      /\ \A j \in 1..Len(Tail(ts)) : RequestOK(p, r, h, Tail(ts)[j])
      /\ SubscribesOnce(Tail(ts))
      /\ Pending(r, Tail(ts)) => Pending(r, ts)
  BY <1>1, RequestTaken
<1>3. LineOK(p, r, con, id, h, hs, Tail(ts), tc)
  BY <1>2 DEF LineOK
<1> QED BY <1>2, <1>3

\* A subscription is given back.  The window alone may give back subscription 0,
\* and what is given back of this registration was confirmed or is held.
LEMMA LineUnsubscribed ==
  ASSUME NEW p, NEW r \in Nat, NEW id \in Nat, NEW h \in Nat, NEW con,
         NEW hs \in SUBSET Nat, NEW ts \in Seq(RequestSet), NEW tc \in Seq(AnswerSet),
         NEW i \in Nat, NEW as \in Seq(AnswerSet),
         LineOK(p, r, con, id, h, hs, ts, tc),
         i = r /\ r > 0 => h = r \/ r \in hs,
         \A j \in 1..Len(as) : /\ as[j].kind = "unsubscribed" /\ as[j].id = i
                               /\ i = 0 => p = "window" /\ as[j].to = "closer"
  PROVE  /\ tc \o Reaching(con, r, i, as) \in Seq(AnswerSet)
         /\ LineOK(p, r, con, id, h, hs \ {i}, ts, tc \o Reaching(con, r, i, as))
<1> DEFINE bs == Reaching(con, r, i, as)
           ks == hs \ {i}
<1>1. /\ h \in 0..r /\ hs \subseteq 1..r /\ id \in {0, r} /\ (id # 0 => h = r)
      /\ ~ con => tc = <<>> /\ id = 0
      /\ con => r > 0
      /\ \A j \in 1..Len(ts) : RequestOK(p, r, h, ts[j])
      /\ SubscribesOnce(ts)
      /\ Pending(r, ts) => Unknown(r, h, hs, tc)
      /\ \A j \in 1..Len(tc) : AnswerOK(p, r, hs, tc[j])
      /\ con /\ h = r /\ id = 0 => r \notin hs
  BY DEF LineOK
<1>2. /\ ks \in SUBSET Nat /\ ks \subseteq hs /\ (i = r => r \notin ks)
  OBVIOUS
<1>3. /\ bs \in Seq(AnswerSet)
      /\ (bs = as /\ con /\ i \in {0, r}) \/ (bs = <<>> /\ 1..Len(bs) = {})
      /\ ~ con => bs = <<>>
  <2> HIDE DEF ks
  <2>1. /\ (bs = as /\ con /\ i \in {0, r}) \/ bs = <<>>
        /\ ~ con => bs = <<>>
    BY DEF Reaching
  <2> HIDE DEF bs
  <2>2. bs = <<>> => bs \in Seq(AnswerSet) /\ 1..Len(bs) = {}
    BY EmptySeq
  <2> QED BY <2>1, <2>2
<1> HIDE DEF bs, ks
<1>4. \A j \in 1..Len(tc) : AnswerOK(p, r, ks, tc[j])
  BY <1>1, <1>2 DEF AnswerOK
<1>5. ASSUME NEW j \in 1..Len(bs) PROVE AnswerOK(p, r, ks, bs[j]) /\ bs[j].id = i
  <2>1. bs = as /\ con /\ i \in {0, r}
    BY <1>3
  <2>2. r # 0
    BY <1>1, <2>1
  <2>3. bs[j].kind = "unsubscribed" /\ bs[j].id = i /\ (i = 0 => p = "window" /\ bs[j].to = "closer")
    BY <2>1
  <2> QED BY <1>2, <2>1, <2>2, <2>3 DEF AnswerOK
<1>6. tc \o bs \in Seq(AnswerSet) /\ \A j \in 1..Len(tc \o bs) : AnswerOK(p, r, ks, (tc \o bs)[j])
  BY <1>2, <1>3, <1>4, <1>5, AnswersAppended
<1>7. ASSUME Pending(r, ts) PROVE Unknown(r, h, ks, tc \o bs)
  <2>1. Unknown(r, h, hs, tc)
    BY <1>1, <1>7
  <2>2. i # r \/ ~ con
    BY <1>1, <2>1 DEF Unknown
  <2>3. ASSUME NEW j \in 1..Len(tc \o bs) PROVE (tc \o bs)[j].id # r
    <3>1. /\ Len(tc \o bs) = Len(tc) + Len(bs) /\ Len(tc) \in Nat /\ Len(bs) \in Nat
          /\ (tc \o bs)[j] = IF j <= Len(tc) THEN tc[j] ELSE bs[j - Len(tc)]
      BY <1>3, ConcatProperties, LenProperties
    <3>2. CASE j <= Len(tc)
      BY <2>1, <3>1, <3>2 DEF Unknown
    <3>3. CASE ~ (j <= Len(tc))
      <4>1. j - Len(tc) \in 1..Len(bs)
        BY <3>1, <3>3
      <4>2. con
        BY <1>3, <4>1
      <4> QED BY <1>5, <2>2, <3>1, <3>3, <4>1, <4>2
    <3> QED BY <3>2, <3>3
  <2> QED BY <1>2, <2>1, <2>3 DEF Unknown
<1>8. ~ con => tc \o bs = <<>>
  <2>1. ~ con => tc = <<>> /\ bs = <<>>
    BY <1>1, <1>3
  <2> QED BY <2>1
<1>9. con /\ h = r /\ id = 0 => r \notin ks
  BY <1>1, <1>2
<1>10. LineOK(p, r, con, id, h, ks, ts, tc \o bs)
  BY <1>1, <1>2, <1>6, <1>7, <1>8, <1>9 DEF LineOK
<1> QED BY <1>6, <1>10 DEF bs, ks

\* The program gives back what it keeps, the window whatever that is.
LEMMA LineAsk ==
  ASSUME NEW p, NEW r \in Nat, NEW id \in Nat, NEW h \in Nat, NEW con,
         NEW hs \in SUBSET Nat, NEW ts \in Seq(RequestSet), NEW tc \in Seq(AnswerSet),
         LineOK(p, r, con, id, h, hs, ts, tc), id = 0 => p = "window"
  PROVE  /\ ts \o <<Unsubscribe(id)>> \in Seq(RequestSet)
         /\ LineOK(p, r, con, id, h, hs, ts \o <<Unsubscribe(id)>>, tc)
<1> DEFINE m == Unsubscribe(id)
           us == ts \o <<m>>
<1>1. /\ h \in 0..r /\ hs \subseteq 1..r /\ id \in {0, r} /\ (id # 0 => h = r)
      /\ \A j \in 1..Len(ts) : RequestOK(p, r, h, ts[j])
      /\ SubscribesOnce(ts)
  BY DEF LineOK
<1>2. m \in RequestSet /\ m.kind = "unsubscribe" /\ m.id = id /\ \A i : m # Subscribe(i)
  BY DEF Unsubscribe, Subscribe, RequestSet
<1> HIDE DEF m
<1>3. /\ us \in Seq(RequestSet) /\ Len(us) = Len(ts) + 1 /\ us[Len(ts) + 1] = m
      /\ \A j \in 1..Len(ts) : us[j] = ts[j]
      /\ Len(ts) \in Nat
  BY <1>2, AppendProperties, AppendIsConcat, LenProperties
<1> HIDE DEF us
<1>4. \A j \in 1..Len(us) : j \in 1..Len(ts) \/ j = Len(ts) + 1
  BY <1>3
<1>5. \A j \in 1..Len(us) : RequestOK(p, r, h, us[j])
  <2>1. RequestOK(p, r, h, m)
    BY <1>1, <1>2 DEF RequestOK
  <2> QED BY <1>1, <1>3, <1>4, <2>1
<1>6. SubscribesOnce(us)
  <2>1. \A j \in 1..Len(us) : us[j].kind = "subscribe" => j \in 1..Len(ts)
    BY <1>2, <1>3, <1>4
  <2> QED BY <1>1, <1>3, <2>1 DEF SubscribesOnce
<1>7. Pending(r, us) => Pending(r, ts)
  BY <1>2, <1>3, <1>4 DEF Pending
<1>8. LineOK(p, r, con, id, h, hs, us, tc)
  BY <1>5, <1>6, <1>7 DEF LineOK
<1> QED BY <1>3, <1>8 DEF us, m

\* The program hears an answer: the id it is told of is that of the current
\* registration, and what it forgets is not held any more.
LEMMA LineHear ==
  ASSUME NEW p, NEW r \in Nat, NEW id \in Nat, NEW h \in Nat, NEW con,
         NEW hs \in SUBSET Nat, NEW ts \in Seq(RequestSet), NEW tc \in Seq(AnswerSet),
         LineOK(p, r, con, id, h, hs, ts, tc), tc # <<>>
  PROVE  LET a == Head(tc) IN
         /\ a \in AnswerSet /\ Tail(tc) \in Seq(AnswerSet)
         /\ con /\ r > 0 /\ AnswerOK(p, r, hs, a)
         /\ LineOK(p, r, con, id, h, hs, ts, Tail(tc))
         /\ a.kind = "subscribed" => LineOK(p, r, con, a.id, a.id, hs, ts, Tail(tc))
         /\ a.kind = "unsubscribed" /\ a.id = id => LineOK(p, r, con, 0, h, hs, ts, Tail(tc))
<1> DEFINE a == Head(tc)
           us == Tail(tc)
<1>1. /\ h \in 0..r /\ hs \subseteq 1..r /\ id \in {0, r} /\ (id # 0 => h = r)
      /\ con /\ r > 0
      /\ \A j \in 1..Len(ts) : RequestOK(p, r, h, ts[j])
      /\ SubscribesOnce(ts)
      /\ Pending(r, ts) => Unknown(r, h, hs, tc)
      /\ \A j \in 1..Len(tc) : AnswerOK(p, r, hs, tc[j])
      /\ con /\ h = r /\ id = 0 => r \notin hs
  BY DEF LineOK
<1>2. /\ a \in AnswerSet /\ us \in Seq(AnswerSet) /\ a = tc[1]
      /\ Len(us) = Len(tc) - 1 /\ Len(tc) \in Nat /\ Len(tc) > 0
      /\ \A j \in 1..Len(us) : us[j] = tc[j + 1]
  BY HeadTailProperties, LenProperties, EmptySeq
<1> HIDE DEF a, us
<1>3. /\ AnswerOK(p, r, hs, a)
      /\ \A j \in 1..Len(us) : AnswerOK(p, r, hs, us[j])
  BY <1>1, <1>2
<1>4. Pending(r, ts) => Unknown(r, h, hs, us) /\ a.id # r
  BY <1>1, <1>2 DEF Unknown
<1>5. LineOK(p, r, con, id, h, hs, ts, us)
  BY <1>1, <1>3, <1>4 DEF LineOK
<1>6. ASSUME a.kind = "subscribed" PROVE LineOK(p, r, con, a.id, a.id, hs, ts, us)
  <2>1. a.id = r /\ ~ Pending(r, ts)
    BY <1>3, <1>4, <1>6 DEF AnswerOK
  <2>2. \A j \in 1..Len(ts) : RequestOK(p, r, r, ts[j])
    BY <1>1 DEF RequestOK
  <2>3. LineOK(p, r, con, r, r, hs, ts, us)
    BY <1>1, <1>3, <2>1, <2>2 DEF LineOK
  <2> QED BY <2>1, <2>3
<1>7. ASSUME a.kind = "unsubscribed", a.id = id PROVE LineOK(p, r, con, 0, h, hs, ts, us)
  <2>1. h = r => r \notin hs
    BY <1>1, <1>3, <1>7 DEF AnswerOK
  <2> QED BY <1>1, <1>3, <1>4, <2>1 DEF LineOK
<1> QED BY <1>1, <1>2, <1>3, <1>5, <1>6, <1>7 DEF a, us

-----------------------------------------------------------------------------
(* The program and its servers *)

\* SubscriptionsInv holds when the program starts.
LEMMA InvInit == Init => SubscriptionsInv
<1> SUFFICES ASSUME Init PROVE SubscriptionsInv
  OBVIOUS
<1> USE SubscriptionsOK
<1>1. /\ program \in Programs /\ closing = FALSE /\ ended = "no"
      /\ connected = [s \in Servers |-> program \notin Registering /\ s = Queue]
      /\ registration = [s \in Servers |-> IF connected[s] THEN 1 ELSE 0]
      /\ toServer = [s \in Servers |-> IF connected[s] THEN <<Subscribe(1)>> ELSE <<>>]
      /\ toClient = [s \in Servers |-> <<>>]
      /\ ids = [s \in Servers |-> 0] /\ heard = [s \in Servers |-> 0]
      /\ up = [s \in Servers |-> TRUE] /\ held = [s \in Servers |-> {}]
  BY DEF Init, Nothing
<1>2. Subscribe(1) \in RequestSet /\ Subscribe(1).kind = "subscribe" /\ Subscribe(1).id = 1
  BY DEF Subscribe, RequestSet
<1>3. <<Subscribe(1)>> \in Seq(RequestSet) /\ Len(<<Subscribe(1)>>) = 1 /\ <<Subscribe(1)>>[1] = Subscribe(1)
  BY <1>2
<1>4. TypesOK
  <2>1. 0 \in 0..MaxRegistrations /\ 1 \in 0..MaxRegistrations
    OBVIOUS
  <2>2. registration \in [Servers -> 0..MaxRegistrations]
    BY <1>1, <2>1
  <2>3. connected \in [Servers -> BOOLEAN] /\ up \in [Servers -> BOOLEAN]
    BY <1>1
  <2> QED BY <1>1, <2>2, <2>3 DEF TypesOK
<1>5. Shape
  BY <1>1, <1>3 DEF Shape
<1>6. ASSUME NEW s \in Servers PROVE Line(s)
  <2>1. CASE connected[s]
    <3>1. /\ registration[s] = 1 /\ ids[s] = 0 /\ heard[s] = 0 /\ held[s] = {}
          /\ toServer[s] = <<Subscribe(1)>> /\ toClient[s] = <<>>
      BY <1>1, <2>1
    <3>2. LineOK(program, 1, TRUE, 0, 0, {}, <<Subscribe(1)>>, <<>>)
      BY <1>2, <1>3 DEF LineOK, RequestOK, SubscribesOnce, Unknown
    <3>3. connected[s] = TRUE
      BY <1>1, <2>1
    <3> QED BY <3>1, <3>2, <3>3 DEF Line
  <2>2. CASE ~ connected[s]
    <3>1. /\ registration[s] = 0 /\ ids[s] = 0 /\ heard[s] = 0 /\ held[s] = {}
          /\ toServer[s] = <<>> /\ toClient[s] = <<>>
      BY <1>1, <2>2
    <3>2. LineOK(program, 0, FALSE, 0, 0, {}, <<>>, <<>>)
      BY DEF LineOK, RequestOK, SubscribesOnce, Unknown, Pending
    <3>3. connected[s] = FALSE
      BY <1>1, <2>2
    <3> QED BY <3>1, <3>2, <3>3 DEF Line
  <2> QED BY <2>1, <2>2
<1>7. FixedPartner /\ CleanExit
  BY <1>1 DEF FixedPartner, CleanExit
<1> QED BY <1>4, <1>5, <1>6, <1>7 DEF SubscriptionsInv, LinesOK

\* What a line is made of, and what is true of it.
LEMMA LineAt ==
  ASSUME SubscriptionsInv, NEW s \in Servers
  PROVE  /\ registration[s] \in Nat /\ registration[s] <= MaxRegistrations
         /\ ids[s] \in Nat /\ heard[s] \in Nat
         /\ connected[s] \in BOOLEAN /\ held[s] \in SUBSET Nat
         /\ toServer[s] \in Seq(RequestSet) /\ toClient[s] \in Seq(AnswerSet)
         /\ LineOK(program, registration[s], connected[s], ids[s], heard[s],
                   held[s], toServer[s], toClient[s])
<1> USE SubscriptionsOK
<1> HIDE DEF RequestSet, AnswerSet
<1> QED BY DEF SubscriptionsInv, TypesOK, Shape, LinesOK, Line

\* A line that no step touches.
LEMMA LineKept ==
  ASSUME SubscriptionsInv, NEW s \in Servers, program' = program,
         registration'[s] = registration[s], connected'[s] = connected[s],
         ids'[s] = ids[s], heard'[s] = heard[s], held'[s] = held[s],
         toServer'[s] = toServer[s], toClient'[s] = toClient[s]
  PROVE  Line(s)'
BY LineAt DEF Line

\* A heartbeat registers the program with a server.
LEMMA RegisterStep ==
  ASSUME SubscriptionsInv, NEW s \in Servers, Register(s)
  PROVE  SubscriptionsInv'
<1>1. /\ program \in Registering /\ ended = "no" /\ ended' = ended /\ program' = program
      /\ closing' = closing
      /\ ~ connected[s] /\ registration[s] < MaxRegistrations
      /\ connected' = [connected EXCEPT ![s] = TRUE]
      /\ registration' = [registration EXCEPT ![s] = registration[s] + 1]
      /\ toServer' = [toServer EXCEPT ![s] = Append(toServer[s], Subscribe(registration[s] + 1))]
      /\ ids' = ids /\ heard' = heard /\ toClient' = toClient /\ up' = up /\ held' = held
  BY DEF Register, Running, server, faults
<1>2. TypesOK /\ Shape
  BY DEF SubscriptionsInv
<1>3. registration[s] + 1 \in 0..MaxRegistrations /\ registration[s] + 1 \in Nat
  BY <1>1, <1>2, SubscriptionsOK DEF TypesOK
<1>4. TypesOK'
  BY <1>1, <1>2, <1>3 DEF TypesOK
<1>5. Append(toServer[s], Subscribe(registration[s] + 1)) \in Seq(RequestSet)
  <2>1. Subscribe(registration[s] + 1) \in RequestSet
    BY <1>3 DEF Subscribe, RequestSet
  <2>2. toServer[s] \in Seq(RequestSet)
    BY LineAt
  <2> HIDE DEF RequestSet
  <2> QED BY <2>1, <2>2, AppendProperties
<1>6. Shape'
  <2> HIDE DEF RequestSet, AnswerSet
  <2> QED BY <1>1, <1>2, <1>5 DEF Shape
<1>7. ASSUME NEW t \in Servers PROVE Line(t)'
  <2>1. CASE t = s
    <3>1. connected[s] = FALSE
      BY <1>1, LineAt
    <3>2. LineOK(program, registration[s] + 1, TRUE, ids[s], heard[s], held[s],
                 Append(toServer[s], Subscribe(registration[s] + 1)), toClient[s])
      BY <3>1, LineAt, LineRegister
    <3>3. /\ registration'[s] = registration[s] + 1 /\ connected'[s] = TRUE
          /\ toServer'[s] = Append(toServer[s], Subscribe(registration[s] + 1))
      BY <1>1, <1>2 DEF TypesOK, Shape
    <3> QED BY <1>1, <2>1, <3>2, <3>3 DEF Line
  <2>2. CASE t # s
    <3>1. /\ registration'[t] = registration[t] /\ connected'[t] = connected[t]
          /\ toServer'[t] = toServer[t]
      BY <1>1, <1>2, <2>2 DEF TypesOK, Shape
    <3> QED BY <1>1, <3>1, LineKept
  <2> QED BY <2>1, <2>2
<1>8. FixedPartner' /\ CleanExit'
  BY <1>1 DEF FixedPartner, CleanExit
<1> QED BY <1>4, <1>6, <1>7, <1>8 DEF SubscriptionsInv, LinesOK

\* A server is missed: its ids and the answers of its registration are gone.
LEMMA DeregisterStep ==
  ASSUME SubscriptionsInv, NEW s \in Servers, Deregister(s)
  PROVE  SubscriptionsInv'
<1>1. /\ program \in Registering /\ ended = "no" /\ ended' = ended /\ program' = program
      /\ closing' = closing /\ connected[s]
      /\ connected' = [connected EXCEPT ![s] = FALSE]
      /\ ids' = [ids EXCEPT ![s] = 0]
      /\ toClient' = [toClient EXCEPT ![s] = <<>>]
      /\ registration' = registration /\ heard' = heard /\ toServer' = toServer
      /\ up' = up /\ held' = held
  BY DEF Deregister, Running, server, Forgotten
<1>2. TypesOK /\ Shape
  BY DEF SubscriptionsInv
<1>3. TypesOK'
  BY <1>1, <1>2 DEF TypesOK
<1>4. Shape'
  <2>1. <<>> \in Seq(AnswerSet)
    BY EmptySeq
  <2> HIDE DEF RequestSet, AnswerSet
  <2> QED BY <1>1, <1>2, <2>1 DEF Shape
<1>5. ASSUME NEW t \in Servers PROVE Line(t)'
  <2>1. CASE t = s
    <3>1. LineOK(program, registration[s], FALSE, 0, heard[s], held[s],
                 toServer[s], <<>>)
      BY LineAt, LineDeregister
    <3>2. connected'[s] = FALSE /\ ids'[s] = 0 /\ toClient'[s] = <<>>
      BY <1>1, <1>2 DEF TypesOK, Shape
    <3> QED BY <1>1, <2>1, <3>1, <3>2 DEF Line
  <2>2. CASE t # s
    <3>1. connected'[t] = connected[t] /\ ids'[t] = ids[t] /\ toClient'[t] = toClient[t]
      BY <1>1, <1>2, <2>2 DEF TypesOK, Shape
    <3> QED BY <1>1, <3>1, LineKept
  <2> QED BY <2>1, <2>2
<1>6. FixedPartner' /\ CleanExit'
  BY <1>1 DEF FixedPartner, CleanExit
<1> QED BY <1>3, <1>4, <1>5, <1>6 DEF SubscriptionsInv, LinesOK

\* What the steps of a server leave to be shown: the line to that server.
LEMMA ServerLine ==
  ASSUME SubscriptionsInv, NEW s \in Servers, NEW hs \in SUBSET Nat,
         NEW ts \in Seq(RequestSet), NEW tc \in Seq(AnswerSet),
         ended = "no", UNCHANGED client, up' \in [Servers -> BOOLEAN],
         held' = [held EXCEPT ![s] = hs],
         toServer' = [toServer EXCEPT ![s] = ts],
         toClient' = [toClient EXCEPT ![s] = tc],
         LineOK(program, registration[s], connected[s], ids[s], heard[s],
                hs, ts, tc)
  PROVE  SubscriptionsInv'
<1>1. /\ program' = program /\ registration' = registration /\ connected' = connected
      /\ ids' = ids /\ closing' = closing /\ ended' = "no" /\ heard' = heard
  BY DEF client
<1>2. TypesOK /\ Shape
  BY DEF SubscriptionsInv
<1>3. TypesOK'
  BY <1>1, <1>2 DEF TypesOK
<1> HIDE DEF RequestSet, AnswerSet
<1>4. Shape'
  BY <1>1, <1>2 DEF Shape
<1>5. ASSUME NEW t \in Servers PROVE Line(t)'
  <2>1. CASE t = s
    <3>1. held'[s] = hs /\ toServer'[s] = ts /\ toClient'[s] = tc
      BY <1>2 DEF Shape
    <3> QED BY <1>1, <2>1, <3>1 DEF Line
  <2>2. CASE t # s
    <3>1. held'[t] = held[t] /\ toServer'[t] = toServer[t] /\ toClient'[t] = toClient[t]
      BY <1>2, <2>2 DEF Shape
    <3> QED BY <1>1, <3>1, LineKept
  <2> QED BY <2>1, <2>2
<1>6. FixedPartner' /\ CleanExit'
  BY <1>1 DEF SubscriptionsInv, FixedPartner, CleanExit
<1> QED BY <1>3, <1>4, <1>5, <1>6 DEF SubscriptionsInv, LinesOK

\* A server answers the next request.
LEMMA HandleStep ==
  ASSUME SubscriptionsInv, NEW s \in Servers, ended = "no", Handle(s)
  PROVE  SubscriptionsInv'
<1> DEFINE m == Head(toServer[s])
           as == IF m.kind = "subscribe" THEN <<Subscribed(m.id)>>
                 ELSE (IF m.id \in held[s] THEN <<Unsubscribed(m.id, "subscriber")>> ELSE <<>>)
                      \o <<Unsubscribed(m.id, "closer")>>
           bs == Reaching(connected[s], registration[s], m.id, as)
           hs == IF m.kind = "subscribe" THEN held[s] \cup {m.id} ELSE held[s] \ {m.id}
<1>1. /\ toServer[s] # <<>> /\ UNCHANGED client /\ up' = up
      /\ held' = [held EXCEPT ![s] = hs]
      /\ toClient' = [toClient EXCEPT ![s] = toClient[s] \o bs]
      /\ toServer' = [toServer EXCEPT ![s] = Tail(toServer[s])]
  BY DEF Handle, Deliver, Answers, Reaching
<1> HIDE DEF as, bs, hs
<1>2. /\ m \in RequestSet /\ Tail(toServer[s]) \in Seq(RequestSet)
      /\ RequestOK(program, registration[s], heard[s], m)
  <2>1. toServer[s] # <<>>
    BY <1>1
  <2>2. /\ Head(toServer[s]) \in RequestSet /\ Tail(toServer[s]) \in Seq(RequestSet)
        /\ RequestOK(program, registration[s], heard[s], Head(toServer[s]))
    BY <2>1, LineAt, LineTaken
  <2> QED BY <2>2 DEF m
<1>3. up' \in [Servers -> BOOLEAN]
  BY <1>1 DEF SubscriptionsInv, TypesOK
<1>4. m.id \in Nat /\ m.kind \in {"subscribe", "unsubscribe"}
  BY <1>2 DEF RequestSet
<1> HIDE DEF m
<1>5. hs \in SUBSET Nat
  BY <1>4, LineAt DEF hs
<1>6. /\ toClient[s] \o bs \in Seq(AnswerSet)
      /\ LineOK(program, registration[s], connected[s], ids[s], heard[s],
                hs, Tail(toServer[s]), toClient[s] \o bs)
  <2>1. CASE m.kind = "subscribe"
    <3>1. as = <<Subscribed(m.id)>> /\ hs = held[s] \cup {m.id}
      BY <2>1 DEF as, hs
    <3>2. Head(toServer[s]).kind = "subscribe" /\ Head(toServer[s]).id = m.id
      BY <2>1 DEF m
    <3>3. /\ Reaching(connected[s], registration[s], m.id, <<Subscribed(m.id)>>)
               \in Seq(AnswerSet)
          /\ LineOK(program, registration[s], connected[s], ids[s], heard[s],
                    held[s] \cup {m.id}, Tail(toServer[s]),
                    toClient[s] \o Reaching(connected[s], registration[s], m.id,
                                            <<Subscribed(m.id)>>))
      <4>1. toServer[s] # <<>>
        BY <1>1
      <4> QED BY <3>2, <4>1, LineAt, LineSubscribed
    <3>4. bs = Reaching(connected[s], registration[s], m.id, <<Subscribed(m.id)>>)
      BY <3>1 DEF bs
    <3>5. toClient[s] \o bs \in Seq(AnswerSet)
      BY <3>3, <3>4, LineAt, ConcatProperties
    <3> QED BY <3>1, <3>3, <3>4, <3>5
  <2>2. CASE m.kind # "subscribe"
    <3>1. /\ as \in Seq(AnswerSet)
          /\ \A j \in 1..Len(as) : /\ as[j].kind = "unsubscribed" /\ as[j].id = m.id
                                   /\ m.id = 0 => as[j].to = "closer"
      <4>1. /\ Unsubscribed(m.id, "subscriber") \in AnswerSet
            /\ Unsubscribed(m.id, "closer") \in AnswerSet
            /\ Unsubscribed(m.id, "subscriber").kind = "unsubscribed"
            /\ Unsubscribed(m.id, "closer").kind = "unsubscribed"
            /\ Unsubscribed(m.id, "subscriber").id = m.id
            /\ Unsubscribed(m.id, "closer").id = m.id
            /\ Unsubscribed(m.id, "closer").to = "closer"
        BY <1>4 DEF Unsubscribed, AnswerSet
      <4>2. m.id \in held[s] => m.id # 0
        BY LineAt DEF LineOK
      <4>3. CASE m.id \in held[s]
        <5>1. as = <<Unsubscribed(m.id, "subscriber")>> \o <<Unsubscribed(m.id, "closer")>>
          BY <2>2, <4>3 DEF as
        <5>2. /\ as \in Seq(AnswerSet) /\ Len(as) = 2
              /\ as[1] = Unsubscribed(m.id, "subscriber")
              /\ as[2] = Unsubscribed(m.id, "closer")
          BY <4>1, <5>1, ConcatProperties
        <5>3. \A j \in 1..Len(as) : j = 1 \/ j = 2
          BY <5>2
        <5> HIDE DEF as
        <5> QED BY <4>1, <4>2, <4>3, <5>2, <5>3
      <4>4. CASE m.id \notin held[s]
        <5>1. as = <<>> \o <<Unsubscribed(m.id, "closer")>>
          BY <2>2, <4>4 DEF as
        <5>2. as = <<Unsubscribed(m.id, "closer")>>
          BY <5>1
        <5> QED BY <4>1, <5>2
      <4> QED BY <4>3, <4>4
    <3>2. hs = held[s] \ {m.id}
      BY <2>2 DEF hs
    <3>3. /\ m.id = 0 => program = "window"
          /\ m.id = registration[s] /\ registration[s] > 0 => heard[s] = registration[s]
      BY <1>2, <2>2 DEF RequestOK
    <3>4. LineOK(program, registration[s], connected[s], ids[s], heard[s],
                 held[s], Tail(toServer[s]), toClient[s])
      BY <1>1, LineAt, LineTaken
    <3>5. \A j \in 1..Len(as) :
            /\ as[j].kind = "unsubscribed" /\ as[j].id = m.id
            /\ m.id = 0 => program = "window" /\ as[j].to = "closer"
      BY <3>1, <3>3
    <3>6. /\ toClient[s] \o Reaching(connected[s], registration[s], m.id, as) \in Seq(AnswerSet)
          /\ LineOK(program, registration[s], connected[s], ids[s], heard[s],
                    held[s] \ {m.id}, Tail(toServer[s]),
                    toClient[s] \o Reaching(connected[s], registration[s], m.id, as))
      BY <1>2, <1>4, <3>1, <3>3, <3>4, <3>5, LineAt, LineUnsubscribed
    <3> QED BY <3>2, <3>6 DEF bs
  <2> QED BY <2>1, <2>2
<1> QED BY <1>1, <1>2, <1>3, <1>5, <1>6, ServerLine

\* Another program gives a subscription back.
LEMMA OtherUnsubscribesStep ==
  ASSUME SubscriptionsInv, NEW s \in Servers, ended = "no", OtherUnsubscribes(s)
  PROVE  SubscriptionsInv'
<1>1. PICK i \in held[s] :
        /\ held' = [held EXCEPT ![s] = held[s] \ {i}]
        /\ toClient' = [toClient EXCEPT ![s] = toClient[s] \o
             Reaching(connected[s], registration[s], i, <<Unsubscribed(i, "subscriber")>>)]
  BY DEF OtherUnsubscribes, Deliver, Reaching
<1>2. UNCHANGED client /\ up' = up /\ toServer' = toServer
  BY DEF OtherUnsubscribes
<1>3. i \in Nat /\ i # 0
  BY LineAt DEF LineOK
<1> DEFINE as == <<Unsubscribed(i, "subscriber")>>
           bs == Reaching(connected[s], registration[s], i, as)
<1>4. /\ as \in Seq(AnswerSet)
      /\ \A j \in 1..Len(as) : /\ as[j].kind = "unsubscribed" /\ as[j].id = i
                               /\ i = 0 => program = "window" /\ as[j].to = "closer"
  <2>1. /\ Unsubscribed(i, "subscriber") \in AnswerSet
        /\ Unsubscribed(i, "subscriber").kind = "unsubscribed"
        /\ Unsubscribed(i, "subscriber").id = i
    BY <1>3 DEF Unsubscribed, AnswerSet
  <2> QED BY <1>3, <2>1
<1> HIDE DEF as
<1>5. i = registration[s] /\ registration[s] > 0
        => heard[s] = registration[s] \/ registration[s] \in held[s]
  OBVIOUS
<1>6. /\ toClient[s] \o bs \in Seq(AnswerSet)
      /\ LineOK(program, registration[s], connected[s], ids[s], heard[s],
                held[s] \ {i}, toServer[s], toClient[s] \o bs)
  BY <1>3, <1>4, <1>5, LineAt, LineUnsubscribed
<1>7. /\ held[s] \ {i} \in SUBSET Nat /\ up' \in [Servers -> BOOLEAN]
      /\ toServer[s] \in Seq(RequestSet)
  BY <1>2, LineAt DEF SubscriptionsInv, TypesOK
<1>8. /\ toServer' = [toServer EXCEPT ![s] = toServer[s]]
      /\ toClient' = [toClient EXCEPT ![s] = toClient[s] \o bs]
  BY <1>1, <1>2 DEF as, SubscriptionsInv, Shape
<1> HIDE DEF bs
<1> QED BY <1>1, <1>2, <1>6, <1>7, <1>8, ServerLine

\* A server crashes.
LEMMA CrashStep ==
  ASSUME SubscriptionsInv, NEW s \in Servers, ended = "no", Crash(s)
  PROVE  SubscriptionsInv'
<1>1. /\ UNCHANGED client /\ toClient' = toClient
      /\ up' = [up EXCEPT ![s] = FALSE]
      /\ held' = [held EXCEPT ![s] = {}]
      /\ toServer' = toServer \/ toServer' = [toServer EXCEPT ![s] = <<>>]
  BY DEF Crash
<1>2. PICK ts \in {toServer[s], <<>>} : toServer' = [toServer EXCEPT ![s] = ts]
  <2>1. toServer = [toServer EXCEPT ![s] = toServer[s]]
    BY DEF SubscriptionsInv, Shape
  <2> QED BY <1>1, <2>1
<1>3. /\ ts \in Seq(RequestSet) /\ toClient[s] \in Seq(AnswerSet)
      /\ toClient' = [toClient EXCEPT ![s] = toClient[s]]
      /\ up' \in [Servers -> BOOLEAN]
  BY <1>1, LineAt, EmptySeq DEF SubscriptionsInv, Shape, TypesOK
<1>4. LineOK(program, registration[s], connected[s], ids[s], heard[s], {}, ts, toClient[s])
  BY LineAt, LineCrash
<1>5. {} \in SUBSET Nat
  OBVIOUS
<1> QED BY <1>1, <1>2, <1>3, <1>4, <1>5, ServerLine

\* A server is started again.
LEMMA StartStep ==
  ASSUME SubscriptionsInv, NEW s \in Servers, ended = "no", Start(s)
  PROVE  SubscriptionsInv'
<1>1. /\ UNCHANGED client /\ UNCHANGED network /\ held' = held
      /\ up' = [up EXCEPT ![s] = TRUE]
  BY DEF Start
<1>2. /\ held' = [held EXCEPT ![s] = held[s]]
      /\ toServer' = [toServer EXCEPT ![s] = toServer[s]]
      /\ toClient' = [toClient EXCEPT ![s] = toClient[s]]
      /\ up' \in [Servers -> BOOLEAN]
  BY <1>1 DEF network, SubscriptionsInv, Shape, TypesOK
<1> QED BY <1>1, <1>2, LineAt, ServerLine

\* The user closes the program.
LEMMA CloseStep ==
  ASSUME SubscriptionsInv, Close
  PROVE  SubscriptionsInv'
<1>1. /\ program # "order" /\ ended = "no" /\ closing' = TRUE
      /\ ended' = IF program = "transaction" /\ ids = Nothing THEN "answers" ELSE "no"
      /\ toServer' = [s \in Servers |-> toServer[s] \o Requests(s)]
      /\ program' = program /\ registration' = registration /\ connected' = connected
      /\ ids' = ids /\ heard' = heard /\ toClient' = toClient /\ up' = up /\ held' = held
  BY DEF Close, Running, server
<1>2. TypesOK /\ Shape /\ FixedPartner
  BY DEF SubscriptionsInv
<1>3. TypesOK'
  BY <1>1, <1>2 DEF TypesOK
<1>4. ASSUME NEW s \in Servers
      PROVE  /\ toServer[s] \o Requests(s) \in Seq(RequestSet)
             /\ LineOK(program, registration[s], connected[s], ids[s], heard[s],
                       held[s], toServer[s] \o Requests(s), toClient[s])
  <2>1. \/ Requests(s) = <<>>
        \/ Requests(s) = <<Unsubscribe(ids[s])>> /\ (ids[s] = 0 => program = "window")
    <3>1. CASE program \in Registering
      BY <3>1 DEF Requests, ExitRequests, Registering
    <3>2. CASE program = "window"
      BY <3>2 DEF Requests, WindowRequests, Registering
    <3>3. CASE program \in {"page", "console"}
      BY <3>3 DEF Requests, GuiRequests, Registering
    <3> QED BY <1>1, <1>2, <3>1, <3>2, <3>3 DEF TypesOK, Programs
  <2>2. toServer[s] \o <<>> = toServer[s]
    BY LineAt, ConcatEmptySeq
  <2>3. CASE Requests(s) = <<>>
    BY <2>2, <2>3, LineAt
  <2>4. CASE Requests(s) = <<Unsubscribe(ids[s])>> /\ (ids[s] = 0 => program = "window")
    BY <2>4, LineAt, LineAsk
  <2> QED BY <2>1, <2>3, <2>4
<1>5. Shape'
  <2> HIDE DEF RequestSet, AnswerSet
  <2> QED BY <1>1, <1>2, <1>4 DEF Shape
<1>6. ASSUME NEW s \in Servers PROVE Line(s)'
  BY <1>1, <1>4 DEF Line
<1>7. FixedPartner'
  BY <1>1, <1>2 DEF FixedPartner
<1>8. CleanExit'
  <2> SUFFICES ASSUME ended' = "answers", NEW s \in Servers, connected[s],
                      heard[s] = registration[s]
               PROVE  heard[s] \notin held[s]
    BY <1>1 DEF CleanExit
  <2>1. ids[s] = 0
    BY <1>1 DEF Nothing
  <2> QED BY <2>1, LineAt DEF LineOK
<1> QED BY <1>3, <1>5, <1>6, <1>7, <1>8 DEF SubscriptionsInv, LinesOK

\* The timer ends the program.
LEMMA TimeoutStep ==
  ASSUME SubscriptionsInv, Timeout
  PROVE  SubscriptionsInv'
<1>1. /\ ended' = "timer" /\ UNCHANGED <<program, registration, connected, ids, closing, heard>>
      /\ toServer' = toServer /\ toClient' = toClient /\ up' = up /\ held' = held
  BY DEF Timeout, network, server
<1>2. TypesOK' /\ FixedPartner' /\ CleanExit'
  BY <1>1 DEF SubscriptionsInv, TypesOK, FixedPartner, CleanExit
<1>3. Shape'
  <2> HIDE DEF RequestSet, AnswerSet
  <2> QED BY <1>1 DEF SubscriptionsInv, Shape
<1>4. ASSUME NEW s \in Servers PROVE Line(s)'
  BY <1>1, LineKept
<1> QED BY <1>2, <1>3, <1>4 DEF SubscriptionsInv, LinesOK

\* The program hears an answer, and may end with it.
LEMMA HearStep ==
  ASSUME SubscriptionsInv, NEW s \in Servers, Hear(s)
  PROVE  SubscriptionsInv'
<1> DEFINE a == Head(toClient[s])
           id == IF a.kind = "subscribed" THEN a.id ELSE Left(s, a)[s]
           h == IF a.kind = "subscribed" THEN a.id ELSE heard[s]
<1>1. /\ ended = "no" /\ toClient[s] # <<>>
      /\ toClient' = [toClient EXCEPT ![s] = Tail(toClient[s])]
      /\ \/ /\ a.kind = "subscribed" /\ ended' = "no"
            /\ ids' = [ids EXCEPT ![s] = a.id] /\ heard' = [heard EXCEPT ![s] = a.id]
         \/ /\ a.kind = "unsubscribed" /\ heard' = heard
            /\ ids' = Left(s, a) /\ ended' = IF Ends(s, a) THEN "answers" ELSE "no"
      /\ program' = program /\ registration' = registration /\ connected' = connected
      /\ closing' = closing /\ toServer' = toServer /\ up' = up /\ held' = held
  BY DEF Hear, Running, HearSubscribed, HearUnsubscribed, server
<1>2. TypesOK /\ Shape /\ FixedPartner
  BY DEF SubscriptionsInv
<1>3. /\ a \in AnswerSet /\ Tail(toClient[s]) \in Seq(AnswerSet)
      /\ connected[s] /\ registration[s] > 0
      /\ AnswerOK(program, registration[s], held[s], a)
      /\ LineOK(program, registration[s], connected[s], ids[s], heard[s], held[s],
                toServer[s], Tail(toClient[s]))
      /\ a.kind = "subscribed" =>
           LineOK(program, registration[s], connected[s], a.id, a.id, held[s],
                  toServer[s], Tail(toClient[s]))
      /\ a.kind = "unsubscribed" /\ a.id = ids[s] =>
           LineOK(program, registration[s], connected[s], 0, heard[s], held[s],
                  toServer[s], Tail(toClient[s]))
  BY <1>1, LineAt, LineHear
<1>4. a.id \in Nat /\ a.kind \in {"subscribed", "unsubscribed"}
  BY <1>3 DEF AnswerSet
<1> HIDE DEF a
<1>5. \/ Left(s, a) = ids
      \/ Left(s, a) = [ids EXCEPT ![s] = 0] /\ a.id = ids[s]
  BY DEF Left, ManagerForgets, DetectorForgets
<1>6. ids' = [ids EXCEPT ![s] = id] /\ heard' = [heard EXCEPT ![s] = h] /\ id \in Nat /\ h \in Nat
  <2>1. CASE a.kind = "subscribed"
    BY <1>1, <1>4, <2>1
  <2>2. CASE a.kind = "unsubscribed"
    <3>1. h = heard[s] /\ heard' = [heard EXCEPT ![s] = h] /\ h \in Nat
      BY <1>1, <1>2, <2>2 DEF Shape
    <3>2. ids' = [ids EXCEPT ![s] = Left(s, a)[s]] /\ Left(s, a)[s] \in Nat
      BY <1>1, <1>2, <1>5, <2>2 DEF Shape
    <3> QED BY <2>2, <3>1, <3>2
  <2> QED BY <1>4, <2>1, <2>2
<1>7. LineOK(program, registration[s], connected[s], id, h, held[s], toServer[s],
             Tail(toClient[s]))
  <2>1. CASE a.kind = "subscribed"
    BY <1>3, <2>1
  <2>2. CASE a.kind = "unsubscribed"
    <3>1. h = heard[s] /\ (id = ids[s] \/ (id = 0 /\ a.id = ids[s]))
      BY <1>2, <1>5, <2>2 DEF Shape
    <3> QED BY <1>3, <2>2, <3>1
  <2> QED BY <1>4, <2>1, <2>2
<1> HIDE DEF id, h
<1>8. TypesOK'
  BY <1>1, <1>2 DEF TypesOK
<1>9. Shape'
  <2> HIDE DEF RequestSet, AnswerSet
  <2> QED BY <1>1, <1>2, <1>3, <1>6 DEF Shape
<1>10. ASSUME NEW t \in Servers PROVE Line(t)'
  <2>1. CASE t = s
    <3>1. ids'[s] = id /\ heard'[s] = h /\ toClient'[s] = Tail(toClient[s])
      BY <1>1, <1>2, <1>6 DEF Shape
    <3> QED BY <1>1, <1>7, <2>1, <3>1 DEF Line
  <2>2. CASE t # s
    <3>1. ids'[t] = ids[t] /\ heard'[t] = heard[t] /\ toClient'[t] = toClient[t]
      BY <1>1, <1>2, <1>6, <2>2 DEF Shape
    <3> QED BY <1>1, <3>1, LineKept
  <2> QED BY <2>1, <2>2
<1>11. FixedPartner'
  BY <1>1, <1>2 DEF FixedPartner
<1>12. CleanExit'
  <2> SUFFICES ASSUME ended' = "answers", NEW t \in Servers, connected[t],
                      heard'[t] = registration[t]
               PROVE  heard'[t] \notin held[t]
    BY <1>1 DEF CleanExit
  <2>1. a.kind = "unsubscribed" /\ Ends(s, a) /\ ids' = Left(s, a)
    BY <1>1
  <2>2. CASE program \in Registering
    <3>1. ids' = Nothing
      BY <2>1, <2>2 DEF Ends, ManagerEnds, DetectorEnds, Registering
    <3>2. ids'[t] = 0
      BY <3>1 DEF Nothing
    <3>3. Line(t)'
      BY <1>10
    <3> QED BY <1>1, <3>2, <3>3 DEF Line, LineOK
  <2>3. CASE program \notin Registering
    <3>1. t = s
      BY <1>2, <1>3, <2>3 DEF FixedPartner
    <3>2. a.id # 0
      <4>1. CASE program \in {"page", "console"}
        BY <1>3, <4>1 DEF AnswerOK
      <4>2. CASE program \in {"window", "order"}
        <5>1. a.to = "subscriber"
          BY <2>1, <4>2 DEF Ends, WindowEnds, OrderEnds, Registering
        <5> QED BY <1>3, <5>1 DEF AnswerOK
      <4> QED BY <1>2, <2>3, <4>1, <4>2 DEF TypesOK, Programs
    <3>3. registration[s] \notin held[s]
      BY <1>3, <2>1, <3>2 DEF AnswerOK
    <3> QED BY <3>1, <3>3
  <2> QED BY <2>2, <2>3
<1> QED BY <1>8, <1>9, <1>10, <1>11, <1>12 DEF SubscriptionsInv, LinesOK

-----------------------------------------------------------------------------
(* Theorems *)

\* SubscriptionsInv is kept by every step.
LEMMA InvNext == SubscriptionsInv /\ [Next]_vars => SubscriptionsInv'
<1> SUFFICES ASSUME SubscriptionsInv, [Next]_vars PROVE SubscriptionsInv'
  OBVIOUS
<1>1. CASE Close
  BY <1>1, CloseStep
<1>2. CASE Timeout
  BY <1>2, TimeoutStep
<1>3. ASSUME NEW s \in Servers, Register(s) \/ Deregister(s) \/ Hear(s)
      PROVE  SubscriptionsInv'
  BY <1>3, RegisterStep, DeregisterStep, HearStep
<1>4. ASSUME NEW s \in Servers, ServerStep(s) PROVE SubscriptionsInv'
  BY <1>4, HandleStep, OtherUnsubscribesStep, CrashStep, StartStep DEF ServerStep, Running
<1>5. CASE UNCHANGED vars
  <2>1. UNCHANGED <<client, network, server>>
    BY <1>5 DEF vars
  <2>2. TypesOK' /\ FixedPartner' /\ CleanExit'
    BY <2>1 DEF client, network, server, SubscriptionsInv, TypesOK, FixedPartner, CleanExit
  <2>3. Shape'
    <3> HIDE DEF RequestSet, AnswerSet
    <3> QED BY <2>1 DEF client, network, server, SubscriptionsInv, Shape
  <2>4. ASSUME NEW s \in Servers PROVE Line(s)'
    BY <2>1, LineKept DEF client, network, server
  <2> QED BY <2>2, <2>3, <2>4 DEF SubscriptionsInv, LinesOK
<1> QED BY <1>1, <1>2, <1>3, <1>4, <1>5 DEF Next

\* Programs and servers agree about every registration, however often servers
\* crash or are missed and whoever gives subscriptions back.
THEOREM SubscriptionsCorrect == Spec => []SubscriptionsInv
<1> QED BY InvInit, InvNext, PTL DEF Spec

\* TypeOK for any servers and bounds: in particular, an id is kept only of a
\* server that is registered, and only of its current registration.
THEOREM SubscriptionsTypeCorrect == Spec => []TypeOK
<1>1. SubscriptionsInv => TypeOK
  <2> SUFFICES ASSUME SubscriptionsInv PROVE TypeOK
    OBVIOUS
  <2>1. ASSUME NEW s \in Servers
        PROVE  /\ ids[s] \in {0} \cup IF connected[s] THEN {registration[s]} ELSE {}
               /\ heard[s] \in 0..registration[s] /\ held[s] \subseteq 1..registration[s]
    BY LineAt DEF LineOK
  <2> QED BY <2>1 DEF SubscriptionsInv, TypesOK, TypeOK
<1> QED BY <1>1, SubscriptionsCorrect, PTL

\* CleanExit for any servers and bounds: a program that answers have ended
\* leaves no subscription that it has heard of on a connection that stands,
\* whichever of the six ways it gives subscriptions back.
THEOREM CleanExitCorrect == Spec => []CleanExit
<1>1. SubscriptionsInv => CleanExit
  BY DEF SubscriptionsInv
<1> QED BY <1>1, SubscriptionsCorrect, PTL
=============================================================================
