----------------------------- MODULE StoresProof -----------------------------
(***************************************************************************)
(* Proofs about the servers that keep a copy of their database, for any    *)
(* number of users and values, any number of rows of the two database      *)
(* servers, and any number of changes and crashes.                         *)
(*                                                                         *)
(* What a subscriber has and the announcements still on their way to him,  *)
(* taken in order, make a line of copies that ends in the copy of the      *)
(* server.  In one life of the server versions grow along that line, which *)
(* is why a version that still matches means that nothing was changed.     *)
(***************************************************************************)
EXTENDS Stores, FiniteSetTheorems, TLAPS

\* a table with one row for each name
Content(R) == R \subseteq Names \X Values /\ \A a, b \in R : a[1] = b[1] => a = b

AtMostOne(S) == \A a, b \in S : a = b

Messages ==
  [full: {TRUE}, copy: Copies]
  \cup [full: {FALSE}, name: Names, new: Values \cup {none}, version: Nat]

Requests ==
  [kind: {"insert", "update", "delete"}, name: Names, new: Values \cup {none},
   checked: {FALSE}]
  \cup [kind: {"insert", "update", "delete"}, name: Names, new: Values \cup {none},
        checked: {TRUE}, version: Nat, seen: Partial, life: Nat]

\* nothing is written where a row is deleted; an enable server deletes nothing
KindFits(r) == /\ r.kind = "delete" <=> r.new = none
               /\ backend = "rocks" => r.kind = "update"

TypeInv ==
  /\ backend \in Backends
  /\ Content(rows) /\ stored \in Nat
  /\ AtMostOne(txn) /\ \A t \in txn : t.stored \in Nat
  /\ copy \in Copies
  /\ life \in 1..(MaxCrashes + 1)
  /\ connected \in [Users -> BOOLEAN] /\ channel \in [Users -> Seq(Messages)]
  /\ \A u \in Users : connected[u] \/ channel[u] = <<>>
  /\ view \in [Users -> SUBSET Copies] /\ \A u \in Users : AtMostOne(view[u])
  /\ told \in [Users -> Nat] /\ \A u \in Users : told[u] \in 0..life
  /\ request \in [Users -> SUBSET Requests]
  /\ \A u \in Users : AtMostOne(request[u]) /\ \A r \in request[u] : KindFits(r)

\* The copy is what the database has or will have after the open transaction.
CopyMatches ==
  /\ txn = {} => /\ rows = RowsOf(copy.data)
                 /\ backend = "rocks" => stored = copy.versions["all"]
  /\ \A t \in txn : /\ t.rows = RowsOf(copy.data)
                    /\ backend = "rocks" => t.stored = copy.versions["all"]

AllIsVersion == backend # "table" => copy.versions["all"] = copy.version

\* Where there is one version for everything: what somebody knows from this life
\* of a server with copy c is older than c, or it is c.
Fits(c, v, data) ==
  v <= c.versions["all"] /\ (v = c.versions["all"] => data = c.data)

\* What a subscriber of a server of kind b makes of a message.
Apply(b, S, m) ==
  IF m.full THEN {m.copy}
  ELSE {[data |-> Set(d.data, m.name, m.new), version |-> m.version,
         versions |-> [d.versions EXCEPT ![IF b = "table" THEN m.name ELSE "all"] =
                         m.version]] : d \in S}

\* h[i] is what a subscriber who has S has after i of the messages q; at the end
\* it is the copy c.
Leads(b, S, q, h, c) ==
  /\ h \in [0..Len(q) -> SUBSET Copies] /\ h[0] = S /\ h[Len(q)] = {c}
  /\ \A i \in 1..Len(q) :
       /\ h[i] = Apply(b, h[i - 1], q[i]) /\ h[i] # {}
       /\ b # "table" => \A d \in h[i] : Fits(c, d.versions["all"], d.data)

StreamsLead == \A u \in Users :
  connected[u] => \E h : Leads(backend, view[u], channel[u], h, copy)

ViewsFit == \A u \in Users :
  /\ view[u] = {} => told[u] = 0
  /\ backend # "table" /\ told[u] = life =>
       \A c \in view[u] : Fits(copy, c.versions["all"], c.data)

RequestsFit == \A u \in Users : \A r \in request[u] : r.checked =>
  /\ r.life \in 0..life
  /\ backend # "table" /\ r.life = life => Fits(copy, r.version, r.seen)

StoresInv == /\ TypeInv /\ CopyMatches /\ AllIsVersion
             /\ StreamsLead /\ ViewsFit /\ RequestsFit

-----------------------------------------------------------------------------
(* Copies and rows *)

LEMMA KeyType == \A n \in Names : Key(n) \in Keys
  BY DEF Key, Keys

LEMMA SetType ==
  ASSUME NEW data \in Partial, NEW n \in Names, NEW new \in Values \cup {none}
  PROVE  /\ Set(data, n, new) \in Partial
         /\ new = none =>
              /\ DOMAIN Set(data, n, new) = DOMAIN data \ {n}
              /\ \A m \in DOMAIN data \ {n} : Set(data, n, new)[m] = data[m]
         /\ new # none =>
              /\ DOMAIN Set(data, n, new) = DOMAIN data \cup {n}
              /\ Set(data, n, new)[n] = new
              /\ \A m \in DOMAIN data \ {n} : Set(data, n, new)[m] = data[m]
  <1>1. PICK N : N \in SUBSET Names /\ data \in [N -> Values]
    BY DEF Partial
  <1>2. CASE new = none
    <2>1. Set(data, n, new) \in [N \ {n} -> Values] /\ N \ {n} \in SUBSET Names
      BY <1>1, <1>2 DEF Set
    <2> QED
      BY <1>1, <1>2, <2>1 DEF Set, Partial
  <1>3. CASE new # none
    <2>1. /\ Set(data, n, new) \in [N \cup {n} -> Values]
          /\ N \cup {n} \in SUBSET Names
      BY <1>1, <1>3 DEF Set
    <2> QED
      BY <1>1, <1>3, <2>1 DEF Set, Partial
  <1> QED
    BY <1>2, <1>3

LEMMA UpdateType ==
  ASSUME NEW c \in Copies, NEW n \in Names, NEW new \in Values \cup {none}, NEW v \in Nat
  PROVE  /\ Update(c, n, new, v) \in Copies
         /\ Update(c, n, new, v).data = Set(c.data, n, new)
         /\ Update(c, n, new, v).version = v
         /\ Update(c, n, new, v).versions[Key(n)] = v
         /\ backend # "table" => Update(c, n, new, v).versions["all"] = v
  <1>1. c.data \in Partial /\ c.versions \in [Keys -> Nat]
    BY DEF Copies
  <1>2. Set(c.data, n, new) \in Partial
    BY <1>1, SetType
  <1>3. [c.versions EXCEPT ![Key(n)] = v] \in [Keys -> Nat]
        /\ [c.versions EXCEPT ![Key(n)] = v][Key(n)] = v
    BY <1>1, KeyType
  <1>4. backend # "table" => Key(n) = "all"
    BY DEF Key
  <1> QED
    BY <1>2, <1>3, <1>4 DEF Update, Copies

LEMMA RequestType ==
  ASSUME NEW r \in Requests
  PROVE  /\ r.name \in Names /\ r.new \in Values \cup {none} /\ r.checked \in BOOLEAN
         /\ r.checked => r.version \in Nat
  <1>1. CASE r \in [kind: {"insert", "update", "delete"}, name: Names,
                    new: Values \cup {none}, checked: {FALSE}]
    BY <1>1
  <1>2. CASE r \in [kind: {"insert", "update", "delete"}, name: Names,
                    new: Values \cup {none}, checked: {TRUE}, version: Nat, seen: Partial,
                    life: Nat]
    BY <1>2
  <1> QED
    BY <1>1, <1>2 DEF Requests

LEMMA RowsOfContent ==
  ASSUME NEW data \in Partial
  PROVE  Content(RowsOf(data))
  <1>1. PICK N : N \in SUBSET Names /\ data \in [N -> Values]
    BY DEF Partial
  <1> QED
    BY <1>1 DEF Content, RowsOf

LEMMA LoadType ==
  ASSUME NEW R, Content(R)
  PROVE  /\ LoadRows(R).data \in Partial /\ RowsOf(LoadRows(R).data) = R
         /\ LoadRows(R) \in Copies
         /\ LoadRows(R).version = 0 /\ LoadRows(R).versions = [key \in Keys |-> 0]
  <1> DEFINE N == {r[1] : r \in R}
             Value(n) == CHOOSE x \in Values : <<n, x>> \in R
             data == [n \in N |-> Value(n)]
  <1>1. N \in SUBSET Names
    BY DEF Content
  <1>2. ASSUME NEW n \in N
        PROVE  Value(n) \in Values /\ <<n, Value(n)>> \in R
    <2>1. PICK r \in R : n = r[1]
      OBVIOUS
    <2>2. r[2] \in Values /\ r = <<n, r[2]>>
      BY <2>1 DEF Content
    <2>3. \E x \in Values : <<n, x>> \in R
      BY <2>2
    <2> QED
      BY <2>3
  <1>3. LoadRows(R) = [data |-> data, version |-> 0, versions |-> [key \in Keys |-> 0]]
    BY DEF LoadRows
  <1> HIDE DEF Value, N
  <1>4. DOMAIN data = N /\ \A n \in N : data[n] = Value(n)
    OBVIOUS
  <1>5. data \in [N -> Values] /\ data \in Partial
    <2>1. data \in [N -> Values]
      BY <1>2
    <2> HIDE DEF data
    <2> QED
      BY <1>1, <2>1 DEF Partial
  <1> HIDE DEF data
  <1>6. RowsOf(data) = R
    <2>1. RowsOf(data) \subseteq R
      BY <1>2, <1>4 DEF RowsOf
    <2>2. ASSUME NEW r \in R PROVE r \in RowsOf(data)
      <3>1. r[1] \in N /\ r = <<r[1], r[2]>>
        BY DEF Content, N
      <3>2. <<r[1], data[r[1]]>> \in R
        BY <1>2, <1>4, <3>1
      <3>3. <<r[1], data[r[1]]>>[1] = r[1]
        OBVIOUS
      <3>4. <<r[1], data[r[1]]>> = r
        BY <3>2, <3>3 DEF Content
      <3> QED
        BY <1>4, <3>1, <3>4 DEF RowsOf
    <2> QED
      BY <2>1, <2>2
  <1> QED
    BY <1>5, <1>6, <1>3 DEF Copies

LEMMA RowsOfSet ==
  ASSUME NEW data \in Partial, NEW n \in Names, NEW new \in Values \cup {none}
  PROVE  RowsOf(Set(data, n, new)) =
           {row \in RowsOf(data) : row[1] # n} \cup (IF new = none THEN {} ELSE {<<n, new>>})
  <1>1. CASE new = none
    <2>1. /\ DOMAIN Set(data, n, new) = DOMAIN data \ {n}
          /\ \A m \in DOMAIN data \ {n} : Set(data, n, new)[m] = data[m]
      BY <1>1, SetType
    <2>2. \A m : <<m, data[m]>>[1] = m
      OBVIOUS
    <2> QED
      BY <1>1, <2>1, <2>2 DEF RowsOf
  <1>2. CASE new # none
    <2>1. /\ DOMAIN Set(data, n, new) = DOMAIN data \cup {n}
          /\ Set(data, n, new)[n] = new
          /\ \A m \in DOMAIN data \ {n} : Set(data, n, new)[m] = data[m]
      BY <1>2, SetType
    <2>2. \A m : <<m, data[m]>>[1] = m
      OBVIOUS
    <2> QED
      BY <1>2, <2>1, <2>2 DEF RowsOf
  <1> QED
    BY <1>1, <1>2

\* Each of the three servers writes to its database what it changes in its copy.
LEMMA WrittenMatches ==
  ASSUME backend \in Backends, copy \in Copies, NEW r \in Requests, KindFits(r), Exists(r),
         rows = RowsOf(copy.data)
  PROVE  Written(r) = RowsOf(Set(copy.data, r.name, r.new))
  <1> DEFINE n == r.name
             new == r.new
             data == copy.data
  <1>1. /\ n \in Names /\ new \in Values \cup {none} /\ data \in Partial
        /\ r.kind \in {"insert", "update", "delete"} /\ none \notin Values
    BY StoresOK DEF Requests, Copies
  <1>2. RowsOf(Set(data, n, new)) =
          {row \in rows : row[1] # n} \cup (IF new = none THEN {} ELSE {<<n, new>>})
    BY <1>1, RowsOfSet
  <1>3. CASE backend = "list"
    BY <1>2, <1>3 DEF Written, Replaced, Deleted
  <1>4. CASE backend = "rocks"
    <2>1. PICK m \in Names : Names = {m}
      BY <1>4, StoresOK
    <2>2. Content(rows)
      BY <1>1, RowsOfContent
    <2>3. {row \in rows : row[1] # n} = {}
      BY <1>1, <2>1, <2>2 DEF Content
    <2>4. new # none
      BY <1>4 DEF KindFits
    <2> QED
      BY <1>2, <1>4, <2>3, <2>4 DEF Written, Put
  <1>5. CASE backend = "table"
    <2>1. r.kind = "insert" <=> n \notin DOMAIN data
      BY <1>5 DEF Exists
    <2>2. Written(r) = CASE r.kind = "insert" -> Inserted(r)
                         [] r.kind = "update" -> Updated(r)
                         [] r.kind = "delete" -> Deleted(r)
      BY <1>5 DEF Written
    <2>3. CASE r.kind = "insert"
      <3>1. new # none
        BY <2>3 DEF KindFits
      <3>2. {row \in rows : row[1] # n} = rows
        BY <2>1, <2>3 DEF RowsOf
      <3> QED
        BY <1>2, <2>2, <2>3, <3>1, <3>2 DEF Inserted
    <2>4. CASE r.kind = "update"
      <3>1. new # none
        BY <2>4 DEF KindFits
      <3>2. n \in DOMAIN data
        BY <2>1, <2>4
      <3>3. <<n, data[n]>> \in rows /\ <<n, data[n]>>[1] = n
        BY <3>2 DEF RowsOf
      <3>4. Updated(r) = {row \in rows : row[1] # n} \cup {<<n, new>>}
        BY <3>3 DEF Updated
      <3> QED
        BY <1>2, <2>2, <2>4, <3>1, <3>4
    <2>5. CASE r.kind = "delete"
      BY <1>2, <2>2, <2>5 DEF KindFits, Deleted
    <2> QED
      BY <1>1, <2>3, <2>4, <2>5
  <1>6. backend \in {"table", "list", "rocks"}
    BY StoresOK
  <1> QED
    BY <1>3, <1>4, <1>5, <1>6

LEMMA LoadMatches ==
  ASSUME NEW b, NEW R, NEW v \in Nat, Content(R)
  PROVE  /\ Load(b, R, v) \in Copies /\ RowsOf(Load(b, R, v).data) = R
         /\ Load(b, R, v).versions["all"] = IF b = "rocks" THEN v ELSE 0
         /\ Load(b, R, v).version = IF b = "rocks" THEN v ELSE 0
  <1>1. "all" \in Keys
    BY DEF Keys
  <1>2. PICK c : c = LoadRows(R)
    OBVIOUS
  <1>3. /\ c \in Copies /\ RowsOf(c.data) = R /\ c.version = 0
        /\ c.versions = [key \in Keys |-> 0]
    BY <1>2, LoadType
  <1>4. CASE b = "rocks"
    <2>1. Load(b, R, v) = [c EXCEPT !.version = v, !.versions["all"] = v]
      BY <1>2, <1>4 DEF Load, LoadStorage
    <2>2. /\ Load(b, R, v).data = c.data /\ Load(b, R, v).version = v
          /\ Load(b, R, v).versions = [c.versions EXCEPT !["all"] = v]
          /\ Load(b, R, v) = [data |-> c.data, version |-> v,
                              versions |-> [c.versions EXCEPT !["all"] = v]]
      BY <1>3, <2>1 DEF Copies
    <2> QED
      BY <1>1, <1>3, <1>4, <2>2 DEF Copies
  <1>5. CASE b # "rocks"
    BY <1>1, <1>2, <1>3, <1>5 DEF Load
  <1> QED
    BY <1>4, <1>5

LEMMA InitInv == Init => StoresInv
  <1> SUFFICES ASSUME Init PROVE StoresInv
    OBVIOUS
  <1>1. Content(InitialRows)
    BY StoresOK DEF Content, InitialRows
  <1>2. /\ copy \in Copies /\ RowsOf(copy.data) = rows
        /\ copy.versions["all"] = 0 /\ copy.version = 0
    BY <1>1, LoadMatches DEF Init
  <1>3. TypeInv
    BY <1>1, <1>2, StoresOK DEF Init, TypeInv, AtMostOne
  <1> QED
    BY <1>2, <1>3 DEF Init, StoresInv, CopyMatches, AllIsVersion, StreamsLead, ViewsFit,
                      RequestsFit

-----------------------------------------------------------------------------
(* Lines of copies *)

LEMMA LeadsStart ==
  ASSUME NEW b, NEW S \in SUBSET Copies, NEW c \in Copies
  PROVE  \E h : Leads(b, S, <<[full |-> TRUE, copy |-> c]>>, h, c)
  <1> DEFINE m == [full |-> TRUE, copy |-> c]
             h == [i \in 0..1 |-> IF i = 0 THEN S ELSE {c}]
  <1>1. m.full = TRUE /\ m.copy = c
    OBVIOUS
  <1> HIDE DEF m
  <1>2. Len(<<m>>) = 1 /\ <<m>>[1] = m
    OBVIOUS
  <1>3. h \in [0..1 -> SUBSET Copies] /\ h[0] = S /\ h[1] = {c}
    OBVIOUS
  <1>4. \A i \in 1..1 : i = 1 /\ i - 1 = 0
    OBVIOUS
  <1> HIDE DEF h
  <1>5. Apply(b, h[0], m) = {c}
    BY <1>1 DEF Apply
  <1>6. Fits(c, c.versions["all"], c.data)
    <2>1. c.versions["all"] \in Nat
      BY DEF Copies, Keys
    <2> QED
      BY <2>1 DEF Fits
  <1>7. Leads(b, S, <<m>>, h, c)
    BY <1>2, <1>3, <1>4, <1>5, <1>6 DEF Leads
  <1> QED
    BY <1>7 DEF m

\* A subscriber takes the first message from the line.
LEMMA LeadsShorter ==
  ASSUME NEW b, NEW S, NEW q \in Seq(Messages), q # <<>>, NEW h, NEW c,
         Leads(b, S, q, h, c)
  PROVE  /\ \E g : Leads(b, Apply(b, S, Head(q)), Tail(q), g, c)
         /\ Apply(b, S, Head(q)) \in SUBSET Copies /\ Apply(b, S, Head(q)) # {}
         /\ b # "table" =>
              \A d \in Apply(b, S, Head(q)) : Fits(c, d.versions["all"], d.data)
  <1>1. PICK n, p : n = Len(q) /\ p = Tail(q)
    OBVIOUS
  <1>2. n \in Nat /\ n > 0 /\ Len(p) = n - 1 /\ Head(q) = q[1]
        /\ \A i \in 1..(n - 1) : p[i] = q[i + 1]
    BY <1>1
  <1> DEFINE g == [i \in 0..(n - 1) |-> h[i + 1]]
  <1>3. \A i \in 0..(n - 1) : i + 1 \in 0..n
    BY <1>2
  <1>4. h \in [0..n -> SUBSET Copies] /\ h[0] = S /\ h[n] = {c}
    BY <1>1 DEF Leads
  <1>5. g \in [0..(n - 1) -> SUBSET Copies] /\ \A i \in 0..(n - 1) : g[i] = h[i + 1]
    BY <1>3, <1>4
  <1> HIDE DEF g
  <1>6. 0 \in 0..(n - 1) /\ n - 1 \in 0..(n - 1) /\ n - 1 + 1 = n /\ 0 + 1 = 1
        /\ 1 \in 1..n /\ 1 - 1 = 0 /\ 1 \in 0..n
    BY <1>2
  <1>7. g[0] = h[1] /\ g[n - 1] = {c}
    BY <1>4, <1>5, <1>6
  <1>8. h[1] = Apply(b, S, Head(q)) /\ h[1] # {} /\ h[1] \in SUBSET Copies
        /\ (b # "table" => \A d \in h[1] : Fits(c, d.versions["all"], d.data))
    BY <1>1, <1>2, <1>4, <1>6 DEF Leads
  <1>9. ASSUME NEW i \in 1..(n - 1)
        PROVE  /\ g[i] = Apply(b, g[i - 1], p[i]) /\ g[i] # {}
               /\ b # "table" => \A d \in g[i] : Fits(c, d.versions["all"], d.data)
    <2>1. /\ i - 1 \in 0..(n - 1) /\ i - 1 + 1 = i /\ i + 1 \in 1..n
          /\ i + 1 - 1 = i /\ i \in 0..(n - 1)
      BY <1>2
    <2>2. g[i] = h[i + 1] /\ g[i - 1] = h[i] /\ p[i] = q[i + 1]
      BY <1>2, <1>5, <2>1
    <2>3. /\ h[i + 1] = Apply(b, h[i], q[i + 1]) /\ h[i + 1] # {}
          /\ b # "table" => \A d \in h[i + 1] : Fits(c, d.versions["all"], d.data)
      BY <1>1, <2>1 DEF Leads
    <2> QED
      BY <2>2, <2>3
  <1>10. Leads(b, h[1], p, g, c)
    BY <1>2, <1>5, <1>7, <1>9 DEF Leads
  <1> QED
    BY <1>1, <1>8, <1>10

\* The server announces its next copy to the end of the line.
LEMMA LeadsLonger ==
  ASSUME NEW b, NEW S, NEW q \in Seq(Messages), NEW h, NEW c \in Copies,
         Leads(b, S, q, h, c),
         NEW m \in Messages, NEW d \in Copies, Apply(b, {c}, m) = {d},
         b # "table" => c.versions["all"] < d.versions["all"]
  PROVE  \E g : Leads(b, S, Append(q, m), g, d)
  <1>1. PICK n, p : n = Len(q) /\ p = Append(q, m)
    OBVIOUS
  <1>2. n \in Nat /\ Len(p) = n + 1 /\ p[n + 1] = m /\ \A i \in 1..n : p[i] = q[i]
    BY <1>1
  <1> DEFINE g == [i \in 0..(n + 1) |-> IF i = n + 1 THEN {d} ELSE h[i]]
  <1>3. h \in [0..n -> SUBSET Copies] /\ h[0] = S /\ h[n] = {c}
    BY <1>1 DEF Leads
  <1>4. \A i \in 0..(n + 1) : i = n + 1 \/ i \in 0..n
    BY <1>2
  <1>5. \A i \in 0..n : i # n + 1 /\ i \in 0..(n + 1)
    BY <1>2
  <1>6. n + 1 \in 0..(n + 1) /\ 0 \in 0..n /\ n \in 0..n /\ n + 1 - 1 = n
    BY <1>2
  <1>7. g \in [0..(n + 1) -> SUBSET Copies]
    BY <1>3, <1>4
  <1>8. g[n + 1] = {d} /\ \A i \in 0..n : g[i] = h[i]
    BY <1>5, <1>6
  <1> HIDE DEF g
  <1>9. c.versions["all"] \in Nat /\ d.versions["all"] \in Nat
    BY DEF Copies, Keys
  <1>10. ASSUME NEW i \in 1..(n + 1)
         PROVE  /\ g[i] = Apply(b, g[i - 1], p[i]) /\ g[i] # {}
                /\ b # "table" => \A e \in g[i] : Fits(d, e.versions["all"], e.data)
    <2>1. CASE i = n + 1
      <3>1. g[i - 1] = {c} /\ p[i] = m /\ g[i] = {d}
        BY <1>2, <1>3, <1>6, <1>8, <2>1
      <3>2. Fits(d, d.versions["all"], d.data)
        BY <1>9 DEF Fits
      <3> QED
        BY <3>1, <3>2
    <2>2. CASE i # n + 1
      <3>1. i \in 1..n /\ i \in 0..n /\ i - 1 \in 0..n
        BY <1>2, <2>2
      <3>2. /\ h[i] = Apply(b, h[i - 1], q[i]) /\ h[i] # {}
            /\ b # "table" => \A e \in h[i] : Fits(c, e.versions["all"], e.data)
        BY <1>1, <3>1 DEF Leads
      <3>3. \A e \in h[i] : e.versions["all"] \in Nat
        <4>1. h[i] \in SUBSET Copies
          BY <1>3, <3>1
        <4> QED
          BY <4>1 DEF Copies, Keys
      <3>4. b # "table" => \A e \in h[i] : Fits(d, e.versions["all"], e.data)
        BY <1>9, <3>2, <3>3 DEF Fits
      <3> QED
        BY <1>2, <1>8, <3>1, <3>2, <3>4
    <2> QED
      BY <2>1, <2>2
  <1>11. g[0] = S
    BY <1>3, <1>6, <1>8
  <1>12. Leads(b, S, p, g, d)
    BY <1>2, <1>7, <1>8, <1>10, <1>11 DEF Leads
  <1> QED
    BY <1>1, <1>12

-----------------------------------------------------------------------------
(* Users *)

LEMMA SubscribeStep ==
  ASSUME StoresInv, NEW u \in Users, Subscribe(u)
  PROVE  StoresInv'
  <1>1. TypeInv /\ copy \in Copies
    BY DEF StoresInv, TypeInv
  <1>2. PICK m : m = [full |-> TRUE, copy |-> copy]
    OBVIOUS
  <1>3. m \in Messages
    BY <1>1, <1>2 DEF Messages
  <1>4. /\ channel' = [channel EXCEPT ![u] = <<m>>]
        /\ connected' = [connected EXCEPT ![u] = TRUE]
        /\ UNCHANGED <<backend, rows, stored, txn, copy, life, view, told, request>>
    BY <1>2 DEF Subscribe
  <1>5. TypeInv'
    BY <1>1, <1>3, <1>4 DEF TypeInv, Content, AtMostOne, KindFits
  <1>6. StreamsLead'
    <2> SUFFICES ASSUME NEW w \in Users, connected'[w]
                 PROVE  \E h : Leads(backend', view'[w], channel'[w], h, copy')
      BY DEF StreamsLead
    <2>1. CASE w = u
      <3>1. PICK b, S, c : b = backend /\ S = view[u] /\ c = copy
        OBVIOUS
      <3>2. S \in SUBSET Copies /\ c \in Copies
        BY <1>1, <3>1 DEF TypeInv
      <3>3. \E h : Leads(b, S, <<[full |-> TRUE, copy |-> c]>>, h, c)
        BY <3>2, LeadsStart
      <3>4. channel'[w] = <<[full |-> TRUE, copy |-> c]>>
        BY <1>1, <1>2, <1>4, <2>1, <3>1 DEF TypeInv
      <3> QED
        BY <1>4, <2>1, <3>1, <3>3, <3>4
    <2>2. CASE w # u
      <3>1. connected[w] /\ channel'[w] = channel[w]
        BY <1>1, <1>4, <2>2 DEF TypeInv
      <3> QED
        BY <1>4, <3>1 DEF StoresInv, StreamsLead
    <2> QED
      BY <2>1, <2>2
  <1> QED
    BY <1>4, <1>5, <1>6 DEF StoresInv, CopyMatches, AllIsVersion, ViewsFit, RequestsFit

\* A message turns one value into one value.
LEMMA AppliedToOne ==
  ASSUME NEW b, NEW S, NEW m, AtMostOne(S)
  PROVE  AtMostOne(Apply(b, S, m))
  <1> DEFINE f(d) == [data |-> Set(d.data, m.name, m.new), version |-> m.version,
                      versions |-> [d.versions EXCEPT
                        ![IF b = "table" THEN m.name ELSE "all"] = m.version]]
  <1>1. CASE m.full
    BY <1>1 DEF Apply, AtMostOne
  <1>2. CASE ~ m.full
    <2>1. Apply(b, S, m) = {f(d) : d \in S}
      BY <1>2 DEF Apply
    <2> HIDE DEF f
    <2> QED
      BY <2>1 DEF AtMostOne
  <1> QED
    BY <1>1, <1>2

LEMMA ReceiveStep ==
  ASSUME StoresInv, NEW u \in Users, Receive(u)
  PROVE  StoresInv'
  <1>1. TypeInv /\ channel[u] \in Seq(Messages) /\ channel[u] # <<>>
    BY DEF StoresInv, TypeInv, Receive
  <1>2. connected[u]
    BY <1>1 DEF TypeInv
  <1>3. PICK b, S, q, c : b = backend /\ S = view[u] /\ q = channel[u] /\ c = copy
    OBVIOUS
  <1>4. PICK h : Leads(b, S, q, h, c)
    BY <1>2, <1>3 DEF StoresInv, StreamsLead
  <1>5. q \in Seq(Messages) /\ q # <<>> /\ Tail(q) \in Seq(Messages)
    BY <1>1, <1>3
  <1>6. PICK T : T = Apply(b, S, Head(q))
    OBVIOUS
  <1>7. /\ \E g : Leads(b, T, Tail(q), g, c)
        /\ T \in SUBSET Copies /\ T # {}
        /\ b # "table" => \A d \in T : Fits(c, d.versions["all"], d.data)
    BY <1>4, <1>5, <1>6, LeadsShorter
  <1>8. /\ view' = [view EXCEPT ![u] = T] /\ told' = [told EXCEPT ![u] = life]
        /\ channel' = [channel EXCEPT ![u] = Tail(q)]
        /\ UNCHANGED <<backend, rows, stored, txn, copy, life, connected, request>>
    BY <1>3, <1>6 DEF Receive, Apply, Update, Key
  <1>9. AtMostOne(T)
    <2>1. AtMostOne(S)
      BY <1>1, <1>3 DEF TypeInv
    <2> QED
      BY <1>6, <2>1, AppliedToOne
  <1>10. TypeInv'
    <2>1. /\ view' \in [Users -> SUBSET Copies] /\ \A w \in Users : AtMostOne(view'[w])
          /\ channel' \in [Users -> Seq(Messages)]
      BY <1>1, <1>5, <1>7, <1>8, <1>9 DEF TypeInv, AtMostOne
    <2>2. life \in Nat /\ life \in 0..life
      BY <1>1, StoresOK DEF TypeInv
    <2>3. told' \in [Users -> Nat] /\ \A w \in Users : told'[w] \in 0..life
      BY <1>1, <1>8, <2>2 DEF TypeInv
    <2>4. \A w \in Users : connected[w] \/ channel'[w] = <<>>
      BY <1>1, <1>2, <1>8 DEF TypeInv
    <2> QED
      BY <1>1, <1>8, <2>1, <2>3, <2>4 DEF TypeInv, Content, AtMostOne, KindFits
  <1>11. \A w \in Users \ {u} :
           view'[w] = view[w] /\ told'[w] = told[w] /\ channel'[w] = channel[w]
    BY <1>1, <1>8 DEF TypeInv
  <1>12. view'[u] = T /\ channel'[u] = Tail(q)
    BY <1>1, <1>8 DEF TypeInv
  <1>13. StreamsLead'
    <2> SUFFICES ASSUME NEW w \in Users, connected'[w]
                 PROVE  \E g : Leads(backend', view'[w], channel'[w], g, copy')
      BY DEF StreamsLead
    <2>1. CASE w = u
      BY <1>3, <1>7, <1>8, <1>12, <2>1
    <2>2. CASE w # u
      BY <1>8, <1>11, <2>2 DEF StoresInv, StreamsLead
    <2> QED
      BY <2>1, <2>2
  <1>14. ViewsFit'
    BY <1>3, <1>7, <1>8, <1>11, <1>12 DEF StoresInv, ViewsFit
  <1> QED
    BY <1>8, <1>10, <1>13, <1>14 DEF StoresInv, CopyMatches, AllIsVersion, RequestsFit

\* What a user asks for is about what he has seen.
LEMMA AskStep ==
  ASSUME StoresInv, NEW u \in Users, Ask(u)
  PROVE  StoresInv'
  <1>1. TypeInv /\ backend \in {"table", "list", "rocks"} /\ none \notin Values
    BY StoresOK DEF StoresInv, TypeInv
  <1>2. PICK r : /\ request' = [request EXCEPT ![u] = {r}]
                 /\ backend = "table" => r \in TableRequests(u)
                 /\ backend = "list" => r \in PageRequests(u)
                 /\ backend = "rocks" => r \in EnablerRequests(u) \cup OneShotRequests
    BY <1>1 DEF Ask
  <1>3. UNCHANGED <<backend, rows, stored, txn, copy, life, channel, connected, view, told>>
    BY DEF Ask
  <1>4. \A kind \in {"insert", "update", "delete"}, n \in Names, new \in Values \cup {none} :
          Blind(kind, n, new) \in Requests
    BY DEF Blind, Requests
  <1>5. ASSUME NEW c \in Copies, NEW kind \in {"insert", "update", "delete"}, NEW n \in Names,
               NEW new \in Values \cup {none}
        PROVE  Based(u, c, kind, n, new) \in Requests
    <2>1. c.versions[Key(n)] \in Nat /\ c.data \in Partial
      BY KeyType DEF Copies
    <2>2. told[u] \in Nat
      BY <1>1 DEF TypeInv
    <2> QED
      BY <2>1, <2>2 DEF Based, Requests
  <1>6. EmptyPage \in Copies
    <2>1. Content({})
      BY DEF Content
    <2> QED
      BY <2>1, LoadType DEF EmptyPage
  <1>7. view[u] \in SUBSET Copies /\ told[u] \in 0..life /\ life \in Nat /\ life # 0
    BY <1>1, StoresOK DEF TypeInv
  <1>8. r \in Requests /\ KindFits(r)
    <2>1. CASE backend = "table"
      <3>1. r \in TableRequests(u)
        BY <1>2, <2>1
      <3>2. \A c \in view[u] : \A n \in DOMAIN c.data : n \in Names
        BY <1>7 DEF Copies, Partial
      <3> QED
        BY <1>1, <1>4, <1>5, <1>7, <2>1, <3>1, <3>2
           DEF TableRequests, KindFits, Blind, Based
    <2>2. CASE backend = "list"
      <3>1. r \in PageRequests(u)
        BY <1>2, <2>2
      <3> QED
        BY <1>1, <1>5, <1>6, <1>7, <2>2, <3>1 DEF PageRequests, Shown, KindFits, Based
    <2>3. CASE backend = "rocks"
      <3>1. r \in EnablerRequests(u) \cup OneShotRequests
        BY <1>2, <2>3
      <3> QED
        BY <1>1, <1>4, <1>5, <1>6, <1>7, <2>3, <3>1
           DEF EnablerRequests, OneShotRequests, Shown, KindFits, Blind, Based
    <2> QED
      BY <1>1, <2>1, <2>2, <2>3
  <1>9. r.checked => /\ r.life \in 0..life
                     /\ backend # "table" /\ r.life = life => Fits(copy, r.version, r.seen)
    <2> SUFFICES ASSUME r.checked
                 PROVE  /\ r.life \in 0..life
                        /\ backend # "table" /\ r.life = life => Fits(copy, r.version, r.seen)
      OBVIOUS
    <2>1. r.life = told[u]
      BY <1>1, <1>2 DEF TableRequests, PageRequests, EnablerRequests, OneShotRequests, Blind,
                        Based
    <2>2. ASSUME backend # "table", r.life = life PROVE Fits(copy, r.version, r.seen)
      <3>1. view[u] # {}
        <4>1. told[u] # 0
          BY <1>7, <2>1, <2>2
        <4>2. view[u] = {} => told[u] = 0
          BY DEF StoresInv, ViewsFit
        <4> QED
          BY <4>1, <4>2
      <3>2. \E c \in view[u] : r.version = c.versions["all"] /\ r.seen = c.data
        BY <1>1, <1>2, <2>2, <3>1
           DEF PageRequests, EnablerRequests, OneShotRequests, Shown, Blind, Based, Key
      <3> QED
        BY <2>1, <2>2, <3>2 DEF StoresInv, ViewsFit
    <2> QED
      BY <1>7, <2>1, <2>2
  <1>10. TypeInv'
    BY <1>1, <1>2, <1>3, <1>8 DEF TypeInv, Content, AtMostOne, KindFits
  <1>11. RequestsFit'
    BY <1>1, <1>2, <1>3, <1>9 DEF StoresInv, RequestsFit, TypeInv
  <1> QED
    BY <1>3, <1>10, <1>11 DEF StoresInv, CopyMatches, AllIsVersion, StreamsLead, ViewsFit

-----------------------------------------------------------------------------
(* The server *)

\* A change counts the version, and what was known before is older.
LEMMA HandleUpdateStep ==
  ASSUME StoresInv, NEW u \in Users, HandleUpdate(u)
  PROVE  StoresInv'
  <1>1. /\ TypeInv /\ backend \in Backends /\ copy \in Copies /\ "all" \in Keys
        /\ rows = RowsOf(copy.data)
        /\ backend = "rocks" => stored = copy.versions["all"]
        /\ backend # "table" => copy.versions["all"] = copy.version
    BY DEF StoresInv, TypeInv, HandleUpdate, CopyMatches, AllIsVersion, Keys
  <1>2. PICK r : /\ r \in request[u] /\ Exists(r)
                 /\ txn' = {[rows |-> Written(r), stored |-> NextVersion(r)]}
                 /\ copy' = Update(copy, r.name, r.new, NextVersion(r))
                 /\ Announce(r, NextVersion(r))
    BY DEF HandleUpdate
  <1>3. PICK v : v = NextVersion(r)
    OBVIOUS
  <1>4. /\ r \in Requests /\ KindFits(r) /\ r.name \in Names /\ r.new \in Values \cup {none}
        /\ r.checked => r.version \in Nat
    <2>1. r \in Requests /\ KindFits(r)
      BY <1>1, <1>2 DEF TypeInv
    <2> QED
      BY <2>1, RequestType
  <1>5. v \in Nat /\ (backend # "table" => copy.versions["all"] < v)
    <2>1. /\ copy.version \in Nat /\ stored \in Nat /\ copy.versions["all"] \in Nat
          /\ r.checked => r.version \in Nat
      BY <1>1, <1>4 DEF TypeInv, Copies
    <2>2. Acquired \in Nat /\ (backend # "table" => copy.versions["all"] <= Acquired)
      BY <1>1, <2>1 DEF Acquired
    <2> QED
      BY <1>1, <1>3, <2>1, <2>2 DEF NextVersion, Largest
  <1>6. PICK b, c, d : b = backend /\ c = copy /\ d = copy'
    OBVIOUS
  <1>7. /\ d \in Copies /\ d.data = Set(c.data, r.name, r.new)
        /\ b # "table" => d.versions["all"] = v /\ d.version = v
    BY <1>1, <1>2, <1>3, <1>4, <1>5, <1>6, UpdateType
  <1>8. PICK m : m = [full |-> FALSE, name |-> r.name, new |-> r.new, version |-> v]
    OBVIOUS
  <1>9. m \in Messages /\ m.full = FALSE /\ m.name = r.name /\ m.new = r.new
        /\ m.version = v
    BY <1>4, <1>5, <1>8 DEF Messages
  <1>10. Apply(b, {c}, m) = {d}
    BY <1>2, <1>3, <1>6, <1>9 DEF Apply, Update, Key
  <1>11. /\ channel' = [w \in Users |-> IF connected[w] THEN Append(channel[w], m)
                                                     ELSE channel[w]]
         /\ request' = [request EXCEPT ![u] = {}]
         /\ UNCHANGED <<backend, rows, stored, life, connected, view, told>>
    BY <1>2, <1>3, <1>8 DEF Announce, HandleUpdate
  <1>12. Written(r) = RowsOf(d.data)
    BY <1>1, <1>2, <1>4, <1>6, <1>7, WrittenMatches
  <1>13. txn' = {[rows |-> RowsOf(d.data), stored |-> v]}
    BY <1>2, <1>3, <1>12
  <1>14. TypeInv'
    <2>1. channel' \in [Users -> Seq(Messages)]
          /\ \A w \in Users : connected'[w] \/ channel'[w] = <<>>
      BY <1>1, <1>9, <1>11 DEF TypeInv
    <2>2. AtMostOne(txn') /\ \A t \in txn' : t.stored \in Nat
      BY <1>5, <1>13 DEF AtMostOne
    <2>3. /\ request' \in [Users -> SUBSET Requests]
          /\ \A w \in Users : AtMostOne(request'[w])
                            /\ \A x \in request'[w] : KindFits(x) /\ KindFits(x)'
      BY <1>1, <1>11 DEF TypeInv, AtMostOne, KindFits
    <2> QED
      BY <1>1, <1>6, <1>7, <1>11, <2>1, <2>2, <2>3 DEF TypeInv, Content, AtMostOne
  <1>15. CopyMatches'
    <2>1. PICK R : R = RowsOf(d.data)
      OBVIOUS
    <2>2. txn' # {} /\ \A t \in txn' : t.rows = R /\ t.stored = v
      BY <1>13, <2>1
    <2> QED
      BY <1>6, <1>7, <1>11, <2>1, <2>2 DEF CopyMatches
  <1>16. AllIsVersion'
    BY <1>6, <1>7, <1>11 DEF AllIsVersion
  <1>17. StreamsLead'
    <2> SUFFICES ASSUME NEW w \in Users, connected'[w]
                 PROVE  \E g : Leads(backend', view'[w], channel'[w], g, copy')
      BY DEF StreamsLead
    <2>1. PICK S, q : S = view[w] /\ q = channel[w]
      OBVIOUS
    <2>2. q \in Seq(Messages) /\ connected[w] /\ channel'[w] = Append(q, m)
      BY <1>1, <1>11, <2>1 DEF TypeInv
    <2>3. PICK h : Leads(b, S, q, h, c)
      BY <1>6, <2>1, <2>2 DEF StoresInv, StreamsLead
    <2>4. c \in Copies /\ (b # "table" => c.versions["all"] < d.versions["all"])
      BY <1>1, <1>5, <1>6, <1>7
    <2>5. \E g : Leads(b, S, Append(q, m), g, d)
      BY <1>7, <1>9, <1>10, <2>2, <2>3, <2>4, LeadsLonger
    <2> QED
      BY <1>6, <1>11, <2>1, <2>2, <2>5
  <1>18. ASSUME NEW x \in Nat, NEW y, Fits(c, x, y), b # "table"
         PROVE  Fits(d, x, y)
    <2>1. c.versions["all"] \in Nat /\ d.versions["all"] = v
          /\ c.versions["all"] < v
      BY <1>1, <1>5, <1>6, <1>7, <1>18 DEF Copies
    <2> QED
      BY <1>5, <1>18, <2>1 DEF Fits
  <1>19. ViewsFit'
    <2>1. \A w \in Users : \A e \in view[w] : e.versions["all"] \in Nat
      BY <1>1 DEF TypeInv, Copies
    <2> QED
      BY <1>6, <1>11, <1>18, <2>1 DEF StoresInv, ViewsFit
  <1>20. RequestsFit'
    <2>1. \A w \in Users : \A x \in request'[w] :
            x \in request[w] /\ (x.checked => x.version \in Nat)
      BY <1>1, <1>11, RequestType DEF TypeInv
    <2> QED
      BY <1>6, <1>11, <1>18, <2>1 DEF StoresInv, RequestsFit
  <1> QED
    BY <1>14, <1>15, <1>16, <1>17, <1>19, <1>20 DEF StoresInv

LEMMA FailureStep ==
  ASSUME StoresInv, NEW u \in Users, FailureConsistency(u)
  PROVE  StoresInv'
  <1>1. /\ TypeInv /\ request' = [request EXCEPT ![u] = {}]
        /\ UNCHANGED <<backend, rows, stored, txn, copy, life, channel, connected, view, told>>
    BY DEF StoresInv, FailureConsistency
  <1>2. TypeInv'
    BY <1>1 DEF TypeInv, Content, AtMostOne, KindFits
  <1>3. RequestsFit'
    BY <1>1 DEF StoresInv, RequestsFit, TypeInv
  <1> QED
    BY <1>1, <1>2, <1>3 DEF StoresInv, CopyMatches, AllIsVersion, StreamsLead, ViewsFit

LEMMA CommitStep ==
  ASSUME StoresInv, Commit
  PROVE  StoresInv'
  <1>1. PICK t : /\ t \in txn /\ rows' = t.rows
                 /\ stored' = IF backend = "rocks" THEN t.stored ELSE 0
    BY DEF Commit
  <1>2. /\ TypeInv /\ txn' = {} /\ rows' = RowsOf(copy.data) /\ copy.data \in Partial
        /\ backend = "rocks" => stored' = copy.versions["all"]
        /\ UNCHANGED <<backend, copy, life, channel, connected, view, told, request>>
    BY <1>1 DEF StoresInv, CopyMatches, Commit, TypeInv, Copies
  <1>3. Content(rows')
    BY <1>2, RowsOfContent
  <1>4. TypeInv'
    BY <1>1, <1>2, <1>3 DEF TypeInv, Content, AtMostOne, KindFits
  <1> QED
    BY <1>2, <1>4 DEF StoresInv, CopyMatches, AllIsVersion, StreamsLead, ViewsFit, RequestsFit

\* A server that starts again has the rows that were committed; what anybody knows
\* is of an earlier life.
LEMMA CrashStep ==
  ASSUME StoresInv, Crash
  PROVE  StoresInv'
  <1>1. /\ TypeInv /\ life <= MaxCrashes /\ life' = life + 1 /\ txn' = {}
        /\ copy' = Load(backend, rows, stored)
        /\ connected' = [w \in Users |-> FALSE] /\ channel' = [w \in Users |-> <<>>]
        /\ UNCHANGED <<backend, rows, stored, view, told, request>>
    BY DEF StoresInv, Crash, Disconnect
  <1>2. Content(rows) /\ stored \in Nat
    BY <1>1 DEF TypeInv
  <1>3. PICK d : d = copy'
    OBVIOUS
  <1>4. /\ d \in Copies /\ RowsOf(d.data) = rows
        /\ d.versions["all"] = IF backend = "rocks" THEN stored ELSE 0
        /\ d.version = IF backend = "rocks" THEN stored ELSE 0
    BY <1>1, <1>2, <1>3, LoadMatches
  <1>5. life \in Nat /\ life' \in 1..(MaxCrashes + 1) /\ MaxCrashes \in Nat
    BY <1>1, StoresOK DEF TypeInv
  <1>6. ASSUME NEW n \in 0..life PROVE n \in 0..life' /\ n # life'
    BY <1>1, <1>5
  <1>7. \A w \in Users : told[w] \in 0..life' /\ told[w] # life'
    BY <1>1, <1>6 DEF TypeInv
  <1>8. TypeInv'
    <2>1. /\ connected' \in [Users -> BOOLEAN] /\ channel' \in [Users -> Seq(Messages)]
          /\ \A w \in Users : connected'[w] \/ channel'[w] = <<>>
      BY <1>1
    <2>2. AtMostOne(txn') /\ \A t \in txn' : t.stored \in Nat
      BY <1>1 DEF AtMostOne
    <2> QED
      BY <1>1, <1>3, <1>4, <1>5, <1>7, <2>1, <2>2 DEF TypeInv, Content, AtMostOne, KindFits
  <1>9. CopyMatches' /\ AllIsVersion'
    BY <1>1, <1>3, <1>4 DEF CopyMatches, AllIsVersion
  <1>10. StreamsLead'
    BY <1>1 DEF StreamsLead
  <1>11. ViewsFit'
    BY <1>1, <1>7 DEF StoresInv, ViewsFit
  <1>12. RequestsFit'
    <2>1. \A w \in Users : \A r \in request[w] : r.checked => r.life \in 0..life
      BY DEF StoresInv, RequestsFit
    <2>2. \A w \in Users : \A r \in request[w] :
            r.checked => r.life \in 0..life' /\ r.life # life'
      BY <1>6, <2>1
    <2> QED
      BY <1>1, <2>2 DEF RequestsFit
  <1> QED
    BY <1>8, <1>9, <1>10, <1>11, <1>12 DEF StoresInv

LEMMA InvStep == StoresInv /\ [Next]_vars => StoresInv'
  <1> SUFFICES ASSUME StoresInv, [Next]_vars PROVE StoresInv'
    OBVIOUS
  <1>1. CASE Next
    BY <1>1, SubscribeStep, ReceiveStep, AskStep, HandleUpdateStep, FailureStep, CommitStep,
       CrashStep DEF Next, Serve, UserStep
  <1>2. CASE UNCHANGED vars
    <2>1. UNCHANGED <<backend, rows, stored, txn, copy, life, channel, connected, view, told,
                      request>>
      BY <1>2 DEF vars
    <2>2. TypeInv'
      BY <2>1 DEF StoresInv, TypeInv, Content, AtMostOne, KindFits
    <2> QED
      BY <2>1, <2>2 DEF StoresInv, CopyMatches, AllIsVersion, StreamsLead, ViewsFit,
                        RequestsFit
  <1> QED
    BY <1>1, <1>2

\* Copy, database, transactions and what is on its way fit together.
THEOREM StoresCorrect == Spec => []StoresInv
  <1> QED
    BY InitInv, InvStep, PTL DEF Spec

LEMMA AtMostOneCardinality ==
  ASSUME NEW S, AtMostOne(S)
  PROVE  Cardinality(S) <= 1
  <1>1. CASE S = {}
    BY <1>1, FS_EmptySet
  <1>2. CASE S # {}
    <2>1. PICK x \in S : TRUE
      BY <1>2
    <2>2. S = {x}
      BY <2>1 DEF AtMostOne
    <2>3. Cardinality({x}) = 1
      BY FS_Singleton
    <2> QED
      BY <2>2, <2>3
  <1> QED
    BY <1>1, <1>2

\* Every variable keeps its type.
THEOREM StoresTypeCorrect == Spec => []TypeOK
  <1>1. StoresInv => TypeOK
    <2> SUFFICES ASSUME StoresInv PROVE TypeOK
      OBVIOUS
    <2>1. TypeInv
      BY DEF StoresInv
    <2>2. \A t \in txn : t.rows \subseteq Names \X Values /\ t.stored \in Nat
      <3>1. copy.data \in Partial
        BY <2>1 DEF TypeInv, Copies
      <3> QED
        BY <2>1, <3>1, RowsOfContent DEF StoresInv, CopyMatches, Content, TypeInv
    <2>3. \A u \in Users : Cardinality(view[u]) <= 1 /\ Cardinality(request[u]) <= 1
      BY <2>1, AtMostOneCardinality DEF TypeInv
    <2> QED
      BY <2>1, <2>2, <2>3 DEF TypeInv, TypeOK, Content
  <1> QED
    BY <1>1, StoresCorrect, PTL

\* The server's copy is what the database has, or will have after the open
\* transaction, whatever was asked for and however often the server crashed.
THEOREM CopyIsDatabaseCorrect == Spec => []CopyIsDatabase
  <1>1. StoresInv => CopyIsDatabase
    <2> SUFFICES ASSUME StoresInv PROVE CopyIsDatabase
      OBVIOUS
    <2>1. CASE txn = {}
      BY <2>1 DEF StoresInv, CopyMatches, CopyIsDatabase
    <2>2. CASE txn # {}
      <3> PICK t \in txn : TRUE
        BY <2>2
      <3>1. txn = {t}
        BY DEF StoresInv, TypeInv, AtMostOne
      <3>2. UNION {s.rows : s \in txn} = t.rows
        BY <3>1
      <3> QED
        BY <2>2, <3>1, <3>2 DEF StoresInv, CopyMatches, CopyIsDatabase
    <2> QED
      BY <2>1, <2>2
  <1> QED
    BY <1>1, StoresCorrect, PTL

\* A subscriber who has received everything sent has the server's copy.
THEOREM SubscribersAgreeCorrect == Spec => []SubscribersAgree
  <1>1. StoresInv => SubscribersAgree
    <2> SUFFICES ASSUME StoresInv, NEW u \in Users, connected[u], channel[u] = <<>>
                 PROVE  view[u] = {copy}
      BY DEF SubscribersAgree
    <2>1. PICK h : Leads(backend, view[u], <<>>, h, copy)
      BY DEF StoresInv, StreamsLead
    <2> QED
      BY <2>1 DEF Leads
  <1> QED
    BY <1>1, StoresCorrect, PTL

\* A checked update replaces what its user saw.
THEOREM ReplacesWhatUserSawCorrect == Spec => ReplacesWhatUserSaw
  <1> DEFINE Saw == \A u \in Users : \A r \in request[u] :
       r.checked /\ request'[u] = {} /\ copy' # copy =>
         /\ backend = "table" => copy.data[r.name] = r.seen[r.name]
         /\ r.life = life => copy.versions[Key(r.name)] = r.version
                             /\ (backend # "table" => copy.data = r.seen)
  <1>1. ASSUME StoresInv, Next PROVE Saw
    <2> SUFFICES ASSUME NEW u \in Users, NEW r \in request[u], r.checked, request'[u] = {},
                        copy' # copy
                 PROVE  /\ backend = "table" => copy.data[r.name] = r.seen[r.name]
                        /\ r.life = life =>
                             copy.versions[Key(r.name)] = r.version
                             /\ (backend # "table" => copy.data = r.seen)
      OBVIOUS
    <2>1. request \in [Users -> SUBSET Requests] /\ AtMostOne(request[u])
      BY <1>1 DEF StoresInv, TypeInv
    \* only the transaction of u takes his request and changes the copy
    <2>2. HandleUpdate(u)
      <3>1. ~ Crash /\ ~ Commit /\ \A w \in Users : ~ UserStep(w) /\ ~ Subscribe(w)
                                                    /\ ~ FailureConsistency(w)
        BY <2>1 DEF Crash, Commit, UserStep, Receive, Ask, Subscribe, FailureConsistency
      <3>2. \A w \in Users : HandleUpdate(w) => w = u
        BY <2>1 DEF HandleUpdate
      <3> QED
        BY <1>1, <3>1, <3>2 DEF Next, Serve
    <2>3. Matches(r)
      BY <2>1, <2>2 DEF HandleUpdate, AtMostOne
    <2>4. backend # "table" => Key(r.name) = "all"
      BY DEF Key
    <2>5. backend # "table" /\ r.life = life => Fits(copy, r.version, r.seen)
      BY <1>1 DEF StoresInv, RequestsFit
    <2> QED
      BY <2>3, <2>4, <2>5 DEF Matches, Fits
  <1>2. StoresInv /\ [Next]_vars => [Saw]_vars
    BY <1>1
  <1> QED
    BY <1>2, StoresCorrect, PTL DEF Spec, ReplacesWhatUserSaw
=============================================================================
