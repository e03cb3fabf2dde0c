------------------------------- MODULE Stores -------------------------------
(***************************************************************************)
(* Servers that keep named values in a database and a copy of them in      *)
(* memory, announce every change to subscribers, and carry out the updates *)
(* their users ask for.  Three servers of the repository are built so:     *)
(*                                                                         *)
(*  - "table", db_subscription: a row has a version of its own, and an     *)
(*    update or deletion may name the version and the row it replaces;     *)
(*  - "list", db_one_list_subscription: all rows have one version, and an  *)
(*    update names it and the number of rows;                              *)
(*  - "rocks", the enable server of simple_demo_chain_version: one value,  *)
(*    stored with its version; an update may name the version.             *)
(*                                                                         *)
(* The transaction facility of tm_basic, which is not in this repository,  *)
(* calls acquireLock, checks, calls handleUpdate and releaseLock, one      *)
(* transaction at a time, and passes announcements on in order.            *)
(***************************************************************************)
EXTENDS Integers, Sequences, FiniteSets, TLC

CONSTANTS
  Users, Names, Values,
  none,          \* no value: a row that is deleted
  InitialValue,
  Backends,      \* the servers to look at
  MaxVersion,    \* bound: changes in one life of the server
  MaxCrashes     \* bound: crashes of the server

ASSUME StoresOK ==
  /\ none \notin Values /\ InitialValue \in Values
  /\ Backends \subseteq {"table", "list", "rocks"}
  /\ "rocks" \in Backends => \E n \in Names : Names = {n}
  /\ MaxVersion \in Nat /\ MaxCrashes \in Nat

VARIABLES
  backend,
  rows,       \* what the database has committed: pairs of a name and a value
  stored,     \* the version committed with them (rocks)
  txn,        \* a set with what the open transaction has written
  copy,       \* the data store of the server: values and versions
  life,       \* starts of the server
  channel,    \* channel[u]: announcements on their way to u, if subscribed
  connected,
  view,       \* view[u]: u's copy of the data store
  told,       \* history: told[u], the life of the server that view[u] is of
  request     \* request[u]: a set with the update u has asked for

vars == <<backend, rows, stored, txn, copy, life, channel, connected, view, told, request>>

-----------------------------------------------------------------------------
(* Data *)

Keys == Names \cup {"all"}
Key(n) == IF backend = "table" THEN n ELSE "all"

Partial == UNION {[N -> Values] : N \in SUBSET Names}
Copies == [data: Partial, version: Nat, versions: [Keys -> Nat]]

RowsOf(data) == {<<n, data[n]>> : n \in DOMAIN data}

\* named_value_store::ApplyDelta and the full updates of a row
Set(data, n, new) ==
  IF new = none THEN [m \in DOMAIN data \ {n} |-> data[m]]
  ELSE [m \in DOMAIN data \cup {n} |-> IF m = n THEN new ELSE data[m]]

Update(c, n, new, v) ==
  [data |-> Set(c.data, n, new), version |-> v, versions |-> [c.versions EXCEPT ![Key(n)] = v]]

\* DSComponent::initialize of the database servers.  Of rows with one name the
\* first would be taken.
LoadRows(content) ==
  [data |-> [n \in {r[1] : r \in content} |-> CHOOSE x \in Values : <<n, x>> \in content],
   version |-> 0, versions |-> [key \in Keys |-> 0]]

\* the same of the enable server, whose version is stored
LoadStorage(content, v) ==
  [LoadRows(content) EXCEPT !.version = v, !.versions["all"] = v]

Load(b, content, v) == IF b = "rocks" THEN LoadStorage(content, v) ELSE LoadRows(content)

InitialRows == {<<n, InitialValue>> : n \in Names}

Init ==
  /\ backend \in Backends
  /\ rows = InitialRows /\ stored = 0 /\ txn = {}
  /\ copy = Load(backend, InitialRows, 0) /\ life = 1
  /\ channel = [u \in Users |-> <<>>] /\ connected = [u \in Users |-> FALSE]
  /\ view = [u \in Users |-> {}] /\ told = [u \in Users |-> 0]
  /\ request = [u \in Users |-> {}]

-----------------------------------------------------------------------------
(* Subscribers.  A subscription begins with the whole copy; everything that *)
(* is announced later follows it.                                           *)

Subscribe(u) ==
  /\ ~ connected[u]
  /\ connected' = [connected EXCEPT ![u] = TRUE]
  /\ channel' = [channel EXCEPT ![u] = <<[full |-> TRUE, copy |-> copy]>>]
  /\ UNCHANGED <<backend, rows, stored, txn, copy, life, view, told, request>>

\* the page of db_one_list_subscription; other clients leave it to the framework
Receive(u) ==
  /\ channel[u] # <<>>
  /\ LET m == Head(channel[u]) IN
       view' = [view EXCEPT ![u] =
         IF m.full THEN {m.copy}
         ELSE {Update(c, m.name, m.new, m.version) : c \in @}]
  /\ told' = [told EXCEPT ![u] = life]
  /\ channel' = [channel EXCEPT ![u] = Tail(@)]
  /\ UNCHANGED <<backend, rows, stored, txn, copy, life, connected, request>>

\* updates that name what they replace, and updates that do not
Based(u, c, kind, n, new) ==
  [kind |-> kind, name |-> n, new |-> new, checked |-> TRUE,
   version |-> c.versions[Key(n)], seen |-> c.data, life |-> told[u]]

Blind(kind, n, new) == [kind |-> kind, name |-> n, new |-> new, checked |-> FALSE]

\* the client of db_subscription, with and without force
TableRequests(u) ==
  {Blind(kind, n, x) : kind \in {"insert", "update"}, n \in Names, x \in Values}
  \cup {Blind("delete", n, none) : n \in Names}
  \cup UNION {{Based(u, c, "update", n, x) : n \in DOMAIN c.data, x \in Values}
              \cup {Based(u, c, "delete", n, none) : n \in DOMAIN c.data} : c \in view[u]}

\* What a user goes by who has received nothing yet: an empty list on the page,
\* version 0 in the window of the enabler.
EmptyPage == LoadRows({})
Shown(u) == IF view[u] = {} THEN {EmptyPage} ELSE view[u]

\* the page
PageRequests(u) ==
  UNION {{Based(u, c, "update", n, x) : n \in Names, x \in Values}
         \cup {Based(u, c, "delete", n, none) : n \in Names} : c \in Shown(u)}

\* enablerGUIDataFlow: the version is that of the last change received
EnablerRequests(u) ==
  {Based(u, c, "update", n, x) : c \in Shown(u), n \in Names, x \in Values}

\* enablerOneShotDataFlow
OneShotRequests == {Blind("update", n, x) : n \in Names, x \in Values}

Ask(u) ==
  /\ request[u] = {}
  /\ \E r \in CASE backend = "table" -> TableRequests(u)
               [] backend = "list" -> PageRequests(u)
               [] backend = "rocks" -> EnablerRequests(u) \cup OneShotRequests :
       request' = [request EXCEPT ![u] = {r}]
  /\ UNCHANGED <<backend, rows, stored, txn, copy, life, channel, connected, view, told>>

-----------------------------------------------------------------------------
(* Transactions *)

\* the checks of the facility: version, and CheckSummary of each server
Matches(r) ==
  r.checked =>
    /\ copy.versions[Key(r.name)] = r.version
    /\ backend = "table" => copy.data[r.name] = r.seen[r.name]
    /\ backend = "list" => Cardinality(DOMAIN copy.data) = Cardinality(DOMAIN r.seen)

Exists(r) ==
  backend = "table" => (r.kind = "insert" <=> r.name \notin DOMAIN copy.data)

\* handleInsert, handleUpdate and handleDelete of a table
Inserted(r) == rows \cup {<<r.name, r.new>>}

Updated(r) == {IF row[1] = r.name THEN <<r.name, r.new>> ELSE row : row \in rows}

Deleted(r) == {row \in rows : row[1] # r.name}

\* slip: a row that is there is not removed before it is written again
Replaced_Twice(r) ==
  {row \in rows : r.kind = "delete" => row[1] # r.name}
  \cup (IF r.new = none THEN {} ELSE {<<r.name, r.new>>})

\* slip: what is deleted is written again, with an empty value
Replaced_Empty(r) == Deleted(r) \cup {<<r.name, r.new>>}

\* handleUpdate of the list: whatever is deleted, inserted or updated is removed
\* first
Replaced(r) == Deleted(r) \cup (IF r.new = none THEN {} ELSE {<<r.name, r.new>>})

\* handleUpdate of the enable server
Put(r) == {<<r.name, r.new>>}

Written(r) ==
  CASE backend = "list" -> Replaced(r)
    [] backend = "rocks" -> Put(r)
    [] backend = "table" -> CASE r.kind = "insert" -> Inserted(r)
                              [] r.kind = "update" -> Updated(r)
                              [] r.kind = "delete" -> Deleted(r)

\* acquireLock: the enable server reads the version in the database, the others
\* have counted it since they started
Acquired == IF backend = "rocks" THEN stored ELSE copy.version

Largest(a, b) == IF a > b THEN a ELSE b

\* slip: acquireLock does not count the version
NextVersion_Uncounted(r) ==
  IF backend = "rocks" /\ r.checked THEN Largest(r.version, Acquired) + 1 ELSE Acquired

NextVersion(r) ==
  (IF backend = "rocks" /\ r.checked THEN Largest(r.version, Acquired) ELSE Acquired) + 1

\* slip: subscribers who have not heard of the last change are passed over
Announce_Behind(r, v) ==
  channel' = [u \in Users |->
    IF connected[u] /\ channel[u] = <<>>
      THEN Append(channel[u], [full |-> FALSE, name |-> r.name, new |-> r.new, version |-> v])
      ELSE channel[u]]

\* triggerCallback: everyone hears of a change before it is committed.
Announce(r, v) ==
  channel' = [u \in Users |->
    IF connected[u]
      THEN Append(channel[u], [full |-> FALSE, name |-> r.name, new |-> r.new, version |-> v])
      ELSE channel[u]]

HandleUpdate(u) ==
  /\ txn = {} /\ copy.version < MaxVersion
  /\ \E r \in request[u] :
       /\ Exists(r) /\ Matches(r)
       /\ txn' = {[rows |-> Written(r), stored |-> NextVersion(r)]}
       /\ copy' = Update(copy, r.name, r.new, NextVersion(r))
       /\ Announce(r, NextVersion(r))
  /\ request' = [request EXCEPT ![u] = {}]
  /\ UNCHANGED <<backend, rows, stored, life, connected, view, told>>

FailureConsistency(u) ==
  /\ txn = {}
  /\ \E r \in request[u] : ~ (Exists(r) /\ Matches(r))
  /\ request' = [request EXCEPT ![u] = {}]
  /\ UNCHANGED <<backend, rows, stored, txn, copy, life, channel, connected, view, told>>

\* releaseLock
Commit ==
  /\ \E t \in txn :
       /\ rows' = t.rows
       /\ stored' = IF backend = "rocks" THEN t.stored ELSE 0
  /\ txn' = {}
  /\ UNCHANGED <<backend, copy, life, channel, connected, view, told, request>>

Disconnect ==
  connected' = [u \in Users |-> FALSE] /\ channel' = [u \in Users |-> <<>>]

\* The server crashes and starts again.  Subscriptions end; what users have
\* asked for waits in the queue.
Crash ==
  /\ life <= MaxCrashes
  /\ life' = life + 1
  /\ txn' = {} /\ copy' = Load(backend, rows, stored)
  /\ Disconnect
  /\ UNCHANGED <<backend, rows, stored, view, told, request>>

UserStep(u) == Receive(u) \/ Ask(u)

\* a server between a start and the next: one facility for subscriptions and
\* transactions
Serve ==
  \/ Commit \/ Crash
  \/ \E u \in Users : Subscribe(u) \/ HandleUpdate(u) \/ FailureConsistency(u)

Next == Serve \/ \E u \in Users : UserStep(u)

Spec == Init /\ [][Next]_vars

-----------------------------------------------------------------------------
(* Properties *)

\* Every variable keeps its type.
TypeOK ==
  /\ backend \in Backends
  /\ rows \subseteq Names \X Values /\ stored \in Nat
  /\ \A t \in txn : t.rows \subseteq Names \X Values /\ t.stored \in Nat
  /\ copy \in Copies
  /\ life \in 1..(MaxCrashes + 1)
  /\ connected \in [Users -> BOOLEAN]
  /\ \A u \in Users :
       /\ view[u] \subseteq Copies /\ Cardinality(view[u]) <= 1
       /\ connected[u] \/ channel[u] = <<>>
       /\ told[u] \in 0..life /\ Cardinality(request[u]) <= 1

\* The copy of the server, on which every check is made, is what the database
\* has or will have after the open transaction, row by row, also after a crash
\* that took back what had been announced.
CopyIsDatabase ==
  LET content == UNION {t.rows : t \in txn} IN
  /\ RowsOf(copy.data) = IF txn = {} THEN rows ELSE content
  /\ backend = "rocks" /\ txn = {} => copy.versions["all"] = stored

\* A subscriber who has received everything sent has the copy of the server,
\* whenever he subscribed.
SubscribersAgree ==
  \A u \in Users : connected[u] /\ channel[u] = <<>> /\ view[u] # {} => view[u] = {copy}

\* A checked update replaces what its user saw: in a table always, since rows
\* are compared; otherwise while the server that told him is up, since versions
\* are used again by a server that starts after a crash.
ReplacesWhatUserSaw ==
  [][\A u \in Users : \A r \in request[u] :
       r.checked /\ request'[u] = {} /\ copy' # copy =>
         /\ backend = "table" => copy.data[r.name] = r.seen[r.name]
         /\ r.life = life => copy.versions[Key(r.name)] = r.version
                             /\ (backend # "table" => copy.data = r.seen)]_vars
=============================================================================
