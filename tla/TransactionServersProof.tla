----------------------- MODULE TransactionServersProof ------------------------
(***************************************************************************)
(* What is proved of the transaction servers, for any servers, clients,    *)
(* accounts, amounts and width of the numbers, over a queue and over       *)
(* reverse broadcast, with and without a lock.                             *)
(*                                                                         *)
(* TypesInv holds of every state: data and versions have their types, and  *)
(* a command has as many servers left as may still carry it out.  With     *)
(* OnceInv, which says that the versions a client named are old as soon as *)
(* its command was carried out, no command is carried out twice.  SawInv   *)
(* adds that equal versions stand for equal values.                        *)
(*                                                                         *)
(* DecisionInv says that a slice, whichever copy it was computed on, is    *)
(* what the command does to the newest data if etcd takes it.  BooksInv    *)
(* says that overallStat is the sum of the balances, pending amounts       *)
(* included, that no balance is negative, and that nothing is near the     *)
(* width of its field.  Sums over accounts are defined by recursion on     *)
(* finite sets; what they do when one account changes is proved by taking  *)
(* a set of least size on which it fails.                                  *)
(***************************************************************************)
EXTENDS TransactionServers, FiniteSetTheorems, SequenceTheorems, WellFoundedInduction, TLAPS

-----------------------------------------------------------------------------
(* Numbers keep their width. *)

LEMMA Modulo ==
  ASSUME NEW n \in Int, NEW m \in Nat \ {0}
  PROVE  n % m \in 0..(m - 1)
OBVIOUS

LEMMA Widths ==
  /\ Half \in Nat \ {0}
  /\ UIntSize \in Nat \ {0} /\ UIntSize = 2 * Half
  /\ TotalSize \in Nat \ {0}
  /\ \A n \in UInt : n \in Nat /\ n \in Int
  /\ \A n \in SInt : n \in Int
  /\ \A n \in Total : n \in Nat /\ n \in Int
  /\ 0 \in UInt /\ 0 \in SInt /\ 0 \in Total
  /\ \A n \in Amounts : n \in UInt /\ n \in Int /\ -n \in Int
<1>1. Half \in Nat \ {0} /\ Amounts \subseteq 0..(2 * Half - 1)
  BY AccountsOK DEF AccountsAssumption
<1>2. UIntSize \in Nat \ {0} /\ UIntSize = 2 * Half
  BY <1>1 DEF UIntSize
<1>3. TotalSize \in Nat \ {0}
  <2>1. ASSUME NEW m \in Nat \ {0} PROVE m * m \in Nat \ {0}
    OBVIOUS
  <2> QED BY <1>2, <2>1 DEF TotalSize
<1>4. UInt = 0..(UIntSize - 1) /\ SInt = (-Half)..(Half - 1) /\ Total = 0..(TotalSize - 1)
  BY DEF UInt, SInt, Total, IntMin, IntMax
<1>5. /\ \A n \in UInt : n \in Nat /\ n \in Int
      /\ \A n \in SInt : n \in Int
      /\ \A n \in Total : n \in Nat /\ n \in Int
  BY <1>4
<1>6. 0 \in UInt /\ 0 \in SInt /\ 0 \in Total
  BY <1>1, <1>2, <1>3, <1>4
<1>7. \A n \in Amounts : n \in UInt /\ n \in Int /\ -n \in Int
  BY <1>1, <1>2, <1>4
<1> QED BY <1>1, <1>2, <1>3, <1>5, <1>6, <1>7

LEMMA Wraps ==
  ASSUME NEW n \in Int
  PROVE  ToUInt(n) \in UInt /\ ToSInt(n) \in SInt /\ ToTotal(n) \in Total
<1>1. ToUInt(n) \in 0..(UIntSize - 1) /\ ToTotal(n) \in 0..(TotalSize - 1)
  BY Modulo, Widths DEF ToUInt, ToTotal
<1>2. ToSInt(n) \in SInt
  <2>1. CASE ToUInt(n) > IntMax
    BY <1>1, <2>1, Widths DEF ToSInt, SInt, IntMin, IntMax
  <2>2. CASE ~ (ToUInt(n) > IntMax)
    BY <1>1, <2>2, Widths DEF ToSInt, SInt, IntMin, IntMax
  <2> QED BY <2>1, <2>2
<1> QED BY <1>1, <1>2 DEF UInt, Total

-----------------------------------------------------------------------------
(* Data, versions and slices.  Data and versions have the same parts, with  *)
(* other types, and so have the slices of each.                             *)

Lists == {l \in Seq(Transfers) : Len(l) <= PENDING_TRANSFER_SIZE_LIMIT}

Whole(w, Stats, Accts, Pends) ==
  /\ w = [overallStat |-> w.overallStat, accounts |-> w.accounts,
          pendingTransfers |-> w.pendingTransfers]
  /\ w.overallStat \in Stats
  /\ DOMAIN w.accounts \subseteq AccountNames
  /\ w.accounts \in [DOMAIN w.accounts -> Accts]
  /\ w.pendingTransfers \in Pends

Part(p, Stats, Accts, Pends) ==
  Whole(p, Option(Stats), Option(Accts), Option(Pends))

IsSlice(p) == Part(p, Total, AccountData, Lists)

LEMMA DataIsWhole ==
  /\ \A d : IsData(d) <=> Whole(d, Total, AccountData, Lists)
  /\ \A v : IsVersion(v) <=> Whole(v, Nat, Nat, Nat)
BY DEF IsData, IsVersion, Whole, Lists

\* An optional value is there or not.
LEMMA Options ==
  /\ \A S : \A o \in Option(S) : o = {} \/ \E x \in S : o = {x}
  /\ \A S : {} \in Option(S)
  /\ \A S : \A x \in S : {x} \in Option(S)
  /\ \A x, other : Value({x}, other) = x
  /\ \A other : Value({}, other) = other
  /\ \A S, other : \A o \in Option(S) :
       other \in S \/ o # {} => Value(o, other) \in S
<1>1. ASSUME NEW S, NEW o \in Option(S) PROVE o = {} \/ \E x \in S : o = {x}
  BY DEF Option
<1>2. ASSUME NEW S PROVE {} \in Option(S)
  BY DEF Option
<1>3. ASSUME NEW S, NEW x \in S PROVE {x} \in Option(S)
  BY DEF Option
<1>4. \A x, other : Value({x}, other) = x
  BY DEF Value
<1>5. \A other : Value({}, other) = other
  BY DEF Value
<1>6. ASSUME NEW S, NEW o \in Option(S), NEW other, other \in S \/ o # {}
      PROVE  Value(o, other) \in S
  <2>1. CASE o = {}
    BY <1>5, <1>6, <2>1
  <2>2. CASE o # {}
    <3>1. PICK x \in S : o = {x}
      BY <1>1, <2>2
    <3> QED BY <1>4, <3>1
  <2> QED BY <2>1, <2>2
<1> QED BY <1>1, <1>2, <1>3, <1>4, <1>5, <1>6

LEMMA MakeWhole ==
  ASSUME NEW Stats, NEW Accts, NEW Pends, NEW st \in Stats, NEW pt \in Pends,
         NEW as, DOMAIN as \subseteq AccountNames, as \in [DOMAIN as -> Accts]
  PROVE  Whole([overallStat |-> st, accounts |-> as, pendingTransfers |-> pt],
               Stats, Accts, Pends)
BY DEF Whole

\* A slice changes what it names and leaves the rest.
LEMMA ApplyWhole ==
  ASSUME NEW Stats, NEW Accts, NEW Pends, NEW w, NEW p,
         Whole(w, Stats, Accts, Pends), Part(p, Stats, Accts, Pends)
  PROVE  Whole(Apply(w, p), Stats, Accts, Pends)
<1> DEFINE closed == {a \in DOMAIN p.accounts : p.accounts[a] = {}}
           dom == (DOMAIN w.accounts \cup DOMAIN p.accounts) \ closed
           as == [a \in dom |-> IF a \in DOMAIN p.accounts THEN Value(p.accounts[a], 0)
                                ELSE w.accounts[a]]
           st == Value(p.overallStat, w.overallStat)
           pt == Value(p.pendingTransfers, w.pendingTransfers)
<1>1. Apply(w, p) = [overallStat |-> st, accounts |-> as, pendingTransfers |-> pt]
  BY DEF Apply
<1>2. st \in Stats /\ pt \in Pends
  BY Options DEF Whole, Part
<1>3. ASSUME NEW a \in dom PROVE as[a] \in Accts
  <2>1. CASE a \in DOMAIN p.accounts
    BY <2>1, Options DEF Whole, Part
  <2>2. CASE a \notin DOMAIN p.accounts
    BY <2>2 DEF Whole
  <2> QED BY <2>1, <2>2
<1>4. DOMAIN as = dom /\ dom \subseteq AccountNames /\ as \in [dom -> Accts]
  BY <1>3 DEF Whole, Part
<1> HIDE DEF st, as, pt, dom
<1> QED BY <1>1, <1>2, <1>4, MakeWhole

\* What is named is part of what it is named of.
LEMMA NamedPart ==
  ASSUME NEW Stats, NEW Accts, NEW Pends, NEW w, NEW cmd \in Command,
         Whole(w, Stats, Accts, Pends)
  PROVE  Part(Named(cmd, w), Stats, Accts, Pends)
<1> DEFINE names == CASE cmd.type = "transfer" -> {cmd.from, cmd.to}
                      [] cmd.type = "inject" -> {cmd.to}
                      [] cmd.type = "close" -> {cmd.which}
                      [] OTHER -> {}
           as == [a \in names \cap DOMAIN w.accounts |-> {w.accounts[a]}]
           st == IF cmd.type \in {"inject", "close"} THEN {w.overallStat} ELSE {}
           pt == IF cmd.type = "transfer" THEN {w.pendingTransfers} ELSE {}
           sl == [overallStat |-> st, accounts |-> as, pendingTransfers |-> pt]
<1>1. Named(cmd, w) = IF cmd.type = "close" /\ cmd.unchecked THEN EmptySlice ELSE sl
  BY DEF Named
<1>2. Part(EmptySlice, Stats, Accts, Pends)
  BY Options DEF EmptySlice, NoAccounts, Part, Whole
<1>3. st \in Option(Stats) /\ pt \in Option(Pends)
  BY Options DEF Whole
<1>4. \A a \in DOMAIN w.accounts : {w.accounts[a]} \in Option(Accts)
  BY Options DEF Whole
<1>5. /\ DOMAIN as = names \cap DOMAIN w.accounts /\ DOMAIN as \subseteq AccountNames
      /\ as \in [DOMAIN as -> Option(Accts)]
  BY <1>4 DEF Whole
<1> HIDE DEF st, as, pt
<1>6. Part(sl, Stats, Accts, Pends)
  BY <1>3, <1>5 DEF Part, Whole
<1> QED BY <1>1, <1>2, <1>6

LEMMA NextVersionWhole ==
  ASSUME NEW v, NEW p, IsVersion(v), IsSlice(p)
  PROVE  IsVersion(NextVersion(v, p))
<1> DEFINE as == [a \in DOMAIN v.accounts \cup DOMAIN p.accounts |->
                   IF a \notin DOMAIN p.accounts THEN v.accounts[a]
                   ELSE IF p.accounts[a] = {} THEN 0 ELSE VersionIn(v.accounts, a) + 1]
<1>1. NextVersion(v, p) =
        [overallStat |-> v.overallStat + Cardinality(p.overallStat), accounts |-> as,
         pendingTransfers |-> v.pendingTransfers + Cardinality(p.pendingTransfers)]
  BY DEF NextVersion
<1>2. Cardinality(p.overallStat) \in Nat /\ Cardinality(p.pendingTransfers) \in Nat
  <2>1. p.overallStat \in Option(Total) /\ p.pendingTransfers \in Option(Lists)
    BY DEF IsSlice, Part, Whole
  <2>2. ASSUME NEW S, NEW o \in Option(S) PROVE Cardinality(o) \in Nat
    <3>1. CASE o = {}
      BY <3>1, FS_EmptySet
    <3>2. CASE o # {}
      BY <3>2, Options, FS_Singleton
    <3> QED BY <3>1, <3>2
  <2> QED BY <2>1, <2>2
<1>3. /\ DOMAIN as \subseteq AccountNames /\ as \in [DOMAIN as -> Nat]
      /\ v.overallStat \in Nat /\ v.pendingTransfers \in Nat
  BY DEF IsVersion, IsSlice, Part, Whole, VersionIn
<1> HIDE DEF as
<1> DEFINE st == v.overallStat + Cardinality(p.overallStat)
           pt == v.pendingTransfers + Cardinality(p.pendingTransfers)
<1>4. st \in Nat /\ pt \in Nat
  BY <1>2, <1>3
<1> HIDE DEF st, pt
<1>5. Whole([overallStat |-> st, accounts |-> as, pendingTransfers |-> pt], Nat, Nat, Nat)
  BY <1>3, <1>4, MakeWhole
<1> QED BY <1>1, <1>5, DataIsWhole DEF st, pt

-----------------------------------------------------------------------------
(* The slice of a valid command has its types, whatever wraps on the way. *)

LEMMA MakeSlice ==
  ASSUME NEW st \in Option(Total), NEW pt \in Option(Lists),
         NEW as, DOMAIN as \subseteq AccountNames, as \in [DOMAIN as -> Option(AccountData)]
  PROVE  IsSlice([overallStat |-> st, accounts |-> as, pendingTransfers |-> pt])
BY MakeWhole DEF IsSlice, Part

LEMMA SliceFields ==
  /\ \A as, pt : [EmptySlice EXCEPT !.accounts = as, !.pendingTransfers = pt]
                = [overallStat |-> {}, accounts |-> as, pendingTransfers |-> pt]
  /\ \A as, st : [EmptySlice EXCEPT !.overallStat = st, !.accounts = as]
                = [overallStat |-> st, accounts |-> as, pendingTransfers |-> {}]
<1>1. ASSUME NEW as, NEW pt
      PROVE  [EmptySlice EXCEPT !.accounts = as, !.pendingTransfers = pt]
             = [overallStat |-> {}, accounts |-> as, pendingTransfers |-> pt]
  <2> DEFINE R == [overallStat: {{}}, accounts: {NoAccounts, as}, pendingTransfers: {{}, pt}]
             r == [EmptySlice EXCEPT !.accounts = as, !.pendingTransfers = pt]
  <2>1. EmptySlice \in R /\ EmptySlice.overallStat = {}
    BY DEF EmptySlice
  <2>2. r \in R /\ r.overallStat = {} /\ r.accounts = as /\ r.pendingTransfers = pt
    BY <2>1
  <2> HIDE DEF r
  <2>3. r = [overallStat |-> r.overallStat, accounts |-> r.accounts,
             pendingTransfers |-> r.pendingTransfers]
    BY <2>2
  <2> QED BY <2>2, <2>3 DEF r
<1>2. ASSUME NEW as, NEW st
      PROVE  [EmptySlice EXCEPT !.overallStat = st, !.accounts = as]
             = [overallStat |-> st, accounts |-> as, pendingTransfers |-> {}]
  <2> DEFINE R == [overallStat: {{}, st}, accounts: {NoAccounts, as}, pendingTransfers: {{}}]
             r == [EmptySlice EXCEPT !.overallStat = st, !.accounts = as]
  <2>1. EmptySlice \in R /\ EmptySlice.pendingTransfers = {}
    BY DEF EmptySlice
  <2>2. r \in R /\ r.overallStat = st /\ r.accounts = as /\ r.pendingTransfers = {}
    BY <2>1
  <2> HIDE DEF r
  <2>3. r = [overallStat |-> r.overallStat, accounts |-> r.accounts,
             pendingTransfers |-> r.pendingTransfers]
    BY <2>2
  <2> QED BY <2>2, <2>3 DEF r
<1> QED BY <1>1, <1>2

LEMMA AccountFields ==
  ASSUME NEW account \in AccountData
  PROVE  /\ account.amount \in UInt /\ account.amount \in Int
         /\ account.pending_amount \in SInt /\ account.pending_amount \in Int
BY Widths DEF AccountData

LEMMA CommandFields ==
  ASSUME NEW cmd \in Command
  PROVE  /\ cmd.type \in {"transfer", "process", "inject", "close"}
         /\ cmd.type = "transfer" =>
              cmd.from \in AccountNames /\ cmd.to \in AccountNames /\ cmd.amount \in Amounts
         /\ cmd.type = "inject" => cmd.to \in AccountNames /\ cmd.amount \in Amounts
         /\ cmd.type = "close" => cmd.which \in AccountNames
BY DEF Command

LEMMA PendTyped ==
  ASSUME NEW account \in AccountData, NEW n \in Int
  PROVE  Pend(account, n) \in AccountData
<1>1. account.pending_amount + n \in Int
  BY AccountFields
<1>2. ToSInt(account.pending_amount + n) \in SInt
  BY <1>1, Wraps
<1> QED BY <1>2 DEF Pend, AccountData

LEMMA SettledTyped ==
  ASSUME NEW account \in AccountData
  PROVE  Settled(account) \in AccountData
<1>1. account.amount + account.pending_amount \in Int
  BY AccountFields
<1>2. ToUInt(account.amount + account.pending_amount) \in UInt
  BY <1>1, Wraps
<1> QED BY <1>2, Widths DEF Settled, AccountData

LEMMA TransferSliceTyped ==
  ASSUME NEW d, NEW cmd \in Command, IsData(d), cmd.type = "transfer", Valid(d, cmd)
  PROVE  IsSlice(TransferSlice(d, cmd))
<1> DEFINE sent == [d.accounts EXCEPT ![cmd.from] = Pend(d.accounts[cmd.from], -cmd.amount)]
           done == [sent EXCEPT ![cmd.to] = Pend(sent[cmd.to], cmd.amount)]
           as == [a \in {cmd.from, cmd.to} |-> {done[a]}]
           new == [from |-> cmd.from, to |-> cmd.to, amount |-> cmd.amount]
           list == Append(d.pendingTransfers, new)
<1>1. /\ cmd.from \in AccountNames /\ cmd.to \in AccountNames
      /\ cmd.amount \in Int /\ -cmd.amount \in Int /\ cmd.amount \in Amounts
  BY CommandFields, Widths
<1>2. /\ {cmd.from, cmd.to} \subseteq DOMAIN d.accounts
      /\ Len(d.pendingTransfers) < PENDING_TRANSFER_SIZE_LIMIT
  BY DEF Valid
<1>3. d.accounts \in [DOMAIN d.accounts -> AccountData] /\ DOMAIN d.accounts \subseteq AccountNames
  BY DEF IsData
<1>4. sent \in [DOMAIN d.accounts -> AccountData]
  <2>1. Pend(d.accounts[cmd.from], -cmd.amount) \in AccountData
    BY <1>1, <1>2, <1>3, PendTyped
  <2> QED BY <1>3, <2>1
<1>5. done \in [DOMAIN d.accounts -> AccountData]
  <2> HIDE DEF sent
  <2>1. Pend(sent[cmd.to], cmd.amount) \in AccountData
    BY <1>1, <1>2, <1>4, PendTyped
  <2> QED BY <1>4, <2>1
<1>6. DOMAIN as \subseteq AccountNames /\ as \in [DOMAIN as -> Option(AccountData)]
  <2> HIDE DEF done
  <2>1. \A a \in {cmd.from, cmd.to} : {done[a]} \in Option(AccountData)
    BY <1>2, <1>5, Options
  <2> QED BY <1>1, <2>1
<1>7. list \in Lists
  <2>1. new \in Transfers
    BY <1>1 DEF Transfers
  <2>2. d.pendingTransfers \in Seq(Transfers) /\ PENDING_TRANSFER_SIZE_LIMIT \in Nat
    BY AccountsOK DEF IsData, AccountsAssumption
  <2> HIDE DEF new
  <2> QED BY <1>2, <2>1, <2>2 DEF Lists
<1>8. TransferSlice(d, cmd) =
        [overallStat |-> {}, accounts |-> as, pendingTransfers |-> {list}]
  BY SliceFields DEF TransferSlice
<1> HIDE DEF as, list
<1>9. {} \in Option(Total) /\ {list} \in Option(Lists)
  BY <1>7, Options
<1> QED BY <1>6, <1>8, <1>9, MakeSlice

LEMMA ProcessSliceTyped ==
  ASSUME NEW d, IsData(d)
  PROVE  IsSlice(ProcessSlice(d))
<1> DEFINE dom == Affected(d) \cap DOMAIN d.accounts
           as == [a \in dom |-> {Settled(d.accounts[a])}]
<1>1. d.accounts \in [DOMAIN d.accounts -> AccountData] /\ DOMAIN d.accounts \subseteq AccountNames
  BY DEF IsData
<1>2. \A a \in DOMAIN d.accounts : {Settled(d.accounts[a])} \in Option(AccountData)
  BY <1>1, SettledTyped, Options
<1>3. DOMAIN as \subseteq AccountNames /\ as \in [DOMAIN as -> Option(AccountData)]
  BY <1>1, <1>2
<1>4. ProcessSlice(d) = [overallStat |-> {}, accounts |-> as, pendingTransfers |-> {<<>>}]
  BY SliceFields DEF ProcessSlice
<1>5. <<>> \in Lists
  BY AccountsOK DEF Lists, AccountsAssumption
<1>6. {} \in Option(Total) /\ {<<>>} \in Option(Lists)
  BY <1>5, Options
<1> HIDE DEF as
<1> QED BY <1>3, <1>4, <1>6, MakeSlice

LEMMA InjectSliceTyped ==
  ASSUME NEW d, NEW cmd \in Command, IsData(d), cmd.type = "inject"
  PROVE  IsSlice(InjectSlice(d, cmd))
<1> DEFINE old == IF cmd.to \in DOMAIN d.accounts THEN d.accounts[cmd.to]
                  ELSE [amount |-> 0, pending_amount |-> 0]
           n == ToUInt(old.amount + cmd.amount)
           st == ToTotal(d.overallStat + n - old.amount)
           as == [a \in {cmd.to} |-> {[old EXCEPT !.amount = n]}]
<1>1. cmd.to \in AccountNames /\ cmd.amount \in Int
  BY CommandFields, Widths
<1>2. old \in AccountData
  BY Widths DEF IsData, AccountData
<1> HIDE DEF old
<1>3. old.amount \in Int /\ d.overallStat \in Int
  BY <1>2, AccountFields, Widths DEF IsData
<1>4. n \in UInt /\ n \in Int
  <2>1. old.amount + cmd.amount \in Int
    BY <1>1, <1>3
  <2> QED BY <2>1, Wraps, Widths
<1> HIDE DEF n
<1>5. st \in Total
  <2>1. d.overallStat + n - old.amount \in Int
    BY <1>3, <1>4
  <2> QED BY <2>1, Wraps
<1>6. [old EXCEPT !.amount = n] \in AccountData
  BY <1>2, <1>4 DEF AccountData
<1>7. DOMAIN as \subseteq AccountNames /\ as \in [DOMAIN as -> Option(AccountData)]
  BY <1>1, <1>6, Options
<1>8. InjectSlice(d, cmd) = [overallStat |-> {st}, accounts |-> as, pendingTransfers |-> {}]
  BY SliceFields DEF InjectSlice, old, n
<1> HIDE DEF st, as
<1>9. {st} \in Option(Total) /\ {} \in Option(Lists)
  BY <1>5, Options
<1> QED BY <1>7, <1>8, <1>9, MakeSlice

LEMMA EmptySliceTyped == IsSlice(EmptySlice)
BY Options DEF EmptySlice, NoAccounts, IsSlice, Part, Whole

LEMMA CloseSliceTyped ==
  ASSUME NEW d, NEW cmd \in Command, IsData(d), cmd.type = "close"
  PROVE  IsSlice(CloseSlice(d, cmd))
<1>1. CASE cmd.which \notin DOMAIN d.accounts
  BY <1>1, EmptySliceTyped DEF CloseSlice
<1>2. CASE cmd.which \in DOMAIN d.accounts
  <2> DEFINE old == d.accounts[cmd.which]
             oldAmount == ToSInt(ToSInt(old.amount) + old.pending_amount)
             st == IF oldAmount > 0 /\ d.overallStat < oldAmount THEN 0
                   ELSE ToTotal(d.overallStat - oldAmount)
             as == [a \in {cmd.which} |-> {}]
  <2>1. old \in AccountData /\ d.overallStat \in Int
    BY <1>2, Widths DEF IsData
  <2> HIDE DEF old
  <2>2. old.amount \in Int /\ old.pending_amount \in Int
    BY <2>1, AccountFields
  <2>3. oldAmount \in Int
    <3>1. ToSInt(old.amount) \in Int
      BY <2>2, Wraps, Widths
    <3>2. ToSInt(old.amount) + old.pending_amount \in Int
      BY <2>2, <3>1
    <3> QED BY <3>2, Wraps, Widths
  <2> HIDE DEF oldAmount
  <2>4. st \in Total
    <3>1. d.overallStat - oldAmount \in Int
      BY <2>1, <2>3
    <3> QED BY <3>1, Wraps, Widths
  <2>5. DOMAIN as \subseteq AccountNames /\ as \in [DOMAIN as -> Option(AccountData)]
    BY CommandFields, Options
  <2>6. CloseSlice(d, cmd) = [overallStat |-> {st}, accounts |-> as, pendingTransfers |-> {}]
    BY <1>2, SliceFields DEF CloseSlice, old, oldAmount
  <2> HIDE DEF st, as
  <2>7. {st} \in Option(Total) /\ {} \in Option(Lists)
    BY <2>4, Options
  <2> QED BY <2>5, <2>6, <2>7, MakeSlice
<1> QED BY <1>1, <1>2

LEMMA SliceTyped ==
  ASSUME NEW d, NEW cmd \in Command, IsData(d), Valid(d, cmd)
  PROVE  IsSlice(SliceOf(d, cmd))
BY CommandFields, TransferSliceTyped, ProcessSliceTyped, InjectSliceTyped, CloseSliceTyped
   DEF SliceOf

-----------------------------------------------------------------------------
(* The types of the variables, and how often a command is still to be taken *)

MapsTo(S) == UNION {[names -> S] : names \in SUBSET AccountNames}

WholeSet(Stats, Accts, Pends) ==
  [overallStat: Stats, accounts: MapsTo(Accts), pendingTransfers: Pends]

Revisions == [data: WholeSet(Total, AccountData, Lists), version: WholeSet(Nat, Nat, Nat)]
Slices == WholeSet(Option(Total), Option(AccountData), Option(Lists))

LEMMA WholeSetIsWhole ==
  ASSUME NEW w, NEW Stats, NEW Accts, NEW Pends
  PROVE  w \in WholeSet(Stats, Accts, Pends) <=> Whole(w, Stats, Accts, Pends)
<1>1. ASSUME NEW f PROVE f \in MapsTo(Accts) <=>
        DOMAIN f \subseteq AccountNames /\ f \in [DOMAIN f -> Accts]
  BY DEF MapsTo
<1>2. ASSUME w \in WholeSet(Stats, Accts, Pends) PROVE Whole(w, Stats, Accts, Pends)
  BY <1>1, <1>2 DEF WholeSet, Whole
<1>3. ASSUME Whole(w, Stats, Accts, Pends) PROVE w \in WholeSet(Stats, Accts, Pends)
  <2>1. w.accounts \in MapsTo(Accts)
    BY <1>1, <1>3 DEF Whole
  <2> QED BY <1>3, <2>1 DEF WholeSet, Whole
<1> QED BY <1>2, <1>3

Requests == [cmd: Command, left: SUBSET Servers, effects: Nat]
Begun == [stage: {"begun"}, client: Clients]
Decided == [stage: {"decided"}, client: Clients, slice: Slices]

Types ==
  /\ lockChoice \in LockChoices /\ transport \in Transports
  /\ lockChoice = "Local" => transport = "queue"
  /\ history \in Seq(Revisions) /\ history # <<>>
  /\ view \in [Clients -> 1..Len(history)]
  /\ copy \in [Servers -> 1..Len(history)]
  /\ request \in [Clients -> {NoRequest} \cup Requests]
  /\ work \in [Servers -> {Idle} \cup Begun \cup Decided]
  /\ given \in 0..MaxCommands

\* the servers that are at a command of c
Busy(c) == {s \in Servers : work[s] # Idle /\ work[s].client = c}

\* A command is open as long as it is to be taken or a server is at it; each
\* server that may still carry it out is counted, and a queue has only one.
Counted(c) ==
  IF request[c] = NoRequest THEN Busy(c) = {}
  ELSE /\ request[c].left \cap Busy(c) = {}
       /\ request[c].effects + Cardinality(request[c].left \cup Busy(c))
            <= Cardinality(Servers)
       /\ transport = "queue" =>
            /\ request[c].effects = 0
            /\ request[c].left = {} \/ Busy(c) = {}
            /\ \A s, t \in Busy(c) : s = t

TypesInv == Types /\ \A c \in Clients : Counted(c)

LEMMA Kinds ==
  /\ NoRequest.left = {} /\ NoRequest \notin Requests
  /\ Idle.stage = "idle" /\ Idle \notin Begun /\ Idle \notin Decided
  /\ \A w \in {Idle} \cup Begun \cup Decided :
       /\ w # Idle => w.client \in Clients /\ w.stage \in {"begun", "decided"}
       /\ w.stage = "decided" => w \in Decided /\ w.slice \in Slices
       /\ w.stage \in {"begun", "decided"} => w # Idle
  /\ \A q \in Requests : q.left \subseteq Servers /\ q.effects \in Nat /\ q.cmd \in Command
<1>1. NoRequest.left = {} /\ NoRequest \notin Requests
  <2>1. DOMAIN NoRequest = {"left"}
    BY DEF NoRequest
  <2>2. \A q \in Requests : "cmd" \in DOMAIN q
    BY DEF Requests
  <2> QED BY <2>1, <2>2 DEF NoRequest
<1>2. Idle.stage = "idle" /\ Idle \notin Begun /\ Idle \notin Decided
  BY DEF Idle, Begun, Decided
<1>3. ASSUME NEW w \in {Idle} \cup Begun \cup Decided
      PROVE  /\ w # Idle => w.client \in Clients /\ w.stage \in {"begun", "decided"}
             /\ w.stage = "decided" => w \in Decided /\ w.slice \in Slices
             /\ w.stage \in {"begun", "decided"} => w # Idle
  BY <1>2 DEF Begun, Decided
<1>4. \A q \in Requests : q.left \subseteq Servers /\ q.effects \in Nat /\ q.cmd \in Command
  BY DEF Requests
<1> QED BY <1>1, <1>2, <1>3, <1>4

LEMMA RevisionFields ==
  ASSUME NEW r \in Revisions
  PROVE  IsData(r.data) /\ IsVersion(r.version)
BY DataIsWhole, WholeSetIsWhole DEF Revisions

LEMMA MakeRevision ==
  ASSUME NEW d, NEW v, IsData(d), IsVersion(v)
  PROVE  [data |-> d, version |-> v] \in Revisions
BY DataIsWhole, WholeSetIsWhole DEF Revisions

LEMMA SliceIsSlice == \A p : p \in Slices <=> IsSlice(p)
BY WholeSetIsWhole DEF Slices, IsSlice, Part

\* What the history holds at a position, and at its end.
LEMMA HistoryAt ==
  ASSUME Types
  PROVE  /\ Len(history) \in Nat \ {0} /\ Len(history) \in 1..Len(history)
         /\ \A i \in 1..Len(history) :
              history[i] \in Revisions /\ IsData(history[i].data) /\ IsVersion(history[i].version)
         /\ Latest \in Revisions /\ IsData(Latest.data) /\ IsVersion(Latest.version)
<1>1. history \in Seq(Revisions) /\ history # <<>>
  BY DEF Types
<1> HIDE DEF Revisions
<1>2. Len(history) \in Nat \ {0} /\ Len(history) \in 1..Len(history)
  BY <1>1
<1>3. \A i \in 1..Len(history) : history[i] \in Revisions
  BY <1>1
<1> QED BY <1>2, <1>3, RevisionFields DEF Latest

LEMMA InitialRevisionTyped ==
  /\ InitialRevision \in Revisions /\ LocalRevision \in Revisions
<1> DEFINE dom == DOMAIN InitialAmounts
           as == [a \in dom |-> [amount |-> InitialAmounts[a], pending_amount |-> 0]]
           ones == [a \in dom |-> 1]
           d == [overallStat |-> SumFunction(InitialAmounts), accounts |-> as,
                 pendingTransfers |-> <<>>]
           v(st, pt) == [overallStat |-> st, accounts |-> ones, pendingTransfers |-> pt]
<1>1. /\ dom \subseteq AccountNames /\ InitialAmounts \in [dom -> Amounts]
      /\ SumFunction(InitialAmounts) \in Total /\ IsFiniteSet(dom)
  BY ServersOK DEF ServersAssumption
<1>2. DOMAIN as \subseteq AccountNames /\ as \in [DOMAIN as -> AccountData]
  BY <1>1, Widths DEF AccountData
<1>3. DOMAIN ones \subseteq AccountNames /\ ones \in [DOMAIN ones -> Nat]
  BY <1>1
<1>4. <<>> \in Lists
  BY AccountsOK DEF Lists, AccountsAssumption
<1> HIDE DEF as, ones
<1>5. IsData(d)
  BY <1>1, <1>2, <1>4, MakeWhole, DataIsWhole
<1>6. ASSUME NEW st \in Nat, NEW pt \in Nat PROVE IsVersion(v(st, pt))
  BY <1>3, MakeWhole, DataIsWhole
<1>7. Cardinality(dom) \in Nat
  BY <1>1, FS_CardinalityType
<1>8. InitialRevision = [data |-> d, version |-> v(Cardinality(dom), 0)]
  BY DEF InitialRevision, as, ones
<1> HIDE DEF d, v
<1>9. InitialRevision \in Revisions
  BY <1>5, <1>6, <1>7, <1>8, MakeRevision
<1>10. LocalRevision = [data |-> d, version |-> v(1, 1)]
  <2>1. LocalRevision = [InitialRevision EXCEPT !.version.overallStat = 1,
                                               !.version.pendingTransfers = 1]
    BY DEF LocalRevision
  <2> QED BY <1>8, <2>1 DEF v
<1> QED BY <1>5, <1>6, <1>9, <1>10, MakeRevision

-----------------------------------------------------------------------------
(* Every step keeps TypesInv. *)

LEMMA CountedInit == Init => TypesInv
<1> SUFFICES ASSUME Init PROVE TypesInv
  OBVIOUS
<1>1. /\ lockChoice \in LockChoices /\ transport \in Transports
      /\ lockChoice = "Local" => transport = "queue"
      /\ history = <<IF lockChoice = "Local" THEN LocalRevision ELSE InitialRevision>>
      /\ view = [c \in Clients |-> 1] /\ request = [c \in Clients |-> NoRequest]
      /\ copy = [s \in Servers |-> 1] /\ work = [s \in Servers |-> Idle] /\ given = 0
  BY DEF Init
<1>2. history \in Seq(Revisions) /\ history # <<>> /\ Len(history) = 1
  <2> DEFINE r == IF lockChoice = "Local" THEN LocalRevision ELSE InitialRevision
  <2>1. r \in Revisions
    BY InitialRevisionTyped
  <2> HIDE DEF r, Revisions
  <2>2. history = <<r>>
    BY <1>1 DEF r
  <2> QED BY <2>1, <2>2
<1>3. Types
  <2>1. MaxCommands \in Nat
    BY ServersOK DEF ServersAssumption
  <2> HIDE DEF Revisions
  <2> QED BY <1>1, <1>2, <2>1 DEF Types
<1>4. ASSUME NEW c \in Clients PROVE Counted(c)
  BY <1>1 DEF Counted, Busy
<1> QED BY <1>3, <1>4 DEF TypesInv

\* A client gives a command; no server is at one of its.
LEMMA GiveTypes ==
  ASSUME TypesInv, NEW c \in Clients, Give(c)
  PROVE  TypesInv'
<1>1. PICK at \in view[c]..Len(history), cmd \in Command :
        /\ view' = [view EXCEPT ![c] = at]
        /\ request' = [request EXCEPT ![c] = [cmd |-> cmd, left |-> Servers, effects |-> 0]]
  BY DEF Give
<1>2. /\ request[c] = NoRequest /\ given < Allowance /\ given' = given + 1
      /\ lockChoice' = lockChoice /\ transport' = transport
      /\ history' = history /\ copy' = copy /\ work' = work
  BY DEF Give, mode
<1>3. Types /\ \A d \in Clients : Counted(d)
  BY DEF TypesInv
<1>4. at \in 1..Len(history)
  BY <1>3, HistoryAt DEF Types
<1>5. given' \in 0..MaxCommands
  BY <1>2, <1>3, ServersOK DEF Types, Allowance, ServersAssumption
<1> DEFINE q == [cmd |-> cmd, left |-> Servers, effects |-> 0]
<1>6. q \in Requests /\ q # NoRequest /\ q.left = Servers /\ q.effects = 0
  BY Kinds DEF Requests
<1> HIDE DEF q
<1>7. request' = [request EXCEPT ![c] = q]
  BY <1>1 DEF q
<1>8. Types'
  <2>1. view' \in [Clients -> 1..Len(history)]
    BY <1>1, <1>3, <1>4 DEF Types
  <2>2. request' \in [Clients -> {NoRequest} \cup Requests]
    BY <1>3, <1>6, <1>7 DEF Types
  <2> HIDE DEF Revisions, Requests
  <2> QED BY <1>2, <1>3, <1>5, <2>1, <2>2 DEF Types
<1>9. ASSUME NEW d \in Clients PROVE Counted(d)'
  <2>1. Busy(d)' = Busy(d)
    BY <1>2 DEF Busy
  <2>2. CASE d = c
    <3>1. request'[d] = q /\ Busy(d) = {}
      BY <1>2, <1>3, <1>7, <2>2 DEF Types, Counted
    <3>2. q.left \cup Busy(d) = Servers /\ Cardinality(Servers) \in Nat
      BY <1>6, <3>1, ServersOK, FS_CardinalityType DEF ServersAssumption
    <3> QED BY <1>6, <2>1, <3>1, <3>2 DEF Counted
  <2>3. CASE d # c
    <3>1. request'[d] = request[d]
      BY <1>3, <1>7, <2>3 DEF Types
    <3> QED BY <1>2, <1>3, <2>1, <3>1 DEF Counted
  <2> QED BY <2>2, <2>3
<1> QED BY <1>8, <1>9 DEF TypesInv

\* A server takes a command that is left for it.
LEMMA BeginTypes ==
  ASSUME TypesInv, NEW s \in Servers, NEW c \in Clients, Begin(s, c)
  PROVE  TypesInv'
<1> DEFINE b == [stage |-> "begun", client |-> c]
           q == [request[c] EXCEPT !.left = LeftTo(request[c].left, s)]
<1>1. /\ s \in request[c].left /\ work[s] = Idle
      /\ work' = [work EXCEPT ![s] = b] /\ request' = [request EXCEPT ![c] = q]
      /\ lockChoice' = lockChoice /\ transport' = transport
      /\ history' = history /\ copy' = copy /\ view' = view /\ given' = given
  BY DEF Begin, mode
<1>2. Types /\ \A d \in Clients : Counted(d)
  BY DEF TypesInv
<1>3. request[c] \in Requests /\ request[c] # NoRequest
  BY <1>1, <1>2, Kinds DEF Types
<1>4. b \in Begun /\ b # Idle /\ b.client = c
  BY Kinds DEF Begun
<1>5. /\ q \in Requests /\ q # NoRequest
      /\ q.left = LeftTo(request[c].left, s) /\ q.effects = request[c].effects
      /\ q.cmd = request[c].cmd
  BY <1>3, Kinds DEF Requests, LeftTo
<1> HIDE DEF b, q
<1>6. Types'
  <2> HIDE DEF Revisions, Requests, Begun, Decided, Idle, NoRequest
  <2>1. request' \in [Clients -> {NoRequest} \cup Requests]
    BY <1>1, <1>2, <1>5 DEF Types
  <2>2. work' \in [Servers -> {Idle} \cup Begun \cup Decided]
    BY <1>1, <1>2, <1>4 DEF Types
  <2> QED BY <1>1, <1>2, <2>1, <2>2 DEF Types
<1>7. ASSUME NEW d \in Clients, d # c PROVE Counted(d)'
  <2>1. request'[d] = request[d]
    BY <1>1, <1>2, <1>7 DEF Types
  <2>2. \A r \in Servers : work'[r] = IF r = s THEN b ELSE work[r]
    BY <1>1, <1>2 DEF Types
  <2>3. Busy(d)' = Busy(d)
    BY <1>1, <1>4, <1>7, <2>2 DEF Busy
  <2> QED BY <1>1, <1>2, <2>1, <2>3 DEF Counted
<1>8. Counted(c)'
  <2> DEFINE left == request[c].left
             rest == LeftTo(left, s)
  <2>1. /\ left \cap Busy(c) = {} /\ s \in left /\ left \subseteq Servers
        /\ request[c].effects + Cardinality(left \cup Busy(c)) <= Cardinality(Servers)
        /\ transport = "queue" => request[c].effects = 0 /\ (left = {} \/ Busy(c) = {})
    BY <1>1, <1>2, <1>3, Kinds DEF Counted
  <2>2. \A r \in Servers : work'[r] = IF r = s THEN b ELSE work[r]
    BY <1>1, <1>2 DEF Types
  <2>3. Busy(c)' = Busy(c) \cup {s}
    BY <1>4, <2>2 DEF Busy
  <2>4. request'[c] = q
    BY <1>1, <1>2 DEF Types
  <2>5. rest \cap (Busy(c) \cup {s}) = {} /\ rest \subseteq left
    BY <2>1 DEF LeftTo
  <2>6. /\ Cardinality(rest \cup (Busy(c) \cup {s})) <= Cardinality(left \cup Busy(c))
        /\ Cardinality(rest \cup (Busy(c) \cup {s})) \in Nat
        /\ Cardinality(left \cup Busy(c)) \in Nat
    <3>1. IsFiniteSet(left \cup Busy(c))
      <4>1. left \cup Busy(c) \subseteq Servers
        BY <2>1 DEF Busy
      <4> QED BY <4>1, ServersOK, FS_Subset DEF ServersAssumption
    <3>2. rest \cup (Busy(c) \cup {s}) \subseteq left \cup Busy(c)
      BY <2>1, <2>5
    <3> QED BY <3>1, <3>2, FS_Subset, FS_CardinalityType
  <2>7. Cardinality(Servers) \in Nat /\ request[c].effects \in Nat
    BY <1>3, Kinds, ServersOK, FS_CardinalityType DEF ServersAssumption
  <2>8. request[c].effects + Cardinality(rest \cup (Busy(c) \cup {s})) <= Cardinality(Servers)
    BY <2>1, <2>6, <2>7
  <2>9. transport = "queue" =>
          rest = {} /\ \A r, t \in Busy(c) \cup {s} : r = t
    BY <2>1 DEF LeftTo
  <2> HIDE DEF left, rest
  <2>10. q.left = rest /\ q.effects = request[c].effects
    BY <1>5 DEF left, rest
  <2> QED BY <1>1, <1>5, <2>1, <2>3, <2>4, <2>5, <2>8, <2>9, <2>10 DEF Counted
<1> QED BY <1>6, <1>7, <1>8 DEF TypesInv

LEMMA FollowTypes ==
  ASSUME TypesInv, NEW s \in Servers, Follow(s)
  PROVE  TypesInv'
<1>1. /\ copy[s] < Len(history) /\ copy' = [copy EXCEPT ![s] = copy[s] + 1]
      /\ lockChoice' = lockChoice /\ transport' = transport /\ history' = history
      /\ view' = view /\ request' = request /\ work' = work /\ given' = given
  BY DEF Follow, mode
<1>2. Types /\ \A d \in Clients : Counted(d)
  BY DEF TypesInv
<1>3. copy' \in [Servers -> 1..Len(history)]
  <2>1. copy[s] + 1 \in 1..Len(history)
    BY <1>1, <1>2, HistoryAt DEF Types
  <2> QED BY <1>1, <1>2, <2>1 DEF Types
<1>4. Types'
  <2> HIDE DEF Revisions, Requests, Begun, Decided, Idle, NoRequest
  <2> QED BY <1>1, <1>2, <1>3 DEF Types
<1>5. ASSUME NEW d \in Clients PROVE Counted(d)'
  <2>1. Busy(d)' = Busy(d)
    BY <1>1 DEF Busy
  <2> QED BY <1>1, <1>2, <2>1 DEF Counted
<1> QED BY <1>4, <1>5 DEF TypesInv

\* What a server that is at a transaction works on.
LEMMA AtWork ==
  ASSUME TypesInv, NEW s \in Servers, work[s].stage \in {"begun", "decided"}
  PROVE  /\ work[s].client \in Clients /\ work[s] # Idle
         /\ s \in Busy(work[s].client)
         /\ request[work[s].client] \in Requests /\ request[work[s].client] # NoRequest
         /\ request[work[s].client].cmd \in Command
         /\ copy[s] \in 1..Len(history) /\ IsData(history[copy[s]].data)
         /\ view[work[s].client] \in 1..Len(history)
<1>1. Types /\ \A d \in Clients : Counted(d)
  BY DEF TypesInv
<1>2. work[s] \in {Idle} \cup Begun \cup Decided
  BY <1>1 DEF Types
<1>3. work[s] # Idle /\ work[s].client \in Clients
  BY <1>2, Kinds
<1>4. s \in Busy(work[s].client)
  BY <1>3 DEF Busy
<1>5. request[work[s].client] # NoRequest
  BY <1>1, <1>3, <1>4 DEF Counted
<1>6. request[work[s].client] \in Requests /\ request[work[s].client].cmd \in Command
  BY <1>1, <1>3, <1>5, Kinds DEF Types
<1>7. copy[s] \in 1..Len(history) /\ view[work[s].client] \in 1..Len(history)
  BY <1>1, <1>3 DEF Types
<1>8. IsData(history[copy[s]].data)
  BY <1>1, <1>7, HistoryAt
<1> QED BY <1>3, <1>4, <1>5, <1>6, <1>7, <1>8

LEMMA DecideTypes ==
  ASSUME TypesInv, NEW s \in Servers, Decide(s)
  PROVE  TypesInv'
<1> DEFINE c == work[s].client
           sl == SliceOf(history[copy[s]].data, request[c].cmd)
           w == [stage |-> "decided", client |-> c, slice |-> sl]
<1>1. /\ work[s].stage = "begun" /\ Valid(history[copy[s]].data, request[c].cmd)
      /\ work' = [work EXCEPT ![s] = w]
      /\ lockChoice' = lockChoice /\ transport' = transport /\ history' = history
      /\ view' = view /\ request' = request /\ copy' = copy /\ given' = given
  BY DEF Decide, MayDecide, Accepts, mode
<1>2. Types /\ \A d \in Clients : Counted(d)
  BY DEF TypesInv
<1>3. sl \in Slices
  BY <1>1, AtWork, SliceTyped, SliceIsSlice
<1>4. c \in Clients /\ work[s] # Idle
  BY <1>1, AtWork
<1> HIDE DEF sl
<1>5. w \in Decided /\ w # Idle /\ w.client = c
  BY <1>3, <1>4, Kinds DEF Decided
<1> HIDE DEF w, c
<1>6. Types'
  <2> HIDE DEF Revisions, Requests, Begun, Decided, Idle, NoRequest
  <2>1. work' \in [Servers -> {Idle} \cup Begun \cup Decided]
    BY <1>1, <1>2, <1>5 DEF Types
  <2> QED BY <1>1, <1>2, <2>1 DEF Types
<1>7. ASSUME NEW d \in Clients PROVE Counted(d)'
  <2>1. \A r \in Servers : work'[r] = IF r = s THEN w ELSE work[r]
    BY <1>1, <1>2 DEF Types
  <2>2. Busy(d)' = Busy(d)
    BY <1>4, <1>5, <2>1 DEF Busy, c
  <2> QED BY <1>1, <1>2, <2>2 DEF Counted
<1> QED BY <1>6, <1>7 DEF TypesInv

\* What answering does to a request, of which k is the client.
Answered(k, s, e) ==
  IF request[k].left = {} /\ Busy(k) \ {s} = {} THEN NoRequest
  ELSE [request[k] EXCEPT !.effects = request[k].effects + e]

LEMMA AnswerIs ==
  ASSUME TypesInv, NEW s \in Servers, NEW e, Answer(s, e),
         work[s].stage \in {"begun", "decided"}, NEW k \in Clients, k = work[s].client
  PROVE  /\ work' = [work EXCEPT ![s] = Idle]
         /\ request' = [request EXCEPT ![k] = Answered(k, s, e)]
         /\ lockChoice' = lockChoice /\ transport' = transport
         /\ view' = view /\ given' = given
<1> DEFINE last == request[k].left = {} /\ \A r \in Servers \ {s} :
                     work[r] = Idle \/ work[r].client # k
           q == IF last THEN NoRequest
                ELSE [request[k] EXCEPT !.effects = request[k].effects + e]
<1>1. last <=> request[k].left = {} /\ Busy(k) \ {s} = {}
  BY DEF Busy
<1>2. Answered(k, s, e) = q
  BY <1>1 DEF Answered
<1>3. /\ work' = [work EXCEPT ![s] = Idle] /\ request' = [request EXCEPT ![k] = q]
      /\ lockChoice' = lockChoice /\ transport' = transport
      /\ view' = view /\ given' = given
  BY DEF Answer, mode
<1> HIDE DEF q
<1> QED BY <1>2, <1>3

\* A server answers and is done; what it did to the data is typed.
LEMMA AnswerTypes ==
  ASSUME TypesInv, NEW s \in Servers, NEW e \in {0, 1}, Answer(s, e),
         work[s].stage \in {"begun", "decided"},
         history' \in Seq(Revisions), Len(history') \in Nat, Len(history) <= Len(history'),
         copy' \in [Servers -> 1..Len(history')]
  PROVE  TypesInv'
<1>1. PICK k \in Clients : k = work[s].client
  BY AtWork
<1>2. /\ work' = [work EXCEPT ![s] = Idle]
      /\ request' = [request EXCEPT ![k] = Answered(k, s, e)]
      /\ lockChoice' = lockChoice /\ transport' = transport
      /\ view' = view /\ given' = given
  BY <1>1, AnswerIs
<1>3. Types /\ \A d \in Clients : Counted(d)
  BY DEF TypesInv
<1>4. s \in Busy(k) /\ request[k] \in Requests /\ request[k] # NoRequest
  BY <1>1, AtWork
<1> DEFINE more == [request[k] EXCEPT !.effects = request[k].effects + e]
<1>5. /\ more \in Requests /\ more # NoRequest /\ more.left = request[k].left
      /\ more.effects = request[k].effects + e
  <2>1. request[k].effects + e \in Nat
    BY <1>4, Kinds
  <2> QED BY <1>4, <2>1, Kinds DEF Requests
<1>6. Answered(k, s, e) = IF request[k].left = {} /\ Busy(k) \ {s} = {} THEN NoRequest
                          ELSE more
  BY DEF Answered
<1> HIDE DEF more
<1>7. Types'
  <2>1. work' \in [Servers -> {Idle} \cup Begun \cup Decided]
    BY <1>2, <1>3 DEF Types
  <2>2. request' \in [Clients -> {NoRequest} \cup Requests]
    BY <1>2, <1>3, <1>5, <1>6 DEF Types
  <2>3. view' \in [Clients -> 1..Len(history')] /\ history' # <<>>
    BY <1>2, <1>3, HistoryAt DEF Types
  <2> HIDE DEF Revisions, Requests, Begun, Decided, Idle, NoRequest
  <2> QED BY <1>2, <1>3, <2>1, <2>2, <2>3 DEF Types
<1>8. \A r \in Servers : work'[r] = IF r = s THEN Idle ELSE work[r]
  BY <1>2, <1>3 DEF Types
<1>9. ASSUME NEW d \in Clients, d # k PROVE Counted(d)'
  <2>1. request'[d] = request[d]
    BY <1>2, <1>3, <1>9 DEF Types
  <2>2. Busy(d)' = Busy(d)
    BY <1>1, <1>8, <1>9 DEF Busy
  <2>3. Counted(d) /\ transport' = transport
    BY <1>2, <1>3
  <2> QED BY <2>1, <2>2, <2>3 DEF Counted
<1>10. Counted(k)'
  <2>1. Busy(k)' = Busy(k) \ {s}
    BY <1>8 DEF Busy
  <2>2. request'[k] = Answered(k, s, e)
    BY <1>2, <1>3 DEF Types
  <2>3. CASE request[k].left = {} /\ Busy(k) \ {s} = {}
    BY <1>6, <2>1, <2>2, <2>3 DEF Counted
  <2>4. CASE ~ (request[k].left = {} /\ Busy(k) \ {s} = {})
    <3> DEFINE left == request[k].left
               fx == request[k].effects
               all == left \cup Busy(k)
    <3>1. /\ left \cap Busy(k) = {} /\ left \subseteq Servers
          /\ fx + Cardinality(all) <= Cardinality(Servers)
          /\ transport = "queue" => /\ left = {} \/ Busy(k) = {}
                                    /\ \A r, t \in Busy(k) : r = t
      BY <1>3, <1>4, Kinds DEF Counted
    <3>2. transport # "queue"
      BY <1>4, <2>4, <3>1
    <3>3. left \cup (Busy(k) \ {s}) = all \ {s} /\ s \in all
      BY <1>4, <3>1
    <3>4. IsFiniteSet(all) /\ Cardinality(Servers) \in Nat
      <4>1. all \subseteq Servers
        BY <3>1 DEF Busy
      <4> QED BY <4>1, ServersOK, FS_Subset, FS_CardinalityType DEF ServersAssumption
    <3> HIDE DEF all
    <3>5. Cardinality(all \ {s}) = Cardinality(all) - 1 /\ Cardinality(all) \in Nat
      BY <3>3, <3>4, FS_RemoveElement, FS_CardinalityType
    <3>6. fx \in Nat
      BY <1>4, Kinds
    <3>7. fx + e + Cardinality(all \ {s}) <= Cardinality(Servers)
      BY <3>1, <3>4, <3>5, <3>6
    <3>8. request'[k] = more /\ more # NoRequest /\ more.left = left /\ more.effects = fx + e
      BY <1>5, <1>6, <2>2, <2>4
    <3> HIDE DEF left, fx
    <3> QED BY <1>2, <2>1, <3>1, <3>2, <3>3, <3>7, <3>8 DEF Counted
  <2> QED BY <2>3, <2>4
<1> QED BY <1>7, <1>9, <1>10 DEF TypesInv

LEMMA StillTypes ==
  ASSUME TypesInv, NEW s \in Servers, NEW e \in {0, 1}, Answer(s, e),
         work[s].stage \in {"begun", "decided"}, history' = history, copy' = copy
  PROVE  TypesInv'
<1>1. history \in Seq(Revisions) /\ Len(history) \in Nat /\ copy \in [Servers -> 1..Len(history)]
  BY HistoryAt DEF TypesInv, Types
<1>2. Len(history') <= Len(history')
  BY <1>1
<1> HIDE DEF Revisions
<1> QED BY <1>1, <1>2, AnswerTypes

LEMMA AppendTypes ==
  ASSUME TypesInv, NEW s \in Servers, NEW e \in {0, 1}, Answer(s, e),
         work[s].stage \in {"begun", "decided"}, NEW r \in Revisions,
         history' = Append(history, r),
         copy' = copy \/ copy' = [t \in Servers |-> Len(history')]
  PROVE  TypesInv'
<1>1. history \in Seq(Revisions) /\ Len(history) \in Nat /\ copy \in [Servers -> 1..Len(history)]
  BY HistoryAt DEF TypesInv, Types
<1> HIDE DEF Revisions
<1>2. history' \in Seq(Revisions) /\ Len(history') = Len(history) + 1
  BY <1>1
<1>3. copy' \in [Servers -> 1..Len(history')]
  BY <1>1, <1>2
<1> QED BY <1>1, <1>2, <1>3, AnswerTypes

LEMMA RefuseTypes ==
  ASSUME TypesInv, NEW s \in Servers, Refuse(s) \/ FailurePrecondition(s)
  PROVE  TypesInv'
BY StillTypes DEF Refuse, FailurePrecondition, MayDecide

LEMMA HandleUpdateTypes ==
  ASSUME TypesInv, NEW s \in Servers, HandleUpdate(s)
  PROVE  TypesInv'
<1>1. work[s].stage = "decided" /\ Answer(s, Effect(s)) /\ copy' = copy
  BY DEF HandleUpdate
<1>2. Effect(s) \in {0, 1}
  BY DEF Effect
<1>3. CASE Effect(s) = 0
  BY <1>1, <1>3, StillTypes DEF HandleUpdate
<1>4. CASE Effect(s) = 1
  <2> DEFINE r == [data |-> Apply(Latest.data, work[s].slice),
                   version |-> NextVersion(Latest.version, work[s].slice)]
  <2>1. IsSlice(work[s].slice)
    BY <1>1, Kinds, SliceIsSlice DEF TypesInv, Types
  <2>2. IsData(Latest.data) /\ IsVersion(Latest.version)
    BY HistoryAt DEF TypesInv
  <2>3. IsData(Apply(Latest.data, work[s].slice))
    BY <2>1, <2>2, ApplyWhole, DataIsWhole DEF IsSlice
  <2>4. r \in Revisions
    BY <2>1, <2>2, <2>3, NextVersionWhole, MakeRevision
  <2>5. history' = Append(history, r)
    BY <1>4 DEF HandleUpdate
  <2> HIDE DEF r
  <2> QED BY <1>1, <1>4, <2>4, <2>5, AppendTypes
<1> QED BY <1>2, <1>3, <1>4

LEMMA HandleUpdateLocallyTypes ==
  ASSUME TypesInv, NEW s \in Servers, HandleUpdateLocally(s)
  PROVE  TypesInv'
<1> DEFINE r == [data |-> Apply(Latest.data, work[s].slice),
                 version |-> Apply(Latest.version, VersionSlice(work[s].client))]
<1>1. /\ work[s].stage = "decided" /\ Answer(s, 1) /\ history' = Append(history, r)
      /\ copy' = [t \in Servers |-> Len(history')]
  BY DEF HandleUpdateLocally
<1>2. IsSlice(work[s].slice)
  BY <1>1, Kinds, SliceIsSlice DEF TypesInv, Types
<1>3. /\ IsData(Latest.data) /\ IsVersion(Latest.version)
      /\ IsVersion(history[view[work[s].client]].version)
  BY <1>1, AtWork, HistoryAt DEF TypesInv
<1>4. IsData(Apply(Latest.data, work[s].slice))
  BY <1>2, <1>3, ApplyWhole, DataIsWhole DEF IsSlice
<1>5. Part(VersionSlice(work[s].client), Nat, Nat, Nat)
  BY <1>1, <1>3, AtWork, NamedPart, DataIsWhole DEF VersionSlice
<1>6. IsVersion(Apply(Latest.version, VersionSlice(work[s].client)))
  BY <1>3, <1>5, ApplyWhole, DataIsWhole
<1>7. r \in Revisions
  BY <1>4, <1>6, MakeRevision
<1> HIDE DEF r
<1> QED BY <1>1, <1>7, AppendTypes

LEMMA TypesStep == TypesInv /\ [Next]_vars => TypesInv'
<1> SUFFICES ASSUME TypesInv, [Next]_vars PROVE TypesInv'
  OBVIOUS
<1>1. CASE \E c \in Clients : Give(c)
  BY <1>1, GiveTypes
<1>2. CASE \E s \in Servers, c \in Clients : Begin(s, c)
  BY <1>2, BeginTypes
<1>3. ASSUME NEW s \in Servers, Serve(s) PROVE TypesInv'
  BY <1>3, FollowTypes, DecideTypes, RefuseTypes, HandleUpdateTypes, HandleUpdateLocallyTypes
     DEF Serve
<1>4. CASE UNCHANGED vars
  <2>1. /\ lockChoice' = lockChoice /\ transport' = transport /\ history' = history
        /\ view' = view /\ request' = request /\ copy' = copy /\ work' = work
        /\ given' = given
    BY <1>4 DEF vars, mode
  <2>2. Types'
    BY <2>1 DEF TypesInv, Types
  <2>3. ASSUME NEW d \in Clients PROVE Counted(d)'
    <3>1. Busy(d)' = Busy(d)
      BY <2>1 DEF Busy
    <3> QED BY <2>1, <3>1 DEF TypesInv, Counted
  <2> QED BY <2>2, <2>3 DEF TypesInv
<1> QED BY <1>1, <1>2, <1>3, <1>4 DEF Next

LEMMA TypesCorrect == Spec => []TypesInv
<1>1. Init => TypesInv
  BY CountedInit
<1>2. TypesInv /\ [Next]_vars => TypesInv'
  BY TypesStep
<1> QED BY <1>1, <1>2, PTL DEF Spec

\* Every variable keeps its type, for every width of the numbers: nothing that
\* is computed leaves its field, the list of pending transfers stays within its
\* limit, and a command is not carried out more often than there are servers
\* (TransactionInterface.cpp, TransactionServerComponents).
THEOREM TransactionsTypeCorrect == Spec => []TypeOK
<1>1. TypesInv => TypeOK
  <2> SUFFICES ASSUME TypesInv PROVE TypeOK
    OBVIOUS
  <2>1. Types /\ \A c \in Clients : Counted(c)
    BY DEF TypesInv
  <2>2. \A i \in 1..Len(history) : IsData(history[i].data) /\ IsVersion(history[i].version)
    BY <2>1, HistoryAt
  <2>3. ASSUME NEW c \in Clients, request[c] # NoRequest
        PROVE  request[c] \in [cmd: Command, left: SUBSET Servers,
                               effects: 0..Cardinality(Servers)]
    <3> DEFINE all == request[c].left \cup Busy(c)
               fx == request[c].effects
    <3>1. request[c] \in Requests
      BY <2>1, <2>3 DEF Types
    <3>2. Cardinality(all) \in Nat /\ Cardinality(Servers) \in Nat /\ fx \in Nat
      <4>1. all \subseteq Servers
        BY <3>1, Kinds DEF Busy
      <4>2. IsFiniteSet(all)
        BY <4>1, ServersOK, FS_Subset DEF ServersAssumption
      <4> QED BY <3>1, <4>2, Kinds, ServersOK, FS_CardinalityType DEF ServersAssumption
    <3>3. fx + Cardinality(all) <= Cardinality(Servers)
      BY <2>1, <2>3 DEF Counted
    <3>4. fx \in 0..Cardinality(Servers)
      <4> HIDE DEF fx, all
      <4> QED BY <3>2, <3>3
    <3> QED BY <3>1, <3>4 DEF Requests
  <2>4. ASSUME NEW s \in Servers, work[s] # Idle
        PROVE  work[s].stage \in {"begun", "decided"} /\ work[s].client \in Clients
    BY <2>1, <2>4, Kinds DEF Types
  <2> HIDE DEF Revisions
  <2> QED BY <2>1, <2>2, <2>3, <2>4 DEF Types, TypeOK
<1> QED BY <1>1, TypesCorrect, PTL

-----------------------------------------------------------------------------
(* What any step does to the history, to a request and to a transaction.    *)

\* s writes to the history.
Writes(s) == \/ HandleUpdate(s) /\ Effect(s) = 1
             \/ HandleUpdateLocally(s)

Written(s) ==
  [data |-> Apply(Latest.data, work[s].slice),
   version |-> IF lockChoice = "Local"
               THEN Apply(Latest.version, VersionSlice(work[s].client))
               ELSE NextVersion(Latest.version, work[s].slice)]

LEMMA WriteIs ==
  ASSUME TypesInv, NEW s \in Servers, Writes(s)
  PROVE  /\ work[s].stage = "decided" /\ Answer(s, 1)
         /\ history' = Append(history, Written(s))
         /\ Len(history') = Len(history) + 1 /\ Latest' = Written(s)
         /\ \A i \in 1..Len(history) : history'[i] = history[i]
         /\ lockChoice' = lockChoice
<1>1. work[s].stage = "decided" /\ Answer(s, 1)
  BY DEF Writes, HandleUpdate, HandleUpdateLocally
<1>2. history' = Append(history, Written(s))
  BY DEF Writes, HandleUpdate, HandleUpdateLocally, Written
<1>3. history \in Seq(Revisions)
  BY DEF TypesInv, Types
<1> HIDE DEF Revisions, Written
<1> DEFINE r == Written(s)
<1>4. r = Written(s)
  OBVIOUS
<1> HIDE DEF r
<1>5. history' = Append(history, r) /\ Len(history) \in Nat
  BY <1>2, <1>3, <1>4
<1>6. /\ Len(history') = Len(history) + 1 /\ history'[Len(history) + 1] = r
      /\ \A i \in 1..Len(history) : history'[i] = history[i]
  BY <1>3, <1>5, AppendProperties
<1> QED BY <1>1, <1>2, <1>4, <1>6 DEF Answer, mode, Latest

LEMMA HistoryStep ==
  ASSUME TypesInv, [Next]_vars
  PROVE  history' = history \/ \E s \in Servers : Writes(s)
BY DEF Next, Serve, Give, Begin, Follow, Decide, Refuse, HandleUpdate, FailurePrecondition,
       Writes, Effect, vars

\* The four things that may become of a request.
LEMMA RequestStep ==
  ASSUME TypesInv, [Next]_vars, NEW d \in Clients
  PROVE  \/ request'[d] = request[d] /\ view'[d] = view[d]
         \/ Give(d)
         \/ request'[d] = NoRequest
         \/ /\ request[d] \in Requests /\ request'[d].cmd = request[d].cmd
            /\ view'[d] = view[d]
            /\ \/ request'[d].effects = request[d].effects
               \/ \E s \in Servers : work[s].client = d /\ Writes(s)
<1>1. Types
  BY DEF TypesInv
<1>2. ASSUME NEW c \in Clients, Give(c), c # d
      PROVE  request'[d] = request[d] /\ view'[d] = view[d]
  BY <1>1, <1>2 DEF Give, Types
<1>3. ASSUME NEW s \in Servers, NEW c \in Clients, Begin(s, c)
      PROVE  \/ request'[d] = request[d] /\ view'[d] = view[d]
             \/ /\ request[d] \in Requests /\ request'[d].cmd = request[d].cmd
                /\ view'[d] = view[d] /\ request'[d].effects = request[d].effects
  <2> DEFINE q == [request[c] EXCEPT !.left = LeftTo(request[c].left, s)]
  <2>1. request' = [request EXCEPT ![c] = q] /\ view' = view /\ s \in request[c].left
    BY <1>3 DEF Begin
  <2>2. request[c] \in Requests
    BY <1>1, <2>1, Kinds DEF Types
  <2>3. q.cmd = request[c].cmd /\ q.effects = request[c].effects
    BY <2>2 DEF Requests
  <2> HIDE DEF q
  <2>4. request'[d] = IF d = c THEN q ELSE request[d]
    BY <1>1, <2>1 DEF Types
  <2> QED BY <2>1, <2>2, <2>3, <2>4
<1>4. ASSUME NEW s \in Servers, NEW e \in {0, 1}, Answer(s, e),
             work[s].stage \in {"begun", "decided"}, e = 0 \/ Writes(s)
      PROVE  \/ request'[d] = request[d] /\ view'[d] = view[d]
             \/ request'[d] = NoRequest
             \/ /\ request[d] \in Requests /\ request'[d].cmd = request[d].cmd
                /\ view'[d] = view[d]
                /\ \/ request'[d].effects = request[d].effects
                   \/ work[s].client = d /\ Writes(s)
  <2>1. PICK k \in Clients : k = work[s].client
    BY <1>4, AtWork
  <2> DEFINE q == [request[k] EXCEPT !.effects = request[k].effects + e]
  <2>2. request' = [request EXCEPT ![k] = Answered(k, s, e)] /\ view' = view
    BY <1>4, <2>1, AnswerIs
  <2>3. request[k] \in Requests
    BY <1>4, <2>1, AtWork
  <2>4. q.cmd = request[k].cmd /\ (e = 0 => q.effects = request[k].effects)
    BY <2>3 DEF Requests
  <2>5. Answered(k, s, e) = NoRequest \/ Answered(k, s, e) = q
    BY DEF Answered
  <2> HIDE DEF q
  <2>6. request'[d] = IF d = k THEN Answered(k, s, e) ELSE request[d]
    BY <1>1, <2>2 DEF Types
  <2> QED BY <1>4, <2>1, <2>2, <2>3, <2>4, <2>5, <2>6
<1>5. ASSUME NEW s \in Servers, HandleUpdate(s)
      PROVE  Effect(s) \in {0, 1} /\ (Effect(s) = 0 \/ Writes(s))
  BY <1>5 DEF Effect, Writes
<1>6. CASE \E c \in Clients : Give(c)
  BY <1>2, <1>6
<1>7. ASSUME NEW s \in Servers, Follow(s) \/ Decide(s)
      PROVE  request'[d] = request[d] /\ view'[d] = view[d]
  BY <1>7 DEF Follow, Decide
<1>8. ASSUME NEW s \in Servers, Refuse(s) \/ FailurePrecondition(s)
      PROVE  Answer(s, 0) /\ work[s].stage \in {"begun", "decided"}
  BY <1>8 DEF Refuse, FailurePrecondition, MayDecide
<1>9. ASSUME NEW s \in Servers, HandleUpdate(s)
      PROVE  Answer(s, Effect(s)) /\ work[s].stage \in {"begun", "decided"}
  BY <1>9 DEF HandleUpdate
<1>10. ASSUME NEW s \in Servers, HandleUpdateLocally(s)
      PROVE  Answer(s, 1) /\ work[s].stage \in {"begun", "decided"} /\ Writes(s)
  BY <1>10 DEF HandleUpdateLocally, Writes
<1>11. CASE UNCHANGED vars
  BY <1>11 DEF vars
<1> QED BY <1>3, <1>4, <1>5, <1>6, <1>7, <1>8, <1>9, <1>10, <1>11 DEF Next, Serve

\* A server that has decided did so for the request that is still open.
LEMMA DecidedStep ==
  ASSUME TypesInv, TypesInv', [Next]_vars, NEW s \in Servers, work'[s].stage = "decided"
  PROVE  \E k \in Clients :
           /\ work[s].client = k /\ work'[s].client = k
           /\ request[k] \in Requests /\ request'[k] \in Requests /\ request[k] # NoRequest
           /\ request'[k].cmd = request[k].cmd /\ view'[k] = view[k]
           /\ \/ work[s].stage = "decided" /\ work'[s] = work[s]
              \/ Decide(s) /\ work'[s].slice = SliceOf(history[copy[s]].data, request[k].cmd)
<1>1. Types /\ Types'
  BY DEF TypesInv
<1>2. \/ work'[s] = work[s]
      \/ Decide(s)
  <2>1. ASSUME NEW t \in Servers, NEW e, Answer(t, e), t # s PROVE work'[s] = work[s]
    BY <1>1, <2>1 DEF Answer, Types
  <2>2. ASSUME NEW e, Answer(s, e) PROVE FALSE
    <3>1. work'[s] = Idle
      BY <1>1, <2>2 DEF Answer, Types
    <3> QED BY <3>1, Kinds
  <2>3. ASSUME NEW t \in Servers, NEW c \in Clients, Begin(t, c) PROVE work'[s] = work[s]
    <3>1. work' = [work EXCEPT ![t] = [stage |-> "begun", client |-> c]]
      BY <2>3 DEF Begin
    <3>2. CASE t = s
      <4>1. work'[s] = [stage |-> "begun", client |-> c]
        BY <1>1, <3>1, <3>2 DEF Types
      <4>2. work'[s].stage = "begun"
        BY <4>1
      <4> QED BY <4>2
    <3>3. CASE t # s
      BY <1>1, <3>1, <3>3 DEF Types
    <3> QED BY <3>2, <3>3
  <2>4. ASSUME NEW t \in Servers, Decide(t), t # s PROVE work'[s] = work[s]
    BY <1>1, <2>4 DEF Decide, Types
  <2>5. ASSUME NEW t \in Servers, Serve(t) PROVE work'[s] = work[s] \/ Decide(s)
    <3>1. CASE Follow(t)
      BY <3>1 DEF Follow
    <3>2. CASE Decide(t)
      BY <2>4, <3>2
    <3>3. CASE \E e : Answer(t, e)
      BY <2>1, <2>2, <3>3
    <3> QED BY <2>5, <3>1, <3>2, <3>3
         DEF Serve, Refuse, HandleUpdate, FailurePrecondition, HandleUpdateLocally
  <2>6. CASE \E c \in Clients : Give(c)
    BY <2>6 DEF Give
  <2>7. CASE UNCHANGED vars
    BY <2>7 DEF vars
  <2> QED BY <2>3, <2>5, <2>6, <2>7 DEF Next
<1>3. work[s].stage \in {"begun", "decided"} /\ work'[s].client = work[s].client
  <2>1. CASE Decide(s)
    <3> DEFINE w == [stage |-> "decided", client |-> work[s].client,
                     slice |-> SliceOf(history[copy[s]].data, request[work[s].client].cmd)]
    <3>1. work' = [work EXCEPT ![s] = w] /\ work[s].stage = "begun"
      BY <2>1 DEF Decide, MayDecide
    <3>2. w.client = work[s].client
      OBVIOUS
    <3> HIDE DEF w
    <3>3. work'[s] = w
      BY <1>1, <3>1 DEF Types
    <3> QED BY <3>1, <3>2, <3>3
  <2> QED BY <1>2, <2>1
<1>4. PICK k \in Clients : k = work[s].client
  BY <1>3, AtWork
<1>5. request[k] \in Requests /\ request[k] # NoRequest /\ s \in Busy(k)
  BY <1>3, <1>4, AtWork
<1>6. request'[k] \in Requests
  <2>1. work'[s] \in {Idle} \cup Begun \cup Decided
    BY <1>1 DEF Types
  <2>2. s \in Busy(k)'
    BY <1>3, <1>4, <2>1, Kinds DEF Busy
  <2>3. Counted(k)'
    BY DEF TypesInv
  <2>4. request'[k] # NoRequest
    BY <2>2, <2>3 DEF Counted
  <2> QED BY <1>1, <2>4 DEF Types
<1>7. request'[k].cmd = request[k].cmd /\ view'[k] = view[k]
  <2>1. ~ Give(k)
    BY <1>5 DEF Give
  <2> QED BY <1>6, <2>1, RequestStep, Kinds
<1>8. Decide(s) => work'[s].slice = SliceOf(history[copy[s]].data, request[k].cmd)
  <2> SUFFICES ASSUME Decide(s)
               PROVE  work'[s].slice = SliceOf(history[copy[s]].data, request[k].cmd)
    OBVIOUS
  <2> DEFINE sl == SliceOf(history[copy[s]].data, request[k].cmd)
             w == [stage |-> "decided", client |-> k, slice |-> sl]
  <2>1. work' = [work EXCEPT ![s] = w]
    BY <1>4 DEF Decide
  <2>2. w.slice = sl
    OBVIOUS
  <2> HIDE DEF w
  <2> QED BY <1>1, <2>1, <2>2 DEF Types
<1>9. Decide(s) \/ (work[s].stage = "decided" /\ work'[s] = work[s])
  BY <1>2
<1> QED BY <1>3, <1>4, <1>5, <1>6, <1>7, <1>8, <1>9

-----------------------------------------------------------------------------
(* A command is carried out once: whoever writes first makes the versions    *)
(* old that its client named.                                                *)

\* What a slice writes follows from the command.
Fits(p, cmd) ==
  /\ cmd.type = "transfer" => p.pendingTransfers # {}
  /\ cmd.type = "inject" => p.overallStat # {}
  /\ cmd.type = "close" => p = EmptySlice \/ p.overallStat # {}
  /\ cmd.type # "close" => \A a \in DOMAIN p.accounts : p.accounts[a] # {}

LEMMA SliceFits ==
  ASSUME NEW d, NEW cmd \in Command
  PROVE  Fits(SliceOf(d, cmd), cmd)
<1>1. CASE cmd.type = "transfer"
  <2>1. SliceOf(d, cmd) = TransferSlice(d, cmd)
    BY <1>1 DEF SliceOf
  <2>2. /\ TransferSlice(d, cmd).pendingTransfers # {}
        /\ \A a \in DOMAIN TransferSlice(d, cmd).accounts : TransferSlice(d, cmd).accounts[a] # {}
    BY SliceFields DEF TransferSlice
  <2> QED BY <1>1, <2>1, <2>2 DEF Fits
<1>2. CASE cmd.type = "process"
  <2>1. SliceOf(d, cmd) = ProcessSlice(d)
    BY <1>2 DEF SliceOf
  <2>2. \A a \in DOMAIN ProcessSlice(d).accounts : ProcessSlice(d).accounts[a] # {}
    BY SliceFields DEF ProcessSlice
  <2> QED BY <1>2, <2>1, <2>2 DEF Fits
<1>3. CASE cmd.type = "inject"
  <2>1. SliceOf(d, cmd) = InjectSlice(d, cmd)
    BY <1>3 DEF SliceOf
  <2>2. /\ InjectSlice(d, cmd).overallStat # {}
        /\ \A a \in DOMAIN InjectSlice(d, cmd).accounts : InjectSlice(d, cmd).accounts[a] # {}
    BY SliceFields DEF InjectSlice
  <2> QED BY <1>3, <2>1, <2>2 DEF Fits
<1>4. CASE cmd.type = "close"
  <2>1. SliceOf(d, cmd) = CloseSlice(d, cmd)
    BY <1>4 DEF SliceOf
  <2>2. CloseSlice(d, cmd) = EmptySlice \/ CloseSlice(d, cmd).overallStat # {}
    BY SliceFields DEF CloseSlice
  <2> QED BY <1>4, <2>1, <2>2 DEF Fits
<1> QED BY <1>1, <1>2, <1>3, <1>4, CommandFields

\* What a client names.
LEMMA NamedIs ==
  ASSUME NEW w, NEW cmd \in Command
  PROVE  /\ cmd.type = "transfer" => Named(cmd, w).pendingTransfers = {w.pendingTransfers}
         /\ cmd.type = "inject" \/ (cmd.type = "close" /\ ~ cmd.unchecked) =>
              Named(cmd, w).overallStat = {w.overallStat}
         /\ cmd.type = "process" \/ (cmd.type = "close" /\ cmd.unchecked) =>
              Named(cmd, w) = EmptySlice
<1>1. cmd.type = "process" => Named(cmd, w) = EmptySlice
  BY DEF Named, EmptySlice, NoAccounts
<1> QED BY <1>1 DEF Named

\* What a write adds to a version.
LEMMA VersionGrows ==
  ASSUME NEW v, NEW p, IsVersion(v), IsSlice(p)
  PROVE  /\ NextVersion(v, p).overallStat =
              IF p.overallStat = {} THEN v.overallStat ELSE v.overallStat + 1
         /\ NextVersion(v, p).pendingTransfers =
              IF p.pendingTransfers = {} THEN v.pendingTransfers ELSE v.pendingTransfers + 1
<1>1. p.overallStat \in Option(Total) /\ p.pendingTransfers \in Option(Lists)
  BY DEF IsSlice, Part, Whole
<1>2. ASSUME NEW S, NEW o \in Option(S)
      PROVE  Cardinality(o) = IF o = {} THEN 0 ELSE 1
  <2>1. CASE o = {}
    BY <2>1, FS_EmptySet
  <2>2. CASE o # {}
    <3>1. PICK x \in S : o = {x}
      BY <2>2, Options
    <3> QED BY <3>1, FS_Singleton
  <2> QED BY <2>1, <2>2
<1>3. v.overallStat \in Nat /\ v.pendingTransfers \in Nat
  BY DEF IsVersion
<1> QED BY <1>1, <1>2, <1>3 DEF NextVersion

\* The command of c is carried out and the versions its client named are old.
Superseded(c) ==
  LET cmd == request[c].cmd
      v == history[view[c]].version
  IN request[c] # NoRequest /\ request[c].effects > 0 =>
       /\ cmd.type = "transfer" => v.pendingTransfers < Latest.version.pendingTransfers
       /\ cmd.type = "inject" \/ (cmd.type = "close" /\ ~ cmd.unchecked) =>
            v.overallStat < Latest.version.overallStat

OnceInv ==
  /\ \A s \in Servers : work[s].stage = "decided" =>
       Fits(work[s].slice, request[work[s].client].cmd)
  /\ \A c \in Clients : Superseded(c)

\* Without --local_test, or over a broadcast, a write is a transaction of etcd.
LEMMA WriteCompares ==
  ASSUME TypesInv, NEW s \in Servers, Writes(s), lockChoice # "Local",
         NEW k \in Clients, k = work[s].client
  PROVE  /\ Compares(k) /\ IsSlice(work[s].slice) /\ work[s].slice # EmptySlice
         /\ IsData(Latest.data) /\ IsVersion(Latest.version)
         /\ Latest'.data = Apply(Latest.data, work[s].slice)
         /\ Latest'.version = NextVersion(Latest.version, work[s].slice)
<1>1. Compares(k) /\ work[s].slice # EmptySlice /\ work[s].stage = "decided"
  BY DEF Writes, HandleUpdate, HandleUpdateLocally, Effect
<1>2. IsSlice(work[s].slice)
  BY <1>1, Kinds, SliceIsSlice DEF TypesInv, Types
<1>3. Latest' = Written(s)
  BY WriteIs
<1>4. /\ Written(s).data = Apply(Latest.data, work[s].slice)
      /\ Written(s).version = NextVersion(Latest.version, work[s].slice)
  BY DEF Written
<1> QED BY <1>1, <1>2, <1>3, <1>4, HistoryAt DEF TypesInv

\* A write makes the versions old that it was compared with.
LEMMA WriteSupersedes ==
  ASSUME TypesInv, OnceInv, NEW s \in Servers, Writes(s), lockChoice # "Local",
         NEW k \in Clients, k = work[s].client
  PROVE  LET cmd == request[k].cmd
             v == history[view[k]].version
         IN /\ cmd.type = "transfer" =>
                 /\ v.pendingTransfers = Latest.version.pendingTransfers
                 /\ v.pendingTransfers < Latest'.version.pendingTransfers
            /\ cmd.type = "inject" \/ (cmd.type = "close" /\ ~ cmd.unchecked) =>
                 /\ v.overallStat = Latest.version.overallStat
                 /\ v.overallStat < Latest'.version.overallStat
<1> DEFINE cmd == request[k].cmd
           v == history[view[k]].version
           p == work[s].slice
<1>1. /\ Compares(k) /\ IsSlice(p) /\ p # EmptySlice /\ IsVersion(Latest.version)
      /\ Latest'.version = NextVersion(Latest.version, p)
  BY WriteCompares
<1>2. cmd \in Command /\ Fits(p, cmd)
  BY WriteIs, AtWork DEF OnceInv
<1>3. VersionSlice(k) = Named(cmd, v)
  BY DEF VersionSlice
<1>4. /\ Latest.version.overallStat \in Nat /\ Latest.version.pendingTransfers \in Nat
  BY <1>1 DEF IsVersion
<1>5. /\ Latest.version.overallStat
           = Value(VersionSlice(k).overallStat, Latest.version.overallStat)
      /\ Latest.version.pendingTransfers
           = Value(VersionSlice(k).pendingTransfers, Latest.version.pendingTransfers)
  BY <1>1 DEF Compares
<1> HIDE DEF cmd, v, p
<1>6. ASSUME cmd.type = "transfer"
      PROVE  /\ v.pendingTransfers = Latest.version.pendingTransfers
             /\ v.pendingTransfers < Latest'.version.pendingTransfers
  <2>1. v.pendingTransfers = Latest.version.pendingTransfers
    BY <1>2, <1>3, <1>5, <1>6, NamedIs, Options
  <2>2. NextVersion(Latest.version, p).pendingTransfers = Latest.version.pendingTransfers + 1
    BY <1>1, <1>2, <1>6, VersionGrows DEF Fits
  <2> QED BY <1>1, <1>4, <2>1, <2>2
<1>7. ASSUME cmd.type = "inject" \/ (cmd.type = "close" /\ ~ cmd.unchecked)
      PROVE  /\ v.overallStat = Latest.version.overallStat
             /\ v.overallStat < Latest'.version.overallStat
  <2>1. v.overallStat = Latest.version.overallStat
    <3>1. VersionSlice(k).overallStat = {v.overallStat}
      BY <1>2, <1>3, <1>7, NamedIs
    <3> QED BY <1>5, <3>1, Options
  <2>2. NextVersion(Latest.version, p).overallStat = Latest.version.overallStat + 1
    BY <1>1, <1>2, <1>7, VersionGrows DEF Fits
  <2> QED BY <1>1, <1>4, <2>1, <2>2
<1> QED BY <1>6, <1>7 DEF cmd, v

\* No write makes a version younger.
LEMMA LatestGrows ==
  ASSUME TypesInv, [Next]_vars, lockChoice # "Local"
  PROVE  /\ Latest.version.overallStat \in Nat /\ Latest.version.pendingTransfers \in Nat
         /\ Latest'.version.overallStat \in Nat /\ Latest'.version.pendingTransfers \in Nat
         /\ Latest.version.overallStat <= Latest'.version.overallStat
         /\ Latest.version.pendingTransfers <= Latest'.version.pendingTransfers
<1>1. IsVersion(Latest.version)
  BY HistoryAt DEF TypesInv
<1>2. Latest.version.overallStat \in Nat /\ Latest.version.pendingTransfers \in Nat
  BY <1>1 DEF IsVersion
<1>3. CASE history' = history
  <2>1. Latest' = Latest
    BY <1>3 DEF Latest
  <2> QED BY <1>2, <2>1
<1>4. ASSUME NEW s \in Servers, Writes(s)
      PROVE  /\ Latest'.version.overallStat \in Nat /\ Latest'.version.pendingTransfers \in Nat
             /\ Latest.version.overallStat <= Latest'.version.overallStat
             /\ Latest.version.pendingTransfers <= Latest'.version.pendingTransfers
  <2>1. PICK k \in Clients : k = work[s].client
    BY <1>4, WriteIs, AtWork
  <2>2. IsSlice(work[s].slice) /\ Latest'.version = NextVersion(Latest.version, work[s].slice)
    BY <1>4, <2>1, WriteCompares
  <2> QED BY <1>1, <1>2, <2>2, VersionGrows
<1> QED BY <1>2, <1>3, <1>4, HistoryStep

\* A queue gives a command to one server only, and so does a local server.
LEMMA OneTaker ==
  ASSUME TypesInv, NEW k \in Clients, request[k] # NoRequest,
         transport = "queue" \/ lockChoice = "Local"
  PROVE  request[k].effects = 0
BY DEF TypesInv, Types, Counted

LEMMA HistoryKept ==
  ASSUME TypesInv, [Next]_vars, NEW i \in 1..Len(history)
  PROVE  history'[i] = history[i] /\ i \in 1..Len(history')
<1>1. Len(history) \in Nat
  BY HistoryAt DEF TypesInv
<1> QED BY <1>1, HistoryStep, WriteIs

LEMMA OnceStep == TypesInv /\ OnceInv /\ TypesInv' /\ [Next]_vars => OnceInv'
<1> SUFFICES ASSUME TypesInv, OnceInv, TypesInv', [Next]_vars PROVE OnceInv'
  OBVIOUS
<1>1. ASSUME NEW s \in Servers, work'[s].stage = "decided"
      PROVE  Fits(work'[s].slice, request'[work'[s].client].cmd)
  <2>1. PICK k \in Clients :
          /\ work[s].client = k /\ work'[s].client = k
          /\ request[k] \in Requests
          /\ request'[k].cmd = request[k].cmd
          /\ \/ work[s].stage = "decided" /\ work'[s] = work[s]
             \/ Decide(s) /\ work'[s].slice = SliceOf(history[copy[s]].data, request[k].cmd)
    BY <1>1, DecidedStep
  <2>2. request[k].cmd \in Command
    BY <2>1, Kinds
  <2>3. CASE work[s].stage = "decided" /\ work'[s] = work[s]
    BY <2>1, <2>3 DEF OnceInv
  <2>4. CASE work'[s].slice = SliceOf(history[copy[s]].data, request[k].cmd)
    BY <2>1, <2>2, <2>4, SliceFits
  <2> QED BY <2>1, <2>3, <2>4
<1>2. ASSUME NEW c \in Clients PROVE Superseded(c)'
  <2> SUFFICES ASSUME request'[c] # NoRequest, request'[c].effects > 0
               PROVE  /\ request'[c].cmd.type = "transfer" =>
                           history'[view'[c]].version.pendingTransfers
                             < Latest'.version.pendingTransfers
                      /\ \/ request'[c].cmd.type = "inject"
                         \/ request'[c].cmd.type = "close" /\ ~ request'[c].cmd.unchecked
                         => history'[view'[c]].version.overallStat < Latest'.version.overallStat
    BY DEF Superseded
  <2>1. ~ Give(c)
    <3> SUFFICES ASSUME Give(c) PROVE FALSE
      OBVIOUS
    <3>1. request'[c].effects = 0
      BY DEF Give, TypesInv, Types
    <3> QED BY <3>1
  <2>2. lockChoice' # "Local" /\ lockChoice' = lockChoice
    <3>1. lockChoice' # "Local"
      <4>1. (request[c] # NoRequest /\ (transport = "queue" \/ lockChoice = "Local")
              => request[c].effects = 0)'
        BY DEF TypesInv, Types, Counted
      <4> QED BY <4>1
    <3>2. lockChoice' = lockChoice
      BY DEF Next, Serve, Give, Begin, Follow, Decide, Refuse, HandleUpdate, FailurePrecondition,
             HandleUpdateLocally, Answer, vars, mode
    <3> QED BY <3>1, <3>2
  <2>3. /\ request[c] # NoRequest /\ request'[c].cmd = request[c].cmd /\ view'[c] = view[c]
        /\ \/ request'[c].effects = request[c].effects
           \/ \E s \in Servers : work[s].client = c /\ Writes(s)
    BY <2>1, RequestStep, Kinds
  <2>4. view[c] \in 1..Len(history) /\ IsVersion(history[view[c]].version)
    BY HistoryAt DEF TypesInv, Types
  <2>5. history'[view'[c]] = history[view[c]]
    BY <2>3, <2>4, HistoryKept
  <2>6. CASE request'[c].effects = request[c].effects
    <3>1. /\ request[c].cmd.type = "transfer" =>
               history[view[c]].version.pendingTransfers < Latest.version.pendingTransfers
          /\ \/ request[c].cmd.type = "inject"
             \/ request[c].cmd.type = "close" /\ ~ request[c].cmd.unchecked
             => history[view[c]].version.overallStat < Latest.version.overallStat
      BY <2>3, <2>6 DEF OnceInv, Superseded
    <3>2. /\ history[view[c]].version.pendingTransfers \in Nat
          /\ history[view[c]].version.overallStat \in Nat
      BY <2>4 DEF IsVersion
    <3>3. /\ Latest.version.overallStat \in Nat /\ Latest.version.pendingTransfers \in Nat
          /\ Latest'.version.overallStat \in Nat /\ Latest'.version.pendingTransfers \in Nat
          /\ Latest.version.overallStat <= Latest'.version.overallStat
          /\ Latest.version.pendingTransfers <= Latest'.version.pendingTransfers
      BY <2>2, LatestGrows
    <3> QED BY <2>3, <2>5, <3>1, <3>2, <3>3
  <2>7. CASE \E s \in Servers : work[s].client = c /\ Writes(s)
    <3>1. PICK s \in Servers : work[s].client = c /\ Writes(s)
      BY <2>7
    <3>2. /\ request[c].cmd.type = "transfer" =>
               history[view[c]].version.pendingTransfers < Latest'.version.pendingTransfers
          /\ \/ request[c].cmd.type = "inject"
             \/ request[c].cmd.type = "close" /\ ~ request[c].cmd.unchecked
             => history[view[c]].version.overallStat < Latest'.version.overallStat
      BY <2>2, <3>1, WriteSupersedes
    <3> QED BY <2>3, <2>5, <3>2
  <2> QED BY <2>3, <2>6, <2>7
<1> QED BY <1>1, <1>2 DEF OnceInv

LEMMA OnceInit == Init => OnceInv
<1> SUFFICES ASSUME Init PROVE OnceInv
  OBVIOUS
<1>1. \A s \in Servers : work[s].stage = "idle"
  BY Kinds DEF Init
<1>2. \A c \in Clients : request[c] = NoRequest
  BY DEF Init
<1> QED BY <1>1, <1>2 DEF OnceInv, Superseded

\* The server whose transaction ends with a write is the one that wrote.
LEMMA OnlyWriterMoves ==
  ASSUME TypesInv, NEW r \in Servers, NEW s \in Servers, Writes(r), work'[s] # work[s]
  PROVE  r = s
<1>1. Types
  BY DEF TypesInv
<1>2. work' = [work EXCEPT ![r] = Idle]
  BY WriteIs DEF Answer
<1> QED BY <1>1, <1>2 DEF Types

\* The write of a command that names versions is its first.
LEMMA WritesOnce ==
  ASSUME TypesInv, OnceInv, [Next]_vars, NEW s \in Servers, Writes(s),
         NEW k \in Clients, k = work[s].client, VersionSlice(k) # EmptySlice
  PROVE  request[k].effects = 0
<1> DEFINE cmd == request[k].cmd
           v == history[view[k]].version
<1>1. request[k] # NoRequest /\ cmd \in Command /\ request[k].effects \in Nat
  BY WriteIs, AtWork, Kinds
<1>2. CASE lockChoice = "Local"
  BY <1>1, <1>2, OneTaker
<1>3. CASE lockChoice # "Local"
  <2>1. /\ cmd.type = "transfer" => v.pendingTransfers = Latest.version.pendingTransfers
        /\ cmd.type = "inject" \/ (cmd.type = "close" /\ ~ cmd.unchecked) =>
             v.overallStat = Latest.version.overallStat
    BY <1>3, WriteSupersedes
  <2>2. cmd.type # "process" /\ ~ (cmd.type = "close" /\ cmd.unchecked)
    BY <1>1, NamedIs DEF VersionSlice
  <2>3. cmd.type \in {"transfer", "inject"} \/ (cmd.type = "close" /\ ~ cmd.unchecked)
    BY <1>1, <2>2, CommandFields
  <2>4. request[k].effects > 0 =>
          /\ cmd.type = "transfer" => v.pendingTransfers < Latest.version.pendingTransfers
          /\ cmd.type = "inject" \/ (cmd.type = "close" /\ ~ cmd.unchecked) =>
               v.overallStat < Latest.version.overallStat
    BY <1>1 DEF OnceInv, Superseded
  <2>5. Latest.version.overallStat \in Nat /\ Latest.version.pendingTransfers \in Nat
    BY <1>3, LatestGrows
  <2> HIDE DEF cmd, v
  <2>6. ~ (request[k].effects > 0)
    BY <2>1, <2>3, <2>4, <2>5
  <2> QED BY <1>1, <2>6
<1> QED BY <1>2, <1>3

\* However many servers a command is broadcast to, it is carried out once if its
\* client named versions (THComponent::handleUpdate compares them in the
\* transaction of etcd), with or without a lock.
THEOREM CarriedOutOnceCorrect == Spec => CarriedOutOnce
<1> DEFINE Once == \A s \in Servers :
             work[s].stage = "decided" /\ history' # history /\ work'[s] # work[s]
               => LET c == work[s].client IN
                  VersionSlice(c) # EmptySlice => request[c].effects = 0
<1>1. Init => OnceInv
  BY OnceInit
<1>2. TypesInv /\ OnceInv /\ [Next]_vars => Once
  <2> SUFFICES ASSUME TypesInv, OnceInv, [Next]_vars, NEW s \in Servers, NEW k,
                      k = work[s].client, work[s].stage = "decided", history' # history,
                      work'[s] # work[s], VersionSlice(k) # EmptySlice
               PROVE  request[k].effects = 0
    OBVIOUS
  <2>1. PICK r \in Servers : Writes(r)
    BY HistoryStep
  <2>2. r = s
    BY <2>1, OnlyWriterMoves
  <2>3. k \in Clients
    BY AtWork
  <2> QED BY <2>1, <2>2, <2>3, WritesOnce
<1>3. TypesInv /\ OnceInv /\ [Next]_vars => [Once]_vars
  BY <1>2
<1> HIDE DEF Once
<1>4. Spec => [][Once]_vars
  BY <1>1, <1>3, OnceStep, TypesCorrect, PTL DEF Spec
<1> QED BY <1>4 DEF CarriedOutOnce, Once

-----------------------------------------------------------------------------
(* A command is carried out on the values its client saw: versions that are   *)
(* equal stand for values that are equal, as long as no version starts again. *)

\* A slice that leaves the sum alone opens and closes no account of d.
Within(p, d) ==
  p.overallStat = {} =>
    /\ DOMAIN p.accounts \subseteq DOMAIN d.accounts
    /\ \A a \in DOMAIN p.accounts : p.accounts[a] # {}

\* What equal versions say of two revisions, p before q: of the sum and which
\* accounts there are, and of the list of pending transfers ...
Before(p, q) ==
  /\ p.version.overallStat <= q.version.overallStat
  /\ p.version.overallStat = q.version.overallStat =>
       /\ p.data.overallStat = q.data.overallStat
       /\ DOMAIN p.data.accounts = DOMAIN q.data.accounts
  /\ p.version.pendingTransfers <= q.version.pendingTransfers
  /\ p.version.pendingTransfers = q.version.pendingTransfers =>
       p.data.pendingTransfers = q.data.pendingTransfers

\* ... and, when no account is closed between them, of an account.
AccountsBefore(p, q) ==
  /\ DOMAIN p.data.accounts \subseteq DOMAIN q.data.accounts
  /\ \A a \in AccountNames :
       LET m == VersionIn(p.version.accounts, a)
           n == VersionIn(q.version.accounts, a)
       IN /\ m <= n
          /\ m = n /\ a \in DOMAIN p.data.accounts =>
               p.data.accounts[a] = q.data.accounts[a]

\* what there is has a version
Known(r) == DOMAIN r.data.accounts \subseteq DOMAIN r.version.accounts

LEMMA VersionNumbers ==
  ASSUME NEW v, IsVersion(v)
  PROVE  /\ v.overallStat \in Nat /\ v.pendingTransfers \in Nat
         /\ \A a : VersionIn(v.accounts, a) \in Nat
BY DEF IsVersion, VersionIn

LEMMA BeforeItself ==
  ASSUME NEW p \in Revisions
  PROVE  Before(p, p) /\ AccountsBefore(p, p)
<1>1. IsVersion(p.version)
  BY RevisionFields
<1> HIDE DEF Revisions
<1> QED BY <1>1, VersionNumbers DEF Before, AccountsBefore

LEMMA BeforeThrough ==
  ASSUME NEW p \in Revisions, NEW q \in Revisions, NEW r \in Revisions
  PROVE  /\ Before(p, q) /\ Before(q, r) => Before(p, r)
         /\ AccountsBefore(p, q) /\ AccountsBefore(q, r) => AccountsBefore(p, r)
<1>1. IsVersion(p.version) /\ IsVersion(q.version) /\ IsVersion(r.version)
  BY RevisionFields
<1> HIDE DEF Revisions
<1>2. ASSUME Before(p, q), Before(q, r) PROVE Before(p, r)
  <2>1. /\ p.version.overallStat \in Nat /\ q.version.overallStat \in Nat
        /\ r.version.overallStat \in Nat /\ p.version.pendingTransfers \in Nat
        /\ q.version.pendingTransfers \in Nat /\ r.version.pendingTransfers \in Nat
    BY <1>1, VersionNumbers
  <2>2. p.version.overallStat <= r.version.overallStat
    BY <1>2, <2>1 DEF Before
  <2>3. p.version.overallStat = r.version.overallStat =>
          /\ p.version.overallStat = q.version.overallStat
          /\ q.version.overallStat = r.version.overallStat
    BY <1>2, <2>1 DEF Before
  <2>4. p.version.pendingTransfers <= r.version.pendingTransfers
    BY <1>2, <2>1 DEF Before
  <2>5. p.version.pendingTransfers = r.version.pendingTransfers =>
          /\ p.version.pendingTransfers = q.version.pendingTransfers
          /\ q.version.pendingTransfers = r.version.pendingTransfers
    BY <1>2, <2>1 DEF Before
  <2> QED BY <1>2, <2>2, <2>3, <2>4, <2>5 DEF Before
<1>3. ASSUME AccountsBefore(p, q), AccountsBefore(q, r) PROVE AccountsBefore(p, r)
  <2>1. ASSUME NEW a \in AccountNames
        PROVE  /\ VersionIn(p.version.accounts, a) <= VersionIn(r.version.accounts, a)
               /\ VersionIn(p.version.accounts, a) = VersionIn(r.version.accounts, a)
                    /\ a \in DOMAIN p.data.accounts
                  => p.data.accounts[a] = r.data.accounts[a]
    <3> DEFINE l == VersionIn(p.version.accounts, a)
               m == VersionIn(q.version.accounts, a)
               n == VersionIn(r.version.accounts, a)
    <3>1. l \in Nat /\ m \in Nat /\ n \in Nat
      BY <1>1, VersionNumbers
    <3>2. l <= m /\ m <= n
      BY <1>3 DEF AccountsBefore
    <3>3. l = m /\ a \in DOMAIN p.data.accounts =>
            a \in DOMAIN q.data.accounts /\ p.data.accounts[a] = q.data.accounts[a]
      BY <1>3 DEF AccountsBefore
    <3>4. m = n /\ a \in DOMAIN q.data.accounts => q.data.accounts[a] = r.data.accounts[a]
      BY <1>3 DEF AccountsBefore
    <3> HIDE DEF l, m, n
    <3>5. l <= n /\ (l = n => l = m /\ m = n)
      BY <3>1, <3>2
    <3> QED BY <3>3, <3>4, <3>5 DEF l, m, n
  <2>2. DOMAIN p.data.accounts \subseteq DOMAIN r.data.accounts
    BY <1>3 DEF AccountsBefore
  <2> QED BY <2>1, <2>2 DEF AccountsBefore
<1> QED BY <1>2, <1>3

\* One write: p is the slice, l what was there, q what is there then.
LEMMA BeforeNext ==
  ASSUME NEW l, NEW q, NEW p, IsData(l.data), IsVersion(l.version), IsSlice(p),
         q.data = Apply(l.data, p), q.version = NextVersion(l.version, p)
  PROVE  /\ Within(p, l.data) => Before(l, q)
         /\ (\A a \in DOMAIN p.accounts : p.accounts[a] # {}) => AccountsBefore(l, q)
         /\ Known(l) => Known(q)
<1>1. l.version.overallStat \in Nat /\ l.version.pendingTransfers \in Nat
  BY VersionNumbers
<1>2. /\ q.version.overallStat =
           IF p.overallStat = {} THEN l.version.overallStat ELSE l.version.overallStat + 1
      /\ q.version.pendingTransfers =
           IF p.pendingTransfers = {} THEN l.version.pendingTransfers
           ELSE l.version.pendingTransfers + 1
  BY VersionGrows
<1> DEFINE closed == {a \in DOMAIN p.accounts : p.accounts[a] = {}}
           dom == (DOMAIN l.data.accounts \cup DOMAIN p.accounts) \ closed
<1>3. /\ q.data.overallStat = Value(p.overallStat, l.data.overallStat)
      /\ q.data.pendingTransfers = Value(p.pendingTransfers, l.data.pendingTransfers)
      /\ DOMAIN q.data.accounts = dom
      /\ \A a \in dom : a \notin DOMAIN p.accounts => q.data.accounts[a] = l.data.accounts[a]
  BY DEF Apply
<1>4. /\ DOMAIN q.version.accounts = DOMAIN l.version.accounts \cup DOMAIN p.accounts
      /\ \A a \in DOMAIN q.version.accounts :
           /\ a \notin DOMAIN p.accounts => q.version.accounts[a] = l.version.accounts[a]
           /\ a \in DOMAIN p.accounts /\ p.accounts[a] # {} =>
                q.version.accounts[a] = VersionIn(l.version.accounts, a) + 1
  BY DEF NextVersion
<1>5. ASSUME Within(p, l.data) PROVE Before(l, q)
  <2>1. p.overallStat = {} =>
          q.data.overallStat = l.data.overallStat /\ DOMAIN q.data.accounts = DOMAIN l.data.accounts
    BY <1>3, <1>5, Options DEF Within
  <2>2. p.pendingTransfers = {} => q.data.pendingTransfers = l.data.pendingTransfers
    BY <1>3, Options
  <2>3. l.version.overallStat <= q.version.overallStat
    BY <1>1, <1>2
  <2>4. l.version.overallStat = q.version.overallStat => p.overallStat = {}
    BY <1>1, <1>2
  <2>5. l.version.pendingTransfers <= q.version.pendingTransfers
    BY <1>1, <1>2
  <2>6. l.version.pendingTransfers = q.version.pendingTransfers => p.pendingTransfers = {}
    BY <1>1, <1>2
  <2> QED BY <2>1, <2>2, <2>3, <2>4, <2>5, <2>6 DEF Before
<1>6. ASSUME \A a \in DOMAIN p.accounts : p.accounts[a] # {} PROVE AccountsBefore(l, q)
  <2>1. DOMAIN l.data.accounts \subseteq DOMAIN q.data.accounts
    BY <1>3, <1>6
  <2>2. ASSUME NEW a \in AccountNames
        PROVE  /\ VersionIn(l.version.accounts, a) <= VersionIn(q.version.accounts, a)
               /\ VersionIn(l.version.accounts, a) = VersionIn(q.version.accounts, a)
                    /\ a \in DOMAIN l.data.accounts
                  => l.data.accounts[a] = q.data.accounts[a]
    <3>1. VersionIn(l.version.accounts, a) \in Nat
      BY VersionNumbers
    <3>2. CASE a \in DOMAIN p.accounts
      <4>1. VersionIn(q.version.accounts, a) = VersionIn(l.version.accounts, a) + 1
        BY <1>4, <1>6, <3>2 DEF VersionIn
      <4> QED BY <3>1, <4>1
    <3>3. CASE a \notin DOMAIN p.accounts
      <4>1. VersionIn(q.version.accounts, a) = VersionIn(l.version.accounts, a)
        BY <1>4, <3>3 DEF VersionIn
      <4>2. a \in DOMAIN l.data.accounts => q.data.accounts[a] = l.data.accounts[a]
        BY <1>3, <3>3
      <4> QED BY <3>1, <4>1, <4>2
    <3> QED BY <3>2, <3>3
  <2> QED BY <2>1, <2>2 DEF AccountsBefore
<1>7. Known(l) => Known(q)
  BY <1>3, <1>4 DEF Known
<1> QED BY <1>5, <1>6, <1>7

LEMMA SliceWithin ==
  ASSUME NEW d, NEW cmd \in Command, Valid(d, cmd)
  PROVE  Within(SliceOf(d, cmd), d)
<1>1. CASE cmd.type = "transfer"
  <2>1. SliceOf(d, cmd) = TransferSlice(d, cmd) /\ {cmd.from, cmd.to} \subseteq DOMAIN d.accounts
    BY <1>1 DEF SliceOf, Valid
  <2>2. /\ DOMAIN TransferSlice(d, cmd).accounts = {cmd.from, cmd.to}
        /\ \A a \in {cmd.from, cmd.to} : TransferSlice(d, cmd).accounts[a] # {}
    BY SliceFields DEF TransferSlice
  <2> QED BY <2>1, <2>2 DEF Within
<1>2. CASE cmd.type = "process"
  <2>1. SliceOf(d, cmd) = ProcessSlice(d)
    BY <1>2 DEF SliceOf
  <2>2. /\ DOMAIN ProcessSlice(d).accounts = Affected(d) \cap DOMAIN d.accounts
        /\ \A a \in DOMAIN ProcessSlice(d).accounts : ProcessSlice(d).accounts[a] # {}
    BY SliceFields DEF ProcessSlice
  <2> QED BY <2>1, <2>2 DEF Within
<1>3. CASE cmd.type = "inject"
  BY <1>3, SliceFits DEF Fits, Within
<1>4. CASE cmd.type = "close"
  <2>1. DOMAIN EmptySlice.accounts = {}
    BY DEF EmptySlice, NoAccounts
  <2> QED BY <1>4, <2>1, SliceFits DEF Fits, Within
<1> QED BY <1>1, <1>2, <1>3, <1>4, CommandFields

\* Whoever closes an account without a lock lets its version start again, so
\* that a client may meet a version it saw before with other values.
NoCloseWithoutLock == "None" \in LockChoices => "close" \notin UnlockedCommands

\* at most one server is at a command where there is a lock
OneAtWork ==
  Serial => \A r, s \in Servers : work[r] # Idle /\ work[s] # Idle => r = s

OpenRequest(c) ==
  request[c] # NoRequest =>
    /\ lockChoice = "None" => request[c].cmd.type # "close"
    /\ Sees(view[c], request[c].cmd)

HistoryInOrder ==
  lockChoice # "Local" =>
    \A i \in 1..Len(history) :
      /\ Known(history[i]) /\ Before(history[i], Latest)
      /\ lockChoice = "None" => AccountsBefore(history[i], Latest)

DecidedOn(s) ==
  work[s].stage = "decided" /\ lockChoice # "Local" =>
    /\ Within(work[s].slice, Latest.data)
    /\ lockChoice = "Compound" => SummaryMatches(Latest.data, Summary(work[s].client))

SawInv ==
  /\ OneAtWork
  /\ \A c \in Clients : OpenRequest(c)
  /\ HistoryInOrder
  /\ \A s \in Servers : DecidedOn(s)

LEMMA ModeKept == [Next]_vars => lockChoice' = lockChoice /\ transport' = transport
BY DEF Next, Serve, Give, Begin, Follow, Decide, Refuse, HandleUpdate, FailurePrecondition,
       HandleUpdateLocally, Answer, vars, mode

LEMMA SawInit == Init => SawInv
<1> SUFFICES ASSUME Init PROVE SawInv
  OBVIOUS
<1>1. \A s \in Servers : work[s] = Idle /\ work[s].stage = "idle"
  BY Kinds DEF Init
<1>2. \A c \in Clients : request[c] = NoRequest
  BY DEF Init
<1>3. ASSUME lockChoice # "Local" PROVE HistoryInOrder
  <2>1. history = <<InitialRevision>>
    BY <1>3 DEF Init
  <2>2. Known(InitialRevision)
    BY DEF Known, InitialRevision
  <2>3. \A i \in 1..Len(history) : history[i] = InitialRevision
    BY <2>1
  <2>4. Latest = InitialRevision
    BY <2>1 DEF Latest
  <2> QED BY <2>2, <2>3, <2>4, InitialRevisionTyped, BeforeItself DEF HistoryInOrder
<1>4. HistoryInOrder
  BY <1>3 DEF HistoryInOrder
<1> QED BY <1>1, <1>2, <1>4 DEF SawInv, OneAtWork, OpenRequest, DecidedOn

LEMMA OneAtWorkStep ==
  ASSUME TypesInv, OneAtWork, [Next]_vars
  PROVE  OneAtWork'
<1> SUFFICES ASSUME Serial', NEW r \in Servers, NEW s \in Servers,
                    work'[r] # Idle, work'[s] # Idle
             PROVE  r = s
  BY DEF OneAtWork
<1>1. Serial /\ Types
  BY ModeKept DEF Serial, TypesInv
<1>2. CASE \E t \in Servers, c \in Clients : Begin(t, c)
  <2>1. PICK t \in Servers, c \in Clients : Begin(t, c)
    BY <1>2
  <2>2. \A u \in Servers : u # t => work'[u] = Idle
    BY <1>1, <2>1 DEF Begin, Types
  <2> QED BY <2>2
<1>3. ASSUME NEW t \in Servers, Decide(t) PROVE \A u \in Servers : work'[u] # Idle => work[u] # Idle
  <2>1. \A u \in Servers : u # t => work'[u] = work[u]
    BY <1>1, <1>3 DEF Decide, Types
  <2>2. work[t] # Idle
    BY <1>3, AtWork DEF Decide, MayDecide
  <2> QED BY <2>1, <2>2
<1>4. ASSUME NEW t \in Servers, NEW e, Answer(t, e)
      PROVE  \A u \in Servers : work'[u] # Idle => work[u] # Idle
  BY <1>1, <1>4 DEF Answer, Types
<1>5. ASSUME NEW t \in Servers, Serve(t) PROVE \A u \in Servers : work'[u] # Idle => work[u] # Idle
  <2>1. CASE Follow(t)
    BY <2>1 DEF Follow
  <2> QED BY <1>3, <1>4, <1>5, <2>1
       DEF Serve, Refuse, HandleUpdate, FailurePrecondition, HandleUpdateLocally
<1>6. CASE \E c \in Clients : Give(c)
  BY <1>1, <1>6 DEF Give, OneAtWork
<1>7. CASE UNCHANGED vars
  BY <1>1, <1>7 DEF vars, OneAtWork
<1> QED BY <1>1, <1>2, <1>5, <1>6, <1>7 DEF Next, OneAtWork

\* What a client saw stays where it was.
LEMMA SeesKept ==
  ASSUME NEW i, NEW cmd, history'[i] = history[i]
  PROVE  Sees(i, cmd)' <=> Sees(i, cmd)
BY DEF Sees

LEMMA OpenRequestStep ==
  ASSUME NoCloseWithoutLock, TypesInv, TypesInv', NEW c \in Clients, OpenRequest(c), [Next]_vars
  PROVE  OpenRequest(c)'
<1> SUFFICES ASSUME request'[c] # NoRequest PROVE OpenRequest(c)'
  BY DEF OpenRequest
<1>1. lockChoice' = lockChoice /\ Types
  BY ModeKept DEF TypesInv
<1>2. CASE Give(c)
  <2>1. PICK at \in view[c]..Len(history), cmd \in Command :
          /\ Offered(cmd) /\ Sees(at, cmd)
          /\ view' = [view EXCEPT ![c] = at]
          /\ request' = [request EXCEPT ![c] = [cmd |-> cmd, left |-> Servers, effects |-> 0]]
    BY <1>2 DEF Give
  <2>2. history' = history
    BY <1>2 DEF Give
  <2>3. view'[c] = at /\ request'[c].cmd = cmd
    BY <1>1, <2>1 DEF Types
  <2>4. lockChoice = "None" => cmd.type # "close"
    BY <1>1, <2>1 DEF Offered, Serial, NoCloseWithoutLock, Types
  <2>5. Sees(at, cmd)'
    BY <2>1, <2>2, SeesKept
  <2> QED BY <1>1, <2>3, <2>4, <2>5 DEF OpenRequest
<1>3. CASE ~ Give(c)
  <2>1. /\ request[c] # NoRequest /\ request'[c].cmd = request[c].cmd
        /\ view'[c] = view[c]
    BY <1>3, RequestStep, Kinds
  <2>2. PICK i \in 1..Len(history) : i = view[c]
    BY <1>1 DEF Types
  <2>3. PICK cmd : cmd = request[c].cmd
    OBVIOUS
  <2>4. history'[i] = history[i]
    BY <2>2, HistoryKept
  <2>5. Sees(i, cmd) /\ (lockChoice = "None" => cmd.type # "close")
    BY <2>1, <2>2, <2>3 DEF OpenRequest
  <2>6. Sees(i, cmd)'
    BY <2>4, <2>5, SeesKept
  <2> QED BY <1>1, <2>1, <2>2, <2>3, <2>5, <2>6 DEF OpenRequest
<1> QED BY <1>2, <1>3

\* What a write does to the order of the history.
LEMMA WriteInOrder ==
  ASSUME TypesInv, OnceInv, SawInv, NEW s \in Servers, Writes(s), lockChoice # "Local"
  PROVE  /\ Known(Latest') /\ Before(Latest, Latest')
         /\ lockChoice = "None" => AccountsBefore(Latest, Latest')
<1>1. PICK k \in Clients : k = work[s].client
  BY WriteIs, AtWork
<1>2. work[s].stage = "decided" /\ request[k] # NoRequest /\ Len(history) \in 1..Len(history)
  BY <1>1, WriteIs, AtWork, HistoryAt DEF TypesInv
<1> DEFINE p == work[s].slice
<1>3. /\ IsSlice(p) /\ IsData(Latest.data) /\ IsVersion(Latest.version)
      /\ Latest'.data = Apply(Latest.data, p)
      /\ Latest'.version = NextVersion(Latest.version, p)
  BY <1>1, WriteCompares
<1>4. Within(p, Latest.data)
  BY <1>2 DEF SawInv, DecidedOn
<1>5. Known(Latest)
  BY <1>2 DEF SawInv, HistoryInOrder, Latest
<1>6. lockChoice = "None" => \A a \in DOMAIN p.accounts : p.accounts[a] # {}
  <2>1. lockChoice = "None" => request[k].cmd.type # "close"
    BY <1>2 DEF SawInv, OpenRequest
  <2>2. Fits(p, request[k].cmd)
    BY <1>1, <1>2 DEF OnceInv
  <2> QED BY <2>1, <2>2 DEF Fits
<1> HIDE DEF p
<1>7. PICK l, q : l = Latest /\ q = Latest'
  OBVIOUS
<1>8. /\ Within(p, l.data) => Before(l, q)
      /\ (\A a \in DOMAIN p.accounts : p.accounts[a] # {}) => AccountsBefore(l, q)
      /\ Known(l) => Known(q)
  BY <1>3, <1>7, BeforeNext
<1> QED BY <1>4, <1>5, <1>6, <1>7, <1>8

LEMMA HistoryInOrderStep ==
  ASSUME TypesInv, TypesInv', OnceInv, SawInv, [Next]_vars
  PROVE  HistoryInOrder'
<1> SUFFICES ASSUME lockChoice # "Local" PROVE HistoryInOrder'
  BY ModeKept DEF HistoryInOrder
<1>1. HistoryInOrder /\ lockChoice' = lockChoice
  BY ModeKept DEF SawInv
<1>2. CASE history' = history
  BY <1>1, <1>2 DEF HistoryInOrder, Latest
<1>3. ASSUME NEW s \in Servers, Writes(s) PROVE HistoryInOrder'
  <2>1. /\ Len(history) \in Nat /\ Len(history') = Len(history) + 1
        /\ \A i \in 1..Len(history) : history'[i] = history[i]
    BY <1>3, WriteIs, HistoryAt DEF TypesInv
  <2>2. PICK l \in Revisions, q \in Revisions : l = Latest /\ q = Latest'
    <3>1. Latest \in Revisions
      BY HistoryAt DEF TypesInv
    <3>2. (Types => Latest \in Revisions)'
      BY HistoryAt, PTL
    <3> HIDE DEF Revisions
    <3> QED BY <3>1, <3>2 DEF TypesInv
  <2>3. Known(q) /\ Before(l, q) /\ (lockChoice = "None" => AccountsBefore(l, q))
    BY <1>3, <2>2, WriteInOrder
  <2>4. ASSUME NEW i \in 1..Len(history')
        PROVE  /\ Known(history'[i]) /\ Before(history'[i], q)
               /\ lockChoice = "None" => AccountsBefore(history'[i], q)
    <3>1. CASE i \in 1..Len(history)
      <4>1. history'[i] = history[i] /\ history[i] \in Revisions
        BY <2>1, <3>1, HistoryAt DEF TypesInv
      <4>2. /\ Known(history[i]) /\ Before(history[i], l)
            /\ lockChoice = "None" => AccountsBefore(history[i], l)
        BY <1>1, <2>2, <3>1 DEF HistoryInOrder
      <4> HIDE DEF Revisions
      <4> QED BY <2>2, <2>3, <4>1, <4>2, BeforeThrough
    <3>2. CASE i = Len(history')
      <4>1. history'[i] = q
        BY <2>2, <3>2 DEF Latest
      <4> HIDE DEF Revisions
      <4> QED BY <2>2, <2>3, <4>1, BeforeItself
    <3> QED BY <2>1, <3>1, <3>2
  <2> QED BY <1>1, <2>2, <2>4 DEF HistoryInOrder
<1> QED BY <1>2, <1>3, HistoryStep

LEMMA SummaryKept ==
  ASSUME NEW k, NEW i, NEW cmd, view[k] = i, view'[k] = i, request[k].cmd = cmd,
         request'[k].cmd = cmd, history'[i] = history[i]
  PROVE  Summary(k)' = Summary(k)
BY DEF Summary, Named

LEMMA DecidedOnStep ==
  ASSUME TypesInv, TypesInv', OnceInv, SawInv, [Next]_vars, NEW s \in Servers
  PROVE  DecidedOn(s)'
<1> SUFFICES ASSUME work'[s].stage = "decided", lockChoice # "Local" PROVE DecidedOn(s)'
  BY ModeKept DEF DecidedOn
<1>1. PICK k \in Clients :
        /\ work[s].client = k /\ work'[s].client = k
        /\ request[k] \in Requests /\ request[k] # NoRequest
        /\ request'[k].cmd = request[k].cmd /\ view'[k] = view[k]
        /\ \/ work[s].stage = "decided" /\ work'[s] = work[s]
           \/ Decide(s) /\ work'[s].slice = SliceOf(history[copy[s]].data, request[k].cmd)
  BY DecidedStep
<1>2. Summary(k)' = Summary(k)
  <2>1. PICK i \in 1..Len(history) : i = view[k]
    BY DEF TypesInv, Types
  <2>2. PICK cmd : cmd = request[k].cmd
    OBVIOUS
  <2>3. history'[i] = history[i]
    BY <2>1, HistoryKept
  <2> QED BY <1>1, <2>1, <2>2, <2>3, SummaryKept
<1>3. lockChoice' = lockChoice /\ HistoryInOrder /\ Types
  BY ModeKept DEF SawInv, TypesInv
<1>4. lockChoice \in {"None", "Compound"}
  BY <1>3, ServersOK DEF Types, ServersAssumption
<1>5. PICK l : l = Latest
  OBVIOUS
<1>6. ASSUME Decide(s) PROVE DecidedOn(s)'
  <2>1. history' = history /\ work[s].stage = "begun"
        /\ Valid(history[copy[s]].data, request[k].cmd)
        /\ SummaryMatches(history[copy[s]].data, Summary(k))
        /\ (Serial => copy[s] = Len(history))
    BY <1>1, <1>6 DEF Decide, MayDecide, Accepts
  <2>2. Latest' = l
    BY <1>5, <2>1 DEF Latest
  <2>3. Within(work'[s].slice, history[copy[s]].data)
    <3>1. request[k].cmd \in Command
      BY <1>1, Kinds
    <3>2. work'[s].slice = SliceOf(history[copy[s]].data, request[k].cmd)
      BY <1>1, <1>6, <2>1
    <3> QED BY <2>1, <3>1, <3>2, SliceWithin
  <2>4. CASE lockChoice = "Compound"
    <3>1. history[copy[s]] = l
      BY <1>5, <2>1, <2>4 DEF Serial, Latest
    <3> QED BY <1>1, <1>2, <1>3, <2>1, <2>2, <2>3, <3>1 DEF DecidedOn
  <2>5. CASE lockChoice = "None"
    <3>1. AccountsBefore(history[copy[s]], l)
      BY <1>3, <1>5, <2>5 DEF HistoryInOrder, Types
    <3>2. Within(work'[s].slice, l.data)
      BY <2>3, <3>1 DEF AccountsBefore, Within
    <3> QED BY <1>3, <2>2, <2>5, <3>2 DEF DecidedOn
  <2> QED BY <1>4, <2>4, <2>5
<1>7. ASSUME work[s].stage = "decided", work'[s] = work[s] PROVE DecidedOn(s)'
  <2>1. /\ Within(work'[s].slice, l.data)
        /\ lockChoice = "Compound" => SummaryMatches(l.data, Summary(k))
    BY <1>1, <1>5, <1>7 DEF SawInv, DecidedOn
  <2>2. CASE history' = history
    <3>1. Latest' = l
      BY <1>5, <2>2 DEF Latest
    <3> QED BY <1>1, <1>2, <1>3, <2>1, <3>1 DEF DecidedOn
  <2>3. ASSUME NEW t \in Servers, Writes(t) PROVE DecidedOn(s)'
    <3>1. work' = [work EXCEPT ![t] = Idle] /\ work[t].stage = "decided"
      BY <2>3, WriteIs DEF Answer
    <3>2. t # s
      BY <1>3, <3>1, Kinds DEF Types
    <3>3. work[t] # Idle /\ work[s] # Idle
      BY <1>7, <3>1, AtWork
    <3>4. lockChoice = "None"
      BY <1>4, <3>2, <3>3 DEF SawInv, OneAtWork, Serial
    <3>5. AccountsBefore(l, Latest')
      BY <1>5, <2>3, <3>4, WriteInOrder
    <3>6. Within(work'[s].slice, Latest'.data)
      BY <2>1, <3>5 DEF AccountsBefore, Within
    <3> QED BY <1>3, <3>4, <3>6 DEF DecidedOn
  <2> QED BY <2>2, <2>3, HistoryStep
<1> QED BY <1>1, <1>6, <1>7

LEMMA SawStep ==
  NoCloseWithoutLock =>
    (TypesInv /\ OnceInv /\ SawInv /\ TypesInv' /\ [Next]_vars => SawInv')
BY OneAtWorkStep, OpenRequestStep, HistoryInOrderStep, DecidedOnStep DEF SawInv

\* Two wholes have the same parts where a command names them.
LEMMA NamedSame ==
  ASSUME NEW w, NEW u, NEW cmd \in Command,
         cmd.type = "transfer" => w.pendingTransfers = u.pendingTransfers,
         cmd.type \in {"inject", "close"} => w.overallStat = u.overallStat,
         \A a : \/ cmd.type = "transfer" /\ a \in {cmd.from, cmd.to}
                \/ cmd.type = "inject" /\ a = cmd.to
                \/ cmd.type = "close" /\ a = cmd.which
                => /\ a \in DOMAIN w.accounts <=> a \in DOMAIN u.accounts
                   /\ a \in DOMAIN w.accounts => w.accounts[a] = u.accounts[a]
  PROVE  Named(cmd, w) = Named(cmd, u)
<1> DEFINE names == CASE cmd.type = "transfer" -> {cmd.from, cmd.to}
                      [] cmd.type = "inject" -> {cmd.to}
                      [] cmd.type = "close" -> {cmd.which}
                      [] OTHER -> {}
           accts(x) == [a \in names \cap DOMAIN x.accounts |-> {x.accounts[a]}]
           stat(x) == IF cmd.type \in {"inject", "close"} THEN {x.overallStat} ELSE {}
           list(x) == IF cmd.type = "transfer" THEN {x.pendingTransfers} ELSE {}
<1>1. \A x : Named(cmd, x) =
               IF cmd.type = "close" /\ cmd.unchecked THEN EmptySlice
               ELSE [overallStat |-> stat(x), accounts |-> accts(x), pendingTransfers |-> list(x)]
  BY DEF Named
<1>2. \A a \in names : /\ a \in DOMAIN w.accounts <=> a \in DOMAIN u.accounts
                       /\ a \in DOMAIN w.accounts => w.accounts[a] = u.accounts[a]
  <2>1. \A a \in names : \/ cmd.type = "transfer" /\ a \in {cmd.from, cmd.to}
                         \/ cmd.type = "inject" /\ a = cmd.to
                         \/ cmd.type = "close" /\ a = cmd.which
    BY CommandFields
  <2> HIDE DEF names
  <2> QED BY <2>1
<1> HIDE DEF names
<1>3. names \cap DOMAIN w.accounts = names \cap DOMAIN u.accounts
  BY <1>2
<1>4. accts(w) = accts(u)
  BY <1>2, <1>3
<1>5. stat(w) = stat(u) /\ list(w) = list(u)
  OBVIOUS
<1> HIDE DEF accts, stat, list
<1> QED BY <1>1, <1>4, <1>5

\* What a client names of the accounts: all it names that are there.
LEMMA NamedAccounts ==
  ASSUME NEW w, NEW cmd \in Command, NEW a \in DOMAIN w.accounts,
         \/ cmd.type = "transfer" /\ a \in {cmd.from, cmd.to}
         \/ cmd.type = "inject" /\ a = cmd.to
         \/ cmd.type = "close" /\ a = cmd.which /\ ~ cmd.unchecked
  PROVE  /\ a \in DOMAIN Named(cmd, w).accounts
         /\ Named(cmd, w).accounts[a] = {w.accounts[a]}
BY DEF Named

\* The values that are written over are those the client saw.
LEMMA WriteOnWhatWasSeen ==
  ASSUME TypesInv, OnceInv, SawInv, NEW s \in Servers, Writes(s), lockChoice # "Local",
         NEW k \in Clients, k = work[s].client
  PROVE  Named(request[k].cmd, Latest.data) = Summary(k)
<1> DEFINE cmd == request[k].cmd
           i == view[k]
           d == history[i].data
           v == history[i].version
<1>1. /\ work[s].stage = "decided" /\ request[k] # NoRequest /\ cmd \in Command
      /\ i \in 1..Len(history) /\ lockChoice \in {"None", "Compound"}
  BY WriteIs, AtWork, ServersOK DEF TypesInv, Types, ServersAssumption
<1>2. /\ Compares(k) /\ VersionSlice(k) = Named(cmd, v) /\ Summary(k) = Named(cmd, d)
  BY WriteCompares DEF VersionSlice, Summary
<1>3. CASE cmd.type = "process" \/ (cmd.type = "close" /\ cmd.unchecked)
  BY <1>1, <1>2, <1>3, NamedIs
<1>4. CASE cmd.type \in {"transfer", "inject"} \/ (cmd.type = "close" /\ ~ cmd.unchecked)
  <2>1. /\ cmd.type = "transfer" => v.pendingTransfers = Latest.version.pendingTransfers
        /\ cmd.type = "inject" \/ (cmd.type = "close" /\ ~ cmd.unchecked) =>
             v.overallStat = Latest.version.overallStat
    BY WriteSupersedes
  <2>2. /\ Known(history[i]) /\ Before(history[i], Latest)
        /\ lockChoice = "None" => AccountsBefore(history[i], Latest)
    BY <1>1 DEF SawInv, HistoryInOrder
  <2>3. Sees(i, cmd)
    BY <1>1 DEF SawInv, OpenRequest
  <2>4. lockChoice = "Compound" => SummaryMatches(Latest.data, Named(cmd, d))
    BY <1>1, <1>2 DEF SawInv, DecidedOn
  <2>5. \A a \in DOMAIN VersionSlice(k).accounts :
          VersionSlice(k).accounts[a] = {VersionIn(Latest.version.accounts, a)}
    BY <1>2 DEF Compares
  <2>6. /\ DOMAIN d.accounts \subseteq DOMAIN v.accounts
        /\ DOMAIN v.accounts \subseteq AccountNames
    BY <1>1, <2>2, HistoryAt DEF Known, TypesInv, IsVersion
  <2>7. cmd.type = "transfer" => d.pendingTransfers = Latest.data.pendingTransfers
    BY <2>1, <2>2 DEF Before
  <2>8. cmd.type # "transfer" =>
          /\ d.overallStat = Latest.data.overallStat
          /\ DOMAIN d.accounts = DOMAIN Latest.data.accounts
    BY <1>4, <2>1, <2>2 DEF Before
  <2>9. ASSUME NEW a, \/ cmd.type = "transfer" /\ a \in {cmd.from, cmd.to}
                      \/ cmd.type = "inject" /\ a = cmd.to
                      \/ cmd.type = "close" /\ a = cmd.which
        PROVE  /\ a \in DOMAIN d.accounts <=> a \in DOMAIN Latest.data.accounts
               /\ a \in DOMAIN d.accounts => d.accounts[a] = Latest.data.accounts[a]
    <3>1. CASE a \in DOMAIN d.accounts
      <4> HIDE DEF cmd, d, v
      <4>1. /\ a \in DOMAIN Named(cmd, d).accounts /\ Named(cmd, d).accounts[a] = {d.accounts[a]}
        BY <1>1, <1>4, <2>9, <3>1, NamedAccounts
      <4>2. CASE lockChoice = "Compound"
        <5>1. PICK m, u : m = Named(cmd, d) /\ u = Latest.data
          OBVIOUS
        <5>2. \A b \in DOMAIN m.accounts : m.accounts[b] # {} =>
                b \in DOMAIN u.accounts /\ m.accounts[b] = {u.accounts[b]}
          BY <2>4, <4>2, <5>1 DEF SummaryMatches
        <5>3. a \in DOMAIN u.accounts /\ {d.accounts[a]} = {u.accounts[a]}
          BY <4>1, <5>1, <5>2
        <5>4. d.accounts[a] = u.accounts[a]
          BY <5>3
        <5> QED BY <3>1, <5>1, <5>3, <5>4
      <4>3. CASE lockChoice = "None"
        <5>1. a \in DOMAIN v.accounts /\ a \in AccountNames
          BY <2>6, <3>1
        <5>2. /\ a \in DOMAIN Named(cmd, v).accounts
              /\ Named(cmd, v).accounts[a] = {v.accounts[a]}
          BY <1>1, <1>4, <2>9, <5>1, NamedAccounts
        <5>3. v.accounts[a] = VersionIn(Latest.version.accounts, a)
          BY <1>2, <2>5, <5>2
        <5>4. VersionIn(v.accounts, a) = VersionIn(Latest.version.accounts, a)
          BY <5>1, <5>3 DEF VersionIn
        <5>5. AccountsBefore(history[i], Latest)
          BY <2>2, <4>3
        <5> QED BY <3>1, <5>1, <5>4, <5>5 DEF AccountsBefore, d, v
      <4> QED BY <1>1, <4>2, <4>3
    <3>2. CASE a \notin DOMAIN d.accounts
      <4>1. cmd.type = "transfer" => a \in DOMAIN d.accounts
        BY <2>3, <2>9 DEF Sees
      <4> QED BY <2>8, <3>2, <4>1
    <3> QED BY <3>1, <3>2
  <2> HIDE DEF cmd, d
  <2>10. PICK u : u = Latest.data
    OBVIOUS
  <2>11. Named(cmd, d) = Named(cmd, u)
    BY <1>1, <2>7, <2>8, <2>9, <2>10, NamedSame
  <2> QED BY <1>2, <2>10, <2>11 DEF cmd
<1> QED BY <1>1, <1>3, <1>4, CommandFields

\* With the compound lock, and without a lock as long as nobody closes accounts
\* then, whatever is written replaces the values the client saw when it gave the
\* command (THComponent::handleUpdate, which compares versions only, and the
\* checks of CheckSummary).
THEOREM ActsOnWhatClientSawCorrect ==
  NoCloseWithoutLock => (Spec => ActsOnWhatClientSaw)
<1> DEFINE Saw == \A s \in Servers : lockChoice # "Local" /\
             work[s].stage = "decided" /\ history' # history /\ work'[s] # work[s]
               => LET c == work[s].client IN
                  Named(request[c].cmd, Latest.data) = Summary(c)
<1> SUFFICES ASSUME NoCloseWithoutLock PROVE Spec => ActsOnWhatClientSaw
  OBVIOUS
<1>1. Init => OnceInv
  BY OnceInit
<1>2. TypesInv /\ OnceInv /\ SawInv /\ TypesInv' /\ [Next]_vars => SawInv'
  BY SawStep
<1>3. TypesInv /\ OnceInv /\ SawInv /\ [Next]_vars => [Saw]_vars
  <2> SUFFICES ASSUME TypesInv, OnceInv, SawInv, [Next]_vars, NEW s \in Servers, NEW k,
                      k = work[s].client, lockChoice # "Local", work[s].stage = "decided",
                      history' # history, work'[s] # work[s]
               PROVE  Named(request[k].cmd, Latest.data) = Summary(k)
    OBVIOUS
  <2>1. PICK r \in Servers : Writes(r)
    BY HistoryStep
  <2>2. r = s
    BY <2>1, OnlyWriterMoves
  <2>3. k \in Clients
    BY AtWork
  <2> QED BY <2>1, <2>2, <2>3, WriteOnWhatWasSeen
<1> HIDE DEF Saw
<1>4. Spec => [][Saw]_vars
  BY <1>1, <1>2, <1>3, SawInit, OnceStep, TypesCorrect, PTL DEF Spec
<1> QED BY <1>4 DEF ActsOnWhatClientSaw, Saw

-----------------------------------------------------------------------------
(* Sums.  SumFunction adds up a function in some order; what it adds up to   *)
(* follows by induction over finite sets, in the form that a set of numbers  *)
(* that is not empty has a least element.                                    *)

LEMMA Least ==
  ASSUME NEW T, T \subseteq Nat, T # {}
  PROVE  \E n \in T : \A m \in T : n <= m
<1>1. PICK x \in T : \A y \in T : ~ (<<y, x>> \in OpToRel(<, Nat))
  BY NatLessThanWellFounded, WFMin
<1>2. \A y \in T : ~ (y < x)
  BY <1>1 DEF OpToRel
<1> QED BY <1>2

One(s) == CHOOSE x \in s : TRUE

\* g adds up f over the subsets of T, one element after the other.
AddsUp(g, f, T) ==
  g = [s \in SUBSET T |-> IF s = {} THEN 0 ELSE f[One(s)] + g[s \ {One(s)}]]

LEMMA OneIn ==
  ASSUME NEW s, s # {}
  PROVE  One(s) \in s
BY DEF One

\* A subset with one element less.
LEMMA Smaller ==
  ASSUME NEW T, IsFiniteSet(T), NEW s \in SUBSET T, NEW a \in s
  PROVE  /\ s \ {a} \in SUBSET T /\ IsFiniteSet(s)
         /\ Cardinality(s) \in Nat /\ Cardinality(s \ {a}) \in Nat
         /\ Cardinality(s \ {a}) = Cardinality(s) - 1
<1>1. IsFiniteSet(s)
  BY FS_Subset
<1> QED BY <1>1, FS_RemoveElement, FS_CardinalityType

\* What holds of a set once it holds of all that are smaller holds of all:
\* here for the set Good of subsets of T.
LEMMA SubsetInduction ==
  ASSUME NEW T, IsFiniteSet(T), NEW Good,
         \A s \in SUBSET T : (\A a \in s : s \ {a} \in Good) => s \in Good
  PROVE  SUBSET T \subseteq Good
<1> DEFINE Bad == {Cardinality(s) : s \in (SUBSET T) \ Good}
<1> SUFFICES ASSUME (SUBSET T) \ Good # {} PROVE FALSE
  OBVIOUS
<1>1. Bad \subseteq Nat /\ Bad # {}
  BY FS_Subset, FS_CardinalityType
<1>2. PICK n \in Bad : \A m \in Bad : n <= m
  BY <1>1, Least
<1>3. PICK s \in (SUBSET T) \ Good : n = Cardinality(s)
  OBVIOUS
<1>4. PICK a \in s : s \ {a} \notin Good
  BY <1>3
<1>5. /\ s \ {a} \in SUBSET T /\ Cardinality(s) \in Nat
      /\ Cardinality(s \ {a}) = Cardinality(s) - 1
  BY <1>3, <1>4, Smaller
<1>6. Cardinality(s \ {a}) \in Bad
  BY <1>4, <1>5
<1> HIDE DEF Bad
<1> QED BY <1>2, <1>3, <1>5, <1>6

\* There is a function that adds up.
LEMMA AddsUpExists ==
  ASSUME NEW T, IsFiniteSet(T), NEW f \in [T -> Int]
  PROVE  \E g : AddsUp(g, f, T)
<1> DEFINE Dom(n) == {s \in SUBSET T : Cardinality(s) <= n}
           Partial(g, n) ==
             g = [s \in Dom(n) |-> IF s = {} THEN 0 ELSE f[One(s)] + g[s \ {One(s)}]]
           Bad == {n \in Nat : ~ \E g : Partial(g, n)}
<1>1. ASSUME Bad # {} PROVE FALSE
  <2>1. PICK n \in Bad : \A m \in Bad : n <= m
    BY <1>1, Least
  <2>2. CASE n = 0
    <3>1. \A s \in Dom(0) : s = {}
      <4>1. ASSUME NEW s \in SUBSET T, Cardinality(s) <= 0, s # {} PROVE FALSE
        <5>1. PICK a \in s : TRUE
          BY <4>1
        <5>2. /\ Cardinality(s) \in Nat /\ Cardinality(s \ {a}) \in Nat
              /\ Cardinality(s \ {a}) = Cardinality(s) - 1
          BY <4>1, <5>1, Smaller
        <5> QED BY <4>1, <5>2
      <4> QED BY <4>1
    <3> DEFINE g == [s \in Dom(0) |-> 0]
    <3>2. Partial(g, 0)
      BY <3>1
    <3> QED BY <2>2, <3>2
  <2>3. CASE n # 0
    <3>1. n - 1 \in Nat /\ n - 1 \notin Bad
      <4> HIDE DEF Partial
      <4>1. n \in Nat /\ \A m \in Bad : n <= m
        BY <2>1
      <4> HIDE DEF Bad
      <4> QED BY <2>3, <4>1
    <3>2. PICK g : Partial(g, n - 1)
      BY <3>1
    <3> DEFINE h == [s \in Dom(n) |-> IF s = {} THEN 0 ELSE f[One(s)] + g[s \ {One(s)}]]
    <3>3. ASSUME NEW s \in Dom(n), s # {} PROVE h[s \ {One(s)}] = g[s \ {One(s)}]
      <4> DEFINE r == s \ {One(s)}
      <4>1. r \in Dom(n - 1) /\ r \in Dom(n)
        BY <3>1, <3>3, OneIn, Smaller
      <4> HIDE DEF r
      <4>2. g[r] = IF r = {} THEN 0 ELSE f[One(r)] + g[r \ {One(r)}]
        BY <3>2, <4>1
      <4>3. h[r] = IF r = {} THEN 0 ELSE f[One(r)] + g[r \ {One(r)}]
        BY <4>1
      <4> QED BY <4>2, <4>3 DEF r
    <3>4. h = [s \in Dom(n) |-> IF s = {} THEN 0 ELSE f[One(s)] + h[s \ {One(s)}]]
      <4> DEFINE v(s) == IF s = {} THEN 0 ELSE f[One(s)] + g[s \ {One(s)}]
                 w(s) == IF s = {} THEN 0 ELSE f[One(s)] + h[s \ {One(s)}]
      <4>1. \A s \in Dom(n) : v(s) = w(s)
        BY <3>3
      <4>2. h = [s \in Dom(n) |-> v(s)]
        OBVIOUS
      <4> HIDE DEF h, v, w, Dom
      <4>3. [s \in Dom(n) |-> v(s)] = [s \in Dom(n) |-> w(s)]
        BY <4>1
      <4> QED BY <4>2, <4>3 DEF w
    <3> QED BY <2>1, <3>4
  <2> QED BY <2>2, <2>3
<1>2. Cardinality(T) \in Nat /\ Dom(Cardinality(T)) = SUBSET T
  BY FS_Subset, FS_CardinalityType
<1>3. PICK g : Partial(g, Cardinality(T))
  BY <1>1, <1>2
<1> QED BY <1>2, <1>3 DEF AddsUp

\* It does not matter where one begins.
LEMMA AddsUpAnyhow ==
  ASSUME NEW T, IsFiniteSet(T), NEW f \in [T -> Int], NEW g, AddsUp(g, f, T)
  PROVE  /\ \A s \in SUBSET T : g[s] \in Int
         /\ g[{}] = 0
         /\ \A s \in SUBSET T : \A a \in s : g[s] = f[a] + g[s \ {a}]
<1>1. g = [s \in SUBSET T |-> IF s = {} THEN 0 ELSE f[One(s)] + g[s \ {One(s)}]]
  BY DEF AddsUp
<1>2. g[{}] = 0
  BY <1>1
<1>3. \A s \in SUBSET T : s # {} => g[s] = f[One(s)] + g[s \ {One(s)}]
  BY <1>1
<1> HIDE DEF AddsUp
<1>4. \A s \in SUBSET T : g[s] \in Int
  <2> DEFINE Good == {s \in SUBSET T : g[s] \in Int}
  <2>1. ASSUME NEW s \in SUBSET T, \A a \in s : s \ {a} \in Good PROVE s \in Good
    <3>1. CASE s = {}
      BY <1>2, <3>1
    <3>2. CASE s # {}
      <4>1. PICK x \in s : x = One(s)
        BY <3>2, OneIn
      <4>2. g[s \ {x}] \in Int /\ f[x] \in Int
        BY <2>1
      <4>3. g[s] = f[x] + g[s \ {x}]
        BY <1>3, <3>2, <4>1
      <4>4. g[s] \in Int
        BY <4>2, <4>3
      <4> QED BY <4>4
    <3> QED BY <3>1, <3>2
  <2> HIDE DEF Good
  <2>2. SUBSET T \subseteq Good
    BY <2>1, SubsetInduction
  <2> QED BY <2>2 DEF Good
<1>5. \A s \in SUBSET T : \A a \in s : g[s] = f[a] + g[s \ {a}]
  <2> DEFINE Good == {s \in SUBSET T : \A a \in s : g[s] = f[a] + g[s \ {a}]}
  <2>1. ASSUME NEW s \in SUBSET T, \A a \in s : s \ {a} \in Good PROVE s \in Good
    <3> SUFFICES ASSUME NEW a \in s PROVE g[s] = f[a] + g[s \ {a}]
      OBVIOUS
    <3>1. PICK x \in s : x = One(s)
      BY OneIn
    <3>2. g[s] = f[x] + g[s \ {x}]
      BY <1>3, <3>1
    <3>3. CASE x = a
      BY <3>2, <3>3
    <3>4. CASE x # a
      <4>1. s \ {x} \in Good /\ a \in s \ {x} /\ s \ {a} \in Good /\ x \in s \ {a}
        BY <2>1, <3>4
      <4>2. g[s \ {x}] = f[a] + g[(s \ {x}) \ {a}]
        BY <4>1
      <4>3. g[s \ {a}] = f[x] + g[(s \ {a}) \ {x}]
        BY <4>1
      <4>4. (s \ {x}) \ {a} = (s \ {a}) \ {x} /\ (s \ {x}) \ {a} \in SUBSET T
        OBVIOUS
      <4>5. g[(s \ {x}) \ {a}] \in Int /\ f[a] \in Int /\ f[x] \in Int
        BY <1>4, <4>4
      <4> DEFINE r == g[(s \ {x}) \ {a}]
      <4>6. g[s] = f[x] + (f[a] + r) /\ g[s \ {a}] = f[x] + r
        BY <3>2, <4>2, <4>3, <4>4
      <4> HIDE DEF r
      <4> QED BY <4>5, <4>6 DEF r
    <3> QED BY <3>3, <3>4
  <2> HIDE DEF Good
  <2>2. SUBSET T \subseteq Good
    BY <2>1, SubsetInduction
  <2> QED BY <2>2 DEF Good
<1> QED BY <1>2, <1>4, <1>5

\* Two functions that agree add up to the same.
LEMMA AddsUpSame ==
  ASSUME NEW T, IsFiniteSet(T), NEW f \in [T -> Int], NEW g, AddsUp(g, f, T),
         NEW U, IsFiniteSet(U), NEW e \in [U -> Int], NEW h, AddsUp(h, e, U),
         U \subseteq T, \A x \in U : f[x] = e[x]
  PROVE  g[U] = h[U]
<1> DEFINE Good == {s \in SUBSET U : g[s] = h[s]}
<1>1. /\ \A s \in SUBSET T : g[s] \in Int
      /\ g[{}] = 0
      /\ \A s \in SUBSET T : \A a \in s : g[s] = f[a] + g[s \ {a}]
  BY AddsUpAnyhow
<1>2. /\ \A s \in SUBSET U : h[s] \in Int
      /\ h[{}] = 0
      /\ \A s \in SUBSET U : \A a \in s : h[s] = e[a] + h[s \ {a}]
  BY AddsUpAnyhow
<1>3. ASSUME NEW s \in SUBSET U, \A a \in s : s \ {a} \in Good PROVE s \in Good
  <2>1. CASE s = {}
    BY <1>1, <1>2, <2>1
  <2>2. CASE s # {}
    <3>1. PICK a \in s : TRUE
      BY <2>2
    <3>2. g[s \ {a}] = h[s \ {a}]
      BY <1>3
    <3>3. s \in SUBSET T /\ f[a] = e[a]
      OBVIOUS
    <3>4. g[s] = h[s]
      BY <1>1, <1>2, <3>2, <3>3
    <3> QED BY <3>4
  <2> QED BY <2>1, <2>2
<1> HIDE DEF Good
<1>4. SUBSET U \subseteq Good
  BY <1>3, SubsetInduction
<1> QED BY <1>4 DEF Good

LEMMA SumIs ==
  ASSUME NEW f, NEW T, DOMAIN f = T, IsFiniteSet(T), f \in [T -> Int]
  PROVE  \E g : AddsUp(g, f, T) /\ SumFunction(f) = g[T]
<1>1. SumFunctionOnSet(f, T) = (CHOOSE g : AddsUp(g, f, T))[T]
  BY DEF SumFunctionOnSet, FoldFunctionOnSet, MapThenFoldSet, AddsUp, One
<1>2. AddsUp(CHOOSE g : AddsUp(g, f, T), f, T)
  BY AddsUpExists
<1> QED BY <1>1, <1>2 DEF SumFunction

\* The sum is one of its numbers and the sum of the rest.
LEMMA SumRest ==
  ASSUME NEW T, IsFiniteSet(T), NEW f \in [T -> Int]
  PROVE  /\ SumFunction(f) \in Int
         /\ T = {} => SumFunction(f) = 0
         /\ \A a \in T : LET rest == [x \in T \ {a} |-> f[x]] IN
              SumFunction(rest) \in Int /\ SumFunction(f) = f[a] + SumFunction(rest)
<1>1. PICK g : AddsUp(g, f, T) /\ SumFunction(f) = g[T]
  BY SumIs
<1>2. /\ \A s \in SUBSET T : g[s] \in Int
      /\ g[{}] = 0
      /\ \A s \in SUBSET T : \A a \in s : g[s] = f[a] + g[s \ {a}]
  BY <1>1, AddsUpAnyhow
<1>3. SumFunction(f) \in Int /\ (T = {} => SumFunction(f) = 0)
  BY <1>1, <1>2
<1>4. ASSUME NEW a \in T, NEW rest, rest = [x \in T \ {a} |-> f[x]]
      PROVE  SumFunction(rest) \in Int /\ SumFunction(f) = f[a] + SumFunction(rest)
  <2> DEFINE U == T \ {a}
  <2>1. U \subseteq T /\ IsFiniteSet(U) /\ rest \in [U -> Int] /\ DOMAIN rest = U
    BY <1>4, FS_Subset
  <2>2. \A x \in U : f[x] = rest[x]
    BY <1>4
  <2>3. g[T] = f[a] + g[U]
    BY <1>2
  <2> HIDE DEF U
  <2>4. PICK h : AddsUp(h, rest, U) /\ SumFunction(rest) = h[U]
    BY <2>1, SumIs
  <2>5. g[U] = h[U]
    BY <1>1, <2>1, <2>2, <2>4, AddsUpSame
  <2> QED BY <1>1, <1>2, <2>1, <2>3, <2>4, <2>5
<1> QED BY <1>3, <1>4

\* Numbers that are not negative add up to no less than one of them.
LEMMA SumOfNat ==
  ASSUME NEW T, IsFiniteSet(T), NEW f \in [T -> Nat]
  PROVE  /\ SumFunction(f) \in Nat
         /\ \A a \in T : f[a] <= SumFunction(f)
<1>1. f \in [T -> Int]
  OBVIOUS
<1>2. PICK g : AddsUp(g, f, T) /\ SumFunction(f) = g[T]
  BY <1>1, SumIs
<1>3. /\ g[{}] = 0
      /\ \A s \in SUBSET T : \A a \in s : g[s] = f[a] + g[s \ {a}]
  BY <1>1, <1>2, AddsUpAnyhow
<1> DEFINE Good == {s \in SUBSET T : g[s] \in Nat}
<1>4. ASSUME NEW s \in SUBSET T, \A a \in s : s \ {a} \in Good PROVE s \in Good
  <2>1. CASE s = {}
    BY <1>3, <2>1
  <2>2. CASE s # {}
    <3>1. PICK a \in s : TRUE
      BY <2>2
    <3>2. g[s \ {a}] \in Nat /\ f[a] \in Nat
      BY <1>4
    <3>3. g[s] = f[a] + g[s \ {a}]
      BY <1>3
    <3>4. g[s] \in Nat
      BY <3>2, <3>3
    <3> QED BY <3>4
  <2> QED BY <2>1, <2>2
<1> HIDE DEF Good
<1>5. SUBSET T \subseteq Good
  BY <1>4, SubsetInduction
<1>6. \A s \in SUBSET T : g[s] \in Nat
  BY <1>5 DEF Good
<1>7. ASSUME NEW a \in T PROVE f[a] <= g[T]
  <2>1. g[T] = f[a] + g[T \ {a}] /\ g[T \ {a}] \in Nat /\ f[a] \in Nat
    BY <1>3, <1>6
  <2> QED BY <2>1
<1> QED BY <1>2, <1>6, <1>7

LEMMA SumChange ==
  ASSUME NEW T, IsFiniteSet(T), NEW f \in [T -> Int], NEW h \in [T -> Int], NEW a \in T,
         \A x \in T \ {a} : h[x] = f[x]
  PROVE  SumFunction(h) = SumFunction(f) - f[a] + h[a]
<1> DEFINE rest == [x \in T \ {a} |-> f[x]]
<1>1. rest = [x \in T \ {a} |-> h[x]]
  OBVIOUS
<1> HIDE DEF rest
<1>2. SumFunction(rest) \in Int /\ SumFunction(f) = f[a] + SumFunction(rest)
  BY SumRest DEF rest
<1>3. SumFunction(h) = h[a] + SumFunction(rest)
  BY <1>1, SumRest
<1>4. f[a] \in Int /\ h[a] \in Int
  OBVIOUS
<1> QED BY <1>2, <1>3, <1>4

\* What is left of a sum without one of its numbers.
LEMMA SumWithout ==
  ASSUME NEW T, IsFiniteSet(T), NEW f \in [T -> Int], NEW a \in T,
         NEW U, U = T \ {a}, NEW r \in [U -> Int], \A x \in U : r[x] = f[x]
  PROVE  SumFunction(r) \in Int /\ SumFunction(f) = f[a] + SumFunction(r)
<1>1. r = [x \in T \ {a} |-> f[x]]
  OBVIOUS
<1> QED BY <1>1, SumRest

-----------------------------------------------------------------------------
(* Each command moves the balances as the bank does, where no number wraps. *)

LEMMA ModuloExact ==
  ASSUME NEW m \in Nat \ {0}, NEW n \in Int
  PROVE  /\ 0 <= n /\ n < m => n % m = n
         /\ -m <= n /\ n < 0 => n % m = n + m
OBVIOUS

LEMMA Exact ==
  ASSUME NEW n \in Int
  PROVE  /\ IntMin <= n /\ n <= IntMax => ToSInt(n) = n
         /\ 0 <= n /\ n <= IntMax => ToUInt(n) = n /\ ToTotal(n) = n
<1>1. Half \in Nat \ {0} /\ UIntSize \in Nat \ {0} /\ UIntSize = 2 * Half /\ TotalSize \in Nat \ {0}
  BY Widths
<1>2. TotalSize >= UIntSize
  <2>1. ASSUME NEW m \in Nat \ {0} PROVE m * m >= m
    OBVIOUS
  <2> QED BY <1>1, <2>1 DEF TotalSize
<1>3. IntMin = -Half /\ IntMax = Half - 1
  BY DEF IntMin, IntMax
<1>4. ASSUME 0 <= n, n <= IntMax PROVE ToUInt(n) = n /\ ToTotal(n) = n
  <2>1. n < UIntSize /\ n < TotalSize
    BY <1>1, <1>2, <1>3, <1>4
  <2> QED BY <1>1, <1>4, <2>1, ModuloExact DEF ToUInt, ToTotal
<1>5. ASSUME IntMin <= n, n < 0 PROVE ToSInt(n) = n
  <2>1. -UIntSize <= n
    BY <1>1, <1>3, <1>5
  <2>2. ToUInt(n) = n + UIntSize
    BY <1>1, <1>5, <2>1, ModuloExact DEF ToUInt
  <2>3. n + UIntSize > IntMax
    BY <1>1, <1>3, <1>5
  <2> QED BY <1>1, <2>2, <2>3 DEF ToSInt
<1>6. ASSUME 0 <= n, n <= IntMax PROVE ToSInt(n) = n
  BY <1>3, <1>4, <1>6 DEF ToSInt
<1> QED BY <1>3, <1>4, <1>5, <1>6

LEMMA ApplyAt ==
  ASSUME NEW d, NEW p, NEW e, e = Apply(d, p)
  PROVE  /\ e.overallStat = Value(p.overallStat, d.overallStat)
         /\ e.pendingTransfers = Value(p.pendingTransfers, d.pendingTransfers)
         /\ DOMAIN e.accounts = (DOMAIN d.accounts \cup DOMAIN p.accounts)
                                \ {a \in DOMAIN p.accounts : p.accounts[a] = {}}
         /\ \A a \in DOMAIN e.accounts :
              a \notin DOMAIN p.accounts => e.accounts[a] = d.accounts[a]
         /\ \A a \in DOMAIN p.accounts :
              p.accounts[a] # {} => e.accounts[a] = Value(p.accounts[a], 0)
BY DEF Apply

BalanceOf(d) == [a \in DOMAIN d.accounts |-> Balance(d.accounts[a])]

\* The books are right.
Sound(d) ==
  /\ IsData(d) /\ IsFiniteSet(DOMAIN d.accounts)
  /\ BalanceOf(d) \in [DOMAIN d.accounts -> Nat]
  /\ d.overallStat = SumFunction(BalanceOf(d))

\* No amount is more than m, and m is small enough for one of 2^31 - 1.
Room(d, m) ==
  /\ m \in Nat /\ m <= IntMax
  /\ d.overallStat <= m
  /\ \A a \in DOMAIN d.accounts : d.accounts[a].amount <= m

LEMMA SoundBounds ==
  ASSUME NEW d, NEW m, Sound(d), Room(d, m), NEW a \in DOMAIN d.accounts
  PROVE  /\ d.accounts[a] \in AccountData /\ a \in AccountNames
         /\ d.accounts[a].amount \in Nat /\ d.accounts[a].amount <= IntMax
         /\ d.accounts[a].pending_amount \in Int
         /\ IntMin <= d.accounts[a].pending_amount /\ d.accounts[a].pending_amount <= IntMax
         /\ Balance(d.accounts[a]) = d.accounts[a].amount + d.accounts[a].pending_amount
         /\ Balance(d.accounts[a]) \in Nat
         /\ Balance(d.accounts[a]) <= d.overallStat /\ Balance(d.accounts[a]) <= IntMax
         /\ d.overallStat \in Nat /\ d.overallStat <= IntMax
<1>1. /\ d.accounts[a] \in AccountData /\ a \in AccountNames /\ d.overallStat \in Nat
  BY Widths DEF Sound, IsData
<1>2. /\ d.accounts[a].amount \in Nat /\ d.accounts[a].pending_amount \in Int
      /\ IntMin <= d.accounts[a].pending_amount /\ d.accounts[a].pending_amount <= IntMax
  BY <1>1, Widths DEF AccountData, SInt, IntMin, IntMax
<1>3. m \in Nat /\ m <= IntMax /\ d.overallStat <= m /\ d.accounts[a].amount <= m /\ IntMax \in Int
  BY Widths DEF Room, IntMax
<1>4. BalanceOf(d)[a] = Balance(d.accounts[a])
  BY DEF BalanceOf
<1>5. Balance(d.accounts[a]) \in Nat /\ Balance(d.accounts[a]) <= d.overallStat
  BY <1>4, SumOfNat DEF Sound
<1> QED BY <1>1, <1>2, <1>3, <1>5 DEF Balance

LEMMA PendExact ==
  ASSUME NEW account \in AccountData, NEW n \in Int,
         IntMin <= account.pending_amount + n, account.pending_amount + n <= IntMax
  PROVE  /\ Pend(account, n) \in AccountData
         /\ Pend(account, n).amount = account.amount
         /\ Pend(account, n).pending_amount = account.pending_amount + n
         /\ Balance(Pend(account, n)) = Balance(account) + n
<1>1. account.pending_amount + n \in Int
  BY AccountFields
<1>2. ToSInt(account.pending_amount + n) = account.pending_amount + n
  BY <1>1, Exact
<1>3. /\ Pend(account, n) \in AccountData
      /\ Pend(account, n).amount = account.amount
      /\ Pend(account, n).pending_amount = account.pending_amount + n
  BY <1>2, PendTyped DEF Pend, AccountData
<1>4. account.amount \in Int /\ account.pending_amount \in Int
  BY AccountFields
<1> QED BY <1>3, <1>4 DEF Balance

LEMMA TransferMoves ==
  ASSUME NEW d, NEW m, Sound(d), Room(d, m), NEW cmd \in Command, cmd.type = "transfer",
         Valid(d, cmd), NEW e, e = Apply(d, TransferSlice(d, cmd))
  PROVE  /\ e.overallStat = d.overallStat /\ DOMAIN e.accounts = DOMAIN d.accounts
         /\ {cmd.from, cmd.to} \subseteq DOMAIN d.accounts
         /\ BalanceOf(d)[cmd.from] >= cmd.amount
         /\ BalanceOf(e) = [c \in DOMAIN d.accounts |->
              BalanceOf(d)[c] - (IF c = cmd.from THEN cmd.amount ELSE 0)
                              + (IF c = cmd.to THEN cmd.amount ELSE 0)]
         /\ \A a \in DOMAIN d.accounts : e.accounts[a].amount = d.accounts[a].amount
<1> DEFINE n == cmd.amount
           T == DOMAIN d.accounts
           A(a) == d.accounts[a]
           sent == [d.accounts EXCEPT ![cmd.from] = Pend(d.accounts[cmd.from], -n)]
           done == [sent EXCEPT ![cmd.to] = Pend(sent[cmd.to], n)]
           p == TransferSlice(d, cmd)
<1>1. /\ {cmd.from, cmd.to} \subseteq T
      /\ A(cmd.from).pending_amount - n >= IntMin
      /\ ToSInt(ToSInt(A(cmd.from).amount) + (A(cmd.from).pending_amount - n)) >= 0
      /\ A(cmd.to).pending_amount + n <= IntMax
  BY DEF Valid
<1>2. n \in Int /\ n >= 0 /\ IntMin \in Int /\ IntMax \in Int
  <2>1. n \in Amounts
    BY CommandFields
  <2> HIDE DEF n
  <2>2. n \in 0..(2 * Half - 1) /\ Half \in Nat
    BY <2>1, AccountsOK DEF AccountsAssumption
  <2>3. n \in Int /\ n >= 0
    BY <2>2
  <2> QED BY <2>2, <2>3 DEF IntMin, IntMax
<1>3. \A a \in T : /\ A(a) \in AccountData /\ A(a).amount \in Nat /\ A(a).amount <= IntMax
                   /\ A(a).pending_amount \in Int /\ IntMin <= A(a).pending_amount
                   /\ A(a).pending_amount <= IntMax
                   /\ Balance(A(a)) = A(a).amount + A(a).pending_amount
                   /\ Balance(A(a)) \in Nat /\ Balance(A(a)) <= IntMax
  BY SoundBounds
<1>4. d.accounts \in [T -> AccountData]
  BY DEF Sound, IsData
<1>5. p = [overallStat |-> {}, accounts |-> [a \in {cmd.from, cmd.to} |-> {done[a]}],
           pendingTransfers |-> {Append(d.pendingTransfers,
             [from |-> cmd.from, to |-> cmd.to, amount |-> cmd.amount])}]
  BY SliceFields DEF TransferSlice
<1>6. BalanceOf(d)[cmd.from] >= n
  <2> DEFINE x == A(cmd.from).amount
             y == A(cmd.from).pending_amount
  <2>1. x \in Nat /\ x <= IntMax /\ y \in Int /\ x + y \in Nat /\ x + y <= IntMax /\ y - n >= IntMin
        /\ BalanceOf(d)[cmd.from] = x + y /\ y <= IntMax
    BY <1>1, <1>3 DEF BalanceOf
  <2>2. ToSInt(ToSInt(x) + (y - n)) >= 0
    BY <1>1
  <2> HIDE DEF x, y, n
  <2>3. IntMin <= x /\ ToSInt(x) = x
    <3>1. IntMin <= x
      BY <1>2, <2>1, Widths DEF IntMin
    <3> QED BY <2>1, <3>1, Exact
  <2>4. x + (y - n) \in Int /\ IntMin <= x + (y - n) /\ x + (y - n) <= IntMax
    BY <1>2, <2>1
  <2>5. ToSInt(x + (y - n)) = x + (y - n)
    BY <2>4, Exact
  <2>6. x + (y - n) >= 0
    BY <2>2, <2>3, <2>5
  <2> QED BY <1>2, <2>1, <2>6
<1>7. /\ Pend(A(cmd.from), -n) \in AccountData
      /\ Pend(A(cmd.from), -n).amount = A(cmd.from).amount
      /\ Pend(A(cmd.from), -n).pending_amount = A(cmd.from).pending_amount - n
      /\ Balance(Pend(A(cmd.from), -n)) = Balance(A(cmd.from)) - n
  <2> DEFINE acc == A(cmd.from)
  <2>1. /\ acc \in AccountData /\ acc.pending_amount \in Int /\ acc.pending_amount - n >= IntMin
        /\ acc.pending_amount <= IntMax /\ Balance(acc) \in Nat
    BY <1>1, <1>3
  <2> HIDE DEF acc, n
  <2>2. -n \in Int /\ IntMin <= acc.pending_amount + (-n) /\ acc.pending_amount + (-n) <= IntMax
        /\ acc.pending_amount + (-n) = acc.pending_amount - n
        /\ Balance(acc) + (-n) = Balance(acc) - n
    BY <1>2, <2>1
  <2>3. /\ Pend(acc, -n) \in AccountData
        /\ Pend(acc, -n).amount = acc.amount
        /\ Pend(acc, -n).pending_amount = acc.pending_amount + (-n)
        /\ Balance(Pend(acc, -n)) = Balance(acc) + (-n)
    BY <2>1, <2>2, PendExact
  <2> QED BY <2>2, <2>3 DEF acc
<1>8. sent \in [T -> AccountData]
  BY <1>1, <1>4, <1>7
<1>9. \A a \in T : /\ sent[a].amount = A(a).amount
                   /\ Balance(sent[a]) = Balance(A(a)) - (IF a = cmd.from THEN n ELSE 0)
                   /\ sent[a].pending_amount
                        = A(a).pending_amount - (IF a = cmd.from THEN n ELSE 0)
  <2> SUFFICES ASSUME NEW a \in T
               PROVE  /\ sent[a].amount = A(a).amount
                      /\ Balance(sent[a]) = Balance(A(a)) - (IF a = cmd.from THEN n ELSE 0)
                      /\ sent[a].pending_amount
                           = A(a).pending_amount - (IF a = cmd.from THEN n ELSE 0)
    OBVIOUS
  <2>1. CASE a = cmd.from
    <3>1. sent[a] = Pend(A(cmd.from), -n)
      BY <1>4, <2>1
    <3> HIDE DEF sent, n
    <3> QED BY <1>7, <2>1, <3>1
  <2>2. CASE a # cmd.from
    <3>1. sent[a] = A(a) /\ Balance(A(a)) \in Nat /\ A(a).pending_amount \in Int
      BY <1>3, <1>4, <2>2
    <3> HIDE DEF sent, n
    <3> QED BY <2>2, <3>1
  <2> QED BY <2>1, <2>2
<1>10. /\ Pend(sent[cmd.to], n) \in AccountData
       /\ Pend(sent[cmd.to], n).amount = sent[cmd.to].amount
       /\ Balance(Pend(sent[cmd.to], n)) = Balance(sent[cmd.to]) + n
  <2> DEFINE acc == sent[cmd.to]
             y == A(cmd.to).pending_amount
  <2>1. acc \in AccountData
    BY <1>1, <1>8
  <2>2. acc.pending_amount = y - (IF cmd.to = cmd.from THEN n ELSE 0)
    BY <1>1, <1>9
  <2>3. y \in Int /\ IntMin <= y /\ y + n <= IntMax
    BY <1>1, <1>3
  <2>4. cmd.to = cmd.from => IntMin <= y - n
    BY <1>1
  <2> HIDE DEF acc, n, y
  <2>5. IntMin <= acc.pending_amount + n /\ acc.pending_amount + n <= IntMax
    BY <1>2, <2>2, <2>3, <2>4
  <2>6. /\ Pend(acc, n) \in AccountData /\ Pend(acc, n).amount = acc.amount
        /\ Balance(Pend(acc, n)) = Balance(acc) + n
    BY <1>2, <2>1, <2>5, PendExact
  <2> QED BY <2>6 DEF acc
<1>11. \A a \in T : /\ done[a].amount = A(a).amount
                    /\ Balance(done[a]) = Balance(A(a)) - (IF a = cmd.from THEN n ELSE 0)
                                                       + (IF a = cmd.to THEN n ELSE 0)
  <2> SUFFICES ASSUME NEW a \in T
               PROVE  /\ done[a].amount = A(a).amount
                      /\ Balance(done[a]) = Balance(A(a)) - (IF a = cmd.from THEN n ELSE 0)
                                                         + (IF a = cmd.to THEN n ELSE 0)
    OBVIOUS
  <2>1. CASE a = cmd.to
    <3>1. done[a] = Pend(sent[cmd.to], n)
      BY <1>8, <2>1
    <3> HIDE DEF sent, done, n
    <3> QED BY <1>9, <1>10, <2>1, <3>1
  <2>2. CASE a # cmd.to
    <3>1. done[a] = sent[a]
      BY <1>8, <2>2
    <3>2. Balance(A(a)) \in Nat
      BY <1>3
    <3> HIDE DEF sent, done, n
    <3> QED BY <1>2, <1>9, <2>2, <3>1, <3>2
  <2> QED BY <2>1, <2>2
<1> HIDE DEF done, n, p
<1>12. DOMAIN p.accounts = {cmd.from, cmd.to}
       /\ \A a \in {cmd.from, cmd.to} : p.accounts[a] = {done[a]}
  BY <1>5
<1>13. e.overallStat = d.overallStat /\ DOMAIN e.accounts = T
  <2>1. e = Apply(d, p)
    BY DEF p
  <2>2. p.overallStat = {} /\ {a \in DOMAIN p.accounts : p.accounts[a] = {}} = {}
    BY <1>5, <1>12
  <2>3. /\ e.overallStat = Value(p.overallStat, d.overallStat)
        /\ DOMAIN e.accounts = (DOMAIN d.accounts \cup DOMAIN p.accounts)
                               \ {a \in DOMAIN p.accounts : p.accounts[a] = {}}
    BY <2>1, ApplyAt
  <2> QED BY <1>1, <1>12, <2>2, <2>3, Options
<1>14. \A a \in T : /\ e.accounts[a].amount = A(a).amount
                    /\ Balance(e.accounts[a]) = Balance(A(a)) - (IF a = cmd.from THEN n ELSE 0)
                                                             + (IF a = cmd.to THEN n ELSE 0)
  <2> SUFFICES ASSUME NEW a \in T
               PROVE  /\ e.accounts[a].amount = A(a).amount
                      /\ Balance(e.accounts[a])
                           = Balance(A(a)) - (IF a = cmd.from THEN n ELSE 0)
                                           + (IF a = cmd.to THEN n ELSE 0)
    OBVIOUS
  <2>1. e = Apply(d, p)
    BY DEF p
  <2>2. CASE a \in {cmd.from, cmd.to}
    <3>1. e.accounts[a] = done[a]
      <4>1. \A b \in DOMAIN p.accounts :
              p.accounts[b] # {} => e.accounts[b] = Value(p.accounts[b], 0)
        BY <2>1, ApplyAt
      <4>2. a \in DOMAIN p.accounts /\ p.accounts[a] = {done[a]}
        BY <1>12, <2>2
      <4>3. e.accounts[a] = Value({done[a]}, 0)
        BY <4>1, <4>2
      <4> QED BY <4>3, Options
    <3> QED BY <1>11, <3>1
  <2>3. CASE a \notin {cmd.from, cmd.to}
    <3>1. e.accounts[a] = A(a)
      BY <1>12, <1>13, <2>1, <2>3, ApplyAt
    <3>2. Balance(A(a)) \in Nat
      BY <1>3
    <3> QED BY <2>3, <3>1, <3>2
  <2> QED BY <2>2, <2>3
<1>15. BalanceOf(e) = [c \in T |-> BalanceOf(d)[c] - (IF c = cmd.from THEN n ELSE 0)
                                                  + (IF c = cmd.to THEN n ELSE 0)]
  BY <1>13, <1>14 DEF BalanceOf
<1> QED BY <1>1, <1>6, <1>13, <1>14, <1>15 DEF n

LEMMA ProcessMoves ==
  ASSUME NEW d, NEW m, Sound(d), Room(d, m), NEW e, e = Apply(d, ProcessSlice(d))
  PROVE  /\ e.overallStat = d.overallStat /\ BalanceOf(e) = BalanceOf(d)
         /\ DOMAIN e.accounts = DOMAIN d.accounts
         /\ \A a \in DOMAIN d.accounts :
              \/ e.accounts[a].amount = d.accounts[a].amount
              \/ e.accounts[a].amount = BalanceOf(d)[a]
<1> DEFINE T == DOMAIN d.accounts
           dom == Affected(d) \cap T
           p == ProcessSlice(d)
<1>1. p = [overallStat |-> {}, accounts |-> [a \in dom |-> {Settled(d.accounts[a])}],
           pendingTransfers |-> {<<>>}]
  BY SliceFields DEF ProcessSlice
<1>2. ASSUME NEW a \in T
      PROVE  /\ Settled(d.accounts[a]).amount = Balance(d.accounts[a])
             /\ Balance(Settled(d.accounts[a])) = Balance(d.accounts[a])
  <2> DEFINE acc == d.accounts[a]
  <2>1. /\ acc.amount \in Nat /\ acc.pending_amount \in Int
        /\ Balance(acc) = acc.amount + acc.pending_amount
        /\ Balance(acc) \in Nat /\ Balance(acc) <= IntMax
    BY SoundBounds
  <2> HIDE DEF acc
  <2>2. ~ (acc.pending_amount < 0 /\ acc.amount < -acc.pending_amount)
    BY <2>1
  <2>3. ToUInt(acc.amount + acc.pending_amount) = Balance(acc)
    BY <2>1, Exact
  <2>4. Settled(acc).amount = Balance(acc) /\ Settled(acc).pending_amount = 0
    BY <2>2, <2>3 DEF Settled
  <2>5. Balance(Settled(acc)) = Balance(acc)
    BY <2>1, <2>4 DEF Balance
  <2> QED BY <2>4, <2>5 DEF acc
<1> HIDE DEF p
<1>3. /\ DOMAIN p.accounts = dom /\ p.overallStat = {}
      /\ \A a \in dom : p.accounts[a] = {Settled(d.accounts[a])}
  BY <1>1
<1>4. e = Apply(d, p)
  BY DEF p
<1>5. e.overallStat = d.overallStat /\ DOMAIN e.accounts = T
  <2>1. {a \in DOMAIN p.accounts : p.accounts[a] = {}} = {}
    BY <1>3
  <2>2. /\ e.overallStat = Value(p.overallStat, d.overallStat)
        /\ DOMAIN e.accounts = (DOMAIN d.accounts \cup DOMAIN p.accounts)
                               \ {a \in DOMAIN p.accounts : p.accounts[a] = {}}
    BY <1>4, ApplyAt
  <2> QED BY <1>3, <2>1, <2>2, Options
<1>6. ASSUME NEW a \in T
      PROVE  /\ Balance(e.accounts[a]) = Balance(d.accounts[a])
             /\ \/ e.accounts[a].amount = d.accounts[a].amount
                \/ e.accounts[a].amount = Balance(d.accounts[a])
  <2>1. CASE a \in dom
    <3>1. e.accounts[a] = Settled(d.accounts[a])
      <4>1. \A b \in DOMAIN p.accounts :
              p.accounts[b] # {} => e.accounts[b] = Value(p.accounts[b], 0)
        BY <1>4, ApplyAt
      <4>2. a \in DOMAIN p.accounts /\ p.accounts[a] = {Settled(d.accounts[a])}
        BY <1>3, <2>1
      <4>3. e.accounts[a] = Value({Settled(d.accounts[a])}, 0)
        BY <4>1, <4>2
      <4> QED BY <4>3, Options
    <3> QED BY <1>2, <3>1
  <2>2. CASE a \notin dom
    BY <1>3, <1>4, <1>5, <2>2, ApplyAt
  <2> QED BY <2>1, <2>2
<1> QED BY <1>5, <1>6 DEF BalanceOf

LEMMA InjectMoves ==
  ASSUME NEW d, NEW m, Sound(d), Room(d, m), NEW cmd \in Command, cmd.type = "inject",
         m + cmd.amount <= IntMax,
         NEW e, e = Apply(d, InjectSlice(d, cmd))
  PROVE  /\ e.overallStat = d.overallStat + cmd.amount
         /\ DOMAIN e.accounts = DOMAIN d.accounts \cup {cmd.to}
         /\ BalanceOf(e) = [c \in DOMAIN d.accounts \cup {cmd.to} |->
              IF c # cmd.to THEN BalanceOf(d)[c]
              ELSE IF cmd.to \in DOMAIN d.accounts THEN BalanceOf(d)[cmd.to] + cmd.amount
              ELSE cmd.amount]
         /\ \A a \in DOMAIN e.accounts : e.accounts[a].amount <= m + cmd.amount
<1> DEFINE T == DOMAIN d.accounts
           t == cmd.to
           k == cmd.amount
           old == IF t \in T THEN d.accounts[t] ELSE [amount |-> 0, pending_amount |-> 0]
           new == [old EXCEPT !.amount = ToUInt(old.amount + k)]
           p == InjectSlice(d, cmd)
           total == d.overallStat
<1>1. k \in Nat /\ m + k <= IntMax /\ m \in Nat /\ m <= IntMax /\ IntMax \in Int /\ IntMax >= 0
      /\ IntMin \in Int
  <2>1. k \in Amounts
    BY CommandFields
  <2> HIDE DEF k
  <2>2. k \in 0..(2 * Half - 1) /\ Half \in Nat \ {0}
    BY <2>1, AccountsOK DEF AccountsAssumption
  <2> QED BY <2>2 DEF IntMin, IntMax, Room, k
<1>2. total \in Nat /\ total <= m
  BY Widths DEF Sound, IsData, Room
<1>3. old \in AccountData /\ old.amount \in Nat /\ old.amount <= m /\ old.pending_amount \in Int
      /\ (t \notin T => old.amount = 0 /\ old.pending_amount = 0)
      /\ (t \in T => old = d.accounts[t])
  <2>1. CASE t \in T
    BY <2>1, SoundBounds DEF Room
  <2>2. CASE t \notin T
    BY <1>1, <2>2, Widths DEF AccountData
  <2> QED BY <2>1, <2>2
<1>4. p = [overallStat |-> {ToTotal(total + ToUInt(old.amount + k) - old.amount)},
           accounts |-> [a \in {t} |-> {new}], pendingTransfers |-> {}]
  BY SliceFields DEF InjectSlice
<1> HIDE DEF k, total
<1>5. ToUInt(old.amount + k) = old.amount + k
      /\ ToTotal(total + ToUInt(old.amount + k) - old.amount) = total + k
  <2> DEFINE x == old.amount
  <2>1. x \in Nat /\ x <= m
    BY <1>3
  <2> HIDE DEF x, old
  <2>2. x + k \in Int /\ 0 <= x + k /\ x + k <= IntMax
        /\ total + k \in Int /\ 0 <= total + k /\ total + k <= IntMax
    BY <1>1, <1>2, <2>1
  <2>3. ToUInt(x + k) = x + k /\ ToTotal(total + k) = total + k
    BY <2>2, Exact
  <2>4. total + (x + k) - x = total + k
    BY <1>1, <1>2, <2>1
  <2> QED BY <2>3, <2>4 DEF x
<1>6. new.amount = old.amount + k /\ new.pending_amount = old.pending_amount
  BY <1>3, <1>5 DEF AccountData
<1> HIDE DEF p, old, new
<1>7. /\ DOMAIN p.accounts = {t} /\ p.overallStat = {total + k}
      /\ p.accounts[t] = {new}
  BY <1>4, <1>5
<1>8. e = Apply(d, p)
  BY DEF p
<1>9. e.overallStat = total + k /\ DOMAIN e.accounts = T \cup {t}
  <2>1. {a \in DOMAIN p.accounts : p.accounts[a] = {}} = {}
    BY <1>7
  <2>2. /\ e.overallStat = Value(p.overallStat, d.overallStat)
        /\ DOMAIN e.accounts = (DOMAIN d.accounts \cup DOMAIN p.accounts)
                               \ {a \in DOMAIN p.accounts : p.accounts[a] = {}}
    BY <1>8, ApplyAt
  <2> QED BY <1>7, <2>1, <2>2, Options
<1>10. e.accounts[t] = new
  <2>1. \A b \in DOMAIN p.accounts :
          p.accounts[b] # {} => e.accounts[b] = Value(p.accounts[b], 0)
    BY <1>8, ApplyAt
  <2>2. e.accounts[t] = Value({new}, 0)
    BY <1>7, <2>1
  <2> QED BY <2>2, Options
<1>11. \A a \in T : a # t => e.accounts[a] = d.accounts[a]
  <2>1. \A b \in DOMAIN e.accounts :
          b \notin DOMAIN p.accounts => e.accounts[b] = d.accounts[b]
    BY <1>8, ApplyAt
  <2> QED BY <1>7, <1>9, <2>1
<1>12. Balance(new) = IF t \in T THEN BalanceOf(d)[t] + k ELSE k
  <2>1. Balance(new) = old.amount + k + old.pending_amount
    BY <1>6 DEF Balance
  <2>2. CASE t \in T
    <3>1. BalanceOf(d)[t] = old.amount + old.pending_amount
      BY <1>3, <2>2 DEF BalanceOf, Balance
    <3> QED BY <1>1, <1>3, <2>1, <2>2, <3>1
  <2>3. CASE t \notin T
    <3>1. old.amount = 0 /\ old.pending_amount = 0
      BY <1>3, <2>3
    <3> QED BY <1>1, <2>1, <2>3, <3>1
  <2> QED BY <2>2, <2>3
<1>13. BalanceOf(e) = [c \in T \cup {t} |->
         IF c # t THEN BalanceOf(d)[c] ELSE IF t \in T THEN BalanceOf(d)[t] + k ELSE k]
  <2>1. BalanceOf(e) = [c \in T \cup {t} |-> Balance(e.accounts[c])]
    BY <1>9 DEF BalanceOf
  <2>2. \A c \in T \cup {t} : Balance(e.accounts[c])
          = IF c # t THEN BalanceOf(d)[c] ELSE IF t \in T THEN BalanceOf(d)[t] + k ELSE k
    <3>1. \A c \in T : BalanceOf(d)[c] = Balance(d.accounts[c])
      BY DEF BalanceOf
    <3> QED BY <1>10, <1>11, <1>12, <3>1
  <2> QED BY <2>1, <2>2
<1>14. ASSUME NEW a \in T \cup {t} PROVE e.accounts[a].amount <= m + k
  <2>1. CASE a = t
    BY <1>1, <1>3, <1>6, <1>10, <2>1
  <2>2. CASE a # t
    <3>1. a \in T /\ e.accounts[a] = d.accounts[a]
      BY <1>11, <2>2
    <3>2. d.accounts[a].amount \in Nat /\ d.accounts[a].amount <= m
      BY <3>1, SoundBounds DEF Room
    <3> QED BY <1>1, <3>1, <3>2
  <2> QED BY <2>1, <2>2
<1> QED BY <1>9, <1>13, <1>14 DEF k, total

LEMMA CloseMoves ==
  ASSUME NEW d, NEW m, Sound(d), Room(d, m), NEW cmd \in Command, cmd.type = "close",
         NEW e, e = Apply(d, CloseSlice(d, cmd))
  PROVE  LET T == DOMAIN d.accounts
             gone == {cmd.which} \cap T
         IN /\ e.overallStat = d.overallStat
                 - (IF cmd.which \in T THEN BalanceOf(d)[cmd.which] ELSE 0)
            /\ DOMAIN e.accounts = T \ gone
            /\ BalanceOf(e) = [c \in T \ gone |-> BalanceOf(d)[c]]
            /\ \A a \in T \ gone : e.accounts[a] = d.accounts[a]
<1> DEFINE T == DOMAIN d.accounts
           w == cmd.which
           gone == {w} \cap T
           p == CloseSlice(d, cmd)
           total == d.overallStat
<1>1. total \in Nat /\ total <= IntMax /\ IntMax \in Int
  BY Widths DEF Sound, IsData, Room, IntMax
<1>2. /\ DOMAIN p.accounts = gone
      /\ \A a \in DOMAIN p.accounts : p.accounts[a] = {}
      /\ Value(p.overallStat, total) = total - (IF w \in T THEN BalanceOf(d)[w] ELSE 0)
  <2>1. CASE w \notin T
    <3>1. p = EmptySlice
      BY <2>1 DEF CloseSlice
    <3>2. DOMAIN p.accounts = {} /\ p.overallStat = {}
      BY <3>1 DEF EmptySlice, NoAccounts
    <3> HIDE DEF p, total
    <3> QED BY <1>1, <2>1, <3>2, Options
  <2>2. CASE w \in T
    <3> DEFINE old == d.accounts[w]
               x == old.amount
               y == old.pending_amount
               b == Balance(old)
               oldAmount == ToSInt(ToSInt(x) + y)
    <3>1. x \in Nat /\ x <= IntMax /\ b = x + y /\ y \in Int
          /\ b \in Nat /\ b <= total /\ b <= IntMax
      BY <2>2, SoundBounds
    <3>2. BalanceOf(d)[w] = b
      BY <2>2 DEF BalanceOf
    <3>3. p = [overallStat |-> {IF oldAmount > 0 /\ total < oldAmount THEN 0
                                ELSE ToTotal(total - oldAmount)},
               accounts |-> [a \in {w} |-> {}], pendingTransfers |-> {}]
      BY <2>2, SliceFields DEF CloseSlice
    <3> HIDE DEF p, total, b, x, y, old
    <3>4. ToSInt(x) = x /\ oldAmount = b
      <4>1. IntMin <= x /\ IntMin <= b /\ x \in Int /\ b \in Int
        BY <3>1, Widths DEF IntMin
      <4>2. ToSInt(x) = x /\ ToSInt(b) = b
        BY <3>1, <4>1, Exact
      <4> QED BY <3>1, <4>2
    <3>5. ToTotal(total - b) = total - b /\ ~ (b > 0 /\ total < b)
      <4>1. total - b \in Int /\ 0 <= total - b /\ total - b <= IntMax
        BY <1>1, <3>1
      <4>2. ToTotal(total - b) = total - b
        BY <4>1, Exact
      <4> QED BY <1>1, <3>1, <4>2
    <3>6. p.overallStat = {total - b} /\ DOMAIN p.accounts = {w} /\ p.accounts[w] = {}
      BY <3>3, <3>4, <3>5
    <3>7. Value(p.overallStat, total) = total - b
      BY <3>6, Options
    <3> QED BY <2>2, <3>2, <3>6, <3>7
  <2> QED BY <2>1, <2>2
<1>3. e = Apply(d, p)
  OBVIOUS
<1> HIDE DEF p
<1>4. e.overallStat = Value(p.overallStat, total)
  BY <1>3, ApplyAt
<1>5. DOMAIN e.accounts = T \ gone
  <2>1. {a \in DOMAIN p.accounts : p.accounts[a] = {}} = gone
    BY <1>2
  <2>2. DOMAIN e.accounts = (DOMAIN d.accounts \cup DOMAIN p.accounts)
                               \ {a \in DOMAIN p.accounts : p.accounts[a] = {}}
    BY <1>3, ApplyAt
  <2> QED BY <1>2, <2>1, <2>2
<1>6. \A a \in T \ gone : e.accounts[a] = d.accounts[a]
  <2>1. \A b \in DOMAIN e.accounts :
          b \notin DOMAIN p.accounts => e.accounts[b] = d.accounts[b]
    BY <1>3, ApplyAt
  <2> QED BY <1>2, <1>5, <2>1
<1>7. BalanceOf(e) = [c \in T \ gone |-> BalanceOf(d)[c]]
  BY <1>5, <1>6 DEF BalanceOf
<1> QED BY <1>2, <1>4, <1>5, <1>6, <1>7

-----------------------------------------------------------------------------
(* What a command does to the books is a step of the bank, and they stay    *)
(* right.                                                                   *)

Transferred(d, e, a, b, n) ==
  /\ {a, b} \subseteq DOMAIN BalanceOf(d) /\ BalanceOf(d)[a] >= n
  /\ BalanceOf(e) = [c \in DOMAIN BalanceOf(d) |->
       BalanceOf(d)[c] - (IF c = a THEN n ELSE 0) + (IF c = b THEN n ELSE 0)]
  /\ e.overallStat = d.overallStat

Injected(d, e, a, n) ==
  /\ BalanceOf(e) = [c \in DOMAIN BalanceOf(d) \cup {a} |->
       IF c # a THEN BalanceOf(d)[c]
       ELSE IF a \in DOMAIN BalanceOf(d) THEN BalanceOf(d)[a] + n ELSE n]
  /\ e.overallStat = d.overallStat + n

Closed(d, e, a) ==
  /\ a \in DOMAIN BalanceOf(d)
  /\ BalanceOf(e) = [c \in DOMAIN BalanceOf(d) \ {a} |-> BalanceOf(d)[c]]
  /\ e.overallStat = d.overallStat - BalanceOf(d)[a]

BankMove(d, e) ==
  \/ BalanceOf(e) = BalanceOf(d) /\ e.overallStat = d.overallStat
  \/ \E a, b \in AccountNames, n \in Amounts : Transferred(d, e, a, b, n)
  \/ \E a \in AccountNames, n \in Amounts : Injected(d, e, a, n)
  \/ \E a \in AccountNames : Closed(d, e, a)

LEMMA SoundAfterTransfer ==
  ASSUME NEW d, Sound(d), NEW e, IsData(e), NEW a, NEW b, NEW n \in Nat,
         Transferred(d, e, a, b, n)
  PROVE  Sound(e)
<1>0. PICK T, f, h : T = DOMAIN d.accounts /\ f = BalanceOf(d) /\ h = BalanceOf(e)
  OBVIOUS
<1>1. IsFiniteSet(T) /\ f \in [T -> Nat] /\ DOMAIN f = T /\ d.overallStat = SumFunction(f)
  BY <1>0 DEF Sound, BalanceOf
<1>2. DOMAIN h = DOMAIN e.accounts
  BY <1>0 DEF BalanceOf
<1>3. /\ a \in T /\ b \in T /\ f[a] >= n /\ e.overallStat = d.overallStat
      /\ h = [c \in T |-> f[c] - (IF c = a THEN n ELSE 0) + (IF c = b THEN n ELSE 0)]
  BY <1>0, <1>1 DEF Transferred
<1>4. h \in [T -> Nat]
  <2>1. ASSUME NEW c \in T
        PROVE  f[c] - (IF c = a THEN n ELSE 0) + (IF c = b THEN n ELSE 0) \in Nat
    BY <1>1, <1>3
  <2> QED BY <1>3, <2>1
<1>5. SumFunction(h) = SumFunction(f)
  <2>1. PICK g : g = [f EXCEPT ![a] = f[a] - n]
    OBVIOUS
  <2>2. f \in [T -> Int] /\ h \in [T -> Int] /\ a \in T /\ b \in T /\ n \in Int
    BY <1>1, <1>3, <1>4
  <2>3. g \in [T -> Int] /\ g[a] = f[a] - n /\ \A x \in T \ {a} : g[x] = f[x]
    BY <2>1, <2>2
  <2>4. h[b] = g[b] + n /\ \A x \in T \ {b} : h[x] = g[x]
    BY <1>3, <2>1, <2>2
  <2>5. SumFunction(g) = SumFunction(f) - f[a] + g[a]
    BY <1>1, <2>2, <2>3, SumChange
  <2>6. SumFunction(h) = SumFunction(g) - g[b] + h[b]
    BY <1>1, <2>2, <2>3, <2>4, SumChange
  <2>7. SumFunction(f) \in Int
    BY <1>1, SumOfNat
  <2>8. SumFunction(g) = SumFunction(f) - n
    BY <2>2, <2>3, <2>5, <2>7
  <2> QED BY <2>2, <2>3, <2>4, <2>6, <2>7, <2>8
<1>6. DOMAIN e.accounts = T
  BY <1>2, <1>4
<1> QED BY <1>0, <1>1, <1>3, <1>4, <1>5, <1>6 DEF Sound

LEMMA SoundAfterInject ==
  ASSUME NEW d, Sound(d), NEW e, IsData(e), NEW a, NEW n \in Nat, Injected(d, e, a, n)
  PROVE  Sound(e)
<1>0. PICK T, f, h : T = DOMAIN d.accounts /\ f = BalanceOf(d) /\ h = BalanceOf(e)
  OBVIOUS
<1>1. IsFiniteSet(T) /\ f \in [T -> Nat] /\ DOMAIN f = T /\ d.overallStat = SumFunction(f)
  BY <1>0 DEF Sound, BalanceOf
<1>2. DOMAIN h = DOMAIN e.accounts
  BY <1>0 DEF BalanceOf
<1>3. /\ e.overallStat = d.overallStat + n
      /\ h = [c \in T \cup {a} |->
           IF c # a THEN f[c] ELSE IF a \in T THEN f[a] + n ELSE n]
  BY <1>0, <1>1 DEF Injected
<1>4. h \in [T \cup {a} -> Nat] /\ IsFiniteSet(T \cup {a})
  <2>1. h \in [T \cup {a} -> Nat]
    BY <1>1, <1>3
  <2> QED BY <1>1, <2>1, FS_AddElement
<1>5. SumFunction(h) = SumFunction(f) + n
  <2>0. f \in [T -> Int] /\ SumFunction(f) \in Int
    <3>1. f \in [T -> Int]
      BY <1>1
    <3> QED BY <1>1, <3>1, SumOfNat
  <2>1. CASE a \in T
    <3>1. T \cup {a} = T
      BY <2>1
    <3>2. h \in [T -> Int] /\ h[a] = f[a] + n /\ \A x \in T \ {a} : h[x] = f[x]
      BY <1>3, <1>4, <2>1, <3>1
    <3>3. SumFunction(h) = SumFunction(f) - f[a] + h[a]
      BY <1>1, <2>0, <2>1, <3>2, SumChange
    <3>4. f[a] \in Int
      BY <2>0, <2>1
    <3> QED BY <2>0, <3>2, <3>3, <3>4
  <2>2. CASE a \notin T
    <3>1. h \in [T \cup {a} -> Int] /\ h[a] = n /\ \A x \in T : h[x] = f[x]
      BY <1>3, <1>4, <2>2
    <3>2. PICK U : U = T \cup {a}
      OBVIOUS
    <3>3. IsFiniteSet(U) /\ h \in [U -> Int] /\ a \in U /\ T = U \ {a}
      BY <1>4, <2>2, <3>1, <3>2
    <3>4. SumFunction(h) = h[a] + SumFunction(f)
      <4>1. PICK V : V = U \ {a}
        OBVIOUS
      <4>2. V = T
        BY <3>3, <4>1
      <4>3. f \in [V -> Int] /\ \A x \in V : f[x] = h[x]
        BY <2>0, <3>1, <4>2
      <4> QED BY <3>3, <4>1, <4>3, SumWithout
    <3> QED BY <2>0, <3>1, <3>4
  <2> QED BY <2>1, <2>2
<1>6. DOMAIN e.accounts = T \cup {a}
  BY <1>2, <1>4
<1> QED BY <1>0, <1>1, <1>3, <1>4, <1>5, <1>6 DEF Sound

LEMMA SoundAfterClose ==
  ASSUME NEW d, Sound(d), NEW e, IsData(e), NEW a, Closed(d, e, a)
  PROVE  Sound(e)
<1>0. PICK T, f, h : T = DOMAIN d.accounts /\ f = BalanceOf(d) /\ h = BalanceOf(e)
  OBVIOUS
<1>1. IsFiniteSet(T) /\ f \in [T -> Nat] /\ DOMAIN f = T /\ d.overallStat = SumFunction(f)
  BY <1>0 DEF Sound, BalanceOf
<1>2. DOMAIN h = DOMAIN e.accounts
  BY <1>0 DEF BalanceOf
<1>3. /\ a \in T /\ e.overallStat = d.overallStat - f[a]
      /\ h = [c \in T \ {a} |-> f[c]]
  BY <1>0, <1>1 DEF Closed
<1>4. h \in [T \ {a} -> Nat] /\ IsFiniteSet(T \ {a})
  <2>1. h \in [T \ {a} -> Nat]
    BY <1>1, <1>3
  <2> QED BY <1>1, <2>1, FS_RemoveElement
<1>5. SumFunction(h) \in Int /\ SumFunction(f) = f[a] + SumFunction(h)
  <2>1. f \in [T -> Int]
    BY <1>1
  <2>2. PICK U : U = T \ {a}
    OBVIOUS
  <2>3. h \in [U -> Int] /\ \A x \in U : h[x] = f[x]
    BY <1>3, <1>4, <2>2
  <2> QED BY <1>1, <1>3, <2>1, <2>2, <2>3, SumWithout
<1>6. f[a] \in Int
  BY <1>1, <1>3
<1>7. DOMAIN e.accounts = T \ {a}
  BY <1>2, <1>4
<1>8. e.overallStat = SumFunction(h)
  BY <1>1, <1>3, <1>5, <1>6
<1> QED BY <1>0, <1>4, <1>7, <1>8 DEF Sound

LEMMA CommandStep ==
  ASSUME NEW d, NEW m, Sound(d), Room(d, m), NEW cmd \in Command, Valid(d, cmd),
         NEW n \in Nat, m + n <= IntMax, cmd.type = "inject" => cmd.amount <= n,
         NEW e, e = Apply(d, SliceOf(d, cmd))
  PROVE  BankMove(d, e) /\ Sound(e) /\ Room(e, m + n)
<1> DEFINE T == DOMAIN d.accounts
           Low(k) == /\ e.overallStat <= k
                     /\ \A a \in DOMAIN e.accounts : e.accounts[a].amount <= k
<1>1. IsData(e)
  BY SliceTyped, DataIsWhole, ApplyWhole DEF Sound, IsSlice
<1>2. DOMAIN BalanceOf(d) = T /\ DOMAIN BalanceOf(e) = DOMAIN e.accounts
      /\ IsFiniteSet(T) /\ T \subseteq AccountNames
  BY DEF BalanceOf, Sound, IsData
<1>3. \A k \in Amounts : k \in Nat
  BY AccountsOK, Widths DEF AccountsAssumption
<1>4. /\ m \in Nat /\ m <= IntMax /\ IntMax \in Int /\ m + n \in Nat
      /\ d.overallStat \in Nat /\ d.overallStat <= m
  BY Widths DEF Room, Sound, IsData, IntMax
<1>5. e.overallStat \in Nat /\ \A a \in DOMAIN e.accounts : e.accounts[a].amount \in Nat
  <2>1. e.overallStat \in Nat /\ \A a \in DOMAIN e.accounts : e.accounts[a] \in AccountData
    BY <1>1, Widths DEF IsData
  <2> QED BY <2>1, Widths DEF AccountData
<1>6. ASSUME BankMove(d, e), Sound(e), Low(m) PROVE Sound(e) /\ Room(e, m + n)
  <2>1. Low(m + n)
    BY <1>4, <1>5, <1>6
  <2> QED BY <1>4, <1>6, <2>1 DEF Room
<1>7. CASE cmd.type = "transfer"
  <2>1. e = Apply(d, TransferSlice(d, cmd))
    BY <1>7 DEF SliceOf
  <2>2. /\ e.overallStat = d.overallStat /\ DOMAIN e.accounts = T
        /\ \A a \in T : e.accounts[a].amount = d.accounts[a].amount
        /\ Transferred(d, e, cmd.from, cmd.to, cmd.amount)
    <3>1. /\ e.overallStat = d.overallStat /\ DOMAIN e.accounts = T
          /\ {cmd.from, cmd.to} \subseteq T
          /\ BalanceOf(d)[cmd.from] >= cmd.amount
          /\ BalanceOf(e) = [c \in T |->
               BalanceOf(d)[c] - (IF c = cmd.from THEN cmd.amount ELSE 0)
                               + (IF c = cmd.to THEN cmd.amount ELSE 0)]
          /\ \A a \in T : e.accounts[a].amount = d.accounts[a].amount
      BY <1>7, <2>1, TransferMoves
    <3> QED BY <1>2, <3>1 DEF Transferred
  <2>3. cmd.from \in AccountNames /\ cmd.to \in AccountNames /\ cmd.amount \in Amounts
        /\ cmd.amount \in Nat
    BY <1>3, <1>7, CommandFields
  <2>4. BankMove(d, e)
    BY <2>2, <2>3 DEF BankMove
  <2>5. Sound(e)
    BY <1>1, <2>2, <2>3, SoundAfterTransfer
  <2>6. Low(m)
    BY <1>4, <2>2 DEF Room
  <2> QED BY <1>6, <2>4, <2>5, <2>6
<1>8. CASE cmd.type = "process"
  <2>1. e = Apply(d, ProcessSlice(d))
    BY <1>8 DEF SliceOf
  <2>2. /\ e.overallStat = d.overallStat /\ DOMAIN e.accounts = T
        /\ BalanceOf(e) = BalanceOf(d)
        /\ \A a \in T : \/ e.accounts[a].amount = d.accounts[a].amount
                        \/ e.accounts[a].amount = BalanceOf(d)[a]
    BY <2>1, ProcessMoves
  <2>3. BankMove(d, e)
    BY <2>2 DEF BankMove
  <2>4. Sound(e)
    BY <1>1, <2>2 DEF Sound
  <2>5. Low(m)
    <3>1. \A a \in T : BalanceOf(d)[a] \in Nat /\ BalanceOf(d)[a] <= d.overallStat
      BY SumOfNat DEF Sound
    <3> QED BY <1>4, <2>2, <3>1 DEF Room
  <2> QED BY <1>6, <2>3, <2>4, <2>5
<1>9. CASE cmd.type = "inject"
  <2>1. e = Apply(d, InjectSlice(d, cmd))
    BY <1>9 DEF SliceOf
  <2>2. cmd.to \in AccountNames /\ cmd.amount \in Amounts /\ cmd.amount \in Nat /\ cmd.amount <= n
    BY <1>3, <1>9, CommandFields
  <2>0. m + cmd.amount <= IntMax
    BY <1>4, <2>2
  <2>3. /\ e.overallStat = d.overallStat + cmd.amount
        /\ DOMAIN e.accounts = T \cup {cmd.to}
        /\ BalanceOf(e) = [c \in T \cup {cmd.to} |->
             IF c # cmd.to THEN BalanceOf(d)[c]
             ELSE IF cmd.to \in T THEN BalanceOf(d)[cmd.to] + cmd.amount ELSE cmd.amount]
        /\ \A a \in DOMAIN e.accounts : e.accounts[a].amount <= m + cmd.amount
    BY <1>9, <2>0, <2>1, InjectMoves
  <2>4. Injected(d, e, cmd.to, cmd.amount)
    BY <1>2, <2>3 DEF Injected
  <2>5. BankMove(d, e)
    BY <2>2, <2>4 DEF BankMove
  <2>6. Sound(e)
    BY <1>1, <2>2, <2>4, SoundAfterInject
  <2>7. Low(m + n)
    BY <1>4, <1>5, <2>2, <2>3
  <2> QED BY <1>4, <1>9, <2>5, <2>6, <2>7 DEF Room
<1>10. CASE cmd.type = "close"
  <2> DEFINE gone == {cmd.which} \cap T
  <2>1. e = Apply(d, CloseSlice(d, cmd))
    BY <1>10 DEF SliceOf
  <2>2. /\ e.overallStat = d.overallStat
             - (IF cmd.which \in T THEN BalanceOf(d)[cmd.which] ELSE 0)
        /\ DOMAIN e.accounts = T \ gone
        /\ BalanceOf(e) = [c \in T \ gone |-> BalanceOf(d)[c]]
        /\ \A a \in T \ gone : e.accounts[a] = d.accounts[a]
    BY <1>10, <2>1, CloseMoves
  <2>3. Low(m)
    <3>1. e.overallStat <= d.overallStat
      <4>1. \A a \in T : BalanceOf(d)[a] \in Nat
        BY DEF Sound
      <4> QED BY <1>4, <2>2, <4>1
    <3> QED BY <1>4, <1>5, <2>2, <3>1 DEF Room
  <2>4. CASE cmd.which \in T
    <3>1. T \ gone = T \ {cmd.which}
      OBVIOUS
    <3>2. Closed(d, e, cmd.which)
      BY <1>2, <2>2, <2>4, <3>1 DEF Closed
    <3>3. BankMove(d, e)
      BY <1>2, <2>4, <3>2 DEF BankMove
    <3>4. Sound(e)
      BY <1>1, <3>2, SoundAfterClose
    <3> QED BY <1>6, <1>10, <2>3, <3>3, <3>4
  <2>5. CASE cmd.which \notin T
    <3>1. gone = {} /\ T \ gone = T
      BY <2>5
    <3>2. e.overallStat = d.overallStat /\ DOMAIN e.accounts = T /\ BalanceOf(e) = BalanceOf(d)
      <4>1. e.overallStat = d.overallStat
        BY <1>4, <2>2, <2>5
      <4>2. BalanceOf(e) = [c \in T |-> BalanceOf(d)[c]]
        BY <2>2, <3>1
      <4> QED BY <2>2, <3>1, <4>1, <4>2 DEF BalanceOf
    <3>3. BankMove(d, e)
      BY <3>2 DEF BankMove
    <3>4. Sound(e)
      BY <1>1, <3>2 DEF Sound
    <3> QED BY <1>6, <1>10, <2>3, <3>3, <3>4
  <2> QED BY <2>4, <2>5
<1>11. cmd.type \in {"transfer", "process", "inject", "close"}
  BY CommandFields
<1> QED BY <1>7, <1>8, <1>9, <1>10, <1>11

-----------------------------------------------------------------------------
(* What a client named is all that its transfer or its injection depends    *)
(* on, so a server may compute the slice on an old copy.                    *)

LEMMA TransferSame ==
  ASSUME NEW d, NEW u, NEW cmd, cmd.type = "transfer",
         {cmd.from, cmd.to} \subseteq DOMAIN d.accounts,
         {cmd.from, cmd.to} \subseteq DOMAIN u.accounts,
         d.accounts[cmd.from] = u.accounts[cmd.from], d.accounts[cmd.to] = u.accounts[cmd.to],
         d.pendingTransfers = u.pendingTransfers
  PROVE  /\ SliceOf(d, cmd) = SliceOf(u, cmd)
         /\ Valid(d, cmd) => Valid(u, cmd)
<1> DEFINE sent(w) == [w.accounts EXCEPT ![cmd.from] = Pend(w.accounts[cmd.from], -cmd.amount)]
           done(w) == [sent(w) EXCEPT ![cmd.to] = Pend(sent(w)[cmd.to], cmd.amount)]
           list == Append(d.pendingTransfers,
                     [from |-> cmd.from, to |-> cmd.to, amount |-> cmd.amount])
<1>1. \A a \in {cmd.from, cmd.to} : sent(d)[a] = sent(u)[a]
  OBVIOUS
<1>2. \A a \in {cmd.from, cmd.to} : done(d)[a] = done(u)[a]
  <2>1. /\ DOMAIN sent(d) = DOMAIN d.accounts
        /\ DOMAIN sent(u) = DOMAIN u.accounts
    OBVIOUS
  <2> HIDE DEF sent
  <2> QED BY <1>1, <2>1
<1>3. /\ TransferSlice(d, cmd) = [EmptySlice EXCEPT
             !.accounts = [a \in {cmd.from, cmd.to} |-> {done(d)[a]}],
             !.pendingTransfers = {list}]
      /\ TransferSlice(u, cmd) = [EmptySlice EXCEPT
             !.accounts = [a \in {cmd.from, cmd.to} |-> {done(u)[a]}],
             !.pendingTransfers = {list}]
  BY DEF TransferSlice
<1>4. [a \in {cmd.from, cmd.to} |-> {done(d)[a]}] = [a \in {cmd.from, cmd.to} |-> {done(u)[a]}]
  <2> HIDE DEF done
  <2> QED BY <1>2
<1>5. TransferSlice(d, cmd) = TransferSlice(u, cmd)
  <2> HIDE DEF done, list
  <2> QED BY <1>3, <1>4
<1>6. Valid(d, cmd) => Valid(u, cmd)
  BY DEF Valid
<1> QED BY <1>5, <1>6 DEF SliceOf

LEMMA InjectSame ==
  ASSUME NEW d, NEW u, NEW cmd, cmd.type = "inject",
         cmd.to \in DOMAIN d.accounts <=> cmd.to \in DOMAIN u.accounts,
         cmd.to \in DOMAIN d.accounts => d.accounts[cmd.to] = u.accounts[cmd.to],
         d.overallStat = u.overallStat
  PROVE  SliceOf(d, cmd) = SliceOf(u, cmd) /\ Valid(u, cmd)
<1>1. InjectSlice(d, cmd) = InjectSlice(u, cmd)
  <2>1. CASE cmd.to \in DOMAIN d.accounts
    BY <2>1 DEF InjectSlice
  <2>2. CASE cmd.to \notin DOMAIN d.accounts
    BY <2>2 DEF InjectSlice
  <2> QED BY <2>1, <2>2
<1> QED BY <1>1 DEF SliceOf, Valid

LEMMA SliceSame ==
  ASSUME NEW d, NEW u, NEW cmd \in Command, cmd.type \in {"transfer", "inject"},
         DOMAIN d.accounts \subseteq DOMAIN u.accounts,
         SummaryMatches(d, Named(cmd, u)), Valid(d, cmd)
  PROVE  SliceOf(d, cmd) = SliceOf(u, cmd) /\ Valid(u, cmd)
<1> DEFINE p == Named(cmd, u)
<1>1. /\ d.overallStat = Value(p.overallStat, d.overallStat)
      /\ \A a \in DOMAIN p.accounts :
           p.accounts[a] # {} => a \in DOMAIN d.accounts /\ p.accounts[a] = {d.accounts[a]}
      /\ d.pendingTransfers = Value(p.pendingTransfers, d.pendingTransfers)
  BY DEF SummaryMatches
<1>2. ASSUME NEW a \in DOMAIN u.accounts,
             \/ cmd.type = "transfer" /\ a \in {cmd.from, cmd.to}
             \/ cmd.type = "inject" /\ a = cmd.to
      PROVE  a \in DOMAIN d.accounts /\ d.accounts[a] = u.accounts[a]
  <2>1. a \in DOMAIN p.accounts /\ p.accounts[a] = {u.accounts[a]}
    BY <1>2, NamedAccounts
  <2> HIDE DEF p
  <2>2. a \in DOMAIN d.accounts /\ {u.accounts[a]} = {d.accounts[a]}
    BY <1>1, <2>1
  <2> QED BY <2>2
<1>3. CASE cmd.type = "transfer"
  <2>1. {cmd.from, cmd.to} \subseteq DOMAIN d.accounts
    BY <1>3 DEF Valid
  <2>2. d.pendingTransfers = u.pendingTransfers
    <3>1. p.pendingTransfers = {u.pendingTransfers}
      BY <1>3, NamedIs
    <3> HIDE DEF p
    <3>2. d.pendingTransfers = Value({u.pendingTransfers}, d.pendingTransfers)
      BY <1>1, <3>1
    <3> QED BY <3>2, Options
  <2>3. /\ {cmd.from, cmd.to} \subseteq DOMAIN u.accounts
        /\ d.accounts[cmd.from] = u.accounts[cmd.from] /\ d.accounts[cmd.to] = u.accounts[cmd.to]
    BY <1>2, <1>3, <2>1
  <2> QED BY <1>3, <2>1, <2>2, <2>3, TransferSame
<1>4. CASE cmd.type = "inject"
  <2>1. d.overallStat = u.overallStat
    <3>1. p.overallStat = {u.overallStat}
      BY <1>4, NamedIs
    <3> HIDE DEF p
    <3>2. d.overallStat = Value({u.overallStat}, d.overallStat)
      BY <1>1, <3>1
    <3> QED BY <3>2, Options
  <2>2. /\ cmd.to \in DOMAIN d.accounts <=> cmd.to \in DOMAIN u.accounts
        /\ cmd.to \in DOMAIN d.accounts => d.accounts[cmd.to] = u.accounts[cmd.to]
    BY <1>2, <1>4
  <2> QED BY <1>4, <2>1, <2>2, InjectSame
<1> QED BY <1>3, <1>4

-----------------------------------------------------------------------------
(* The books of the servers.  The commands that may still be carried out    *)
(* for the first time bound what will be injected.                          *)

\* Without a lock clients only give commands that name what they depend on.
OnlyTransfersUnlocked ==
  "None" \in LockChoices => UnlockedCommands \subseteq {"transfer", "inject"}

\* All that is ever injected, m at a time, is less than 2^31.
AmountsFit(m) ==
  /\ m \in Nat /\ \A n \in Amounts : n <= m
  /\ SumFunction(InitialAmounts) + m * MaxCommands <= IntMax

Unspent == {c \in Clients : request[c] # NoRequest /\ request[c].effects = 0}
Spent == given - Cardinality(Unspent)

NoMoreThanGiven == IsFiniteSet(Unspent) /\ Cardinality(Unspent) <= given

DecidedAs(s) ==
  LET c == work[s].client
      cmd == request[c].cmd
  IN work[s].stage = "decided" =>
       IF Serial
       THEN work[s].slice = SliceOf(Latest.data, cmd) /\ Valid(Latest.data, cmd)
       ELSE \E i \in 1..Len(history) :
              /\ work[s].slice = SliceOf(history[i].data, cmd)
              /\ Valid(history[i].data, cmd)
              /\ SummaryMatches(history[i].data, Summary(c))

UnlockedRequest(c) ==
  request[c] # NoRequest /\ ~ Serial => request[c].cmd.type \in {"transfer", "inject"}

DecisionInv ==
  /\ \A s \in Servers : DecidedAs(s)
  /\ \A c \in Clients : UnlockedRequest(c)

BooksInv(m) ==
  /\ NoMoreThanGiven
  /\ Sound(Latest.data) /\ Room(Latest.data, SumFunction(InitialAmounts) + m * Spent)

LEMMA UnlockedRequestStep ==
  ASSUME OnlyTransfersUnlocked, TypesInv, TypesInv', NEW c \in Clients, UnlockedRequest(c),
         [Next]_vars
  PROVE  UnlockedRequest(c)'
<1> SUFFICES ASSUME request'[c] # NoRequest, ~ Serial
             PROVE  request'[c].cmd.type \in {"transfer", "inject"}
  BY ModeKept DEF UnlockedRequest, Serial
<1>1. Types /\ lockChoice = "None"
  BY DEF TypesInv, Serial
<1>2. CASE Give(c)
  <2>1. PICK at \in view[c]..Len(history), cmd \in Command :
          /\ Offered(cmd)
          /\ request' = [request EXCEPT ![c] = [cmd |-> cmd, left |-> Servers, effects |-> 0]]
    BY <1>2 DEF Give
  <2>2. request'[c].cmd = cmd
    BY <1>1, <2>1 DEF Types
  <2>3. cmd.type \in UnlockedCommands
    BY <2>1 DEF Offered
  <2> QED BY <1>1, <2>2, <2>3 DEF OnlyTransfersUnlocked, Types
<1>3. CASE ~ Give(c)
  <2>1. request[c] # NoRequest /\ request'[c].cmd = request[c].cmd
    BY <1>3, RequestStep, Kinds
  <2> QED BY <2>1 DEF UnlockedRequest
<1> QED BY <1>2, <1>3

LEMMA DecidedAsStep ==
  ASSUME TypesInv, TypesInv', SawInv, [Next]_vars, NEW s \in Servers, DecidedAs(s)
  PROVE  DecidedAs(s)'
<1> SUFFICES ASSUME work'[s].stage = "decided" PROVE DecidedAs(s)'
  BY DEF DecidedAs
<1>1. PICK k \in Clients :
        /\ work[s].client = k /\ work'[s].client = k
        /\ request[k] \in Requests /\ request[k] # NoRequest
        /\ request'[k].cmd = request[k].cmd /\ view'[k] = view[k]
        /\ \/ work[s].stage = "decided" /\ work'[s] = work[s]
           \/ Decide(s) /\ work'[s].slice = SliceOf(history[copy[s]].data, request[k].cmd)
  BY DecidedStep
<1>2. PICK cmd : cmd = request[k].cmd
  OBVIOUS
<1>3. Summary(k)' = Summary(k)
  <2>1. PICK i \in 1..Len(history) : i = view[k]
    BY DEF TypesInv, Types
  <2>2. history'[i] = history[i]
    BY <2>1, HistoryKept
  <2> QED BY <1>1, <1>2, <2>1, <2>2, SummaryKept
<1>4. (Serial' <=> Serial) /\ Types
  BY ModeKept DEF TypesInv, Serial
<1>5. PICK l : l = Latest
  OBVIOUS
<1>6. PICK p : p = work'[s].slice
  OBVIOUS
<1>7. ASSUME Serial, Latest' = l, p = SliceOf(l.data, cmd), Valid(l.data, cmd)
      PROVE  DecidedAs(s)'
  BY <1>1, <1>2, <1>4, <1>6, <1>7 DEF DecidedAs
<1>8. ASSUME ~ Serial, NEW i \in 1..Len(history), p = SliceOf(history[i].data, cmd),
             Valid(history[i].data, cmd), SummaryMatches(history[i].data, Summary(k))
      PROVE  DecidedAs(s)'
  <2>1. history'[i] = history[i] /\ i \in 1..Len(history')
    BY HistoryKept
  <2>2. PICK d, q : d = history[i].data /\ q = Summary(k)
    OBVIOUS
  <2>3. /\ p = SliceOf(d, cmd) /\ Valid(d, cmd) /\ SummaryMatches(d, q)
    BY <1>8, <2>2
  <2>4. history'[i].data = d /\ Summary(k)' = q
    BY <1>3, <2>1, <2>2
  <2> QED BY <1>1, <1>2, <1>4, <1>6, <1>8, <2>1, <2>3, <2>4 DEF DecidedAs
<1>9. CASE Decide(s)
  <2>1. /\ history' = history /\ work[s].stage = "begun"
        /\ Valid(history[copy[s]].data, cmd)
        /\ SummaryMatches(history[copy[s]].data, Summary(k))
        /\ (Serial => copy[s] = Len(history))
    BY <1>1, <1>2, <1>9 DEF Decide, MayDecide, Accepts
  <2>2. Latest' = l
    BY <1>5, <2>1 DEF Latest
  <2>3. PICK i \in 1..Len(history) : i = copy[s]
    BY <1>4 DEF Types
  <2>4. p = SliceOf(history[i].data, cmd)
    BY <1>1, <1>2, <1>6, <2>1, <2>3
  <2>5. Serial => history[i] = l
    BY <1>5, <2>1, <2>3 DEF Latest
  <2> QED BY <1>7, <1>8, <2>1, <2>2, <2>3, <2>4, <2>5
<1>10. CASE work[s].stage = "decided" /\ work'[s] = work[s]
  <2>1. CASE Serial
    <3>1. Latest' = l
      <4>1. CASE history' = history
        BY <1>5, <4>1 DEF Latest
      <4>2. ASSUME NEW t \in Servers, Writes(t) PROVE FALSE
        <5>1. work' = [work EXCEPT ![t] = Idle] /\ work[t].stage = "decided"
          BY <4>2, WriteIs DEF Answer
        <5>2. t # s
          BY <1>4, <5>1, Kinds DEF Types
        <5>3. work[t] # Idle /\ work[s] # Idle
          BY <1>10, <5>1, AtWork
        <5> QED BY <2>1, <5>2, <5>3 DEF SawInv, OneAtWork
      <4> QED BY <4>1, <4>2, HistoryStep
    <3>2. p = SliceOf(l.data, cmd) /\ Valid(l.data, cmd)
      BY <1>1, <1>2, <1>5, <1>6, <1>10, <2>1 DEF DecidedAs
    <3> QED BY <1>7, <2>1, <3>1, <3>2
  <2>2. CASE ~ Serial
    <3>1. \E i \in 1..Len(history) :
            /\ p = SliceOf(history[i].data, cmd) /\ Valid(history[i].data, cmd)
            /\ SummaryMatches(history[i].data, Summary(k))
      BY <1>1, <1>2, <1>6, <1>10, <2>2 DEF DecidedAs
    <3> QED BY <1>8, <2>2, <3>1
  <2> QED BY <2>1, <2>2
<1> QED BY <1>1, <1>9, <1>10

LEMMA DecisionInit == Init => DecisionInv
<1> SUFFICES ASSUME Init PROVE DecisionInv
  OBVIOUS
<1>1. \A s \in Servers : work[s].stage = "idle"
  BY Kinds DEF Init
<1>2. \A c \in Clients : request[c] = NoRequest
  BY DEF Init
<1> QED BY <1>1, <1>2 DEF DecisionInv, DecidedAs, UnlockedRequest

LEMMA DecisionStep ==
  OnlyTransfersUnlocked =>
    (TypesInv /\ SawInv /\ DecisionInv /\ TypesInv' /\ [Next]_vars => DecisionInv')
<1> SUFFICES ASSUME OnlyTransfersUnlocked, TypesInv, SawInv, DecisionInv, TypesInv', [Next]_vars
             PROVE  DecisionInv'
  OBVIOUS
<1>1. ASSUME NEW s \in Servers PROVE DecidedAs(s)'
  BY DecidedAsStep DEF DecisionInv
<1>2. ASSUME NEW c \in Clients PROVE UnlockedRequest(c)'
  BY UnlockedRequestStep DEF DecisionInv
<1> QED BY <1>1, <1>2 DEF DecisionInv

\* What a server writes is what the command does to the newest data, whichever
\* copy it was computed on.
LEMMA WriteOfCommand ==
  ASSUME TypesInv, OnceInv, SawInv, DecisionInv, NEW s \in Servers, Writes(s),
         NEW k \in Clients, k = work[s].client
  PROVE  /\ request[k].cmd \in Command /\ request[k] # NoRequest
         /\ Valid(Latest.data, request[k].cmd)
         /\ Latest'.data = Apply(Latest.data, SliceOf(Latest.data, request[k].cmd))
<1>1. PICK cmd, l, p : cmd = request[k].cmd /\ l = Latest.data /\ p = work[s].slice
  OBVIOUS
<1>2. /\ work[s].stage = "decided" /\ request[k] # NoRequest /\ cmd \in Command
      /\ DecidedAs(s) /\ UnlockedRequest(k)
  BY <1>1, WriteIs, AtWork DEF DecisionInv
<1>3. Latest'.data = Apply(l, p)
  <2>1. Latest' = Written(s)
    BY WriteIs
  <2>2. Written(s).data = Apply(Latest.data, work[s].slice)
    BY DEF Written
  <2>3. Written(s).data = Apply(l, p)
    BY <1>1, <2>2
  <2> HIDE DEF Written
  <2> QED BY <2>1, <2>3
<1>4. CASE Serial
  <2>1. p = SliceOf(l, cmd) /\ Valid(l, cmd)
    BY <1>1, <1>2, <1>4 DEF DecidedAs
  <2> QED BY <1>1, <1>2, <1>3, <2>1
<1>5. CASE ~ Serial
  <2>1. PICK i \in 1..Len(history) :
          /\ p = SliceOf(history[i].data, cmd) /\ Valid(history[i].data, cmd)
          /\ SummaryMatches(history[i].data, Summary(k))
    BY <1>1, <1>2, <1>5 DEF DecidedAs
  <2>2. lockChoice = "None" /\ cmd.type \in {"transfer", "inject"}
    BY <1>1, <1>2, <1>5 DEF Serial, UnlockedRequest
  <2>3. PICK d : d = history[i].data
    OBVIOUS
  <2>4. Summary(k) = Named(cmd, l)
    BY <1>1, <2>2, WriteOnWhatWasSeen
  <2>5. DOMAIN d.accounts \subseteq DOMAIN l.accounts
    <3>1. AccountsBefore(history[i], Latest)
      BY <2>2 DEF SawInv, HistoryInOrder
    <3> QED BY <1>1, <2>3, <3>1 DEF AccountsBefore
  <2>6. p = SliceOf(d, cmd) /\ Valid(d, cmd) /\ SummaryMatches(d, Named(cmd, l))
    BY <2>1, <2>3, <2>4
  <2>7. SliceOf(d, cmd) = SliceOf(l, cmd) /\ Valid(l, cmd)
    BY <1>2, <2>2, <2>5, <2>6, SliceSame
  <2> QED BY <1>1, <1>2, <1>3, <2>6, <2>7
<1> QED BY <1>4, <1>5

LEMMA UnspentAnswer ==
  ASSUME TypesInv, NEW s \in Servers, NEW e \in {0, 1}, Answer(s, e),
         work[s].stage \in {"begun", "decided"}, NEW k \in Clients, k = work[s].client
  PROVE  /\ given' = given /\ Unspent' \subseteq Unspent
         /\ e = 1 => Unspent' \subseteq Unspent \ {k}
<1>1. /\ given' = given /\ request' = [request EXCEPT ![k] = Answered(k, s, e)]
  BY AnswerIs
<1>2. request[k] \in Requests /\ request \in [Clients -> {NoRequest} \cup Requests]
  BY AtWork DEF TypesInv, Types
<1>3. PICK q : q = Answered(k, s, e)
  OBVIOUS
<1>4. q = NoRequest \/ q.effects = request[k].effects + e
  <2>1. [request[k] EXCEPT !.effects = request[k].effects + e].effects = request[k].effects + e
    BY <1>2 DEF Requests
  <2> QED BY <1>3, <2>1 DEF Answered
<1>5. request[k].effects \in Nat /\ request[k] # NoRequest
  BY <1>2, Kinds
<1>6. ASSUME NEW c \in Clients, request'[c] # NoRequest, request'[c].effects = 0
      PROVE  request[c] # NoRequest /\ request[c].effects = 0 /\ (e = 1 => c # k)
  <2>1. CASE c # k
    BY <1>1, <1>2, <1>6, <2>1
  <2>2. CASE c = k
    <3>1. request'[k] = q
      BY <1>1, <1>2, <1>3
    <3>2. request[k].effects + e = 0
      BY <1>4, <1>6, <2>2, <3>1
    <3> QED BY <1>5, <2>2, <3>2
  <2> QED BY <2>1, <2>2
<1> QED BY <1>1, <1>6 DEF Unspent

LEMMA UnspentStep ==
  ASSUME TypesInv, [Next]_vars
  PROVE  \/ given' = given /\ Unspent' \subseteq Unspent
         \/ \E c \in Clients : /\ given' = given + 1
                               /\ c \notin Unspent /\ Unspent' = Unspent \cup {c}
<1>1. Types
  BY DEF TypesInv
<1>2. ASSUME request' = request, given' = given
      PROVE  given' = given /\ Unspent' \subseteq Unspent
  BY <1>2 DEF Unspent
<1>3. CASE vars' = vars
  BY <1>2, <1>3 DEF vars
<1>4. ASSUME NEW c \in Clients, Give(c)
      PROVE  given' = given + 1 /\ c \notin Unspent /\ Unspent' = Unspent \cup {c}
  <2>1. PICK cmd \in Command :
          request' = [request EXCEPT ![c] = [cmd |-> cmd, left |-> Servers, effects |-> 0]]
    BY <1>4 DEF Give
  <2>2. PICK q : q = [cmd |-> cmd, left |-> Servers, effects |-> 0]
    OBVIOUS
  <2>3. q.effects = 0 /\ q # NoRequest
    <3>1. q \in Requests
      BY <2>2 DEF Requests
    <3> QED BY <2>2, <3>1, Kinds
  <2>4. request'[c] = q /\ \A d \in Clients : d # c => request'[d] = request[d]
    BY <1>1, <2>1, <2>2 DEF Types
  <2>5. given' = given + 1 /\ request[c] = NoRequest
    BY <1>4 DEF Give
  <2> QED BY <2>3, <2>4, <2>5 DEF Unspent
<1>5. ASSUME NEW s \in Servers, NEW c \in Clients, Begin(s, c)
      PROVE  given' = given /\ Unspent' \subseteq Unspent
  <2>1. /\ request' = [request EXCEPT ![c].left = LeftTo(@, s)] /\ given' = given
        /\ s \in request[c].left
    BY <1>5 DEF Begin
  <2>2. request[c] \in Requests
    BY <1>1, <2>1, Kinds DEF Types
  <2>3. ASSUME NEW d \in Clients, request'[d].effects = 0, request'[d] # NoRequest
        PROVE  request[d].effects = 0 /\ request[d] # NoRequest
    <3>1. CASE d = c
      <4>1. request'[c].effects = request[c].effects
        BY <1>1, <2>1, <2>2 DEF Types, Requests
      <4> QED BY <2>2, <2>3, <3>1, <4>1, Kinds
    <3>2. CASE d # c
      BY <1>1, <2>1, <2>3, <3>2 DEF Types
    <3> QED BY <3>1, <3>2
  <2> QED BY <2>1, <2>3 DEF Unspent
<1>6. ASSUME NEW s \in Servers, Serve(s)
      PROVE  given' = given /\ Unspent' \subseteq Unspent
  <2>1. CASE Follow(s) \/ Decide(s)
    BY <1>2, <2>1 DEF Follow, Decide
  <2>2. CASE Refuse(s) \/ FailurePrecondition(s) \/ HandleUpdate(s) \/ HandleUpdateLocally(s)
    <3>1. work[s].stage \in {"begun", "decided"}
      BY <2>2 DEF Refuse, MayDecide, FailurePrecondition, HandleUpdate, HandleUpdateLocally
    <3>2. PICK e \in {0, 1} : Answer(s, e)
      BY <2>2 DEF Refuse, FailurePrecondition, HandleUpdate, HandleUpdateLocally, Effect
    <3>3. PICK k \in Clients : k = work[s].client
      BY <3>1, AtWork
    <3> QED BY <3>1, <3>2, <3>3, UnspentAnswer
  <2> QED BY <1>6, <2>1, <2>2 DEF Serve
<1> QED BY <1>3, <1>4, <1>5, <1>6 DEF Next

LEMMA RoomMore ==
  ASSUME NEW d, NEW i, Room(d, i), NEW j \in Nat, i <= j, j <= IntMax, IsData(d)
  PROVE  Room(d, j)
<1>1. i \in Nat /\ d.overallStat \in Nat /\ d.overallStat <= i
  BY Widths DEF Room, IsData
<1>2. ASSUME NEW a \in DOMAIN d.accounts PROVE d.accounts[a].amount <= j
  <2>1. d.accounts[a].amount \in Int
    BY AccountFields DEF IsData
  <2>2. d.accounts[a].amount <= i
    BY DEF Room
  <2> QED BY <1>1, <2>1, <2>2
<1>3. d.overallStat <= j
  BY <1>1
<1> QED BY <1>2, <1>3 DEF Room

LEMMA Products ==
  ASSUME NEW m \in Nat, NEW i \in Nat, NEW j \in Nat
  PROVE  /\ m * i \in Nat /\ m * j \in Nat
         /\ i <= j => m * i <= m * j
         /\ m * (i + 1) = m * i + m
<1>1. m * i \in Nat /\ m * j \in Nat /\ m * (i + 1) = m * i + m
  OBVIOUS
<1>2. ASSUME i <= j PROVE m * i <= m * j
  <2>1. PICK k \in Nat : j = i + k
    BY <1>2
  <2>2. m * j = m * i + m * k /\ m * k \in Nat
    BY <2>1
  <2> QED BY <1>1, <2>2
<1> QED BY <1>1, <1>2

\* What sums may come to after i injections.
LEMMA Limits ==
  ASSUME NEW m, AmountsFit(m), NEW i \in 0..MaxCommands, NEW j \in 0..MaxCommands
  PROVE  LET S == SumFunction(InitialAmounts) IN
         /\ m \in Nat /\ S \in Nat /\ S + m * i \in Nat /\ S + m * i <= IntMax
         /\ i <= j => S + m * i <= S + m * j
         /\ S + m * (i + 1) = S + m * i + m
<1> DEFINE S == SumFunction(InitialAmounts)
<1>1. m \in Nat /\ S + m * MaxCommands <= IntMax
  BY DEF AmountsFit
<1>2. S \in Nat /\ MaxCommands \in Nat
  BY ServersOK, Widths DEF ServersAssumption
<1> HIDE DEF S
<1>3. i \in Nat /\ j \in Nat /\ i <= MaxCommands
  BY <1>2
<1>4. m * i \in Nat /\ m * j \in Nat /\ m * MaxCommands \in Nat /\ m * i <= m * MaxCommands
      /\ (i <= j => m * i <= m * j) /\ m * (i + 1) = m * i + m
  BY <1>1, <1>2, <1>3, Products
<1>5. IntMax \in Int
  BY Widths DEF IntMax
<1>6. S + m * i \in Nat /\ S + m * i <= IntMax
  BY <1>1, <1>2, <1>4, <1>5
<1>7. i <= j => S + m * i <= S + m * j
  BY <1>2, <1>4
<1>8. S + m * (i + 1) = S + m * i + m
  BY <1>1, <1>2, <1>4
<1> QED BY <1>1, <1>2, <1>6, <1>7, <1>8 DEF S

LEMMA Counting ==
  ASSUME NEW U, IsFiniteSet(U), NEW V, V \subseteq U, NEW g \in Nat, Cardinality(U) <= g
  PROVE  /\ IsFiniteSet(V) /\ Cardinality(V) <= g
         /\ g - Cardinality(U) \in 0..g /\ g - Cardinality(V) \in 0..g
         /\ g - Cardinality(U) <= g - Cardinality(V)
         /\ \A x \in U : x \notin V => g - Cardinality(U) + 1 <= g - Cardinality(V)
<1>1. /\ IsFiniteSet(V) /\ Cardinality(V) \in Nat /\ Cardinality(U) \in Nat
      /\ Cardinality(V) <= Cardinality(U)
  BY FS_Subset, FS_CardinalityType
<1>2. ASSUME NEW x \in U, x \notin V PROVE Cardinality(V) <= Cardinality(U) - 1
  <2>1. IsFiniteSet(U \ {x}) /\ Cardinality(U \ {x}) = Cardinality(U) - 1
    BY FS_RemoveElement
  <2>2. V \subseteq U \ {x}
    BY <1>2
  <2> QED BY <2>1, <2>2, FS_Subset
<1>3. ASSUME NEW x \in U, x \notin V PROVE g - Cardinality(U) + 1 <= g - Cardinality(V)
  <2>1. Cardinality(V) <= Cardinality(U) - 1
    BY <1>2, <1>3
  <2> QED BY <1>1, <2>1
<1>4. Cardinality(V) <= g /\ g - Cardinality(U) \in 0..g /\ g - Cardinality(V) \in 0..g
      /\ g - Cardinality(U) <= g - Cardinality(V)
  BY <1>1
<1> QED BY <1>1, <1>3, <1>4

LEMMA SpentStep ==
  ASSUME TypesInv, TypesInv', NoMoreThanGiven, [Next]_vars
  PROVE  /\ NoMoreThanGiven'
         /\ Spent \in 0..MaxCommands /\ Spent' \in 0..MaxCommands /\ Spent <= Spent'
<1>1. PICK U, V, g, h : U = Unspent /\ V = Unspent' /\ g = given /\ h = given'
  OBVIOUS
<1>2. IsFiniteSet(U) /\ Cardinality(U) <= g /\ Cardinality(U) \in Nat
  BY <1>1, FS_CardinalityType DEF NoMoreThanGiven
<1>3. g \in 0..MaxCommands /\ h \in 0..MaxCommands /\ MaxCommands \in Nat
  BY <1>1, ServersOK DEF TypesInv, Types, ServersAssumption
<1>4. Spent = g - Cardinality(U) /\ Spent' = h - Cardinality(V)
  BY <1>1 DEF Spent
<1>5. CASE h = g /\ V \subseteq U
  <2>1. /\ IsFiniteSet(V) /\ Cardinality(V) <= g
        /\ g - Cardinality(U) \in 0..g /\ g - Cardinality(V) \in 0..g
        /\ g - Cardinality(U) <= g - Cardinality(V)
    BY <1>2, <1>3, <1>5, Counting
  <2>2. 0..g \subseteq 0..MaxCommands
    BY <1>3
  <2>3. NoMoreThanGiven'
    BY <1>1, <1>5, <2>1 DEF NoMoreThanGiven
  <2> QED BY <1>4, <1>5, <2>1, <2>2, <2>3
<1>6. ASSUME NEW c \in Clients, h = g + 1, c \notin U, V = U \cup {c}
      PROVE  /\ NoMoreThanGiven'
             /\ Spent \in 0..MaxCommands /\ Spent' \in 0..MaxCommands /\ Spent <= Spent'
  <2>1. IsFiniteSet(V) /\ Cardinality(V) = Cardinality(U) + 1
    BY <1>2, <1>6, FS_AddElement
  <2>2. Cardinality(V) <= h
    BY <1>2, <1>3, <1>6, <2>1
  <2>3. NoMoreThanGiven'
    BY <1>1, <2>1, <2>2 DEF NoMoreThanGiven
  <2>4. h - Cardinality(V) = g - Cardinality(U) /\ g - Cardinality(U) \in 0..MaxCommands
    BY <1>2, <1>3, <1>6, <2>1
  <2> QED BY <1>3, <1>4, <2>3, <2>4
<1> QED BY <1>1, <1>5, <1>6, UnspentStep

\* Only the first effect of a command injects, and it makes it spent.
LEMMA InjectSpends ==
  ASSUME TypesInv, TypesInv', OnceInv, NoMoreThanGiven, [Next]_vars, NEW s \in Servers,
         Writes(s), NEW k \in Clients, k = work[s].client, request[k].cmd.type = "inject"
  PROVE  Spent + 1 <= Spent'
<1>1. work[s].stage = "decided" /\ Answer(s, 1) /\ request[k] # NoRequest
      /\ request[k].cmd \in Command
  BY WriteIs, AtWork
<1>2. VersionSlice(k) # EmptySlice
  <2>1. VersionSlice(k).overallStat # {}
    BY <1>1, NamedIs DEF VersionSlice
  <2> QED BY <2>1 DEF EmptySlice
<1>3. k \in Unspent
  BY <1>1, <1>2, WritesOnce DEF Unspent
<1>4. given' = given /\ Unspent' \subseteq Unspent \ {k}
  BY <1>1, UnspentAnswer
<1>5. PICK U, V, g : U = Unspent /\ V = Unspent' /\ g = given
  OBVIOUS
<1>6. g \in Nat /\ IsFiniteSet(U) /\ Cardinality(U) <= g
  BY <1>5, ServersOK DEF TypesInv, Types, NoMoreThanGiven, ServersAssumption
<1>7. V \subseteq U /\ k \in U /\ k \notin V
  BY <1>3, <1>4, <1>5
<1>8. g - Cardinality(U) + 1 <= g - Cardinality(V)
  BY <1>6, <1>7, Counting
<1> QED BY <1>4, <1>5, <1>8 DEF Spent

LEMMA BooksInit ==
  ASSUME NEW m, AmountsFit(m), Init
  PROVE  BooksInv(m)
<1> DEFINE T == DOMAIN InitialAmounts
           S == SumFunction(InitialAmounts)
           d == InitialRevision.data
<1>1. Unspent = {} /\ given = 0
  BY DEF Init, Unspent
<1>2. IsFiniteSet(Unspent) /\ Cardinality(Unspent) = 0 /\ Spent = 0
  <2>1. IsFiniteSet(Unspent) /\ Cardinality(Unspent) = 0
    BY <1>1, FS_EmptySet
  <2> QED BY <1>1, <2>1 DEF Spent
<1>3. Latest.data = d
  <2>1. history = <<InitialRevision>> \/ history = <<LocalRevision>>
    BY DEF Init
  <2>2. LocalRevision.data = d
    BY DEF LocalRevision, InitialRevision
  <2> HIDE DEF d
  <2>3. CASE history = <<InitialRevision>>
    <3>1. Latest = InitialRevision
      BY <2>3 DEF Latest
    <3> QED BY <3>1 DEF d
  <2>4. CASE history = <<LocalRevision>>
    <3>1. Latest = LocalRevision
      BY <2>4 DEF Latest
    <3> QED BY <2>2, <3>1
  <2> QED BY <2>1, <2>3, <2>4
<1>4. IsData(d)
  BY InitialRevisionTyped, RevisionFields
<1>5. /\ IsFiniteSet(T) /\ InitialAmounts \in [T -> Nat] /\ MaxCommands \in Nat
  <2>1. InitialAmounts \in [T -> Amounts] /\ IsFiniteSet(T) /\ MaxCommands \in Nat
    BY ServersOK DEF ServersAssumption
  <2>2. \A n \in Amounts : n \in Nat
    BY AccountsOK, Widths DEF AccountsAssumption
  <2> QED BY <2>1, <2>2
<1>6. d.overallStat = S
      /\ d.accounts = [a \in T |-> [amount |-> InitialAmounts[a], pending_amount |-> 0]]
  BY DEF InitialRevision
<1> HIDE DEF d
<1>7. DOMAIN d.accounts = T /\ BalanceOf(d) = InitialAmounts
  <2>1. DOMAIN d.accounts = T
    BY <1>6
  <2>2. \A a \in T : Balance(d.accounts[a]) = InitialAmounts[a]
    BY <1>5, <1>6 DEF Balance
  <2>3. BalanceOf(d) = [a \in T |-> InitialAmounts[a]]
    BY <2>1, <2>2 DEF BalanceOf
  <2> QED BY <1>5, <2>1, <2>3
<1>8. Sound(d)
  BY <1>4, <1>5, <1>6, <1>7 DEF Sound
<1>9. m \in Nat /\ S \in Nat /\ S + m * 0 = S /\ S <= IntMax
  <2>1. m \in Nat
    BY DEF AmountsFit
  <2>2. /\ S \in Nat /\ S + m * 0 <= IntMax
    BY <1>5, Limits
  <2> QED BY <2>1, <2>2
<1>10. \A a \in T : d.accounts[a].amount <= S
  <2>1. \A a \in T : InitialAmounts[a] <= S
    BY <1>5, SumOfNat
  <2> QED BY <1>6, <2>1
<1> HIDE DEF S
<1>11. Room(d, S)
  <2>1. d.overallStat <= S
    BY <1>6, <1>9 DEF S
  <2> QED BY <1>7, <1>9, <1>10, <2>1 DEF Room
<1>12. Room(Latest.data, S + m * Spent)
  BY <1>2, <1>3, <1>9, <1>11
<1> QED BY <1>1, <1>2, <1>3, <1>8, <1>12 DEF BooksInv, NoMoreThanGiven, S

\* A write is a step of the bank, after which the books are right.
LEMMA WriteBooks ==
  ASSUME NEW m, AmountsFit(m), TypesInv, TypesInv', OnceInv, SawInv, DecisionInv, BooksInv(m),
         [Next]_vars, NEW s \in Servers, Writes(s)
  PROVE  /\ BankMove(Latest.data, Latest'.data) /\ Sound(Latest'.data)
         /\ Room(Latest'.data, SumFunction(InitialAmounts) + m * Spent')
<1>1. PICK k \in Clients : k = work[s].client
  BY WriteIs, AtWork
<1>2. PICK cmd, d, e, i, j : /\ cmd = request[k].cmd /\ d = Latest.data /\ e = Latest'.data
                             /\ i = Spent /\ j = Spent'
  OBVIOUS
<1> DEFINE S == SumFunction(InitialAmounts)
<1>3. /\ cmd \in Command /\ Valid(d, cmd) /\ e = Apply(d, SliceOf(d, cmd))
  BY <1>1, <1>2, WriteOfCommand
<1>4. Sound(d) /\ Room(d, S + m * i) /\ NoMoreThanGiven
  BY <1>2 DEF BooksInv
<1>5. i \in 0..MaxCommands /\ j \in 0..MaxCommands /\ i <= j
  BY <1>2, <1>4, SpentStep
<1>6. /\ m \in Nat /\ S \in Nat /\ S + m * i \in Nat /\ S + m * i <= IntMax
      /\ S + m * j \in Nat /\ S + m * j <= IntMax /\ S + m * i <= S + m * j
      /\ S + m * (i + 1) = S + m * i + m
  BY <1>5, Limits
<1> HIDE DEF S
<1>7. CASE cmd.type = "inject"
  <2>1. i + 1 <= j
    BY <1>1, <1>2, <1>4, <1>7, InjectSpends
  <2>2. i + 1 \in 0..MaxCommands
    BY <1>5, <2>1, ServersOK DEF ServersAssumption
  <2>3. S + m * (i + 1) <= S + m * j
    BY <1>5, <2>1, <2>2, Limits DEF S
  <2>4. S + m * i + m <= IntMax /\ S + m * i + m <= S + m * j
    <3>1. IntMax \in Int
      BY Widths DEF IntMax
    <3>2. PICK x, y : x = S + m * i /\ y = S + m * j
      OBVIOUS
    <3>3. x \in Nat /\ y \in Nat /\ x + m <= y /\ y <= IntMax
      BY <1>6, <2>3, <3>2
    <3> QED BY <1>6, <3>1, <3>2, <3>3
  <2>5. cmd.amount \in Amounts
    BY <1>3, <1>7, CommandFields
  <2>6. cmd.amount <= m
    BY <2>5 DEF AmountsFit
  <2>7. BankMove(d, e) /\ Sound(e) /\ Room(e, S + m * i + m)
    BY <1>3, <1>4, <1>6, <2>4, <2>6, CommandStep
  <2>8. IsData(e)
    BY <2>7 DEF Sound
  <2>9. Room(e, S + m * j)
    BY <1>6, <2>4, <2>7, <2>8, RoomMore
  <2> QED BY <1>2, <2>7, <2>9 DEF S
<1>8. CASE cmd.type # "inject"
  <2>1. S + m * i + 0 = S + m * i
    BY <1>6
  <2>2. BankMove(d, e) /\ Sound(e) /\ Room(e, S + m * i + 0)
    BY <1>3, <1>4, <1>6, <1>8, <2>1, CommandStep
  <2>3. Room(e, S + m * i) /\ IsData(e)
    BY <2>1, <2>2 DEF Sound
  <2>4. Room(e, S + m * j)
    BY <1>6, <2>3, RoomMore
  <2> QED BY <1>2, <2>2, <2>4 DEF S
<1> QED BY <1>7, <1>8

LEMMA BooksStep ==
  ASSUME NEW m, AmountsFit(m), TypesInv, TypesInv', OnceInv, SawInv, DecisionInv, BooksInv(m),
         [Next]_vars
  PROVE  BankMove(Latest.data, Latest'.data) /\ BooksInv(m)'
<1> DEFINE S == SumFunction(InitialAmounts)
<1>1. NoMoreThanGiven' /\ Spent \in 0..MaxCommands /\ Spent' \in 0..MaxCommands /\ Spent <= Spent'
  BY SpentStep DEF BooksInv
<1>2. ASSUME history' = history
      PROVE  /\ BankMove(Latest.data, Latest'.data) /\ Sound(Latest'.data)
             /\ Room(Latest'.data, S + m * Spent')
  <2>1. PICK d, i, j : d = Latest.data /\ i = Spent /\ j = Spent'
    OBVIOUS
  <2>2. Latest'.data = d
    BY <1>2, <2>1 DEF Latest
  <2>3. Sound(d) /\ Room(d, S + m * i)
    BY <2>1 DEF BooksInv
  <2>4. S + m * j \in Nat /\ S + m * j <= IntMax /\ S + m * i <= S + m * j
    BY <1>1, <2>1, Limits
  <2>5. Room(d, S + m * j)
    BY <2>3, <2>4, RoomMore DEF Sound
  <2> QED BY <2>1, <2>2, <2>3, <2>5 DEF BankMove
<1>3. /\ BankMove(Latest.data, Latest'.data) /\ Sound(Latest'.data)
      /\ Room(Latest'.data, S + m * Spent')
  BY <1>2, WriteBooks, HistoryStep
<1> QED BY <1>1, <1>3 DEF BooksInv

SumsFit == \E m : AmountsFit(m)

LEMMA LessUnlocked == OnlyTransfersUnlocked => NoCloseWithoutLock
BY DEF OnlyTransfersUnlocked, NoCloseWithoutLock

\* overallStat stays the sum of the balances, whatever is pending, however many
\* servers a command reaches and on whichever copy each of them computes its
\* slice (THComponent::handleUpdate and ProcessCommandOnLocalDataImpl), as long
\* as no sum can reach 2^31 and clients without a lock only give commands that
\* name what they depend on.
THEOREM TotalIsSumCorrect ==
  OnlyTransfersUnlocked /\ SumsFit => (Spec => []TotalIsSum)
<1> SUFFICES ASSUME OnlyTransfersUnlocked, NEW m, AmountsFit(m)
             PROVE  Spec => []TotalIsSum
  BY DEF SumsFit
<1>1. Init => OnceInv /\ SawInv /\ DecisionInv /\ BooksInv(m)
  BY OnceInit, SawInit, DecisionInit, BooksInit
<1>2. TypesInv /\ OnceInv /\ SawInv /\ TypesInv' /\ [Next]_vars => SawInv'
  BY LessUnlocked, SawStep
<1>3. TypesInv /\ SawInv /\ DecisionInv /\ TypesInv' /\ [Next]_vars => DecisionInv'
  BY DecisionStep
<1>4. TypesInv /\ OnceInv /\ SawInv /\ DecisionInv /\ BooksInv(m) /\ TypesInv' /\ [Next]_vars
        => BooksInv(m)'
  BY BooksStep
<1>5. BooksInv(m) => TotalIsSum
  BY DEF BooksInv, Sound, TotalIsSum, Balances, BalanceOf
<1> QED BY <1>1, <1>2, <1>3, <1>4, <1>5, OnceStep, TypesCorrect, PTL DEF Spec

\* Servers, copies, versions and slices implement a bank in which every command
\* is one step on the current balances, and settling what is pending is none.
THEOREM ImplementsBankCorrect ==
  OnlyTransfersUnlocked /\ SumsFit => (Spec => ImplementsBank)
<1> SUFFICES ASSUME OnlyTransfersUnlocked, NEW m, AmountsFit(m)
             PROVE  Spec => ImplementsBank
  BY DEF SumsFit
<1>1. Init => OnceInv /\ SawInv /\ DecisionInv /\ BooksInv(m)
  BY OnceInit, SawInit, DecisionInit, BooksInit
<1>2. TypesInv /\ OnceInv /\ SawInv /\ TypesInv' /\ [Next]_vars => SawInv'
  BY LessUnlocked, SawStep
<1>3. TypesInv /\ SawInv /\ DecisionInv /\ TypesInv' /\ [Next]_vars => DecisionInv'
  BY DecisionStep
<1>4. TypesInv /\ OnceInv /\ SawInv /\ DecisionInv /\ BooksInv(m) /\ TypesInv' /\ [Next]_vars
        => BooksInv(m)'
  BY BooksStep
<1>5. Balances = BalanceOf(Latest.data) /\ DOMAIN Balances = DOMAIN Latest.data.accounts
  BY DEF Balances, BalanceOf
<1>6. BooksInv(m) => TheBank!Init
  <2> SUFFICES ASSUME BooksInv(m) PROVE TheBank!Init
    OBVIOUS
  <2>1. /\ DOMAIN Balances \subseteq AccountNames /\ Balances \in [DOMAIN Balances -> Nat]
        /\ Latest.data.overallStat \in Nat
    BY <1>5, Widths DEF BooksInv, Sound, IsData
  <2> QED BY <2>1 DEF TheBank!Init
<1>7. TypesInv /\ OnceInv /\ SawInv /\ DecisionInv /\ BooksInv(m) /\ TypesInv' /\ [Next]_vars
        => [TheBank!Next]_<<Balances, Latest.data.overallStat>>
  <2> SUFFICES ASSUME BankMove(Latest.data, Latest'.data)
               PROVE  [TheBank!Next]_<<Balances, Latest.data.overallStat>>
    BY BooksStep
  <2>1. PICK d, e : d = Latest.data /\ e = Latest'.data
    OBVIOUS
  <2>2. /\ Balances = BalanceOf(d) /\ Balances' = BalanceOf(e)
        /\ Latest.data.overallStat = d.overallStat /\ Latest'.data.overallStat = e.overallStat
    BY <2>1 DEF Balances, BalanceOf
  <2>3. CASE BalanceOf(e) = BalanceOf(d) /\ e.overallStat = d.overallStat
    BY <2>2, <2>3
  <2>4. ASSUME NEW a \in AccountNames, NEW b \in AccountNames, NEW n \in Amounts,
               Transferred(d, e, a, b, n)
        PROVE  TheBank!Next
    <3>1. TheBank!Transfer(a, b, n)
      BY <2>2, <2>4 DEF Transferred, TheBank!Transfer
    <3> QED BY <3>1 DEF TheBank!Next
  <2>5. ASSUME NEW a \in AccountNames, NEW n \in Amounts, Injected(d, e, a, n)
        PROVE  TheBank!Next
    <3>1. TheBank!Inject(a, n)
      BY <2>2, <2>5 DEF Injected, TheBank!Inject
    <3> QED BY <3>1 DEF TheBank!Next
  <2>6. ASSUME NEW a \in AccountNames, Closed(d, e, a)
        PROVE  TheBank!Next
    <3>1. TheBank!Close(a)
      BY <2>2, <2>6 DEF Closed, TheBank!Close
    <3> QED BY <3>1 DEF TheBank!Next
  <2> QED BY <2>1, <2>3, <2>4, <2>5, <2>6 DEF BankMove
<1> QED BY <1>1, <1>2, <1>3, <1>4, <1>6, <1>7, OnceStep, TypesCorrect, PTL
        DEF Spec, ImplementsBank, TheBank!Spec
=============================================================================
