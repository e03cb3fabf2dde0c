------------------------------ MODULE Accounts ------------------------------
(***************************************************************************)
(* The data of src/transaction_redundancy_test and what its commands do to *)
(* it (TransactionInterface.cpp, DBData.hpp): accounts with an amount and  *)
(* a pending amount, a list of pending transfers and the sum of all        *)
(* amounts, stored as separate parts that have separate versions.          *)
(*                                                                         *)
(* An optional value is a set with at most one element.  Integers have the *)
(* width the code gives them, with Half for 2^31.                          *)
(***************************************************************************)
EXTENDS Integers, Sequences, FiniteSets, Functions

CONSTANTS
  AccountNames,
  Amounts,      \* the amounts commands carry
  Half,         \* half the number of values an amount can have
  PENDING_TRANSFER_SIZE_LIMIT

AccountsAssumption ==
  /\ Half \in Nat \ {0}
  /\ Amounts \subseteq 0..(2 * Half - 1)
  /\ PENDING_TRANSFER_SIZE_LIMIT \in Nat

ASSUME AccountsOK == AccountsAssumption

-----------------------------------------------------------------------------
(* Numbers *)

UIntSize == 2 * Half
UInt == 0..(UIntSize - 1)                    \* uint32_t
IntMin == -Half
IntMax == Half - 1
SInt == IntMin..IntMax                       \* int32_t
TotalSize == UIntSize * UIntSize
Total == 0..(TotalSize - 1)                  \* uint64_t

ToUInt(n) == n % UIntSize
ToSInt(n) == IF ToUInt(n) > IntMax THEN ToUInt(n) - UIntSize ELSE ToUInt(n)
ToTotal(n) == n % TotalSize

-----------------------------------------------------------------------------
(* Data, slices and commands *)

Transfers == [from: AccountNames, to: AccountNames, amount: Amounts]
AccountData == [amount: UInt, pending_amount: SInt]

Option(S) == {{}} \cup {{x} : x \in S}
Value(opt, otherwise) == IF opt = {} THEN otherwise ELSE CHOOSE x \in opt : TRUE

IsData(d) ==
  /\ d = [overallStat |-> d.overallStat, accounts |-> d.accounts,
          pendingTransfers |-> d.pendingTransfers]
  /\ d.overallStat \in Total
  /\ DOMAIN d.accounts \subseteq AccountNames
  /\ d.accounts \in [DOMAIN d.accounts -> AccountData]
  /\ d.pendingTransfers \in Seq(Transfers)
  /\ Len(d.pendingTransfers) <= PENDING_TRANSFER_SIZE_LIMIT

IsVersion(v) ==
  /\ v = [overallStat |-> v.overallStat, accounts |-> v.accounts,
          pendingTransfers |-> v.pendingTransfers]
  /\ v.overallStat \in Nat /\ v.pendingTransfers \in Nat
  /\ DOMAIN v.accounts \subseteq AccountNames
  /\ v.accounts \in [DOMAIN v.accounts -> Nat]

Command ==
  [type: {"transfer"}, from: AccountNames, to: AccountNames, amount: Amounts]
  \cup [type: {"process"}]
  \cup [type: {"inject"}, to: AccountNames, amount: Amounts]
  \cup [type: {"close"}, which: AccountNames, unchecked: BOOLEAN]

NoAccounts == [a \in {} |-> 0]
EmptySlice == [overallStat |-> {}, accounts |-> NoAccounts, pendingTransfers |-> {}]

-----------------------------------------------------------------------------
(* ValidateCommandImpl::check.  The sum of two int32_t wraps. *)

\* slip: one transfer too many fits into the list
Valid_OneMore(d, cmd) ==
  cmd.type = "transfer" =>
    /\ Len(d.pendingTransfers) <= PENDING_TRANSFER_SIZE_LIMIT
    /\ {cmd.from, cmd.to} \subseteq DOMAIN d.accounts
    /\ d.accounts[cmd.from].amount + d.accounts[cmd.from].pending_amount >= cmd.amount

Valid(d, cmd) ==
  cmd.type = "transfer" =>
    /\ Len(d.pendingTransfers) < PENDING_TRANSFER_SIZE_LIMIT
    /\ {cmd.from, cmd.to} \subseteq DOMAIN d.accounts
    /\ LET willBePending == d.accounts[cmd.from].pending_amount - cmd.amount IN
         /\ willBePending >= IntMin
         /\ ToSInt(ToSInt(d.accounts[cmd.from].amount) + willBePending) >= 0
    /\ d.accounts[cmd.to].pending_amount + cmd.amount <= IntMax

-----------------------------------------------------------------------------
(* ProcessCommandOnLocalDataImpl::process: the slice a valid command writes. *)

Pend(account, n) == [account EXCEPT !.pending_amount = ToSInt(@ + n)]

TransferSlice(d, cmd) ==
  LET sent == [d.accounts EXCEPT ![cmd.from] = Pend(@, -cmd.amount)]
      done == [sent EXCEPT ![cmd.to] = Pend(@, cmd.amount)]
  IN [EmptySlice EXCEPT
        !.accounts = [a \in {cmd.from, cmd.to} |-> {done[a]}],
        !.pendingTransfers =
          {Append(d.pendingTransfers,
                  [from |-> cmd.from, to |-> cmd.to, amount |-> cmd.amount])}]

\* a credit that does not fit wraps before it is compared with the maximum
Settled(account) ==
  [amount |-> IF account.pending_amount < 0 /\ account.amount < -account.pending_amount
              THEN 0 ELSE ToUInt(account.amount + account.pending_amount),
   pending_amount |-> 0]

Affected(d) == {d.pendingTransfers[i].from : i \in DOMAIN d.pendingTransfers}
               \cup {d.pendingTransfers[i].to : i \in DOMAIN d.pendingTransfers}

ProcessSlice(d) ==
  [EmptySlice EXCEPT
     !.accounts = [a \in Affected(d) \cap DOMAIN d.accounts |-> {Settled(d.accounts[a])}],
     !.pendingTransfers = {<<>>}]

\* slip: what is pending for the account is lost
InjectSlice_Resetting(d, cmd) ==
  [EmptySlice EXCEPT
     !.overallStat = {ToTotal(d.overallStat + cmd.amount)},
     !.accounts = [a \in {cmd.to} |->
       {[amount |-> ToUInt((IF a \in DOMAIN d.accounts THEN d.accounts[a].amount ELSE 0)
                           + cmd.amount),
         pending_amount |-> 0]}]]

InjectSlice(d, cmd) ==
  LET old == IF cmd.to \in DOMAIN d.accounts THEN d.accounts[cmd.to]
             ELSE [amount |-> 0, pending_amount |-> 0]
      n == ToUInt(old.amount + cmd.amount)
  IN [EmptySlice EXCEPT
        !.overallStat = {ToTotal(d.overallStat + n - old.amount)},
        !.accounts = [a \in {cmd.to} |-> {[old EXCEPT !.amount = n]}]]

\* slip: what is pending stays in the sum
CloseSlice_AmountOnly(d, cmd) ==
  IF cmd.which \notin DOMAIN d.accounts THEN EmptySlice
  ELSE [EmptySlice EXCEPT
          !.overallStat = {ToTotal(d.overallStat - d.accounts[cmd.which].amount)},
          !.accounts = [a \in {cmd.which} |-> {}]]

CloseSlice(d, cmd) ==
  IF cmd.which \notin DOMAIN d.accounts THEN EmptySlice
  ELSE LET old == d.accounts[cmd.which]
           oldAmount == ToSInt(ToSInt(old.amount) + old.pending_amount)
       IN [EmptySlice EXCEPT
             !.overallStat = {IF oldAmount > 0 /\ d.overallStat < oldAmount THEN 0
                              ELSE ToTotal(d.overallStat - oldAmount)},
             !.accounts = [a \in {cmd.which} |-> {}]]

SliceOf(d, cmd) ==
  CASE cmd.type = "transfer" -> TransferSlice(d, cmd)
    [] cmd.type = "process" -> ProcessSlice(d)
    [] cmd.type = "inject" -> InjectSlice(d, cmd)
    [] cmd.type = "close" -> CloseSlice(d, cmd)

-----------------------------------------------------------------------------
(* ApplyDataSlice, and what etcd does to the versions of the keys a slice   *)
(* writes: a put adds one, a deleted key has version 0.                     *)

Apply(d, slice) ==
  LET closed == {a \in DOMAIN slice.accounts : slice.accounts[a] = {}} IN
  [overallStat |-> Value(slice.overallStat, d.overallStat),
   accounts |-> [a \in (DOMAIN d.accounts \cup DOMAIN slice.accounts) \ closed |->
     IF a \in DOMAIN slice.accounts THEN Value(slice.accounts[a], 0) ELSE d.accounts[a]],
   pendingTransfers |-> Value(slice.pendingTransfers, d.pendingTransfers)]

VersionIn(accounts, a) == IF a \in DOMAIN accounts THEN accounts[a] ELSE 0

NextVersion(v, slice) ==
  [overallStat |-> v.overallStat + Cardinality(slice.overallStat),
   accounts |-> [a \in DOMAIN v.accounts \cup DOMAIN slice.accounts |->
     IF a \notin DOMAIN slice.accounts THEN v.accounts[a]
     ELSE IF slice.accounts[a] = {} THEN 0 ELSE VersionIn(v.accounts, a) + 1],
   pendingTransfers |-> v.pendingTransfers + Cardinality(slice.pendingTransfers)]

\* The part of the data, or of its version, that a client names with a command.
\* It names nothing when it asks to process, or closes an account unchecked, as
\* it does when it runs by itself (autoRounds).
Named(cmd, whole) ==
  LET names == CASE cmd.type = "transfer" -> {cmd.from, cmd.to}
                 [] cmd.type = "inject" -> {cmd.to}
                 [] cmd.type = "close" -> {cmd.which}
                 [] OTHER -> {}
      checked == cmd.type = "close" => ~ cmd.unchecked
  IN IF ~ checked THEN EmptySlice
     ELSE [overallStat |-> IF cmd.type \in {"inject", "close"} THEN {whole.overallStat} ELSE {},
           accounts |-> [a \in names \cap DOMAIN whole.accounts |-> {whole.accounts[a]}],
           pendingTransfers |-> IF cmd.type = "transfer" THEN {whole.pendingTransfers} ELSE {}]

-----------------------------------------------------------------------------
(* The checks a server makes on its own copy: CheckVersionSlice, in which a *)
(* zero stands for anything, and CheckSummary.                              *)

Agree(a, b) == a = 0 \/ b = 0 \/ a = b

VersionMatches(v, slice) ==
  /\ Agree(v.overallStat, Value(slice.overallStat, 0))
  /\ \A a \in DOMAIN slice.accounts :
       LET b == Value(slice.accounts[a], 0) IN
       IF a \in DOMAIN v.accounts THEN Agree(v.accounts[a], b) ELSE b = 0
  /\ Agree(v.pendingTransfers, Value(slice.pendingTransfers, 0))

SummaryMatches(d, summary) ==
  /\ d.overallStat = Value(summary.overallStat, d.overallStat)
  /\ \A a \in DOMAIN summary.accounts :
       summary.accounts[a] # {} =>
         a \in DOMAIN d.accounts /\ summary.accounts[a] = {d.accounts[a]}
  /\ d.pendingTransfers = Value(summary.pendingTransfers, d.pendingTransfers)

\* what an account has, counting what is on its way to it and from it
Balance(account) == account.amount + account.pending_amount
=============================================================================
