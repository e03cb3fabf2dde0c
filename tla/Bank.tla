-------------------------------- MODULE Bank --------------------------------
(***************************************************************************)
(* What the accounts of the transaction servers promise to their users:    *)
(* every account has a balance, every command is one step, and the total   *)
(* is what the balances add up to.  Settling pending transfers is no step. *)
(***************************************************************************)
EXTENDS Integers

CONSTANTS Names, Sums

VARIABLES balance,  \* balance[a] of every open account a
          total

Init ==
  /\ DOMAIN balance \subseteq Names /\ balance \in [DOMAIN balance -> Nat]
  /\ total \in Nat

Transfer(a, b, n) ==
  /\ {a, b} \subseteq DOMAIN balance /\ balance[a] >= n
  /\ balance' = [c \in DOMAIN balance |->
       balance[c] - (IF c = a THEN n ELSE 0) + (IF c = b THEN n ELSE 0)]
  /\ UNCHANGED total

Inject(a, n) ==
  /\ balance' = [c \in DOMAIN balance \cup {a} |->
       IF c # a THEN balance[c] ELSE IF a \in DOMAIN balance THEN balance[a] + n ELSE n]
  /\ total' = total + n

Close(a) ==
  /\ a \in DOMAIN balance
  /\ balance' = [c \in DOMAIN balance \ {a} |-> balance[c]]
  /\ total' = total - balance[a]

Next ==
  \/ \E a, b \in Names, n \in Sums : Transfer(a, b, n)
  \/ \E a \in Names : Close(a) \/ \E n \in Sums : Inject(a, n)

Spec == Init /\ [][Next]_<<balance, total>>
=============================================================================
