-------------------------- MODULE RequestLifecycle --------------------------
(***************************************************************************)
(* What the chain version of the demo promises of a request: it is placed  *)
(* once, accepted at most once, answered only between acceptance and       *)
(* completion, and completed at most once, in the one fashion its history  *)
(* allows.  No program, message or clock appears here.                     *)
(***************************************************************************)
CONSTANT RequestIds

VARIABLE phase  \* phase[id]: how far request id has come

Open == {"unknown", "placed", "accepted", "responded", "finished"}
Closed == {"Fulfilled", "TimeoutBeforeAcceptance",
           "AcceptedThenTimeoutBeforeResponse", "PartiallyHandledThenTimeout"}

Init == phase = [id \in RequestIds |-> "unknown"]

Move(id, from, to) == phase[id] = from /\ phase' = [phase EXCEPT ![id] = to]

Place(id) == Move(id, "unknown", "placed")

\* one confirmation may accept several requests
Accept(ids) ==
  /\ \A id \in ids : phase[id] = "placed"
  /\ phase' = [id \in RequestIds |-> IF id \in ids THEN "accepted" ELSE phase[id]]

Answer(id) ==
  \/ Move(id, "accepted", "responded")
  \/ Move(id, "accepted", "finished")
  \/ Move(id, "responded", "finished")

Close(id) ==
  \/ Move(id, "placed", "TimeoutBeforeAcceptance")
  \/ Move(id, "accepted", "AcceptedThenTimeoutBeforeResponse")
  \/ Move(id, "responded", "PartiallyHandledThenTimeout")
  \/ Move(id, "finished", "Fulfilled")

Next ==
  \/ \E id \in RequestIds : Place(id) \/ Answer(id) \/ Close(id)
  \/ \E ids \in SUBSET RequestIds : Accept(ids)

Spec == Init /\ [][Next]_phase
=============================================================================
