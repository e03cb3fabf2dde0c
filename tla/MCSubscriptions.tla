--------------------------- MODULE MCSubscriptions ---------------------------
(* Two servers, each of which may crash, be late and lose what it is asked. *)
EXTENDS Subscriptions

CONSTANTS s1, s2
=============================================================================
