------------------------------ MODULE OneAnswer ------------------------------
(* What the surface broker promises a caller, without saying how: it hears   *)
(* once, whatever comes later, and it hears of a success only after one has  *)
(* been earned.  It may also hear of a failure when one has been.            *)

VARIABLES
  earned,   \* the surface ended by itself, with 0, inside its bound
  heard     \* waiting, or what the caller's request was settled with

vars == <<earned, heard>>

Init == earned = FALSE /\ heard = "waiting"

Earn == earned' = TRUE /\ UNCHANGED heard

Hear(what) ==
  /\ heard = "waiting"
  /\ what = "value" => earned
  /\ heard' = what
  /\ UNCHANGED earned

Next == Earn \/ \E what \in {"value", "negative", "failed"} : Hear(what)

Spec == Init /\ [][Next]_vars
=============================================================================
