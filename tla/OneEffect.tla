------------------------------ MODULE OneEffect ------------------------------
(* What the Kernel Service promises of governed effects, without saying how: *)
(* an effect takes place only after it was asked for, at most once, and it   *)
(* is told of as committed only after it took place.  Of an effect whose     *)
(* receipt does not say who made it, the state it would bring about is told  *)
(* of as well when somebody else did.  It may also never take place, and an  *)
(* effect that did may never be told of.                                     *)
EXTENDS Naturals

CONSTANTS
  Effects,    \* effect_ids
  Anonymous   \* those whose receipt does not say who made it

VARIABLES
  asked,   \* effects whose dispatch was authorised
  taken,   \* how often each effect took place at its target
  met,     \* effects whose state somebody else has brought about
  told     \* effects the ledger says are committed

vars == <<asked, taken, met, told>>

Init ==
  /\ asked = {}
  /\ taken = [e \in Effects |-> 0]
  /\ met = {}
  /\ told = {}

Ask(e) ==
  /\ asked' = asked \union {e}
  /\ UNCHANGED <<taken, met, told>>

Take(e) ==
  /\ e \in asked
  /\ taken[e] = 0
  /\ taken' = [taken EXCEPT ![e] = 1]
  /\ UNCHANGED <<asked, met, told>>

Meet(e) ==
  /\ e \in Anonymous
  /\ met' = met \union {e}
  /\ UNCHANGED <<asked, taken, told>>

Tell(e) ==
  /\ taken[e] = 1 \/ e \in met
  /\ told' = told \union {e}
  /\ UNCHANGED <<asked, taken, met>>

Next == \E e \in Effects : Ask(e) \/ Take(e) \/ Meet(e) \/ Tell(e)

Spec == Init /\ [][Next]_vars
=============================================================================
