---------------------------- MODULE HandlerCalls -----------------------------
(***************************************************************************)
(* What the provider modules assume of whoever calls the handlers of a     *)
(* Component: one call at a time, on the generation that was current when  *)
(* it began; a call returns and its generation is the observed one, or it  *)
(* is lost and leaves nothing.                                             *)
(***************************************************************************)
EXTENDS Naturals

VARIABLES
  generation,  \* bumped by every edit of the Component's spec
  observed,    \* the generation the last finished call worked on
  handling     \* the generation a call is working on, 0 if none

vars == <<generation, observed, handling>>

Init ==
  /\ generation = 1
  /\ observed = 0
  /\ handling = 0

Edit ==
  /\ generation' = generation + 1
  /\ UNCHANGED <<observed, handling>>

Call ==
  /\ handling = 0
  /\ observed # generation
  /\ handling' = generation
  /\ UNCHANGED <<generation, observed>>

Return ==
  /\ handling # 0
  /\ observed' = handling
  /\ handling' = 0
  /\ UNCHANGED generation

Lose ==
  /\ handling' = 0
  /\ UNCHANGED <<generation, observed>>

Next == Edit \/ Call \/ Return \/ Lose

Spec == Init /\ [][Next]_vars

=============================================================================
