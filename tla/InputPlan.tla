----------------------------- MODULE InputPlan -----------------------------
(***************************************************************************)
(* What the test vectors are for, whatever bits they are made of: a plan   *)
(* says which value every input of the design has in every clock.  Some    *)
(* plans are kept, the one in hand is driven.  It is lengthened, where it  *)
(* is kept, and else begun afresh; it is cut after a clock and corrected   *)
(* by what the solver says of the clocks that are left, which makes a new  *)
(* one of it; or it is given up for a kept one, as that was left.          *)
(*                                                                         *)
(* TestVectors implements this plan.                                       *)
(***************************************************************************)
EXTENDS Integers, Sequences

CONSTANTS
  Ports,       (* the inputs of the design                                  *)
  Step         (* clocks that are planned at a time                         *)

VARIABLES
  plan,        (* plan[c][p]: the value of input p in the c-th clock        *)
  model,       (* what the solver said last: port, clock, value             *)
  kept,        (* the plans that can be taken up again                      *)
  hand         (* the plan in hand: a kept one, a new one or none           *)

vars == << plan, model, kept, hand >>

Fresh == 0
None == -1

(* What a model says of an input in a clock, if it says anything. *)
Said(m, p, c) == {e \in {m[i] : i \in DOMAIN m} : e.port = p /\ e.clock = c}

Init ==
  /\ \A k \in DOMAIN kept : Len(kept[k]) = Step
  /\ hand \in DOMAIN kept /\ plan = kept[hand]
  /\ model = << >>

Lengthen ==
  /\ hand # None
  /\ Len(plan') = Len(plan) + Step
  /\ SubSeq(plan', 1, Len(plan)) = plan
  /\ kept' = [k \in DOMAIN kept |-> IF k = hand THEN plan' ELSE kept[k]]
  /\ UNCHANGED << model, hand >>

StartAfresh ==
  /\ hand = Fresh
  /\ Len(plan') = Step
  /\ UNCHANGED << model, kept, hand >>

Correct(clock) ==
  /\ hand # None /\ hand' = Fresh
  /\ Len(plan') = clock
  /\ \A c \in 1 .. clock, p \in Ports :
       plan'[c][p] = IF Said(model', p, c) = {} THEN plan[c][p]
                     ELSE (CHOOSE e \in Said(model', p, c) : TRUE).value
  /\ UNCHANGED kept

Leave ==
  /\ hand # None /\ hand' = None
  /\ UNCHANGED << plan, model, kept >>

TakeUp(k) ==
  /\ hand # k /\ hand' = k
  /\ plan' = kept[k]
  /\ UNCHANGED << model, kept >>

Next ==
  \/ Lengthen \/ StartAfresh \/ Leave
  \/ \E clock \in 1 .. Len(plan) : Correct(clock)
  \/ \E k \in DOMAIN kept : TakeUp(k)

Spec == Init /\ [][Next]_vars

=============================================================================
