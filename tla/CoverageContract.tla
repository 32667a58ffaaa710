------------------------- MODULE CoverageContract -------------------------
(***************************************************************************)
(* What the test generator promises about its targets, whatever path       *)
(* exploration finds: every target listed in the file branch_id is pending *)
(* until it is classified, once and for good, either as covered, and then  *)
(* its coverage flag is up, or as given up, and targets are given up in    *)
(* the order of the file.                                                  *)
(*                                                                         *)
(* StepCoverage implements this contract.                                  *)
(***************************************************************************)
EXTENDS Naturals

CONSTANT NumTargets   (* the number of targets read from branch_id          *)

Targets == 1 .. NumTargets

VARIABLES
  status,             (* status[t]: how target t is classified              *)
  flag                (* the targets whose coverage flag is up              *)

vars == << status, flag >>

TypeOK ==
  /\ status \in [Targets -> {"pending", "covered", "givenUp"}]
  /\ flag \subseteq Targets

Init ==
  /\ status = [t \in Targets |-> "pending"]
  /\ flag \in SUBSET Targets

Flag(ts) ==
  /\ flag' = flag \cup ts
  /\ UNCHANGED status

Cover(ts) ==
  /\ \A t \in ts : status[t] = "pending" /\ t \in flag
  /\ status' = [t \in Targets |-> IF t \in ts THEN "covered" ELSE status[t]]
  /\ UNCHANGED flag

GiveUp(t) ==
  /\ status[t] = "pending"
  /\ \A u \in Targets : u < t => status[u] # "pending"
  /\ status' = [status EXCEPT ![t] = "givenUp"]
  /\ UNCHANGED flag

Next ==
  \/ \E ts \in SUBSET Targets : Flag(ts) \/ Cover(ts)
  \/ \E t \in Targets : GiveUp(t)

Spec == Init /\ [][Next]_vars

=============================================================================
