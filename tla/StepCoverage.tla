--------------------------- MODULE StepCoverage ---------------------------
(***************************************************************************)
(* The driver of the test generator, step_coverage (simulation.cpp), with  *)
(* the functions it runs the search through: explore_one_step,             *)
(* find_next_cfg, concolic_iteration, remove_covered_targets.              *)
(*                                                                         *)
(* The design under test is abstracted to what the driver sees of it: a    *)
(* simulation logs some set of targets, and the search either finds an     *)
(* input for another branch at some clock of the last step or does not.    *)
(* Everything the driver itself decides is kept: the three target lists,   *)
(* the coverage flags, the path objects, which several targets share and   *)
(* which explore_one_step lengthens in place, the clock the constraint     *)
(* stack is built up to, and the loop and its limits.                      *)
(***************************************************************************)
EXTENDS Naturals

CONSTANTS
  NumTargets,    (* targets in branch_id; number t is the t-th of the file  *)
  Unroll,        (* g_unroll, the clocks a path may use                     *)
  Step,          (* g_step, the clocks explore_one_step adds                *)
  RandomSims,    (* g_random_sim_num, the simulations before the search     *)
  TotalLimit     (* total_limit, the restarts after which a target is left  *)

ASSUME DriverAssumption ==
  /\ NumTargets \in Nat \ {0}
  /\ Unroll \in Nat \ {0}
  /\ Step \in Nat \ {0}
  /\ RandomSims \in Nat \ {0}
  /\ TotalLimit \in Nat \ {0}

Targets == 1 .. NumTargets

(***************************************************************************)
(* Path objects.  Each random simulation leaves one; the search makes a    *)
(* new one whenever it succeeds and drops the one before it, so a single   *)
(* name, Fresh, is enough for all of these.                                *)
(***************************************************************************)
NoPath      == 0
RandomPaths == 1 .. RandomSims
Fresh       == RandomSims + 1
Paths       == 1 .. RandomSims + 1

(***************************************************************************)
(* The number of slots of version_at_clock and of SMTBranch::coverage: the *)
(* clocks 0 .. Unroll + 9.                                                 *)
(***************************************************************************)
ClockSlots == Unroll + 10

(***************************************************************************)
(* The last ";_C" mark of a simulation log: the generated testbench prints *)
(* the marks 1, 2, 3, ... at the times 2, 10, 20, ... and stops at 12 *    *)
(* Unroll + 7.                                                             *)
(***************************************************************************)
LastMark == ((12 * Unroll + 7) \div 10) + 1

VARIABLES
  pc,            (* where the driver is                                     *)
  sims,          (* random simulations done                                 *)
  pending,       (* target_list                                             *)
  nCovered,      (* how often a target is on covered_target_list            *)
  nUncovered,    (* how often a target is on uncovered_target_list          *)
  covered,       (* targets whose covered_any_clock is set                  *)
  target,        (* the local variable target of step_coverage              *)
  simNum,        (* sim_num                                                 *)
  path,          (* the local variable path of step_coverage                *)
  clk,           (* data.clk of every path object                           *)
  closest,       (* closest_path of every target                            *)
  simClk         (* g_sim_clk, the clock up to which build_stack reads      *)

lists == << pending, nCovered, nUncovered >>
vars  == << pc, sims, pending, nCovered, nUncovered, covered, target,
            simNum, path, clk, closest, simClk >>

Stopped == {"done", "hung", "crashed", "aborted"}

TypeOK ==
  /\ pc \in {"random", "select", "explore", "flip", "judge", "limit"}
              \cup Stopped
  /\ sims \in 0 .. RandomSims
  /\ pending \subseteq Targets
  /\ nCovered \in [Targets -> Nat]
  /\ nUncovered \in [Targets -> Nat]
  /\ covered \subseteq Targets
  /\ target \in Targets
  /\ simNum \in 0 .. TotalLimit
  /\ path \in Paths \cup {NoPath}
  /\ clk \in [Paths -> Nat]
  /\ closest \in [Targets -> RandomPaths]
  /\ simClk \in Nat

-----------------------------------------------------------------------------
(***************************************************************************)
(* Shared parts of the actions.                                            *)
(***************************************************************************)

(* Broken: the target added last comes first. *)
IsFrontBack(t) == t \in pending /\ \A u \in pending : u <= t

(* target_list.front(): nothing ever reorders the list. *)
IsFront(t) == t \in pending /\ \A u \in pending : t <= u

(***************************************************************************)
(* Where simulate_build_stack leaves the driver that would go on at next,  *)
(* when the stack is built up to clock c.  build_stack reads the log until *)
(* it meets the mark c + 1 and does not look for the end of the file: with *)
(* too short a log it never returns.  For a clock without a slot it writes *)
(* past the end of two arrays: the program may go on or die.               *)
(***************************************************************************)
AfterStack(c, next) ==
  IF c + 1 > LastMark THEN {"hung"}
  ELSE IF c >= ClockSlots THEN {next, "crashed"}
  ELSE {next}

(* create_constraint raises the flag of every branch the log names; claim is
   what find_next_cfg raised before the simulation. *)
Log(seen, claim) == covered' = covered \cup seen \cup claim

(* remove_covered_targets *)
RemoveCovered ==
  /\ pending' = pending \ covered
  /\ nCovered' = [t \in Targets |->
                    IF t \in pending \cap covered THEN nCovered[t] + 1
                                                  ELSE nCovered[t]]
  /\ UNCHANGED nUncovered

-----------------------------------------------------------------------------
(* A branch of the reset logic has its flag up before the first run. *)
Init ==
  /\ pc = "random"
  /\ sims = 0
  /\ pending = Targets
  /\ nCovered = [t \in Targets |-> 0]
  /\ nUncovered = [t \in Targets |-> 0]
  /\ covered \in SUBSET Targets
  /\ target = 1
  /\ simNum = 0
  /\ path = NoPath
  /\ clk = [p \in Paths |-> 0]
  /\ closest = [t \in Targets |-> 1]
  /\ simClk = Step

(***************************************************************************)
(* One random simulation; nearer is the set of targets this path is closer *)
(* to than all before it, every target for the first path.                 *)
(***************************************************************************)
RandomSim(seen, nearer) ==
  /\ pc = "random"
  /\ sims < RandomSims
  /\ sims' = sims + 1
  /\ path' = sims + 1
  /\ clk' = [clk EXCEPT ![sims + 1] = Step]
  /\ closest' = [t \in Targets |-> IF t \in nearer THEN sims + 1
                                                   ELSE closest[t]]
  /\ pc' \in AfterStack(simClk, pc)
  /\ Log(seen, {})
  /\ UNCHANGED << lists, target, simNum, simClk >>

EndRandom ==
  /\ pc = "random"
  /\ sims = RandomSims
  /\ RemoveCovered
  /\ pc' = "select"
  /\ UNCHANGED << sims, covered, target, simNum, path, clk,
                  closest, simClk >>

-----------------------------------------------------------------------------
(* The head of the outer loop. *)

(* Broken: the front is taken off without a look at its flag. *)
SkipCoveredUnchecked ==
  /\ pc = "select"
  /\ simNum' = 0
  /\ \E t \in pending :
       /\ IsFront(t)
       /\ target' = t
       /\ pending' = pending \ {t}
       /\ nCovered' = [nCovered EXCEPT ![t] = @ + 1]
  /\ UNCHANGED << pc, sims, nUncovered, covered, path, clk,
                  closest, simClk >>

SkipCovered ==
  /\ pc = "select"
  /\ simNum' = 0
  /\ \E t \in covered :
       /\ IsFront(t)
       /\ target' = t
       /\ pending' = pending \ {t}
       /\ nCovered' = [nCovered EXCEPT ![t] = @ + 1]
  /\ UNCHANGED << pc, sims, nUncovered, covered, path, clk,
                  closest, simClk >>

(* Broken: the count of restarts is kept from target to target. *)
TakeUpNoReset(t, seen) ==
  /\ pc = "select"
  /\ IsFront(t)
  /\ t \notin covered
  /\ target' = t
  /\ path' = closest[t]
  /\ pc' \in AfterStack(simClk, "explore")
  /\ Log(seen, {})
  /\ UNCHANGED << sims, lists, simNum, clk, closest, simClk >>

(***************************************************************************)
(* A target is taken up.  Unless the driver stands on its closest path,    *)
(* that path is written out and simulated again, and the stack is built up *)
(* to the g_sim_clk of the last simulation.                                *)
(***************************************************************************)
TakeUp(t, seen) ==
  /\ pc = "select"
  /\ IsFront(t)
  /\ t \notin covered
  /\ target' = t
  /\ simNum' = 0
  /\ path' = closest[t]
  /\ \/ /\ closest[t] # path
        /\ Log(seen, {})
        /\ pc' \in AfterStack(simClk, "explore")
     \/ /\ closest[t] = path
        /\ pc' = "explore"
        /\ UNCHANGED covered
  /\ UNCHANGED << sims, lists, clk, closest, simClk >>

Finish ==
  /\ pc = "select"
  /\ pending = {}
  /\ pc' = "done"
  /\ UNCHANGED << sims, lists, covered, target, simNum, path, clk,
                  closest, simClk >>

-----------------------------------------------------------------------------
(* The body of concolic_iteration. *)

(***************************************************************************)
(* explore_one_step on the path in hand: the object itself grows by Step.  *)
(***************************************************************************)
Explore(seen) ==
  /\ pc = "explore"
  /\ clk' = [clk EXCEPT ![path] = @ + Step]
  /\ simClk' = clk[path] + Step
  /\ pc' \in AfterStack(clk[path] + Step, "flip")
  /\ Log(seen, {})
  /\ UNCHANGED << sims, lists, target, simNum, path, closest >>

(***************************************************************************)
(* find_next_cfg succeeds at a clock c of the last step.  The flag of the  *)
(* branch it wanted (claim: at most one target) goes up before the new     *)
(* input is simulated; the new path is a prefix of the old one.            *)
(***************************************************************************)
Flip(c, claim, seen) ==
  /\ pc = "flip"
  /\ c + Step > clk[path]
  /\ c <= clk[path]
  /\ simClk' = c
  /\ Log(seen, claim)
  /\ pc' \in AfterStack(c, "judge")
  /\ IF pc' = "crashed"
     THEN UNCHANGED << path, clk >>
     ELSE /\ path' = Fresh
          /\ clk' = [clk EXCEPT ![Fresh] = c]
  /\ UNCHANGED << sims, lists, target, simNum, closest >>

(* find_next_cfg finds no branch to flip: the outer loop starts over. *)
FlipNothing ==
  /\ pc = "flip"
  /\ path' = NoPath
  /\ pc' = "select"
  /\ UNCHANGED << sims, lists, covered, target, simNum, clk,
                  closest, simClk >>

(***************************************************************************)
(* The terms of the trace contradict each other: check_satisfiability ends *)
(* the program with "Simulation not satisfiable".                          *)
(***************************************************************************)
FlipUnsat ==
  /\ pc = "flip"
  /\ pc' = "aborted"
  /\ UNCHANGED << sims, lists, covered, target, simNum, path, clk,
                  closest, simClk >>

-----------------------------------------------------------------------------
(* The body of the inner loop after concolic_iteration. *)

(* The path is longer than Unroll and its target is covered. *)
LeaveLongPath ==
  /\ pc = "judge"
  /\ clk[path] > Unroll
  /\ target \in covered
  /\ RemoveCovered
  /\ pc' = "select"
  /\ UNCHANGED << sims, covered, target, simNum, path, clk,
                  closest, simClk >>

(* Broken: a restart is not counted. *)
RestartUncounted(seen) ==
  /\ pc = "judge"
  /\ clk[path] > Unroll
  /\ target \notin covered
  /\ clk' = [clk EXCEPT ![path] = Step]
  /\ simClk' = Step
  /\ pc' \in AfterStack(Step, "limit")
  /\ Log(seen, {})
  /\ UNCHANGED << sims, lists, target, simNum, path, closest >>

(* The path is longer than Unroll: it is cut to one fresh step. *)
Restart(seen) ==
  /\ pc = "judge"
  /\ clk[path] > Unroll
  /\ target \notin covered
  /\ clk' = [clk EXCEPT ![path] = Step]
  /\ simNum' = simNum + 1
  /\ simClk' = Step
  /\ pc' \in AfterStack(Step, "limit")
  /\ Log(seen, {})
  /\ UNCHANGED << sims, lists, target, path, closest >>

(* Broken: the path is never compared with g_unroll. *)
AtLimitTestUncut == pc \in {"judge", "limit"}

AtLimitTest == pc = "limit" \/ (pc = "judge" /\ clk[path] <= Unroll)

(* Broken: the target given up is not taken off target_list. *)
GiveUpNoPop ==
  /\ AtLimitTest
  /\ simNum >= TotalLimit
  /\ nUncovered' = [nUncovered EXCEPT ![target] = @ + 1]
  /\ pc' = "select"
  /\ UNCHANGED << sims, pending, nCovered, covered, target, simNum,
                  path, clk, closest, simClk >>

(* Broken: the inner loop goes on with a target it gave up. *)
GiveUpNoBreak ==
  /\ AtLimitTest
  /\ simNum >= TotalLimit
  /\ \E t \in pending : IsFront(t) /\ pending' = pending \ {t}
  /\ nUncovered' = [nUncovered EXCEPT ![target] = @ + 1]
  /\ pc' = "explore"
  /\ UNCHANGED << sims, nCovered, covered, target, simNum, path,
                  clk, closest, simClk >>

(* The limit is tested before the flag: pop_front, then push target. *)
GiveUp ==
  /\ AtLimitTest
  /\ simNum >= TotalLimit
  /\ \E t \in pending : IsFront(t) /\ pending' = pending \ {t}
  /\ nUncovered' = [nUncovered EXCEPT ![target] = @ + 1]
  /\ pc' = "select"
  /\ UNCHANGED << sims, nCovered, covered, target, simNum, path,
                  clk, closest, simClk >>

Succeed ==
  /\ AtLimitTest
  /\ simNum < TotalLimit
  /\ target \in covered
  /\ RemoveCovered
  /\ pc' = "select"
  /\ UNCHANGED << sims, covered, target, simNum, path, clk,
                  closest, simClk >>

Continue ==
  /\ AtLimitTest
  /\ simNum < TotalLimit
  /\ target \notin covered
  /\ pc' = "explore"
  /\ UNCHANGED << sims, lists, covered, target, simNum, path, clk,
                  closest, simClk >>

-----------------------------------------------------------------------------
Claims == {{}} \cup {{t} : t \in Targets}

Stop == pc \in Stopped /\ UNCHANGED vars

Next ==
  \/ \E seen, nearer \in SUBSET Targets :
       /\ sims = 0 => nearer = Targets
       /\ RandomSim(seen, nearer)
  \/ EndRandom
  \/ SkipCovered
  \/ \E t \in Targets, seen \in SUBSET Targets : TakeUp(t, seen)
  \/ Finish
  \/ \E seen \in SUBSET Targets : Explore(seen)
  \/ \E c \in 1 .. LastMark, claim \in Claims, seen \in SUBSET Targets :
       Flip(c, claim, seen)
  \/ FlipNothing
  \/ FlipUnsat
  \/ LeaveLongPath
  \/ \E seen \in SUBSET Targets : Restart(seen)
  \/ GiveUp
  \/ Succeed
  \/ Continue
  \/ Stop

Spec == Init /\ [][Next]_vars

(***************************************************************************)
(* The program is one thread that waits for nothing but the simulator and  *)
(* the solver, which return: it takes its next step if it has one.         *)
(***************************************************************************)
FairSpec == Spec /\ WF_vars(Next)

-----------------------------------------------------------------------------
(***************************************************************************)
(* Properties.                                                             *)
(***************************************************************************)

Searching == {"explore", "flip", "judge", "limit"}

(***************************************************************************)
(* Every target of branch_id is on exactly one of the three lists, once:   *)
(* the coverage rate end_concolic prints divides the length of one list by *)
(* the number of targets, although three places of step_coverage and       *)
(* remove_covered_targets move targets between them.                       *)
(***************************************************************************)
OnOneList ==
  \A t \in Targets :
    (IF t \in pending THEN 1 ELSE 0) + nCovered[t] + nUncovered[t] = 1

(***************************************************************************)
(* While a target is searched for it stays the front of target_list, so    *)
(* that the pop_front of the give-up branch removes the very target it     *)
(* then pushes on the other list.                                          *)
(***************************************************************************)
SearchedIsFront == pc \in Searching => IsFront(target)

(***************************************************************************)
(* covered_target_list, the numerator of the coverage rate, holds only     *)
(* targets whose flag is up.                                               *)
(***************************************************************************)
CoveredListFlagged == \A t \in Targets : nCovered[t] > 0 => t \in covered

(***************************************************************************)
(* When a step beyond Unroll fits the slots and the log, the driver runs   *)
(* out of either only on a path of the random phase: explore_one_step      *)
(* lengthens it for good each time a target starts from it, whereas a path *)
(* the search made is cut by the test against g_unroll in time.            *)
(***************************************************************************)
StepFits ==
  /\ Step <= Unroll
  /\ Unroll + Step < ClockSlots
  /\ Unroll + Step < LastMark

LostOnlyByReuse ==
  StepFits /\ pc \in {"hung", "crashed"} => path \in RandomPaths

(***************************************************************************)
(* The lists implement the contract of CoverageContract.                   *)
(***************************************************************************)
Status ==
  [t \in Targets |-> IF t \in pending THEN "pending"
                     ELSE IF nCovered[t] > 0 THEN "covered"
                     ELSE "givenUp"]

Contract == INSTANCE CoverageContract WITH status <- Status, flag <- covered

ImplementsContract == Contract!Spec

(***************************************************************************)
(* The search ends: whatever find_next_cfg answers, a successful search    *)
(* makes the path longer until it is cut, at most TotalLimit times, and a  *)
(* failing one makes the random path longer until the driver is lost.      *)
(***************************************************************************)
SearchEnds == <>(pc \in Stopped)

(* The slots the clock indexes exist: the assertion of is_covered_clk, which
   the driver does not keep. *)
ClockInSlots == simClk <= ClockSlots

=============================================================================
