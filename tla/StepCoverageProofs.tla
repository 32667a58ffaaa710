------------------------ MODULE StepCoverageProofs ------------------------
(***************************************************************************)
(* Theorems about the driver, for any number of targets and any UNROLL,    *)
(* STEP, number of random simulations and limit.                           *)
(***************************************************************************)
EXTENDS StepCoverage, TLAPS

(***************************************************************************)
(* The inductive invariant about the lists.  OnOneList alone is not        *)
(* inductive: GiveUp takes the front off one list and pushes target on     *)
(* another, so the two must be known to be the same target, and this in    *)
(* turn needs the count of restarts to be below the limit whenever the     *)
(* loop goes on.                                                           *)
(***************************************************************************)
RestartsLeft == pc \in {"explore", "flip", "judge"} => simNum < TotalLimit

PathInHand == pc \in Searching => path \in Paths

ListsInv ==
  /\ TypeOK
  /\ OnOneList
  /\ CoveredListFlagged
  /\ SearchedIsFront
  /\ RestartsLeft
  /\ PathInHand

(***************************************************************************)
(* The inductive invariant about the path in hand: one the search made is  *)
(* at most Unroll long where a step is about to be added.                  *)
(***************************************************************************)
PathInv ==
  /\ pc = "random" => path \in RandomPaths \cup {NoPath}
  /\ pc \in {"explore", "limit"} /\ path = Fresh => clk[Fresh] <= Unroll
  /\ pc = "flip" /\ path = Fresh => clk[Fresh] <= Unroll + Step
  /\ pc = "flip" => clk[path] < LastMark
  /\ pc \in {"judge", "limit"} => path = Fresh
  /\ pc \in {"hung", "crashed"} => path \in RandomPaths

-----------------------------------------------------------------------------
LEMMA PathFacts ==
  /\ Fresh \in Paths
  /\ RandomPaths \subseteq Paths
  /\ Fresh \notin RandomPaths
  /\ NoPath \notin Paths
  /\ 1 \in RandomPaths
  BY DriverAssumption DEF Paths, RandomPaths, Fresh, NoPath

(* The outcomes of building the stack. *)
LEMMA AfterStackOutcome ==
  ASSUME NEW c, NEW next, NEW r \in AfterStack(c, next)
  PROVE  r \in {next, "hung", "crashed"}
  BY DEF AfterStack

(* remove_covered_targets keeps every target on one list and moves only
   flagged ones. *)
LEMMA RemoveCoveredKeepsLists ==
  ASSUME TypeOK, OnOneList, CoveredListFlagged, RemoveCovered,
         UNCHANGED covered
  PROVE  /\ pending' \subseteq Targets
         /\ nCovered' \in [Targets -> Nat]
         /\ nUncovered' \in [Targets -> Nat]
         /\ OnOneList'
         /\ CoveredListFlagged'
  BY DEF TypeOK, OnOneList, CoveredListFlagged, RemoveCovered

LEMMA ListsInit == Init => ListsInv
  <1> SUFFICES ASSUME Init PROVE ListsInv
    OBVIOUS
  <1> USE DriverAssumption DEF Init
  <1>1. TypeOK
    BY PathFacts DEF TypeOK, Targets, Stopped
  <1>2. OnOneList /\ CoveredListFlagged
    BY DEF OnOneList, CoveredListFlagged
  <1>3. SearchedIsFront /\ RestartsLeft /\ PathInHand
    BY DEF SearchedIsFront, RestartsLeft, PathInHand, Searching
  <1> QED
    BY <1>1, <1>2, <1>3 DEF ListsInv

(***************************************************************************)
(* An action that leaves the three lists alone and only raises flags keeps *)
(* the conjuncts about them.                                               *)
(***************************************************************************)
LEMMA FlagsOnly ==
  ASSUME ListsInv, UNCHANGED lists, covered \subseteq covered'
  PROVE  OnOneList' /\ CoveredListFlagged'
  BY DEF ListsInv, TypeOK, OnOneList, CoveredListFlagged, lists

LEMMA ListsStep == ListsInv /\ [Next]_vars => ListsInv'
  <1> SUFFICES ASSUME ListsInv, [Next]_vars
               PROVE  ListsInv'
    OBVIOUS
  <1> USE DriverAssumption DEF ListsInv
  <1>1. ASSUME NEW seen \in SUBSET Targets, NEW nearer \in SUBSET Targets,
               RandomSim(seen, nearer)
        PROVE  ListsInv'
    <2>1. pc' \in {"random", "hung", "crashed"}
      BY <1>1, AfterStackOutcome DEF RandomSim
    <2>2. sims + 1 \in RandomPaths
      BY <1>1 DEF RandomSim, TypeOK, RandomPaths
    <2>3. TypeOK'
      BY <1>1, <2>1, <2>2, PathFacts DEF RandomSim, Log, lists, TypeOK, Stopped
    <2>4. OnOneList' /\ CoveredListFlagged'
      BY <1>1, FlagsOnly DEF RandomSim, Log
    <2>5. SearchedIsFront' /\ RestartsLeft' /\ PathInHand'
      BY <2>1 DEF SearchedIsFront, RestartsLeft, PathInHand, Searching
    <2> QED
      BY <2>3, <2>4, <2>5
  <1>2. CASE EndRandom
    BY <1>2, RemoveCoveredKeepsLists
       DEF EndRandom, TypeOK, SearchedIsFront, RestartsLeft, PathInHand,
           Searching
  <1>3. CASE SkipCovered
    <2>1. PICK t \in covered :
            /\ IsFront(t)
            /\ target' = t
            /\ pending' = pending \ {t}
            /\ nCovered' = [nCovered EXCEPT ![t] = @ + 1]
      BY <1>3 DEF SkipCovered
    <2>2. t \in pending /\ t \in Targets
      BY <2>1 DEF IsFront, TypeOK
    <2>3. TypeOK'
      BY <1>3, <2>1, <2>2 DEF SkipCovered, TypeOK
    <2>4. OnOneList' /\ CoveredListFlagged'
      BY <1>3, <2>1, <2>2
         DEF SkipCovered, TypeOK, OnOneList, CoveredListFlagged
    <2>5. SearchedIsFront' /\ RestartsLeft' /\ PathInHand'
      BY <1>3 DEF SkipCovered, SearchedIsFront, RestartsLeft, PathInHand,
                  Searching
    <2> QED
      BY <2>3, <2>4, <2>5
  <1>4. ASSUME NEW t \in Targets, NEW seen \in SUBSET Targets,
               TakeUp(t, seen)
        PROVE  ListsInv'
    <2>1. pc' \in {"explore", "hung", "crashed"}
      BY <1>4, AfterStackOutcome DEF TakeUp
    <2>2. covered \subseteq covered' /\ covered' \subseteq Targets
      BY <1>4 DEF TakeUp, Log, TypeOK
    <2>3. TypeOK'
      BY <1>4, <2>1, <2>2, PathFacts DEF TakeUp, lists, TypeOK, Stopped
    <2>4. OnOneList' /\ CoveredListFlagged'
      BY <1>4, <2>2, FlagsOnly DEF TakeUp
    <2>5. SearchedIsFront'
      BY <1>4 DEF TakeUp, lists, SearchedIsFront, IsFront
    <2>6. RestartsLeft' /\ PathInHand'
      BY <1>4, PathFacts DEF TakeUp, RestartsLeft, PathInHand, TypeOK
    <2> QED
      BY <2>3, <2>4, <2>5, <2>6
  <1>5. CASE Finish
    BY <1>5, FlagsOnly
       DEF Finish, lists, TypeOK, Stopped, SearchedIsFront, RestartsLeft,
           PathInHand, Searching
  <1>6. ASSUME NEW seen \in SUBSET Targets, Explore(seen)
        PROVE  ListsInv'
    <2>1. pc' \in {"flip", "hung", "crashed"}
      BY <1>6, AfterStackOutcome DEF Explore
    <2>2. path \in Paths /\ simNum < TotalLimit /\ IsFront(target)
      BY <1>6 DEF Explore, PathInHand, RestartsLeft, SearchedIsFront,
                  Searching
    <2>3. TypeOK'
      BY <1>6, <2>1, <2>2 DEF Explore, Log, lists, TypeOK, Stopped
    <2>4. OnOneList' /\ CoveredListFlagged'
      BY <1>6, FlagsOnly DEF Explore, Log
    <2>5. SearchedIsFront' /\ RestartsLeft' /\ PathInHand'
      BY <1>6, <2>2
         DEF Explore, lists, SearchedIsFront, RestartsLeft, PathInHand, IsFront
    <2> QED
      BY <2>3, <2>4, <2>5
  <1>7. ASSUME NEW c \in 1 .. LastMark, NEW claim \in Claims,
               NEW seen \in SUBSET Targets, Flip(c, claim, seen)
        PROVE  ListsInv'
    <2>1. pc' \in {"judge", "hung", "crashed"}
      BY <1>7, AfterStackOutcome DEF Flip
    <2>2. path \in Paths /\ simNum < TotalLimit /\ IsFront(target)
      BY <1>7 DEF Flip, PathInHand, RestartsLeft, SearchedIsFront, Searching
    <2>3. path' \in Paths /\ clk' \in [Paths -> Nat] /\ simClk' \in Nat
      BY <1>7, <2>2, PathFacts DEF Flip, TypeOK
    <2>4. TypeOK'
      BY <1>7, <2>1, <2>3 DEF Flip, Log, Claims, lists, TypeOK, Stopped
    <2>5. OnOneList' /\ CoveredListFlagged'
      BY <1>7, FlagsOnly DEF Flip, Log
    <2>6. SearchedIsFront' /\ RestartsLeft' /\ PathInHand'
      BY <1>7, <2>2, <2>3
         DEF Flip, lists, SearchedIsFront, RestartsLeft, PathInHand, IsFront
    <2> QED
      BY <2>4, <2>5, <2>6
  <1>8. CASE FlipNothing \/ FlipUnsat
    BY <1>8, FlagsOnly
       DEF FlipNothing, FlipUnsat, lists, TypeOK, Stopped, SearchedIsFront,
           RestartsLeft, PathInHand, Searching
  <1>9. CASE LeaveLongPath \/ Succeed
    BY <1>9, RemoveCoveredKeepsLists
       DEF LeaveLongPath, Succeed, TypeOK, SearchedIsFront, RestartsLeft,
           PathInHand, Searching
  <1>10. ASSUME NEW seen \in SUBSET Targets, Restart(seen)
         PROVE  ListsInv'
    <2>1. pc' \in {"limit", "hung", "crashed"}
      BY <1>10, AfterStackOutcome DEF Restart
    <2>2. path \in Paths /\ simNum < TotalLimit /\ IsFront(target)
      BY <1>10 DEF Restart, PathInHand, RestartsLeft, SearchedIsFront,
                   Searching
    <2>3. TypeOK'
      BY <1>10, <2>1, <2>2 DEF Restart, Log, lists, TypeOK, Stopped
    <2>4. OnOneList' /\ CoveredListFlagged'
      BY <1>10, FlagsOnly DEF Restart, Log
    <2>5. SearchedIsFront' /\ RestartsLeft' /\ PathInHand'
      BY <1>10, <2>1, <2>2
         DEF Restart, lists, SearchedIsFront, RestartsLeft, PathInHand, IsFront
    <2> QED
      BY <2>3, <2>4, <2>5
  <1>11. CASE GiveUp
    <2>1. IsFront(target) /\ target \in pending /\ target \in Targets
      BY <1>11 DEF GiveUp, AtLimitTest, SearchedIsFront, Searching, IsFront,
                   TypeOK
    <2>2. pending' = pending \ {target}
      BY <1>11, <2>1 DEF GiveUp, IsFront, TypeOK, Targets
    <2>3. TypeOK'
      BY <1>11, <2>1, <2>2 DEF GiveUp, TypeOK
    <2>4. OnOneList' /\ CoveredListFlagged'
      BY <1>11, <2>1, <2>2
         DEF GiveUp, TypeOK, OnOneList, CoveredListFlagged
    <2>5. SearchedIsFront' /\ RestartsLeft' /\ PathInHand'
      BY <1>11 DEF GiveUp, SearchedIsFront, RestartsLeft, PathInHand, Searching
    <2> QED
      BY <2>3, <2>4, <2>5
  <1>12. CASE Continue
    <2>1. path \in Paths /\ IsFront(target)
      BY <1>12 DEF Continue, AtLimitTest, PathInHand, SearchedIsFront,
                   Searching
    <2>2. TypeOK' /\ OnOneList' /\ CoveredListFlagged'
      BY <1>12, FlagsOnly DEF Continue, lists, TypeOK
    <2>3. SearchedIsFront' /\ RestartsLeft' /\ PathInHand'
      BY <1>12, <2>1 DEF Continue, lists, SearchedIsFront, RestartsLeft,
                         PathInHand, IsFront
    <2> QED
      BY <2>2, <2>3
  <1>13. CASE Stop \/ UNCHANGED vars
    BY <1>13 DEF Stop, vars, TypeOK, OnOneList, CoveredListFlagged,
                 SearchedIsFront, IsFront, RestartsLeft, PathInHand
  <1> QED
    BY <1>1, <1>2, <1>3, <1>4, <1>5, <1>6, <1>7, <1>8, <1>9, <1>10, <1>11,
       <1>12, <1>13 DEF Next

(* Every reachable state satisfies the invariant about the lists. *)
THEOREM ListsAlways == Spec => []ListsInv
  BY ListsInit, ListsStep, PTL DEF Spec

(***************************************************************************)
(* The state of the driver stays well typed: in particular sim_num never   *)
(* passes total_limit, although it is tested in another place than it is   *)
(* counted.                                                                *)
(***************************************************************************)
THEOREM TypeCorrect == Spec => []TypeOK
  BY ListsAlways, PTL DEF ListsInv

(* No target is lost, counted twice or on two lists, in any run. *)
THEOREM EveryTargetOnOneList == Spec => []OnOneList
  BY ListsAlways, PTL DEF ListsInv

(* The target given up is the front that pop_front removes. *)
THEOREM SearchedStaysFront == Spec => []SearchedIsFront
  BY ListsAlways, PTL DEF ListsInv

(* What end_concolic counts as covered has its flag up. *)
THEOREM CoveredListIsFlagged == Spec => []CoveredListFlagged
  BY ListsAlways, PTL DEF ListsInv

-----------------------------------------------------------------------------
(***************************************************************************)
(* Where the driver can be lost.  The bounds on the new path hold in every *)
(* configuration; StepFits is what makes them enough.                      *)
(***************************************************************************)
LEMMA LastMarkNat == LastMark \in Nat /\ ClockSlots \in Nat
  <1>1. (12 * Unroll + 7) \div 10 \in Nat
    BY DriverAssumption
  <1> QED
    BY <1>1, DriverAssumption DEF LastMark, ClockSlots

LEMMA PathInit == Init => PathInv
  BY PathFacts DEF Init, PathInv

LEMMA PathStep ==
  ASSUME StepFits
  PROVE  ListsInv /\ PathInv /\ [Next]_vars => PathInv'
  <1> SUFFICES ASSUME ListsInv, PathInv, [Next]_vars
               PROVE  PathInv'
    OBVIOUS
  <1>1. TypeOK /\ PathInHand
    BY DEF ListsInv
  <1> USE DriverAssumption, LastMarkNat
  <1>2. ASSUME NEW seen \in SUBSET Targets, NEW nearer \in SUBSET Targets,
               RandomSim(seen, nearer)
        PROVE  PathInv'
    <2>1. pc' \in {"random", "hung", "crashed"}
      BY <1>2, AfterStackOutcome DEF RandomSim
    <2>2. path' \in RandomPaths
      BY <1>1, <1>2 DEF RandomSim, TypeOK, RandomPaths
    <2> QED
      BY <2>1, <2>2 DEF PathInv
  <1>3. ASSUME NEW t \in Targets, NEW seen \in SUBSET Targets,
               TakeUp(t, seen)
        PROVE  PathInv'
    <2>1. pc' \in {"explore", "hung", "crashed"}
      BY <1>3, AfterStackOutcome DEF TakeUp
    <2>2. path' \in RandomPaths
      BY <1>1, <1>3 DEF TakeUp, TypeOK
    <2> QED
      BY <2>1, <2>2, PathFacts DEF PathInv
  <1>4. ASSUME NEW seen \in SUBSET Targets, Explore(seen)
        PROVE  PathInv'
    <2> DEFINE c == clk[path] + Step
    <2>1. pc' \in AfterStack(c, "flip") /\ path' = path /\ clk'[path] = c
      BY <1>1, <1>4 DEF Explore, TypeOK, PathInHand, Searching
    <2>2. path \in Paths /\ clk[path] \in Nat
      BY <1>1, <1>4 DEF Explore, TypeOK, PathInHand, Searching
    <2>3. path \in RandomPaths \/ path = Fresh
      BY <2>2 DEF Paths, RandomPaths, Fresh
    <2>4. path = Fresh => c <= Unroll + Step
      BY <1>4, <2>2 DEF Explore, PathInv
    <2>5. path = Fresh => pc' = "flip"
      BY <2>1, <2>2, <2>4 DEF AfterStack, StepFits
    <2>6. pc' = "flip" => c < LastMark
      BY <2>1, <2>2 DEF AfterStack
    <2>7. pc' \in {"flip", "hung", "crashed"}
      BY <2>1, AfterStackOutcome
    <2> HIDE DEF c
    <2> QED
      BY <2>1, <2>3, <2>4, <2>5, <2>6, <2>7 DEF PathInv
  <1>5. ASSUME NEW c \in 1 .. LastMark, NEW claim \in Claims,
               NEW seen \in SUBSET Targets, Flip(c, claim, seen)
        PROVE  PathInv'
    <2>1. path \in Paths /\ clk[path] \in Nat /\ c <= clk[path]
      BY <1>1, <1>5 DEF Flip, TypeOK, PathInHand, Searching
    <2>2. path \in RandomPaths \/ path = Fresh
      BY <2>1 DEF Paths, RandomPaths, Fresh
    <2>3. c + 1 <= LastMark
      BY <1>5, <2>1 DEF Flip, PathInv
    <2>4. pc' \in {"judge", "crashed"}
      BY <1>5, <2>3 DEF Flip, AfterStack
    <2>5. CASE pc' = "judge"
      BY <1>5, <2>5 DEF Flip, PathInv
    <2>6. CASE pc' = "crashed"
      <3>1. c >= ClockSlots
        BY <1>5, <2>3, <2>6 DEF Flip, AfterStack
      <3>2. path # Fresh
        BY <1>5, <2>1, <3>1 DEF Flip, PathInv, StepFits
      <3> QED
        BY <1>5, <2>2, <2>6, <3>2 DEF Flip, PathInv
    <2> QED
      BY <2>4, <2>5, <2>6
  <1>6. ASSUME NEW seen \in SUBSET Targets, Restart(seen)
        PROVE  PathInv'
    <2>1. pc' = "limit"
      BY <1>6 DEF Restart, AfterStack, StepFits
    <2>2. path' = Fresh /\ clk'[Fresh] = Step
      BY <1>1, <1>6, PathFacts DEF Restart, PathInv, TypeOK
    <2> QED
      BY <2>1, <2>2 DEF PathInv, StepFits
  <1>7. CASE Continue
    <2>1. path = Fresh /\ clk[Fresh] <= Unroll
      BY <1>7 DEF Continue, AtLimitTest, PathInv
    <2> QED
      BY <1>7, <2>1 DEF Continue, PathInv
  <1>8. CASE EndRandom \/ SkipCovered \/ Finish \/ FlipNothing \/ FlipUnsat
             \/ LeaveLongPath \/ GiveUp \/ Succeed
    BY <1>8 DEF EndRandom, SkipCovered, Finish, FlipNothing, FlipUnsat,
                LeaveLongPath, GiveUp, Succeed, PathInv
  <1>9. CASE Stop \/ UNCHANGED vars
    BY <1>9 DEF Stop, vars, PathInv
  <1> QED
    BY <1>2, <1>3, <1>4, <1>5, <1>6, <1>7, <1>8, <1>9 DEF Next

(***************************************************************************)
(* When one step beyond Unroll fits, the stack outgrows its slots, or      *)
(* build_stack runs past the end of the log, only on a path of the random  *)
(* phase that several searches lengthened.                                 *)
(***************************************************************************)
THEOREM LostOnlyOnReusedPath == Spec => []LostOnlyByReuse
  <1>1. CASE StepFits
    <2>1. ListsInv /\ PathInv /\ [Next]_vars => PathInv'
      BY <1>1, PathStep
    <2>2. PathInv => LostOnlyByReuse
      BY DEF PathInv, LostOnlyByReuse
    <2> QED
      BY <2>1, <2>2, ListsAlways, PathInit, PTL DEF Spec
  <1>2. CASE ~StepFits
    <2>1. LostOnlyByReuse
      BY <1>2 DEF LostOnlyByReuse
    <2> QED
      BY <2>1, PTL
  <1> QED
    BY <1>1, <1>2

-----------------------------------------------------------------------------
(***************************************************************************)
(* The driver implements CoverageContract.                                 *)
(***************************************************************************)
LEMMA ContractInit == Init => Contract!Init
  BY DEF Init, Status, Contract!Init, Contract!Targets, Targets

(* An action that leaves the lists alone at most raises flags. *)
LEMMA ContractFlag ==
  ASSUME ListsInv, ListsInv', UNCHANGED lists, covered \subseteq covered'
  PROVE  Contract!Next
  <1>1. Contract!Flag(covered')
    BY DEF Contract!Flag, Status, lists
  <1>2. covered' \in SUBSET Contract!Targets
    BY DEF ListsInv, TypeOK, Contract!Targets, Targets
  <1> QED
    BY <1>1, <1>2 DEF Contract!Next

(* What moves the targets ts from target_list to covered_target_list. *)
LEMMA ContractCover ==
  ASSUME ListsInv, NEW ts \in SUBSET (pending \cap covered),
         pending' = pending \ ts, UNCHANGED covered,
         nCovered' = [t \in Targets |-> IF t \in ts THEN nCovered[t] + 1
                                                   ELSE nCovered[t]]
  PROVE  Contract!Next
  <1> USE DEF ListsInv, TypeOK
  <1>1. ts \in SUBSET Contract!Targets
    BY DEF Contract!Targets, Targets
  <1>2. \A t \in ts : Status[t] = "pending" /\ t \in covered
    BY DEF Status
  <1>3. Status' = [t \in Contract!Targets |-> IF t \in ts THEN "covered"
                                                         ELSE Status[t]]
    <2>1. \A t \in Targets : Status'[t] = IF t \in ts THEN "covered"
                                                     ELSE Status[t]
      BY DEF Status
    <2> QED
      BY <2>1 DEF Status, Targets, Contract!Targets
  <1>4. Contract!Cover(ts)
    BY <1>2, <1>3 DEF Contract!Cover
  <1> QED
    BY <1>1, <1>4 DEF Contract!Next

LEMMA ContractStep ==
  ListsInv /\ ListsInv' /\ [Next]_vars => [Contract!Next]_Contract!vars
  <1> SUFFICES ASSUME ListsInv, ListsInv', [Next]_vars
               PROVE  Contract!Next \/ UNCHANGED Contract!vars
    OBVIOUS
  <1>1. CASE \/ \E seen, nearer \in SUBSET Targets : RandomSim(seen, nearer)
             \/ \E t \in Targets, seen \in SUBSET Targets : TakeUp(t, seen)
             \/ \E seen \in SUBSET Targets : Explore(seen) \/ Restart(seen)
             \/ \E c \in 1 .. LastMark, claim \in Claims,
                   seen \in SUBSET Targets : Flip(c, claim, seen)
             \/ Finish \/ FlipNothing \/ FlipUnsat \/ Continue
    BY <1>1, ContractFlag
       DEF RandomSim, TakeUp, Explore, Restart, Flip, Finish, FlipNothing,
           FlipUnsat, Continue, Log
  <1>2. CASE EndRandom \/ LeaveLongPath \/ Succeed
    <2>1. RemoveCovered /\ UNCHANGED covered
      BY <1>2 DEF EndRandom, LeaveLongPath, Succeed
    <2>2. pending' = pending \ (pending \cap covered)
      BY <2>1 DEF RemoveCovered
    <2>3. Contract!Next
      BY <2>1, <2>2, ContractCover DEF RemoveCovered
    <2> QED
      BY <2>3
  <1>3. CASE SkipCovered
    <2>1. PICK t \in covered :
            /\ t \in pending
            /\ pending' = pending \ {t}
            /\ nCovered' = [nCovered EXCEPT ![t] = @ + 1]
      BY <1>3 DEF SkipCovered, IsFront
    <2>2. nCovered' = [u \in Targets |-> IF u \in {t} THEN nCovered[u] + 1
                                                    ELSE nCovered[u]]
      BY <2>1 DEF ListsInv, TypeOK
    <2>3. {t} \in SUBSET (pending \cap covered) /\ UNCHANGED covered
      BY <1>3, <2>1 DEF SkipCovered
    <2> QED
      BY <2>1, <2>2, <2>3, ContractCover
  <1>4. CASE GiveUp
    <2>1. IsFront(target) /\ target \in Targets
      BY <1>4 DEF GiveUp, AtLimitTest, ListsInv, TypeOK, SearchedIsFront,
                  Searching
    <2>2. pending' = pending \ {target}
      BY <1>4, <2>1 DEF GiveUp, IsFront, ListsInv, TypeOK, Targets
    <2>3. nCovered[target] = 0
      <3>1. 1 + nCovered[target] + nUncovered[target] = 1
        BY <2>1 DEF ListsInv, OnOneList, IsFront
      <3> QED
        BY <2>1, <3>1 DEF ListsInv, TypeOK
    <2>4. /\ Status[target] = "pending"
          /\ \A u \in Targets : u < target => Status[u] # "pending"
      <3>1. \A u \in pending : target <= u
        BY <2>1 DEF IsFront
      <3>2. \A u \in Targets : u < target => u \notin pending
        BY <2>1, <3>1 DEF Targets
      <3> QED
        BY <2>1, <3>2 DEF Status, IsFront
    <2>5. Status' = [Status EXCEPT ![target] = "givenUp"]
      <3>1. UNCHANGED nCovered
        BY <1>4 DEF GiveUp
      <3>2. Status' = [t \in Targets |-> IF t = target THEN "givenUp"
                                                      ELSE Status[t]]
        <4>1. ASSUME NEW t \in Targets
              PROVE  (IF t \in pending' THEN "pending"
                      ELSE IF nCovered'[t] > 0 THEN "covered"
                      ELSE "givenUp")
                       = IF t = target THEN "givenUp" ELSE Status[t]
          BY <2>1, <2>2, <2>3, <3>1 DEF Status
        <4> QED
          BY <4>1 DEF Status
      <3> QED
        BY <2>1, <3>2 DEF Status
    <2>6. Contract!GiveUp(target) /\ target \in Contract!Targets
      BY <1>4, <2>1, <2>4, <2>5
         DEF GiveUp, Contract!GiveUp, Contract!Targets, Targets
    <2> QED
      BY <2>6 DEF Contract!Next
  <1>5. CASE Stop \/ UNCHANGED vars
    BY <1>5 DEF Stop, vars, Status, Contract!vars
  <1> QED
    BY <1>1, <1>2, <1>3, <1>4, <1>5 DEF Next

(***************************************************************************)
(* Every run of the driver classifies each target at most once, as covered *)
(* only when its flag is up, and gives targets up in the order of          *)
(* branch_id.                                                              *)
(***************************************************************************)
THEOREM DriverImplementsContract == Spec => ImplementsContract
  <1>1. Spec => Contract!Init /\ [][Contract!Next]_Contract!vars
    BY ContractInit, ContractStep, ListsAlways, PTL DEF Spec
  <1> QED
    BY <1>1 DEF ImplementsContract, Contract!Spec

=============================================================================
