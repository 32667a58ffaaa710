------------------------ MODULE ActionRankingProofs ------------------------
(***************************************************************************)
(* Theorems about the exchange of files between the search and its         *)
(* scripts, for any number of branches, registers, flips and kills.        *)
(***************************************************************************)
EXTENDS ActionRanking, TLAPS

(* What the files can hold once the program has printed a state itself. *)
PrintInv ==
  /\ flips > 0 => dataState.dim \in {Broken, Registers}
  /\ ~ Settled => flips > 0
  /\ pc \in {"rank", "observe", "learn", "saveTarget"} => Is(dataState)
  /\ pc \in {"rank", "learn", "saveTarget"} => stateNow = StateOf(dataState)
  /\ pc \in {"observe", "learn"} =>
       {qNet.dim, tNet.dim} \subseteq {Absent, from.dim}
  /\ pc = "saveTarget" => tNet.dim \in {Absent, qNet.dim}

(***************************************************************************)
(* LostLessons is not inductive.  The balance may be up by one only while  *)
(* a state that update can use is on disk or the next sort will put it     *)
(* there, and up by two only between a flip and the end of its update.     *)
(***************************************************************************)
Balance == flips - updates - excused - kills
Good == stateNow.dim = Registers
Usable == Is(dataState) /\ dataState.action < BranchDim

BalanceInv ==
  NetsFit /\ Registers # 1 /\ restarts = 0 =>
    /\ flips = 0 => Balance <= 0
    /\ pc = "getState" => /\ Balance <= 1
                          /\ \/ Good
                             \/ flips > 0 /\ dataState.dim = Registers
                             \/ Balance <= 0
    /\ pc \in {"rank", "choose"} => Balance <= (IF Good THEN 1 ELSE 0)
    /\ pc = "load" =>
         Balance <= (IF Good THEN 1 ELSE 0) + (IF Usable THEN 1 ELSE 0)
    /\ pc = "observe" =>
         Balance <= (IF from.dim = Registers THEN 1 ELSE 0)
                    + (IF Usable THEN 1 ELSE 0)
    /\ pc = "learn" =>
         Balance <= 1 + (IF from.dim = Registers /\ Usable THEN 1 ELSE 0)
    /\ pc = "saveTarget" => Balance <= 1

(***************************************************************************)
(* LearnsConsecutive: whenever a script may still be killed, state_now.txt *)
(* already holds the state of data.state, or one that update cannot load.  *)
(* Nothing is known of the two files left behind before a DQN_sort.py has  *)
(* handed on the first.                                                    *)
(***************************************************************************)
Unloadable == stateNow.dim \in {Absent, 1} \/ ~ Loads(stateNow.dim)

Vouched(print) == kills = 0 \/ (kills = 1 /\ print.of > 0)

HandedOn ==
  /\ pc = "getState" /\ kills = 0 /\ Is(dataState) /\ dataState.of > 0 =>
       stateNow.of = dataState.of \/ Unloadable
  /\ pc = "choose" /\ Is(dataState) /\ Vouched(dataState) =>
       stateNow.of = dataState.of \/ Unloadable
  /\ pc = "load" /\ Is(before) /\ Vouched(before) =>
       stateNow.of = before.of \/ Unloadable
  /\ pc \in {"observe", "learn"} /\ Is(before) /\ Vouched(before) =>
       from.of = before.of

-----------------------------------------------------------------------------
LEMMA TypeInit == Init => TypeOK
  BY RankingAssumption
  DEF Init, TypeOK, Ids, Listed, OldDims, OldNets, NoNet, NoState, OtherPrint,
      Dims, Absent, Broken

LEMMA TypeStep == TypeOK /\ [Next]_vars => TypeOK'
<1> SUFFICES ASSUME TypeOK, [Next]_vars
             PROVE  TypeOK'
  OBVIOUS
<1> USE RankingAssumption DEF TypeOK, history, files, Dims, Absent, Broken
<1>1. CASE GetState
  BY <1>1 DEF GetState, StateOf
<1>2. CASE Rank
  BY <1>2 DEF Rank, Ids
<1>3. CASE FlipNothing
  BY <1>3 DEF FlipNothing
<1>4. ASSUME NEW branch \in Branches, NEW clock \in Clocks,
             NEW displayed \in SUBSET Clocks, Flip(branch, clock, displayed)
      PROVE  TypeOK'
  BY <1>4 DEF Flip
<1>5. CASE Load
  BY <1>5 DEF Load
<1>6. CASE Observe
  BY <1>6 DEF Observe, StateOf
<1>7. CASE Learn
  BY <1>7 DEF Learn
<1>8. CASE SaveTarget
  BY <1>8 DEF SaveTarget
<1>9. CASE Kill
  BY <1>9 DEF Kill, CutState, StateOf, BrokenNet, Ids
<1>10. ASSUME NEW displayed \in SUBSET Clocks,
              RunAgain(displayed) \/ RunClean(displayed)
       PROVE  TypeOK'
  BY <1>10 DEF RunAgain, RunClean, Restart, NoState, NoNet
<1>11. CASE UNCHANGED vars
  BY <1>11 DEF vars
<1> QED
  BY <1>1, <1>2, <1>3, <1>4, <1>5, <1>6, <1>7, <1>8, <1>9, <1>10, <1>11 DEF Next

(* The files and counters keep their types, whatever is left of earlier runs
   and whichever scripts are killed. *)
THEOREM TypeCorrect == Spec => []TypeOK
  BY TypeInit, TypeStep, PTL DEF Spec

LEMMA PrintInit == Init => PrintInv
  BY DEF Init, PrintInv, Settled, Is

LEMMA PrintStep == TypeOK /\ PrintInv /\ [Next]_vars => PrintInv'
<1> SUFFICES ASSUME TypeOK, PrintInv, [Next]_vars
             PROVE  PrintInv'
  OBVIOUS
<1> USE RankingAssumption
    DEF TypeOK, PrintInv, Settled, Is, history, files, Absent, Broken
<1>1. CASE GetState
  BY <1>1 DEF GetState, StateOf
<1>2. CASE Rank \/ FlipNothing
  BY <1>2 DEF Rank, FlipNothing
<1>3. ASSUME NEW branch \in Branches, NEW clock \in Clocks,
             NEW displayed \in SUBSET Clocks, Flip(branch, clock, displayed)
      PROVE  PrintInv'
  BY <1>3 DEF Flip
<1>4. CASE Load
  BY <1>4 DEF Load, Loads
<1>5. CASE Observe
  BY <1>5 DEF Observe, StateOf
<1>6. CASE Learn
  BY <1>6 DEF Learn
<1>7. CASE SaveTarget
  BY <1>7 DEF SaveTarget
<1>8. CASE Kill
  BY <1>8 DEF Kill
<1>9. ASSUME NEW displayed \in SUBSET Clocks,
             RunAgain(displayed) \/ RunClean(displayed)
      PROVE  PrintInv'
  BY <1>9 DEF RunAgain, RunClean, Restart
<1>10. CASE UNCHANGED vars
  BY <1>10 DEF vars
<1> QED
  BY <1>1, <1>2, <1>3, <1>4, <1>5, <1>6, <1>7, <1>8, <1>9, <1>10 DEF Next

-----------------------------------------------------------------------------
LEMMA BalanceInit == TypeOK /\ Init => BalanceInv /\ LostLessons
  BY RankingAssumption
  DEF TypeOK, Init, BalanceInv, LostLessons, Balance

(* Networks that do not fit stay so: nothing is saved that was not loaded. *)
LEMMA FitBefore ==
  ASSUME TypeOK, PrintInv, [Next]_vars, restarts' = 0, NetsFit'
  PROVE  restarts = 0 /\ NetsFit
<1> USE DEF TypeOK, PrintInv, NetsFit, history, files, Absent, Broken
<1>1. CASE GetState \/ Rank \/ FlipNothing \/ Load \/ Observe
  BY <1>1 DEF GetState, Rank, FlipNothing, Load, Observe
<1>2. ASSUME NEW branch \in Branches, NEW clock \in Clocks,
             NEW displayed \in SUBSET Clocks, Flip(branch, clock, displayed)
      PROVE  restarts = 0 /\ NetsFit
  BY <1>2 DEF Flip
<1>3. CASE Learn
  BY <1>3 DEF Learn
<1>4. CASE SaveTarget
  BY <1>4 DEF SaveTarget, Count
<1>5. CASE Kill
  BY <1>5, RankingAssumption DEF Kill, BrokenNet
<1>6. CASE \E displayed \in SUBSET Clocks :
             RunAgain(displayed) \/ RunClean(displayed)
  BY <1>6 DEF RunAgain, RunClean, Restart
<1>7. CASE UNCHANGED vars
  BY <1>7 DEF vars
<1> QED
  BY <1>1, <1>2, <1>3, <1>4, <1>5, <1>6, <1>7 DEF Next


(* The antecedent of BalanceInv, taken apart once for all steps below. *)
LEMMA BalanceStep ==
  TypeOK /\ PrintInv /\ BalanceInv /\ [Next]_vars => BalanceInv'
<1> SUFFICES ASSUME TypeOK, PrintInv, BalanceInv, [Next]_vars,
                    NetsFit', Registers # 1, restarts' = 0
             PROVE  BalanceInv'
  BY DEF BalanceInv
<1>0. NetsFit /\ restarts = 0
  BY FitBefore
<1> USE <1>0, RankingAssumption
    DEF TypeOK, PrintInv, BalanceInv, Balance, Good, Usable, Is, NetsFit,
        history, files, Absent, Broken
<1>1. CASE GetState
  BY <1>1 DEF GetState, StateOf
<1>2. CASE Rank \/ FlipNothing
  BY <1>2 DEF Rank, FlipNothing, Settled
<1>3. ASSUME NEW branch \in Branches, NEW clock \in Clocks,
             NEW displayed \in SUBSET Clocks, Flip(branch, clock, displayed)
      PROVE  BalanceInv'
  <2>1. /\ pc = "choose" /\ pc' = "load"
        /\ UNCHANGED << restarts, stateNow, updates, kills >>
        /\ flips' = flips + 1
        /\ dataState'.action = branch
        /\ excused' = IF Is(dataState') /\ branch < BranchDim THEN excused
                                                             ELSE excused + 1
    BY <1>3 DEF Flip
  <2>2. Balance' = Balance + (IF Usable' THEN 1 ELSE 0)
    BY <2>1
  <2>3. Balance <= (IF Good THEN 1 ELSE 0) /\ Good' = Good
    BY <2>1
  <2> QED
    BY <2>1, <2>2, <2>3
<1>4. CASE Load
  BY <1>4 DEF Load, Loads, Settled
<1>5. CASE Observe
  BY <1>5 DEF Observe, StateOf, Settled
<1>6. CASE Learn
  BY <1>6 DEF Learn, StateOf, Settled
<1>7. CASE SaveTarget
  BY <1>7 DEF SaveTarget, Settled
<1>8. CASE Kill
  BY <1>8 DEF Kill, Settled, BrokenNet
<1>9. CASE \E displayed \in SUBSET Clocks :
             RunAgain(displayed) \/ RunClean(displayed)
  BY <1>9 DEF RunAgain, RunClean, Restart
<1>10. CASE UNCHANGED vars
  BY <1>10 DEF vars
<1> QED
  BY <1>1, <1>2, <1>3, <1>4, <1>5, <1>6, <1>7, <1>8, <1>9, <1>10 DEF Next

(***************************************************************************)
(* The scripts restore each other's files: from any files to begin with,   *)
(* for any number of flips and kills, the lessons lost are those that no   *)
(* script could learn, one for each script killed and one more.            *)
(***************************************************************************)
THEOREM FewLessonsLost == Spec => []LostLessons
<1>1. TypeOK /\ BalanceInv => LostLessons
  BY DEF BalanceInv, LostLessons, Settled, Balance, TypeOK
<1> QED
  BY <1>1, TypeInit, TypeStep, PrintInit, PrintStep, BalanceInit, BalanceStep,
     PTL DEF Spec


-----------------------------------------------------------------------------
LEMMA HandedOnInit == Init => HandedOn
  BY DEF Init, HandedOn

LEMMA HandedOnStep == TypeOK /\ PrintInv /\ HandedOn /\ [Next]_vars => HandedOn'
<1> SUFFICES ASSUME TypeOK, PrintInv, HandedOn, [Next]_vars
             PROVE  HandedOn'
  OBVIOUS
<1> USE RankingAssumption
    DEF TypeOK, PrintInv, HandedOn, Vouched, Settled, Unloadable, Loads, Is, history,
        files, Absent, Broken
<1>1. CASE GetState
  BY <1>1 DEF GetState, StateOf
<1>2. CASE Rank \/ FlipNothing
  BY <1>2 DEF Rank, FlipNothing, StateOf
<1>3. ASSUME NEW branch \in Branches, NEW clock \in Clocks,
             NEW displayed \in SUBSET Clocks, Flip(branch, clock, displayed)
      PROVE  HandedOn'
  BY <1>3 DEF Flip
<1>4. CASE Load
  BY <1>4 DEF Load
<1>5. CASE Observe
  BY <1>5 DEF Observe
<1>6. CASE Learn
  BY <1>6 DEF Learn, StateOf
<1>7. CASE SaveTarget
  BY <1>7 DEF SaveTarget, StateOf
<1>8. CASE Kill
  BY <1>8 DEF Kill, CutState, StateOf
<1>9. ASSUME NEW displayed \in SUBSET Clocks, RunAgain(displayed)
      PROVE  HandedOn'
  BY <1>9 DEF RunAgain, Restart
<1>10. ASSUME NEW displayed \in SUBSET Clocks, RunClean(displayed)
       PROVE  HandedOn'
  BY <1>10 DEF RunClean, Restart, NoState
<1>11. CASE UNCHANGED vars
  BY <1>11 DEF vars
<1> QED
  BY <1>1, <1>2, <1>3, <1>4, <1>5, <1>6, <1>7, <1>8, <1>9, <1>10, <1>11 DEF Next

(* Only the end of an update counts a lesson. *)
LEMMA OnlyLearnCounts ==
  ASSUME TypeOK, [Next]_vars, updates' # updates
  PROVE  pc = "learn" /\ kills' = kills
<1> USE DEF history, files
<1>1. CASE Learn
  BY <1>1 DEF Learn
<1>2. CASE ~ Learn
  BY <1>2 DEF Next, GetState, Rank, FlipNothing, Flip, Load, Observe, SaveTarget,
              Kill, RunAgain, RunClean, Restart, vars
<1> QED
  BY <1>1, <1>2

(***************************************************************************)
(* A lesson is about two print-outs that follow each other: whatever files *)
(* the program is started with as long as no script is killed, and         *)
(* whichever one script is when the first is of these runs.                *)
(***************************************************************************)
THEOREM LessonsConsecutive == Spec => LearnsConsecutive
<1>1. TypeOK /\ HandedOn /\ [Next]_vars =>
        [/\ updates' # updates
         /\ Is(before)
         /\ kills = 0 \/ (kills = 1 /\ before.of > 0)
         => from.of = before.of]_vars
  BY OnlyLearnCounts DEF HandedOn, Vouched
<1> QED
  BY <1>1, TypeInit, TypeStep, PrintInit, PrintStep, HandedOnInit, HandedOnStep,
     PTL DEF Spec, LearnsConsecutive

-----------------------------------------------------------------------------
(***************************************************************************)
(* A benchmark with neither a list nor a readable data.state stays without *)
(* flips: each of the two files is made from the other.                    *)
(***************************************************************************)
StarvedInv == home /\ list = {} => Settled

LEMMA StarvedStep ==
  TypeOK /\ PrintInv /\ StarvedInv /\ [Next]_vars =>
    StarvedInv' /\ (Starved => Starved')
<1> SUFFICES ASSUME TypeOK, PrintInv, StarvedInv, [Next]_vars
             PROVE  StarvedInv' /\ (Starved => Starved')
  OBVIOUS
<1> USE DEF TypeOK, PrintInv, StarvedInv, Starved, Settled, history, files
<1>1. CASE GetState \/ FlipNothing \/ Load \/ Observe \/ Learn \/ SaveTarget
  BY <1>1 DEF GetState, FlipNothing, Load, Observe, Learn, SaveTarget, Is
<1>2. CASE Rank
  BY <1>2 DEF Rank, Is
<1>3. CASE \E branch \in Branches, clock \in Clocks,
              displayed \in SUBSET Clocks : Flip(branch, clock, displayed)
  BY <1>3 DEF Flip
<1>4. CASE Kill
  BY <1>4 DEF Kill, Is
<1>5. CASE \E displayed \in SUBSET Clocks :
             RunAgain(displayed) \/ RunClean(displayed)
  BY <1>5 DEF RunAgain, RunClean, Restart, Is
<1>6. CASE UNCHANGED vars
  BY <1>6 DEF vars, Is
<1> QED
  BY <1>1, <1>2, <1>3, <1>4, <1>5, <1>6 DEF Next

(* No run of the program or of make clean leads out of that state. *)
THEOREM StarvedStays == Spec => StarvedForGood
<1>1. Init => StarvedInv
  BY DEF Init, StarvedInv, Settled
<1>2. TypeOK /\ PrintInv /\ StarvedInv /\ [Next]_vars => [Starved => Starved']_vars
  BY StarvedStep
<1> QED
  BY <1>1, <1>2, TypeInit, TypeStep, PrintInit, PrintStep, StarvedStep,
     PTL DEF Spec, StarvedForGood

============================================================================
