--------------------------- MODULE ActionRanking ---------------------------
(***************************************************************************)
(* The search and the two scripts that rank its branches and learn from    *)
(* its flips.  find_next_cfg (simulation.cpp) starts DQN_sort.py before it *)
(* chooses a branch and DQN_update.py after it has flipped one, ignores    *)
(* what system() returns, and talks to them through files of the working   *)
(* directory:                                                              *)
(*                                                                         *)
(*   data.state              registers, reward, action    search -> both   *)
(*   state_now.txt           registers           sort and update -> update *)
(*   sorted_branch_list.txt  branch ids                   sort -> search   *)
(*   *_parameters.pth        the two networks             update -> both   *)
(*                                                                         *)
(* A script ends at its first exception, or is killed: system() keeps an   *)
(* interrupt from the program that waits, but not from the script.         *)
(*                                                                         *)
(* A state is known by the print-out it is from and its number of          *)
(* registers, a network by the lesson that made it and the number of       *)
(* registers it is for.  Rewards and weights are left out.                 *)
(***************************************************************************)
EXTENDS Integers

CONSTANTS
  Branches,      (* ids of the branches of the design                       *)
  BranchDim,     (* branch_dim of both scripts                              *)
  Registers,     (* how many registers the design displays                  *)
  Clocks,
  TargetUpdate,  (* target_update                                           *)
  MaxFlips,      (* bound: flips in all                                     *)
  MaxKills,      (* bound: scripts killed                                   *)
  MaxRestarts    (* bound: how often the program is started again           *)

ASSUME RankingAssumption ==
  /\ Branches \subseteq Nat
  /\ BranchDim \in Nat
  /\ Registers \in Nat \ {0}
  /\ TargetUpdate \in Nat \ {0}
  /\ MaxFlips \in Nat
  /\ MaxKills \in Nat
  /\ MaxRestarts \in Nat

VARIABLES
  pc,            (* what runs: a step of a script, or "choose", the search  *)
  home,          (* the program runs in the directory whose list it reads   *)
  known,         (* clocks of which stateMap has the registers              *)
  list,          (* sorted_branch_list.txt; {} stands for no file too       *)
  dataState,     (* data.state                                              *)
  stateNow,      (* state_now.txt                                           *)
  qNet, tNet,    (* q_net_... and target_q_net_model_parameters.pth         *)
  from,          (* the variable state of DQN_update.py                     *)
  restarts,
  before,        (* history: data.state before the last print-out           *)
  flips,         (* history: branches flipped                               *)
  updates,       (* history: lessons learned                                *)
  kills,         (* history: scripts killed                                 *)
  excused        (* history: flips no script could learn from               *)

files == << list, dataState, stateNow, qNet, tNet >>
history == << restarts, before, flips, updates, kills, excused >>
vars == << pc, home, known, from, files, history >>

Listed == 0 .. BranchDim - 1    \* the ids DQN_sort.py lists
Ids == Branches \cup Listed

(* The dim of a file that is not there, and of one that cannot be read.    *)
Absent == -1
Broken == -2

Is(file) == file.dim \notin {Absent, Broken}
StateOf(print) == [dim |-> print.dim, of |-> print.of]
NoState == [dim |-> Absent, of |-> 0]
NoNet == [dim |-> Absent, ver |-> 0]
BrokenNet == [dim |-> Broken, ver |-> 0]

(* A file of a network is loaded if there is one; its layers must fit.     *)
Loads(dim) == \A net \in {qNet, tNet} : net.dim \in {Absent, dim}

-----------------------------------------------------------------------------
(* What is left of an earlier run, or was copied from another benchmark.   *)
(* Print-out 0 is the one data.state holds; state_now.txt may be of        *)
(* another, OtherPrint, if a DQN_sort.py was killed or files were copied.  *)
OtherPrint == -1
OldDims == {Absent, Registers - 1, Registers}
OldNets == {NoNet} \cup {[dim |-> d, ver |-> 0] : d \in OldDims \ {Absent}}

Init ==
  /\ pc = "getState"
  /\ home \in BOOLEAN
  /\ known \in SUBSET Clocks
  /\ list \in SUBSET Ids
  /\ dataState \in [dim : OldDims \cup {Broken}, of : {0}, action : {0}]
  /\ stateNow \in [dim : OldDims, of : {OtherPrint, 0}]
  /\ qNet \in OldNets
  /\ tNet = qNet
  /\ from = NoState
  /\ restarts = 0
  /\ before = dataState
  /\ flips = 0
  /\ updates = 0
  /\ kills = 0
  /\ excused = 0

(* Broken: without data.state the script goes on with the state saved last. *)
GetStateAnyway ==
  /\ pc = "getState"
  /\ stateNow' = IF Is(dataState) THEN StateOf(dataState) ELSE stateNow
  /\ pc' = "rank"
  /\ UNCHANGED << home, known, from, list, dataState, qNet, tNet, history >>

(* Broken: the state ranked is not saved. *)
GetStateUnsaved ==
  /\ pc = "getState"
  /\ pc' = IF Is(dataState) THEN "rank" ELSE "choose"
  /\ UNCHANGED << home, known, from, files, history >>

(***************************************************************************)
(* DQN_sort.py.  get_state reads data.state and saves its registers in     *)
(* state_now.txt.  The networks are then made for that many registers and  *)
(* loaded, and all branches are listed.  The search reads the list of one  *)
(* benchmark, whatever directory the script wrote its own in.              *)
(***************************************************************************)
GetState ==
  /\ pc = "getState"
  /\ IF Is(dataState)
     THEN stateNow' = StateOf(dataState) /\ pc' = "rank"
     ELSE pc' = "choose" /\ UNCHANGED stateNow
  /\ UNCHANGED << home, known, from, list, dataState, qNet, tNet, history >>

(* Broken: ids are counted from one. *)
RankFromOne ==
  /\ pc = "rank"
  /\ list' = IF home /\ Loads(stateNow.dim) THEN 1 .. BranchDim ELSE list
  /\ pc' = "choose"
  /\ UNCHANGED << home, known, from, dataState, stateNow, qNet, tNet, history >>

Rank ==
  /\ pc = "rank"
  /\ list' = IF home /\ Loads(stateNow.dim) THEN Listed ELSE list
  /\ pc' = "choose"
  /\ UNCHANGED << home, known, from, dataState, stateNow, qNet, tNet, history >>

(***************************************************************************)
(* find_next_cfg.  Alternatives that are not listed are dropped.  If some  *)
(* are left, one is flipped in a clock and simulated, and the registers    *)
(* that any simulation of this program run displayed in that clock are     *)
(* printed; without any, the names run together in one unreadable line.    *)
(***************************************************************************)
FlipNothing ==
  /\ pc = "choose"
  /\ pc' = "getState"
  /\ UNCHANGED << home, known, from, files, history >>

Flip(branch, clock, displayed) ==
  /\ pc = "choose"
  /\ flips < MaxFlips
  /\ branch \in list
  /\ known' = known \cup displayed
  /\ flips' = flips + 1
  /\ dataState' = [dim |-> IF clock \in known' THEN Registers ELSE Broken,
                   of |-> flips', action |-> branch]
  /\ before' = dataState
  /\ excused' = IF Is(dataState') /\ branch < BranchDim THEN excused
                                                        ELSE excused + 1
  /\ pc' = "load"
  /\ UNCHANGED << home, from, list, stateNow, qNet, tNet, restarts, updates,
                  kills >>

-----------------------------------------------------------------------------
(* Broken: the state is taken from data.state, like the next one. *)
LoadNext ==
  /\ pc = "load"
  /\ IF /\ stateNow.dim \notin {Absent, 1}
        /\ Loads(stateNow.dim)
        /\ Is(dataState)
     THEN from' = StateOf(dataState) /\ pc' = "observe"
     ELSE pc' = "getState" /\ UNCHANGED from
  /\ UNCHANGED << home, known, files, history >>

(***************************************************************************)
(* DQN_update.py.  The state is what state_now.txt holds: one register is  *)
(* read as a number without a length.  Networks are made for it and        *)
(* loaded, action and reward are read, and get_state reads the next state, *)
(* which replaces the one in state_now.txt.                                *)
(***************************************************************************)
Load ==
  /\ pc = "load"
  /\ IF /\ stateNow.dim \notin {Absent, 1}
        /\ Loads(stateNow.dim)
        /\ Is(dataState)
     THEN from' = stateNow /\ pc' = "observe"
     ELSE pc' = "getState" /\ UNCHANGED from
  /\ UNCHANGED << home, known, files, history >>

Observe ==
  /\ pc = "observe"
  /\ stateNow' = StateOf(dataState)
  /\ pc' = "learn"
  /\ UNCHANGED << home, known, from, list, dataState, qNet, tNet, history >>

(* One gradient step; the new parameters are saved. *)
Learn ==
  /\ pc = "learn"
  /\ IF stateNow.dim = from.dim /\ dataState.action < BranchDim
     THEN /\ updates' = updates + 1
          /\ qNet' = [dim |-> from.dim, ver |-> updates']
          /\ pc' = "saveTarget"
     ELSE pc' = "getState" /\ UNCHANGED << updates, qNet >>
  /\ UNCHANGED << home, known, from, list, dataState, stateNow, tNet, restarts,
                  before, flips, kills, excused >>

(* count, which each process starts at 0 *)
Count == 0

SaveTarget ==
  /\ pc = "saveTarget"
  /\ tNet' = IF Count % TargetUpdate = 0 THEN qNet ELSE tNet
  /\ pc' = "getState"
  /\ UNCHANGED << home, known, from, list, dataState, stateNow, qNet, history >>

-----------------------------------------------------------------------------
(* A file that is being written when its script is killed. *)
CutState == {[StateOf(dataState) EXCEPT !.dim = d] :
               d \in {k \in 0 .. Registers : Is(dataState) /\ k < dataState.dim}}

Kill ==
  /\ kills < MaxKills
  /\ kills' = kills + 1
  /\ \/ /\ pc = "getState"
        /\ stateNow' \in {stateNow} \cup CutState
        /\ pc' = "choose"
        /\ UNCHANGED << list, qNet, tNet >>
     \/ /\ pc = "rank"
        /\ list' \in {list} \cup (IF home THEN SUBSET Listed ELSE {})
        /\ pc' = "choose"
        /\ UNCHANGED << stateNow, qNet, tNet >>
     \/ /\ pc = "load"
        /\ pc' = "getState"
        /\ UNCHANGED << list, stateNow, qNet, tNet >>
     \/ /\ pc = "observe"
        /\ stateNow' \in {stateNow} \cup CutState
        /\ pc' = "getState"
        /\ UNCHANGED << list, qNet, tNet >>
     \/ /\ pc = "learn"
        /\ qNet' \in {qNet, BrokenNet}
        /\ pc' = "getState"
        /\ UNCHANGED << list, stateNow, tNet >>
     \/ /\ pc = "saveTarget"
        /\ tNet' \in {tNet, BrokenNet}
        /\ pc' = "getState"
        /\ UNCHANGED << list, stateNow, qNet >>
  /\ UNCHANGED << home, known, from, dataState, restarts, before, flips,
                  updates, excused >>

(* The program is run again: its random simulations display registers anew. *)
Restart(displayed) ==
  /\ pc = "getState"
  /\ restarts < MaxRestarts
  /\ restarts' = restarts + 1
  /\ known' = displayed
  /\ UNCHANGED << pc, home, from, before, flips, updates, kills, excused >>

(* make clean removes *.txt and *.pth, and leaves data.state. *)
RunAgain(displayed) == Restart(displayed) /\ UNCHANGED files

RunClean(displayed) ==
  /\ Restart(displayed)
  /\ list' = IF home THEN {} ELSE list
  /\ stateNow' = NoState
  /\ qNet' = NoNet
  /\ tNet' = NoNet
  /\ UNCHANGED dataState

Next ==
  \/ GetState
  \/ Rank
  \/ FlipNothing
  \/ \E branch \in Branches, clock \in Clocks, displayed \in SUBSET Clocks :
       Flip(branch, clock, displayed)
  \/ Load
  \/ Observe
  \/ Learn
  \/ SaveTarget
  \/ Kill
  \/ \E displayed \in SUBSET Clocks :
       RunAgain(displayed) \/ RunClean(displayed)

Spec == Init /\ [][Next]_vars

-----------------------------------------------------------------------------
(***************************************************************************)
(* Properties.                                                             *)
(***************************************************************************)
Dims == Broken .. Registers

TypeOK ==
  /\ pc \in {"getState", "rank", "choose", "load", "observe", "learn",
             "saveTarget"}
  /\ home \in BOOLEAN
  /\ known \subseteq Clocks
  /\ list \subseteq Ids
  /\ {dataState, before} \subseteq [dim : Dims, of : Nat, action : Nat]
  /\ {stateNow, from} \subseteq [dim : Dims, of : Nat \cup {OtherPrint}]
  /\ {qNet, tNet} \subseteq [dim : Dims, ver : Nat]
  /\ flips \in 0 .. MaxFlips
  /\ updates \in Nat
  /\ kills \in 0 .. MaxKills
  /\ excused \in Nat
  /\ restarts \in 0 .. MaxRestarts

(***************************************************************************)
(* Whatever files the program is started with, at most one flip is not     *)
(* learned from beside those that could not be (an unreadable print-out, a *)
(* branch beyond branch_dim) and one for each script killed, as long as    *)
(* the networks saved are ones for this design: the two scripts restore    *)
(* each other's files.  With one register nothing is ever learned.         *)
(***************************************************************************)
NetsFit == {qNet.dim, tNet.dim} \subseteq {Absent, Registers}

Settled == pc \in {"getState", "rank", "choose"}

LostLessons ==
  Settled /\ NetsFit /\ Registers # 1 /\ restarts = 0 =>
    flips - updates <= 1 + excused + kills

(***************************************************************************)
(* A lesson is about two print-outs that follow each other, although the   *)
(* first is handed on through a file that four steps of two scripts write: *)
(* from any files to begin with as long as no script is killed, and even   *)
(* if one is, when the first print-out is of these runs of the program.    *)
(***************************************************************************)
LearnsConsecutive ==
  [][/\ updates' # updates
     /\ Is(before)
     /\ kills = 0 \/ (kills = 1 /\ before.of > 0)
     => from.of = before.of]_vars

(***************************************************************************)
(* Without a list and without a readable data.state nothing is ever        *)
(* flipped: the list is only written from a data.state, and data.state     *)
(* only after a flip.                                                      *)
(***************************************************************************)
Starved == home /\ list = {} /\ ~ Is(dataState)

StarvedForGood == [][Starved => Starved']_vars

=============================================================================
