----------------------------- MODULE Distances -----------------------------
(***************************************************************************)
(* What step_coverage does to the control-flow graph before it simulates   *)
(* (simulation.cpp:947-949): edge_realignment replaces the predecessors of *)
(* a branch by the blocks whose assignments can make its condition true,   *)
(* update_all_distances measures every block's distance to every target,   *)
(* and make_circular joins a process's end to its start.                   *)
(*                                                                         *)
(* Both are work lists over a graph with cycles: a block may be taken up   *)
(* again.  One step takes up one block.                                    *)
(*                                                                         *)
(* The solver's answers (smt_lib.cpp:1041) are a choice: which assignments *)
(* enable a branch, and whether its condition has state variables at all.  *)
(***************************************************************************)
EXTENDS CfgBuild, Functions, FiniteSetsExt

CONSTANTS
  MaxMeasured, (* bound: blocks of the graphs that are measured             *)
  MaxTargets   (* bound: lines of branch_id                                 *)

ASSUME MeasuredAssumption == MaxMeasured \in Nat /\ MaxTargets \in Nat

VARIABLES
  targets,     (* target_list                                               *)
  que,         (* que_for_update_edge, then bb_queue                        *)
  updated,     (* blocks with is_edge_updated                               *)
  dist,        (* distance of every block                                   *)
  table,       (* adjacency_list of the targets that are done               *)
  measured,    (* history: preds as they were when table was written        *)
  taken        (* history: blocks edge_realignment has taken up, in order   *)

vars == << phase, graph, walker, targets, que, updated, dist, table, measured,
           taken >>

Far == 268435455           (* initial_distance, 0xFFFFFFF                   *)

Reset == [b \in Blocks |-> Far]

(* The orders a set of pointers can be gone through. *)
Orders(S) == Surjection(1 .. Cardinality(S), S)

DistInit ==
  /\ Init
  /\ targets = << >>
  /\ que = << >>
  /\ updated = {}
  /\ dist = Reset
  /\ table = << >>
  /\ measured = preds
  /\ taken = << >>

(* select_target reads the ids of the targets, in which one may come twice;*)
(* edge_realignment puts them all into the queue.                          *)
SelectTargets ==
  /\ phase = "build"
  /\ open = << >>
  /\ count <= MaxMeasured
  /\ \E n \in 1 .. MaxTargets : targets' \in [1 .. n -> branches]
  /\ que' = targets'
  /\ updated' = Range(targets')
  /\ phase' = "realign"
  /\ UNCHANGED << graph, walker, dist, table, measured, taken >>

(* Broken: a block is put into the queue whether or not it has been. *)
AwaitsAlways(b) == TRUE

Awaits(b) == b \notin updated

(* A branch whose condition has state variables: the blocks that enable it *)
(* become its predecessors, or nothing happens when there are none.        *)
Enable(b, from) ==
  /\ preds' = IF from = {} THEN preds ELSE [preds EXCEPT ![b] = from]
  /\ updated' = updated \cup from
  /\ \E s \in Orders({c \in from : Awaits(c)}) : que' = Tail(que) \o s

(* Broken: an entry_block, which has no idom, is not told apart. *)
GoUpBlindly(b) ==
  /\ updated' = updated \cup {idom[b]}
  /\ que' = IF Awaits(idom[b]) THEN Append(Tail(que), idom[b]) ELSE Tail(que)
  /\ UNCHANGED preds

(* A branch on inputs alone, or an empty block: on to its idom. *)
GoUp(b) ==
  /\ IF idom[b] # 0 /\ Awaits(idom[b])
     THEN updated' = updated \cup {idom[b]} /\ que' = Append(Tail(que), idom[b])
     ELSE UNCHANGED updated /\ que' = Tail(que)
  /\ UNCHANGED preds

Stop == que' = Tail(que) /\ UNCHANGED << preds, updated >>

Realign ==
  /\ phase = "realign"
  /\ que # << >>
  /\ LET b == Head(que)
     IN  \/ b \in branches /\ \E from \in SUBSET assigns : Enable(b, from)
         \/ b \notin assigns \ branches /\ GoUp(b)
         \/ b \in assigns \ branches /\ Stop
  /\ taken' = Append(taken, Head(que))
  /\ UNCHANGED << phase, idom, weight, branches, assigns, walker, targets,
                  dist, table, measured >>

(* Broken: distances of the last target stay. *)
ZeroAtKeep(d, t) == [d EXCEPT ![t] = 0]

ZeroAt(d, t) == [Reset EXCEPT ![t] = 0]

(* update_distance begins with the first target. *)
Measure ==
  /\ phase = "realign"
  /\ que = << >>
  /\ phase' = "distance"
  /\ dist' = ZeroAt(dist, targets[1])
  /\ que' = << targets[1] >>
  /\ measured' = preds
  /\ taken' = << >>
  /\ UNCHANGED << graph, walker, targets, updated, table >>

(* Broken: a distance that is as good is taken as better. *)
CloserOrSame(d, b, p) == d[b] + weight[b] <= d[p]

Closer(d, b, p) == d[b] + weight[b] < d[p]

(* The block at the head of the queue: its predecessors, then its idom.    *)
Relax ==
  /\ phase = "distance"
  /\ que # << >>
  /\ LET b == Head(que)
         d == dist[b] + weight[b]
         nearer == {p \in preds[b] : Closer(dist, b, p)}
         after == [p \in Blocks |-> IF p \in nearer THEN d ELSE dist[p]]
         lift == idom[b] # 0 /\ d < after[idom[b]]
     IN  /\ dist' = IF lift THEN [after EXCEPT ![idom[b]] = d] ELSE after
         /\ \E s \in Orders(nearer) :
              que' = Tail(que) \o s \o IF lift THEN << idom[b] >> ELSE << >>
  /\ UNCHANGED << phase, graph, walker, targets, updated, table, measured, taken >>

(* update_all_distances writes the list of one target, then the next. *)
NextTarget ==
  /\ phase = "distance"
  /\ que = << >>
  /\ table' = Append(table, dist)
  /\ Len(table') < Len(targets)
  /\ dist' = ZeroAt(dist, targets[Len(table') + 1])
  /\ que' = << targets[Len(table') + 1] >>
  /\ UNCHANGED << phase, graph, walker, targets, updated, measured, taken >>

(* The last target; then make_circular. *)
Circular ==
  /\ phase = "distance"
  /\ que = << >>
  /\ Len(table) + 1 = Len(targets)
  /\ table' = Append(table, dist)
  /\ phase' = "done"
  /\ preds' = [b \in Blocks |->
                 IF preds[b] # {} THEN preds[b]
                 ELSE {p[2] : p \in {q \in Processes : q[1] = b /\ q[2] # b}}]
  /\ UNCHANGED << idom, weight, branches, assigns, walker, targets, que,
                  updated, dist, measured, taken >>

DistNext ==
  \/ Build /\ UNCHANGED << targets, que, updated, dist, table, measured,
                        taken >>
  \/ SelectTargets \/ Realign \/ Measure \/ Relax \/ NextTarget \/ Circular

(* The driver does one thing after the other and never waits. *)
Fairness == WF_vars(Realign) /\ WF_vars(Measure) /\ WF_vars(Relax)
            /\ WF_vars(NextTarget) /\ WF_vars(Circular)

Spec == DistInit /\ [][DistNext]_vars /\ Fairness

-----------------------------------------------------------------------------
(***************************************************************************)
(* Properties.                                                             *)
(***************************************************************************)
TypeOK ==
  /\ phase \in {"build", "realign", "distance", "done"}
  /\ count \in Blocks
  /\ preds \in [Blocks -> SUBSET Blocks]
  /\ idom \in [Blocks -> 0 .. MaxBlocks]
  /\ weight \in [Blocks -> {0, 1}]
  /\ branches \subseteq Blocks
  /\ assigns \subseteq Blocks
  /\ top \in Blocks
  /\ open \in Seq([if : BOOLEAN, head : Blocks, other : 0 .. MaxBlocks,
                   exit : Blocks, default : BOOLEAN])
  /\ entries \subseteq Blocks
  /\ ended \subseteq Blocks \X Blocks
  /\ targets \in Seq(Blocks)
  /\ que \in Seq(Blocks)
  /\ updated \subseteq Blocks
  /\ dist \in [Blocks -> Nat]
  /\ table \in Seq([Blocks -> Nat])
  /\ taken \in Seq(Blocks)

(* The blocks reached from t over at most k steps, each with what it costs. *)
Shortest(t) ==
  LET reach[k \in 0 .. count] ==
        IF k = 0 THEN {<< t, 0 >>}
        ELSE LET prev == reach[k - 1]
             IN  prev \cup UNION {{<< p, r[2] + weight[r[1]] >> :
                                    p \in (measured[r[1]] \cup {idom[r[1]]}) \ {0}} :
                                 r \in prev}
      costs(p) == {r[2] : r \in {q \in reach[count] : q[1] = p}}
  IN  [p \in Blocks |-> Min(costs(p) \cup {Far})]

(***************************************************************************)
(* The distances kept for a target are the shortest ones in the graph as   *)
(* it is realigned, although a block may leave the queue before its last   *)
(* distance is known, weights may be zero, and the blocks share the one    *)
(* field the targets are measured in.                                      *)
(***************************************************************************)
DistanceIsShortest ==
  phase = "done" => \A k \in 1 .. Len(targets) : table[k] = Shortest(targets[k])

(***************************************************************************)
(* Over the whole realignment a block is taken up once, whatever cycles    *)
(* lead back to it and from whichever block it was put into the queue, and *)
(* a target once for each line that lists it: a block costs one query to   *)
(* the solver for each assignment.                                         *)
(***************************************************************************)
RealignOnce ==
  \A i, j \in DOMAIN taken :
    taken[i] = taken[j] => i = j \/ {i, j} \subseteq DOMAIN targets

(* Both work lists come to an end on every graph, cycles included. *)
Terminates == phase = "realign" ~> phase = "done"

=============================================================================
