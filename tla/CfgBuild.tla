------------------------------ MODULE CfgBuild ------------------------------
(***************************************************************************)
(* The control-flow graph the statement walkers build while they print a   *)
(* process (stmt.cpp: emit_process, emit_stmt_condit, emit_stmt_case).     *)
(*                                                                         *)
(* A process is met as the sequence of its statements: the actions open    *)
(* and close conditionals and cases in any order the grammar allows, and   *)
(* each does to the blocks what the walker does at that place.  Blocks are *)
(* numbered from 1 in the order they are made.                             *)
(***************************************************************************)
EXTENDS Integers, Sequences, FiniteSets

CONSTANTS
  MaxBlocks,   (* bound: blocks in all                                      *)
  MaxProcs,    (* bound: processes                                          *)
  MaxAssigns   (* bound: blocks with assignments                            *)

ASSUME BlocksAssumption == {MaxBlocks, MaxProcs, MaxAssigns} \subseteq Nat \ {0}

VARIABLES
  phase,       (* "build", then those of Distances                          *)
  count,       (* id_counter                                                *)
  preds,       (* predecessors                                              *)
  idom,        (* idom; 0 is NULL                                           *)
  weight,
  branches,    (* blocks whose first assignment is a branch                 *)
  assigns,     (* blocks that hold other assignments                        *)
  top,         (* top_bb of the process                                     *)
  open,        (* the statements being printed, the innermost one last      *)
  entries,     (* entry_block of the processes so far                       *)
  ended,       (* entry_block and exit_block of those that are printed      *)
  flow         (* history: the transfers of control the Verilog code has    *)

graph == << preds, idom, weight, branches, assigns >>
walker == << count, top, open, entries, ended, flow >>

Blocks == 1 .. MaxBlocks

Init ==
  /\ phase = "build"
  /\ count = 1
  /\ preds = [b \in Blocks |-> {}]
  /\ idom = [b \in Blocks |-> 0]
  /\ weight = [b \in Blocks |-> 0]
  /\ branches = {}
  /\ assigns = {}
  /\ top = 1
  /\ open = << >>
  /\ entries = {1}
  /\ ended = {}
  /\ flow = {}

Inner == open[Len(open)]
Outer == SubSeq(open, 1, Len(open) - 1)
At(if) == open # << >> /\ Inner.if = if

(* An edge to every one of the blocks, which is also a way control may go. *)
Edge(from, to) ==
  /\ preds' = [b \in Blocks |-> preds[b] \cup IF b \in to THEN {from} ELSE {}]
  /\ flow' = flow \cup {<< from, b >> : b \in to}

(* add_assign *)
Assign ==
  /\ top \notin assigns
  /\ Cardinality(assigns) < MaxAssigns
  /\ assigns' = assigns \cup {top}
  /\ UNCHANGED << preds, idom, weight, branches, walker >>

(* Broken: the block after the statement has no dominator. *)
DominatedNoExit(head, blocks, exit) ==
  idom' = [b \in Blocks |-> IF b \in blocks THEN head ELSE idom[b]]

(* Broken: top_bb is read after it has been set to the true block. *)
DominatedLate(head, blocks, exit) ==
  idom' = [b \in Blocks |->
             IF b \in blocks THEN head
             ELSE IF b # exit THEN idom[b]
             ELSE IF blocks = {} THEN head
             ELSE CHOOSE c \in blocks : \A d \in blocks : c <= d]

Dominated(head, blocks, exit) ==
  idom' = [b \in Blocks |-> IF b \in blocks \cup {exit} THEN head ELSE idom[b]]

(***************************************************************************)
(* emit_stmt_condit: blocks for both branches, even if there is no else,   *)
(* and one for what follows; then the true statement.                      *)
(***************************************************************************)
OpenIf ==
  /\ count + 3 <= MaxBlocks
  /\ LET true == count + 1
         false == count + 2
         exit == count + 3
     IN  /\ Edge(top, {true, false})
         /\ Dominated(top, {true, false}, exit)
         /\ weight' = [b \in Blocks |-> IF b \in {true, false} THEN 1
                                                               ELSE weight[b]]
         /\ branches' = branches \cup {true, false}
         /\ open' = Append(open, [if |-> TRUE, head |-> top, other |-> false,
                                  exit |-> exit, default |-> FALSE])
         /\ count' = exit
         /\ top' = true
  /\ UNCHANGED << assigns, entries, ended >>

(* The end of the true statement; then the false one. *)
Else ==
  /\ At(TRUE)
  /\ Inner.other # 0
  /\ Edge(top, {Inner.exit})
  /\ top' = Inner.other
  /\ open' = Append(Outer, [Inner EXCEPT !.other = 0])
  /\ UNCHANGED << idom, weight, branches, assigns, count, entries, ended >>

EndIf ==
  /\ At(TRUE)
  /\ Inner.other = 0
  /\ Edge(top, {Inner.exit})
  /\ top' = Inner.exit
  /\ open' = Outer
  /\ UNCHANGED << idom, weight, branches, assigns, count, entries, ended >>

(***************************************************************************)
(* emit_stmt_case.  "other" of an open case is the item being printed, or  *)
(* 0 between items.  The default comes last, without a weight; a case that *)
(* has none lets control pass when no item fits, which no edge shows.      *)
(***************************************************************************)
OpenCase ==
  /\ count + 2 <= MaxBlocks
  /\ Dominated(top, {}, count + 1)
  /\ open' = Append(open, [if |-> FALSE, head |-> top, other |-> 0,
                           exit |-> count + 1, default |-> FALSE])
  /\ count' = count + 1
  /\ UNCHANGED << preds, weight, branches, assigns, top, entries, ended, flow >>

Item(default) ==
  /\ At(FALSE)
  /\ Inner.other = 0
  /\ ~ Inner.default
  /\ count < MaxBlocks
  /\ LET item == count + 1
     IN  /\ Edge(Inner.head, {item})
         /\ Dominated(Inner.head, {item}, item)
         /\ weight' = [weight EXCEPT ![item] = IF default THEN 0 ELSE 1]
         /\ branches' = branches \cup {item}
         /\ open' = Append(Outer, [Inner EXCEPT !.other = item,
                                                !.default = default])
         /\ count' = item
         /\ top' = item
  /\ UNCHANGED << assigns, entries, ended >>

EndItem ==
  /\ At(FALSE)
  /\ Inner.other # 0
  /\ Edge(top, {Inner.exit})
  /\ open' = Append(Outer, [Inner EXCEPT !.other = 0])
  /\ UNCHANGED << idom, weight, branches, assigns, count, top, entries, ended >>

EndCase ==
  /\ At(FALSE)
  /\ Inner.other = 0
  /\ preds[Inner.exit] # {}
  /\ flow' = flow \cup
       IF Inner.default THEN {} ELSE {<< Inner.head, Inner.exit >>}
  /\ top' = Inner.exit
  /\ open' = Outer
  /\ UNCHANGED << graph, count, entries, ended >>

(* Every process, with the one in hand: the entry_block it began with and  *)
(* the block the printing stands in.                                       *)
Processes == ended \cup {<< e, top >> : e \in {x \in entries :
                                                \A y \in entries : y <= x}}

(* The next process; the block in hand is the exit_block of the last one. *)
NextProcess ==
  /\ open = << >>
  /\ Cardinality(entries) < MaxProcs
  /\ count < MaxBlocks
  /\ count' = count + 1
  /\ top' = count + 1
  /\ entries' = entries \cup {count + 1}
  /\ ended' = Processes
  /\ UNCHANGED << graph, open, flow >>

Build ==
  /\ phase = "build"
  /\ \/ Assign \/ OpenIf \/ Else \/ EndIf
     \/ OpenCase \/ (\E default \in BOOLEAN : Item(default)) \/ EndItem \/ EndCase
     \/ NextProcess
  /\ UNCHANGED phase

-----------------------------------------------------------------------------
(***************************************************************************)
(* Properties of the finished graph.                                       *)
(***************************************************************************)
Made == 1 .. count
Finished == phase = "build" /\ open = << >>

(* The blocks control can reach from a, without passing through cut. *)
ReachedWithout(a, cut) ==
  LET reach[k \in 0 .. count] ==
        IF k = 0 THEN {a} \ {cut}
        ELSE LET prev == reach[k - 1]
             IN  prev \cup {e[2] : e \in {f \in flow : /\ f[1] \in prev
                                                     /\ f[2] # cut}}
  IN  reach[count]

(***************************************************************************)
(* idom is a dominator: whatever statements a process is made of, control  *)
(* comes from its entry to a block only through the block's idom.          *)
(***************************************************************************)
IdomDominates ==
  Finished => \A b \in Made, a \in entries :
                idom[b] # 0 => b \notin ReachedWithout(a, idom[b])

(***************************************************************************)
(* Every transfer of control is an edge or a step from a block's idom: the *)
(* distances, which follow both, miss no way through the code, the one     *)
(* past a case without default included.                                   *)
(***************************************************************************)
FlowIsKnown ==
  Finished => \A e \in flow : e[1] \in preds[e[2]] \cup {idom[e[2]]}

=============================================================================
