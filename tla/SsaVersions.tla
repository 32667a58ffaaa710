---------------------------- MODULE SsaVersions ----------------------------
(***************************************************************************)
(* The versions of signals (SMTSigCore, smt_lib.cpp): while build_stack    *)
(* reads the log of a simulation, every assignment gets a version of its   *)
(* signal, and every constraint is a term over the versions current then.  *)
(*                                                                         *)
(* The module runs the simulation and the reader of its log side by side,  *)
(* in the order of the log, and compares what a process read in the        *)
(* simulation with the versions its term names.  A value is known by the   *)
(* version of the assignment that made it.                                 *)
(*                                                                         *)
(* One clock of the generated code, from one posedge to the next:          *)
(*   "posedge"  edge-triggered processes run; non-blocking assignments are *)
(*              written with a delay of #1                                 *)
(*   (mark)     $strobe prints the mark at the end of the time of the edge *)
(*   "nba"      one time unit later the assignments take effect            *)
(*   "react"    processes woken by them run: level-sensitive ones, and     *)
(*              edge-triggered ones that wait for an edge of a register    *)
(*              too, as in always @(posedge clk or posedge rsts), for the  *)
(*              second time in this clock                                  *)
(*   "input"    five time units after the edge the inputs change, and wake *)
(*              the processes that wait for them; __obs wakes any          *)
(*              level-sensitive one                                        *)
(***************************************************************************)
EXTENDS Integers, Sequences

CONSTANTS
  InputSigs,     (* inputs: input_list                                      *)
  RegSigs,       (* all other signals: reg_list                             *)
  Procs,
  EdgeProcs,     (* the processes with is_edge_triggered                    *)
  Body,          (* what a process can execute, in order: a sequence of     *)
                 (* steps [kind, reads, sig], each taken or not             *)
  Sensitive,     (* the signals a process waits for; of an edge-triggered   *)
                 (* one those beside the clock whose edges are on its list  *)
  NoProc,
  MaxClock       (* bound on the clocks simulated                           *)

LevelProcs == Procs \ EdgeProcs
Signals    == InputSigs \cup RegSigs

(***************************************************************************)
(* A step is a branch, a non-blocking or a blocking assignment; sig is the *)
(* signal assigned, of no meaning for a branch.                            *)
(***************************************************************************)
StepType == [kind : {"branch", "nba", "blk"}, reads : SUBSET Signals,
             sig : RegSigs]

ASSUME DesignAssumption ==
  /\ EdgeProcs \subseteq Procs
  /\ NoProc \notin Procs
  /\ InputSigs \cap RegSigs = {}
  /\ Body \in [Procs -> Seq(StepType)]
  /\ Sensitive \in [Procs -> SUBSET Signals]
  /\ MaxClock \in Nat

VARIABLES
  (* the simulation *)
  phase,
  todo,          (* processes woken and not yet run                         *)
  running, at,   (* the process that runs, and the last step it was at      *)
  sim,           (* the version whose value a signal has                    *)
  pend,          (* the version that waits to take effect, 0 for none       *)
  simIn,         (* the row of data.mem on the inputs, 0 before the first   *)
  (* the reader of the log *)
  clock,         (* the mark read last                                      *)
  curr, next,    (* curr_version and next_version                           *)
  inVer,         (* curr_version of the inputs                              *)
  atClock,       (* version_at_clock                                        *)
  stack          (* constraints_stack                                       *)

simulation == << phase, todo, running, at, sim, pend, simIn >>
reader     == << clock, curr, next, inVer, atClock, stack >>
vars       == << phase, todo, running, at, sim, pend, simIn,
                 clock, curr, next, inVer, atClock, stack >>

-----------------------------------------------------------------------------
Init ==
  /\ phase = "posedge"
  /\ todo = EdgeProcs
  /\ running = NoProc
  /\ at = 0
  /\ sim = [s \in RegSigs |-> 0]
  /\ pend = [s \in RegSigs |-> 0]
  /\ simIn = 0
  /\ clock = 0
  /\ curr = [s \in RegSigs |-> 0]
  /\ next = [s \in RegSigs |-> 0]
  /\ inVer = 0
  /\ atClock = [c \in 0 .. MaxClock |-> [s \in RegSigs |-> 0]]
  /\ stack = << >>

Idle    == running = NoProc /\ todo = {}
Pending == \E s \in RegSigs : pend[s] # 0

(* Who waits for a change, or an edge, of s. *)
Woken(s) == {p \in Procs : s \in Sensitive[p]}

-----------------------------------------------------------------------------
(* A process woken gets its turn; which one first is open. *)
Run(p) ==
  /\ running = NoProc
  /\ p \in todo
  /\ running' = p
  /\ at' = 0
  /\ todo' = todo \ {p}
  /\ UNCHANGED << phase, sim, pend, simIn, reader >>

(* The versions a term made now names, and the ones the values have. *)
Used(reads) == [s \in reads |-> IF s \in InputSigs THEN inVer ELSE curr[s]]
Real(reads) == [s \in reads |-> IF s \in InputSigs THEN simIn ELSE sim[s]]

(* Broken: an assignment is given the version of the one before it. *)
UpdatedNextSkipped(s) == next

(* update_next_version *)
UpdatedNext(s) == [next EXCEPT ![s] = @ + 1]

(***************************************************************************)
(* A step is executed and its line ";A" read: create_constraint makes its  *)
(* term.  An assignment gets the next version, and a blocking one commits  *)
(* it.  A change of the signal may wake processes that wait for it.  Of    *)
(* the constraint, late records that it comes from the part of the clock   *)
(* between the mark and the next edge (a history the code does not keep).  *)
(***************************************************************************)
Constraint(step, version) ==
  [clk |-> clock, late |-> phase # "posedge",
   proc |-> running, kind |-> step.kind, sig |-> step.sig,
   used |-> Used(step.reads), real |-> Real(step.reads), def |-> version]

Branch(step) ==
  /\ step.kind = "branch"
  /\ stack' = Append(stack, Constraint(step, 0))
  /\ UNCHANGED << todo, sim, pend, curr, next >>

NonBlocking(step) ==
  /\ step.kind = "nba"
  /\ next' = UpdatedNext(step.sig)
  /\ pend' = [pend EXCEPT ![step.sig] = next[step.sig] + 1]
  /\ stack' = Append(stack, Constraint(step, next[step.sig] + 1))
  /\ UNCHANGED << todo, sim, curr >>

Blocking(step, woken) ==
  /\ step.kind = "blk"
  /\ woken \subseteq Woken(step.sig) \ {running}
  /\ next' = UpdatedNext(step.sig)
  /\ curr' = [curr EXCEPT ![step.sig] = next[step.sig] + 1]
  /\ sim' = [sim EXCEPT ![step.sig] = next[step.sig] + 1]
  /\ stack' = Append(stack, Constraint(step, next[step.sig] + 1))
  /\ todo' = todo \cup woken
  /\ UNCHANGED pend

Step(k, woken) ==
  /\ running # NoProc
  /\ k \in at + 1 .. Len(Body[running])
  /\ at' = k
  /\ \/ Branch(Body[running][k]) \/ NonBlocking(Body[running][k])
     \/ Blocking(Body[running][k], woken)
  /\ UNCHANGED << phase, running, simIn, clock, inVer, atClock >>

EndRun ==
  /\ running # NoProc
  /\ running' = NoProc
  /\ at' = 0
  /\ UNCHANGED << phase, todo, sim, pend, simIn, reader >>

-----------------------------------------------------------------------------
(* Broken: versions are recorded before they are committed. *)
MarkRecordsFirst ==
  /\ phase = "posedge"
  /\ Idle
  /\ clock < MaxClock
  /\ phase' = "nba"
  /\ clock' = clock + 1
  /\ inVer' = clock + 1
  /\ curr' = next
  /\ atClock' = [atClock EXCEPT ![clock + 1] = curr]
  /\ UNCHANGED << todo, running, at, sim, pend, simIn, next, stack >>

(* Broken: only blocking assignments are committed. *)
MarkNoCommit ==
  /\ phase = "posedge"
  /\ Idle
  /\ clock < MaxClock
  /\ phase' = "nba"
  /\ clock' = clock + 1
  /\ inVer' = clock + 1
  /\ atClock' = [atClock EXCEPT ![clock + 1] = curr]
  /\ UNCHANGED << todo, running, at, sim, pend, simIn, curr, next, stack >>

(* Broken: the inputs keep the version of the clock before. *)
MarkInputLate ==
  /\ phase = "posedge"
  /\ Idle
  /\ clock < MaxClock
  /\ phase' = "nba"
  /\ clock' = clock + 1
  /\ inVer' = clock
  /\ curr' = next
  /\ atClock' = [atClock EXCEPT ![clock + 1] = next]
  /\ UNCHANGED << todo, running, at, sim, pend, simIn, next, stack >>

(* The line ";_C": set_input_version, then commit_versions. *)
Mark ==
  /\ phase = "posedge"
  /\ Idle
  /\ clock < MaxClock
  /\ phase' = "nba"
  /\ clock' = clock + 1
  /\ inVer' = clock + 1
  /\ curr' = next
  /\ atClock' = [atClock EXCEPT ![clock + 1] = next]
  /\ UNCHANGED << todo, running, at, sim, pend, simIn, next, stack >>

(* Non-blocking assignments take effect, and may wake who waits for them. *)
Apply(woken) ==
  /\ Idle
  /\ phase = "nba" \/ (phase # "posedge" /\ Pending)
  /\ sim' = [s \in RegSigs |-> IF pend[s] # 0 THEN pend[s] ELSE sim[s]]
  /\ pend' = [s \in RegSigs |-> 0]
  /\ woken \subseteq UNION {Woken(s) : s \in {r \in RegSigs : pend[r] # 0}}
  /\ todo' = woken
  /\ phase' = IF phase = "nba" THEN "react" ELSE phase
  /\ UNCHANGED << running, at, simIn, reader >>

(* The inputs change; __obs may wake any level-sensitive process. *)
InputChange(woken) ==
  /\ woken \subseteq LevelProcs \cup UNION {Woken(s) : s \in InputSigs}
  /\ phase = "react"
  /\ Idle
  /\ ~ Pending
  /\ phase' = "input"
  /\ simIn' = clock
  /\ todo' = woken
  /\ UNCHANGED << running, at, sim, pend, reader >>

Posedge ==
  /\ phase = "input"
  /\ Idle
  /\ ~ Pending
  /\ phase' = "posedge"
  /\ todo' = EdgeProcs
  /\ UNCHANGED << running, at, sim, pend, simIn, reader >>

Steps == UNION {DOMAIN Body[p] : p \in Procs}

Next ==
  \/ \E p \in Procs : Run(p)
  \/ \E k \in Steps, woken \in SUBSET Procs : Step(k, woken)
  \/ EndRun
  \/ Mark
  \/ \E woken \in SUBSET Procs : Apply(woken) \/ InputChange(woken)
  \/ Posedge

Spec == Init /\ [][Next]_vars

-----------------------------------------------------------------------------
(***************************************************************************)
(* Properties.                                                             *)
(***************************************************************************)
TypeOK ==
  /\ phase \in {"posedge", "nba", "react", "input"}
  /\ todo \subseteq Procs
  /\ running \in Procs \cup {NoProc}
  /\ at \in Nat
  /\ sim \in [RegSigs -> Nat]
  /\ pend \in [RegSigs -> Nat]
  /\ simIn \in 0 .. MaxClock
  /\ clock \in 0 .. MaxClock
  /\ curr \in [RegSigs -> Nat]
  /\ next \in [RegSigs -> Nat]
  /\ inVer \in 0 .. MaxClock
  /\ atClock \in [0 .. MaxClock -> [RegSigs -> Nat]]
  /\ \A s \in RegSigs : pend[s] <= next[s] /\ curr[s] <= next[s]

(***************************************************************************)
(* The coding rule the versions are made for: edge-triggered processes     *)
(* assign without blocking, all others with blocking, and no signal is     *)
(* assigned by both kinds.                                                 *)
(***************************************************************************)
Assigns(p, s) == \E k \in DOMAIN Body[p] :
                   Body[p][k].kind # "branch" /\ Body[p][k].sig = s

Disciplined ==
  /\ \A p \in Procs : \A k \in DOMAIN Body[p] :
       Body[p][k].kind # (IF p \in EdgeProcs THEN "blk" ELSE "nba")
  /\ \A p \in EdgeProcs, q \in LevelProcs, s \in RegSigs :
       ~ (Assigns(p, s) /\ Assigns(q, s))

(* Assigned without blocking since the mark read last, by a process woken
   within the clock: committed by the next mark only. *)
Stale(s) ==
  \E j \in DOMAIN stack : /\ stack[j].clk = clock /\ stack[j].late
                          /\ stack[j].kind = "nba" /\ stack[j].sig = s

(***************************************************************************)
(* In a design that follows the rule, whenever a process runs the current  *)
(* version of every register and wire is the one whose value it has in the *)
(* simulation, so that every term made then speaks of the values read.     *)
(* The one exception is a register assigned again, within the clock, by a  *)
(* process woken after the mark: its new version is not current before the *)
(* next mark, although its value is read from one time unit later on.      *)
(***************************************************************************)
ReadsCurrent ==
  Disciplined /\ running # NoProc =>
    \A s \in RegSigs : Stale(s) \/ curr[s] = sim[s]

(***************************************************************************)
(* At an edge of the clock processes read the inputs in the version of the *)
(* row that is on them.                                                    *)
(***************************************************************************)
EdgeInputsCurrent == phase = "posedge" => inVer = simIn

(***************************************************************************)
(* The terms find_next_cfg makes again, after restore_versions, from the   *)
(* constraints of the chosen clock, without those of other edge-triggered  *)
(* processes, are the terms of the run.                                    *)
(***************************************************************************)
Kept(j, k) == stack[j].proc \in LevelProcs \/ stack[j].proc = stack[k].proc

FirstOf(c) == CHOOSE j \in DOMAIN stack :
                stack[j].clk = c /\ \A i \in 1 .. j - 1 : stack[i].clk # c

(* The versions after the constraints up to j of the clock of k. *)
Restored(k) ==
  LET c == stack[k].clk
      v[j \in FirstOf(c) - 1 .. k] ==
        IF j < FirstOf(c) THEN [curr |-> atClock[c], next |-> atClock[c]]
        ELSE LET e == stack[j]
                 w == v[j - 1]
             IN  IF e.kind = "branch" \/ ~ Kept(j, k) THEN w
                 ELSE [next |-> [w.next EXCEPT ![e.sig] = @ + 1],
                       curr |-> IF e.kind = "nba" THEN w.curr
                                ELSE [w.curr EXCEPT ![e.sig] =
                                        w.next[e.sig] + 1]]
  IN  v

TermsRemade ==
  \A k \in DOMAIN stack :
    stack[k].kind = "branch" /\ stack[k].clk > 0 =>
      LET v == Restored(k)
      IN  \A j \in FirstOf(stack[k].clk) .. k :
            Kept(j, k) =>
              /\ \A s \in DOMAIN stack[j].used \ InputSigs :
                   stack[j].used[s] = v[j - 1].curr[s]
              /\ stack[j].kind # "branch" =>
                   stack[j].def = v[j].next[stack[j].sig]

(***************************************************************************)
(* What the code says and does not do.                                     *)
(***************************************************************************)

(* "Simulation not satisfiable" is an error: the constraints of a run hold
   for the values of the run.  Here: a term over the inputs names the row
   that was read. *)
InputsOfRun ==
  \A k \in DOMAIN stack : \A s \in DOMAIN stack[k].used \cap InputSigs :
    stack[k].used[s] = stack[k].real[s]

=============================================================================
