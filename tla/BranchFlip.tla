---------------------------- MODULE BranchFlip ----------------------------
(***************************************************************************)
(* One target's search: concolic_iteration with explore_one_step and       *)
(* find_next_cfg (simulation.cpp) on a design that is really executed.     *)
(*                                                                         *)
(* The design is a machine with one process.  In the clock c of a run it   *)
(* takes the branches Log[r, i] of its code, r being the register state    *)
(* and i the input vector of the clock, and goes to After[r, i].  A        *)
(* constraint of the trace says which branch was taken at a place of the   *)
(* trace; assignments are functions of the branches taken before them, so  *)
(* they bring no constraint of their own.  The solver is exact.            *)
(*                                                                         *)
(* Kept from the code: the constraint stack with its running hash, the     *)
(* set of hashes of paths taken, the window and the order in which         *)
(* alternatives are tried, what is asserted in the solver's context and    *)
(* when the context is reset, how a model becomes input vectors, and how   *)
(* long the paths are.                                                     *)
(***************************************************************************)
EXTENDS Integers, SequencesExt

CONSTANTS
  Inputs,        (* input vectors                                           *)
  Regs, Reset,   (* register states, and the one after the reset            *)
  After, Log,    (* next state and branches of a clock, for [state, input]  *)
  Branches,
  Node,          (* the parent_node of a branch                             *)
  Distance0,     (* block->distance when the target is taken up             *)
  HashTable,     (* hash_table[id % 16384]                                  *)
  HashModulus,   (* 2^32 in the code: hashes are of type uint               *)
  Unroll, Step,  (* g_unroll, g_step                                        *)
  MaxFlips       (* bound: how many searches a behaviour makes              *)

ASSUME DesignAssumption ==
  /\ Reset \in Regs
  /\ After \in [Regs \X Inputs -> Regs]
  /\ Log \in [Regs \X Inputs -> Seq(Branches)]
  /\ Branches # {}
  /\ Distance0 \in [Branches -> Nat]
  /\ HashTable \in [Branches -> Nat]
  /\ HashModulus \in Nat \ {0}
  /\ Unroll \in Nat \ {0}
  /\ Step \in Nat \ {0}
  /\ MaxFlips \in Nat

VARIABLES
  pc,
  path,          (* curr_path->data: the input vectors and clk              *)
  stepData,      (* g_data_step                                             *)
  initClk,       (* clk of the path before explore_one_step                 *)
  simClk,        (* g_sim_clk                                               *)
  stack,         (* constraints_stack, its branch constraints               *)
  taken,         (* path_hash_map                                           *)
  cands,         (* the alternatives still to be tried                      *)
  pick,          (* it: the alternative being tried                         *)
  ctx,           (* the assertions in yices_context                         *)
  dist,          (* block->distance of every branch                         *)
  flips,         (* history: searches that succeeded                        *)
  followed       (* history: the branch sequences executed or selected      *)

vars == << pc, path, stepData, initClk, simClk, stack, taken, cands, pick,
           ctx, dist, flips, followed >>

-----------------------------------------------------------------------------
(***************************************************************************)
(* The simulator.                                                          *)
(***************************************************************************)
StateBefore(rows) ==
  LET s[c \in 1 .. Len(rows) + 1] ==
        IF c = 1 THEN Reset ELSE After[<< s[c - 1], rows[c - 1] >>]
  IN  s

(* The branches of the clocks 1 .. n, as pairs << clock, branch >>. *)
Trace(rows, n) ==
  FlattenSeq([c \in 1 .. n |->
    LET log == Log[<< StateBefore(rows)[c], rows[c] >>]
    IN  [k \in DOMAIN log |-> << c, log[k] >>]])

(* Broken: hashes are not of type uint. *)
HashStepWide(hash, branch, index) == hash + HashTable[branch] * index

(***************************************************************************)
(* build_stack.  A constraint holds its clock, its branch, its index on    *)
(* the stack, where the mark of each clock takes a place of its own, and   *)
(* the hash of the branches before it.                                     *)
(***************************************************************************)
HashStep(hash, branch, index) ==
  (hash + HashTable[branch] * index) % HashModulus

Build(rows, n) ==
  LET trace == Trace(rows, n)
      index(k) == k + trace[k][1]
      hash[k \in 0 .. Len(trace)] ==
        IF k = 0 THEN 0 ELSE HashStep(hash[k - 1], trace[k][2], index(k))
  IN  [k \in DOMAIN trace |->
         [clk |-> trace[k][1], br |-> trace[k][2], index |-> index(k),
          hash |-> hash[k - 1]]]

(* update_path_hash_map, for every constraint of a stack *)
HashesOf(s) == {HashStep(s[k].hash, s[k].br, s[k].index) : k \in DOMAIN s}

(* The branch sequences a stack goes through. *)
BranchesOf(s) == [k \in DOMAIN s |-> s[k].br]
PrefixesOf(s) == {SubSeq(BranchesOf(s), 1, k) : k \in DOMAIN s}

(* What the stack says of the run, as assertions for the solver. *)
Assertion(e) == [clk |-> e.clk, index |-> e.index, br |-> e.br]
Assertions(s) == {Assertion(s[k]) : k \in DOMAIN s}

(* simulate_build_stack with rows in data.mem and g_sim_clk = n *)
Simulate(rows, n) ==
  /\ simClk' = n
  /\ stack' = Build(rows, n)

-----------------------------------------------------------------------------
(***************************************************************************)
(* Alternatives.  An alternative is a place k of the stack and a branch    *)
(* other than the one taken there, of the same branch node.                *)
(***************************************************************************)
AltHash(a) ==
  HashStep(stack[a.at].hash, a.br, stack[a.at].index)

AltPath(a) == Append(SubSeq(BranchesOf(stack), 1, a.at - 1), a.br)

Clock(a) == stack[a.at].clk

(* Broken: the clock before the last step is searched again. *)
InWindowFromInit(clk) == initClk <= clk /\ clk <= path.clk

(* get_available_branches(branches, init_clk + 1, curr_clk) *)
InWindow(clk) == initClk < clk /\ clk <= path.clk

(* Broken: an alternative is tried however often it was. *)
NotTakenUnchecked(a) == TRUE

(* ~ is_path_taken *)
NotTaken(a) == AltHash(a) \notin taken

(* The alternatives find_next_cfg tries; ranked is what the ranking script
   lists: sortBranches drops all others. *)
Alternatives(ranked) ==
  {a \in [at : DOMAIN stack, br : ranked] :
     /\ a.br # stack[a.at].br
     /\ Node[a.br] = Node[stack[a.at].br]
     /\ InWindow(Clock(a))
     /\ NotTaken(a)}

(* compare_dist *)
Before(a, b) ==
  \/ dist[a.br] < dist[b.br]
  \/ dist[a.br] = dist[b.br] /\ Clock(a) < Clock(b)

(* std::sort is not stable: any alternative none is before may come first. *)
First(as) == {a \in as : \A b \in as : ~ Before(b, a)}

-----------------------------------------------------------------------------
(***************************************************************************)
(* The solver.                                                             *)
(***************************************************************************)
Solutions(n) == {rows \in [1 .. n -> Inputs] : ctx \subseteq
                                               Assertions(Build(rows, n))}

(* Broken: the value for clock c is written into the line of clock c + 1. *)
LinesOffByOne(old, model, clock) ==
  [c \in 1 .. clock |-> IF c = 1 THEN old[1] ELSE model[c - 1]]

(***************************************************************************)
(* update_input_vectors: the value the model gives the version c of an     *)
(* input goes to the line c - 1 of g_data_step, clocks after the chosen    *)
(* one are left out.                                                       *)
(***************************************************************************)
Lines(old, model, clock) ==
  [c \in DOMAIN old |-> IF c <= clock THEN model[c] ELSE old[c]]

(* Broken: the selected alternative is not remembered. *)
MarkNothing(a) == {}

(* update_path_taken *)
Mark(a) == {AltHash(a)}

(* CTDataMem::intercept(source, 0, end); clk is set before end is cut. *)
Intercept(data, end) ==
  [rows |-> SubSeq(data.rows, 1, Min({end, Len(data.rows)})), clk |-> end]

-----------------------------------------------------------------------------
NoPick == [at |-> 0, br |-> CHOOSE b \in Branches : TRUE]
Vectors(n) == [1 .. n -> Inputs]

(* The path in hand when the target is taken up: one random simulation. *)
Init ==
  \E rows \in Vectors(Step) :
    /\ pc = "explore"
    /\ path = [rows |-> rows, clk |-> Step]
    /\ stepData = [rows |-> rows, clk |-> Step]
    /\ initClk = 0
    /\ simClk = Step
    /\ stack = Build(rows, Step)
    /\ taken = HashesOf(Build(rows, Step))
    /\ cands = {}
    /\ pick = NoPick
    /\ ctx = {}
    /\ dist = Distance0
    /\ flips = 0
    /\ followed = PrefixesOf(Build(rows, Step))

(* Broken: the stack is built up to the clock of the last simulation. *)
ExploreStale(data, new) ==
  LET longer == [rows |-> data.rows \o new, clk |-> data.clk + Step]
  IN  /\ stepData' = [rows |-> new, clk |-> Step]
      /\ path' = longer
      /\ Simulate(longer.rows, simClk)
      /\ taken' = taken \cup HashesOf(stack')
      /\ followed' = followed \cup PrefixesOf(stack')

(***************************************************************************)
(* explore_one_step: Step random vectors are appended to the path in hand, *)
(* which is then written out and simulated.                                *)
(***************************************************************************)
ExploreOneStep(data, new) ==
  LET longer == [rows |-> data.rows \o new, clk |-> data.clk + Step]
  IN  /\ stepData' = [rows |-> new, clk |-> Step]
      /\ path' = longer
      /\ Simulate(longer.rows, longer.clk)
      /\ taken' = taken \cup HashesOf(stack')
      /\ followed' = followed \cup PrefixesOf(stack')

Explore(new) ==
  /\ pc = "explore"
  /\ flips < MaxFlips
  /\ initClk' = path.clk
  /\ ExploreOneStep(path, new)
  /\ pc' = "collect"
  /\ UNCHANGED << cands, pick, ctx, dist, flips >>

(* The alternatives are collected and sorted, and the first one is tried. *)
Collect(ranked) ==
  /\ pc = "collect"
  /\ LET all == Alternatives(ranked)
     IN  IF all = {}
         THEN pc' = "none" /\ UNCHANGED << cands, pick >>
         ELSE \E a \in First(all) :
                /\ pick' = a
                /\ cands' = all \ {a}
                /\ pc' = "prefix"
  /\ UNCHANGED << path, stepData, initClk, simClk, stack, taken, ctx, dist,
                  flips, followed >>

(* The context is reset, and the clocks before the chosen one asserted. *)
AssertPrefix ==
  /\ pc = "prefix"
  /\ ctx' = {Assertion(stack[k]) :
               k \in {j \in DOMAIN stack : stack[j].clk < Clock(pick)}}
  /\ pc' = "dump"
  /\ UNCHANGED << path, stepData, initClk, simClk, stack, taken, cands, pick,
                  dist, flips, followed >>

(***************************************************************************)
(* smt_yices_dump_error, which writes debug.txt, resets the same context   *)
(* and asserts the whole trace in it.                                      *)
(***************************************************************************)
DumpError ==
  /\ pc = "dump"
  /\ ctx' = Assertions(stack)
  /\ pc' = "mutate"
  /\ UNCHANGED << path, stepData, initClk, simClk, stack, taken, cands, pick,
                  dist, flips, followed >>

(* The constraints before pick in its clock, then the mutated branch. *)
AssertMutated ==
  /\ pc = "mutate"
  /\ LET before == {stack[k] : k \in {j \in 1 .. pick.at - 1 :
                                        stack[j].clk = Clock(pick)}}
     IN  ctx' = ctx \cup {Assertion(e) : e \in before}
                    \cup {Assertion([stack[pick.at] EXCEPT !.br = pick.br])}
  /\ stepData' = Intercept(path, Clock(pick))
  /\ pc' = "check"
  /\ UNCHANGED << path, initClk, simClk, stack, taken, cands, pick, dist,
                  flips, followed >>

(***************************************************************************)
(* check_satisfiability: the context is reset, the whole trace asserted    *)
(* and checked.  It is satisfiable: the path itself is a solution.         *)
(***************************************************************************)
CheckSatisfiability ==
  /\ pc = "check"
  /\ ctx' = Assertions(stack)
  /\ pc' = "solve"
  /\ UNCHANGED << path, stepData, initClk, simClk, stack, taken, cands, pick,
                  dist, flips, followed >>

(***************************************************************************)
(* solve_constraints.  With a model, its inputs are written out and        *)
(* simulated up to the chosen clock, and the result is the next path; if   *)
(* there is none, the next alternative is tried.                           *)
(***************************************************************************)
Solve ==
  /\ pc = "solve"
  /\ IF Solutions(path.clk) # {}
     THEN /\ \E model \in Solutions(path.clk) :
               LET new == [stepData EXCEPT
                             !.rows = Lines(@, model, Clock(pick))]
               IN  /\ stepData' = new
                   /\ path' = new
                   /\ Simulate(new.rows, Clock(pick))
          /\ taken' = taken \cup Mark(pick) \cup HashesOf(stack')
          /\ followed' = followed \cup {AltPath(pick)} \cup PrefixesOf(stack')
          /\ dist' = [dist EXCEPT ![pick.br] = @ + 1]
          /\ flips' = flips + 1
          /\ cands' = {}
          /\ pc' = "judge"
          /\ UNCHANGED pick
     ELSE /\ IF cands = {}
             THEN pc' = "none" /\ UNCHANGED << cands, pick >>
             ELSE \E a \in First(cands) :
                    pick' = a /\ cands' = cands \ {a} /\ pc' = "prefix"
          /\ UNCHANGED << path, stepData, simClk, stack, taken, dist, flips,
                          followed >>
  /\ UNCHANGED << initClk, ctx >>

(* The caller: a path longer than Unroll is cut to one fresh step. *)
Judge ==
  /\ pc = "judge"
  /\ path.clk <= Unroll
  /\ pc' = "explore"
  /\ UNCHANGED << path, stepData, initClk, simClk, stack, taken, cands, pick,
                  ctx, dist, flips, followed >>

Restart(new) ==
  /\ pc = "judge"
  /\ path.clk > Unroll
  /\ ExploreOneStep([rows |-> << >>, clk |-> 0], new)
  /\ pc' = "explore"
  /\ UNCHANGED << initClk, cands, pick, ctx, dist, flips >>

(* No alternative is left, or the bound is reached. *)
Stop ==
  /\ pc = "none" \/ (pc = "explore" /\ flips = MaxFlips)
  /\ UNCHANGED vars

Next ==
  \/ \E new \in Vectors(Step) : Explore(new) \/ Restart(new)
  \/ \E ranked \in SUBSET Branches : Collect(ranked)
  \/ AssertPrefix
  \/ DumpError
  \/ AssertMutated
  \/ CheckSatisfiability
  \/ Solve
  \/ Judge
  \/ Stop

Spec == Init /\ [][Next]_vars

(* One thread, which waits only for the simulator and the solver. *)
FairSpec == Spec /\ WF_vars(Next)

-----------------------------------------------------------------------------
(***************************************************************************)
(* Properties.                                                             *)
(***************************************************************************)
Data == [rows : Seq(Inputs), clk : Nat]

Trying == {"prefix", "dump", "mutate", "check", "solve"}

TypeOK ==
  /\ pc \in {"explore", "collect", "judge", "none"} \cup Trying
  /\ path \in Data
  /\ stepData \in Data
  /\ initClk \in Nat
  /\ simClk \in Nat
  /\ stack \in Seq([clk : Nat, br : Branches, index : Nat, hash : Nat])
  /\ taken \subseteq 0 .. HashModulus - 1
  /\ cands \subseteq [at : Nat, br : Branches]
  /\ pick \in [at : Nat, br : Branches]
  /\ ctx \subseteq [clk : Nat, index : Nat, br : Branches]
  /\ dist \in [Branches -> Nat]
  /\ flips \in 0 .. MaxFlips
  /\ followed \subseteq Seq(Branches)

(***************************************************************************)
(* The path in hand, its clk, g_sim_clk and the constraint stack describe  *)
(* the same run, although lengthening, cutting, solving and restarting     *)
(* change them one by one and in different places.                         *)
(***************************************************************************)
StackIsOfPath ==
  /\ Len(path.rows) = path.clk
  /\ simClk = path.clk
  /\ stack = Build(path.rows, path.clk)

(***************************************************************************)
(* The run made from a model repeats the old one in every clock before the *)
(* one whose branch was to be flipped: the input versions of the model go  *)
(* to the lines of data.mem that the simulation reads in the same clocks.  *)
(***************************************************************************)
BeforeClock(s, n) == [k \in {j \in DOMAIN s : s[j].clk < n} |-> s[k]]

PrefixKept ==
  [][flips' # flips =>
       BeforeClock(stack', Clock(pick)) = BeforeClock(stack, Clock(pick))]_vars

(***************************************************************************)
(* A successful search leaves a longer path than concolic_iteration was    *)
(* given, although the new path is cut at the chosen clock: this is what   *)
(* brings every search to the limit in the end.                            *)
(***************************************************************************)
PathGrows == pc = "judge" => path.clk > initClk

(***************************************************************************)
(* No branch sequence is selected that was executed or selected before,    *)
(* in whatever earlier search, whichever hashes collide.                   *)
(***************************************************************************)
NeverTwice == [][flips' # flips => AltPath(pick) \notin followed]_vars

(***************************************************************************)
(* The process begins with one statement, whose branches S are taken       *)
(* nowhere else: a branch sequence tells where its clocks begin.           *)
(***************************************************************************)
BeginsWith(S) ==
  /\ \A x \in Regs \X Inputs :
       /\ Log[x] # << >> /\ Log[x][1] \in S
       /\ \A k \in 2 .. Len(Log[x]) : Log[x][k] \notin S
  /\ \A b \in S, o \in Branches : Node[o] = Node[b] => o \in S

OneBeginning == \E S \in SUBSET Branches : BeginsWith(S)

(***************************************************************************)
(* Even without the limits of the driver a target's search ends: it runs   *)
(* out of alternatives.                                                    *)
(***************************************************************************)
RunsOut == <>(pc = "none")

(***************************************************************************)
(* What the code says and does not do: "add mutated branch" - when the     *)
(* solver is asked, the mutated branch is one of the assertions.           *)
(***************************************************************************)
MutatedInContext ==
  pc = "solve" =>
    Assertion([stack[pick.at] EXCEPT !.br = pick.br]) \in ctx

=============================================================================
