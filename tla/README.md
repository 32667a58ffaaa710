# Conquest in TLA+

Conquest (`src/`) generates tests for a Verilog design: it is loaded by Icarus
Verilog as a code generator, writes the design out again with a `$display` in
every branch, and then looks, target by target, for input sequences that reach
the branches listed in the file `branch_id`. It alternates simulations of the
instrumented design with queries to the SMT solver Yices, and a ranking script
(a DQN) orders the branches it tries to flip.

This directory holds a model of that program, TLC configurations that check it
on small instances, and theorems checked by TLAPS.

## 1. Inventory

| Component | State it keeps | Operations | Hard behaviour |
|---|---|---|---|
| **Coverage driver**, `step_coverage` (simulation.cpp 942-1034) with the target lists of `SMTBasicBlock` (smt_lib.cpp) | `target_list`, `covered_target_list`, `uncovered_target_list`, coverage flags, `sim_num`, the path in hand, `closest_path` of every target, `g_sim_clk` | random phase, take up a target, search, restart, give up, remove covered targets | paths are shared by targets and lengthened in place; three places move targets between lists; limits are tested in an order; two loops that end only if searches make progress |
| **Branch search**, `concolic_iteration`, `explore_one_step`, `find_next_cfg` (simulation.cpp 583-922) | constraint stack, `path_hash_map`, one Yices context, `g_data_step` | lengthen and simulate a path, collect alternatives, sort them, assert, solve, simulate the answer | one context shared by functions that reset it; clocks, versions and lines counted from different origins; a set of hashes that must stop repetition |
| **Constraint stack**, `build_stack`, `create_constraint` | stack, running hash, block ids of this and the last run | parse `sim.log` | no test for the end of the file; arrays indexed by the clock |
| **Test vectors**, `CTDataMem` (data_mem.cpp) | lines of bits, `clk`, `step`, positions of the inputs | random lines, update from a model, intercept, connect, dump | three counts that must agree, an alternating `__obs` bit, paths that are kept, shared and taken up again |
| **SSA versions**, `SMTSigCore` (smt_lib.cpp 1337-1568) | current, next and per-clock versions of every signal | commit, restore, update, reset | blocking and non-blocking updates, processes woken twice in a clock |
| **Terms and expansion**, `SMTExpr`, `SMTAssign` | cached terms, expanded copies | `eval_term`, `get_expanded`, `update_term` | stale caches, flags not copied |
| **Control-flow graph and distances**, `SMTProcess`, `SMTBasicBlock` | blocks, edges, distances, adjacency lists, closest paths | `update_edge`, `make_circular`, `update_distance`, `update_closest_path` | a work list that must reach a fixed point, ties |
| **Branch emission** (stmt.cpp, event.cpp) | the block and branch being built | one walker per statement | the graph must describe the emitted code |
| **Entry and testbench** (concolic.cpp) | parameters | read flags, print the testbench | how many marks the log gets |
| **Ranking and reward** (state.cpp, DQN_*.py) | files exchanged with the scripts, network | print a state, read the list | missing files, stale states, files of different print-outs, a list that is then sorted again |
| **Numbers** (numbers.cpp) | none | bit strings to integers | widths |
| **Scripts**, `scripts/*.py` | directories and files of workers, sets of ids | run random simulations in a pool; until all is covered | processes side by side, relative names, killed workers, exceptions |
| **Verilog emission** (expr, logic_lpm, scope, misc) | output file | printing | none of its own |
| **Multi-target driver** (`multi_coverage`) | | | dead code |
| **Benchmarks** (test/) | | | vendored inputs |

How they interact. The driver calls the search once per turn of its inner loop.
Both call the simulator through files: `data.mem` in, `sim.log` out, with
`g_sim_clk` saying how much of the log is read. Parsing the log has side
effects everywhere: it raises coverage flags (driver), moves versions (SSA),
adds hashes (search). The search asks the solver with terms made from
expressions at their current versions, and writes its answer to `data.mem`. Before it simulates, the driver measures the control-flow graph the emission
has built. Each turn of the search starts two Python scripts, one that ranks
the branches and one that learns from the flip, and talks to them through files.
There is one thread; what interleaves is the order of calls on shared state, and
what is nondeterministic is the random vectors, the solver, the ranking, the
design and what happens to the scripts. The batch scripts of scripts/ are
programs of their own; one of them is a pool of concurrent processes.

What makes each part correct:

- driver: every target ends up on one list, for the right reason, and the
  program ends;
- search: an iteration leaves a longer path that keeps the prefix before the
  flipped clock, nothing is tried twice, path, clock and stack agree, and the
  solver is asked for the flipped branch;
- versions: a term reads the version the simulation read; each version is
  assigned once;
- test vectors: a model's value lands on the line its clock is simulated from, and a
  path that is taken up again drives what it did when it was left;
- distances: the shortest distance to the target, over the fixed point, in a
  graph that shows every way control can go;
- ranking: the lesson learned is about the flip just made; the two scripts and
  the search restore each other's files whatever fails;
- scripts: processes do not read each other's files, and nothing is reported
  that was not simulated;
- expansion: the expanded condition has the value of the written one.

## 2. Plan

The modules, in the order they were written:

1. `CoverageContract` - what the driver promises about its targets.
2. `StepCoverage` - the driver; implements 1.
3. `StepCoverageProofs` - theorems about 2.
4. `BranchFlip`, `MCBranchFlip` - the search, over an executed design.
5. `BranchFlipProofs` - theorems about 4.
6. `SsaVersions`, `MCSsaVersions`, `SsaVersionsProofs` - versions of signals
   beside the simulated clock, and theorems about them.
7. `ActionRanking`, `ActionRankingProofs` - the files between the search and the
   ranking scripts, with failures, and theorems about them.
8. `CoverageScripts`, `CoverageScriptsProofs` - the batch scripts, and theorems
   about them.
9. `CfgBuild`, `Distances`, `DistancesProofs` - the control-flow graph, from the
   statements to the distances, and theorems about it.
10. `InputPlan`, `TestVectors`, `MCTestVectors`, `TestVectorsProofs` - the bits of
   the test vectors; the second implements the first, which is proved too.
11. `Induction` - what the proofs about stacks, paths, lists and replays rest on.

What would come next, and is not done: a composition of 2 and 4 on an executed
design, shown to implement `StepCoverage` (every `Solve` a `Flip`); the
expansion and caching of terms against an evaluator; which alternatives a hash
collision hides.

## 3. The modules

### CoverageContract

`status` of every target (pending, covered, given up) and the set of flags. A
target is classified once; as covered only when its flag is up; targets are
given up in the order of `branch_id`. The order is the part the code does not
state anywhere: it follows from `target_list` being a queue that nothing
reorders.

### StepCoverage

Variables are the driver's: `pending`, `nCovered`, `nUncovered` are the three
lists (the last two as counts, so that a target pushed twice shows), `covered`
the flags `covered_any_clock`, `path` the local variable of `step_coverage`,
`clk` the length of each path object. Paths are objects: the closest paths of
the random phase, `1 .. RandomSims`, are shared by the targets, and `Explore`
lengthens the object. The search makes a new path each time it succeeds; nothing
refers to the one before it, so all are called `Fresh`. `simClk` is
`g_sim_clk`.

| Action | Code |
|---|---|
| `RandomSim`, `EndRandom` | the random phase, 955-979 |
| `SkipCovered` | the head of the outer loop, 984-991 |
| `TakeUp` | 993-1003: the closest path, replayed unless in hand |
| `Finish` | the end of the loop and `end_concolic` |
| `Explore` | `explore_one_step` in `concolic_iteration` |
| `Flip`, `FlipNothing`, `FlipUnsat` | the three outcomes of `find_next_cfg` |
| `LeaveLongPath`, `Restart` | 1007-1016, the path longer than `g_unroll` |
| `GiveUp`, `Succeed`, `Continue` | 1017-1026 and the next turn |

What a simulation logs is any set of targets, and `find_next_cfg` may succeed
at any clock of the last step, claiming at most one target (`Claims`: each branch
is the first of its own block, so a branch names at most one target). These are
over-approximations of what a design allows: safety proved here holds for every
design. A simulation is taken to succeed.

`AfterStack` models what `build_stack` does with a clock: it reads until it
meets the mark after `g_sim_clk`, ignoring the end of the file, so that with a log
that is too short it never returns (`"hung"`); and it writes entries of arrays
with `g_unroll + 10` slots, so for a larger clock the program goes on or dies
(`"crashed"`, a nondeterministic choice). `LastMark` follows from the generated
testbench: marks at the times 2, 10, 20, ... up to `$finish` at 12 * UNROLL + 7.

The targets of `branch_id` are taken to be distinct, as `dump_branch_id` writes
them.

### BranchFlip, MCBranchFlip

The design is a one-process machine given by constants: `Log[r, i]`, the
branches it takes in register state `r` with input vector `i`, and `After[r,
i]`. `Build` is the constraint stack of a run: clock, branch, index on the
stack, and the running hash before it, computed as `update_path_hash_map` does,
modulo `HashModulus`. `PrefixKept` compares what stands on the stack before a clock (`BeforeClock`). The
solver is exact: a context is a set of assertions
"branch b at index k in clock c", a model any input sequence whose run
satisfies them. Assignments are functions of the branches before them, and
their constraints are left out for this reason.

`find_next_cfg` is split at every point where the context changes:
`Collect` (candidates, window, ranking, order), `AssertPrefix`, `DumpError`
(`smt_yices_dump_error`, which resets the context), `AssertMutated`,
`CheckSatisfiability` (which resets it again), `Solve`. `Judge` and `Restart` are
the part of the driver that decides what path the next iteration gets. The ranking
script may list any set of branches: `sortBranches` drops the others, and the
order is then the one of `compare_dist`, with ties in any order, because
`std::sort` is not stable.

Because the model is exact, `check_satisfiability` cannot fail in it and the
branch of `Solve` without a model is never taken in a run; both are kept where
they cost nothing, and `StepCoverage` has the action `FlipUnsat` for terms that
are not exact.

`MCBranchFlip` has the design: a two-state process in which the trace reveals
the input in one state only, so that the solver has a choice in the other.

### SsaVersions, MCSsaVersions

`build_stack` replays the log in order: an executed statement (`;A`) makes a
term over the versions of its signals that are current when its line is read, a
mark (`;_C`) moves the versions. Whether a term speaks of the values the
statement read is a question of two orders of events, so the module runs the
simulator and the reader side by side. There are no values: a value is known by
the version of the assignment that made it (`sim`, `pend`, `simIn`), and the
reader has its own idea of it (`curr`, `next`, `inVer`).

| Action | Code |
|---|---|
| `Run`, `Step`, `EndRun` | a process woken executes steps of its `Body` (each may be skipped: the other branch); its line is read by `create_constraint`, which calls `update_term` |
| `Branch`, `NonBlocking`, `Blocking` | the three `update_term`; an assignment gets the next version, a blocking one (`is_commit`) commits it |
| `Mark` | `$strobe(";_C")` at the end of the time of the edge; `set_input_version`, `commit_versions` |
| `Apply` | assignments emitted as `<= #1` take effect one time unit later |
| `InputChange` | inputs are assigned `<= #5` |
| `Posedge` | the next edge |
| `Restored`, `Kept` | the second making of terms in `find_next_cfg`: `restore_versions`, then the constraints of the clock without those of other edge-triggered processes |

The processes are external to src/ (the simulator runs them); that processes of
one time run in any order, and that a change may or may not wake a process, are
the freedoms the simulator has or the values would decide. A design is given by
`Body`, `Sensitive` and `EdgeProcs`. The event control of an edge-triggered process
may list edges of several signals (event.cpp 27-47), as `posedge clk or posedge
rsts` does in `test/memctrl-T100/src/mc_timing.v` (359); `Sensitive` has those beside the
clock, and their change may wake the process a second time in the clock, in
`Apply`, `InputChange` or after a blocking assignment. Such a process assigns without
blocking, and its assignments become current at the next mark only, although they
take effect one time unit later: `Stale` names the registers concerned, for
which `ReadsCurrent` promises nothing until that mark. An edge is not told from a
change, which lets a process run more often than it would. `MCSsaVersions` has a
design in the usual style, one of whose registers is also assigned at an edge of
the other.

### ActionRanking

`find_next_cfg` starts `DQN_sort.py` before it chooses a branch and
`DQN_update.py` after it has flipped one, and ignores how they end. What they
share is four kinds of files, which are the variables: `data.state` (`dataState`),
`state_now.txt` (`stateNow`), `sorted_branch_list.txt` (`list`) and the
parameters of the two networks (`qNet`, `tNet`). A file is known by the flip it
speaks of and by the number of registers it is for (`dim`), with `Absent` for
none and `Broken` for one that cannot be read. `home` says whether the program
runs in the one directory whose list it reads (the path is absolute).

| Action | Code |
|---|---|
| `GetState` | `get_state("data.state")` at the start of `DQN_sort.py`, which saves `state_now.txt`; without a readable `data.state` the script is over |
| `Rank` | networks made and loaded, all ids listed and written |
| `FlipNothing`, `Flip` | `sortBranches` drops what is not listed; a flip prints reward, action and the registers of its clock |
| `Load` | `np.loadtxt('state_now.txt')`, networks made and loaded |
| `Observe`, `Learn`, `SaveTarget` | `get_state` again, `DQN.update`, the two `torch.save` |
| `Kill` | a script is interrupted at any step; a file it is writing may stay cut |
| `RunAgain`, `RunClean` | the program is run again, the second time after `make clean`, which leaves `data.state` |

The initial files are any an earlier run, another benchmark or a checkout may
leave. `state_now.txt` may be of another print-out than `data.state`
(`OtherPrint`), as it is when a `DQN_sort.py` was killed before it saved, or when
one of the two was copied. `SaveTarget` is one step with the first `torch.save` before it and the
second in it; the copy of `q_net` when `count % target_update = 0` happens in
memory before both, which no file shows. Weights, rewards and the order of the
list are left out: the order is lost anyway when the search sorts by distance.

### CoverageScripts

`select_branch.py` gives twenty tasks to a pool; each goes to a directory of its
own with `chdir`, writes `data.mem`, runs the simulator and at the end writes
`temp`. `worker` has for each process the directory it is in (a sequence: names
are relative and a worker that is used again starts where it was left), its
place in `f` and its count. `inputs` and `results` are the files `data.mem` and
`temp` of every directory. `Take`, `Kill` and `Return` are what
`multiprocessing.Pool` does: a dead worker is replaced, its task is not given
out again.

`random_coverage.py` is `Iterate` and `RunOut`; `newline` says whether the file
`branch_id` ends its last line, because the script cuts the last character of
each line whatever it is.

### CfgBuild, Distances

`CfgBuild` makes the graph as the statement walkers do while they print a
process. A process is any sequence of statements the grammar allows: `open` is
the nesting of conditionals and cases the walkers' recursion stands in, and each
action is the piece of a walker between two recursive calls.

| Action | Code |
|---|---|
| `OpenIf`, `Else`, `EndIf` | `emit_stmt_condit` up to the true statement, between the two statements, after the second |
| `OpenCase`, `Item`, `EndItem`, `EndCase` | `emit_stmt_case`: before the loop, an item or the default, after its statement, the end |
| `Assign` | `add_assign`: whether a block holds assignments is all that matters |
| `NextProcess` | `emit_process`; the first is `g_comb_process` |

`flow` is a history variable, the transfers of control the Verilog code has: the
edges, and the way past a case without default.

`Distances` continues with `phase`: `SelectTargets` (`select_target` and the
queue of `edge_realignment`), `Realign` (one block of that queue: `Enable` is
`SMTBranch::update_edge`, with what the solver finds as a choice, `GoUp` the way
to the idom), `Measure`, `Relax`, `NextTarget` (`update_all_distances` and
`update_distance`; one step is one block of `bb_queue`), `Circular`
(`make_circular`). A set of pointers is gone through in any order (`Orders`).

### TestVectors, InputPlan

`InputPlan` says what test vectors are for: in every clock every input has a
value. Some plans are kept, one is in hand and is driven. It is lengthened, and
where it is a kept one, that one with it; begun afresh; cut after a clock and
corrected by what the solver says of the clocks that are left, which makes a new
plan of it; left; or given up for a kept one, as that was left. Nothing else
happens to it.

`TestVectors` has the strings: an input is a range of positions counted from the
right (`add_input`), `Modify` replaces characters, `Update` goes through
`model.log`, whose clocks count from 1 where lines count from 0, `Intercept`
cuts, `Connect` appends a chunk of `Generated`, `Driven` is the range the
generated testbench reads. The plan is read from the file `data.mem` (`ram`), so that
the refinement says what the simulation gets.

Paths are objects, as in `StepCoverage`: `kept` has the data of those of the random
phase, which closest paths point to, and `hand` says which one is in hand. A
path the search makes (`Fresh`) has a copy of its data.

| Action | Code |
|---|---|
| `Explore` | `explore_one_step` at the start of `concolic_iteration`: the path in hand is lengthened in place, whichever it is and however long it has become |
| `Unsat`, `Flip` | an alternative tried in vain or with a model |
| `Fail` | no alternative is left: `concolic_iteration` returns `NULL`, and the path stays lengthened |
| `Restart` | `ClearPath` and one step, when a path of the search is longer than `g_unroll` |
| `TakeUp` | the next search begins: the closest path of its target is dumped, as earlier searches have left it |

A search may begin between any two iterations in the model, and with any kept path:
when it does depends on coverage, which is `StepCoverage`'s, and taking up more
often adds behaviours only. A path that stays in hand (998, `closest_path`
equal to `path`) is not taken up, and needs no step. `TakeUp` is about the file:
how many of its lines the simulation has room for is set by `update_vvp`, which
only `explore_one_step` calls (see section 6).

## 4. What the runs check

| Run | Instance | Shows |
|---|---|---|
| `lists` | 3 targets, 2 random paths, UNROLL 3, STEP 1, limit 1 | `TypeOK`, `OnOneList`, `SearchedIsFront`, `CoveredListFlagged`, and that the driver implements the contract |
| `long` | 1 target, 1 path, UNROLL 50, STEP 5 (test/b14), limit 2, fair | `LostOnlyByReuse`, `SearchEnds` |
| `search` | the design, UNROLL 3, STEP 2, 3 searches | `TypeOK`, `StackIsOfPath`, `PathGrows`, `PrefixKept`, `NeverTwice` |
| `ends` | the design, UNROLL 1, STEP 1, fair | `RunsOut` |
| `style` | two registers, one of them also assigned at an edge of the other, and a combinational process, 1 clock and the edge after it | `TypeOK`, `ReadsCurrent`, `EdgeInputsCurrent`, `TermsRemade` |
| `ranking` | branches 0 and 3 with branch_dim 2, 3 registers, 3 flips, 2 kills, 1 restart | `TypeOK`, `LostLessons`, `LearnsConsecutive`, `StarvedForGood` |
| `scripts` | 2 workers, 3 tasks of 2 simulations, 1 kill; 2 listed branches of 3 | `TypeOK`, `ReadsOwnInputs`, `ResultsCounted`, `RandomReports`, `ReturnsUnlessKilled` |
| `graph` | graphs of up to 7 blocks, measured up to 5, 2 processes, 2 blocks with assignments, 1 or 2 targets | `TypeOK`, `IdomDominates`, `FlowIsKnown`, `RealignOnce`, `DistanceIsShortest`, `Terminates` |
| `vectors` | inputs of 1 and 2 bits and `__obs`, 2 random paths, STEP 2, UNROLL 3, paths of up to 6 clocks, 3 models | `TypeOK`, `CountsAgree`, `ObsAlternates`, `DrivesThePlan` |

What the four runs added last say of the code:

- `ranking`. The search and the scripts restore each other's files: from any files,
  at most one flip is not learned from, beside those that cannot be
  (`excused`: a branch beyond `branch_dim`, a print-out without values) and one per
  killed script, as long as the networks saved fit the design. Three conditions
  of `LostLessons` are the program's own limits: a saved network of another size, or
  one cut off by a kill, makes every later script fail (`NetsFit`); a design
  with one register never learns, because `np.loadtxt` gives a number without a
  length; the count is of one run of the program. `LearnsConsecutive` holds from any
  files while no script is killed: the ranking before a flip has always written
  `state_now.txt` anew. It holds with one killed script too, if the earlier print-out
  was made since the program was first started, because the update after it has
  written the same file; it does not hold for a `state_now.txt` left behind, nor
  with two killed scripts. `StarvedForGood`: in a checkout without
  `sorted_branch_list.txt` and `data.state` the search never flips a branch; both must
  be put there by hand.
- `scripts`. `ResultsCounted` says of every task, at every moment, which results
  there are: one if the task has ended without an exception, in a directory of its
  name, and none if it waits, runs, has failed or was killed. The result counts only
  if the task was the first of its process: the directory of a later one is made
  below that of the first, from where `../../conc_run.vvp` is no longer the
  simulation.
- `graph`. In a whole realignment no block is taken up twice (`RealignOnce`; a
  target is, if it is listed twice), whatever cycles of enabling blocks the edges
  make. The distances are right although blocks may leave the queue early,
  also for loops of blocks with weight zero; a case without default is
  covered by the idom of its exit only. The edges of `make_circular` never count,
  as it is called after the distances are kept.
- `vectors`. `__obs` was meant to change in every clock; it does, except where
  a path that was cut after an odd number of clocks is lengthened
  (`ObsAlternates` says exactly where). `DrivesThePlan` holds over whole runs of
  searches: a random path that failing searches have lengthened drives, when it is
  taken up again, what it drove when it was left, whatever was written to
  `data.mem` in between.

Runs that find a violation, each a disagreement of the program with its own
text (PROJECT.json, "findings"):

| Run | Property | Disagreement |
|---|---|---|
| `slots` | `ClockInSlots` | the bound asserted by `is_covered_clk` is passed |
| `context` | `MutatedInContext` | the solver is never asked for the mutated branch |
| `early` | `InputsOfRun` | terms of level-sensitive processes name inputs that have not changed yet |

`context` is the most consequential: the context in which the solver answers
holds the old trace and nothing else. Its answer is an input with the same trace,
so that new coverage comes from the random vectors of `explore_one_step`. The
other properties of `BranchFlip` hold both with the code as it is and with a
context that held the mutated branch.

Five more disagreements of the code with its text were met while modelling, and no
run checks them: `find_next_cfg` raises the coverage flag (735) before, and
without, the simulation that takes the branch, against the check at 907-910; a
target covered by the simulation of the last restart is filed as uncovered,
because the limit (1017) is tested before the flag (1022); `data.mem` does not hold
the solution at the end, as `src/README` says, because later targets overwrite
it; the terms of a process that runs twice in a clock name versions that are no
longer read, the case the comment at smt_lib.cpp 1482-1485 calls fixed, while the
code that fixed it is commented out (1486-1489); and `count`, which DQN_net.py (91)
says records the number of updates, is 0 in every process that reads it, so that
`target_update` (90, the update frequency of the target network) has no
effect. The models have the code's behaviour in all but the third, which is what
every simulation does: the fourth is the exception `Stale` of `ReadsCurrent`, the fifth
is `Count` of `ActionRanking`.

### Bounds

- `lists`: three targets are the least that let one be removed from the middle
  of the list while another is searched for; two random paths let two targets
  share one and a third have another; UNROLL 3 with STEP 1 leaves room for a path to
  grow, be cut and grow again, and for the log to be too short. `TotalLimit` is
  10 in the code; 1 and 2 reach every branch, and the theorems hold for all values.
- `long`: the values of a benchmark, so that the slots (60), the longest path
  and the last mark (61) stand as they do in the program.
- `search`: STEP 2, so that a path can be cut inside its last step; UNROLL 3,
  so that paths are cut by the restart too. `MaxFlips` (a constant, named as a
  bound) is 3: the same prefix can be met in three searches.
- `ends`: paths of two clocks, restarted after every search, make four
  searches at most; `MaxFlips` is 5 and never reached, which the run itself
  shows: at the bound a behaviour stops without satisfying `RunsOut`.
- `style`: `MaxClock` 1 has the edge before the first mark, the whole of clock 1
  and the edge that ends it; later clocks differ from it by the numbers of the
  versions only. Register `q` is assigned at an edge of `r` too, so that it can be
  assigned twice in a clock and read in between. At the bound `Mark` is disabled and the run stops, therefore
  `CHECK_DEADLOCK FALSE`. Register `r` is assigned twice by its process, which is
  what makes a pending assignment be overtaken. `early` needs two clocks.
- `ranking`: one branch that the scripts list and one beyond `branch_dim`; three
  flips, so that a lesson can follow a lost one; two kills, so that
  `LearnsConsecutive` has states where it promises something and others where it does
  not; a restart, for the files one run
  leaves to the next; 3 registers, so that a file for fewer and a cut file
  differ from it. `MaxFlips`, `MaxKills`, `MaxRestarts` are bounds; the theorems hold
  for all values.
- `scripts`: a task more than there are workers makes one of them be used
  twice (the code has twenty of both, and a fast worker takes a second task when
  another process is slow to start), two simulations make
  an exception between them possible. `Twenty` is 2, the number of listed ids.
- `graph`: seven blocks allow a conditional in a conditional or in a case; the
  edges `Enable` adds make every cycle of the blocks that have assignments, which two
  are enough for. Graphs are realigned and measured up to `MaxMeasured` 5 blocks,
  for `MaxTargets` 2 targets at most: the second is measured over the distances of
  the first, and two are enough for a block listed twice.
- `vectors`: UNROLL 3 with STEP 2, so that a path can be cut at an odd clock and
  lengthened again. `MaxClk` 6 lets a random path be lengthened past UNROLL by two
  failing searches, which is where the program has no limit; at the bound `Explore`
  is disabled, therefore `CHECK_DEADLOCK FALSE`. Two random paths, for one that is
  left while another is in hand; three models of one input value each (`MaxFlips`,
  `MaxSaid`), for a later one corrects what an earlier one has cut. `Random` is one
  chunk of lines that differ, as only that matters; the theorems hold for any
  set of chunks. STEP is even, as in the benchmarks (assumption
  `VectorsAssumption`; with an odd STEP `__obs` repeats between all chunks).
- `HashModulus` 4096 stands for 2^32. The hash weights make different paths
  have different hashes mostly; `NeverTwice` does not depend on it. It does depend on
  the shape of the process (`OneBeginning`, see section 5), which
  `MCBranchFlip` assumes of its design and TLC evaluates.

### Fairness

`FairSpec` of `StepCoverage` and `BranchFlip` is weak fairness of the whole next-state relation:
the program is one thread which waits only for the simulator (which ends
because of `$finish`) and the solver (quantifier-free bit vectors). Nothing is
assumed about which outcome of a search occurs. A driver in `"hung"` is counted
as stopped in `SearchEnds`: the property says that the loops of `step_coverage`
do not turn for ever, `LostOnlyByReuse` says when the driver is lost.

`Distances` has weak fairness of each step of the driver, for the same reason; how
a process is written (`Build`) is not forced. `CoverageScripts` has weak
fairness of every worker: they are processes the operating system runs, and a
worker only waits for its own simulation; `Kill` and `Fail` are not forced.
`ReturnsUnlessKilled` excuses the runs in which a worker was killed, in which
`starmap` does wait for ever.

## 5. What is proved

`StepCoverageProofs`, from `DriverAssumption` (all parameters positive):

- `TypeCorrect`, `EveryTargetOnOneList`, `SearchedStaysFront`,
  `CoveredListIsFlagged`, by the inductive invariant `ListsInv`. `OnOneList`
  is not inductive: `GiveUp` pops the front and pushes `target`, so they must be
  known to be the same (`SearchedIsFront`); that needs the give-up branch to be
  left for good, and the type of `simNum` needs `RestartsLeft`: while the
  inner loop goes on the count is below the limit. `PathInHand` says that there is a
  path wherever it is used.
- `LostOnlyOnReusedPath`, by `PathInv`: where a step is about to be added, a
  path the search made is at most UNROLL long, so it fits if UNROLL + STEP
  does (`StepFits`, the antecedent of the property; it holds for b14 and not for
  the benchmarks with STEP=10, for which nothing is promised).
- `DriverImplementsContract`: each action is a step of `CoverageContract` or
  stutters. Actions that leave the lists alone are `Flag` (lemma
  `ContractFlag`), those that move covered targets are `Cover`
  (`ContractCover`), and `GiveUp` is `GiveUp` because the front is the least
  pending target.

`BranchFlipProofs`, from `DesignAssumption` (the design is a function of its
state and inputs and has a branch; the bounds are positive), for every design,
hash table, ranking, order of equal candidates and answer of the solver:

- `SearchLengthensPath` (`PathGrows`), by `WindowInv`: the clock is in the
  window from the time the alternatives are collected, and the length of the new
  path is fixed when `g_data_step` is cut, before the solver answers.
- `TypeCorrect` and `StackBelongsToPath` (`StackIsOfPath`), by `BuiltInv`: path,
  `clk` and stack are changed in four actions, and while alternatives are
  tried each is a place of the stack, within the path (`OnStack`), and
  `g_data_step` is the path cut at the clock of the one in hand.
- `ModelsKeepThePrefix` (`PrefixKept`), by `AskedInv`: when the solver is asked, the
  context is the whole old trace. An assertion names a branch by its index, and
  the index less the clock, which counts the marks, is its place in the
  trace (lemma `AssertedPlaces`). A model whose run has these assertions
  therefore repeats the trace, in the same clocks and with the same running
  hashes (`ModelKeepsPrefix`).
- `NothingIsTriedTwice` (`NeverTwice`), under `OneBeginning`: every clock begins with
  a branch of one statement, and no later branch of the clock is one of it.
  `FollowedInv` says that every branch sequence executed or selected has
  its hash in `path_hash_map`, and that the alternatives waiting are not in it. The
  hash is a sum weighted with indices, and indices count the marks between the
  clocks, so that a sequence has one hash only if it shows where the clocks
  begin (`WeighedOnce`). The hypothesis is needed: with a clock that logs
  nothing, TLC finds a sequence that is spread over other clocks, has another hash
  and is selected again. A process with one `if` or `case` at its head satisfies
  it. Collisions of hashes only make the search try less.

`SsaVersionsProofs`, from `DesignAssumption` (the design is well formed), for every
number of signals, processes and clocks:

- `TypeCorrect`.
- `TermsReadCurrent` (`ReadsCurrent`), for designs that follow the coding rule
  (`Disciplined`: edge-triggered processes assign without blocking, others with
  blocking, and no signal is assigned by both kinds), with processes of either kind
  woken again after the mark. `ReadsCurrent` is not inductive, as it says nothing
  between the mark and the time assignments act. `VersionInv` says for each phase
  where the reader stands: at the edge `next` runs ahead to the assignment pending
  (`AtEdge`), after the mark `curr` runs ahead of the value (`AfterMark`; no
  process runs until the assignments have acted, which is why this does no harm),
  afterwards the two agree, except for the registers assigned again in this clock
  (`Settled`, `Stale`), whose value runs ahead of `curr` up to the next mark, also at
  the edge before it. `Logged` says that these are driven by edge-triggered
  processes, so that no blocking assignment makes their newest version current
  too early. `Turns` says which processes can run in which phase. Lemmas
  `EdgeStep` and `LevelStep` treat the steps of the two kinds of process.
- `EdgesReadCurrentInputs` (`EdgeInputsCurrent`), for every design.
- `TermsMadeAgain` (`TermsRemade`), for designs that follow the coding rule and
  have one edge-triggered driver for each signal (`OneDriver`, a rule of
  synthesis). `RemakeInv` carries for each process the replay `find_next_cfg`
  would make of the stack as it stands now (`Replayed`), and says where the versions
  of that replay differ from those of the reader: for signals other edge-triggered
  processes assign, until the mark. With two drivers TLC finds the property violated:
  the constraint left out had taken a version the ones kept are numbered after.

`early` shows that the terms of level-sensitive processes are not as good.

`ActionRankingProofs`, from `RankingAssumption` (counts are natural numbers), for
every number of branches, registers, flips, kills and runs:

- `TypeCorrect` and `StarvedStays`, each by an invariant that is nearly the property.
- `LessonsConsecutive` (`LearnsConsecutive`), by `HandedOn`: as long as the earlier
  print-out is vouched for (`Vouched`: no kill, or one and the print-out is not one
  left behind), after an update `state_now.txt` already is the print-out that the next ranking
  writes there again, or one that the update cannot load. The two scripts each
  write it, so that one of them may be killed. `PrintInv` says which file is about which
  print-out inside a script.
- `FewLessonsLost` (`LostLessons`), which is not inductive, by `BalanceInv`: the
  flips not learned from, excused or paid for by a kill are at most one, and are
  none unless a state an update can use is on disk or in `data.state`; between a
  flip and the end of its update there may be one more.

`DistancesProofs`, from `BlocksAssumption` and `MeasuredAssumption` (the bounds are
natural numbers, those of the graph positive), for any number of blocks, processes, blocks measured
(`MaxMeasured`) and targets (`MaxTargets`):

- `TypeCorrect`. The type of `idom` and of the queue needs that `GoUp` tests for
  an entry block.
- `NoFlowMissed` (`FlowIsKnown`), by `FlowInv`: the exit block of every
  open statement, at each level of nesting, already has the block the statement
  began in as its idom (`Awaited`), which is what makes up for the missing edge
  when a case without default is closed.
- `ListsAreShortest` (`DistanceIsShortest`). First, when the queue has run empty
  the distances solve the target's equations, by `BalanceInv`: a step of
  the graph that would shorten a distance starts at a block that is in the queue,
  and a distance is never less than what some block it leads to accounts for
  (`Accounted`), although that block's own distance may have shrunk since.
  `RelaxStep` says what one block does to queue and distances, whatever order its
  predecessors are gone through. Then, solutions of the equations are the
  shortest distances. That they are lower bounds is an induction over the steps
  of a walk; that they are reached needs `WalkInv` (every distance under way is the
  cost of a walk) and a count: the sets of blocks reached at their distance
  within k steps grow until they stop, which is before there are more steps than
  blocks. `ListsInv` keeps it for the targets measured before.
- `IdomIsDominator` (`IdomDominates`), by `DomInv`: control goes to a block only
  from blocks below its idom in the tree (`Nested`), and the printing only goes
  down the tree, as the statements stand in each other (`Settled`, `Inside`).
  From this, removing the idom of a block cuts the block off: the blocks below
  the idom are never entered from outside. `NumInv` says that blocks not made yet
  have no edges.
- `TakenUpOnce` (`RealignOnce`), over the whole of an `edge_realignment`: `taken` is a
  history variable, the blocks taken from the queue so far. By `OnceInv`, what was
  taken up and what waits, one after the other (`All`), has been marked
  `is_edge_updated` at one of the three places that put blocks there, no mark is ever
  taken off, and all are different, a target that is listed twice excepted.

`CoverageScriptsProofs`, from `ScriptsAssumption`, for every number of workers,
tasks, simulations and kills:

- `TypesHold`, `OwnInputsHold` (`ReadsOwnInputs`), `ResultsHold`
  (`ResultsCounted`, of every task in every state) and `ReportsHold` (`RandomReports`), by the invariant `Inv`. Two
  workers never share a directory although `chdir` is relative and never undone,
  because the names on a worker's path are tasks it has taken itself (`Apart`), a task
  being taken once (`OneTask`). `Placed` and `Saved` say that a task's result lies
  in a directory of its name, is the only one, and is there exactly when the task
  has ended without an exception, `Counting` that it counts only in one of the first
  level, from where the simulation is found. `LeftOver` is about what
  `random_coverage.py` has left of `branch_id`.

`TestVectorsProofs`, from `VectorsAssumption` (STEP is even) and `RandomAssumption` (a
chunk has STEP lines of the inputs' width), for every list of inputs, widths, STEP,
UNROLL, number of random paths and of models, and whatever chunks `rand` gives:

- `TypesHold`, `CountsHold` (`CountsAgree`) and `ObsChanges` (`ObsAlternates`), by
  `VectorInv`. `CountsHold` needs that a kept path in hand and the object it was
  taken up from are lengthened together. `ObsAlternates` needs to know how a path
  ends (`LastObs`): with `__obs` at 1 unless it was cut there, so that what is put
  after it alternates; and that kept paths are never cut (`Uncut`), so that taking one
  up brings back no repetition.
- `VectorsDriveThePlan` (`DrivesThePlan`): each operation on lines of bits is a step
  of `InputPlan`, failing searches (`FailLeaves`) and paths taken up again
  (`TakeUpResumes`) included. The lemmas say where the bits of an input lie in a
  line, whatever its position, and that correcting, cutting and connecting lines
  move no other input's bits.

`Induction` is a support module and says nothing of the program. It states induction
over sets instead of predicates, which the provers
can use: a set of numbers that has 0 and with each number the next has all
(`AllNaturals`, and `UpTo` for an interval; by the pigeonhole principle, from the
library's theorem on injections), `LeastNumber`, and `Recursion`: a function that is
given by its first value and by what follows from each value exists. The recursive
functions of `BranchFlip`, `TestVectors`, `Distances` and `CfgBuild` are reasoned about
through them.

Only model-checked: liveness (`SearchEnds`, `RunsOut`, `Terminates`,
`ReturnsUnlessKilled`), because fairness and ENABLED are out of the reach of
TLAPS; and the three properties that are violated. All other properties of the
runs are theorems, two of them with a hypothesis on the design that the
instances of the runs satisfy (`NeverTwice`, `TermsRemade`).

## 6. What is not modelled

- No property speaks of the simulation in `TakeUp`, though `StepCoverage` has the
  step: the stack rebuilt there is read up to `g_sim_clk`, the clock of the last
  simulation of the target before, and the simulation has room for as many lines
  of `data.mem` as that one (`update_vvp`). It is counted among the hazards; the stack
  is not used before `explore_one_step` builds another. That `data.mem` is the path
  taken up is `CountsAgree` of `TestVectors`.
- `concolic_iteration` called without a path: the first search after a failing one, if
  its target had no closest path. It has one whenever a random simulation
  logs a branch (see below).
- Text: the emitted Verilog, the testbench, logs and reports.
- `multi_coverage`: not called.
- The numbers of the DQN: the search takes any ranking. `DQN_init.py`, 12508 lines,
  is a dump of weights that both scripts import and no code uses; it has no
  behaviour to model, so that the share of the Python lines that is modelled is
  small, although the other Python files are modelled to the end.
- Failures of the simulator (`system("vvp ...")`) and of the files it reads; those
  of the ranking scripts are modelled.
- Terms (`get_expanded`, the cached terms): a tree rewriter whose model would
  be as long as itself.
- `numbers.cpp`: pure conversions.
- Hash collisions: `NeverTwice` holds whatever collides; what is hidden is not asked.
- The closest paths (`update_closest_path`): a choice in `StepCoverage`, which gives
  every target a path, and in `TestVectors`, which lets any random path be one. In the
  code every target gets one with the first random simulation that logs a branch:
  `closest_path_distance` starts at the distance of a block that is not connected,
  and equal distances are decided by the clock.
- Of the versions: assignments to a bit (which read the next version), arrays
  (committed at once whatever the assignment), initial values.
