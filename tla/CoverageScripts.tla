-------------------------- MODULE CoverageScripts --------------------------
(***************************************************************************)
(* The two scripts that cover a design without the search:                 *)
(*                                                                         *)
(*   select_branch.py    a pool of worker processes; each task runs        *)
(*                       random simulations in a directory of its own and  *)
(*                       leaves a file "temp" of the branches counted;     *)
(*   random_coverage.py  random simulations until the branches of          *)
(*                       branch_id are covered.                            *)
(*                                                                         *)
(* They run side by side.  A directory is known by the names on the way to *)
(* it from the one the pool is started in: << >> is that one, << t >> the  *)
(* one of task t.  Names are relative, and a worker stays where its last   *)
(* task has gone.                                                          *)
(***************************************************************************)
EXTENDS Integers, FiniteSets, SequencesExt

CONSTANTS
  Workers,       (* Pool(20)                                                *)
  Tasks,         (* dirs: the numbers 1 .. 20                               *)
  Simulations,   (* range(5000)                                             *)
  Ids,           (* the lines of branch_id                                  *)
  LastId, CutId, (* its last line, and that line without its last character *)
  Branches,      (* what a simulation can cover                             *)
  Iterations,    (* int(10000000/(cycle - 1))                               *)
  Twenty,        (* 20                                                      *)
  MaxKills       (* bound: workers killed                                   *)

ASSUME ScriptsAssumption ==
  /\ Tasks \in SUBSET Nat /\ IsFiniteSet(Tasks)
  /\ Simulations \in Nat \ {0}
  /\ Ids \subseteq Branches /\ LastId \in Ids
  /\ IsFiniteSet(Ids)
  /\ Iterations \in Nat
  /\ MaxKills \in Nat

VARIABLES
  queue,         (* tasks no worker has taken                               *)
  ended,         (* tasks whose result or exception the pool has            *)
  failed,        (* tasks that raised an exception                          *)
  worker,        (* of each worker: task, directory, place in f, count i    *)
  inputs,        (* data.mem of every directory: the task that wrote it     *)
  results,       (* temp of every directory: its task, and if it is empty   *)
  returned,      (* starmap has returned                                    *)
  kills,         (* history: workers killed                                 *)
  ids, newline,  (* the set branch, and whether branch_id ends its lines    *)
  iteration,     (* i of random_coverage.py                                 *)
  stopped,
  covered        (* history: branches of Ids covered by a simulation        *)

pool == << queue, ended, failed, worker, inputs, results, returned, kills >>
random == << ids, newline, iteration, stopped, covered >>
vars == << pool, random >>

None == -1
Nowhere == [task |-> None, counted |-> FALSE]

Dirs == UNION {{d \in [1 .. n -> Tasks] : IsInjective(d)} :
                 n \in 0 .. Cardinality(Tasks)}

Idle == [task |-> None, cwd |-> << >>, at |-> "idle", i |-> 0, counted |-> FALSE]

Init ==
  /\ queue = Tasks
  /\ ended = {}
  /\ failed = {}
  /\ worker = [w \in Workers |-> Idle]
  /\ inputs = [d \in Dirs |-> None]
  /\ results = [d \in Dirs |-> Nowhere]
  /\ returned = FALSE
  /\ kills = 0
  /\ newline \in BOOLEAN
  /\ ids = IF newline THEN Ids ELSE (Ids \ {LastId}) \cup {CutId}
  /\ iteration = 0
  /\ stopped = FALSE
  /\ covered = {}

-----------------------------------------------------------------------------
(* Tasks are handed out one by one, in their order. *)
Take(w) ==
  /\ worker[w].at = "idle"
  /\ queue # {}
  /\ LET task == CHOOSE t \in queue : \A u \in queue : t <= u
     IN  /\ queue' = queue \ {task}
         /\ worker' = [worker EXCEPT ![w].task = task, ![w].at = "enter"]
  /\ UNCHANGED << ended, failed, inputs, results, returned, kills, random >>

(* Broken: the worker does not change its directory. *)
InNoDirectory(cwd, task) == cwd

InDirectory(cwd, task) == Append(cwd, task)

(* rmtree, mkdir and chdir of a name that is relative *)
Enter(w) ==
  /\ worker[w].at = "enter"
  /\ LET dir == InDirectory(worker[w].cwd, worker[w].task)
         gone == {d \in Dirs : IsPrefix(dir, d)}
     IN  /\ worker' = [worker EXCEPT ![w].cwd = dir, ![w].at = "write",
                                     ![w].i = 0, ![w].counted = FALSE]
         /\ inputs' = [d \in Dirs |-> IF d \in gone THEN None ELSE inputs[d]]
         /\ results' = [d \in Dirs |-> IF d \in gone THEN Nowhere ELSE results[d]]
  /\ UNCHANGED << queue, ended, failed, returned, kills, random >>

WriteInputs(w) ==
  /\ worker[w].at = "write"
  /\ inputs' = [inputs EXCEPT ![worker[w].cwd] = worker[w].task]
  /\ worker' = [worker EXCEPT ![w].at = "simulate"]
  /\ UNCHANGED << queue, ended, failed, results, returned, kills, random >>

(* Broken: an empty output counts as a simulation. *)
AnyOutput(cwd) == TRUE

(* ../../conc_run.vvp is a program only from a directory of the first level;
   vvp prints nothing if there is none. *)
Prints(cwd) == Len(cwd) = 1

(* Broken: one simulation more than the range has. *)
SimulateOnceMore(w) ==
  /\ worker[w].at = "simulate"
  /\ worker' = [worker EXCEPT ![w].i = @ + 1,
                              ![w].counted = @ \/ Prints(worker[w].cwd),
                              ![w].at = IF worker[w].i < Simulations
                                        THEN "write" ELSE "save"]
  /\ UNCHANGED << queue, ended, failed, inputs, results, returned, kills, random >>

Simulate(w) ==
  /\ worker[w].at = "simulate"
  /\ worker' = [worker EXCEPT ![w].i = @ + 1,
                              ![w].counted = @ \/ Prints(worker[w].cwd),
                              ![w].at = IF worker[w].i + 1 < Simulations
                                        THEN "write" ELSE "save"]
  /\ UNCHANGED << queue, ended, failed, inputs, results, returned, kills, random >>

Free(w) == [worker EXCEPT ![w].task = None, ![w].at = "idle"]

Save(w) ==
  /\ worker[w].at = "save"
  /\ results' = [results EXCEPT ![worker[w].cwd] =
                   [task |-> worker[w].task, counted |-> worker[w].counted]]
  /\ ended' = ended \cup {worker[w].task}
  /\ worker' = Free(w)
  /\ UNCHANGED << queue, failed, inputs, returned, kills, random >>

(* Broken: the exception ends the worker without telling the pool. *)
FailUnheard(w) ==
  /\ worker[w].at = "simulate"
  /\ Prints(worker[w].cwd)
  /\ failed' = failed \cup {worker[w].task}
  /\ worker' = Free(w)
  /\ UNCHANGED << queue, ended, inputs, results, returned, kills, random >>

(* A line without a word: spt[0] raises IndexError, the task is over. *)
Fail(w) ==
  /\ worker[w].at = "simulate"
  /\ Prints(worker[w].cwd)
  /\ failed' = failed \cup {worker[w].task}
  /\ ended' = ended \cup {worker[w].task}
  /\ worker' = Free(w)
  /\ UNCHANGED << queue, inputs, results, returned, kills, random >>

(* A worker that dies is replaced by a new process; its task is not. *)
Kill(w) ==
  /\ kills < MaxKills
  /\ kills' = kills + 1
  /\ worker' = [worker EXCEPT ![w] = Idle]
  /\ UNCHANGED << queue, ended, failed, inputs, results, returned, random >>

(* starmap returns, or raises the first exception, when all tasks ended. *)
Return ==
  /\ ended = Tasks
  /\ ~ returned
  /\ returned' = TRUE
  /\ UNCHANGED << queue, ended, failed, worker, inputs, results, kills, random >>

-----------------------------------------------------------------------------
(* Broken: the loop ends with the first branch covered. *)
AnyCovered(left) == left # ids

AllCovered(left) == left = {}

(* One random simulation; what it covers is removed from the set. *)
Iterate(hit) ==
  /\ ~ stopped
  /\ iteration < Iterations
  /\ covered' = covered \cup (hit \cap Ids)
  /\ ids' = ids \ hit
  /\ stopped' = AllCovered(ids \ hit)
  /\ iteration' = iteration + 1
  /\ UNCHANGED << newline, pool >>

RunOut ==
  /\ ~ stopped
  /\ iteration = Iterations
  /\ stopped' = TRUE
  /\ UNCHANGED << ids, newline, iteration, covered, pool >>

(* "{} branches covered" *)
Printed == Twenty - Cardinality(ids)

Next ==
  \/ \E w \in Workers :
       Take(w) \/ Enter(w) \/ WriteInputs(w) \/ Simulate(w) \/ Save(w)
               \/ Fail(w) \/ Kill(w)
  \/ Return
  \/ \E hit \in SUBSET Branches : Iterate(hit)
  \/ RunOut

(* Workers are processes of their own; one that has a task goes on with it. *)
Fairness ==
  /\ \A w \in Workers :
       WF_vars(Take(w) \/ Enter(w) \/ WriteInputs(w) \/ Simulate(w) \/ Save(w))
  /\ WF_vars(Return)

Spec == Init /\ [][Next]_vars /\ Fairness

-----------------------------------------------------------------------------
(***************************************************************************)
(* Properties.                                                             *)
(***************************************************************************)
Files == [task : Tasks \cup {None}, counted : BOOLEAN]

TypeOK ==
  /\ queue \subseteq Tasks
  /\ failed \subseteq Tasks
  /\ ended \subseteq Tasks
  /\ worker \in [Workers ->
       [task : Tasks \cup {None}, cwd : Dirs, i : 0 .. Simulations,
        at : {"idle", "enter", "write", "simulate", "save"},
        counted : BOOLEAN]]
  /\ inputs \in [Dirs -> Tasks \cup {None}]
  /\ results \in [Dirs -> Files]
  /\ returned \in BOOLEAN
  /\ kills \in 0 .. MaxKills
  /\ ids \subseteq Ids \cup {CutId}
  /\ covered \subseteq Ids
  /\ newline \in BOOLEAN
  /\ iteration \in 0 .. Iterations
  /\ stopped \in BOOLEAN

(***************************************************************************)
(* A simulation reads the input its own task has written, although all     *)
(* processes call it data.mem, and none removes it before.                 *)
(***************************************************************************)
ReadsOwnInputs ==
  \A w \in Workers :
    worker[w].at = "simulate" => inputs[worker[w].cwd] = worker[w].task

(***************************************************************************)
(* A task that ended without an exception has left one file "temp", in a   *)
(* directory of its own name, and it has counted there just if that is one *)
(* of the first level, which only the first task of a process gets: what   *)
(* the next one takes ends up below.  A task that waits, runs, failed or   *)
(* lost its worker has left none.                                          *)
(***************************************************************************)
ResultsOf(t) == {d \in Dirs : results[d].task = t}

ResultsCounted ==
  /\ \A t \in ended \ failed : \E d \in Dirs :
       /\ ResultsOf(t) = {d}
       /\ d # << >> /\ Last(d) = t
       /\ results[d].counted <=> Len(d) = 1
  /\ \A t \in (Tasks \ ended) \cup failed : ResultsOf(t) = {}

(***************************************************************************)
(* starmap returns, unless a worker was killed: its task never ends.       *)
(***************************************************************************)
ReturnsUnlessKilled == <>(returned \/ kills > 0)

(***************************************************************************)
(* random_coverage.py stops early just when the listed branches are        *)
(* covered, and the number it prints is the number covered, if branch_id   *)
(* has twenty lines and ends the last one.                                 *)
(***************************************************************************)
RandomReports ==
  stopped /\ newline =>
    /\ iteration < Iterations => covered = Ids
    /\ Cardinality(Ids) = Twenty => Printed = Cardinality(covered)

=============================================================================
