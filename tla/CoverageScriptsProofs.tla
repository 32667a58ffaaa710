----------------------- MODULE CoverageScriptsProofs -----------------------
(***************************************************************************)
(* Proofs about the two scripts, for any number of workers, tasks, kills,  *)
(* simulations and branches.                                               *)
(***************************************************************************)
EXTENDS CoverageScripts, Induction, SequenceTheorems

(* A task no worker has started: it waits, or is about to get a directory. *)
Fresh(t) ==
  \/ t \in queue
  \/ \E w \in Workers : worker[w].at = "enter" /\ worker[w].task = t

(* No two workers are below each other's directories, and no directory in
   use, of a worker or with a result, is on the way of a task to come. *)
Apart ==
  /\ \A v, w \in Workers : v # w =>
       \A t \in Range(worker[v].cwd) : t \notin Range(worker[w].cwd)
  /\ \A w \in Workers : \A t \in Range(worker[w].cwd) : ~ Fresh(t)
  /\ \A d \in Dirs : results[d] # Nowhere => \A t \in Range(d) : ~ Fresh(t)

(* A task is in one place: with one worker, in the queue, or over. *)
OneTask ==
  /\ \A w \in Workers : worker[w].at = "idle" <=> worker[w].task = None
  /\ \A v, w \in Workers :
       v # w /\ worker[v].at # "idle" => worker[v].task # worker[w].task
  /\ \A w \in Workers : worker[w].task \notin queue \cup ended

(* A worker is in the directory of its task. *)
Placed ==
  \A w \in Workers :
    worker[w].at \in {"write", "simulate", "save"} =>
      /\ worker[w].cwd # << >>
      /\ Last(worker[w].cwd) = worker[w].task

(* It counts if it simulates in a directory of the first level. *)
Counting ==
  \A w \in Workers :
    /\ worker[w].at \in {"write", "simulate"} => worker[w].i < Simulations
    /\ worker[w].at = "save" => worker[w].i > 0
    /\ worker[w].at \in {"write", "simulate", "save"} =>
         (worker[w].counted <=> worker[w].i > 0 /\ Prints(worker[w].cwd))

(* A result is of a task that is over without an exception, which has left
   no other one; it counts only in a directory of the first level. *)
Saved ==
  /\ failed \subseteq ended
  /\ \A d \in Dirs : results[d] # Nowhere =>
       /\ d # << >> /\ Last(d) \in ended \ failed
       /\ results[d] = [task |-> Last(d), counted |-> Prints(d)]
  /\ \A d, e \in Dirs :
       results[d] # Nowhere /\ results[e] # Nowhere /\ Last(d) = Last(e) => d = e
  /\ \A t \in ended \ failed :
       \E d \in Dirs : results[d] # Nowhere /\ Last(d) = t

(* What random_coverage.py has left of branch_id. *)
LeftOver ==
  /\ newline => ids = Ids \ covered
  /\ stopped /\ iteration < Iterations => ids = {}

Inv ==
  /\ TypeOK
  /\ Apart
  /\ OneTask
  /\ Placed
  /\ Counting
  /\ ReadsOwnInputs
  /\ Saved
  /\ returned => ended = Tasks
  /\ LeftOver

-----------------------------------------------------------------------------
(* Directories. *)
LEMMA DirFacts ==
  ASSUME NEW d \in Dirs
  PROVE  /\ d \in Seq(Tasks)
         /\ Len(d) \in Nat /\ DOMAIN d = 1 .. Len(d)
         /\ IsInjective(d)
         /\ d # << >> => Len(d) > 0 /\ Last(d) \in Range(d)
BY DEF Dirs, IsInjective, Last, Range

LEMMA FirstDir == << >> \in Dirs /\ Range(<< >>) = {}
<1>1. Cardinality(Tasks) \in Nat
  BY ScriptsAssumption, FS_CardinalityType
<1>2. << >> \in [1 .. 0 -> Tasks]
  OBVIOUS
<1>3. IsInjective(<< >>)
  BY DEF IsInjective
<1> QED
  BY <1>1, <1>2, <1>3 DEF Dirs, Range

(* A directory made for a task that is not on the way to it is one of Dirs:
   no way is longer than the number of tasks. *)
LEMMA MadeDir ==
  ASSUME NEW d \in Dirs, NEW t \in Tasks, t \notin Range(d)
  PROVE  /\ Append(d, t) \in Dirs
         /\ Append(d, t) # << >>
         /\ Last(Append(d, t)) = t
         /\ \A u : u \in Range(Append(d, t)) <=> u \in Range(d) \/ u = t
<1> DEFINE e == Append(d, t)
<1>1. /\ d \in Seq(Tasks) /\ Len(d) \in Nat /\ DOMAIN d = 1 .. Len(d)
      /\ IsInjective(d)
  BY DirFacts
<1>2. /\ e \in Seq(Tasks) /\ Len(e) = Len(d) + 1 /\ DOMAIN e = 1 .. Len(d) + 1
      /\ \A k \in 1 .. Len(d) : e[k] = d[k]
      /\ e[Len(d) + 1] = t
  BY <1>1, AppendProperties
<1> HIDE DEF e
<1>3. \A k \in 1 .. Len(d) : d[k] # t
  BY <1>1 DEF Range
<1>4. IsInjective(e)
  BY <1>1, <1>2, <1>3 DEF IsInjective
<1>5. e \in [1 .. Len(d) + 1 -> Tasks]
  BY <1>2
<1>6. Len(d) + 1 <= Cardinality(Tasks)
  <2>1. e \in Injection(1 .. Len(d) + 1, Tasks)
    BY <1>4, <1>5 DEF Injection
  <2>2. Cardinality(1 .. Len(d) + 1) <= Cardinality(Tasks)
    BY <2>1, ScriptsAssumption, FS_Injection
  <2>3. Cardinality(1 .. Len(d) + 1) = Len(d) + 1
    BY <1>1, FS_Interval
  <2> QED
    BY <2>2, <2>3
<1>7. Cardinality(Tasks) \in Nat
  BY ScriptsAssumption, FS_CardinalityType
<1>8. e \in Dirs
  <2>1. Len(d) + 1 \in 0 .. Cardinality(Tasks)
    BY <1>1, <1>6, <1>7
  <2> QED
    BY <1>4, <1>5, <2>1 DEF Dirs
<1>9. \A u : u \in Range(e) <=> u \in Range(d) \/ u = t
  BY <1>1, <1>2 DEF Range
<1> QED
  BY <1>1, <1>2, <1>8, <1>9 DEF Last, e

(* The last name of a directory is on the way to whatever is below it. *)
LEMMA Below ==
  ASSUME NEW s \in Dirs, NEW d \in Dirs, s # << >>, IsPrefix(s, d)
  PROVE  Last(s) \in Range(d) /\ d # << >>
<1>1. /\ s \in Seq(Tasks) /\ Len(s) \in Nat /\ Len(s) > 0
      /\ d \in Seq(Tasks) /\ Len(d) \in Nat /\ DOMAIN d = 1 .. Len(d)
  BY DirFacts
<1>2. Len(s) <= Len(d) /\ SubSeq(s, 1, Len(s)) = SubSeq(d, 1, Len(s))
  BY DEF IsPrefix
<1>3. SubSeq(s, 1, Len(s))[Len(s)] = s[Len(s)]
  BY <1>1, SubSeqProperties
<1>4. SubSeq(d, 1, Len(s))[Len(s)] = d[Len(s)]
  BY <1>1, <1>2, SubSeqProperties
<1> QED
  BY <1>1, <1>2, <1>3, <1>4 DEF Last, Range

LEMMA NoneIsNoTask == None \notin Tasks
BY ScriptsAssumption DEF None

-----------------------------------------------------------------------------
(* The inductive invariant. *)
LEMMA InitInv == Init => Inv
<1> SUFFICES ASSUME Init PROVE Inv
  OBVIOUS
<1>1. << >> \in Dirs /\ Range(<< >>) = {}
  BY FirstDir
<1>2. TypeOK
  <2>1. Nowhere \in Files /\ None \in Tasks \cup {None}
    BY DEF Nowhere, Files
  <2>2. worker \in [Workers ->
          [task : Tasks \cup {None}, cwd : Dirs, i : 0 .. Simulations,
           at : {"idle", "enter", "write", "simulate", "save"},
           counted : BOOLEAN]]
    BY <1>1, ScriptsAssumption DEF Init, Idle
  <2>3. /\ ids \subseteq Ids \cup {CutId}
        /\ kills \in 0 .. MaxKills /\ iteration \in 0 .. Iterations
    BY ScriptsAssumption DEF Init
  <2> QED
    BY <2>1, <2>2, <2>3 DEF Init, TypeOK
<1>3. Apart
  BY <1>1 DEF Init, Apart, Idle
<1>4. OneTask
  BY NoneIsNoTask DEF Init, OneTask, Idle
<1>5. Placed /\ Counting /\ ReadsOwnInputs
  BY DEF Init, Placed, Counting, ReadsOwnInputs, Idle
<1>6. Saved
  BY DEF Init, Saved
<1>7. LeftOver
  BY DEF Init, LeftOver
<1> QED
  BY <1>2, <1>3, <1>4, <1>5, <1>6, <1>7 DEF Inv, Init

LEMMA TakeInv ==
  ASSUME Inv, NEW w \in Workers, Take(w)
  PROVE  Inv'
<1> USE DEF Inv
<1>1. PICK task \in queue :
        /\ queue' = queue \ {task}
        /\ worker' = [worker EXCEPT ![w].task = task, ![w].at = "enter"]
  <2>1. queue \in SUBSET Nat /\ queue # {}
    BY ScriptsAssumption DEF Take, TypeOK
  <2>2. \E m \in queue : \A u \in queue : m <= u
    BY <2>1, LeastNumber
  <2> QED
    BY <2>2 DEF Take
<1>2. /\ worker[w].at = "idle"
      /\ UNCHANGED << ended, failed, inputs, results, returned, kills, ids,
                      newline, iteration, stopped, covered >>
  BY DEF Take, random
<1>3. \A v \in Workers : v # w => worker'[v] = worker[v]
  BY <1>1 DEF TypeOK
<1>4. /\ worker'[w].task = task /\ worker'[w].at = "enter"
      /\ worker'[w].cwd = worker[w].cwd
  BY <1>1 DEF TypeOK
<1>5. TypeOK'
  <2>1. task \in Tasks /\ queue' \subseteq Tasks
    BY <1>1 DEF TypeOK
  <2>2. worker' \in [Workers ->
          [task : Tasks \cup {None}, cwd : Dirs, i : 0 .. Simulations,
           at : {"idle", "enter", "write", "simulate", "save"},
           counted : BOOLEAN]]
    <3> DEFINE State == [task : Tasks \cup {None}, cwd : Dirs,
                         i : 0 .. Simulations,
                         at : {"idle", "enter", "write", "simulate", "save"},
                         counted : BOOLEAN]
    <3>1. worker \in [Workers -> State]
      BY DEF TypeOK
    <3>2. [worker[w] EXCEPT !.task = task, !.at = "enter"] \in State
      BY <2>1, <3>1
    <3>3. worker' = [worker EXCEPT
                       ![w] = [worker[w] EXCEPT !.task = task, !.at = "enter"]]
      BY <1>1, <3>1
    <3> HIDE DEF State
    <3>4. worker' \in [Workers -> State]
      BY ONLY <3>1, <3>2, <3>3, w \in Workers
    <3> QED
      BY <3>4 DEF State
  <2>3. TypeOK
    OBVIOUS
  <2> QED
    BY ONLY <1>2, <2>1, <2>2, <2>3 DEF TypeOK
<1>6. Apart'
  <2>1. \A t : Fresh(t)' => Fresh(t)
    BY <1>1, <1>3, <1>4 DEF Fresh
  <2>2. \A v \in Workers : worker'[v].cwd = worker[v].cwd
    BY <1>3, <1>4
  <2> QED
    BY <1>2, <2>1, <2>2 DEF Apart
<1>7. OneTask'
  BY <1>1, <1>2, <1>3, <1>4, NoneIsNoTask DEF OneTask, TypeOK
<1>8. (Placed /\ Counting /\ ReadsOwnInputs)'
  BY <1>2, <1>3, <1>4 DEF Placed, Counting, ReadsOwnInputs
<1>9. (Saved /\ (returned => ended = Tasks) /\ LeftOver)'
  BY <1>2 DEF Saved, LeftOver
<1> QED
  BY <1>5, <1>6, <1>7, <1>8, <1>9

LEMMA EnterInv ==
  ASSUME Inv, NEW w \in Workers, Enter(w)
  PROVE  Inv'
<1> USE DEF Inv
<1> DEFINE task == worker[w].task
           dir == Append(worker[w].cwd, task)
<1>1. /\ worker[w].at = "enter"
      /\ worker' = [worker EXCEPT ![w].cwd = dir, ![w].at = "write",
                                  ![w].i = 0, ![w].counted = FALSE]
      /\ inputs' = [d \in Dirs |-> IF IsPrefix(dir, d) THEN None ELSE inputs[d]]
      /\ results' = [d \in Dirs |->
                       IF IsPrefix(dir, d) THEN Nowhere ELSE results[d]]
      /\ UNCHANGED << queue, ended, failed, returned, kills, ids, newline,
                      iteration, stopped, covered >>
  BY DEF Enter, InDirectory, random
<1>2. /\ worker[w].cwd \in Dirs
      /\ task \in Tasks
      /\ Fresh(task)
      /\ task \notin Range(worker[w].cwd)
  BY <1>1 DEF TypeOK, OneTask, Apart, Fresh
<1>3. /\ dir \in Dirs /\ dir # << >> /\ Last(dir) = task
      /\ \A u : u \in Range(dir) <=> u \in Range(worker[w].cwd) \/ u = task
  BY <1>2, MadeDir
<1> HIDE DEF dir
<1>4. \A v \in Workers : v # w => worker'[v] = worker[v]
  BY <1>1 DEF TypeOK
<1>5. /\ worker'[w].task = task /\ worker'[w].at = "write"
      /\ worker'[w].cwd = dir /\ worker'[w].i = 0
      /\ worker'[w].counted = FALSE
  BY <1>1 DEF TypeOK
<1>6. TypeOK'
  <2>1. /\ inputs' \in [Dirs -> Tasks \cup {None}]
        /\ results' \in [Dirs -> Files]
    BY <1>1 DEF TypeOK, Nowhere, Files
  <2>2. worker' \in [Workers ->
          [task : Tasks \cup {None}, cwd : Dirs, i : 0 .. Simulations,
           at : {"idle", "enter", "write", "simulate", "save"},
           counted : BOOLEAN]]
    BY <1>1, <1>3, ScriptsAssumption DEF TypeOK
  <2> QED
    BY <1>1, <2>1, <2>2 DEF TypeOK
<1>7. \A t : Fresh(t)' <=> Fresh(t) /\ t # task
  <2>1. queue' = queue /\ task \notin queue /\ worker'[w].at # "enter"
    BY <1>1, <1>5 DEF OneTask
  <2>2. \A v \in Workers : v # w /\ worker[v].at = "enter" =>
          worker[v].task # task
    BY DEF OneTask
  <2> HIDE DEF Inv, task
  <2>3. worker[w].at = "enter" /\ worker[w].task = task
    BY <1>1 DEF task
  <2> QED
    BY ONLY <1>4, <2>1, <2>2, <2>3, w \in Workers DEF Fresh
<1>8. Apart'
  <2>1. \A v \in Workers : \A t \in Range(worker[v].cwd) : t # task
    BY <1>2 DEF Apart
  <2>2. \A u, v \in Workers : u # v =>
          \A t \in Range(worker'[u].cwd) : t \notin Range(worker'[v].cwd)
    BY <1>3, <1>4, <1>5, <2>1 DEF Apart
  <2>3. \A v \in Workers : \A t \in Range(worker'[v].cwd) : ~ Fresh(t)'
    BY <1>3, <1>4, <1>5, <1>7 DEF Apart
  <2>4. \A d \in Dirs : results'[d] # Nowhere => results[d] # Nowhere
    BY <1>1
  <2> QED
    BY <1>7, <2>2, <2>3, <2>4 DEF Apart
<1>9. OneTask'
  BY <1>1, <1>4, <1>5, NoneIsNoTask DEF OneTask, TypeOK
<1>10. (Placed /\ Counting)'
  <2>1. Placed'
    BY <1>3, <1>4, <1>5 DEF Placed
  <2>2. 0 < Simulations /\ ~ (0 > 0)
    BY ScriptsAssumption
  <2>3. Counting'
    BY <1>4, <1>5, <2>2 DEF Counting
  <2> QED
    BY <2>1, <2>3
<1>11. ReadsOwnInputs'
  <2>1. SUFFICES ASSUME NEW v \in Workers, worker'[v].at = "simulate"
                 PROVE  inputs'[worker'[v].cwd] = worker'[v].task
    BY DEF ReadsOwnInputs
  <2>2. v # w /\ worker'[v] = worker[v] /\ worker[v].cwd \in Dirs
    BY <1>4, <1>5, <2>1 DEF TypeOK
  <2>3. ~ IsPrefix(dir, worker[v].cwd)
    BY <1>2, <1>3, <2>2, Below DEF Apart
  <2> QED
    BY <1>1, <2>1, <2>2, <2>3 DEF ReadsOwnInputs
<1>12. Saved'
  <2>1. \A d \in Dirs : results[d] # Nowhere => results'[d] = results[d]
    BY <1>1, <1>2, <1>3, Below DEF Apart
  <2>2. \A d \in Dirs : results'[d] # Nowhere =>
          results'[d] = results[d]
    BY <1>1
  <2> QED
    BY <1>1, <2>1, <2>2 DEF Saved
<1>13. ((returned => ended = Tasks) /\ LeftOver)'
  BY <1>1 DEF LeftOver
<1> QED
  BY <1>6, <1>8, <1>9, <1>10, <1>11, <1>12, <1>13

LEMMA WriteInputsInv ==
  ASSUME Inv, NEW w \in Workers, WriteInputs(w)
  PROVE  Inv'
<1> USE DEF Inv
<1>1. /\ worker[w].at = "write"
      /\ inputs' = [inputs EXCEPT ![worker[w].cwd] = worker[w].task]
      /\ worker' = [worker EXCEPT ![w].at = "simulate"]
      /\ UNCHANGED << queue, ended, failed, results, returned, kills, ids,
                      newline, iteration, stopped, covered >>
  BY DEF WriteInputs, random
<1>2. \A v \in Workers : v # w => worker'[v] = worker[v]
  BY <1>1 DEF TypeOK
<1>3. /\ worker'[w].task = worker[w].task /\ worker'[w].at = "simulate"
      /\ worker'[w].cwd = worker[w].cwd /\ worker'[w].i = worker[w].i
      /\ worker'[w].counted = worker[w].counted
  BY <1>1 DEF TypeOK
<1>4. TypeOK'
  <2>1. worker[w].cwd \in Dirs /\ worker[w].task \in Tasks \cup {None}
    BY DEF TypeOK
  <2> QED
    BY <1>1, <2>1 DEF TypeOK
<1>5. Apart'
  <2>1. \A t : Fresh(t)' => Fresh(t)
    BY <1>1, <1>2, <1>3 DEF Fresh
  <2> QED
    BY <1>1, <1>2, <1>3, <2>1 DEF Apart
<1>6. OneTask'
  BY <1>1, <1>2, <1>3 DEF OneTask
<1>7. (Placed /\ Counting)'
  BY <1>1, <1>2, <1>3 DEF Placed, Counting
<1>8. ReadsOwnInputs'
  <2>1. SUFFICES ASSUME NEW v \in Workers, worker'[v].at = "simulate"
                 PROVE  inputs'[worker'[v].cwd] = worker'[v].task
    BY DEF ReadsOwnInputs
  <2>2. worker[v].cwd \in Dirs /\ worker[w].cwd \in Dirs
    BY DEF TypeOK
  <2>3. CASE v = w
    BY <1>1, <1>3, <2>2, <2>3 DEF TypeOK
  <2>4. CASE v # w
    <3>1. worker[w].cwd # << >> /\ Last(worker[w].cwd) \in Range(worker[w].cwd)
      BY <1>1, <2>2, DirFacts DEF Placed
    <3>2. worker[v].cwd # worker[w].cwd
      BY <2>4, <3>1 DEF Apart
    <3> QED
      BY <1>1, <1>2, <2>1, <2>2, <2>4, <3>2 DEF TypeOK, ReadsOwnInputs
  <2> QED
    BY <2>3, <2>4
<1>9. (Saved /\ (returned => ended = Tasks) /\ LeftOver)'
  BY <1>1 DEF Saved, LeftOver
<1> QED
  BY <1>4, <1>5, <1>6, <1>7, <1>8, <1>9

LEMMA SimulateInv ==
  ASSUME Inv, NEW w \in Workers, Simulate(w)
  PROVE  Inv'
<1> USE DEF Inv
<1>1. /\ worker[w].at = "simulate"
      /\ worker' = [worker EXCEPT ![w].i = @ + 1,
                                  ![w].counted = @ \/ Prints(worker[w].cwd),
                                  ![w].at = IF worker[w].i + 1 < Simulations
                                            THEN "write" ELSE "save"]
      /\ UNCHANGED << queue, ended, failed, inputs, results, returned, kills,
                      ids, newline, iteration, stopped, covered >>
  BY DEF Simulate, random
<1>2. \A v \in Workers : v # w => worker'[v] = worker[v]
  BY <1>1 DEF TypeOK
<1>3. /\ worker'[w].task = worker[w].task
      /\ worker'[w].at = IF worker[w].i + 1 < Simulations
                         THEN "write" ELSE "save"
      /\ worker'[w].cwd = worker[w].cwd
      /\ worker'[w].i = worker[w].i + 1
      /\ worker'[w].counted = (worker[w].counted \/ Prints(worker[w].cwd))
  BY <1>1 DEF TypeOK
<1>11. worker'[w].at \in {"write", "save"}
  BY <1>3
<1>4. worker[w].i \in Nat /\ worker[w].i + 1 \in 0 .. Simulations
  BY <1>1, ScriptsAssumption DEF TypeOK, Counting
<1>5. TypeOK'
  <2>1. (worker[w].counted \/ Prints(worker[w].cwd)) \in BOOLEAN
    OBVIOUS
  <2> QED
    BY <1>1, <1>4, <2>1 DEF TypeOK
<1>6. Apart'
  <2>1. \A t : Fresh(t)' => Fresh(t)
    BY <1>1, <1>2, <1>11 DEF Fresh
  <2> QED
    BY <1>1, <1>2, <1>3, <2>1 DEF Apart
<1>7. OneTask'
  <2>1. /\ worker'[w].at # "idle" /\ worker'[w].task = worker[w].task
        /\ worker[w].task # None
    BY <1>1, <1>3, <1>11 DEF OneTask
  <2>2. \A v \in Workers : /\ worker'[v].task = worker[v].task
                           /\ worker'[v].at = "idle" <=> worker[v].at = "idle"
    BY <1>1, <1>2, <2>1
  <2>3. queue' = queue /\ ended' = ended
    BY <1>1
  <2> QED
    BY <2>2, <2>3 DEF OneTask
<1>8. Placed'
  BY <1>1, <1>2, <1>3 DEF Placed
<1>9. Counting'
  <2>1. worker[w].i + 1 > 0
    BY <1>4
  <2>2. worker[w].counted => Prints(worker[w].cwd)
    BY <1>1 DEF Counting
  <2>3. worker'[w].counted <=> Prints(worker[w].cwd)
    BY <1>3, <2>2
  <2> QED
    BY <1>2, <1>3, <2>1, <2>3 DEF Counting
<1>10. ReadsOwnInputs'
  BY <1>1, <1>2, <1>3, ZenonT(30) DEF ReadsOwnInputs
<1>12. (Saved /\ (returned => ended = Tasks) /\ LeftOver)'
  BY <1>1 DEF Saved, LeftOver
<1> QED
  BY <1>5, <1>6, <1>7, <1>8, <1>9, <1>10, <1>12

(* A worker whose task is over stays where it is. *)
LEMMA FreeInv ==
  ASSUME Inv, NEW w \in Workers, worker[w].at \in {"simulate", "save"},
         worker' = Free(w), ended' = ended \cup {worker[w].task},
         UNCHANGED << queue, inputs, returned >>,
         \A d \in Dirs : results'[d] # Nowhere =>
           results[d] # Nowhere \/ d = worker[w].cwd
  PROVE  /\ (returned => ended = Tasks)'
         /\ worker' \in [Workers ->
              [task : Tasks \cup {None}, cwd : Dirs, i : 0 .. Simulations,
               at : {"idle", "enter", "write", "simulate", "save"},
               counted : BOOLEAN]]
         /\ ended' \subseteq Tasks
         /\ (Apart /\ OneTask /\ Placed /\ Counting /\ ReadsOwnInputs)'
<1> USE DEF Inv
<1>1. worker' = [worker EXCEPT ![w].task = None, ![w].at = "idle"]
  BY DEF Free
<1>2. \A v \in Workers : v # w => worker'[v] = worker[v]
  BY <1>1 DEF TypeOK
<1>3. /\ worker'[w].task = None /\ worker'[w].at = "idle"
      /\ worker'[w].cwd = worker[w].cwd
  BY <1>1 DEF TypeOK
<1>4. worker[w].task \in Tasks /\ worker[w].task \notin queue \cup ended
  BY DEF TypeOK, OneTask
<1>5. Apart'
  <2>1. \A t : Fresh(t)' => Fresh(t)
    BY <1>1, <1>2, <1>3 DEF Fresh
  <2> QED
    BY <1>1, <1>2, <1>3, <2>1 DEF Apart
<1>6. OneTask'
  <2>1. None \notin queue \cup ended'
    BY <1>4, NoneIsNoTask DEF TypeOK
  <2> QED
    BY <1>2, <1>3, <1>4, <2>1 DEF OneTask
<1>7. (Placed /\ Counting /\ ReadsOwnInputs)'
  BY <1>2, <1>3 DEF Placed, Counting, ReadsOwnInputs
<1>8. (returned => ended = Tasks)'
  BY <1>4
<1>9. ended' \subseteq Tasks
  BY <1>4 DEF TypeOK
<1> QED
  BY <1>1, <1>5, <1>6, <1>7, <1>8, <1>9 DEF TypeOK

LEMMA SaveInv ==
  ASSUME Inv, NEW w \in Workers, Save(w)
  PROVE  Inv'
<1> USE DEF Inv
<1> DEFINE file == [task |-> worker[w].task, counted |-> worker[w].counted]
<1>1. /\ worker[w].at = "save"
      /\ results' = [results EXCEPT ![worker[w].cwd] = file]
      /\ ended' = ended \cup {worker[w].task}
      /\ worker' = Free(w)
      /\ UNCHANGED << queue, failed, inputs, returned, kills, ids, newline,
                      iteration, stopped, covered >>
  BY DEF Save, random
<1>2. /\ worker[w].task \in Tasks /\ worker[w].cwd \in Dirs
      /\ worker[w].counted \in BOOLEAN
      /\ worker[w].cwd # << >> /\ Last(worker[w].cwd) = worker[w].task
  BY <1>1 DEF TypeOK, OneTask, Placed
<1>3. worker[w].counted = Prints(worker[w].cwd)
  <2>1. Prints(worker[w].cwd) \in BOOLEAN
    BY DEF Prints
  <2>2. worker[w].counted <=> Prints(worker[w].cwd)
    BY <1>1 DEF Counting
  <2> QED
    BY <1>2, <2>1, <2>2
<1>4. /\ results'[worker[w].cwd] = file
      /\ \A d \in Dirs : d # worker[w].cwd => results'[d] = results[d]
  BY <1>1, <1>2 DEF TypeOK
<1>5. file # Nowhere
  BY <1>2, NoneIsNoTask DEF Nowhere
<1>6. file \in Files
  BY <1>2 DEF Files
<1> HIDE DEF file
<1>7. /\ (returned => ended = Tasks)'
      /\ worker' \in [Workers ->
           [task : Tasks \cup {None}, cwd : Dirs, i : 0 .. Simulations,
            at : {"idle", "enter", "write", "simulate", "save"},
            counted : BOOLEAN]]
      /\ ended' \subseteq Tasks
      /\ (Apart /\ OneTask /\ Placed /\ Counting /\ ReadsOwnInputs)'
  BY <1>1, <1>4, FreeInv
<1>8. TypeOK'
  BY <1>1, <1>6, <1>7 DEF TypeOK
<1>9. Saved'
  <2>1. file = [task |-> Last(worker[w].cwd), counted |-> Prints(worker[w].cwd)]
    BY <1>2, <1>3 DEF file
  <2>4. worker[w].task \notin ended /\ failed \subseteq ended
        /\ ended' = ended \cup {worker[w].task} /\ failed' = failed
    BY <1>1 DEF OneTask, Saved
  <2>2. \A d \in Dirs : results'[d] # Nowhere =>
          /\ d # << >> /\ Last(d) \in ended' \ failed'
          /\ results'[d] = [task |-> Last(d), counted |-> Prints(d)]
    BY <1>2, <1>4, <2>1, <2>4 DEF Saved
  <2>5. \A d \in Dirs : results[d] # Nowhere => Last(d) # worker[w].task
    BY <2>4 DEF Saved
  <2>6. \A d, e \in Dirs :
          results'[d] # Nowhere /\ results'[e] # Nowhere /\ Last(d) = Last(e) => d = e
    BY <1>2, <1>4, <2>5 DEF Saved
  <2>3. \A t \in ended' \ failed' :
          \E d \in Dirs : results'[d] # Nowhere /\ Last(d) = t
    <3> TAKE t \in ended' \ failed'
    <3>1. CASE t = worker[w].task
      BY <1>2, <1>4, <1>5, <3>1
    <3>2. CASE t # worker[w].task
      <4>1. t \in ended \ failed
        BY <1>1, <3>2
      <4>2. PICK d \in Dirs : results[d] # Nowhere /\ Last(d) = t
        BY <4>1 DEF Saved
      <4>3. d # worker[w].cwd
        BY <1>2, <3>2, <4>2
      <4> QED
        BY <1>4, <4>2, <4>3
    <3> QED
      BY <3>1, <3>2
  <2> QED
    BY <2>2, <2>3, <2>4, <2>6 DEF Saved
<1>10. LeftOver'
  BY <1>1 DEF LeftOver
<1> QED
  BY <1>7, <1>8, <1>9, <1>10

LEMMA FailInv ==
  ASSUME Inv, NEW w \in Workers, Fail(w)
  PROVE  Inv'
<1> USE DEF Inv
<1>1. /\ worker[w].at = "simulate"
      /\ failed' = failed \cup {worker[w].task}
      /\ ended' = ended \cup {worker[w].task}
      /\ worker' = Free(w)
      /\ UNCHANGED << queue, inputs, results, returned, kills, ids, newline,
                      iteration, stopped, covered >>
  BY DEF Fail, random
<1>2. worker[w].task \in Tasks
  BY <1>1 DEF TypeOK, OneTask
<1>3. /\ (returned => ended = Tasks)'
      /\ worker' \in [Workers ->
           [task : Tasks \cup {None}, cwd : Dirs, i : 0 .. Simulations,
            at : {"idle", "enter", "write", "simulate", "save"},
            counted : BOOLEAN]]
      /\ ended' \subseteq Tasks
      /\ (Apart /\ OneTask /\ Placed /\ Counting /\ ReadsOwnInputs)'
  BY <1>1, FreeInv
<1>4. TypeOK'
  BY <1>1, <1>2, <1>3 DEF TypeOK
<1>5. Saved'
  <2>1. worker[w].task \notin ended
    BY <1>1 DEF OneTask
  <2> QED
    BY <1>1, <2>1 DEF Saved
<1>6. LeftOver'
  BY <1>1 DEF LeftOver
<1> QED
  BY <1>3, <1>4, <1>5, <1>6

LEMMA KillInv ==
  ASSUME Inv, NEW w \in Workers, Kill(w)
  PROVE  Inv'
<1> USE DEF Inv
<1>1. /\ kills < MaxKills /\ kills' = kills + 1
      /\ worker' = [worker EXCEPT ![w] = Idle]
      /\ UNCHANGED << queue, ended, failed, inputs, results, returned, ids,
                      newline, iteration, stopped, covered >>
  BY DEF Kill, random
<1>2. << >> \in Dirs /\ Range(<< >>) = {}
  BY FirstDir
<1>3. \A v \in Workers : v # w => worker'[v] = worker[v]
  BY <1>1 DEF TypeOK
<1>4. /\ worker'[w] = Idle
      /\ Idle.task = None /\ Idle.at = "idle" /\ Idle.cwd = << >>
  BY <1>1 DEF TypeOK, Idle
<1>5. TypeOK'
  <2>1. Idle \in [task : Tasks \cup {None}, cwd : Dirs, i : 0 .. Simulations,
                  at : {"idle", "enter", "write", "simulate", "save"},
                  counted : BOOLEAN]
    BY <1>2, ScriptsAssumption DEF Idle
  <2>2. kills' \in 0 .. MaxKills
    BY <1>1, ScriptsAssumption DEF TypeOK
  <2> QED
    BY <1>1, <2>1, <2>2 DEF TypeOK
<1>6. Apart'
  <2>1. \A t : Fresh(t)' => Fresh(t)
    BY <1>1, <1>3, <1>4 DEF Fresh
  <2> QED
    BY <1>1, <1>2, <1>3, <1>4, <2>1 DEF Apart
<1>7. OneTask'
  <2>1. None \notin queue \cup ended
    BY NoneIsNoTask DEF TypeOK
  <2> QED
    BY <1>1, <1>3, <1>4, <2>1 DEF OneTask
<1>8. (Placed /\ Counting /\ ReadsOwnInputs)'
  BY <1>1, <1>3, <1>4 DEF Placed, Counting, ReadsOwnInputs
<1>9. (Saved /\ (returned => ended = Tasks) /\ LeftOver)'
  BY <1>1 DEF Saved, LeftOver
<1> QED
  BY <1>5, <1>6, <1>7, <1>8, <1>9

LEMMA ReturnInv ==
  ASSUME Inv, Return
  PROVE  Inv'
BY DEF Inv, Return, random, TypeOK, Apart, Fresh, OneTask, Placed, Counting,
       ReadsOwnInputs, Saved, LeftOver

LEMMA RandomInv ==
  ASSUME Inv, RunOut \/ \E hit \in SUBSET Branches : Iterate(hit)
  PROVE  Inv'
<1> USE DEF Inv
<1>1. UNCHANGED << queue, ended, failed, worker, inputs, results, returned, kills >>
  BY DEF RunOut, Iterate, pool
<1>2. (TypeOK /\ LeftOver)'
  <2>1. CASE RunOut
    BY <1>1, <2>1, ScriptsAssumption DEF RunOut, TypeOK, LeftOver
  <2>2. ASSUME NEW hit \in SUBSET Branches, Iterate(hit)
        PROVE  (TypeOK /\ LeftOver)'
    <3>1. iteration' \in 0 .. Iterations
      BY <2>2, ScriptsAssumption DEF Iterate, TypeOK
    <3>2. LeftOver'
      BY <2>2 DEF Iterate, LeftOver, AllCovered, TypeOK
    <3>3. stopped' \in BOOLEAN /\ ids' \subseteq ids /\ newline' = newline
          /\ covered' \subseteq Ids
      BY <2>2 DEF Iterate, AllCovered, TypeOK
    <3>4. TypeOK'
      BY <1>1, <3>1, <3>3 DEF TypeOK
    <3> QED
      BY <3>2, <3>4
  <2> QED
    BY <2>1, <2>2
<1>3. (Apart /\ OneTask /\ Placed /\ Counting /\ ReadsOwnInputs /\ Saved)'
  BY <1>1 DEF Apart, Fresh, OneTask, Placed, Counting, ReadsOwnInputs, Saved
<1> QED
  BY <1>1, <1>2, <1>3

(* The inductive invariant holds in every state. *)
THEOREM Invariant == Spec => []Inv
<1>1. Init => Inv
  BY InitInv
<1>2. Inv /\ [Next]_vars => Inv'
  <2> SUFFICES ASSUME Inv, [Next]_vars
               PROVE  Inv'
    OBVIOUS
  <2>1. ASSUME NEW w \in Workers,
               Take(w) \/ Enter(w) \/ WriteInputs(w) \/ Simulate(w) \/ Save(w)
                 \/ Fail(w) \/ Kill(w)
        PROVE  Inv'
    BY <2>1, TakeInv, EnterInv, WriteInputsInv, SimulateInv, SaveInv, FailInv,
       KillInv
  <2>2. CASE Return
    BY <2>2, ReturnInv
  <2>3. CASE RunOut \/ \E hit \in SUBSET Branches : Iterate(hit)
    BY <2>3, RandomInv
  <2>4. CASE UNCHANGED vars
    BY <2>4 DEF vars, pool, random, Inv, TypeOK, Apart, Fresh, OneTask, Placed,
                Counting, ReadsOwnInputs, Saved, LeftOver
  <2> QED
    BY <2>1, <2>2, <2>3, <2>4 DEF Next
<1> QED
  BY <1>1, <1>2, PTL DEF Spec

(* Directories stay directories without a name twice, and so no longer than
   there are tasks; the counters stay in their ranges. *)
THEOREM TypesHold == Spec => []TypeOK
<1>1. Inv => TypeOK
  BY DEF Inv
<1> QED
  BY <1>1, Invariant, PTL

(* A simulation reads the input its own task has written. *)
THEOREM OwnInputsHold == Spec => []ReadsOwnInputs
<1>1. Inv => ReadsOwnInputs
  BY DEF Inv
<1> QED
  BY <1>1, Invariant, PTL

(* In every state, a task that ended without an exception has left one
   result, which counts if it was the first of its process, and no other
   task has left any. *)
THEOREM ResultsHold == Spec => []ResultsCounted
<1>1. Inv => ResultsCounted
  <2> SUFFICES ASSUME Inv PROVE ResultsCounted
    OBVIOUS
  <2> USE DEF Inv
  <2>1. /\ ended \subseteq Tasks /\ failed \subseteq ended
        /\ results \in [Dirs -> Files]
    BY DEF TypeOK, Saved
  <2>5. ASSUME NEW d \in Dirs, results[d] # Nowhere
        PROVE  d # << >> /\ results[d].task = Last(d)
               /\ results[d].counted = Prints(d)
    <3>1. d # << >> /\ results[d] = [task |-> Last(d), counted |-> Prints(d)]
      BY <2>5 DEF Saved
    <3> HIDE DEF Inv
    <3> QED
      BY ONLY <3>1
  <2>2. ASSUME NEW t \in Tasks, NEW d \in Dirs
        PROVE  results[d].task = t <=> results[d] # Nowhere /\ Last(d) = t
    <3>1. Nowhere.task # t
      BY NoneIsNoTask DEF Nowhere
    <3>2. results[d] # Nowhere => results[d].task = Last(d)
      BY <2>5
    <3> QED
      BY <3>1, <3>2
  <2>3. ASSUME NEW t \in ended \ failed
        PROVE  \E d \in Dirs :
                 /\ ResultsOf(t) = {d}
                 /\ d # << >> /\ Last(d) = t
                 /\ results[d].counted <=> Len(d) = 1
    <3>1. PICK d \in Dirs : results[d] # Nowhere /\ Last(d) = t
      BY DEF Saved
    <3>2. ResultsOf(t) = {d}
      <4>1. t \in Tasks
        BY <2>1
      <4>2. \A e \in Dirs : results[e] # Nowhere /\ Last(e) = t => e = d
        BY <3>1 DEF Saved
      <4>3. \A e \in Dirs : results[e].task = t <=> e = d
        BY <2>2, <3>1, <4>1, <4>2
      <4> QED
        BY ONLY <4>3, d \in Dirs DEF ResultsOf
    <3>3. d # << >> /\ results[d].counted = Prints(d)
      BY <2>5, <3>1
    <3> QED
      BY <3>1, <3>2, <3>3 DEF Prints
  <2>4. ASSUME NEW t \in (Tasks \ ended) \cup failed
        PROVE  ResultsOf(t) = {}
    <3>1. t \in Tasks /\ t \notin ended \ failed
      BY <2>1
    <3>2. \A d \in Dirs : results[d] # Nowhere => Last(d) # t
      BY <3>1 DEF Saved
    <3>3. \A d \in Dirs : results[d].task # t
      BY <2>2, <3>1, <3>2
    <3> QED
      BY ONLY <3>3 DEF ResultsOf
  <2> QED
    BY <2>3, <2>4 DEF ResultsCounted
<1> QED
  BY <1>1, Invariant, PTL

(* What random_coverage.py prints is what it covered, and it stops early
   only when that is all. *)
THEOREM ReportsHold == Spec => []RandomReports
<1>1. Inv => RandomReports
  <2> SUFFICES ASSUME Inv, stopped, newline
               PROVE  RandomReports
    BY DEF RandomReports
  <2>1. covered \subseteq Ids /\ ids = Ids \ covered
    BY DEF Inv, TypeOK, LeftOver
  <2>2. iteration < Iterations => covered = Ids
    BY <2>1 DEF Inv, LeftOver
  <2>3. Cardinality(ids) = Cardinality(Ids) - Cardinality(covered)
    <3>1. Cardinality(Ids \ covered) =
            Cardinality(Ids) - Cardinality(Ids \cap covered)
      BY ScriptsAssumption, FS_Difference
    <3>2. Ids \cap covered = covered
      BY <2>1
    <3> QED
      BY <2>1, <3>1, <3>2
  <2>4. Cardinality(Ids) \in Nat /\ Cardinality(covered) \in Nat
    BY <2>1, ScriptsAssumption, FS_CardinalityType, FS_Subset
  <2> QED
    BY <2>2, <2>3, <2>4 DEF RandomReports, Printed
<1> QED
  BY <1>1, Invariant, PTL
=============================================================================
