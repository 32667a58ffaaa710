------------------------- MODULE SsaVersionsProofs -------------------------
(***************************************************************************)
(* Theorems about SsaVersions, for every design.                           *)
(***************************************************************************)
EXTENDS SsaVersions, Induction, TLAPS

(* What the reader put on constraints_stack. *)
EntryType ==
  [clk : 0 .. MaxClock, late : BOOLEAN, proc : Procs,
   kind : {"branch", "nba", "blk"},
   sig : RegSigs, used : UNION {[r -> Nat] : r \in SUBSET Signals},
   real : UNION {[r -> Nat] : r \in SUBSET Signals}, def : Nat]

(* With the rule kept, what is assigned without blocking is assigned by an
   edge-triggered process, and by those only. *)
Driven(s) == \E p \in EdgeProcs : Assigns(p, s)

Logged ==
  /\ stack \in Seq(EntryType)
  /\ \A j \in 1 .. Len(stack) : stack[j].kind = "nba" => Driven(stack[j].sig)

(***************************************************************************)
(* Every phase has its processes, and in every phase the versions of the   *)
(* reader stand in another relation to the values of the simulation.       *)
(***************************************************************************)
Turns ==
  /\ phase = "posedge" => /\ todo \subseteq EdgeProcs
                          /\ running \in EdgeProcs \cup {NoProc}
  /\ phase = "nba" => todo = {} /\ running = NoProc

(* At the edge next runs ahead of the value, to the assignment pending. *)
AtEdge ==
  phase = "posedge" =>
    \A s \in RegSigs :
      /\ Stale(s) \/ curr[s] = sim[s]
      /\ pend[s] # 0 => pend[s] = next[s]
      /\ pend[s] = 0 => next[s] = sim[s]

(* Between the mark and the change curr runs ahead of the value. *)
AfterMark ==
  phase = "nba" =>
    \A s \in RegSigs :
      /\ next[s] = curr[s]
      /\ curr[s] = IF pend[s] # 0 THEN pend[s] ELSE sim[s]

(* Afterwards all agree, and blocking assignments move all of them; only a
   register assigned again without blocking runs ahead of curr. *)
Settled ==
  phase \in {"react", "input"} =>
    \A s \in RegSigs :
      /\ pend[s] # 0 => pend[s] = next[s]
      /\ pend[s] = 0 => next[s] = sim[s]
      /\ Stale(s) \/ (pend[s] = 0 /\ curr[s] = sim[s])

VersionInv == TypeOK /\ Logged /\ Turns /\ AtEdge /\ AfterMark /\ Settled

-----------------------------------------------------------------------------
(* A step of a process is of the type the design assumption gives it. *)
LEMMA StepsTyped ==
  ASSUME NEW p \in Procs, NEW k \in 1 .. Len(Body[p])
  PROVE  /\ Body[p][k] \in StepType
         /\ k \in DOMAIN Body[p]
  BY DesignAssumption

(* Every variable keeps its type, and no version used or pending is newer
   than next_version: UpdatedNext only counts up. *)
THEOREM TypeCorrect == Spec => []TypeOK
<1>1. Init => TypeOK
  BY DesignAssumption DEF Init, TypeOK
<1>2. TypeOK /\ [Next]_vars => TypeOK'
  <2> SUFFICES ASSUME TypeOK, [Next]_vars PROVE TypeOK'
    OBVIOUS
  <2> USE DesignAssumption
  <2>1. ASSUME NEW p \in Procs, Run(p) PROVE TypeOK'
    BY <2>1 DEF Run, TypeOK, reader
  <2>2. ASSUME NEW k \in Steps, NEW woken \in SUBSET Procs,
               Step(k, woken)
        PROVE TypeOK'
    <3>1. running \in Procs /\ k \in 1 .. Len(Body[running])
      BY <2>2 DEF Step, TypeOK
    <3>2. Body[running][k] \in StepType
      BY <3>1, StepsTyped
    <3> DEFINE step == Body[running][k]
               sig == step.sig
    <3>3. sig \in RegSigs
      BY <3>2 DEF StepType
    <3>4. /\ at' \in Nat
          /\ UNCHANGED << phase, running, simIn, clock, inVer, atClock >>
          /\ Branch(step) \/ NonBlocking(step) \/ Blocking(step, woken)
      BY <2>2, <3>1 DEF Step, TypeOK
    <3> HIDE DEF step
    <3>5. CASE Branch(step)
      BY <3>4, <3>5 DEF Branch, TypeOK
    <3>6. CASE NonBlocking(step)
      <4>1. /\ UNCHANGED << todo, sim, curr >>
            /\ next' = [next EXCEPT ![sig] = next[sig] + 1]
            /\ pend' = [pend EXCEPT ![sig] = next[sig] + 1]
        BY <3>6 DEF NonBlocking, UpdatedNext
      <4> HIDE DEF sig
      <4>2. QED
        BY <3>3, <3>4, <4>1, SMTT(30) DEF TypeOK
    <3>7. CASE Blocking(step, woken)
      <4>1. /\ UNCHANGED pend
            /\ next' = [next EXCEPT ![sig] = next[sig] + 1]
            /\ curr' = [curr EXCEPT ![sig] = next[sig] + 1]
            /\ sim' = [sim EXCEPT ![sig] = next[sig] + 1]
            /\ todo' = todo \cup woken
        BY <3>7 DEF Blocking, UpdatedNext
      <4> HIDE DEF sig
      <4>2. QED
        BY <3>3, <3>4, <4>1, SMTT(30) DEF TypeOK, LevelProcs
    <3>8. QED
      BY <3>4, <3>5, <3>6, <3>7
  <2>3. CASE EndRun
    BY <2>3 DEF EndRun, TypeOK, reader
  <2>4. CASE Mark
    BY <2>4 DEF Mark, TypeOK, Idle
  <2>5. ASSUME NEW woken \in SUBSET Procs, Apply(woken) PROVE TypeOK'
    BY <2>5 DEF Apply, TypeOK, reader, LevelProcs
  <2>6. ASSUME NEW woken \in SUBSET Procs, InputChange(woken)
        PROVE TypeOK'
    BY <2>6 DEF InputChange, TypeOK, reader, LevelProcs
  <2>7. CASE Posedge
    BY <2>7 DEF Posedge, TypeOK, reader
  <2>8. CASE UNCHANGED vars
    BY <2>8 DEF vars, TypeOK
  <2>9. QED
    BY <2>1, <2>2, <2>3, <2>4, <2>5, <2>6, <2>7, <2>8 DEF Next
<1>3. QED
  BY <1>1, <1>2, PTL DEF Spec

-----------------------------------------------------------------------------
(***************************************************************************)
(* A step of a process puts its constraint on the stack.  With the rule    *)
(* kept, an edge-triggered process moves next only, for one signal, and    *)
(* any other moves next and curr together.                                 *)
(***************************************************************************)
Puts(e, step) ==
  /\ e \in EntryType
  /\ e.clk = clock
  /\ e.late <=> phase # "posedge"
  /\ e.proc = running
  /\ e.kind = step.kind
  /\ e.sig = step.sig
  /\ \A s \in DOMAIN e.used \ InputSigs : s \in RegSigs /\ e.used[s] = curr[s]
  /\ e.kind # "branch" => e.def = next[e.sig] + 1
  /\ stack' = Append(stack, e)
  /\ UNCHANGED << phase, running, clock, atClock >>

Moves(e) ==
  \/ e.kind = "branch" /\ UNCHANGED << todo, sim, pend, curr, next >>
  \/ /\ e.kind = "nba" /\ e.proc \in EdgeProcs
     /\ next' = [next EXCEPT ![e.sig] = @ + 1]
     /\ pend' = [pend EXCEPT ![e.sig] = next[e.sig] + 1]
     /\ UNCHANGED << todo, sim, curr >>
  \/ /\ e.kind = "blk" /\ e.proc \in LevelProcs
     /\ next' = [next EXCEPT ![e.sig] = @ + 1]
     /\ curr' = [curr EXCEPT ![e.sig] = next[e.sig] + 1]
     /\ sim' = [sim EXCEPT ![e.sig] = next[e.sig] + 1]
     /\ UNCHANGED pend

LEMMA ConstraintTyped ==
  ASSUME TypeOK, running \in Procs, NEW step \in StepType, NEW ver \in Nat
  PROVE  /\ Constraint(step, ver) \in EntryType
         /\ \A s \in DOMAIN Constraint(step, ver).used \ InputSigs :
              s \in RegSigs /\ Constraint(step, ver).used[s] = curr[s]
<1>1. step.reads \in SUBSET Signals /\ step.sig \in RegSigs
      /\ step.kind \in {"branch", "nba", "blk"}
  BY DEF StepType
<1>2. Used(step.reads) \in [step.reads -> Nat]
  BY <1>1 DEF Used, TypeOK, Signals
<1>3. Real(step.reads) \in [step.reads -> Nat]
  BY <1>1 DEF Real, TypeOK, Signals
<1>4. \A s \in DOMAIN Used(step.reads) \ InputSigs :
        s \in RegSigs /\ Used(step.reads)[s] = curr[s]
  BY <1>1 DEF Used, Signals
<1>5. /\ Used(step.reads) \in UNION {[r -> Nat] : r \in SUBSET Signals}
      /\ Real(step.reads) \in UNION {[r -> Nat] : r \in SUBSET Signals}
  BY <1>1, <1>2, <1>3
<1> HIDE DEF Used, Real
<1>6. clock \in 0 .. MaxClock
  BY DEF TypeOK
<1> QED
  BY <1>1, <1>4, <1>5, <1>6 DEF Constraint, EntryType

LEMMA StepPuts ==
  ASSUME Disciplined, TypeOK,
         NEW k \in Steps, NEW woken \in SUBSET Procs, Step(k, woken)
  PROVE  \E e : /\ Puts(e, Body[running][k]) /\ Moves(e)
                /\ e.kind # "branch" => Assigns(running, e.sig)
<1> DEFINE step == Body[running][k]
<1>1. running \in Procs /\ k \in 1 .. Len(Body[running])
  BY DEF Step, TypeOK
<1>2. step \in StepType /\ k \in DOMAIN Body[running]
  BY <1>1, StepsTyped
<1>3. step.sig \in RegSigs /\ next[step.sig] + 1 \in Nat
  BY <1>2 DEF StepType, TypeOK
<1>4. step.kind # "branch" => Assigns(running, step.sig)
  BY <1>2 DEF Assigns
<1>5. step.kind # (IF running \in EdgeProcs THEN "blk" ELSE "nba")
  BY <1>1, <1>2 DEF Disciplined
<1>6. /\ UNCHANGED << phase, running, clock, atClock >>
      /\ Branch(step) \/ NonBlocking(step) \/ Blocking(step, woken)
  BY DEF Step
<1> HIDE DEF step
<1> DEFINE Ends(ver) ==
             LET e == Constraint(step, ver) IN
               /\ e.clk = clock
               /\ e.late <=> phase # "posedge"
               /\ e.proc = running
               /\ e.kind = step.kind
               /\ e.sig = step.sig
               /\ e.def = ver
<1>7. \A ver : Ends(ver)
  BY DEF Constraint
<1> HIDE DEF Ends
<1>8. CASE Branch(step)
  <2>1. /\ step.kind = "branch"
        /\ stack' = Append(stack, Constraint(step, 0))
        /\ UNCHANGED << todo, sim, pend, curr, next >>
    BY <1>8 DEF Branch
  <2>2. PICK e : e = Constraint(step, 0)
    OBVIOUS
  <2>3. Puts(e, step) /\ Moves(e)
    BY <1>1, <1>2, <1>6, <1>7, <2>1, <2>2, ConstraintTyped
       DEF Puts, Moves, Ends
  <2> QED
    BY <1>4, <2>3 DEF step, Puts
<1>9. CASE NonBlocking(step)
  <2>1. /\ step.kind = "nba"
        /\ stack' = Append(stack, Constraint(step, next[step.sig] + 1))
        /\ next' = [next EXCEPT ![step.sig] = @ + 1]
        /\ pend' = [pend EXCEPT ![step.sig] = next[step.sig] + 1]
        /\ UNCHANGED << todo, sim, curr >>
    BY <1>9 DEF NonBlocking, UpdatedNext
  <2>2. PICK e : e = Constraint(step, next[step.sig] + 1)
    OBVIOUS
  <2>3. Puts(e, step)
    BY <1>1, <1>2, <1>3, <1>6, <1>7, <2>1, <2>2, ConstraintTyped
       DEF Puts, Ends
  <2>4. Moves(e)
    BY <1>5, <1>7, <2>1, <2>2 DEF Moves, Ends
  <2> QED
    BY <1>4, <2>3, <2>4 DEF step, Puts
<1>10. CASE Blocking(step, woken)
  <2>1. /\ step.kind = "blk"
        /\ stack' = Append(stack, Constraint(step, next[step.sig] + 1))
        /\ next' = [next EXCEPT ![step.sig] = @ + 1]
        /\ curr' = [curr EXCEPT ![step.sig] = next[step.sig] + 1]
        /\ sim' = [sim EXCEPT ![step.sig] = next[step.sig] + 1]
        /\ UNCHANGED pend
    BY <1>10 DEF Blocking, UpdatedNext
  <2>2. PICK e : e = Constraint(step, next[step.sig] + 1)
    OBVIOUS
  <2>3. Puts(e, step)
    BY <1>1, <1>2, <1>3, <1>6, <1>7, <2>1, <2>2, ConstraintTyped
       DEF Puts, Ends
  <2>4. Moves(e)
    BY <1>1, <1>5, <1>7, <2>1, <2>2 DEF Moves, Ends, LevelProcs
  <2> QED
    BY <1>4, <2>3, <2>4 DEF step, Puts
<1> QED
  BY <1>6, <1>8, <1>9, <1>10

(* What an edge-triggered process assigns, no level-sensitive one does. *)
LEMMA Apart ==
  ASSUME Disciplined, NEW p \in LevelProcs, NEW s \in RegSigs, Assigns(p, s)
  PROVE  ~ Driven(s)
BY DEF Disciplined, Driven

(* A register becomes stale by a late non-blocking assignment to it. *)
LEMMA StaleGrows ==
  ASSUME stack \in Seq(EntryType), NEW e \in EntryType, e.clk = clock,
         stack' = Append(stack, e), clock' = clock, NEW s
  PROVE  Stale(s)' <=> Stale(s) \/ (e.late /\ e.kind = "nba" /\ e.sig = s)
<1>0. PICK n \in Nat : n = Len(stack)
  OBVIOUS
<1>1. /\ DOMAIN stack = 1 .. n /\ DOMAIN stack' = 1 .. n + 1
      /\ \A j \in 1 .. n : stack'[j] = stack[j]
      /\ stack'[n + 1] = e
  BY <1>0
<1> QED
  BY <1>1 DEF Stale

(* A step of a process keeps the relation of its phase. *)
LEMMA StepKeepsVersions ==
  ASSUME Disciplined, VersionInv, TypeOK',
         NEW k \in Steps, NEW woken \in SUBSET Procs, Step(k, woken)
  PROVE  Logged' /\ Turns' /\ AtEdge' /\ AfterMark' /\ Settled'
<1> USE DEF VersionInv
<1>1. PICK e : /\ Puts(e, Body[running][k]) /\ Moves(e)
               /\ e.kind # "branch" => Assigns(running, e.sig)
  BY StepPuts
<1>2. /\ e \in EntryType /\ e.sig \in RegSigs
      /\ e.clk = clock /\ e.proc = running
      /\ e.late <=> phase # "posedge"
      /\ stack' = Append(stack, e)
      /\ UNCHANGED << phase, running, clock >>
      /\ stack \in Seq(EntryType)
  BY <1>1 DEF Puts, EntryType, Logged
<1>3. \A s : Stale(s)' <=> Stale(s) \/ (e.late /\ e.kind = "nba" /\ e.sig = s)
  BY <1>2, StaleGrows
<1>4. e.kind = "nba" => Driven(e.sig)
  BY <1>1, <1>2 DEF Moves, Driven
<1>5. e.kind = "blk" => ~ Driven(e.sig)
  BY <1>1, <1>2, Apart DEF Moves
<1>6. \A s : Stale(s) => Driven(s)
  BY DEF Stale, Logged
<1>7. Logged'
  <2>0. PICK n \in Nat : n = Len(stack)
    BY <1>2
  <2>1. /\ stack' \in Seq(EntryType) /\ Len(stack') = n + 1
        /\ \A j \in 1 .. n : stack'[j] = stack[j]
        /\ stack'[n + 1] = e
    BY <1>2, <2>0
  <2> QED
    BY <1>4, <2>0, <2>1 DEF Logged, Driven, Assigns
<1>8. phase # "nba"
  BY DEF Turns, Step
<1>9. Turns'
  <2>1. phase = "posedge" => running \in EdgeProcs /\ running \notin LevelProcs
    BY DEF Turns, Step, LevelProcs
  <2> QED
    BY <1>1, <1>2, <1>8, <2>1 DEF Turns, Moves
<1>10. AfterMark'
  BY <1>2, <1>8 DEF AfterMark
<1> HIDE DEF Stale
<1>11. AtEdge'
  <2> SUFFICES ASSUME phase = "posedge", NEW s \in RegSigs
               PROVE  /\ Stale(s)' \/ curr'[s] = sim'[s]
                      /\ pend'[s] # 0 => pend'[s] = next'[s]
                      /\ pend'[s] = 0 => next'[s] = sim'[s]
    BY <1>2 DEF AtEdge
  <2>1. e.kind # "blk"
    BY <1>1, <1>2 DEF Moves, Turns, Step, LevelProcs
  <2>2. Stale(s)' <=> Stale(s)
    BY <1>2, <1>3
  <2>3. CASE e.kind = "branch"
    BY <1>1, <2>2, <2>3 DEF Moves, AtEdge
  <2>4. CASE e.kind = "nba"
    <3>1. /\ next' = [next EXCEPT ![e.sig] = @ + 1]
          /\ pend' = [pend EXCEPT ![e.sig] = next[e.sig] + 1]
          /\ UNCHANGED << sim, curr >>
      BY <1>1, <2>4 DEF Moves
    <3> QED
      BY <1>2, <2>2, <3>1 DEF AtEdge, TypeOK
  <2> QED
    BY <1>2, <2>1, <2>3, <2>4 DEF EntryType
<1>12. Settled'
  <2> SUFFICES ASSUME phase \in {"react", "input"}, NEW s \in RegSigs
               PROVE  /\ pend'[s] # 0 => pend'[s] = next'[s]
                      /\ pend'[s] = 0 => next'[s] = sim'[s]
                      /\ Stale(s)' \/ (pend'[s] = 0 /\ curr'[s] = sim'[s])
    BY <1>2 DEF Settled
  <2>1. /\ pend[s] # 0 => pend[s] = next[s]
        /\ pend[s] = 0 => next[s] = sim[s]
        /\ Stale(s) \/ (pend[s] = 0 /\ curr[s] = sim[s])
    BY DEF Settled
  <2>2. CASE e.kind = "branch"
    BY <1>1, <1>3, <2>1, <2>2 DEF Moves
  <2>3. CASE e.kind = "nba"
    <3>1. /\ next' = [next EXCEPT ![e.sig] = @ + 1]
          /\ pend' = [pend EXCEPT ![e.sig] = next[e.sig] + 1]
          /\ UNCHANGED << sim, curr >>
      BY <1>1, <2>3 DEF Moves
    <3>2. e.late
      BY <1>2
    <3>3. CASE s = e.sig
      <4>1. Stale(s)'
        BY <1>3, <2>3, <3>2, <3>3
      <4>2. pend'[s] = next[s] + 1 /\ next'[s] = next[s] + 1
            /\ next[s] \in Nat
        BY <1>2, <3>1, <3>3 DEF TypeOK
      <4> QED
        BY <4>1, <4>2
    <3>4. CASE s # e.sig
      <4>1. pend'[s] = pend[s] /\ next'[s] = next[s]
        BY <3>1, <3>4 DEF TypeOK
      <4> QED
        BY <1>3, <2>1, <3>1, <4>1
    <3> QED
      BY <3>3, <3>4
  <2>4. CASE e.kind = "blk"
    <3>1. /\ next' = [next EXCEPT ![e.sig] = @ + 1]
          /\ curr' = [curr EXCEPT ![e.sig] = next[e.sig] + 1]
          /\ sim' = [sim EXCEPT ![e.sig] = next[e.sig] + 1]
          /\ UNCHANGED pend
      BY <1>1, <2>4 DEF Moves
    <3>2. ~ Stale(e.sig)
      BY <1>5, <1>6, <2>4
    <3>3. pend[e.sig] = 0
      BY <1>2, <3>2 DEF Settled
    <3> QED
      BY <1>2, <1>3, <2>1, <2>4, <3>1, <3>3 DEF TypeOK
  <2> QED
    BY <1>2, <2>2, <2>3, <2>4 DEF EntryType
<1> QED
  BY <1>7, <1>9, <1>10, <1>11, <1>12

-----------------------------------------------------------------------------
(* The relation of the versions to the values, phase by phase, is kept. *)
LEMMA VersionsStart == Init => (Disciplined => VersionInv)
BY DesignAssumption
   DEF Init, VersionInv, Logged, TypeOK, Turns, AtEdge, AfterMark, Settled

LEMMA VersionsStep ==
  (Disciplined => VersionInv) /\ TypeOK' /\ [Next]_vars
    => (Disciplined => VersionInv)'
<1> SUFFICES ASSUME VersionInv, TypeOK', [Next]_vars, Disciplined
             PROVE  Logged' /\ Turns' /\ AtEdge' /\ AfterMark' /\ Settled'
  BY DEF VersionInv, Disciplined
<1> USE DEF VersionInv
<1>0. stack' = stack => Logged'
  BY DEF Logged, Driven, Assigns
<1>1. stack' = stack /\ clock' = clock => \A s : Stale(s)' <=> Stale(s)
  BY DEF Stale
<1>2. ASSUME NEW p \in Procs, Run(p)
      PROVE  Logged' /\ Turns' /\ AtEdge' /\ AfterMark' /\ Settled'
  <2>1. /\ UNCHANGED << phase, sim, pend, clock, curr, next, stack >>
        /\ p \in todo /\ running' = p /\ todo' = todo \ {p}
    BY <1>2 DEF Run, reader
  <2>2. Turns'
    BY <2>1 DEF Turns
  <2> QED
    BY <1>0, <1>1, <2>1, <2>2 DEF AtEdge, AfterMark, Settled
<1>3. ASSUME NEW k \in Steps, NEW woken \in SUBSET Procs,
             Step(k, woken)
      PROVE  Logged' /\ Turns' /\ AtEdge' /\ AfterMark' /\ Settled'
  BY <1>3, StepKeepsVersions
<1>4. CASE EndRun
  <2>1. /\ UNCHANGED << phase, todo, sim, pend, clock, curr, next, stack >>
        /\ running' = NoProc
    BY <1>4 DEF EndRun, reader
  <2>2. Turns'
    BY <2>1 DEF Turns
  <2> QED
    BY <1>0, <1>1, <2>1, <2>2 DEF AtEdge, AfterMark, Settled
<1>5. CASE Mark
  <2>1. /\ phase = "posedge" /\ phase' = "nba" /\ curr' = next
        /\ running = NoProc /\ todo = {}
        /\ UNCHANGED << todo, running, sim, pend, next, stack >>
    BY <1>5 DEF Mark, Idle
  <2> QED
    BY <1>0, <2>1 DEF Turns, AtEdge, AfterMark, Settled
<1>6. ASSUME NEW woken \in SUBSET Procs, Apply(woken)
      PROVE  Logged' /\ Turns' /\ AtEdge' /\ AfterMark' /\ Settled'
  <2>1. /\ phase \in {"nba", "react", "input"}
        /\ phase' \in {"react", "input"}
        /\ phase' = IF phase = "nba" THEN "react" ELSE phase
        /\ UNCHANGED << clock, curr, next, stack >>
        /\ sim' = [s \in RegSigs |-> IF pend[s] # 0 THEN pend[s] ELSE sim[s]]
        /\ pend' = [s \in RegSigs |-> 0]
    BY <1>6 DEF Apply, Idle, TypeOK, reader
  <2>2. Turns' /\ AtEdge' /\ AfterMark'
    BY <2>1 DEF Turns, AtEdge, AfterMark
  <2>3. Settled'
    <3>1. CASE phase = "nba"
      BY <2>1, <3>1 DEF AfterMark, Settled
    <3>2. CASE phase \in {"react", "input"}
      BY <1>1, <2>1, <3>2 DEF Settled
    <3> QED
      BY <2>1, <3>1, <3>2
  <2> QED
    BY <1>0, <2>1, <2>2, <2>3
<1>7. ASSUME NEW woken \in SUBSET Procs, InputChange(woken)
      PROVE  Logged' /\ Turns' /\ AtEdge' /\ AfterMark' /\ Settled'
  <2>1. /\ phase = "react" /\ phase' = "input"
        /\ UNCHANGED << sim, pend, clock, curr, next, stack >>
    BY <1>7 DEF InputChange, reader
  <2> QED
    BY <1>0, <1>1, <2>1 DEF Turns, AtEdge, AfterMark, Settled
<1>8. CASE Posedge
  <2>1. /\ phase = "input" /\ phase' = "posedge"
        /\ running' = NoProc /\ todo' = EdgeProcs
        /\ UNCHANGED << sim, pend, clock, curr, next, stack >>
    BY <1>8 DEF Posedge, Idle, reader
  <2> QED
    BY <1>0, <1>1, <2>1 DEF Turns, AtEdge, AfterMark, Settled
<1>9. CASE UNCHANGED vars
  <2>1. UNCHANGED << phase, todo, running, sim, pend, clock, curr, next, stack >>
    BY <1>9 DEF vars
  <2> QED
    BY <1>0, <1>1, <2>1 DEF Turns, AtEdge, AfterMark, Settled
<1> QED
  BY <1>2, <1>3, <1>4, <1>5, <1>6, <1>7, <1>8, <1>9 DEF Next

(* In a design that follows the coding rule every term is made from the
   versions whose values the process reads, in any order of the processes,
   but for registers assigned again since the mark. *)
THEOREM TermsReadCurrent == Spec => []ReadsCurrent
<1>1. (Disciplined => VersionInv) => ReadsCurrent
  <2> SUFFICES ASSUME VersionInv, running # NoProc, NEW s \in RegSigs
               PROVE  Stale(s) \/ curr[s] = sim[s]
    BY DEF ReadsCurrent
  <2>1. phase \in {"posedge", "react", "input"}
    BY DEF VersionInv, TypeOK, Turns
  <2>2. QED
    BY <2>1 DEF VersionInv, AtEdge, Settled
<1>2. QED
  BY <1>1, VersionsStart, VersionsStep, TypeCorrect, PTL DEF Spec

(***************************************************************************)
(* The inputs keep the row they have over the edge: the mark counts on at  *)
(* its end, and the row of that number comes before the next one.          *)
(***************************************************************************)
InputInv ==
  /\ phase \in {"nba", "react"} => inVer = clock
  /\ phase = "input" => inVer = clock /\ simIn = clock
  /\ phase = "posedge" => inVer = simIn

(* Edge-triggered processes read the inputs in the version that the terms
   name, whatever the design. *)
THEOREM EdgesReadCurrentInputs == Spec => []EdgeInputsCurrent
<1>1. Init => InputInv
  BY DEF Init, InputInv
<1>2. InputInv /\ [Next]_vars => InputInv'
  <2> SUFFICES ASSUME InputInv, [Next]_vars PROVE InputInv'
    OBVIOUS
  <2> USE DEF InputInv
  <2>1. ASSUME NEW p \in Procs, Run(p) PROVE InputInv'
    BY <2>1 DEF Run, reader
  <2>2. ASSUME NEW k \in Steps, NEW woken \in SUBSET Procs,
               Step(k, woken)
        PROVE  InputInv'
    BY <2>2 DEF Step
  <2>3. CASE EndRun
    BY <2>3 DEF EndRun, reader
  <2>4. CASE Mark
    BY <2>4 DEF Mark
  <2>5. ASSUME NEW woken \in SUBSET Procs, Apply(woken) PROVE InputInv'
    BY <2>5 DEF Apply, reader
  <2>6. ASSUME NEW woken \in SUBSET Procs, InputChange(woken)
        PROVE  InputInv'
    BY <2>6 DEF InputChange, reader
  <2>7. CASE Posedge
    BY <2>7 DEF Posedge, reader
  <2>8. CASE UNCHANGED vars
    BY <2>8 DEF vars
  <2>9. QED
    BY <2>1, <2>2, <2>3, <2>4, <2>5, <2>6, <2>7, <2>8 DEF Next
<1>3. InputInv => EdgeInputsCurrent
  BY DEF InputInv, EdgeInputsCurrent
<1>4. QED
  BY <1>1, <1>2, <1>3, PTL DEF Spec

-----------------------------------------------------------------------------
(***************************************************************************)
(* The terms made again.  A design has one driver when no two              *)
(* edge-triggered processes assign the same signal.                        *)
(***************************************************************************)
OneDriver == \A p, q \in EdgeProcs, s \in RegSigs :
               Assigns(p, s) /\ Assigns(q, s) => p = q

InOrder ==
  /\ stack \in Seq(EntryType)
  /\ \A j \in 1 .. Len(stack) :
       /\ stack[j].clk <= clock
       /\ \A i \in 1 .. j : stack[i].clk <= stack[j].clk

(***************************************************************************)
(* The replay for process p of all that was read: every clock starts from  *)
(* the versions recorded for it, and goes on with the constraints of p and *)
(* of the level-sensitive processes.                                       *)
(***************************************************************************)
Versions == [curr : [RegSigs -> Nat], next : [RegSigs -> Nat]]

AtStart(c) == [curr |-> atClock[c], next |-> atClock[c]]

Redone(e, w) ==
  [next |-> [w.next EXCEPT ![e.sig] = @ + 1],
   curr |-> IF e.kind = "nba" THEN w.curr
            ELSE [w.curr EXCEPT ![e.sig] = w.next[e.sig] + 1]]

Stays(p, e) == e.proc \in LevelProcs \/ e.proc = p

Following(p, e, w) ==
  IF e.kind = "branch" \/ ~ Stays(p, e) THEN w ELSE Redone(e, w)

Before(v, j, c) ==
  IF j > 1 /\ stack[j - 1].clk = c THEN v[j - 1] ELSE AtStart(c)

Same(p, e, w) ==
  Stays(p, e) =>
    /\ \A s \in DOMAIN e.used \ InputSigs : e.used[s] = w.curr[s]
    /\ e.kind # "branch" => e.def = w.next[e.sig] + 1

Replay(p, v) ==
  /\ v \in [1 .. Len(stack) -> Versions]
  /\ \A j \in 1 .. Len(stack) :
       /\ v[j] = Following(p, stack[j], Before(v, j, stack[j].clk))
       /\ Same(p, stack[j], Before(v, j, stack[j].clk))

(* What a constraint read now is replayed from.  The next versions of what *)
(* other edge-triggered processes assign may differ.                       *)
Now(v) == Before(v, Len(stack) + 1, clock)

Others(p, s) == \E q \in EdgeProcs \ {p} : Assigns(q, s)

Meets(p, w) ==
  /\ curr = w.curr
  /\ \A s \in RegSigs : ~ Others(p, s) => next[s] = w.next[s]

Replayed == \A p \in Procs : \E v : Replay(p, v) /\ Meets(p, Now(v))

RemakeInv == VersionInv /\ InOrder /\ Replayed

Checks == Disciplined /\ OneDriver => RemakeInv

LEMMA RemakeStart == Init => Checks
<1> SUFFICES ASSUME Init, Disciplined PROVE InOrder /\ Replayed
  BY VersionsStart DEF Checks, RemakeInv
<1>1. stack = << >> /\ Len(stack) = 0
  BY DEF Init
<1>2. InOrder
  BY <1>1 DEF InOrder
<1>3. ASSUME NEW p \in Procs
      PROVE  \E v : Replay(p, v) /\ Meets(p, Now(v))
  <2>1. Replay(p, << >>)
    BY <1>1 DEF Replay
  <2>2. Now(<< >>) = AtStart(clock)
    BY <1>1 DEF Now, Before
  <2>3. Meets(p, AtStart(clock))
    BY DesignAssumption DEF Init, Meets, AtStart
  <2> QED
    BY <2>1, <2>2, <2>3
<1> QED
  BY <1>2, <1>3 DEF Replayed

(* A constraint is replayed from versions of their type. *)
LEMMA BeforeTyped ==
  ASSUME TypeOK, NEW p, NEW v, Replay(p, v), NEW c \in 0 .. MaxClock,
         NEW j \in 1 .. Len(stack) + 1, stack \in Seq(EntryType)
  PROVE  Before(v, j, c) \in Versions
<1>1. AtStart(c) \in Versions
  BY DEF TypeOK, AtStart, Versions
<1>2. j > 1 => v[j - 1] \in Versions
  <2>1. j > 1 => j - 1 \in 1 .. Len(stack)
    OBVIOUS
  <2> QED
    BY <2>1 DEF Replay
<1> QED
  BY <1>1, <1>2 DEF Before

LEMMA StackInOrder ==
  ASSUME InOrder, TypeOK, NEW e \in EntryType, e.clk = clock,
         stack' = Append(stack, e), clock' = clock
  PROVE  InOrder'
<1>1. stack' \in Seq(EntryType) /\ Len(stack') = Len(stack) + 1
  BY DEF InOrder
<1>2. \A j \in 1 .. Len(stack) : stack'[j] = stack[j]
  BY DEF InOrder
<1>3. stack'[Len(stack) + 1] = e
  BY DEF InOrder
<1>4. ASSUME NEW j \in 1 .. Len(stack')
      PROVE  /\ stack'[j].clk <= clock'
             /\ \A i \in 1 .. j : stack'[i].clk <= stack'[j].clk
  <2>1. CASE j \in 1 .. Len(stack)
    <3>1. \A i \in 1 .. j : stack'[i] = stack[i]
      BY <1>2, <2>1 DEF InOrder
    <3> QED
      BY <1>2, <2>1, <3>1 DEF InOrder
  <2>2. CASE j = Len(stack) + 1
    <3>1. \A i \in 1 .. j : stack'[i].clk <= clock
      <4> TAKE i \in 1 .. j
      <4>1. CASE i \in 1 .. Len(stack)
        BY <1>2, <4>1 DEF InOrder
      <4>2. CASE i = Len(stack) + 1
        BY <1>3, <4>2 DEF TypeOK
      <4> QED
        BY <2>2, <4>1, <4>2 DEF InOrder
    <3> QED
      BY <1>3, <2>2, <3>1 DEF TypeOK
  <2> QED
    BY <1>1, <2>1, <2>2 DEF InOrder
<1> QED
  BY <1>1, <1>4 DEF InOrder

(* The replay goes on with the constraint read last. *)
LEMMA ReplayGoesOn ==
  ASSUME InOrder, TypeOK, NEW p \in Procs, NEW v, Replay(p, v),
         NEW e \in EntryType, e.clk = clock,
         stack' = Append(stack, e), UNCHANGED << clock, atClock >>,
         Same(p, e, Now(v)), Following(p, e, Now(v)) \in Versions
  PROVE  \E w : /\ Replay(p, w)'
                /\ Now(w)' = Following(p, e, Now(v))
<1>0. PICK n \in Nat : n = Len(stack)
  BY DEF InOrder
<1>1. PICK w : w = [j \in 1 .. n + 1 |->
                      IF j <= n THEN v[j] ELSE Following(p, e, Now(v))]
  OBVIOUS
<1>2. n \in Nat /\ Len(stack') = n + 1
  BY <1>0 DEF InOrder
<1>3. \A j \in 1 .. n : stack'[j] = stack[j]
  BY <1>0 DEF InOrder
<1>4. stack'[n + 1] = e
  BY <1>0 DEF InOrder
<1>5. \A j \in 1 .. n : w[j] = v[j]
  BY <1>1, <1>2
<1>6. w[n + 1] = Following(p, e, Now(v))
  BY <1>1, <1>2
<1>7. w \in [1 .. n + 1 -> Versions]
  <2>1. \A j \in 1 .. n : v[j] \in Versions
    BY <1>0 DEF Replay
  <2> QED
    BY <1>1, <1>2, <2>1
<1>8. ASSUME NEW j \in 1 .. n
      PROVE  Before(w, j, stack[j].clk)' = Before(v, j, stack[j].clk)
  <2>1. j > 1 => j - 1 \in 1 .. n
    BY <1>2
  <2>2. stack'[j].clk = stack[j].clk
    BY <1>3
  <2>3. j > 1 => w[j - 1] = v[j - 1] /\ stack'[j - 1] = stack[j - 1]
    BY <1>3, <1>5, <2>1
  <2> QED
    BY <2>2, <2>3 DEF Before, AtStart
<1>9. Before(w, n + 1, stack[n + 1].clk)' = Now(v)
  <2>1. n > 0 => n \in 1 .. n
    BY <1>2
  <2>2. n > 0 => w[n] = v[n] /\ stack'[n] = stack[n]
    BY <1>3, <1>5, <2>1
  <2> QED
    BY <1>0, <1>2, <1>4, <2>2 DEF Before, AtStart, Now
<1>10. Replay(p, w)'
  <2>1. ASSUME NEW j \in 1 .. n
        PROVE  /\ w[j] = Following(p, stack'[j], Before(w, j, stack[j].clk)')
               /\ Same(p, stack'[j], Before(w, j, stack[j].clk)')
    BY <1>0, <1>3, <1>5, <1>8, <2>1 DEF Replay
  <2>2. /\ w[n + 1] = Following(p, stack'[n + 1],
                                Before(w, n + 1, stack[n + 1].clk)')
        /\ Same(p, stack'[n + 1], Before(w, n + 1, stack[n + 1].clk)')
    BY <1>4, <1>6, <1>9
  <2>3. w \in [1 .. Len(stack') -> Versions]
    BY <1>2, <1>7
  <2> QED
    BY <1>2, <2>1, <2>2, <2>3 DEF Replay
<1>11. Now(w)' = Following(p, e, Now(v))
  BY <1>2, <1>4, <1>6 DEF Now, Before
<1> QED
  BY <1>10, <1>11

(* What an edge-triggered process assigns, no other does. *)
LEMMA DrivenOnce ==
  ASSUME OneDriver, NEW q \in EdgeProcs, NEW s \in RegSigs, Assigns(q, s),
         NEW p \in Procs
  PROVE  Others(p, s) <=> p # q
BY DEF OneDriver, Others

LEMMA ReplayMeets ==
  ASSUME TypeOK, NEW p \in Procs, NEW w \in Versions, Meets(p, w),
         NEW e, NEW step, Puts(e, step), Moves(e),
         e.kind = "nba" => (Others(p, e.sig) <=> p # e.proc),
         e.kind = "blk" => ~ Others(p, e.sig)
  PROVE  /\ Same(p, e, w)
         /\ Following(p, e, w) \in Versions
         /\ Meets(p, Following(p, e, w))'
<1>1. /\ e.sig \in RegSigs
      /\ w.curr \in [RegSigs -> Nat] /\ w.next \in [RegSigs -> Nat]
      /\ EdgeProcs \cap LevelProcs = {}
  BY DEF Puts, EntryType, Versions, LevelProcs
<1>2. curr = w.curr
  BY DEF Meets
<1>3. \A s \in DOMAIN e.used \ InputSigs : e.used[s] = w.curr[s]
  BY <1>2 DEF Puts
<1>4. Redone(e, w) \in Versions
  BY <1>1 DEF Redone, Versions
<1>5. Following(p, e, w) \in Versions
  BY <1>4 DEF Following
<1>6. CASE e.kind = "branch"
  <2>1. Following(p, e, w) = w /\ UNCHANGED << curr, next >>
    BY <1>6 DEF Following, Moves
  <2>2. Meets(p, w)'
    BY <1>1, <2>1 DEF Meets, Others, Assigns
  <2>3. Same(p, e, w)
    BY <1>3, <1>6 DEF Same
  <2> QED
    BY <1>5, <2>1, <2>2, <2>3 DEF Meets
<1>7. CASE /\ e.kind = "nba" /\ e.proc \in EdgeProcs
           /\ next' = [next EXCEPT ![e.sig] = @ + 1]
           /\ UNCHANGED curr
  <2>1. Others(p, e.sig) <=> p # e.proc
    BY <1>7
  <2>2. Stays(p, e) <=> p = e.proc
    BY <1>1, <1>7 DEF Stays
  <2>3. CASE p = e.proc
    <3>1. next[e.sig] = w.next[e.sig]
      BY <1>1, <2>1, <2>3 DEF Meets
    <3>2. Same(p, e, w)
      BY <1>3, <1>7, <3>1 DEF Same, Puts
    <3>3. PICK g : g = Following(p, e, w)
      OBVIOUS
    <3>4. g.curr = w.curr /\ g.next = [w.next EXCEPT ![e.sig] = @ + 1]
      BY <1>7, <2>2, <2>3, <3>3 DEF Following, Redone
    <3>5. g.next \in [RegSigs -> Nat]
      BY <1>5, <3>3 DEF Versions
    <3>6. ASSUME NEW s \in RegSigs, ~ Others(p, s)
          PROVE  next'[s] = g.next[s]
      BY <1>1, <1>7, <3>1, <3>4, <3>6 DEF Meets, TypeOK
    <3>7. Meets(p, g)'
      BY <1>1, <1>2, <1>7, <3>4, <3>6 DEF Meets, Others, Assigns
    <3> QED
      BY <1>5, <3>2, <3>3, <3>7 DEF Meets
  <2>4. CASE p # e.proc
    <3>1. Same(p, e, w)
      BY <2>2, <2>4 DEF Same
    <3>2. Following(p, e, w) = w
      BY <2>2, <2>4 DEF Following
    <3>3. ASSUME NEW s \in RegSigs, ~ Others(p, s)
          PROVE  next'[s] = w.next[s]
      <4>1. s # e.sig
        BY <2>1, <2>4, <3>3
      <4> QED
        BY <1>1, <1>7, <3>3, <4>1 DEF Meets, TypeOK
    <3>4. Meets(p, w)'
      BY <1>1, <1>2, <1>7, <3>3 DEF Meets, Others, Assigns
    <3> QED
      BY <1>5, <3>1, <3>2, <3>4 DEF Meets
  <2> QED
    BY <2>3, <2>4
<1>8. CASE /\ e.kind = "blk" /\ e.proc \in LevelProcs
           /\ next' = [next EXCEPT ![e.sig] = @ + 1]
           /\ curr' = [curr EXCEPT ![e.sig] = next[e.sig] + 1]
  <2>1. next[e.sig] = w.next[e.sig]
    BY <1>1, <1>8 DEF Meets
  <2>2. Stays(p, e)
    BY <1>8 DEF Stays
  <2>3. Same(p, e, w)
    BY <1>3, <1>8, <2>1 DEF Same, Puts
  <2>4. PICK g : g = Following(p, e, w)
    OBVIOUS
  <2>5. g = [next |-> [w.next EXCEPT ![e.sig] = @ + 1],
             curr |-> [w.curr EXCEPT ![e.sig] = w.next[e.sig] + 1]]
    BY <1>8, <2>2, <2>4 DEF Following, Redone
  <2>6. curr' = g.curr
    BY <1>2, <1>8, <2>1, <2>5
  <2>7. ASSUME NEW s \in RegSigs, ~ Others(p, s)
        PROVE  next'[s] = g.next[s]
    BY <1>1, <1>8, <2>1, <2>5, <2>7 DEF Meets, TypeOK
  <2>8. Meets(p, g)'
    BY <2>6, <2>7 DEF Meets, Others, Assigns
  <2> QED
    BY <1>5, <2>3, <2>4, <2>8 DEF Meets
<1> QED
  BY <1>6, <1>7, <1>8 DEF Moves

LEMMA StepRemakes ==
  ASSUME RemakeInv, Disciplined, OneDriver,
         NEW k \in Steps, NEW woken \in SUBSET Procs, Step(k, woken)
  PROVE  InOrder' /\ Replayed'
<1> USE DEF RemakeInv, VersionInv
<1>1. PICK e : /\ Puts(e, Body[running][k]) /\ Moves(e)
               /\ e.kind # "branch" => Assigns(running, e.sig)
  BY StepPuts
<1>2. InOrder'
  BY <1>1, StackInOrder DEF Puts
<1>3. e.proc = running /\ e.sig \in RegSigs
  BY <1>1 DEF Puts, EntryType
<1>4. ASSUME NEW p \in Procs
      PROVE  \E w : Replay(p, w)' /\ Meets(p, Now(w))'
  <2>1. PICK v : Replay(p, v) /\ Meets(p, Now(v))
    BY DEF Replayed
  <2>2. PICK w0 : w0 = Now(v)
    OBVIOUS
  <2>3. w0 \in Versions
    <3>1. Len(stack) + 1 \in 1 .. Len(stack) + 1
      BY DEF InOrder
    <3> QED
      BY <2>1, <2>2, <3>1, BeforeTyped DEF Now, InOrder, TypeOK
  <2>4. e.kind = "nba" => (Others(p, e.sig) <=> p # e.proc)
    BY <1>1, <1>3, DrivenOnce DEF Moves
  <2>10. e.kind = "blk" => ~ Others(p, e.sig)
    BY <1>1, <1>3, Apart DEF Moves, Others, Driven
  <2>5. /\ Same(p, e, w0)
        /\ Following(p, e, w0) \in Versions
        /\ Meets(p, Following(p, e, w0))'
    BY <1>1, <2>1, <2>2, <2>3, <2>4, <2>10, ReplayMeets
  <2>6. PICK g : g = Following(p, e, w0)
    OBVIOUS
  <2>7. Meets(p, g)'
    BY <2>5, <2>6 DEF Meets
  <2>8. PICK w : Replay(p, w)' /\ Now(w)' = g
    BY <1>1, <2>1, <2>2, <2>5, <2>6, ReplayGoesOn DEF Puts
  <2>9. Meets(p, Now(w))'
    BY <2>7, <2>8 DEF Meets
  <2> QED
    BY <2>8, <2>9
<1> QED
  BY <1>2, <1>4 DEF Replayed

(* Nothing is read: the replays stay what they are. *)
LEMMA QuietRemakes ==
  ASSUME RemakeInv, UNCHANGED reader
  PROVE  InOrder' /\ Replayed'
<1>1. UNCHANGED << clock, curr, next, atClock, stack >>
  BY DEF reader
<1>2. InOrder'
  BY <1>1 DEF RemakeInv, InOrder
<1>3. ASSUME NEW p \in Procs, NEW v, Replay(p, v), Meets(p, Now(v))
      PROVE  Replay(p, v)' /\ Meets(p, Now(v))'
  <2>1. Replay(p, v)'
    BY <1>1, <1>3 DEF Replay, Before, AtStart
  <2>2. Meets(p, Now(v))'
    BY <1>1, <1>3 DEF Meets, Now, Before, AtStart, Others, Assigns
  <2> QED
    BY <2>1, <2>2
<1> QED
  BY <1>2, <1>3 DEF RemakeInv, Replayed

(* The mark starts a clock: nothing of it is on the stack yet, and what is
   there does not start from the versions recorded now. *)
LEMMA MarkRemakes ==
  ASSUME RemakeInv, Mark
  PROVE  InOrder' /\ Replayed'
<1>1. /\ clock \in 0 .. MaxClock /\ clock' = clock + 1
      /\ clock' \in 0 .. MaxClock
      /\ UNCHANGED << next, stack >>
      /\ curr' = next
      /\ atClock' = [atClock EXCEPT ![clock + 1] = next]
      /\ atClock \in [0 .. MaxClock -> [RegSigs -> Nat]]
  BY DesignAssumption DEF Mark, RemakeInv, VersionInv, TypeOK
<1>2. /\ stack \in Seq(EntryType)
      /\ \A j \in 1 .. Len(stack) :
           stack[j].clk \in 0 .. MaxClock /\ stack[j].clk <= clock
  <2>1. \A j \in 1 .. Len(stack) : stack[j] \in EntryType
    BY DEF RemakeInv, InOrder
  <2> QED
    BY <2>1 DEF RemakeInv, InOrder, EntryType
<1>3. InOrder'
  BY <1>1, <1>2 DEF RemakeInv, InOrder
<1>4. AtStart(clock)' = [curr |-> next, next |-> next]
  BY <1>1 DEF AtStart
<1>5. ASSUME NEW p \in Procs, NEW v, Replay(p, v)
      PROVE  Replay(p, v)' /\ Meets(p, Now(v))'
  <2>1. ASSUME NEW j \in 1 .. Len(stack)
        PROVE  Before(v, j, stack[j].clk)' = Before(v, j, stack[j].clk)
    <3>1. stack[j].clk # clock + 1
      BY <1>1, <1>2
    <3>2. atClock'[stack[j].clk] = atClock[stack[j].clk]
      BY <1>1, <1>2, <3>1
    <3> QED
      BY <1>1, <3>2 DEF Before, AtStart
  <2>2. Replay(p, v)'
    BY <1>1, <1>5, <2>1 DEF Replay
  <2>3. Now(v)' = AtStart(clock)'
    <3>1. Len(stack) > 0 => Len(stack) \in 1 .. Len(stack)
      BY <1>2
    <3>2. Len(stack) > 0 => stack[Len(stack)].clk # clock + 1
      BY <1>1, <1>2, <3>1
    <3> QED
      BY <1>1, <1>2, <3>2 DEF Now, Before
  <2>4. Meets(p, Now(v))'
    BY <1>1, <1>4, <2>3 DEF Meets
  <2> QED
    BY <2>2, <2>4
<1> QED
  BY <1>3, <1>5 DEF RemakeInv, Replayed

LEMMA RemakeStep == Checks /\ TypeOK' /\ [Next]_vars => Checks'
<1> SUFFICES ASSUME RemakeInv, Disciplined, OneDriver, TypeOK', [Next]_vars
             PROVE  InOrder' /\ Replayed'
  BY VersionsStep DEF Checks, RemakeInv
<1>1. ASSUME NEW p \in Procs, Run(p) PROVE InOrder' /\ Replayed'
  BY <1>1, QuietRemakes DEF Run, reader
<1>2. ASSUME NEW k \in Steps, NEW woken \in SUBSET Procs,
             Step(k, woken)
      PROVE  InOrder' /\ Replayed'
  BY <1>2, StepRemakes
<1>3. CASE EndRun
  BY <1>3, QuietRemakes DEF EndRun, reader
<1>4. CASE Mark
  BY <1>4, MarkRemakes
<1>5. ASSUME NEW woken \in SUBSET Procs, Apply(woken)
      PROVE  InOrder' /\ Replayed'
  BY <1>5, QuietRemakes DEF Apply, reader
<1>6. ASSUME NEW woken \in SUBSET Procs, InputChange(woken)
      PROVE  InOrder' /\ Replayed'
  BY <1>6, QuietRemakes DEF InputChange, reader
<1>7. CASE Posedge
  BY <1>7, QuietRemakes DEF Posedge, reader
<1>8. CASE UNCHANGED vars
  BY <1>8, QuietRemakes DEF vars, reader
<1> QED
  BY <1>1, <1>2, <1>3, <1>4, <1>5, <1>6, <1>7, <1>8 DEF Next

-----------------------------------------------------------------------------
(* The clock of a constraint has a first one, and from there to it all are
   of that clock. *)
LEMMA FirstFound ==
  ASSUME InOrder, NEW k \in 1 .. Len(stack)
  PROVE  LET F == FirstOf(stack[k].clk)
         IN  /\ F \in 1 .. k
             /\ \A j \in F .. k : stack[j].clk = stack[k].clk
             /\ \A j \in 1 .. F - 1 : stack[j].clk # stack[k].clk
<1> DEFINE c == stack[k].clk
           S == {j \in 1 .. Len(stack) : stack[j].clk = c}
           Is(j) == stack[j].clk = c /\ \A i \in 1 .. j - 1 : stack[i].clk # c
           F == FirstOf(c)
<1>1. S \in SUBSET Nat /\ k \in S
  OBVIOUS
<1>2. PICK m \in S : \A n \in S : m <= n
  BY <1>1, LeastNumber
<1>3. DOMAIN stack = 1 .. Len(stack) /\ Len(stack) \in Nat
  BY DEF InOrder
<1>4. m \in DOMAIN stack /\ Is(m)
  BY <1>2, <1>3
<1>5. F \in DOMAIN stack /\ Is(F)
  <2> HIDE DEF c
  <2> QED
    BY <1>4 DEF FirstOf
<1>6. F \in 1 .. k
  BY <1>3, <1>5
<1>7. ASSUME NEW j \in F .. k
      PROVE  stack[j].clk = c
  <2> HIDE DEF F
  <2>1. j \in 1 .. Len(stack) /\ F \in 1 .. j /\ j \in 1 .. k
        /\ F \in 1 .. Len(stack)
    BY <1>3, <1>6
  <2>2. stack[F].clk <= stack[j].clk /\ stack[j].clk <= stack[k].clk
    BY <2>1 DEF InOrder
  <2>3. stack[F] \in EntryType /\ stack[j] \in EntryType
        /\ stack[k] \in EntryType
    BY <2>1 DEF InOrder
  <2>4. stack[F].clk \in Int /\ stack[j].clk \in Int /\ stack[k].clk \in Int
    BY <2>3, DesignAssumption DEF EntryType
  <2> QED
    BY <1>5, <2>2, <2>4
<1> QED
  BY <1>5, <1>6, <1>7

(* What find_next_cfg restores for the branch k is the replay for its
   process: both start from the versions of the clock and go on alike. *)
LEMMA RestoredIsReplay ==
  ASSUME InOrder, NEW k \in 1 .. Len(stack), NEW p, p = stack[k].proc,
         NEW v, Replay(p, v)
  PROVE  LET F == FirstOf(stack[k].clk)
         IN  \A j \in F .. k :
               /\ Restored(k)[j - 1] = Before(v, j, stack[k].clk)
               /\ Restored(k)[j] = v[j]
<1> DEFINE c == stack[k].clk
           F == FirstOf(c)
           Again(j, w) ==
             IF j < F THEN [curr |-> atClock[c], next |-> atClock[c]]
             ELSE IF stack[j].kind = "branch" \/ ~ Kept(j, k) THEN w[j - 1]
                  ELSE [next |-> [w[j - 1].next EXCEPT ![stack[j].sig] = @ + 1],
                        curr |-> IF stack[j].kind = "nba" THEN w[j - 1].curr
                                 ELSE [w[j - 1].curr EXCEPT ![stack[j].sig] =
                                         w[j - 1].next[stack[j].sig] + 1]]
           Right(w) == w = [j \in F - 1 .. k |-> Again(j, w)]
<1>1. /\ F \in 1 .. k
      /\ \A j \in F .. k : stack[j].clk = c
      /\ \A j \in 1 .. F - 1 : stack[j].clk # c
      /\ k \in Nat
  BY FirstFound
<1>2. Restored(k) = CHOOSE w : Right(w)
  BY DEF Restored
<1>3. ASSUME NEW j \in F .. k, NEW w
      PROVE  Again(j, w) = Following(p, stack[j], w[j - 1])
  BY <1>1, <1>3 DEF Following, Redone, Kept, Stays
<1> HIDE DEF c
<1>4. ASSUME NEW w
      PROVE  Again(F - 1, w) = AtStart(c)
  BY <1>1 DEF AtStart
<1> HIDE DEF F, Again
<1>5. ASSUME NEW j \in F .. k
      PROVE  /\ Before(v, j, c) = IF j = F THEN AtStart(c) ELSE v[j - 1]
             /\ v[j] = Following(p, stack[j], Before(v, j, c))
  <2>1. j \in 1 .. Len(stack) /\ stack[j].clk = c
    BY <1>1
  <2>2. j = F => \/ j = 1
                 \/ stack[j - 1].clk # c
    BY <1>1
  <2>3. j # F => j > 1 /\ stack[j - 1].clk = c
    BY <1>1
  <2> QED
    BY <2>1, <2>2, <2>3 DEF Before, Replay
<1> DEFINE u == [j \in F - 1 .. k |-> IF j = F - 1 THEN AtStart(c) ELSE v[j]]
<1>6. ASSUME NEW j \in F .. k
      PROVE  u[j - 1] = Before(v, j, c) /\ u[j] = v[j]
  BY <1>1, <1>5
<1>7. Right(u)
  <2>1. ASSUME NEW j \in F - 1 .. k
        PROVE  u[j] = Again(j, u)
    <3>1. CASE j = F - 1
      BY <1>1, <1>4, <3>1
    <3>2. CASE j \in F .. k
      <4> HIDE DEF u
      <4> QED
        BY <1>3, <1>5, <1>6, <3>2
    <3> QED
      BY <1>1, <3>1, <3>2
  <2> QED
    BY <2>1
<1> HIDE DEF u
<1>8. PICK r : r = Restored(k) /\ Right(r)
  <2> HIDE DEF Right
  <2> QED
    BY <1>2, <1>7
<1>9. ASSUME NEW j \in F - 1 .. k
      PROVE  r[j] = Again(j, r)
  BY <1>8
<1> HIDE DEF Right
<1> DEFINE S == {n \in Nat : r[F - 1 + n] = u[F - 1 + n]}
<1>10. u[F - 1] = AtStart(c)
  BY <1>1 DEF u
<1>11. 0 \in S
  <2>1. F - 1 \in F - 1 .. k /\ F - 1 + 0 = F - 1
    BY <1>1
  <2> QED
    BY <1>4, <1>9, <1>10, <2>1
<1>12. \A n \in 0 .. (k - F + 1) - 1 : n \in S => n + 1 \in S
  <2> SUFFICES ASSUME NEW n \in 0 .. (k - F + 1) - 1,
                      r[F - 1 + n] = u[F - 1 + n]
               PROVE  r[F - 1 + (n + 1)] = u[F - 1 + (n + 1)]
    BY <1>1
  <2>1. PICK j \in F .. k : j = F + n
    BY <1>1
  <2>2. j - 1 = F - 1 + n /\ j = F - 1 + (n + 1) /\ j \in F - 1 .. k
    BY <1>1, <2>1
  <2>3. r[j] = Following(p, stack[j], r[j - 1])
    BY <1>3, <1>9, <2>2
  <2>4. u[j] = Following(p, stack[j], u[j - 1])
    BY <1>5, <1>6
  <2> QED
    BY <2>2, <2>3, <2>4
<1> HIDE DEF S
<1>13. \A n \in 0 .. k - F + 1 : n \in S
  <2>1. PICK N \in Nat : N = k - F + 1
    BY <1>1
  <2>2. \A n \in 0 .. N - 1 : n \in S => n + 1 \in S
    BY <1>12, <2>1
  <2>3. \A n \in 0 .. N : n \in S
    BY <1>11, <2>2, UpTo
  <2> QED
    BY <2>1, <2>3
<1>14. ASSUME NEW j \in F - 1 .. k
       PROVE  r[j] = u[j]
  <2>1. j - F + 1 \in 0 .. k - F + 1 /\ F - 1 + (j - F + 1) = j
    BY <1>1
  <2>2. j - F + 1 \in S
    BY <1>13, <2>1
  <2> QED
    BY <2>1, <2>2 DEF S
<1>15. ASSUME NEW j \in F .. k
       PROVE  r[j - 1] = Before(v, j, c) /\ r[j] = v[j]
  <2>1. j \in F - 1 .. k /\ j - 1 \in F - 1 .. k
    BY <1>1
  <2> QED
    BY <1>6, <1>14, <2>1
<1> QED
  BY <1>8, <1>15 DEF c, F

LEMMA ReplaysRemade == RemakeInv => TermsRemade
<1> SUFFICES ASSUME RemakeInv, NEW k \in DOMAIN stack,
                    NEW j \in FirstOf(stack[k].clk) .. k, Kept(j, k)
             PROVE  LET v == Restored(k) IN
                      /\ \A s \in DOMAIN stack[j].used \ InputSigs :
                           stack[j].used[s] = v[j - 1].curr[s]
                      /\ stack[j].kind # "branch" =>
                           stack[j].def = v[j].next[stack[j].sig]
  BY DEF TermsRemade
<1>1. InOrder /\ k \in 1 .. Len(stack) /\ stack \in Seq(EntryType)
  BY DEF RemakeInv, InOrder
<1>2. j \in 1 .. Len(stack) /\ stack[j].clk = stack[k].clk
  BY <1>1, FirstFound
<1>3. stack[j] \in EntryType /\ stack[k] \in EntryType
  BY <1>1, <1>2
<1>4. PICK p \in Procs : p = stack[k].proc
  BY <1>3 DEF EntryType
<1>5. PICK v : Replay(p, v)
  BY DEF RemakeInv, Replayed
<1>6. PICK w : w = Before(v, j, stack[j].clk)
  OBVIOUS
<1>7. Restored(k)[j - 1] = w /\ Restored(k)[j] = v[j]
  BY <1>1, <1>2, <1>4, <1>5, <1>6, RestoredIsReplay
<1>8. /\ Same(p, stack[j], w)
      /\ v[j] = Following(p, stack[j], w)
  BY <1>2, <1>5, <1>6 DEF Replay
<1>9. Stays(p, stack[j])
  BY <1>4 DEF Kept, Stays
<1>10. w \in Versions
  <2>1. stack[j].clk \in 0 .. MaxClock /\ j \in 1 .. Len(stack) + 1
    BY <1>1, <1>2, <1>3 DEF EntryType
  <2> QED
    BY <1>1, <1>5, <1>6, <2>1, BeforeTyped DEF RemakeInv, VersionInv
<1>11. stack[j].kind # "branch" =>
         v[j].next[stack[j].sig] = w.next[stack[j].sig] + 1
  BY <1>3, <1>8, <1>9, <1>10 DEF Following, Redone, EntryType, Versions
<1> QED
  BY <1>7, <1>8, <1>9, <1>11 DEF Same

(***************************************************************************)
(* In a design that follows the coding rule and has one driver for what    *)
(* the edge assigns, the constraints find_next_cfg makes again for the     *)
(* clock of a branch, without those of the other edge-triggered processes, *)
(* name the versions they named in the run.                                *)
(***************************************************************************)
THEOREM TermsMadeAgain == Spec => [](Disciplined /\ OneDriver => TermsRemade)
<1>1. Checks => (Disciplined /\ OneDriver => TermsRemade)
  BY ReplaysRemade DEF Checks
<1> QED
  BY <1>1, RemakeStart, RemakeStep, TypeCorrect, PTL DEF Spec

=============================================================================
