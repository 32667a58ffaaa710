------------------------- MODULE BranchFlipProofs -------------------------
(***************************************************************************)
(* Theorems about the search for one branch, for every design, window,     *)
(* ranking and solver.                                                     *)
(***************************************************************************)
EXTENDS BranchFlip, SequenceTheorems, Induction, TLAPS

(***************************************************************************)
(* PathGrows is not inductive: the length of the new path is fixed when    *)
(* g_data_step is cut, several steps before the path is made, and the      *)
(* clock it is cut at when the alternatives are collected.                 *)
(***************************************************************************)
InLastStep(a) == initClk < Clock(a)

WindowInv ==
  /\ PathGrows
  /\ pc \in Trying => InLastStep(pick) /\ \A a \in cands : InLastStep(a)
  /\ pc \in {"check", "solve"} => stepData.clk = Clock(pick)

(* What is collected lies in the window of the last step. *)
LEMMA AlternativesInLastStep ==
  ASSUME NEW ranked, NEW a \in Alternatives(ranked)
  PROVE  InLastStep(a)
  BY DEF Alternatives, InWindow, InLastStep

LEMMA FirstIsOneOf ==
  ASSUME NEW as, NEW a \in First(as)
  PROVE  a \in as
  BY DEF First

LEMMA WindowInit == Init => WindowInv
  BY DEF Init, WindowInv, PathGrows, Trying

LEMMA WindowStep == WindowInv /\ [Next]_vars => WindowInv'
  <1> SUFFICES ASSUME WindowInv, [Next]_vars
               PROVE  WindowInv'
    OBVIOUS
  <1> USE DEF WindowInv, PathGrows, Trying
  <1>1. ASSUME NEW new \in Vectors(Step), Explore(new) \/ Restart(new)
        PROVE  WindowInv'
    BY <1>1 DEF Explore, Restart
  <1>2. ASSUME NEW ranked \in SUBSET Branches, Collect(ranked)
        PROVE  WindowInv'
    <2>1. UNCHANGED << initClk, stack >>
      BY <1>2 DEF Collect
    <2>2. CASE pc' = "none"
      BY <2>2
    <2>3. CASE pc' = "prefix"
      <3>1. PICK a \in First(Alternatives(ranked)) :
              pick' = a /\ cands' = Alternatives(ranked) \ {a}
        BY <1>2, <2>3 DEF Collect
      <3>2. InLastStep(a) /\ \A b \in cands' : InLastStep(b)
        BY <3>1, FirstIsOneOf, AlternativesInLastStep
      <3> QED
        BY <2>1, <2>3, <3>1, <3>2 DEF InLastStep, Clock
    <2> QED
      BY <1>2, <2>2, <2>3 DEF Collect
  <1>3. CASE AssertPrefix \/ DumpError \/ CheckSatisfiability
    BY <1>3 DEF AssertPrefix, DumpError, CheckSatisfiability, InLastStep, Clock
  <1>4. CASE AssertMutated
    <2>1. stepData'.clk = Clock(pick)
      BY <1>4 DEF AssertMutated, Intercept
    <2> QED
      BY <1>4, <2>1 DEF AssertMutated, InLastStep, Clock
  <1>5. CASE Solve
    <2>1. CASE Solutions(path.clk) # {}
      <3>1. PICK model \in Solutions(path.clk) :
              path' = [stepData EXCEPT !.rows = Lines(@, model, Clock(pick))]
        BY <1>5, <2>1 DEF Solve
      <3>2. path'.clk = stepData.clk /\ pc' = "judge" /\ UNCHANGED initClk
        BY <1>5, <2>1, <3>1 DEF Solve
      <3> QED
        BY <1>5, <3>2 DEF Solve, InLastStep
    <2>2. CASE Solutions(path.clk) = {}
      <3>1. UNCHANGED << initClk, stack >>
        BY <1>5, <2>2 DEF Solve
      <3>2. CASE cands = {}
        BY <1>5, <2>2, <3>2 DEF Solve
      <3>3. CASE cands # {}
        <4>1. PICK a \in First(cands) :
                pick' = a /\ cands' = cands \ {a} /\ pc' = "prefix"
          BY <1>5, <2>2, <3>3 DEF Solve
        <4>2. pc = "solve" /\ a \in cands
          BY <1>5, <4>1, FirstIsOneOf DEF Solve
        <4> QED
          BY <3>1, <4>1, <4>2 DEF InLastStep, Clock
      <3> QED
        BY <3>2, <3>3
    <2> QED
      BY <2>1, <2>2
  <1>6. CASE Judge \/ Stop \/ UNCHANGED vars
    BY <1>6 DEF Judge, Stop, vars, InLastStep, Clock
  <1> QED
    BY <1>1, <1>2, <1>3, <1>4, <1>5, <1>6 DEF Next

(***************************************************************************)
(* A successful find_next_cfg always leaves a longer path than the         *)
(* iteration was given, whatever the ranking lists and whatever the solver *)
(* answers.                                                                *)
(***************************************************************************)
THEOREM SearchLengthensPath == Spec => []PathGrows
  <1>1. WindowInv => PathGrows
    BY DEF WindowInv
  <1> QED
    BY <1>1, WindowInit, WindowStep, PTL DEF Spec

-----------------------------------------------------------------------------
(***************************************************************************)
(* The simulator and build_stack compute what they should, for paths that  *)
(* are as long as they are simulated.                                      *)
(***************************************************************************)

(* Sequences are put end to end from the first to the last. *)
LEMMA FlattenFollows ==
  ASSUME NEW T, NEW seqs \in Seq(Seq(T)), Len(seqs) # 0
  PROVE  \E r : /\ FlattenSeq(seqs) = r[Len(seqs)]
                /\ \A i \in 1 .. Len(seqs) :
                     r[i] = IF i = 1 THEN seqs[i] ELSE r[i - 1] \o seqs[i]
<1> DEFINE n == Len(seqs)
           V == Seq(T)
           Right(f) == f = [i \in 1 .. n |->
                              IF i = 1 THEN seqs[i] ELSE f[i - 1] \o seqs[i]]
           next == [k \in 1 .. n - 1 |-> [s \in V |-> s \o seqs[k + 1]]]
<1>1. n \in Nat \ {0} /\ n - 1 \in Nat
  BY LenProperties
<1>2. \A i \in 1 .. n : seqs[i] \in V
  BY ElementOfSeq
<1> HIDE DEF n
<1>3. next \in StepsOf(n - 1, V)
  <2>1. \A k \in 1 .. n - 1, s \in V : s \o seqs[k + 1] \in V
    <3>1. \A k \in 1 .. n - 1 : k + 1 \in 1 .. n
      BY <1>1
    <3> QED
      BY <1>2, <3>1, ConcatProperties
  <2> QED
    BY <2>1 DEF StepsOf
<1>4. PICK f \in [0 .. n - 1 -> V] :
        f[0] = seqs[1] /\ \A m \in 1 .. n - 1 : f[m] = f[m - 1] \o seqs[m + 1]
  <2>1. seqs[1] \in V
    BY <1>1, <1>2
  <2>2. PICK f \in [0 .. n - 1 -> V] : Follows(f, n - 1, seqs[1], next)
    <3> HIDE DEF next, V
    <3> QED
      BY <1>1, <1>3, <2>1, Recursion
  <2>3. ASSUME NEW m \in 1 .. n - 1
        PROVE  f[m] = f[m - 1] \o seqs[m + 1]
    <3>1. f[m - 1] \in V
      BY <1>1
    <3> QED
      BY <2>2, <3>1 DEF Follows
  <2> QED
    BY <2>2, <2>3 DEF Follows
<1> DEFINE g == [i \in 1 .. n |-> f[i - 1]]
<1>5. Right(g)
  <2>1. ASSUME NEW i \in 1 .. n
        PROVE  g[i] = IF i = 1 THEN seqs[i] ELSE g[i - 1] \o seqs[i]
    <3>1. CASE i = 1
      BY <1>4, <3>1
    <3>2. CASE i # 1
      <4>1. i - 1 \in 1 .. n - 1 /\ i - 1 \in 1 .. n /\ (i - 1) + 1 = i
        BY <1>1, <3>2
      <4> QED
        BY <1>4, <3>2, <4>1
    <3> QED
      BY <3>1, <3>2
  <2>2. DOMAIN g = 1 .. n /\ g = [i \in 1 .. n |-> g[i]]
    OBVIOUS
  <2> HIDE DEF g
  <2> QED
    BY <2>1, <2>2
<1> DEFINE r == CHOOSE h : Right(h)
<1>6. Right(r)
  <2> HIDE DEF Right
  <2> QED
    BY <1>5
<1>7. FlattenSeq(seqs) = r[n]
  BY DEF FlattenSeq, n
<1> HIDE DEF r
<1>8. \A i \in 1 .. n : r[i] = IF i = 1 THEN seqs[i] ELSE r[i - 1] \o seqs[i]
  BY <1>6
<1> QED
  BY <1>7, <1>8 DEF n

(* Nothing put end to end is nothing. *)
LEMMA FlattenNothing ==
  ASSUME NEW T, NEW seqs \in Seq(Seq(T)), Len(seqs) = 0
  PROVE  FlattenSeq(seqs) = << >>
<1>1. seqs = << >>
  BY EmptySeq
<1> QED
  BY <1>1 DEF FlattenSeq

(* Sequences put end to end are a sequence. *)
LEMMA FlattenType ==
  ASSUME NEW T, NEW seqs \in Seq(Seq(T))
  PROVE  FlattenSeq(seqs) \in Seq(T)
<1>1. CASE Len(seqs) = 0
  BY <1>1, FlattenNothing, EmptySeq
<1>2. CASE Len(seqs) # 0
  <2> DEFINE n == Len(seqs)
             V == Seq(T)
  <2>1. n \in Nat \ {0} /\ n - 1 \in Nat
    BY <1>2, LenProperties
  <2>2. \A i \in 1 .. n : seqs[i] \in V
    BY ElementOfSeq
  <2>3. PICK r : /\ FlattenSeq(seqs) = r[n]
                 /\ \A i \in 1 .. n :
                      r[i] = IF i = 1 THEN seqs[i] ELSE r[i - 1] \o seqs[i]
    BY <1>2, FlattenFollows
  <2> HIDE DEF n
  <2> DEFINE S == {k \in 0 .. n - 1 : r[k + 1] \in V}
  <2>4. 0 \in S
    <3>1. 1 \in 1 .. n /\ 0 \in 0 .. n - 1 /\ 0 + 1 = 1
      BY <2>1
    <3>2. r[1] = seqs[1] /\ seqs[1] \in V
      BY <2>2, <2>3, <3>1
    <3> QED
      BY <3>1, <3>2
  <2>5. \A k \in 0 .. (n - 1) - 1 : k \in S => k + 1 \in S
    <3> SUFFICES ASSUME NEW k \in 0 .. (n - 1) - 1, r[k + 1] \in V
                 PROVE  k + 1 \in S
      OBVIOUS
    <3>1. /\ k + 2 \in 1 .. n /\ k + 2 # 1 /\ (k + 2) - 1 = k + 1
          /\ k + 1 \in 0 .. n - 1 /\ (k + 1) + 1 = k + 2
      BY <2>1
    <3>2. r[k + 2] = r[k + 1] \o seqs[k + 2]
      BY <2>3, <3>1
    <3>3. r[k + 2] \in V
      BY <2>2, <3>1, <3>2, ConcatProperties
    <3> QED
      BY <3>1, <3>3
  <2> HIDE DEF S, V
  <2>6. n - 1 \in S
    <3>1. \A k \in 0 .. n - 1 : k \in S
      BY <2>1, <2>4, <2>5, UpTo
    <3> QED
      BY <2>1, <3>1
  <2>7. (n - 1) + 1 = n
    BY <2>1
  <2> QED
    BY <2>3, <2>6, <2>7 DEF S, V
<1> QED
  BY <1>1, <1>2

(* One sequence more is put at the end. *)
LEMMA FlattenMore ==
  ASSUME NEW T, NEW seqs \in Seq(Seq(T)), NEW less \in Seq(Seq(T)),
         Len(seqs) = Len(less) + 1,
         \A i \in 1 .. Len(less) : seqs[i] = less[i]
  PROVE  FlattenSeq(seqs) = FlattenSeq(less) \o seqs[Len(less) + 1]
<1> DEFINE m == Len(less)
           V == Seq(T)
<1>1. m \in Nat /\ Len(seqs) = m + 1 /\ Len(seqs) # 0
  BY LenProperties
<1>2. seqs[m + 1] \in V
  <2>1. m + 1 \in 1 .. Len(seqs)
    BY <1>1
  <2> QED
    BY <2>1, ElementOfSeq
<1>3. PICK r : /\ FlattenSeq(seqs) = r[m + 1]
               /\ \A i \in 1 .. m + 1 :
                    r[i] = IF i = 1 THEN seqs[i] ELSE r[i - 1] \o seqs[i]
  <2>1. \E r : /\ FlattenSeq(seqs) = r[Len(seqs)]
               /\ \A i \in 1 .. Len(seqs) :
                    r[i] = IF i = 1 THEN seqs[i] ELSE r[i - 1] \o seqs[i]
    BY <1>1, FlattenFollows
  <2> HIDE DEF m
  <2> QED
    BY <1>1, <2>1
<1>4. CASE m = 0
  <2>1. FlattenSeq(less) = << >>
    BY <1>4, FlattenNothing
  <2>2. FlattenSeq(seqs) = seqs[m + 1]
    BY <1>3, <1>4
  <2> QED
    BY <1>2, <2>1, <2>2, ConcatEmptySeq
<1>5. CASE m # 0
  <2>1. PICK q : /\ FlattenSeq(less) = q[m]
                 /\ \A i \in 1 .. m :
                      q[i] = IF i = 1 THEN less[i] ELSE q[i - 1] \o less[i]
    BY <1>5, FlattenFollows
  <2>2. \A i \in 1 .. m : seqs[i] = less[i]
    OBVIOUS
  <2> HIDE DEF m
  <2> DEFINE S == {k \in 0 .. m - 1 : r[k + 1] = q[k + 1]}
  <2>3. 0 \in S
    <3>1. 1 \in 1 .. m /\ 1 \in 1 .. m + 1 /\ 0 \in 0 .. m - 1 /\ 0 + 1 = 1
      BY <1>1, <1>5
    <3>2. r[1] = seqs[1] /\ q[1] = less[1] /\ seqs[1] = less[1]
      BY <1>3, <2>1, <2>2, <3>1
    <3> QED
      BY <3>1, <3>2
  <2>4. \A k \in 0 .. (m - 1) - 1 : k \in S => k + 1 \in S
    <3> SUFFICES ASSUME NEW k \in 0 .. (m - 1) - 1, r[k + 1] = q[k + 1]
                 PROVE  k + 1 \in S
      OBVIOUS
    <3>1. /\ k + 2 \in 1 .. m /\ k + 2 \in 1 .. m + 1 /\ k + 2 # 1
          /\ (k + 2) - 1 = k + 1 /\ k + 1 \in 0 .. m - 1 /\ (k + 1) + 1 = k + 2
      BY <1>1, <1>5
    <3>2. r[k + 2] = r[k + 1] \o seqs[k + 2]
      BY <1>3, <3>1
    <3>3. q[k + 2] = q[k + 1] \o less[k + 2]
      BY <2>1, <3>1
    <3>4. seqs[k + 2] = less[k + 2]
      BY <2>2, <3>1
    <3> QED
      BY <3>1, <3>2, <3>3, <3>4
  <2>5. m - 1 \in Nat /\ m - 1 \in 0 .. m - 1 /\ (m - 1) + 1 = m
    BY <1>1, <1>5
  <2> HIDE DEF S
  <2>6. \A k \in 0 .. m - 1 : k \in S
    BY <2>3, <2>4, <2>5, UpTo
  <2>7. r[m] = q[m]
    <3>1. m - 1 \in S
      BY <2>5, <2>6
    <3> QED
      BY <2>5, <3>1 DEF S
  <2>8. r[m + 1] = r[m] \o seqs[m + 1]
    <3>1. m + 1 \in 1 .. m + 1 /\ m + 1 # 1 /\ (m + 1) - 1 = m
      BY <1>1, <1>5
    <3> QED
      BY <1>3, <3>1
  <2> QED
    BY <1>3, <2>1, <2>7, <2>8 DEF m
<1> QED
  BY <1>4, <1>5

(* The state before a clock follows from the clock before it. *)
LEMMA StatesFollow ==
  ASSUME NEW rows \in Seq(Inputs)
  PROVE  \A c \in 1 .. Len(rows) + 1 :
           StateBefore(rows)[c] = IF c = 1 THEN Reset
                                  ELSE After[<< StateBefore(rows)[c - 1], rows[c - 1] >>]
<1> DEFINE n == Len(rows)
           Right(f) == f = [c \in 1 .. n + 1 |->
                              IF c = 1 THEN Reset ELSE After[<< f[c - 1], rows[c - 1] >>]]
           next == [k \in 1 .. n |-> [q \in Regs |-> After[<< q, rows[k] >>]]]
<1>1. n \in Nat
  BY LenProperties
<1>2. \A k \in 1 .. n, q \in Regs : After[<< q, rows[k] >>] \in Regs
  <2>1. \A k \in 1 .. n : rows[k] \in Inputs
    BY ElementOfSeq
  <2> QED
    BY <2>1, DesignAssumption
<1> HIDE DEF n
<1>3. next \in StepsOf(n, Regs)
  BY <1>2 DEF StepsOf
<1>4. PICK f \in [0 .. n -> Regs] :
        f[0] = Reset /\ \A m \in 1 .. n : f[m] = After[<< f[m - 1], rows[m] >>]
  <2>1. PICK f \in [0 .. n -> Regs] : Follows(f, n, Reset, next)
    <3> HIDE DEF next
    <3> QED
      BY <1>1, <1>3, DesignAssumption, Recursion
  <2>2. ASSUME NEW m \in 1 .. n
        PROVE  f[m] = After[<< f[m - 1], rows[m] >>]
    <3>1. f[m - 1] \in Regs
      BY <1>1
    <3> QED
      BY <2>1, <3>1 DEF Follows
  <2> QED
    BY <2>1, <2>2 DEF Follows
<1> DEFINE g == [c \in 1 .. n + 1 |-> f[c - 1]]
<1>5. Right(g)
  <2>1. ASSUME NEW c \in 1 .. n + 1
        PROVE  g[c] = IF c = 1 THEN Reset ELSE After[<< g[c - 1], rows[c - 1] >>]
    <3>1. CASE c = 1
      BY <1>4, <3>1
    <3>2. CASE c # 1
      <4>1. c - 1 \in 1 .. n /\ c - 1 \in 1 .. n + 1
        BY <1>1, <3>2
      <4> QED
        BY <1>4, <3>2, <4>1
    <3> QED
      BY <3>1, <3>2
  <2>2. g = [c \in 1 .. n + 1 |-> g[c]]
    OBVIOUS
  <2> HIDE DEF g
  <2> QED
    BY <2>1, <2>2
<1> DEFINE r == StateBefore(rows)
<1>6. Right(r)
  <2> HIDE DEF Right
  <2>1. r = CHOOSE h : Right(h)
    BY DEF StateBefore, Right, n
  <2> QED
    BY <1>5, <2>1
<1> HIDE DEF r
<1> QED
  BY <1>6 DEF r, n

(* The registers have a state before every clock. *)
LEMMA StatesType ==
  ASSUME NEW rows \in Seq(Inputs)
  PROVE  \A c \in 1 .. Len(rows) + 1 : StateBefore(rows)[c] \in Regs
<1> DEFINE n == Len(rows)
           r == StateBefore(rows)
<1>1. n \in Nat
  BY LenProperties
<1>2. \A k \in 1 .. n, q \in Regs : After[<< q, rows[k] >>] \in Regs
  <2>1. \A k \in 1 .. n : rows[k] \in Inputs
    BY ElementOfSeq
  <2> QED
    BY <2>1, DesignAssumption
<1>7. \A c \in 1 .. n + 1 : r[c] = IF c = 1 THEN Reset ELSE After[<< r[c - 1], rows[c - 1] >>]
  BY StatesFollow
<1> HIDE DEF n, r
<1> DEFINE S == {k \in 0 .. n : r[k + 1] \in Regs}
<1>8. 0 \in S
  <2>1. 1 \in 1 .. n + 1 /\ 0 \in 0 .. n /\ 0 + 1 = 1
    BY <1>1
  <2>2. r[1] = Reset /\ Reset \in Regs
    BY <1>7, <2>1, DesignAssumption
  <2> QED
    BY <2>1, <2>2
<1>9. \A k \in 0 .. n - 1 : k \in S => k + 1 \in S
  <2> SUFFICES ASSUME NEW k \in 0 .. n - 1, r[k + 1] \in Regs
               PROVE  k + 1 \in S
    OBVIOUS
  <2>1. /\ k + 2 \in 1 .. n + 1 /\ k + 2 # 1 /\ (k + 2) - 1 = k + 1
        /\ k + 1 \in 0 .. n /\ (k + 1) + 1 = k + 2 /\ k + 1 \in 1 .. n
    BY <1>1
  <2>2. r[k + 2] = After[<< r[k + 1], rows[k + 1] >>]
    BY <1>7, <2>1
  <2>3. r[k + 2] \in Regs
    BY <1>2, <2>1, <2>2
  <2> QED
    BY <2>1, <2>3
<1> HIDE DEF S
<1>10. \A k \in 0 .. n : k \in S
  BY <1>1, <1>8, <1>9, UpTo
<1>11. \A c \in 1 .. n + 1 : c - 1 \in 0 .. n /\ (c - 1) + 1 = c
  BY <1>1
<1> QED
  BY <1>10, <1>11 DEF S, r, n

(* What the clock c of a run logs. *)
Clocked(rows, c) ==
  LET log == Log[<< StateBefore(rows)[c], rows[c] >>]
  IN  [k \in DOMAIN log |-> << c, log[k] >>]

LEMMA ClockedType ==
  ASSUME NEW rows \in Seq(Inputs), NEW c \in 1 .. Len(rows)
  PROVE  /\ Clocked(rows, c) \in Seq(Nat \X Branches)
         /\ Log[<< StateBefore(rows)[c], rows[c] >>] \in Seq(Branches)
         /\ << StateBefore(rows)[c], rows[c] >> \in Regs \X Inputs
         /\ Len(Clocked(rows, c)) = Len(Log[<< StateBefore(rows)[c], rows[c] >>])
<1> DEFINE log == Log[<< StateBefore(rows)[c], rows[c] >>]
<1>1. c \in 1 .. Len(rows) + 1 /\ c \in Nat
  BY LenProperties
<1>2. StateBefore(rows)[c] \in Regs /\ rows[c] \in Inputs
  BY <1>1, StatesType, ElementOfSeq
<1>3. log \in Seq(Branches)
  BY <1>2, DesignAssumption
<1>4. Clocked(rows, c) = [k \in DOMAIN log |-> << c, log[k] >>]
  BY DEF Clocked
<1> HIDE DEF log
<1>5. DOMAIN log = 1 .. Len(log) /\ Len(log) \in Nat
      /\ \A k \in 1 .. Len(log) : log[k] \in Branches
  BY <1>3, LenProperties, ElementOfSeq
<1>6. Clocked(rows, c) \in [1 .. Len(log) -> Nat \X Branches]
  BY <1>1, <1>4, <1>5
<1>7. Clocked(rows, c) \in Seq(Nat \X Branches) /\ Len(Clocked(rows, c)) = Len(log)
  BY <1>5, <1>6
<1> QED
  BY <1>2, <1>3, <1>7 DEF log

(* A trace is what its clocks log, put end to end. *)
LEMMA TraceParts ==
  ASSUME NEW rows \in Seq(Inputs), NEW n \in Nat, n <= Len(rows)
  PROVE  /\ [c \in 1 .. n |-> Clocked(rows, c)] \in Seq(Seq(Nat \X Branches))
         /\ Len([c \in 1 .. n |-> Clocked(rows, c)]) = n
         /\ Trace(rows, n) = FlattenSeq([c \in 1 .. n |-> Clocked(rows, c)])
<1> DEFINE seqs == [c \in 1 .. n |-> Clocked(rows, c)]
           V == Seq(Nat \X Branches)
<1>1. ASSUME NEW c \in 1 .. n
      PROVE  Clocked(rows, c) \in V
  <2>1. c \in 1 .. Len(rows)
    BY LenProperties
  <2> QED
    BY <2>1, ClockedType
<1>2. Trace(rows, n) = FlattenSeq(seqs)
  BY DEF Trace, Clocked
<1>3. seqs \in Seq(V) /\ Len(seqs) = n
  <2> HIDE DEF V
  <2>1. seqs \in [1 .. n -> V]
    BY <1>1
  <2> HIDE DEF seqs
  <2> QED
    BY <2>1
<1> QED
  BY <1>2, <1>3

LEMMA TraceType ==
  ASSUME NEW rows \in Seq(Inputs), NEW n \in Nat, n <= Len(rows)
  PROVE  Trace(rows, n) \in Seq(Nat \X Branches)
<1>1. [c \in 1 .. n |-> Clocked(rows, c)] \in Seq(Seq(Nat \X Branches))
  BY TraceParts
<1>2. FlattenSeq([c \in 1 .. n |-> Clocked(rows, c)]) \in Seq(Nat \X Branches)
  BY <1>1, FlattenType
<1> QED
  BY <1>2, TraceParts

(* A clock more brings what it logs. *)
LEMMA TraceMore ==
  ASSUME NEW rows \in Seq(Inputs), NEW n \in Nat, n + 1 <= Len(rows)
  PROVE  Trace(rows, n + 1) = Trace(rows, n) \o Clocked(rows, n + 1)
<1> DEFINE more == [c \in 1 .. n + 1 |-> Clocked(rows, c)]
           less == [c \in 1 .. n |-> Clocked(rows, c)]
           V == Nat \X Branches
<1>1. n <= Len(rows) /\ n + 1 \in Nat
  BY LenProperties
<1>2. more \in Seq(Seq(V)) /\ Len(more) = n + 1 /\ Trace(rows, n + 1) = FlattenSeq(more)
  BY <1>1, TraceParts
<1>3. less \in Seq(Seq(V)) /\ Len(less) = n /\ Trace(rows, n) = FlattenSeq(less)
  BY <1>1, TraceParts
<1>4. \A i \in 1 .. n : more[i] = less[i]
  OBVIOUS
<1>5. more[n + 1] = Clocked(rows, n + 1)
  OBVIOUS
<1> HIDE DEF more, less, V
<1>6. FlattenSeq(more) = FlattenSeq(less) \o more[n + 1]
  BY <1>2, <1>3, <1>4, FlattenMore
<1> QED
  BY <1>2, <1>3, <1>5, <1>6

(* Nothing is logged before the first clock. *)
LEMMA TraceNothing ==
  ASSUME NEW rows \in Seq(Inputs)
  PROVE  Trace(rows, 0) = << >>
<1>1. 0 <= Len(rows)
  BY LenProperties
<1> QED
  BY <1>1, TraceParts, FlattenNothing

(* What a trace says up to a clock depends on the inputs up to it only. *)
LEMMA TraceDepends ==
  ASSUME NEW rows \in Seq(Inputs), NEW other \in Seq(Inputs), NEW n \in Nat,
         n <= Len(rows), n <= Len(other),
         \A c \in 1 .. n : rows[c] = other[c]
  PROVE  Trace(rows, n) = Trace(other, n)
<1> DEFINE r == StateBefore(rows)
           q == StateBefore(other)
           S == {k \in 0 .. n : r[k + 1] = q[k + 1]}
<1>1. /\ \A c \in 1 .. n + 1 :
           r[c] = IF c = 1 THEN Reset ELSE After[<< r[c - 1], rows[c - 1] >>]
      /\ \A c \in 1 .. n + 1 :
           q[c] = IF c = 1 THEN Reset ELSE After[<< q[c - 1], other[c - 1] >>]
  <2>1. \A c \in 1 .. n + 1 : c \in 1 .. Len(rows) + 1 /\ c \in 1 .. Len(other) + 1
    BY LenProperties
  <2> QED
    BY <2>1, StatesFollow
<1> HIDE DEF r, q
<1>2. 0 \in S
  <2>1. 0 \in 0 .. n /\ 0 + 1 = 1 /\ 1 \in 1 .. n + 1
    OBVIOUS
  <2>2. r[1] = Reset /\ q[1] = Reset
    BY <1>1, <2>1
  <2> QED
    BY <2>1, <2>2
<1>3. \A k \in 0 .. n - 1 : k \in S => k + 1 \in S
  <2> SUFFICES ASSUME NEW k \in 0 .. n - 1, r[k + 1] = q[k + 1]
               PROVE  k + 1 \in S
    OBVIOUS
  <2>1. /\ k + 2 \in 1 .. n + 1 /\ k + 2 # 1 /\ (k + 2) - 1 = k + 1
        /\ k + 1 \in 1 .. n /\ k + 1 \in 0 .. n /\ (k + 1) + 1 = k + 2
    OBVIOUS
  <2>2. /\ r[k + 2] = After[<< r[k + 1], rows[k + 1] >>]
        /\ q[k + 2] = After[<< q[k + 1], other[k + 1] >>]
    BY <1>1, <2>1
  <2>3. rows[k + 1] = other[k + 1]
    BY <2>1
  <2> QED
    BY <2>1, <2>2, <2>3
<1> HIDE DEF S
<1>4. \A k \in 0 .. n : k \in S
  BY <1>2, <1>3, UpTo
<1>5. ASSUME NEW c \in 1 .. n
      PROVE  Clocked(rows, c) = Clocked(other, c)
  <2>1. c - 1 \in 0 .. n /\ (c - 1) + 1 = c
    OBVIOUS
  <2>2. r[c] = q[c]
    <3>1. c - 1 \in S
      BY <1>4, <2>1
    <3> QED
      BY <2>1, <3>1 DEF S
  <2> QED
    BY <2>2 DEF Clocked, r, q
<1>6. [c \in 1 .. n |-> Clocked(rows, c)] = [c \in 1 .. n |-> Clocked(other, c)]
  BY <1>5
<1> QED
  BY <1>6, TraceParts

-----------------------------------------------------------------------------
ConstraintType == [clk : Nat, br : Branches, index : Nat, hash : Nat]
AssertionType == [clk : Nat, index : Nat, br : Branches]

LEMMA HashStepType ==
  ASSUME NEW h \in Nat, NEW b \in Branches, NEW i \in Nat
  PROVE  HashStep(h, b, i) \in 0 .. HashModulus - 1
<1>1. HashTable[b] \in Nat /\ HashModulus \in Nat \ {0}
  BY DesignAssumption
<1>2. HashTable[b] * i \in Nat
  BY <1>1
<1>3. h + HashTable[b] * i \in Nat
  BY <1>2
<1> QED
  BY <1>1, <1>3 DEF HashStep

(* What build_stack leaves: the trace, and a hash that runs with it. *)
LEMMA BuildFollows ==
  ASSUME NEW rows \in Seq(Inputs), NEW n \in Nat, n <= Len(rows)
  PROVE  LET trace == Trace(rows, n)
         IN  \E hash :
               /\ \A k \in 0 .. Len(trace) : hash[k] \in Nat
               /\ hash[0] = 0
               /\ \A k \in 1 .. Len(trace) :
                    hash[k] = HashStep(hash[k - 1], trace[k][2], k + trace[k][1])
               /\ Build(rows, n) =
                    [k \in 1 .. Len(trace) |->
                       [clk |-> trace[k][1], br |-> trace[k][2],
                        index |-> k + trace[k][1], hash |-> hash[k - 1]]]
<1> DEFINE trace == Trace(rows, n)
           N == Len(trace)
           index(k) == k + trace[k][1]
           Right(f) == f = [k \in 0 .. N |->
                              IF k = 0 THEN 0
                              ELSE HashStep(f[k - 1], trace[k][2], index(k))]
           next == [k \in 1 .. N |-> [h \in Nat |-> HashStep(h, trace[k][2], index(k))]]
<1>1. trace \in Seq(Nat \X Branches) /\ N \in Nat /\ DOMAIN trace = 1 .. N
  <2>1. trace \in Seq(Nat \X Branches)
    BY TraceType
  <2> HIDE DEF trace
  <2> QED
    BY <2>1, LenProperties
<1> HIDE DEF trace
<1>2. \A k \in 1 .. N : trace[k][1] \in Nat /\ trace[k][2] \in Branches /\ index(k) \in Nat
  <2> TAKE k \in 1 .. N
  <2>1. trace[k] \in Nat \X Branches
    BY <1>1, ElementOfSeq
  <2> QED
    BY <1>1, <2>1
<1>3. \A k \in 1 .. N, h \in Nat : HashStep(h, trace[k][2], index(k)) \in Nat
  <2> TAKE k \in 1 .. N, h \in Nat
  <2>1. trace[k][2] \in Branches /\ index(k) \in Nat
    BY <1>2
  <2> HIDE DEF index
  <2>2. HashStep(h, trace[k][2], index(k)) \in 0 .. HashModulus - 1
    BY <2>1, HashStepType
  <2> QED
    BY <2>2, DesignAssumption
<1> HIDE DEF N, index
<1>4. next \in StepsOf(N, Nat)
  BY <1>3 DEF StepsOf
<1>5. PICK f \in [0 .. N -> Nat] :
        f[0] = 0 /\ \A m \in 1 .. N : f[m] = HashStep(f[m - 1], trace[m][2], index(m))
  <2>1. PICK f \in [0 .. N -> Nat] : Follows(f, N, 0, next)
    <3> HIDE DEF next
    <3>1. 0 \in Nat
      OBVIOUS
    <3> QED
      BY <1>1, <1>4, <3>1, Recursion
  <2>2. ASSUME NEW m \in 1 .. N
        PROVE  f[m] = HashStep(f[m - 1], trace[m][2], index(m))
    <3>1. f[m - 1] \in Nat
      BY <1>1
    <3> QED
      BY <2>1, <3>1 DEF Follows
  <2> QED
    BY <2>1, <2>2 DEF Follows
<1>6. Right(f)
  <2>1. \A k \in 0 .. N : f[k] = IF k = 0 THEN 0
                                ELSE HashStep(f[k - 1], trace[k][2], index(k))
    BY <1>1, <1>5
  <2>2. f = [k \in 0 .. N |-> f[k]]
    OBVIOUS
  <2> QED
    BY <2>1, <2>2
<1> DEFINE hash == CHOOSE h : Right(h)
<1>7. Right(hash)
  <2> HIDE DEF Right
  <2> QED
    BY <1>6
<1>8. Build(rows, n) = [k \in DOMAIN trace |->
                          [clk |-> trace[k][1], br |-> trace[k][2],
                           index |-> index(k), hash |-> hash[k - 1]]]
  <2>1. DOMAIN trace = DOMAIN Trace(rows, n) /\ N = Len(Trace(rows, n))
    BY DEF trace, N
  <2> QED
    BY DEF Build, trace, index, N
<1> HIDE DEF hash
<1>9. hash[0] = 0 /\ \A k \in 1 .. N :
                       hash[k] = HashStep(hash[k - 1], trace[k][2], index(k))
  <2>1. \A k \in 0 .. N : hash[k] = IF k = 0 THEN 0
                                ELSE HashStep(hash[k - 1], trace[k][2], index(k))
    BY <1>7
  <2>2. 0 \in 0 .. N /\ \A k \in 1 .. N : k \in 0 .. N /\ k # 0
    BY <1>1
  <2> QED
    BY <2>1, <2>2
<1> DEFINE S == {k \in 0 .. N : hash[k] \in Nat}
<1>10. 0 \in S
  BY <1>1, <1>9
<1>11. \A k \in 0 .. N - 1 : k \in S => k + 1 \in S
  <2> SUFFICES ASSUME NEW k \in 0 .. N - 1, hash[k] \in Nat
               PROVE  k + 1 \in S
    OBVIOUS
  <2>1. k + 1 \in 1 .. N /\ (k + 1) - 1 = k /\ k + 1 \in 0 .. N
    BY <1>1
  <2>2. hash[k + 1] = HashStep(hash[k], trace[k + 1][2], index(k + 1))
    BY <1>9, <2>1
  <2> QED
    BY <1>3, <2>1, <2>2
<1> HIDE DEF S
<1>12. \A k \in 0 .. N : k \in S
  BY <1>1, <1>10, <1>11, UpTo
<1>13. \A k \in 0 .. N : hash[k] \in Nat
  BY <1>12 DEF S
<1> QED
  BY <1>1, <1>8, <1>9, <1>13 DEF trace, N, index

LEMMA BuildType ==
  ASSUME NEW rows \in Seq(Inputs), NEW n \in Nat, n <= Len(rows)
  PROVE  /\ Build(rows, n) \in Seq(ConstraintType)
         /\ Len(Build(rows, n)) = Len(Trace(rows, n))
<1> DEFINE trace == Trace(rows, n)
           N == Len(trace)
<1>1. trace \in Seq(Nat \X Branches)
  BY TraceType
<1>2. PICK hash :
        /\ \A k \in 0 .. N : hash[k] \in Nat
        /\ Build(rows, n) =
             [k \in 1 .. N |->
                [clk |-> trace[k][1], br |-> trace[k][2],
                 index |-> k + trace[k][1], hash |-> hash[k - 1]]]
  BY BuildFollows
<1> HIDE DEF trace
<1>3. N \in Nat
  BY <1>1, LenProperties
<1>4. ASSUME NEW k \in 1 .. N
      PROVE  [clk |-> trace[k][1], br |-> trace[k][2],
              index |-> k + trace[k][1], hash |-> hash[k - 1]] \in ConstraintType
  <2>1. trace[k] \in Nat \X Branches
    BY <1>1, ElementOfSeq
  <2>2. k - 1 \in 0 .. N
    BY <1>3
  <2>3. trace[k][1] \in Nat /\ trace[k][2] \in Branches
    BY <2>1
  <2> QED
    BY <1>2, <1>3, <2>2, <2>3 DEF ConstraintType
<1> HIDE DEF N
<1>5. Build(rows, n) \in [1 .. N -> ConstraintType]
  BY <1>2, <1>4
<1> HIDE DEF ConstraintType
<1>6. Build(rows, n) \in Seq(ConstraintType) /\ Len(Build(rows, n)) = N
  BY <1>3, <1>5
<1> QED
  BY <1>6 DEF N, trace

(* What is read off a stack. *)
LEMMA StackType ==
  ASSUME NEW s \in Seq(ConstraintType)
  PROVE  /\ HashesOf(s) \subseteq 0 .. HashModulus - 1
         /\ PrefixesOf(s) \subseteq Seq(Branches)
         /\ BranchesOf(s) \in Seq(Branches) /\ Len(BranchesOf(s)) = Len(s)
         /\ Assertions(s) \subseteq AssertionType
<1>1. DOMAIN s = 1 .. Len(s) /\ Len(s) \in Nat
  BY LenProperties
<1>2. \A k \in 1 .. Len(s) : s[k] \in ConstraintType
  BY ElementOfSeq
<1>3. \A k \in 1 .. Len(s) : /\ s[k].clk \in Nat /\ s[k].br \in Branches
                             /\ s[k].index \in Nat /\ s[k].hash \in Nat
  BY <1>2 DEF ConstraintType
<1>4. HashesOf(s) \subseteq 0 .. HashModulus - 1
  BY <1>1, <1>3, HashStepType DEF HashesOf
<1>5. BranchesOf(s) \in [1 .. Len(s) -> Branches]
  BY <1>1, <1>3 DEF BranchesOf
<1>6. BranchesOf(s) \in Seq(Branches) /\ Len(BranchesOf(s)) = Len(s)
  BY <1>1, <1>5
<1>7. PrefixesOf(s) \subseteq Seq(Branches)
  <2>1. \A k \in 1 .. Len(s) : SubSeq(BranchesOf(s), 1, k) \in Seq(Branches)
    BY <1>1, <1>6, SubSeqProperties
  <2> QED
    BY <1>1, <2>1 DEF PrefixesOf
<1>8. Assertions(s) \subseteq AssertionType
  BY <1>1, <1>3 DEF Assertions, Assertion, AssertionType
<1> QED
  BY <1>4, <1>6, <1>7, <1>8

-----------------------------------------------------------------------------
(***************************************************************************)
(* The path in hand, its length and the stack.  While alternatives are     *)
(* tried they are places of the stack in hand, within the path, and        *)
(* g_data_step is the path cut at the clock of the one that is tried.      *)
(***************************************************************************)
OnStack(a) == a.at \in DOMAIN stack /\ Clock(a) <= path.clk

BuiltInv ==
  /\ StackIsOfPath
  /\ pc \in Trying => OnStack(pick) /\ \A a \in cands : OnStack(a)
  /\ pc \in {"check", "solve"} => stepData = Intercept(path, Clock(pick))
  /\ pc \in {"collect"} \cup Trying => flips < MaxFlips

LEMMA BuiltFacts ==
  ASSUME NEW rows \in Seq(Inputs), NEW n \in Nat, n <= Len(rows)
  PROVE  /\ Build(rows, n) \in Seq(ConstraintType)
         /\ HashesOf(Build(rows, n)) \subseteq 0 .. HashModulus - 1
         /\ PrefixesOf(Build(rows, n)) \subseteq Seq(Branches)
BY BuildType, StackType

LEMMA TypesUnfold ==
  ASSUME TypeOK
  PROVE  /\ path.rows \in Seq(Inputs) /\ path.clk \in Nat
         /\ path = [rows |-> path.rows, clk |-> path.clk]
         /\ stack \in Seq(ConstraintType)
         /\ DOMAIN stack = 1 .. Len(stack) /\ Len(stack) \in Nat
         /\ Step \in Nat \ {0} /\ MaxFlips \in Nat
         /\ ctx \in SUBSET AssertionType
<1>1. path \in [rows : Seq(Inputs), clk : Nat]
  BY DEF TypeOK, Data
<1>2. path.rows \in Seq(Inputs) /\ path.clk \in Nat
      /\ path = [rows |-> path.rows, clk |-> path.clk]
  BY <1>1
<1>3. stack \in Seq(ConstraintType) /\ ctx \in SUBSET AssertionType
  BY DEF TypeOK, ConstraintType, AssertionType
<1>4. DOMAIN stack = 1 .. Len(stack) /\ Len(stack) \in Nat
  <2> HIDE DEF ConstraintType
  <2> QED
    BY <1>3, LenProperties
<1> QED
  BY <1>2, <1>3, <1>4, DesignAssumption

LEMMA BuiltInit == Init => TypeOK /\ BuiltInv
<1> SUFFICES ASSUME Init
             PROVE  TypeOK /\ BuiltInv
  OBVIOUS
<1>1. PICK rows \in Vectors(Step) :
        /\ pc = "explore"
        /\ path = [rows |-> rows, clk |-> Step]
        /\ stepData = [rows |-> rows, clk |-> Step]
        /\ initClk = 0
        /\ simClk = Step
        /\ stack = Build(rows, Step)
        /\ taken = HashesOf(Build(rows, Step))
        /\ cands = {}
        /\ pick = NoPick
        /\ ctx = {}
        /\ dist = Distance0
        /\ flips = 0
        /\ followed = PrefixesOf(Build(rows, Step))
  BY DEF Init
<1>2. Step \in Nat \ {0} /\ MaxFlips \in Nat /\ Distance0 \in [Branches -> Nat]
  BY DesignAssumption
<1>3. rows \in Seq(Inputs) /\ Len(rows) = Step /\ Step <= Len(rows)
  BY <1>2 DEF Vectors
<1>4. /\ Build(rows, Step) \in Seq(ConstraintType)
      /\ HashesOf(Build(rows, Step)) \subseteq 0 .. HashModulus - 1
      /\ PrefixesOf(Build(rows, Step)) \subseteq Seq(Branches)
  BY <1>2, <1>3, BuiltFacts
<1>5. NoPick \in [at : Nat, br : Branches]
  BY DesignAssumption DEF NoPick
<1>6. path \in Data /\ stepData \in Data
  BY <1>1, <1>2, <1>3 DEF Data
<1>7. StackIsOfPath
  BY <1>1, <1>3 DEF StackIsOfPath
<1>8. TypeOK
  BY <1>1, <1>2, <1>4, <1>5, <1>6 DEF TypeOK, ConstraintType
<1>9. BuiltInv
  BY <1>1, <1>7 DEF BuiltInv, Trying
<1> QED
  BY <1>8, <1>9

(* A simulation of a path that is as long as its clk. *)
LEMMA Simulated ==
  ASSUME NEW rows \in Seq(Inputs), NEW n \in Nat, Len(rows) = n,
         path' = [rows |-> rows, clk |-> n], Simulate(rows, n)
  PROVE  /\ StackIsOfPath' /\ path' \in Data /\ simClk' \in Nat
         /\ stack' \in Seq(ConstraintType)
         /\ HashesOf(stack') \subseteq 0 .. HashModulus - 1
         /\ PrefixesOf(stack') \subseteq Seq(Branches)
<1>1. stack' = Build(rows, n) /\ simClk' = n
  BY DEF Simulate
<1>2. n <= Len(rows)
  OBVIOUS
<1>3. path' \in Data /\ path'.rows = rows /\ path'.clk = n
  BY DEF Data
<1> QED
  BY <1>1, <1>2, <1>3, BuiltFacts DEF StackIsOfPath

LEMMA ExploreTypes ==
  ASSUME TypeOK, NEW data \in Data, Len(data.rows) = data.clk,
         NEW new \in Vectors(Step), ExploreOneStep(data, new)
  PROVE  /\ StackIsOfPath' /\ path' \in Data /\ simClk' \in Nat
         /\ stack' \in Seq(ConstraintType) /\ stepData' \in Data
         /\ taken' \subseteq 0 .. HashModulus - 1
         /\ followed' \subseteq Seq(Branches)
<1> DEFINE rows == data.rows \o new
           n == data.clk + Step
<1>1. Step \in Nat /\ data.rows \in Seq(Inputs) /\ data.clk \in Nat
  BY DesignAssumption DEF Data
<1>2. new \in Seq(Inputs) /\ Len(new) = Step
  BY <1>1 DEF Vectors
<1>3. rows \in Seq(Inputs) /\ Len(rows) = n /\ n \in Nat
  <2>1. /\ data.rows \o new \in Seq(Inputs)
        /\ Len(data.rows \o new) = Len(data.rows) + Len(new)
    BY <1>1, <1>2, ConcatProperties
  <2> QED
    BY <1>1, <1>2, <2>1
<1>4. /\ path' = [rows |-> rows, clk |-> n] /\ Simulate(rows, n)
      /\ stepData' = [rows |-> new, clk |-> Step]
      /\ taken' = taken \cup HashesOf(stack')
      /\ followed' = followed \cup PrefixesOf(stack')
  BY DEF ExploreOneStep
<1> HIDE DEF rows, n
<1>5. /\ StackIsOfPath' /\ path' \in Data /\ simClk' \in Nat
      /\ stack' \in Seq(ConstraintType)
      /\ HashesOf(stack') \subseteq 0 .. HashModulus - 1
      /\ PrefixesOf(stack') \subseteq Seq(Branches)
  BY <1>3, <1>4, Simulated
<1>6. stepData' \in Data
  BY <1>1, <1>2, <1>4 DEF Data
<1>7. taken \subseteq 0 .. HashModulus - 1 /\ followed \subseteq Seq(Branches)
  BY DEF TypeOK
<1> QED
  BY <1>4, <1>5, <1>6, <1>7

(* What is left of the path when it is cut at the clock of an alternative. *)
LEMMA CutAt ==
  ASSUME TypeOK, StackIsOfPath, NEW a, OnStack(a)
  PROVE  /\ Clock(a) \in Nat
         /\ Intercept(path, Clock(a)) \in Data
         /\ Intercept(path, Clock(a)).clk = Clock(a)
         /\ Len(Intercept(path, Clock(a)).rows) = Clock(a)
         /\ DOMAIN Intercept(path, Clock(a)).rows = 1 .. Clock(a)
<1>1. /\ path.rows \in Seq(Inputs) /\ path.clk \in Nat
      /\ stack \in Seq(ConstraintType) /\ DOMAIN stack = 1 .. Len(stack)
  BY TypesUnfold
<1>2. Clock(a) \in Nat
  <2>1. stack[a.at] \in ConstraintType
    BY <1>1, ElementOfSeq DEF OnStack
  <2> QED
    BY <2>1 DEF ConstraintType, Clock
<1>3. Len(path.rows) = path.clk /\ Clock(a) <= path.clk
  BY DEF StackIsOfPath, OnStack
<1> DEFINE c == Clock(a)
<1> HIDE DEF c
<1>4. Min({c, Len(path.rows)}) = c
  <2>1. c \in Nat /\ Len(path.rows) \in Nat /\ c <= Len(path.rows)
    BY <1>1, <1>2, <1>3 DEF c
  <2>2. \A x \in {c, Len(path.rows)} : (\A y \in {c, Len(path.rows)} : x <= y) => x = c
    BY <2>1
  <2>3. c \in {c, Len(path.rows)} /\ \A y \in {c, Len(path.rows)} : c <= y
    BY <2>1
  <2> QED
    BY <2>2, <2>3 DEF Min
<1>5. \A i \in 1 .. c : path.rows[i] \in Inputs
  <2>1. \A i \in 1 .. c : i \in 1 .. Len(path.rows)
    BY <1>1, <1>2, <1>3 DEF c
  <2> QED
    BY <1>1, <2>1, ElementOfSeq
<1>6. /\ SubSeq(path.rows, 1, c) \in Seq(Inputs)
      /\ Len(SubSeq(path.rows, 1, c)) = c
  <2>1. c \in Nat
    BY <1>2 DEF c
  <2> QED
    BY <1>5, <2>1, SubSeqProperties
<1>7. Intercept(path, c) = [rows |-> SubSeq(path.rows, 1, c), clk |-> c]
  BY <1>4 DEF Intercept
<1>8. DOMAIN SubSeq(path.rows, 1, c) = 1 .. c
  BY <1>6, LenProperties
<1> QED
  BY <1>2, <1>6, <1>7, <1>8 DEF Data, c

-----------------------------------------------------------------------------
(* Where the path, the stack and the counts stay. *)
LEMMA BuiltStays ==
  ASSUME TypeOK, BuiltInv,
         UNCHANGED << path, simClk, stack, flips >>,
         pc' \in Trying => pc \in Trying \cup {"collect"},
         pc' \in Trying => OnStack(pick') /\ \A a \in cands' : OnStack(a),
         pc' \in {"check", "solve"} => stepData' = Intercept(path, Clock(pick')),
         pc' = "collect" => flips < MaxFlips
  PROVE  BuiltInv'
<1>1. StackIsOfPath'
  BY DEF BuiltInv, StackIsOfPath
<1>2. ASSUME pc' \in Trying
      PROVE  flips < MaxFlips /\ OnStack(pick)' /\ \A a \in cands' : OnStack(a)'
  BY <1>2 DEF BuiltInv, OnStack, Clock
<1>3. ASSUME pc' \in {"check", "solve"}
      PROVE  stepData' = Intercept(path', Clock(pick)')
  BY <1>3 DEF Clock
<1> QED
  BY <1>1, <1>2, <1>3 DEF BuiltInv

(* The alternatives that are collected. *)
LEMMA AlternativesOnStack ==
  ASSUME TypeOK, NEW ranked \in SUBSET Branches
  PROVE  /\ \A a \in Alternatives(ranked) : OnStack(a)
         /\ Alternatives(ranked) \subseteq [at : Nat, br : Branches]
<1>1. DOMAIN stack = 1 .. Len(stack) /\ Len(stack) \in Nat
  BY TypesUnfold
<1>2. ASSUME NEW a \in Alternatives(ranked)
      PROVE  OnStack(a) /\ a \in [at : Nat, br : Branches]
  <2>1. a \in [at : DOMAIN stack, br : ranked] /\ InWindow(Clock(a))
    BY DEF Alternatives
  <2> QED
    BY <1>1, <2>1 DEF InWindow, OnStack
<1> QED
  BY <1>2

LEMMA CollectStep ==
  ASSUME TypeOK, BuiltInv, NEW ranked \in SUBSET Branches, Collect(ranked)
  PROVE  TypeOK' /\ BuiltInv'
<1> DEFINE all == Alternatives(ranked)
<1>1. /\ pc = "collect"
      /\ UNCHANGED << path, stepData, initClk, simClk, stack, taken, ctx, dist,
                      flips, followed >>
  BY DEF Collect
<1>2. (\A a \in all : OnStack(a)) /\ all \subseteq [at : Nat, br : Branches]
  BY AlternativesOnStack
<1>3. \/ pc' = "none" /\ UNCHANGED << cands, pick >>
      \/ /\ pc' = "prefix" /\ pick' \in all /\ cands' \subseteq all
  BY FirstIsOneOf DEF Collect
<1> HIDE DEF all
<1>4. TypeOK'
  BY <1>1, <1>2, <1>3 DEF TypeOK, Trying
<1>5. BuiltInv'
  BY <1>1, <1>2, <1>3, BuiltStays DEF Trying
<1> QED
  BY <1>4, <1>5

LEMMA AssertStep ==
  ASSUME TypeOK, BuiltInv, AssertPrefix \/ DumpError \/ CheckSatisfiability
  PROVE  TypeOK' /\ BuiltInv'
<1>1. UNCHANGED << path, stepData, initClk, simClk, stack, taken, cands, pick,
                   dist, flips, followed >>
  BY DEF AssertPrefix, DumpError, CheckSatisfiability
<1>2. /\ pc \in Trying
      /\ pc' \in {"dump", "mutate"} \/ (pc = "check" /\ pc' = "solve")
  BY DEF AssertPrefix, DumpError, CheckSatisfiability, Trying
<1>3. Assertions(stack) \subseteq AssertionType
  BY TypesUnfold, StackType
<1>4. ctx' \subseteq Assertions(stack)
  BY DEF AssertPrefix, DumpError, CheckSatisfiability, Assertions
<1>5. TypeOK'
  BY <1>1, <1>2, <1>3, <1>4 DEF TypeOK, AssertionType, Trying
<1>6. BuiltInv'
  BY <1>1, <1>2, BuiltStays DEF BuiltInv, Trying
<1> QED
  BY <1>5, <1>6

LEMMA MutateStep ==
  ASSUME TypeOK, BuiltInv, AssertMutated
  PROVE  TypeOK' /\ BuiltInv'
<1>1. /\ pc = "mutate" /\ pc' = "check"
      /\ stepData' = Intercept(path, Clock(pick))
      /\ UNCHANGED << path, initClk, simClk, stack, taken, cands, pick, dist,
                      flips, followed >>
  BY DEF AssertMutated
<1>2. OnStack(pick) /\ (\A a \in cands : OnStack(a)) /\ StackIsOfPath
  BY <1>1 DEF BuiltInv, Trying
<1>3. stepData' \in Data
  BY <1>1, <1>2, CutAt
<1>4. /\ DOMAIN stack = 1 .. Len(stack) /\ Len(stack) \in Nat
      /\ stack \in Seq(ConstraintType) /\ ctx \subseteq AssertionType
      /\ pick.br \in Branches /\ pick.at \in 1 .. Len(stack)
  BY <1>2, TypesUnfold DEF OnStack, TypeOK
<1>5. \A k \in 1 .. Len(stack) : stack[k] \in ConstraintType
  BY <1>4, ElementOfSeq
<1>6. ASSUME NEW k \in 1 .. Len(stack)
      PROVE  Assertion(stack[k]) \in AssertionType
  BY <1>5 DEF ConstraintType, Assertion, AssertionType
<1>7. Assertion([stack[pick.at] EXCEPT !.br = pick.br]) \in AssertionType
  <2>1. PICK e \in ConstraintType : e = stack[pick.at]
    BY <1>4, <1>5
  <2>2. [e EXCEPT !.br = pick.br] \in ConstraintType
    BY <1>4 DEF ConstraintType
  <2> QED
    BY <2>1, <2>2 DEF ConstraintType, Assertion, AssertionType
<1>8. ctx' \subseteq AssertionType
  <2> DEFINE before == {stack[k] : k \in {j \in 1 .. pick.at - 1 :
                                            stack[j].clk = Clock(pick)}}
  <2>1. \A e \in before : Assertion(e) \in AssertionType
    <3>1. \A j \in 1 .. pick.at - 1 : j \in 1 .. Len(stack)
      BY <1>4
    <3> QED
      BY <1>6, <3>1
  <2>2. ctx' = ctx \cup {Assertion(e) : e \in before}
                   \cup {Assertion([stack[pick.at] EXCEPT !.br = pick.br])}
    BY DEF AssertMutated
  <2> HIDE DEF before
  <2> QED
    BY <1>4, <1>7, <2>1, <2>2
<1>9. TypeOK'
  BY <1>1, <1>3, <1>8 DEF TypeOK, AssertionType, Trying
<1>10. BuiltInv'
  BY <1>1, <1>2, BuiltStays DEF Trying
<1> QED
  BY <1>9, <1>10

LEMMA SolveStep ==
  ASSUME TypeOK, BuiltInv, Solve
  PROVE  TypeOK' /\ BuiltInv'
<1>1. /\ pc = "solve" /\ UNCHANGED << initClk, ctx >>
      /\ OnStack(pick) /\ (\A a \in cands : OnStack(a)) /\ StackIsOfPath
      /\ stepData = Intercept(path, Clock(pick)) /\ flips < MaxFlips
      /\ pick \in [at : Nat, br : Branches]
  BY DEF Solve, BuiltInv, Trying, TypeOK
<1>2. CASE Solutions(path.clk) # {}
  <2>1. PICK model \in Solutions(path.clk) :
          /\ stepData' = [stepData EXCEPT !.rows = Lines(@, model, Clock(pick))]
          /\ path' = stepData'
          /\ Simulate(stepData'.rows, Clock(pick))
    BY <1>2 DEF Solve
  <2>2. /\ taken' = taken \cup Mark(pick) \cup HashesOf(stack')
        /\ followed' = followed \cup {AltPath(pick)} \cup PrefixesOf(stack')
        /\ dist' = [dist EXCEPT ![pick.br] = @ + 1]
        /\ flips' = flips + 1
        /\ cands' = {} /\ pc' = "judge" /\ pick' = pick
    BY <1>2 DEF Solve
  <2> DEFINE c == Clock(pick)
             rows == Lines(stepData.rows, model, c)
  <2>3. /\ c \in Nat /\ stepData \in Data /\ stepData.clk = c
        /\ DOMAIN stepData.rows = 1 .. c /\ c <= path.clk /\ path.clk \in Nat
    BY <1>1, CutAt, TypesUnfold DEF OnStack
  <2>4. rows \in Seq(Inputs) /\ Len(rows) = c
    <3>1. model \in [1 .. path.clk -> Inputs]
      BY DEF Solutions
    <3>2. \A i \in 1 .. c : i <= c /\ model[i] \in Inputs
      BY <2>3, <3>1
    <3>3. rows \in [1 .. c -> Inputs]
      BY <2>3, <3>2 DEF Lines
    <3> HIDE DEF rows, c
    <3> QED
      BY <2>3, <3>3
  <2>5. stepData' = [rows |-> rows, clk |-> c]
    BY <2>1, <2>3 DEF Data
  <2>6. path' = [rows |-> rows, clk |-> c] /\ Simulate(rows, c)
        /\ stepData' \in Data
    BY <2>1, <2>3, <2>4, <2>5 DEF Data
  <2> HIDE DEF rows, c
  <2>7. /\ StackIsOfPath' /\ path' \in Data /\ simClk' \in Nat
        /\ stack' \in Seq(ConstraintType)
        /\ HashesOf(stack') \subseteq 0 .. HashModulus - 1
        /\ PrefixesOf(stack') \subseteq Seq(Branches)
    BY <2>3, <2>4, <2>6, Simulated
  <2>8. Mark(pick) \subseteq 0 .. HashModulus - 1
    <3>1. stack \in Seq(ConstraintType) /\ pick.at \in 1 .. Len(stack)
      BY <1>1, TypesUnfold DEF OnStack
    <3>2. stack[pick.at] \in ConstraintType
      BY <3>1, ElementOfSeq
    <3>3. stack[pick.at].hash \in Nat /\ stack[pick.at].index \in Nat /\ pick.br \in Branches
      BY <1>1, <3>2 DEF ConstraintType
    <3> QED
      BY <3>3, HashStepType DEF Mark, AltHash
  <2>9. AltPath(pick) \in Seq(Branches)
    <3>1. /\ stack \in Seq(ConstraintType) /\ pick.at \in 1 .. Len(stack)
          /\ Len(stack) \in Nat /\ pick.br \in Branches
      BY <1>1, TypesUnfold DEF OnStack
    <3>2. BranchesOf(stack) \in Seq(Branches) /\ Len(BranchesOf(stack)) = Len(stack)
      BY <3>1, StackType
    <3>3. \A i \in 1 .. pick.at - 1 : BranchesOf(stack)[i] \in Branches
      <4>1. \A i \in 1 .. pick.at - 1 : i \in 1 .. Len(BranchesOf(stack))
        BY <3>1, <3>2
      <4> QED
        BY <3>2, <4>1, ElementOfSeq
    <3>4. SubSeq(BranchesOf(stack), 1, pick.at - 1) \in Seq(Branches)
      BY <3>1, <3>3, SubSeqProperties
    <3> QED
      BY <3>1, <3>4, AppendProperties DEF AltPath
  <2>10. dist' \in [Branches -> Nat] /\ flips' \in 0 .. MaxFlips
    BY <1>1, <2>2, DesignAssumption DEF TypeOK
  <2>11. TypeOK'
    BY <1>1, <2>2, <2>6, <2>7, <2>8, <2>9, <2>10 DEF TypeOK, ConstraintType
  <2>12. BuiltInv'
    BY <2>2, <2>7 DEF BuiltInv, Trying
  <2> QED
    BY <2>11, <2>12
<1>3. CASE Solutions(path.clk) = {}
  <2>1. UNCHANGED << path, stepData, simClk, stack, taken, dist, flips, followed >>
    BY <1>3 DEF Solve
  <2>2. \/ pc' = "none" /\ UNCHANGED << cands, pick >>
        \/ pc' = "prefix" /\ pick' \in cands /\ cands' \subseteq cands
    BY <1>3, FirstIsOneOf DEF Solve
  <2>3. TypeOK'
    BY <1>1, <2>1, <2>2 DEF TypeOK, Trying
  <2>4. BuiltInv'
    BY <1>1, <2>1, <2>2, BuiltStays DEF Trying
  <2> QED
    BY <2>3, <2>4
<1> QED
  BY <1>2, <1>3

LEMMA BuiltStep ==
  ASSUME TypeOK, BuiltInv, [Next]_vars
  PROVE  TypeOK' /\ BuiltInv'
<1>1. ASSUME NEW new \in Vectors(Step), Explore(new)
      PROVE  TypeOK' /\ BuiltInv'
  <2>1. /\ flips < MaxFlips /\ initClk' = path.clk /\ pc' = "collect"
        /\ ExploreOneStep(path, new)
        /\ UNCHANGED << cands, pick, ctx, dist, flips >>
    BY <1>1 DEF Explore
  <2>2. path \in Data /\ Len(path.rows) = path.clk
    BY DEF TypeOK, BuiltInv, StackIsOfPath
  <2>3. /\ StackIsOfPath' /\ path' \in Data /\ simClk' \in Nat
        /\ stack' \in Seq(ConstraintType) /\ stepData' \in Data
        /\ taken' \subseteq 0 .. HashModulus - 1
        /\ followed' \subseteq Seq(Branches)
    BY <2>1, <2>2, ExploreTypes
  <2>4. initClk' \in Nat
    BY <2>1, TypesUnfold
  <2>5. TypeOK'
    BY <2>1, <2>3, <2>4 DEF TypeOK, ConstraintType
  <2>6. BuiltInv'
    BY <2>1, <2>3 DEF BuiltInv, Trying
  <2> QED
    BY <2>5, <2>6
<1>2. ASSUME NEW new \in Vectors(Step), Restart(new)
      PROVE  TypeOK' /\ BuiltInv'
  <2>1. /\ pc' = "explore"
        /\ ExploreOneStep([rows |-> << >>, clk |-> 0], new)
        /\ UNCHANGED << initClk, cands, pick, ctx, dist, flips >>
    BY <1>2 DEF Restart
  <2> DEFINE empty == [rows |-> << >>, clk |-> 0]
  <2>2. empty \in Data /\ Len(empty.rows) = empty.clk
    BY DEF Data
  <2> HIDE DEF empty
  <2>3. /\ StackIsOfPath' /\ path' \in Data /\ simClk' \in Nat
        /\ stack' \in Seq(ConstraintType) /\ stepData' \in Data
        /\ taken' \subseteq 0 .. HashModulus - 1
        /\ followed' \subseteq Seq(Branches)
    BY <2>1, <2>2, ExploreTypes DEF empty
  <2>4. TypeOK'
    BY <2>1, <2>3 DEF TypeOK, ConstraintType
  <2>5. BuiltInv'
    BY <2>1, <2>3 DEF BuiltInv, Trying
  <2> QED
    BY <2>4, <2>5
<1>3. CASE Judge
  <2>1. pc' = "explore" /\ UNCHANGED << path, stepData, initClk, simClk, stack,
          taken, cands, pick, ctx, dist, flips, followed >>
    BY <1>3 DEF Judge
  <2>2. TypeOK'
    BY <2>1 DEF TypeOK
  <2> QED
    BY <2>1, <2>2, BuiltStays DEF Trying
<1>4. CASE UNCHANGED vars
  <2>1. TypeOK'
    BY <1>4 DEF vars, TypeOK
  <2>2. UNCHANGED << pc, path, stepData, simClk, stack, cands, pick, flips >>
    BY <1>4 DEF vars
  <2>3. BuiltInv'
    BY <2>2, BuiltStays DEF BuiltInv, Trying
  <2> QED
    BY <2>1, <2>3
<1>5. CASE Stop
  BY <1>4, <1>5 DEF Stop
<1> QED
  BY <1>1, <1>2, <1>3, <1>4, <1>5, CollectStep, AssertStep, MutateStep, SolveStep
     DEF Next

(* Every variable keeps its type: hashes stay below the modulus, and what  *)
(* is asserted, tried or remembered is made of branches of the design.     *)
THEOREM TypeCorrect == Spec => []TypeOK
<1>1. (TypeOK /\ BuiltInv) /\ [Next]_vars => (TypeOK /\ BuiltInv)'
  BY BuiltStep
<1> QED
  BY <1>1, BuiltInit, PTL DEF Spec

(***************************************************************************)
(* The path in hand, its clk, g_sim_clk and the stack describe the same    *)
(* run, for every design and every length of a step: lengthening, cutting, *)
(* solving and restarting leave as many lines as clocks are simulated.     *)
(***************************************************************************)
THEOREM StackBelongsToPath == Spec => []StackIsOfPath
<1>1. (TypeOK /\ BuiltInv) /\ [Next]_vars => (TypeOK /\ BuiltInv)'
  BY BuiltStep
<1>2. BuiltInv => StackIsOfPath
  BY DEF BuiltInv
<1> QED
  BY <1>1, <1>2, BuiltInit, PTL DEF Spec

-----------------------------------------------------------------------------
(***************************************************************************)
(* Traces of the same run, stopped at different clocks.                    *)
(***************************************************************************)

(* What is before a clock stays, and the clock brings its own branches.    *)
LEMMA TraceGrows ==
  ASSUME NEW rows \in Seq(Inputs), NEW n \in Nat, n + 1 <= Len(rows)
  PROVE  LET s == Trace(rows, n)
             t == Trace(rows, n + 1)
             log == Log[<< StateBefore(rows)[n + 1], rows[n + 1] >>]
         IN  /\ s \in Seq(Nat \X Branches) /\ Len(s) \in Nat /\ Len(log) \in Nat
             /\ Len(t) = Len(s) + Len(log)
             /\ \A k \in 1 .. Len(s) : t[k] = s[k]
             /\ \A k \in 1 .. Len(log) : /\ t[Len(s) + k][1] = n + 1
                                         /\ t[Len(s) + k][2] = log[k]
<1> DEFINE s == Trace(rows, n)
           more == Clocked(rows, n + 1)
           log == Log[<< StateBefore(rows)[n + 1], rows[n + 1] >>]
           V == Nat \X Branches
<1>1. n <= Len(rows) /\ n + 1 \in 1 .. Len(rows)
  BY LenProperties
<1>2. s \in Seq(V) /\ more \in Seq(V) /\ log \in Seq(Branches) /\ Len(more) = Len(log)
  BY <1>1, TraceType, ClockedType
<1>3. more = [k \in DOMAIN log |-> << n + 1, log[k] >>]
  BY DEF Clocked
<1>4. Trace(rows, n + 1) = s \o more
  BY TraceMore
<1> HIDE DEF s, more, log, V
<1>5. Len(s) \in Nat /\ Len(log) \in Nat /\ DOMAIN log = 1 .. Len(log)
  BY <1>2, LenProperties
<1>6. /\ Len(s \o more) = Len(s) + Len(more)
      /\ \A i \in 1 .. Len(s) + Len(more) :
           (s \o more)[i] = IF i <= Len(s) THEN s[i] ELSE more[i - Len(s)]
  <2>1. s \in Seq(V) /\ more \in Seq(V)
    BY <1>2
  <2> QED
    BY ONLY <2>1, ConcatProperties, Zenon
<1>7. ASSUME NEW k \in 1 .. Len(s)
      PROVE  (s \o more)[k] = s[k]
  <2>1. k \in 1 .. Len(s) + Len(more) /\ k <= Len(s)
    BY <1>2, <1>5
  <2> QED
    BY <1>6, <2>1
<1>8. ASSUME NEW k \in 1 .. Len(log)
      PROVE  (s \o more)[Len(s) + k] = << n + 1, log[k] >>
  <2>1. /\ Len(s) + k \in 1 .. Len(s) + Len(more) /\ ~ (Len(s) + k <= Len(s))
        /\ (Len(s) + k) - Len(s) = k
    BY <1>2, <1>5
  <2>2. (s \o more)[Len(s) + k] = more[k]
    BY <1>6, <2>1
  <2> QED
    BY <1>3, <1>5, <2>2
<1> DEFINE t == Trace(rows, n + 1)
<1>9. /\ Len(t) = Len(s) + Len(log)
      /\ \A k \in 1 .. Len(s) : t[k] = s[k]
      /\ \A k \in 1 .. Len(log) : t[Len(s) + k][1] = n + 1 /\ t[Len(s) + k][2] = log[k]
  <2>1. t = s \o more
    BY <1>4
  <2>2. Len(t) = Len(s) + Len(log)
    BY ONLY <1>2, <1>6, <2>1
  <2> HIDE DEF t
  <2>3. ASSUME NEW k \in 1 .. Len(log)
        PROVE  t[Len(s) + k][1] = n + 1 /\ t[Len(s) + k][2] = log[k]
    <3>1. t[Len(s) + k] = << n + 1, log[k] >>
      BY <1>8, <2>1
    <3> QED
      BY ONLY <3>1
  <2>4. \A k \in 1 .. Len(s) : t[k] = s[k]
    BY <1>7, <2>1
  <2> QED
    BY <2>2, <2>3, <2>4
<1> HIDE DEF t
<1>10. /\ s \in Seq(V) /\ Len(s) \in Nat /\ Len(log) \in Nat
       /\ Len(t) = Len(s) + Len(log)
       /\ \A k \in 1 .. Len(s) : t[k] = s[k]
       /\ \A k \in 1 .. Len(log) : t[Len(s) + k][1] = n + 1 /\ t[Len(s) + k][2] = log[k]
  BY ONLY <1>2, <1>5, <1>9
<1> QED
  BY ONLY <1>10 DEF s, t, log, V

(* The trace of a longer run goes on where the shorter one ends.           *)
LEMMA TraceExtends ==
  ASSUME NEW rows \in Seq(Inputs), NEW m \in Nat, NEW n \in Nat,
         m <= n, n <= Len(rows)
  PROVE  LET s == Trace(rows, m)
             t == Trace(rows, n)
         IN  /\ Len(s) \in Nat /\ Len(t) \in Nat /\ Len(s) <= Len(t)
             /\ \A k \in 1 .. Len(s) : t[k] = s[k]
             /\ \A k \in Len(s) + 1 .. Len(t) : t[k][1] > m
<1> DEFINE s == Trace(rows, m)
           t(j) == Trace(rows, m + j)
           Good(j) == /\ Len(s) <= Len(t(j))
                      /\ \A k \in 1 .. Len(s) : t(j)[k] = s[k]
                      /\ \A k \in Len(s) + 1 .. Len(t(j)) : t(j)[k][1] > m
           S == {j \in 0 .. n - m : Good(j)}
<1>1. n - m \in Nat /\ Len(rows) \in Nat
  BY LenProperties
<1>2. \A j \in 0 .. n - m : m + j \in Nat /\ m + j <= Len(rows)
  BY <1>1
<1>3. \A j \in 0 .. n - m : t(j) \in Seq(Nat \X Branches) /\ Len(t(j)) \in Nat
  BY <1>2, TraceType, LenProperties
<1>4. t(0) = s /\ 0 \in 0 .. n - m
  <2>1. m + 0 = m
    OBVIOUS
  <2> QED
    BY <1>1, <2>1
<1> HIDE DEF s
<1>5. Len(s) \in Nat
  BY <1>3, <1>4
<1>6. 0 \in S
  <2> HIDE DEF t
  <2> QED
    BY <1>4, <1>5
<1>7. \A j \in 0 .. (n - m) - 1 : j \in S => j + 1 \in S
  <2> SUFFICES ASSUME NEW j \in 0 .. (n - m) - 1, Good(j)
               PROVE  Good(j + 1)
    <3> HIDE DEF Good
    <3>1. \A j \in 0 .. (n - m) - 1 : j + 1 \in 0 .. n - m
      BY <1>1
    <3> QED
      BY <3>1
  <2>1. j \in 0 .. n - m /\ m + j \in Nat /\ (m + j) + 1 = m + (j + 1)
        /\ (m + j) + 1 <= Len(rows)
    BY <1>1
  <2> DEFINE log == Log[<< StateBefore(rows)[(m + j) + 1], rows[(m + j) + 1] >>]
             L == Len(t(j))
             M == Len(log)
  <2>2. /\ L \in Nat /\ M \in Nat
        /\ Len(t(j + 1)) = L + M
        /\ \A k \in 1 .. L : t(j + 1)[k] = t(j)[k]
        /\ \A k \in 1 .. M : t(j + 1)[L + k][1] = (m + j) + 1
    <3> DEFINE u == Trace(rows, (m + j) + 1)
    <3>1. /\ L \in Nat /\ M \in Nat
          /\ Len(u) = L + M
          /\ \A k \in 1 .. L : u[k] = t(j)[k]
          /\ \A k \in 1 .. M : u[L + k][1] = (m + j) + 1
      BY <2>1, TraceGrows
    <3>2. u = t(j + 1)
      BY <2>1
    <3> HIDE DEF u, t, L, M
    <3> QED
      BY <3>1, <3>2
  <2>3. /\ Len(s) <= L
        /\ \A k \in 1 .. Len(s) : t(j)[k] = s[k]
        /\ \A k \in Len(s) + 1 .. L : t(j)[k][1] > m
    OBVIOUS
  <2> HIDE DEF t, L, M
  <2>4. Len(s) <= L + M /\ \A k \in 1 .. Len(s) : k \in 1 .. L
    BY <1>5, <2>2, <2>3
  <2>5. ASSUME NEW k \in Len(s) + 1 .. L + M
        PROVE  t(j + 1)[k][1] > m
    <3>1. CASE k <= L
      <4>1. k \in 1 .. L /\ k \in Len(s) + 1 .. L
        BY <1>5, <2>2, <3>1
      <4> QED
        BY <2>2, <2>3, <4>1
    <3>2. CASE ~ (k <= L)
      <4>1. k - L \in 1 .. M /\ L + (k - L) = k
        BY <1>5, <2>2, <3>2
      <4>2. t(j + 1)[k][1] = (m + j) + 1
        BY <2>2, <4>1
      <4> QED
        BY <2>1, <4>2
    <3> QED
      BY <3>1, <3>2
  <2> QED
    BY <2>2, <2>3, <2>4, <2>5
<1> HIDE DEF S
<1>8. n - m \in S
  <2>1. \A j \in 0 .. n - m : j \in S
    BY <1>1, <1>6, <1>7, UpTo
  <2> QED
    BY <1>1, <2>1
<1>9. m + (n - m) = n /\ n - m \in 0 .. n - m
  BY <1>1
<1>10. t(n - m) = Trace(rows, n)
  BY <1>9
<1> HIDE DEF t
<1> QED
  BY <1>3, <1>5, <1>8, <1>9, <1>10 DEF S, s

(* The clocks of a trace are those of the run.                             *)
LEMMA TraceWithin ==
  ASSUME NEW rows \in Seq(Inputs), NEW n \in Nat, n <= Len(rows)
  PROVE  \A k \in 1 .. Len(Trace(rows, n)) : Trace(rows, n)[k][1] \in 1 .. n
<1> DEFINE t(j) == Trace(rows, j)
           Good(j) == \A k \in 1 .. Len(t(j)) : t(j)[k][1] \in 1 .. j
           S == {j \in 0 .. n : Good(j)}
<1>1. Len(rows) \in Nat
  BY LenProperties
<1>2. \A j \in 0 .. n : j \in Nat /\ j <= Len(rows)
  BY <1>1
<1>3. \A j \in 0 .. n : t(j) \in Seq(Nat \X Branches) /\ Len(t(j)) \in Nat
  BY <1>2, TraceType, LenProperties
<1>4. 0 \in S
  <2>1. t(0) = << >>
    BY TraceNothing
  <2> HIDE DEF t
  <2>2. Len(t(0)) = 0
    BY <2>1
  <2> QED
    BY <2>2
<1>5. \A j \in 0 .. n - 1 : j \in S => j + 1 \in S
  <2> SUFFICES ASSUME NEW j \in 0 .. n - 1, Good(j), NEW k \in 1 .. Len(t(j + 1))
               PROVE  t(j + 1)[k][1] \in 1 .. j + 1
    <3> HIDE DEF t
    <3>1. \A j \in 0 .. n - 1 : j + 1 \in 0 .. n
      OBVIOUS
    <3> QED
      BY <3>1
  <2>1. j \in Nat /\ j + 1 <= Len(rows)
    BY <1>1
  <2> DEFINE log == Log[<< StateBefore(rows)[j + 1], rows[j + 1] >>]
             L == Len(t(j))
             M == Len(log)
  <2>2. /\ L \in Nat /\ M \in Nat
        /\ Len(t(j + 1)) = L + M
        /\ \A i \in 1 .. L : t(j + 1)[i] = t(j)[i]
        /\ \A i \in 1 .. M : t(j + 1)[L + i][1] = j + 1
    BY <2>1, TraceGrows
  <2>3. \A i \in 1 .. L : t(j)[i][1] \in 1 .. j
    OBVIOUS
  <2>4. k \in 1 .. L + M
    BY <2>2
  <2> HIDE DEF t, L, M, Good
  <2>5. CASE k <= L
    <3>1. k \in 1 .. L
      BY <2>2, <2>4, <2>5
    <3>2. t(j + 1)[k][1] \in 1 .. j
      BY <2>2, <2>3, <3>1
    <3> QED
      BY <2>1, <3>2
  <2>6. CASE ~ (k <= L)
    <3>1. k - L \in 1 .. M /\ L + (k - L) = k
      BY <2>2, <2>4, <2>6
    <3>2. t(j + 1)[k][1] = j + 1
      BY <2>2, <3>1
    <3> QED
      BY <2>1, <3>2
  <2> QED
    BY <2>5, <2>6
<1> HIDE DEF S
<1>6. \A j \in 0 .. n : j \in S
  BY <1>4, <1>5, UpTo
<1> QED
  BY <1>6 DEF S

(* A trace goes from clock to clock. *)
LEMMA TraceOrdered ==
  ASSUME NEW rows \in Seq(Inputs), NEW n \in Nat, n <= Len(rows),
         NEW i \in 1 .. Len(Trace(rows, n)), NEW j \in 1 .. Len(Trace(rows, n)), i <= j
  PROVE  Trace(rows, n)[i][1] <= Trace(rows, n)[j][1]
<1> DEFINE t == Trace(rows, n)
           m == t[j][1]
           s == Trace(rows, m)
<1>1. m \in 1 .. n /\ t[i][1] \in 1 .. n
  BY TraceWithin
<1>2. m \in Nat /\ m <= n /\ m <= Len(rows)
  BY <1>1, LenProperties
<1>3. /\ Len(s) \in Nat /\ Len(t) \in Nat
      /\ \A k \in 1 .. Len(s) : t[k] = s[k]
      /\ \A k \in Len(s) + 1 .. Len(t) : t[k][1] > m
  BY <1>2, TraceExtends
<1>4. \A k \in 1 .. Len(s) : s[k][1] \in 1 .. m
  BY <1>2, TraceWithin
<1> HIDE DEF s, t
<1>5. j \in 1 .. Len(t) /\ i \in 1 .. Len(t)
  BY DEF t
<1>6. j <= Len(s)
  <2> SUFFICES ASSUME ~ (j <= Len(s))
               PROVE  FALSE
    OBVIOUS
  <2>1. j \in Len(s) + 1 .. Len(t)
    BY <1>3, <1>5
  <2> QED
    BY <1>2, <1>3, <2>1
<1>7. i \in 1 .. Len(s)
  BY <1>3, <1>5, <1>6
<1>8. t[i] = s[i] /\ s[i][1] <= m
  BY <1>2, <1>3, <1>4, <1>7
<1> QED
  BY <1>8 DEF t

-----------------------------------------------------------------------------
(***************************************************************************)
(* Stacks of runs that log the same.                                       *)
(***************************************************************************)

(* What a constraint says of its place in the trace. *)
LEMMA BuildSays ==
  ASSUME NEW rows \in Seq(Inputs), NEW n \in Nat, n <= Len(rows)
  PROVE  /\ DOMAIN Build(rows, n) = 1 .. Len(Trace(rows, n))
         /\ Len(Trace(rows, n)) \in Nat
         /\ \A k \in 1 .. Len(Trace(rows, n)) :
              /\ Build(rows, n)[k].clk = Trace(rows, n)[k][1]
              /\ Build(rows, n)[k].br = Trace(rows, n)[k][2]
              /\ Build(rows, n)[k].index = k + Trace(rows, n)[k][1]
              /\ Trace(rows, n)[k] \in Nat \X Branches
<1> DEFINE trace == Trace(rows, n)
<1>1. trace \in Seq(Nat \X Branches)
  BY TraceType
<1>2. PICK hash :
        Build(rows, n) =
             [k \in 1 .. Len(trace) |->
                [clk |-> trace[k][1], br |-> trace[k][2],
                 index |-> k + trace[k][1], hash |-> hash[k - 1]]]
  BY BuildFollows
<1> HIDE DEF trace
<1>3. Len(trace) \in Nat /\ \A k \in 1 .. Len(trace) : trace[k] \in Nat \X Branches
  BY <1>1, LenProperties, ElementOfSeq
<1>4. DOMAIN Build(rows, n) = 1 .. Len(trace)
  BY <1>2
<1>5. \A k \in 1 .. Len(trace) : /\ Build(rows, n)[k].clk = trace[k][1]
                                 /\ Build(rows, n)[k].br = trace[k][2]
                                 /\ Build(rows, n)[k].index = k + trace[k][1]
  BY <1>2
<1> QED
  BY <1>3, <1>4, <1>5 DEF trace

(* Where two traces begin alike, so do the stacks, with their hashes. *)
LEMMA BuildAgrees ==
  ASSUME NEW rows \in Seq(Inputs), NEW n \in Nat, n <= Len(rows),
         NEW other \in Seq(Inputs), NEW m \in Nat, m <= Len(other),
         NEW K \in Nat,
         K <= Len(Trace(rows, n)), K <= Len(Trace(other, m)),
         \A k \in 1 .. K : /\ Trace(rows, n)[k][1] = Trace(other, m)[k][1]
                           /\ Trace(rows, n)[k][2] = Trace(other, m)[k][2]
  PROVE  \A k \in 1 .. K : Build(rows, n)[k] = Build(other, m)[k]
<1> DEFINE s == Trace(rows, n)
           t == Trace(other, m)
<1>1. s \in Seq(Nat \X Branches) /\ t \in Seq(Nat \X Branches)
  BY TraceType
<1>2. PICK g :
        /\ \A k \in 0 .. Len(s) : g[k] \in Nat
        /\ g[0] = 0
        /\ \A k \in 1 .. Len(s) : g[k] = HashStep(g[k - 1], s[k][2], k + s[k][1])
        /\ Build(rows, n) =
             [k \in 1 .. Len(s) |->
                [clk |-> s[k][1], br |-> s[k][2],
                 index |-> k + s[k][1], hash |-> g[k - 1]]]
  BY BuildFollows
<1>3. PICK h :
        /\ \A k \in 0 .. Len(t) : h[k] \in Nat
        /\ h[0] = 0
        /\ \A k \in 1 .. Len(t) : h[k] = HashStep(h[k - 1], t[k][2], k + t[k][1])
        /\ Build(other, m) =
             [k \in 1 .. Len(t) |->
                [clk |-> t[k][1], br |-> t[k][2],
                 index |-> k + t[k][1], hash |-> h[k - 1]]]
  BY BuildFollows
<1>4. \A k \in 1 .. K : s[k][1] = t[k][1] /\ s[k][2] = t[k][2]
  OBVIOUS
<1>5. K <= Len(s) /\ K <= Len(t)
  OBVIOUS
<1> HIDE DEF s, t
<1>6. Len(s) \in Nat /\ Len(t) \in Nat
  BY <1>1, LenProperties
<1> DEFINE S == {k \in 0 .. K : g[k] = h[k]}
<1>7. 0 \in S
  BY <1>2, <1>3
<1>8. \A k \in 0 .. K - 1 : k \in S => k + 1 \in S
  <2> SUFFICES ASSUME NEW k \in 0 .. K - 1, g[k] = h[k]
               PROVE  k + 1 \in S
    OBVIOUS
  <2>1. /\ k + 1 \in 1 .. K /\ k + 1 \in 0 .. K /\ (k + 1) - 1 = k
        /\ k + 1 \in 1 .. Len(s) /\ k + 1 \in 1 .. Len(t)
    BY <1>5, <1>6
  <2>2. /\ g[k + 1] = HashStep(g[k], s[k + 1][2], k + 1 + s[k + 1][1])
        /\ h[k + 1] = HashStep(h[k], t[k + 1][2], k + 1 + t[k + 1][1])
    BY <1>2, <1>3, <2>1
  <2> QED
    BY <1>4, <2>1, <2>2
<1> HIDE DEF S
<1>9. \A k \in 0 .. K : k \in S
  BY <1>7, <1>8, UpTo
<1>10. ASSUME NEW k \in 1 .. K
       PROVE  Build(rows, n)[k] = Build(other, m)[k]
  <2>1. k - 1 \in 0 .. K /\ k \in 1 .. Len(s) /\ k \in 1 .. Len(t)
    BY <1>5, <1>6
  <2>2. g[k - 1] = h[k - 1]
    BY <1>9, <2>1 DEF S
  <2>3. /\ Build(rows, n)[k] = [clk |-> s[k][1], br |-> s[k][2],
                                index |-> k + s[k][1], hash |-> g[k - 1]]
        /\ Build(other, m)[k] = [clk |-> t[k][1], br |-> t[k][2],
                                 index |-> k + t[k][1], hash |-> h[k - 1]]
    BY <1>2, <1>3, <2>1
  <2>4. s[k][1] = t[k][1] /\ s[k][2] = t[k][2]
    BY <1>4
  <2> QED
    BY ONLY <2>2, <2>3, <2>4
<1> QED
  BY <1>10

(***************************************************************************)
(* A run in which all that a stack asserts holds goes through the same     *)
(* branches, at the same places, as long as the stack reaches: the index   *)
(* of an assertion and its clock give its place.                           *)
(***************************************************************************)
LEMMA AssertedPlaces ==
  ASSUME NEW rows \in Seq(Inputs), NEW n \in Nat, n <= Len(rows),
         NEW model \in Seq(Inputs), n <= Len(model),
         Assertions(Build(rows, n)) \subseteq Assertions(Build(model, n))
  PROVE  /\ Len(Trace(rows, n)) <= Len(Trace(model, n))
         /\ \A k \in 1 .. Len(Trace(rows, n)) :
              /\ Trace(rows, n)[k][1] = Trace(model, n)[k][1]
              /\ Trace(rows, n)[k][2] = Trace(model, n)[k][2]
<1> DEFINE s == Trace(rows, n)
           t == Trace(model, n)
           b == Build(rows, n)
           c == Build(model, n)
<1>1. /\ DOMAIN b = 1 .. Len(s) /\ Len(s) \in Nat
      /\ \A k \in 1 .. Len(s) :
           /\ b[k].clk = s[k][1] /\ b[k].br = s[k][2]
           /\ b[k].index = k + s[k][1] /\ s[k] \in Nat \X Branches
  BY BuildSays
<1>2. /\ DOMAIN c = 1 .. Len(t) /\ Len(t) \in Nat
      /\ \A k \in 1 .. Len(t) :
           /\ c[k].clk = t[k][1] /\ c[k].br = t[k][2]
           /\ c[k].index = k + t[k][1] /\ t[k] \in Nat \X Branches
  BY BuildSays
<1>3. Assertions(b) \subseteq Assertions(c)
  OBVIOUS
<1> HIDE DEF s, t, b, c
<1>4. ASSUME NEW k \in 1 .. Len(s)
      PROVE  k \in 1 .. Len(t) /\ s[k][1] = t[k][1] /\ s[k][2] = t[k][2]
  <2>1. Assertion(b[k]) \in Assertions(c)
    BY <1>1, <1>3 DEF Assertions
  <2>2. PICK j \in 1 .. Len(t) : Assertion(c[j]) = Assertion(b[k])
    BY <1>2, <2>1 DEF Assertions
  <2>3. c[j].clk = b[k].clk /\ c[j].index = b[k].index /\ c[j].br = b[k].br
    <3> DEFINE x == Assertion(c[j])
               y == Assertion(b[k])
    <3>1. x = y /\ x.clk = c[j].clk /\ x.index = c[j].index /\ x.br = c[j].br
          /\ y.clk = b[k].clk /\ y.index = b[k].index /\ y.br = b[k].br
      BY <2>2 DEF Assertion
    <3> QED
      BY <3>1
  <2>4. t[j][1] = s[k][1] /\ j + t[j][1] = k + s[k][1] /\ t[j][2] = s[k][2]
    BY <1>1, <1>2, <2>3
  <2>5. s[k][1] \in Nat
    BY <1>1
  <2>6. j = k
    BY <2>4, <2>5
  <2> QED
    BY <2>4, <2>6
<1>5. Len(s) <= Len(t)
  <2>1. CASE Len(s) = 0
    BY <1>1, <1>2, <2>1
  <2>2. CASE Len(s) # 0
    <3>1. Len(s) \in 1 .. Len(s)
      BY <1>1, <2>2
    <3>2. Len(s) \in 1 .. Len(t)
      BY <1>4, <3>1
    <3> QED
      BY <1>1, <1>2, <3>2
  <2> QED
    BY <2>1, <2>2
<1> QED
  BY <1>4, <1>5 DEF s, t

(***************************************************************************)
(* So its inputs up to a clock of the stack, simulated up to that clock,   *)
(* give the same constraints in all clocks before.                         *)
(***************************************************************************)
LEMMA ModelKeepsPrefix ==
  ASSUME NEW rows \in Seq(Inputs), NEW n \in Nat, n <= Len(rows),
         NEW model \in Seq(Inputs), n <= Len(model),
         Assertions(Build(rows, n)) \subseteq Assertions(Build(model, n)),
         NEW at \in 1 .. Len(Trace(rows, n)),
         NEW c \in Nat, c = Trace(rows, n)[at][1],
         NEW cut \in Seq(Inputs), Len(cut) = c,
         \A i \in 1 .. c : cut[i] = model[i]
  PROVE  BeforeClock(Build(cut, c), c) = BeforeClock(Build(rows, n), c)
<1> DEFINE s == Trace(rows, n)
           t == Trace(model, n)
           u == Trace(cut, c)
<1>1. c \in 1 .. n
  BY TraceWithin
<1>2. c <= n /\ c <= Len(model) /\ c <= Len(cut)
  BY <1>1, LenProperties
<1>3. u = Trace(model, c)
  BY <1>2, TraceDepends
<1>4. /\ Len(u) \in Nat /\ Len(t) \in Nat /\ Len(u) <= Len(t)
      /\ \A k \in 1 .. Len(u) : t[k] = u[k]
      /\ \A k \in Len(u) + 1 .. Len(t) : t[k][1] > c
  <2> DEFINE v == Trace(model, c)
  <2>1. /\ Len(v) \in Nat /\ Len(t) \in Nat /\ Len(v) <= Len(t)
        /\ \A k \in 1 .. Len(v) : t[k] = v[k]
        /\ \A k \in Len(v) + 1 .. Len(t) : t[k][1] > c
    BY <1>2, TraceExtends
  <2> HIDE DEF t, u, v
  <2>2. u = v
    BY <1>3 DEF v
  <2> QED
    BY <2>1, <2>2
<1>5. /\ Len(s) <= Len(t)
      /\ \A k \in 1 .. Len(s) : s[k][1] = t[k][1] /\ s[k][2] = t[k][2]
  BY AssertedPlaces
<1>6. /\ DOMAIN Build(rows, n) = 1 .. Len(s) /\ Len(s) \in Nat
      /\ \A k \in 1 .. Len(s) : Build(rows, n)[k].clk = s[k][1] /\ s[k] \in Nat \X Branches
  BY BuildSays
<1>7. /\ DOMAIN Build(cut, c) = 1 .. Len(u)
      /\ \A k \in 1 .. Len(u) : Build(cut, c)[k].clk = u[k][1] /\ u[k] \in Nat \X Branches
  BY <1>2, BuildSays
<1>8. ASSUME NEW k \in 1 .. Len(t), k >= at
      PROVE  t[k][1] >= c
  <2>1. t[at][1] = c /\ at \in 1 .. Len(t)
    BY <1>4, <1>5, <1>6
  <2>2. t[at][1] <= t[k][1]
    BY <1>8, <2>1, TraceOrdered
  <2>3. t[k][1] \in 1 .. n
    BY TraceWithin
  <2> QED
    BY <2>1, <2>2, <2>3
<1>9. \A k \in 1 .. Len(s) : k <= Len(u) => Build(rows, n)[k] = Build(cut, c)[k]
  <2> TAKE k \in 1 .. Len(s)
  <2> HAVE k <= Len(u)
  <2>1. k \in Nat /\ k <= Len(s) /\ k <= Len(u)
    BY <1>6
  <2>2. \A i \in 1 .. k : s[i][1] = u[i][1] /\ s[i][2] = u[i][2]
    <3> TAKE i \in 1 .. k
    <3>1. i \in 1 .. Len(s) /\ i \in 1 .. Len(u)
      BY <1>4, <1>6, <2>1
    <3> QED
      BY <1>4, <1>5, <3>1
  <2>3. \A i \in 1 .. k : Build(rows, n)[i] = Build(cut, c)[i]
    <3>1. c <= Len(cut) /\ k <= Len(Trace(rows, n)) /\ k <= Len(Trace(cut, c))
      BY <1>2, <2>1
    <3>2. \A i \in 1 .. k : /\ Trace(rows, n)[i][1] = Trace(cut, c)[i][1]
                            /\ Trace(rows, n)[i][2] = Trace(cut, c)[i][2]
      BY <2>2
    <3>3. k \in Nat /\ rows \in Seq(Inputs) /\ n \in Nat /\ n <= Len(rows)
          /\ cut \in Seq(Inputs) /\ c \in Nat
      BY <2>1
    <3> HIDE DEF s, t, u
    <3> QED
      BY ONLY <3>1, <3>2, <3>3, BuildAgrees, SMTT(30)
  <2>4. k \in 1 .. k
    OBVIOUS
  <2> QED
    BY <2>3, <2>4
<1>10. at \in 1 .. Len(s)
  OBVIOUS
<1> HIDE DEF s, t, u
<1> DEFINE D == {k \in 1 .. Len(u) : Build(cut, c)[k].clk < c}
           E == {k \in 1 .. Len(s) : Build(rows, n)[k].clk < c}
<1>11. ASSUME NEW k \in D
       PROVE  k \in E
  <2>1. k \in 1 .. Len(u) /\ k \in 1 .. Len(t) /\ t[k] = u[k] /\ u[k][1] < c
        /\ u[k] \in Nat \X Branches
    BY <1>4, <1>7
  <2>2. ~ (k >= at)
    <3> SUFFICES ASSUME k >= at
                 PROVE  FALSE
      OBVIOUS
    <3>1. t[k][1] >= c
      BY <1>8, <2>1
    <3>2. u[k][1] \in Nat
      BY <2>1
    <3> QED
      BY <2>1, <3>1, <3>2
  <2>3. k \in 1 .. Len(s)
    BY <1>6, <1>10, <2>1, <2>2
  <2> QED
    BY <1>5, <1>6, <2>1, <2>3
<1>12. ASSUME NEW k \in E
       PROVE  k \in D
  <2>1. k \in 1 .. Len(s) /\ s[k][1] < c /\ s[k] \in Nat \X Branches
    BY <1>6
  <2>2. k \in 1 .. Len(t) /\ t[k][1] < c /\ s[k][1] \in Nat /\ t[k][1] = s[k][1]
    BY <1>4, <1>5, <1>6, <2>1
  <2>3. k \in 1 .. Len(u)
    <3> SUFFICES ASSUME ~ (k <= Len(u))
                 PROVE  FALSE
      BY <1>4, <2>1
    <3>1. k \in Len(u) + 1 .. Len(t)
      BY <1>4, <2>2
    <3>2. t[k][1] > c
      BY <1>4, <3>1
    <3>3. t[k][1] \in Nat
      BY <2>2
    <3> QED
      BY ONLY <2>2, <3>2, <3>3, c \in Nat
  <2> QED
    BY <1>4, <1>7, <2>2, <2>3
<1>13. D = E
  BY <1>11, <1>12
<1>14. ASSUME NEW k \in D
       PROVE  Build(cut, c)[k] = Build(rows, n)[k]
  <2>1. k \in 1 .. Len(u) /\ k \in 1 .. Len(s)
    BY <1>11
  <2> HIDE DEF D, E
  <2>2. k <= Len(u)
    BY <1>4, <2>1
  <2> QED
    BY <1>9, <2>1, <2>2, Zenon
<1>15. /\ BeforeClock(Build(cut, c), c) = [k \in D |-> Build(cut, c)[k]]
       /\ BeforeClock(Build(rows, n), c) = [k \in E |-> Build(rows, n)[k]]
  BY <1>6, <1>7 DEF BeforeClock
<1> HIDE DEF D, E
<1> QED
  BY <1>13, <1>14, <1>15

-----------------------------------------------------------------------------
(***************************************************************************)
(* When the solver is asked, the context is the whole trace in hand: that  *)
(* is why its answer repeats the trace.                                    *)
(***************************************************************************)
AskedInv == pc = "solve" => ctx = Assertions(stack)

LEMMA AskedStep == AskedInv /\ [Next]_vars => AskedInv'
<1> SUFFICES ASSUME AskedInv, [Next]_vars
             PROVE  AskedInv'
  OBVIOUS
<1>1. ASSUME NEW new \in Vectors(Step), Explore(new) \/ Restart(new)
      PROVE  AskedInv'
  BY <1>1 DEF Explore, Restart, AskedInv
<1>2. ASSUME NEW ranked \in SUBSET Branches, Collect(ranked)
      PROVE  AskedInv'
  <2>1. pc' \in {"none", "prefix"}
    BY <1>2 DEF Collect
  <2> QED
    BY <2>1 DEF AskedInv
<1>3. CASE AssertPrefix \/ DumpError \/ AssertMutated \/ Judge
  BY <1>3 DEF AssertPrefix, DumpError, AssertMutated, Judge, AskedInv
<1>4. CASE CheckSatisfiability
  <2>1. ctx' = Assertions(stack) /\ stack' = stack
    BY <1>4 DEF CheckSatisfiability
  <2> QED
    BY <2>1 DEF AskedInv, Assertions
<1>5. CASE Solve
  <2>1. pc' \in {"judge", "none", "prefix"}
    BY <1>5 DEF Solve
  <2> QED
    BY <2>1 DEF AskedInv
<1>6. CASE Stop \/ UNCHANGED vars
  BY <1>6 DEF Stop, vars, AskedInv, Assertions
<1> QED
  BY <1>1, <1>2, <1>3, <1>4, <1>5, <1>6 DEF Next

(* Only an answer of the solver is a flip, and what it leads to is this. *)
LEMMA FlipIsSolve ==
  ASSUME [Next]_vars, flips' # flips
  PROVE  /\ Solve
         /\ \E model \in Solutions(path.clk) :
              /\ path' = [stepData EXCEPT !.rows = Lines(@, model, Clock(pick))]
              /\ stack' = Build(path'.rows, Clock(pick))
<1>1. Solve
  <2>1. ASSUME NEW new \in Vectors(Step), Explore(new) \/ Restart(new)
        PROVE  FALSE
    BY <2>1 DEF Explore, Restart
  <2>2. ASSUME NEW ranked \in SUBSET Branches, Collect(ranked)
        PROVE  FALSE
    BY <2>2 DEF Collect
  <2>3. ~ (AssertPrefix \/ DumpError \/ AssertMutated \/ CheckSatisfiability \/ Judge
           \/ Stop \/ UNCHANGED vars)
    BY DEF AssertPrefix, DumpError, AssertMutated, CheckSatisfiability, Judge, Stop, vars
  <2> QED
    BY <2>1, <2>2, <2>3 DEF Next
<1>2. Solutions(path.clk) # {}
  BY <1>1 DEF Solve
<1> QED
  BY <1>1, <1>2 DEF Solve, Simulate

LEMMA FlipKeepsPrefix ==
  ASSUME TypeOK, BuiltInv, AskedInv, [Next]_vars, flips' # flips
  PROVE  BeforeClock(stack', Clock(pick)) = BeforeClock(stack, Clock(pick))
<1> DEFINE n == path.clk
           c == Clock(pick)
           rows == path.rows
<1>1. Solve /\ pc = "solve"
  BY FlipIsSolve DEF Solve
<1>2. PICK model \in Solutions(n) :
        /\ path' = [stepData EXCEPT !.rows = Lines(@, model, c)]
        /\ stack' = Build(path'.rows, c)
  BY FlipIsSolve
<1>3. /\ rows \in Seq(Inputs) /\ n \in Nat /\ Len(rows) = n
      /\ stack = Build(rows, n) /\ OnStack(pick)
      /\ stepData = Intercept(path, c) /\ ctx = Assertions(stack)
  BY <1>1, TypesUnfold DEF BuiltInv, StackIsOfPath, AskedInv, Trying
<1>4. /\ c \in Nat /\ stepData \in Data /\ c <= n
      /\ DOMAIN stepData.rows = 1 .. c
  BY <1>3, CutAt DEF BuiltInv, OnStack
<1>5. /\ model \in [1 .. n -> Inputs]
      /\ Assertions(Build(rows, n)) \subseteq Assertions(Build(model, n))
  BY <1>2, <1>3 DEF Solutions
<1>6. model \in Seq(Inputs) /\ Len(model) = n
  <2> HIDE DEF n
  <2> QED
    BY <1>3, <1>5
<1> DEFINE cut == path'.rows
<1>7. cut = Lines(stepData.rows, model, c)
  BY <1>2, <1>4 DEF Data
<1>8. cut \in [1 .. c -> Inputs] /\ \A i \in 1 .. c : cut[i] = model[i]
  <2>1. \A i \in 1 .. c : i <= c /\ i \in 1 .. n
    BY <1>3, <1>4
  <2> HIDE DEF cut, n, c
  <2> QED
    BY <1>4, <1>5, <1>7, <2>1 DEF Lines
<1>9. pick.at \in 1 .. Len(Trace(rows, n)) /\ c = Trace(rows, n)[pick.at][1]
  <2>1. n <= Len(rows)
    BY <1>3
  <2> QED
    BY <1>3, <2>1, BuildSays DEF OnStack, Clock
<1> HIDE DEF n, c, rows, cut
<1>10. cut \in Seq(Inputs) /\ Len(cut) = c
  BY <1>4, <1>8
<1>11. n <= Len(rows) /\ n <= Len(model)
  BY <1>3, <1>6
<1>12. BeforeClock(Build(cut, c), c) = BeforeClock(Build(rows, n), c)
  <2>1. /\ rows \in Seq(Inputs) /\ n \in Nat /\ n <= Len(rows)
        /\ model \in Seq(Inputs) /\ n <= Len(model)
        /\ pick.at \in 1 .. Len(Trace(rows, n)) /\ c \in Nat
    BY <1>3, <1>4, <1>6, <1>9, <1>11
  <2>2. /\ Assertions(Build(rows, n)) \subseteq Assertions(Build(model, n))
        /\ \A i \in 1 .. c : cut[i] = model[i]
    BY <1>5, <1>8
  <2> QED
    BY ONLY <1>9, <1>10, <2>1, <2>2, ModelKeepsPrefix, SMTT(30)
<1> QED
  BY <1>2, <1>3, <1>12 DEF cut, c

(***************************************************************************)
(* The run made from a model repeats, constraint by constraint and hash by *)
(* hash, the clocks before the one whose branch was to be flipped, for     *)
(* every design and every model the solver may give.                       *)
(***************************************************************************)
THEOREM ModelsKeepThePrefix == Spec => PrefixKept
<1>1. (TypeOK /\ BuiltInv /\ AskedInv) /\ [Next]_vars => (TypeOK /\ BuiltInv /\ AskedInv)'
  BY BuiltStep, AskedStep
<1>2. Init => AskedInv
  BY DEF Init, AskedInv
<1>3. TypeOK /\ BuiltInv /\ AskedInv /\ [Next]_vars =>
        [flips' # flips =>
           BeforeClock(stack', Clock(pick)) = BeforeClock(stack, Clock(pick))]_vars
  BY FlipKeepsPrefix
<1> QED
  BY <1>1, <1>2, <1>3, BuiltInit, PTL DEF Spec, PrefixKept

-----------------------------------------------------------------------------
(***************************************************************************)
(* The hash of a branch sequence.  Indices count the marks of the clocks,  *)
(* so that a sequence has one hash only if it tells where clocks begin: S  *)
(* are the branches they begin with.                                       *)
(***************************************************************************)
Weighed(q, S, h, c) ==
  /\ h[0] = 0
  /\ c[0] = 0
  /\ \A k \in 1 .. Len(q) :
       /\ c[k] = IF q[k] \in S THEN c[k - 1] + 1 ELSE c[k - 1]
       /\ h[k] = HashStep(h[k - 1], q[k], k + c[k])

LEMMA WeighedOnce ==
  ASSUME NEW q \in Seq(Branches), NEW S, NEW h, NEW c, NEW g, NEW d,
         Weighed(q, S, h, c), Weighed(q, S, g, d)
  PROVE  h[Len(q)] = g[Len(q)]
<1> DEFINE n == Len(q)
           T == {k \in 0 .. n : h[k] = g[k] /\ c[k] = d[k]}
<1>1. n \in Nat
  BY LenProperties
<1> HIDE DEF n
<1>2. 0 \in T
  BY <1>1 DEF Weighed
<1>3. \A k \in 0 .. n - 1 : k \in T => k + 1 \in T
  <2> SUFFICES ASSUME NEW k \in 0 .. n - 1, h[k] = g[k], c[k] = d[k]
               PROVE  k + 1 \in T
    OBVIOUS
  <2>1. k + 1 \in 1 .. n /\ k + 1 \in 0 .. n /\ (k + 1) - 1 = k
    BY <1>1
  <2>2. /\ c[k + 1] = IF q[k + 1] \in S THEN c[k] + 1 ELSE c[k]
        /\ h[k + 1] = HashStep(h[k], q[k + 1], k + 1 + c[k + 1])
        /\ d[k + 1] = IF q[k + 1] \in S THEN d[k] + 1 ELSE d[k]
        /\ g[k + 1] = HashStep(g[k], q[k + 1], k + 1 + d[k + 1])
    BY <2>1 DEF Weighed, n
  <2> QED
    BY <2>1, <2>2
<1> HIDE DEF T
<1>4. \A k \in 0 .. n : k \in T
  BY <1>1, <1>2, <1>3, UpTo
<1>5. n \in T
  BY <1>1, <1>4
<1> QED
  BY <1>5 DEF T, n

(***************************************************************************)
(* A trace of such a design has a branch of S where a clock begins, and    *)
(* only there.                                                             *)
(***************************************************************************)
LEMMA TraceBegins ==
  ASSUME NEW S \in SUBSET Branches, BeginsWith(S),
         NEW rows \in Seq(Inputs), NEW n \in Nat, n <= Len(rows)
  PROVE  LET t == Trace(rows, n)
             before(k) == IF k = 1 THEN 0 ELSE t[k - 1][1]
         IN  \A k \in 1 .. Len(t) :
               t[k][1] = IF t[k][2] \in S THEN before(k) + 1 ELSE before(k)
<1> DEFINE t(j) == Trace(rows, j)
           before(j, k) == IF k = 1 THEN 0 ELSE t(j)[k - 1][1]
           Good(j) ==
             /\ \A k \in 1 .. Len(t(j)) :
                  t(j)[k][1] = IF t(j)[k][2] \in S THEN before(j, k) + 1 ELSE before(j, k)
             /\ IF j = 0 THEN Len(t(j)) = 0
                         ELSE Len(t(j)) > 0 /\ t(j)[Len(t(j))][1] = j
           T == {j \in 0 .. n : Good(j)}
<1>1. Len(rows) \in Nat
  BY LenProperties
<1>2. \A j \in 0 .. n : j \in Nat /\ j <= Len(rows)
  BY <1>1
<1>3. \A j \in 0 .. n : t(j) \in Seq(Nat \X Branches) /\ Len(t(j)) \in Nat
  BY <1>2, TraceType, LenProperties
<1>4. 0 \in T
  <2>1. t(0) = << >>
    BY TraceNothing
  <2> HIDE DEF t
  <2>2. Len(t(0)) = 0
    BY <2>1
  <2> QED
    BY <2>2
<1>5. \A j \in 0 .. n - 1 : j \in T => j + 1 \in T
  <2> SUFFICES ASSUME NEW j \in 0 .. n - 1, Good(j)
               PROVE  Good(j + 1)
    <3> HIDE DEF Good
    <3>1. \A j \in 0 .. n - 1 : j + 1 \in 0 .. n
      OBVIOUS
    <3> QED
      BY <3>1
  <2>1. /\ j \in 0 .. n /\ j + 1 \in 0 .. n /\ j \in Nat
        /\ j + 1 \in 1 .. Len(rows) /\ j + 1 <= Len(rows) /\ j + 1 # 0
    BY <1>1
  <2> DEFINE log == Log[<< StateBefore(rows)[j + 1], rows[j + 1] >>]
             L == Len(t(j))
             M == Len(log)
  <2>2. /\ L \in Nat /\ M \in Nat
        /\ Len(t(j + 1)) = L + M
        /\ \A k \in 1 .. L : t(j + 1)[k] = t(j)[k]
        /\ \A k \in 1 .. M : t(j + 1)[L + k][1] = j + 1 /\ t(j + 1)[L + k][2] = log[k]
    BY <2>1, TraceGrows
  <2>3. /\ log \in Seq(Branches)
        /\ << StateBefore(rows)[j + 1], rows[j + 1] >> \in Regs \X Inputs
    BY <2>1, ClockedType
  <2>4. log # << >> /\ log[1] \in S /\ \A k \in 2 .. M : log[k] \notin S
    BY <2>3 DEF BeginsWith
  <2> HIDE DEF log
  <2>5. M > 0
    BY <2>2, <2>3, <2>4, EmptySeq
  <2> HIDE DEF t, L, M
  <2>6. t(j + 1)[L + M][1] = j + 1
    <3>1. M \in 1 .. M
      BY <2>2, <2>5
    <3> QED
      BY <2>2, <3>1
  <2>7. ASSUME NEW k \in 1 .. Len(t(j + 1))
         PROVE  t(j + 1)[k][1] = IF t(j + 1)[k][2] \in S
                                 THEN before(j + 1, k) + 1 ELSE before(j + 1, k)
    <3>1. k \in 1 .. L + M
      BY <2>2
    <3>2. CASE k <= L
      <4>1. k \in 1 .. L /\ t(j + 1)[k] = t(j)[k]
        BY <2>2, <3>1, <3>2
      <4>2. before(j + 1, k) = before(j, k)
        <5>1. CASE k = 1
          BY <5>1
        <5>2. CASE k # 1
          <6>1. k - 1 \in 1 .. L
            BY <2>2, <4>1, <5>2
          <6> QED
            BY <2>2, <5>2, <6>1
        <5> QED
          BY <5>1, <5>2
      <4>3. t(j)[k][1] = IF t(j)[k][2] \in S THEN before(j, k) + 1 ELSE before(j, k)
        BY <4>1 DEF L
      <4> HIDE DEF before
      <4> QED
        BY <4>1, <4>2, <4>3
    <3>3. CASE k = L + 1
      <4>1. 1 \in 1 .. M
        BY <2>2, <2>5
      <4>2. t(j + 1)[k][1] = j + 1 /\ t(j + 1)[k][2] \in S
        BY <2>2, <2>4, <3>3, <4>1
      <4>3. before(j + 1, k) = j
        <5>1. CASE j = 0
          <6>1. L = 0
            BY <5>1 DEF L
          <6> QED
            BY <3>3, <5>1, <6>1
        <5>2. CASE j # 0
          <6>1. L > 0 /\ t(j)[L][1] = j
            BY <5>2 DEF L
          <6> HIDE DEF Good
          <6>2. k # 1 /\ k - 1 = L /\ L \in 1 .. L
            BY <2>2, <3>3, <6>1
          <6> QED
            BY <2>2, <6>1, <6>2
        <5> QED
          BY <5>1, <5>2
      <4> HIDE DEF before
      <4> QED
        BY <4>2, <4>3
    <3>4. CASE ~ (k <= L) /\ k # L + 1
      <4> HIDE DEF Good
      <4>1. /\ k - L \in 2 .. M /\ k - L \in 1 .. M /\ L + (k - L) = k
            /\ (k - 1) - L \in 1 .. M /\ L + ((k - 1) - L) = k - 1 /\ k # 1
        BY <2>2, <3>1, <3>4
      <4>2. t(j + 1)[k][1] = j + 1 /\ t(j + 1)[k][2] \notin S /\ t(j + 1)[k - 1][1] = j + 1
        <5>1. t(j + 1)[k][1] = j + 1 /\ t(j + 1)[k][2] = log[k - L]
          BY <2>2, <4>1
        <5>2. t(j + 1)[k - 1][1] = j + 1
          BY <2>2, <4>1
        <5>3. log[k - L] \notin S
          BY <2>4, <4>1
        <5> QED
          BY <5>1, <5>2, <5>3
      <4> QED
        BY <4>1, <4>2
    <3> QED
      BY <3>2, <3>3, <3>4
  <2>8. Len(t(j + 1)) > 0 /\ t(j + 1)[Len(t(j + 1))][1] = j + 1
    BY <2>2, <2>5, <2>6
  <2> HIDE DEF before
  <2> QED
    BY <2>1, <2>7, <2>8
<1> HIDE DEF T
<1>6. \A j \in 0 .. n : j \in T
  BY <1>4, <1>5, UpTo
<1>7. Good(n)
  BY <1>6 DEF T
<1> QED
  BY <1>7

(***************************************************************************)
(* The hash that the code computes at a place of the stack, for the branch *)
(* taken there or for another one, is the hash of the sequence to it.      *)
(***************************************************************************)
LEMMA StackWeighed ==
  ASSUME NEW S \in SUBSET Branches, BeginsWith(S),
         NEW rows \in Seq(Inputs), NEW n \in Nat, n <= Len(rows),
         NEW k \in 1 .. Len(Trace(rows, n)), NEW b \in Branches,
         b \in S <=> Trace(rows, n)[k][2] \in S
  PROVE  LET s == Build(rows, n)
             q == Append(SubSeq(BranchesOf(s), 1, k - 1), b)
         IN  /\ q \in Seq(Branches)
             /\ \E h, c : /\ Weighed(q, S, h, c)
                          /\ h[Len(q)] = HashStep(s[k].hash, b, s[k].index)
<1> DEFINE t == Trace(rows, n)
           s == Build(rows, n)
           before(j) == IF j = 1 THEN 0 ELSE t[j - 1][1]
           p == SubSeq(BranchesOf(s), 1, k - 1)
           q == Append(p, b)
<1>1. t \in Seq(Nat \X Branches)
  BY TraceType
<1>2. PICK g :
        /\ g[0] = 0
        /\ \A j \in 1 .. Len(t) : g[j] = HashStep(g[j - 1], t[j][2], j + t[j][1])
        /\ s = [j \in 1 .. Len(t) |->
                  [clk |-> t[j][1], br |-> t[j][2],
                   index |-> j + t[j][1], hash |-> g[j - 1]]]
  BY BuildFollows
<1>3. s \in Seq(ConstraintType) /\ Len(s) = Len(t)
  BY BuildType
<1>4. \A j \in 1 .. Len(t) :
        t[j][1] = IF t[j][2] \in S THEN before(j) + 1 ELSE before(j)
  BY TraceBegins
<1>5. k \in 1 .. Len(t) /\ (b \in S <=> t[k][2] \in S)
  OBVIOUS
<1> HIDE DEF t, s
<1>6. Len(t) \in Nat
  BY <1>1, LenProperties
<1>7. BranchesOf(s) \in Seq(Branches) /\ Len(BranchesOf(s)) = Len(t)
  BY <1>3, StackType
<1>8. \A j \in 1 .. Len(t) : /\ BranchesOf(s)[j] = t[j][2]
                             /\ s[j].hash = g[j - 1] /\ s[j].index = j + t[j][1]
  BY <1>2 DEF BranchesOf
<1>9. /\ p \in Seq(Branches) /\ Len(p) = k - 1
      /\ \A j \in 1 .. k - 1 : p[j] = t[j][2]
  <2>1. \A j \in 1 .. k - 1 : BranchesOf(s)[j] \in Branches /\ j \in 1 .. Len(t)
    <3>1. \A j \in 1 .. k - 1 : j \in 1 .. Len(t)
      BY <1>5, <1>6
    <3> QED
      BY <1>7, <3>1, ElementOfSeq
  <2>2. /\ SubSeq(BranchesOf(s), 1, k - 1) \in Seq(Branches)
        /\ Len(SubSeq(BranchesOf(s), 1, k - 1)) = IF 1 <= k - 1 THEN (k - 1) - 1 + 1 ELSE 0
        /\ \A j \in 1 .. (k - 1) - 1 + 1 :
             SubSeq(BranchesOf(s), 1, k - 1)[j] = BranchesOf(s)[1 + j - 1]
    <3>1. 1 \in Int /\ k - 1 \in Int
      BY <1>5, <1>6
    <3> QED
      BY <2>1, <3>1, SubSeqProperties
  <2>3. Len(p) = k - 1
    BY <1>5, <1>6, <2>2
  <2>4. ASSUME NEW j \in 1 .. k - 1
        PROVE  p[j] = t[j][2]
    <3>1. j \in 1 .. (k - 1) - 1 + 1 /\ 1 + j - 1 = j /\ j \in 1 .. Len(t)
      BY <1>5, <1>6, <2>1
    <3> QED
      BY <1>8, <2>2, <3>1
  <2> QED
    BY <2>2, <2>3, <2>4
<1> HIDE DEF p
<1>10. /\ q \in Seq(Branches) /\ Len(q) = k /\ q[k] = b
       /\ \A j \in 1 .. k - 1 : q[j] = t[j][2]
  <2>1. /\ Append(p, b) \in Seq(Branches) /\ Len(Append(p, b)) = Len(p) + 1
        /\ \A j \in 1 .. Len(p) : Append(p, b)[j] = p[j]
        /\ Append(p, b)[Len(p) + 1] = b
    BY <1>9, AppendProperties
  <2> QED
    BY <1>5, <1>6, <1>9, <2>1
<1> HIDE DEF q
<1> DEFINE last == HashStep(s[k].hash, b, s[k].index)
           h == [j \in 0 .. k |-> IF j = k THEN last ELSE g[j]]
           c == [j \in 0 .. k |-> IF j = 0 THEN 0 ELSE t[j][1]]
<1>11. last = HashStep(g[k - 1], b, k + t[k][1])
  BY <1>5, <1>8
<1> HIDE DEF last
<1>12. ASSUME NEW j \in 1 .. k
       PROVE  /\ c[j] = IF q[j] \in S THEN c[j - 1] + 1 ELSE c[j - 1]
              /\ h[j] = HashStep(h[j - 1], q[j], j + c[j])
  <2>1. j \in 1 .. Len(t) /\ j \in 0 .. k /\ j - 1 \in 0 .. k /\ j # 0 /\ j - 1 # k
    BY <1>5, <1>6
  <2>2. c[j] = t[j][1] /\ c[j - 1] = before(j)
    <3>1. CASE j = 1
      BY <2>1, <3>1
    <3>2. CASE j # 1
      <4>1. j - 1 # 0
        BY <2>1, <3>2
      <4> QED
        BY <2>1, <3>2, <4>1
    <3> QED
      BY <3>1, <3>2
  <2>3. q[j] \in S <=> t[j][2] \in S
    <3>1. CASE j = k
      BY <1>5, <1>10, <3>1
    <3>2. CASE j # k
      <4>1. j \in 1 .. k - 1
        BY <1>5, <1>6, <2>1, <3>2
      <4> QED
        BY <1>10, <4>1
    <3> QED
      BY <3>1, <3>2
  <2>4. h[j - 1] = g[j - 1]
    BY <2>1
  <2>5. h[j] = HashStep(g[j - 1], q[j], j + t[j][1])
    <3>1. CASE j = k
      BY <1>10, <1>11, <2>1, <3>1
    <3>2. CASE j # k
      <4>1. j \in 1 .. k - 1
        BY <1>5, <1>6, <2>1, <3>2
      <4>2. h[j] = g[j]
        BY <2>1, <3>2
      <4> QED
        BY <1>2, <1>10, <2>1, <4>1, <4>2
    <3> QED
      BY <3>1, <3>2
  <2>6. t[j][1] = IF t[j][2] \in S THEN before(j) + 1 ELSE before(j)
    BY <1>4, <2>1
  <2> HIDE DEF h, c, before
  <2> QED
    BY <2>2, <2>3, <2>4, <2>5, <2>6
<1>13. h[0] = 0 /\ c[0] = 0 /\ h[k] = last
  BY <1>2, <1>5, <1>6
<1> HIDE DEF h, c
<1>14. Weighed(q, S, h, c) /\ h[Len(q)] = last
  BY <1>10, <1>12, <1>13 DEF Weighed
<1>15. \E f, d : Weighed(q, S, f, d) /\ f[Len(q)] = last
  BY <1>14
<1> QED
  BY <1>10, <1>15 DEF q, p, s, last

(* All that a simulation goes through is in path_hash_map. *)
LEMMA PrefixesWeighed ==
  ASSUME NEW S \in SUBSET Branches, BeginsWith(S),
         NEW rows \in Seq(Inputs), NEW n \in Nat, n <= Len(rows),
         NEW q \in PrefixesOf(Build(rows, n))
  PROVE  \E h, c : Weighed(q, S, h, c) /\ h[Len(q)] \in HashesOf(Build(rows, n))
<1> DEFINE s == Build(rows, n)
<1>1. s \in Seq(ConstraintType) /\ Len(s) = Len(Trace(rows, n))
  BY BuildType
<1>2. /\ DOMAIN s = 1 .. Len(s) /\ Len(s) \in Nat
      /\ \A k \in 1 .. Len(s) : /\ s[k].br = Trace(rows, n)[k][2]
                                /\ Trace(rows, n)[k] \in Nat \X Branches
  BY <1>1, BuildSays
<1>3. PICK k \in 1 .. Len(s) : q = SubSeq(BranchesOf(s), 1, k)
  BY <1>2 DEF PrefixesOf
<1>4. BranchesOf(s) \in Seq(Branches) /\ Len(BranchesOf(s)) = Len(s)
  BY <1>1, StackType
<1>5. s[k].br = Trace(rows, n)[k][2] /\ s[k].br \in Branches /\ BranchesOf(s)[k] = s[k].br
  BY <1>2 DEF BranchesOf
<1> DEFINE p == SubSeq(BranchesOf(s), 1, k - 1)
<1>6. k \in 1 .. Len(Trace(rows, n))
  BY <1>1, <1>3
<1>7. PICK h, c :
        /\ Weighed(Append(p, s[k].br), S, h, c)
        /\ h[Len(Append(p, s[k].br))] = HashStep(s[k].hash, s[k].br, s[k].index)
        /\ Append(p, s[k].br) \in Seq(Branches)
  BY <1>5, <1>6, StackWeighed
<1> HIDE DEF s
<1>8. q = Append(p, s[k].br)
  <2>1. 1 \in 1 .. Len(BranchesOf(s)) /\ k \in 1 .. Len(BranchesOf(s))
    BY <1>2, <1>3, <1>4
  <2>2. q = p \o << s[k].br >>
    BY <1>3, <1>4, <1>5, <2>1, SubSeqRecursiveSecond
  <2>3. p \in Seq(Branches)
    <3>1. \A j \in 1 .. k - 1 : j \in 1 .. Len(BranchesOf(s))
      BY <1>2, <2>1
    <3>2. \A j \in 1 .. k - 1 : BranchesOf(s)[j] \in Branches
      BY <1>4, <3>1, ElementOfSeq
    <3>3. 1 \in Int /\ k - 1 \in Int
      BY <1>2, <1>3
    <3> QED
      BY <3>2, <3>3, SubSeqProperties
  <2> QED
    BY <1>5, <2>2, <2>3, AppendIsConcat
<1>9. HashStep(s[k].hash, s[k].br, s[k].index) \in HashesOf(s)
  BY <1>2 DEF HashesOf
<1> QED
  BY <1>7, <1>8, <1>9 DEF s

(***************************************************************************)
(* Every sequence executed or selected has its hash in path_hash_map, and  *)
(* no alternative that waits to be tried has: taken and the stack do not   *)
(* change while alternatives are tried.                                    *)
(***************************************************************************)
Untaken(a) == NotTaken(a) /\ Node[a.br] = Node[stack[a.at].br]

Remembered(S, qs, hashes) ==
  \A q \in qs : \E h, c : Weighed(q, S, h, c) /\ h[Len(q)] \in hashes

FollowedInv(S) ==
  /\ Remembered(S, followed, taken)
  /\ pc \in Trying => Untaken(pick) /\ \A a \in cands : Untaken(a)

LEMMA StackRemembered ==
  ASSUME NEW S \in SUBSET Branches, BeginsWith(S), TypeOK, StackIsOfPath
  PROVE  Remembered(S, PrefixesOf(stack), HashesOf(stack))
<1>1. /\ path.rows \in Seq(Inputs) /\ path.clk \in Nat
      /\ path.clk <= Len(path.rows) /\ stack = Build(path.rows, path.clk)
  BY TypesUnfold DEF StackIsOfPath
<1> QED
  BY <1>1, PrefixesWeighed DEF Remembered

(* An alternative is a sequence like any other, with the hash that the     *)
(* code tests and marks.                                                   *)
LEMMA AlternativeWeighed ==
  ASSUME NEW S \in SUBSET Branches, BeginsWith(S), TypeOK, StackIsOfPath,
         NEW a \in [at : Nat, br : Branches], OnStack(a),
         Node[a.br] = Node[stack[a.at].br]
  PROVE  /\ AltPath(a) \in Seq(Branches)
         /\ \E h, c : Weighed(AltPath(a), S, h, c) /\ h[Len(AltPath(a))] = AltHash(a)
<1> DEFINE rows == path.rows
           n == path.clk
<1>1. /\ rows \in Seq(Inputs) /\ n \in Nat
      /\ n <= Len(rows) /\ stack = Build(rows, n)
  BY TypesUnfold DEF StackIsOfPath
<1>2. /\ a.at \in 1 .. Len(Trace(rows, n))
      /\ stack[a.at].br = Trace(rows, n)[a.at][2]
      /\ Trace(rows, n)[a.at] \in Nat \X Branches
  BY <1>1, BuildSays DEF OnStack
<1>3. a.br \in Branches /\ stack[a.at].br \in Branches
  BY <1>2
<1>4. a.br \in S <=> stack[a.at].br \in S
  BY <1>3 DEF BeginsWith
<1> HIDE DEF rows, n
<1>5. /\ a.at \in 1 .. Len(Trace(rows, n))
      /\ a.br \in S <=> Trace(rows, n)[a.at][2] \in S
  BY <1>2, <1>4
<1> DEFINE q == Append(SubSeq(BranchesOf(Build(rows, n)), 1, a.at - 1), a.br)
<1>6. /\ q \in Seq(Branches)
      /\ \E h, c : /\ Weighed(q, S, h, c)
                   /\ h[Len(q)] = HashStep(Build(rows, n)[a.at].hash, a.br,
                                           Build(rows, n)[a.at].index)
  <2>1. S \in SUBSET Branches /\ BeginsWith(S)
    OBVIOUS
  <2> QED
    BY ONLY <1>1, <1>3, <1>5, <2>1, StackWeighed, SMTT(30)
<1>7. AltPath(a) = q
  BY <1>1 DEF AltPath
<1>8. AltHash(a) = HashStep(Build(rows, n)[a.at].hash, a.br, Build(rows, n)[a.at].index)
  BY <1>1 DEF AltHash
<1> QED
  BY <1>6, <1>7, <1>8

(* An alternative that is not taken was not followed. *)
LEMMA UntakenIsNew ==
  ASSUME NEW S \in SUBSET Branches, BeginsWith(S), TypeOK, StackIsOfPath,
         Remembered(S, followed, taken),
         NEW a \in [at : Nat, br : Branches], OnStack(a), Untaken(a)
  PROVE  AltPath(a) \notin followed
<1> SUFFICES ASSUME AltPath(a) \in followed
             PROVE  FALSE
  OBVIOUS
<1>1. PICK h, c : Weighed(AltPath(a), S, h, c) /\ h[Len(AltPath(a))] \in taken
  BY DEF Remembered
<1>2. AltPath(a) \in Seq(Branches)
  BY AlternativeWeighed DEF Untaken
<1>3. PICK g, d : Weighed(AltPath(a), S, g, d) /\ g[Len(AltPath(a))] = AltHash(a)
  BY AlternativeWeighed DEF Untaken
<1>4. h[Len(AltPath(a))] = g[Len(AltPath(a))]
  BY <1>1, <1>2, <1>3, WeighedOnce
<1> QED
  BY <1>1, <1>3, <1>4 DEF Untaken, NotTaken

(* Where taken, followed and the stack stay. *)
LEMMA FollowedStays ==
  ASSUME NEW S, FollowedInv(S),
         UNCHANGED << stack, taken, followed >>,
         pc' \in Trying => Untaken(pick') /\ \A a \in cands' : Untaken(a)
  PROVE  FollowedInv(S)'
<1>1. Remembered(S, followed', taken')
  BY DEF FollowedInv
<1>2. ASSUME pc' \in Trying
      PROVE  Untaken(pick)' /\ \A a \in cands' : Untaken(a)'
  BY <1>2 DEF Untaken, NotTaken, AltHash
<1> QED
  BY <1>1, <1>2 DEF FollowedInv, Remembered

LEMMA FollowedStep ==
  ASSUME NEW S \in SUBSET Branches, BeginsWith(S),
         TypeOK, BuiltInv, TypeOK', BuiltInv', FollowedInv(S), [Next]_vars
  PROVE  FollowedInv(S)'
<1>1. Remembered(S, PrefixesOf(stack'), HashesOf(stack'))
  <2>1. /\ path'.rows \in Seq(Inputs) /\ path'.clk \in Nat
        /\ path'.clk <= Len(path'.rows) /\ stack' = Build(path'.rows, path'.clk)
    <3>1. path' \in [rows : Seq(Inputs), clk : Nat]
      BY DEF TypeOK, Data
    <3>2. Len(path'.rows) = path'.clk /\ stack' = Build(path'.rows, path'.clk)
      BY DEF BuiltInv, StackIsOfPath
    <3> QED
      BY <3>1, <3>2
  <2> QED
    BY <2>1, PrefixesWeighed DEF Remembered
<1>2. Remembered(S, followed, taken)
  BY DEF FollowedInv
<1>3. ASSUME NEW new \in Vectors(Step), Explore(new) \/ Restart(new)
      PROVE  FollowedInv(S)'
  <2>1. /\ taken' = taken \cup HashesOf(stack')
        /\ followed' = followed \cup PrefixesOf(stack')
        /\ pc' \notin Trying
    BY <1>3 DEF Explore, Restart, ExploreOneStep, Trying
  <2>2. Remembered(S, followed', taken')
    BY <1>1, <1>2, <2>1 DEF Remembered
  <2> QED
    BY <2>1, <2>2 DEF FollowedInv, Remembered
<1>4. ASSUME NEW ranked \in SUBSET Branches, Collect(ranked)
      PROVE  FollowedInv(S)'
  <2>1. /\ UNCHANGED << stack, taken, followed >>
        /\ \/ pc' = "none"
           \/ pc' = "prefix" /\ pick' \in Alternatives(ranked)
              /\ cands' \subseteq Alternatives(ranked)
    BY <1>4, FirstIsOneOf DEF Collect
  <2>2. \A a \in Alternatives(ranked) : Untaken(a)
    BY DEF Alternatives, Untaken
  <2> QED
    BY <2>1, <2>2, FollowedStays DEF Trying
<1>5. CASE AssertPrefix \/ DumpError \/ AssertMutated \/ CheckSatisfiability
  <2>1. /\ UNCHANGED << stack, taken, followed, pick, cands >>
        /\ pc \in Trying
    BY <1>5 DEF AssertPrefix, DumpError, AssertMutated, CheckSatisfiability, Trying
  <2>2. Untaken(pick) /\ \A a \in cands : Untaken(a)
    BY <2>1 DEF FollowedInv
  <2> QED
    BY <2>1, <2>2, FollowedStays
<1>6. CASE Solve
  <2>1. /\ pc \in Trying /\ Untaken(pick) /\ (\A a \in cands : Untaken(a))
        /\ OnStack(pick) /\ StackIsOfPath /\ pick \in [at : Nat, br : Branches]
    BY <1>6 DEF Solve, Trying, FollowedInv, BuiltInv, TypeOK
  <2>2. CASE Solutions(path.clk) # {}
    <3>1. /\ taken' = taken \cup Mark(pick) \cup HashesOf(stack')
          /\ followed' = followed \cup {AltPath(pick)} \cup PrefixesOf(stack')
          /\ pc' = "judge"
      BY <1>6, <2>2 DEF Solve
    <3>2. \E h, c : Weighed(AltPath(pick), S, h, c) /\ h[Len(AltPath(pick))] \in taken'
      <4>1. AltHash(pick) \in taken'
        BY <3>1 DEF Mark
      <4> QED
        BY <2>1, <4>1, AlternativeWeighed DEF Untaken
    <3>3. Remembered(S, followed', taken')
      BY <1>1, <1>2, <3>1, <3>2 DEF Remembered
    <3> QED
      BY <3>1, <3>3 DEF FollowedInv, Remembered, Trying
  <2>3. CASE Solutions(path.clk) = {}
    <3>1. /\ UNCHANGED << stack, taken, followed >>
          /\ \/ pc' = "none"
             \/ pc' = "prefix" /\ pick' \in cands /\ cands' \subseteq cands
      BY <1>6, <2>3, FirstIsOneOf DEF Solve
    <3> QED
      BY <2>1, <3>1, FollowedStays DEF Trying
  <2> QED
    BY <2>2, <2>3
<1>7. CASE Judge
  <2>1. UNCHANGED << stack, taken, followed >> /\ pc' \notin Trying
    BY <1>7 DEF Judge, Trying
  <2> QED
    BY <2>1, FollowedStays
<1>8. CASE Stop \/ UNCHANGED vars
  <2>1. UNCHANGED << pc, stack, taken, followed, pick, cands >>
    BY <1>8 DEF Stop, vars
  <2>2. pc' \in Trying => Untaken(pick) /\ \A a \in cands : Untaken(a)
    BY <2>1 DEF FollowedInv
  <2> QED
    BY <2>1, <2>2, FollowedStays
<1> QED
  BY <1>3, <1>4, <1>5, <1>6, <1>7, <1>8 DEF Next

LEMMA FollowedInit ==
  ASSUME NEW S \in SUBSET Branches, BeginsWith(S), Init
  PROVE  FollowedInv(S)
<1>1. TypeOK /\ StackIsOfPath
  BY BuiltInit DEF BuiltInv
<1>2. taken = HashesOf(stack) /\ followed = PrefixesOf(stack) /\ pc = "explore"
  BY DEF Init
<1> QED
  BY <1>1, <1>2, StackRemembered DEF FollowedInv, Trying

LEMMA FlipIsNew ==
  ASSUME NEW S \in SUBSET Branches, BeginsWith(S),
         TypeOK, BuiltInv, FollowedInv(S), [Next]_vars, flips' # flips
  PROVE  AltPath(pick) \notin followed
<1>1. Solve
  BY FlipIsSolve
<1>2. /\ OnStack(pick) /\ StackIsOfPath /\ Untaken(pick)
      /\ Remembered(S, followed, taken) /\ pick \in [at : Nat, br : Branches]
  BY <1>1 DEF Solve, Trying, BuiltInv, FollowedInv, TypeOK
<1> QED
  BY <1>2, UntakenIsNew

(***************************************************************************)
(* No branch sequence is selected that was executed or selected before, in *)
(* any search, whichever hashes collide, if the process begins with one    *)
(* statement: otherwise two runs of one sequence may have different        *)
(* hashes, as the marks of the clocks are counted in its indices.          *)
(***************************************************************************)
THEOREM NothingIsTriedTwice == OneBeginning /\ Spec => NeverTwice
<1>1. ASSUME NEW S \in SUBSET Branches, BeginsWith(S)
      PROVE  Spec => NeverTwice
  <2>1. (TypeOK /\ BuiltInv /\ FollowedInv(S)) /\ [Next]_vars
          => (TypeOK /\ BuiltInv /\ FollowedInv(S))'
    BY <1>1, BuiltStep, FollowedStep
  <2>2. Init => FollowedInv(S)
    BY <1>1, FollowedInit
  <2>3. TypeOK /\ BuiltInv /\ FollowedInv(S) /\ [Next]_vars
          => [flips' # flips => AltPath(pick) \notin followed]_vars
    BY <1>1, FlipIsNew
  <2> QED
    BY <2>1, <2>2, <2>3, BuiltInit, PTL DEF Spec, NeverTwice
<1> QED
  BY <1>1 DEF OneBeginning

=============================================================================
