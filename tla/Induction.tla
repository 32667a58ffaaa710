----------------------------- MODULE Induction -----------------------------
(***************************************************************************)
(* Induction over the natural numbers, stated with a set in the place of   *)
(* the predicate, and the functions it defines.  The least number outside  *)
(* a set is not needed: a set of naturals that has 0 and the successor of  *)
(* each of its members leaves out nothing, because the predecessor would   *)
(* be an injection of the finite set left out into itself that is not onto *)
(* it.                                                                     *)
(***************************************************************************)
EXTENDS Integers, FiniteSets, FiniteSetTheorems, Functions, TLAPS

(* Every set that has 0 and, up to N, the successor of its members has all
   numbers up to N. *)
THEOREM UpTo ==
  ASSUME NEW N \in Nat, NEW S,
         0 \in S,
         \A n \in 0 .. N - 1 : n \in S => n + 1 \in S
  PROVE  \A n \in 0 .. N : n \in S
<1> SUFFICES ASSUME NEW n \in 0 .. N, n \notin S
             PROVE  FALSE
  OBVIOUS
<1> DEFINE T == {m \in 0 .. n : m \notin S}
<1> DEFINE f == [m \in T |-> m - 1]
<1>1. IsFiniteSet(T)
  <2>1. IsFiniteSet(0 .. n)
    BY FS_Interval
  <2>2. T \subseteq 0 .. n
    OBVIOUS
  <2> QED
    BY <2>1, <2>2, FS_Subset
<1>2. \A m \in T : m - 1 \in T
  <2> SUFFICES ASSUME NEW m \in T
               PROVE  m - 1 \in T
    OBVIOUS
  <2>1. m # 0
    OBVIOUS
  <2>2. m - 1 \in 0 .. N - 1 /\ m - 1 \in 0 .. n
    BY <2>1
  <2>3. m - 1 \in S => m \in S
    BY <2>2
  <2> QED
    BY <2>2, <2>3
<1>3. f \in Injection(T, T)
  <2>1. f \in [T -> T]
    BY <1>2
  <2>2. \A a, b \in T : f[a] = f[b] => a = b
    OBVIOUS
  <2> QED
    BY <2>1, <2>2 DEF Injection, IsInjective
<1>4. f \in Surjection(T, T)
  BY <1>1, <1>3, FS_Injection
<1>5. n \in T
  OBVIOUS
<1>6. PICK m \in T : f[m] = n
  BY <1>4, <1>5 DEF Surjection
<1>7. m - 1 = n
  BY <1>6
<1> QED
  BY <1>7

(* The same without a bound. *)
THEOREM AllNaturals ==
  ASSUME NEW S,
         0 \in S,
         \A n \in Nat : n \in S => n + 1 \in S
  PROVE  \A n \in Nat : n \in S
<1> TAKE N \in Nat
<1>1. \A n \in 0 .. N - 1 : n \in S => n + 1 \in S
  OBVIOUS
<1>2. \A n \in 0 .. N : n \in S
  BY <1>1, UpTo
<1> QED
  BY <1>2

(* A set of natural numbers that is not empty has a least member. *)
THEOREM LeastNumber ==
  ASSUME NEW S \in SUBSET Nat, S # {}
  PROVE  \E m \in S : \A n \in S : m <= n
<1> SUFFICES ASSUME \A m \in S : \E n \in S : ~ (m <= n)
             PROVE  FALSE
  OBVIOUS
<1> DEFINE U == {n \in Nat : \A k \in S : n < k}
<1>1. 0 \in U
  OBVIOUS
<1>2. \A n \in Nat : n \in U => n + 1 \in U
  <2> SUFFICES ASSUME NEW n \in Nat, n \in U, NEW k \in S, ~ (n + 1 < k)
               PROVE  FALSE
    OBVIOUS
  <2>1. k = n + 1
    OBVIOUS
  <2>2. \A j \in S : k <= j
    BY <2>1
  <2> QED
    BY <2>2
<1> HIDE DEF U
<1>3. \A n \in Nat : n \in U
  BY <1>1, <1>2, AllNaturals
<1>4. PICK s \in S : TRUE
  OBVIOUS
<1> QED
  BY <1>3, <1>4 DEF U

-----------------------------------------------------------------------------
StepsOf(N, V) == [1 .. N -> [V -> V]]

Follows(f, N, base, next) ==
  f[0] = base /\ \A m \in 1 .. N : f[m] = next[m][f[m - 1]]

(* A function defined by what it is at 0 and how each value follows from   *)
(* the one before exists: those that are right up to n can be lengthened.  *)
THEOREM Recursion ==
  ASSUME NEW N \in Nat, NEW V, NEW base \in V, NEW next \in StepsOf(N, V)
  PROVE  \E f \in [0 .. N -> V] : Follows(f, N, base, next)
<1> USE DEF StepsOf, Follows
<1> DEFINE Right(f, n) ==
             /\ f \in [0 .. n -> V]
             /\ f[0] = base
             /\ \A m \in 1 .. n : f[m] = next[m][f[m - 1]]
           S == {n \in 0 .. N : \E f : Right(f, n)}
<1>1. 0 \in S
  <2>1. Right([k \in 0 .. 0 |-> base], 0)
    OBVIOUS
  <2>2. \E f : Right(f, 0)
    BY <2>1
  <2> HIDE DEF Right
  <2> QED
    BY <2>2
<1>2. \A n \in 0 .. N - 1 : n \in S => n + 1 \in S
  <2> HIDE DEF Right
  <2> SUFFICES ASSUME NEW n \in 0 .. N - 1, NEW f, Right(f, n)
               PROVE  \E g : Right(g, n + 1)
    <3>1. \A n \in 0 .. N - 1 : n + 1 \in 0 .. N
      OBVIOUS
    <3> QED
      BY <3>1
  <2> USE DEF Right
  <2> DEFINE g == [k \in 0 .. n + 1 |-> IF k <= n THEN f[k] ELSE next[k][f[n]]]
  <2>1. g \in [0 .. n + 1 -> V]
    <3>1. f[n] \in V /\ \A k \in 0 .. n : f[k] \in V
      OBVIOUS
    <3>2. ASSUME NEW k \in 0 .. n + 1, ~ (k <= n)
          PROVE  next[k][f[n]] \in V
      <4>1. k \in 1 .. N
        BY <3>2
      <4> QED
        BY <3>1, <4>1
    <3> QED
      BY <3>1, <3>2
  <2>2. g[0] = base
    OBVIOUS
  <2>3. ASSUME NEW m \in 1 .. n + 1
        PROVE  g[m] = next[m][g[m - 1]]
    <3>1. m - 1 \in 0 .. n + 1 /\ m - 1 <= n /\ m \in 0 .. n + 1
      OBVIOUS
    <3>2. g[m - 1] = f[m - 1]
      BY <3>1
    <3>3. CASE m <= n
      BY <3>1, <3>2, <3>3
    <3>4. CASE ~ (m <= n)
      <4>1. m - 1 = n
        BY <3>4
      <4> QED
        BY <3>1, <3>2, <3>4, <4>1
    <3> QED
      BY <3>3, <3>4
  <2> HIDE DEF g
  <2> QED
    BY <2>1, <2>2, <2>3
<1> HIDE DEF S
<1>3. \A n \in 0 .. N : n \in S
  BY <1>1, <1>2, UpTo
<1> QED
  BY <1>3 DEF S
=============================================================================
