-------------------------- MODULE DistancesProofs --------------------------
(***************************************************************************)
(* Proofs for CfgBuild and Distances, for every number of blocks, targets, *)
(* processes and blocks that are measured.                                 *)
(***************************************************************************)
EXTENDS Distances, FiniteSetTheorems, SequenceTheorems, TLAPS, Induction

Statement == [if : BOOLEAN, head : Blocks, other : 0 .. MaxBlocks,
              exit : Blocks, default : BOOLEAN]

-----------------------------------------------------------------------------
(***************************************************************************)
(* Sequences.                                                              *)
(***************************************************************************)

(* What the innermost statement and the ones around it are. *)
LEMMA InnerOuter ==
  ASSUME TypeOK, open # << >>
  PROVE  /\ Inner \in Statement
         /\ Outer \in Seq(Statement)
         /\ \A s \in Statement :
              /\ Append(Outer, s) \in Seq(Statement)
              /\ Len(Append(Outer, s)) = Len(open)
              /\ \A i \in 1 .. Len(open) :
                   Append(Outer, s)[i] = IF i = Len(open) THEN s ELSE open[i]
         /\ Len(Outer) = Len(open) - 1
         /\ \A i \in 1 .. Len(Outer) : Outer[i] = open[i]
<1>1. open \in Seq(Statement)
  BY DEF TypeOK, Statement
<1>2. Len(open) \in Nat /\ 1 <= Len(open)
  <2>1. Len(open) \in Nat \ {0}
    BY <1>1, EmptySeq
  <2> QED
    BY <2>1
<1>3. Inner \in Statement
  BY <1>1, <1>2, ElementOfSeq DEF Inner
<1>4. /\ Outer \in Seq(Statement)
      /\ Len(Outer) = Len(open) - 1
      /\ \A i \in 1 .. Len(Outer) : Outer[i] = open[i]
  <2>1. \A i \in 1 .. Len(open) - 1 : open[i] \in Statement
    BY <1>1, <1>2, ElementOfSeq
  <2>2. 1 \in Int /\ Len(open) - 1 \in Int
    BY <1>2
  <2>3. /\ Outer \in Seq(Statement)
        /\ Len(Outer) = IF 1 <= Len(open) - 1 THEN Len(open) - 1 - 1 + 1 ELSE 0
        /\ \A i \in 1 .. Len(open) - 1 - 1 + 1 : Outer[i] = open[1 + i - 1]
    <3> DEFINE n == Len(open) - 1
    <3>1. /\ SubSeq(open, 1, n) \in Seq(Statement)
          /\ Len(SubSeq(open, 1, n)) = IF 1 <= n THEN n - 1 + 1 ELSE 0
          /\ \A i \in 1 .. n - 1 + 1 : SubSeq(open, 1, n)[i] = open[1 + i - 1]
      <4>1. n \in Int /\ 1 \in Int /\ \A i \in 1 .. n : open[i] \in Statement
        BY <2>1, <2>2
      <4> HIDE DEF n
      <4> QED
        BY <4>1, SubSeqProperties
    <3> QED
      BY <3>1 DEF Outer
  <2>4. Len(Outer) = Len(open) - 1
    <3>1. \A n \in Nat : 1 <= n => (IF 1 <= n - 1 THEN n - 1 - 1 + 1 ELSE 0) = n - 1
      OBVIOUS
    <3> QED
      BY <1>2, <2>3, <3>1
  <2>5. ASSUME NEW i \in 1 .. Len(Outer)
        PROVE  Outer[i] = open[i]
    <3>1. i \in 1 .. Len(open) - 1 - 1 + 1 /\ 1 + i - 1 = i
      BY <1>2, <2>4
    <3> QED
      BY <2>3, <3>1
  <2> QED
    BY <2>3, <2>4, <2>5
<1>5. \A s \in Statement :
        /\ Append(Outer, s) \in Seq(Statement)
        /\ Len(Append(Outer, s)) = Len(open)
        /\ \A i \in 1 .. Len(open) :
             Append(Outer, s)[i] = IF i = Len(open) THEN s ELSE open[i]
  BY <1>2, <1>4, AppendProperties
<1> QED
  BY <1>3, <1>4, <1>5

(* A set of blocks in some order is a sequence, of those blocks alone. *)
LEMMA OrdersAreSequences ==
  ASSUME NEW S \in SUBSET Blocks, NEW s \in Orders(S), MaxBlocks \in Nat
  PROVE  /\ s \in Seq(S)
         /\ \A b \in S : \E i \in 1 .. Len(s) : s[i] = b
<1>1. IsFiniteSet(S)
  <2>1. IsFiniteSet(1 .. MaxBlocks)
    BY FS_Interval
  <2>2. S \subseteq 1 .. MaxBlocks
    BY DEF Blocks
  <2> QED
    BY <2>1, <2>2, FS_Subset
<1>2. Cardinality(S) \in Nat
  BY <1>1, FS_CardinalityType
<1>3. s \in [1 .. Cardinality(S) -> S]
      /\ \A b \in S : \E i \in 1 .. Cardinality(S) : s[i] = b
  BY DEF Orders, Surjection
<1> QED
  BY <1>2, <1>3

(* The queue after its head has been taken off and some blocks put behind. *)
Queued(q, b) == \E i \in 1 .. Len(q) : q[i] = b

LEMMA QueueStep ==
  ASSUME NEW q \in Seq(Blocks), q # << >>, NEW r \in Seq(Blocks)
  PROVE  /\ Tail(q) \o r \in Seq(Blocks)
         /\ Queued(q, Head(q))
         /\ \A b : Queued(q, b) /\ b # Head(q) => Queued(Tail(q) \o r, b)
         /\ \A b : Queued(r, b) => Queued(Tail(q) \o r, b)
         /\ \A b : Queued(Tail(q) \o r, b) => Queued(q, b) \/ Queued(r, b)
<1>1. /\ Tail(q) \in Seq(Blocks)
      /\ Len(q) \in Nat \ {0}
      /\ Len(Tail(q)) = Len(q) - 1
      /\ \A i \in 1 .. Len(Tail(q)) : Tail(q)[i] = q[i + 1]
      /\ Head(q) = q[1]
  BY HeadTailProperties, EmptySeq
<1>2. Len(r) \in Nat
  BY LenProperties
<1>3. /\ Tail(q) \o r \in Seq(Blocks)
      /\ Len(Tail(q) \o r) = Len(q) - 1 + Len(r)
      /\ \A i \in 1 .. Len(q) - 1 + Len(r) :
           (Tail(q) \o r)[i] = IF i <= Len(q) - 1 THEN q[i + 1]
                                                  ELSE r[i - (Len(q) - 1)]
  BY <1>1, <1>2, ConcatProperties
<1>4. Queued(q, Head(q))
  BY <1>1 DEF Queued
<1>5. ASSUME NEW b, Queued(q, b), b # Head(q)
      PROVE  Queued(Tail(q) \o r, b)
  <2>1. PICK i \in 1 .. Len(q) : q[i] = b
    BY <1>5 DEF Queued
  <2>2. i - 1 \in 1 .. Len(q) - 1
    BY <1>1, <1>5, <2>1
  <2>3. (Tail(q) \o r)[i - 1] = b
    <3>1. (i - 1) + 1 = i /\ i - 1 <= Len(q) - 1
          /\ i - 1 \in 1 .. Len(q) - 1 + Len(r)
      BY <1>1, <1>2, <2>2
    <3> QED
      BY <1>3, <2>1, <3>1
  <2>4. i - 1 \in 1 .. Len(Tail(q) \o r)
    BY <1>1, <1>2, <1>3, <2>2
  <2> QED
    BY <2>3, <2>4 DEF Queued
<1>6. ASSUME NEW b, Queued(r, b)
      PROVE  Queued(Tail(q) \o r, b)
  <2>1. PICK i \in 1 .. Len(r) : r[i] = b
    BY <1>6 DEF Queued
  <2>2. /\ i + (Len(q) - 1) \in 1 .. Len(q) - 1 + Len(r)
        /\ ~ i + (Len(q) - 1) <= Len(q) - 1
        /\ i + (Len(q) - 1) - (Len(q) - 1) = i
    BY <1>1, <1>2
  <2>3. (Tail(q) \o r)[i + (Len(q) - 1)] = b
    BY <1>3, <2>1, <2>2
  <2>4. i + (Len(q) - 1) \in 1 .. Len(Tail(q) \o r)
    BY <1>3, <2>2
  <2> QED
    BY <2>3, <2>4 DEF Queued
<1>7. ASSUME NEW b, Queued(Tail(q) \o r, b)
      PROVE  Queued(q, b) \/ Queued(r, b)
  <2>1. PICK i \in 1 .. Len(q) - 1 + Len(r) : (Tail(q) \o r)[i] = b
    BY <1>3, <1>7 DEF Queued
  <2>2. CASE i <= Len(q) - 1
    BY <1>1, <1>2, <1>3, <2>1, <2>2 DEF Queued
  <2>3. CASE ~ i <= Len(q) - 1
    <3>1. i - (Len(q) - 1) \in 1 .. Len(r)
      BY <1>1, <1>2, <2>3
    <3> QED
      BY <1>3, <2>1, <2>3, <3>1 DEF Queued
  <2> QED
    BY <2>2, <2>3
<1> QED
  BY <1>3, <1>4, <1>5, <1>6, <1>7

-----------------------------------------------------------------------------
(***************************************************************************)
(* Types.                                                                  *)
(***************************************************************************)

(* There is a target for every list of distances that is begun. *)
TargetsInv ==
  /\ phase # "build" => 1 <= Len(targets)
  /\ phase \in {"build", "realign"} => table = << >>
  /\ phase = "distance" => Len(table) < Len(targets)

LEMMA TypeInit ==
  ASSUME DistInit
  PROVE  TypeOK /\ TargetsInv
<1>1. MaxBlocks \in Nat \ {0}
  BY BlocksAssumption
<1>2. 1 \in Blocks /\ Far \in Nat
  BY <1>1 DEF Blocks, Far
<1>3. TypeOK
  BY <1>1, <1>2 DEF DistInit, Init, TypeOK, Reset
<1> QED
  BY <1>3 DEF DistInit, Init, TargetsInv

(* The walkers. *)
LEMMA BuildTypes ==
  ASSUME TypeOK, Build, UNCHANGED << targets, que, updated, dist, table, taken >>
  PROVE  TypeOK'
<1> USE DEF TypeOK, Statement
<1>0. /\ MaxBlocks \in Nat \ {0}
      /\ count \in Nat
      /\ \A n \in Nat : n <= MaxBlocks /\ 1 <= n => n \in Blocks
      /\ Blocks \subseteq 0 .. MaxBlocks
      /\ 0 \in 0 .. MaxBlocks
      /\ phase' = phase
  BY BlocksAssumption DEF Blocks, Build
<1>1. CASE Assign
  BY <1>0, <1>1 DEF Assign, walker
<1>2. CASE OpenIf
  <2>1. {count + 1, count + 2, count + 3} \subseteq Blocks
    BY <1>0, <1>2 DEF OpenIf, Blocks
  <2>2. /\ preds' \in [Blocks -> SUBSET Blocks]
        /\ idom' \in [Blocks -> 0 .. MaxBlocks]
        /\ weight' \in [Blocks -> {0, 1}]
        /\ branches' \subseteq Blocks
    BY <1>0, <1>2, <2>1 DEF OpenIf, Edge, Dominated
  <2>3. open' \in Seq(Statement)
    <3>1. [if |-> TRUE, head |-> top, other |-> count + 2,
           exit |-> count + 3, default |-> FALSE] \in Statement
      BY <1>0, <2>1
    <3> QED
      BY <1>2, <3>1, AppendProperties DEF OpenIf
  <2> QED
    BY <1>0, <1>2, <2>1, <2>2, <2>3 DEF OpenIf
<1>3. CASE Else
  <2>1. Inner \in Statement
    BY <1>3, InnerOuter DEF Else, At
  <2>2. [Inner EXCEPT !.other = 0] \in Statement
    BY <1>0, <2>1
  <2>3. open' \in Seq(Statement)
    BY <1>3, <2>2, InnerOuter DEF Else, At
  <2>4. Inner.other \in Blocks
    BY <1>0, <1>3, <2>1 DEF Else, Blocks
  <2> QED
    BY <1>0, <1>3, <2>1, <2>3, <2>4 DEF Else, Edge
<1>4. CASE EndIf
  <2>1. Inner \in Statement /\ open' \in Seq(Statement)
    BY <1>4, InnerOuter DEF EndIf, At
  <2> QED
    BY <1>0, <1>4, <2>1 DEF EndIf, Edge
<1>5. CASE OpenCase
  <2>1. count + 1 \in Blocks
    BY <1>0, <1>5 DEF OpenCase, Blocks
  <2>2. [if |-> FALSE, head |-> top, other |-> 0,
         exit |-> count + 1, default |-> FALSE] \in Statement
    BY <1>0, <2>1
  <2>3. open' \in Seq(Statement)
    BY <1>5, <2>2, AppendProperties DEF OpenCase
  <2> QED
    BY <1>0, <1>5, <2>1, <2>3 DEF OpenCase, Dominated
<1>6. ASSUME NEW default \in BOOLEAN, Item(default)
      PROVE  TypeOK'
  <2>1. count + 1 \in Blocks
    BY <1>0, <1>6 DEF Item, Blocks
  <2>2. Inner \in Statement
    BY <1>6, InnerOuter DEF Item, At
  <2>3. [Inner EXCEPT !.other = count + 1, !.default = default] \in Statement
    BY <1>0, <2>1, <2>2
  <2>4. open' \in Seq(Statement)
    BY <1>6, <2>3, InnerOuter DEF Item, At
  <2>5. /\ preds' \in [Blocks -> SUBSET Blocks]
        /\ idom' \in [Blocks -> 0 .. MaxBlocks]
        /\ weight' \in [Blocks -> {0, 1}]
        /\ branches' \subseteq Blocks
    BY <1>0, <1>6, <2>1, <2>2 DEF Item, Edge, Dominated
  <2> QED
    BY <1>0, <1>6, <2>1, <2>4, <2>5 DEF Item
<1>7. CASE EndItem
  <2>1. Inner \in Statement
    BY <1>7, InnerOuter DEF EndItem, At
  <2>2. [Inner EXCEPT !.other = 0] \in Statement
    BY <1>0, <2>1
  <2>3. open' \in Seq(Statement)
    BY <1>7, <2>2, InnerOuter DEF EndItem, At
  <2> QED
    BY <1>0, <1>7, <2>1, <2>3 DEF EndItem, Edge
<1>8. CASE EndCase
  <2>1. Inner \in Statement /\ open' \in Seq(Statement)
    BY <1>8, InnerOuter DEF EndCase, At
  <2> QED
    BY <1>0, <1>8, <2>1 DEF EndCase, graph
<1>9. CASE NextProcess
  <2>1. count + 1 \in Blocks
    BY <1>0, <1>9 DEF NextProcess, Blocks
  <2>2. Processes \subseteq Blocks \X Blocks
    BY DEF Processes
  <2> QED
    BY <1>0, <1>9, <2>1, <2>2 DEF NextProcess, graph
<1> QED
  BY <1>1, <1>2, <1>3, <1>4, <1>5, <1>6, <1>7, <1>8, <1>9 DEF Build

(* What one block does to bb_queue; after is the distance of every block   *)
(* once the predecessors have theirs.                                      *)
Sum(b) == dist[b] + weight[b]
Nearer(b) == {p \in preds[b] : Closer(dist, b, p)}
After(b) == [p \in Blocks |-> IF p \in Nearer(b) THEN Sum(b) ELSE dist[p]]
Lift(b) == idom[b] # 0 /\ Sum(b) < After(b)[idom[b]]

LEMMA RelaxStep ==
  ASSUME TypeOK, Relax, NEW b, b = Head(que)
  PROVE  /\ b \in Blocks /\ Sum(b) \in Nat /\ Queued(que, b)
         /\ dist' = [p \in Blocks |->
                       IF p \in Nearer(b) \/ (Lift(b) /\ p = idom[b]) THEN Sum(b)
                       ELSE dist[p]]
         /\ Lift(b) => idom[b] \in Blocks /\ Sum(b) < dist[idom[b]]
         /\ Nearer(b) \subseteq Blocks
         /\ que' \in Seq(Blocks)
         /\ \A c : \/ Queued(que, c) /\ c # b
                   \/ c \in Nearer(b)
                   \/ Lift(b) /\ c = idom[b]
                   => Queued(que', c)
         /\ \A c : Queued(que', c) => \/ Queued(que, c)
                                      \/ c \in Nearer(b)
                                      \/ Lift(b) /\ c = idom[b]
<1>0. que \in Seq(Blocks) /\ que # << >> /\ MaxBlocks \in Nat
  BY BlocksAssumption DEF TypeOK, Relax
<1>1. b \in Blocks /\ Sum(b) \in Nat /\ Nearer(b) \subseteq Blocks
  <2>1. b \in Blocks
    BY <1>0, HeadTailProperties
  <2>2. dist[b] \in Nat /\ weight[b] \in Nat /\ preds[b] \subseteq Blocks
    <3>1. weight[b] \in {0, 1}
      BY <2>1 DEF TypeOK
    <3>2. dist[b] \in Nat /\ preds[b] \subseteq Blocks
      BY <2>1 DEF TypeOK
    <3> QED
      BY <3>1, <3>2
  <2> QED
    BY <2>1, <2>2 DEF Sum, Nearer
<1>2. Lift(b) => idom[b] \in Blocks /\ Sum(b) < dist[idom[b]]
  <2>1. SUFFICES ASSUME Lift(b)
                 PROVE  idom[b] \in Blocks /\ Sum(b) < dist[idom[b]]
    OBVIOUS
  <2>2. idom[b] \in Blocks
    BY <1>0, <1>1, <2>1 DEF TypeOK, Lift, Blocks
  <2>3. Sum(b) < (IF idom[b] \in Nearer(b) THEN Sum(b) ELSE dist[idom[b]])
    BY <2>1, <2>2 DEF Lift, After
  <2> QED
    BY <1>1, <2>2, <2>3
<1>3. dist' = IF Lift(b) THEN [After(b) EXCEPT ![idom[b]] = Sum(b)] ELSE After(b)
  BY DEF Relax, Lift, After, Nearer, Sum
<1>4. dist' = [p \in Blocks |->
                 IF p \in Nearer(b) \/ (Lift(b) /\ p = idom[b]) THEN Sum(b)
                 ELSE dist[p]]
  BY <1>2, <1>3 DEF After
<1>5. PICK s \in Orders(Nearer(b)) :
        que' = Tail(que) \o s \o IF Lift(b) THEN << idom[b] >> ELSE << >>
  BY DEF Relax, Lift, After, Nearer, Sum
<1> DEFINE u == IF Lift(b) THEN << idom[b] >> ELSE << >>
<1> DEFINE r == s \o u
<1>6. /\ s \in Seq(Nearer(b)) /\ s \in Seq(Blocks)
      /\ \A c \in Nearer(b) : Queued(s, c)
      /\ \A c : Queued(s, c) => c \in Nearer(b)
  <2>1. s \in Seq(Nearer(b)) /\ \A c \in Nearer(b) : Queued(s, c)
    BY <1>0, <1>1, OrdersAreSequences DEF Queued
  <2>2. s \in Seq(Blocks)
    BY <1>1, <2>1, SeqMonotonic
  <2>3. \A c : Queued(s, c) => c \in Nearer(b)
    BY <2>1, ElementOfSeq DEF Queued
  <2> QED
    BY <2>1, <2>2, <2>3
<1>7. /\ u \in Seq(Blocks)
      /\ \A c : Queued(u, c) <=> Lift(b) /\ c = idom[b]
  <2>1. CASE Lift(b)
    BY <1>2, <2>1 DEF Queued
  <2>2. CASE ~ Lift(b)
    BY <2>2, EmptySeq DEF Queued
  <2> QED
    BY <2>1, <2>2
<1> HIDE DEF u
<1>8. /\ r \in Seq(Blocks)
      /\ \A c : Queued(r, c) <=> Queued(s, c) \/ Queued(u, c)
  <2>1. /\ Len(s) \in Nat /\ Len(u) \in Nat
        /\ r \in Seq(Blocks)
        /\ Len(r) = Len(s) + Len(u)
        /\ \A i \in 1 .. Len(s) + Len(u) :
             r[i] = IF i <= Len(s) THEN s[i] ELSE u[i - Len(s)]
    BY <1>6, <1>7, ConcatProperties, LenProperties
  <2> HIDE DEF r
  <2>2. ASSUME NEW c, Queued(s, c)
        PROVE  Queued(r, c)
    BY <2>1, <2>2 DEF Queued
  <2>3. ASSUME NEW c, Queued(u, c)
        PROVE  Queued(r, c)
    <3>1. PICK i \in 1 .. Len(u) : u[i] = c
      BY <2>3 DEF Queued
    <3>2. /\ i + Len(s) \in 1 .. Len(s) + Len(u)
          /\ ~ i + Len(s) <= Len(s)
          /\ i + Len(s) - Len(s) = i
      BY <2>1
    <3>3. r[i + Len(s)] = c /\ i + Len(s) \in 1 .. Len(r)
      BY <2>1, <3>1, <3>2
    <3> QED
      BY <3>3 DEF Queued
  <2>4. ASSUME NEW c, Queued(r, c)
        PROVE  Queued(s, c) \/ Queued(u, c)
    <3>1. PICK i \in 1 .. Len(s) + Len(u) : r[i] = c
      BY <2>1, <2>4 DEF Queued
    <3>2. CASE i <= Len(s)
      BY <2>1, <3>1, <3>2 DEF Queued
    <3>3. CASE ~ i <= Len(s)
      <4>1. i - Len(s) \in 1 .. Len(u)
        BY <2>1, <3>3
      <4> QED
        BY <2>1, <3>1, <3>3, <4>1 DEF Queued
    <3> QED
      BY <3>2, <3>3
  <2> QED
    BY <2>1, <2>2, <2>3, <2>4
<1>9. que' = Tail(que) \o r
  <2>1. Tail(que) \in Seq(Blocks)
    BY <1>0, HeadTailProperties
  <2>2. que' = (Tail(que) \o s) \o u
    BY <1>5 DEF u
  <2>3. (Tail(que) \o s) \o u = Tail(que) \o (s \o u)
    BY <1>6, <1>7, <2>1, ConcatAssociative
  <2> QED
    BY <2>2, <2>3
<1> HIDE DEF r
<1> QED
  BY <1>0, <1>1, <1>2, <1>4, <1>6, <1>7, <1>8, <1>9, QueueStep

LEMMA RealignTypes ==
  ASSUME TypeOK, Realign
  PROVE  TypeOK'
<1>0. /\ que \in Seq(Blocks) /\ que # << >> /\ MaxBlocks \in Nat
      /\ Head(que) \in Blocks /\ Tail(que) \in Seq(Blocks)
  <2>1. que \in Seq(Blocks) /\ que # << >> /\ MaxBlocks \in Nat
    BY BlocksAssumption DEF TypeOK, Realign
  <2> QED
    BY <2>1, HeadTailProperties
<1> SUFFICES /\ preds' \in [Blocks -> SUBSET Blocks]
             /\ updated' \subseteq Blocks
             /\ que' \in Seq(Blocks)
  <2>1. taken' \in Seq(Blocks)
    BY <1>0, AppendProperties DEF TypeOK, Realign
  <2> QED
    BY <2>1 DEF TypeOK, Realign, walker
<1> DEFINE b == Head(que)
<1>1. ASSUME NEW from \in SUBSET assigns, Enable(b, from)
      PROVE  /\ preds' \in [Blocks -> SUBSET Blocks]
             /\ updated' \subseteq Blocks
             /\ que' \in Seq(Blocks)
  <2>1. from \subseteq Blocks
    BY DEF TypeOK
  <2>2. PICK s \in Orders({c \in from : Awaits(c)}) : que' = Tail(que) \o s
    BY <1>1 DEF Enable
  <2>3. s \in Seq({c \in from : Awaits(c)})
    BY <1>0, <2>1, OrdersAreSequences
  <2>4. s \in Seq(Blocks)
    BY <2>1, <2>3, SeqMonotonic
  <2>5. que' \in Seq(Blocks)
    BY <1>0, <2>2, <2>4, ConcatProperties
  <2> QED
    BY <1>0, <1>1, <2>1, <2>5 DEF Enable, TypeOK
<1>2. CASE GoUp(b)
  <2>1. idom[b] # 0 => idom[b] \in Blocks
    BY <1>0 DEF TypeOK, Blocks
  <2>2. que' \in Seq(Blocks)
    BY <1>0, <1>2, <2>1, AppendProperties DEF GoUp
  <2> QED
    BY <1>2, <2>1, <2>2 DEF GoUp, TypeOK
<1>3. CASE Stop
  BY <1>0, <1>3 DEF Stop, TypeOK
<1> QED
  BY <1>1, <1>2, <1>3 DEF Realign

LEMMA TypeStep ==
  ASSUME TypeOK, TargetsInv, [DistNext]_vars
  PROVE  TypeOK' /\ TargetsInv'
<1>0. Len(targets) \in Nat /\ Len(table) \in Nat /\ Far \in Nat
  BY LenProperties DEF TypeOK, Far
<1>a. \A d, t : t \in Blocks => ZeroAt(d, t) \in [Blocks -> Nat]
  BY <1>0 DEF ZeroAt, Reset
<1>1. ASSUME Build, UNCHANGED << targets, que, updated, dist, table, measured,
                           taken >>
      PROVE  TypeOK' /\ TargetsInv'
  BY <1>1, BuildTypes DEF Build, TargetsInv
<1>2. CASE SelectTargets
  <2>1. PICK n \in 1 .. MaxTargets : targets' \in [1 .. n -> branches]
    BY <1>2 DEF SelectTargets
  <2>2. n \in Nat /\ 1 <= n
    BY MeasuredAssumption
  <2>3. /\ targets' \in Seq(Blocks)
        /\ Len(targets') = n
        /\ Range(targets') \subseteq Blocks
    <3>1. branches \subseteq Blocks
      BY DEF TypeOK
    <3>2. targets' \in [1 .. n -> Blocks]
      BY <2>1, <3>1
    <3>3. Range(targets') \subseteq Blocks
      BY <3>2 DEF Range
    <3> QED
      BY <2>2, <3>2, <3>3
  <2> QED
    BY <1>2, <2>2, <2>3 DEF SelectTargets, TypeOK, TargetsInv, graph, walker
<1>3. CASE Realign
  BY <1>3, RealignTypes DEF Realign, TargetsInv
<1>4. CASE Measure
  <2>1. 1 <= Len(targets) /\ table = << >>
    BY <1>4 DEF Measure, TargetsInv
  <2>2. targets[1] \in Blocks
    BY <1>0, <2>1, ElementOfSeq DEF TypeOK
  <2>3. que' \in Seq(Blocks) /\ dist' \in [Blocks -> Nat]
    BY <1>4, <1>a, <2>2 DEF Measure
  <2>4. TypeOK'
    BY <1>4, <2>3 DEF Measure, TypeOK, graph, walker
  <2>5. Len(table) < Len(targets)
    <3>1. Len(table) = 0
      BY <2>1
    <3> QED
      BY <1>0, <2>1, <3>1
  <2> QED
    BY <1>4, <2>1, <2>4, <2>5 DEF Measure, TargetsInv
<1>5. CASE Relax
  <2>1. que' \in Seq(Blocks)
    BY <1>5, RelaxStep
  <2>2. dist' \in [Blocks -> Nat]
    <3>1. PICK b : b = Head(que)
      OBVIOUS
    <3>2. /\ Sum(b) \in Nat
          /\ dist' = [p \in Blocks |->
                        IF p \in Nearer(b) \/ (Lift(b) /\ p = idom[b]) THEN Sum(b)
                        ELSE dist[p]]
      BY <1>5, <3>1, RelaxStep
    <3>3. \A p \in Blocks : dist[p] \in Nat
      BY DEF TypeOK
    <3> QED
      BY <3>2, <3>3
  <2> QED
    BY <1>5, <2>1, <2>2 DEF Relax, TypeOK, TargetsInv, graph, walker
<1>6. ASSUME table' = Append(table, dist)
      PROVE  table' \in Seq([Blocks -> Nat]) /\ Len(table') = Len(table) + 1
  BY <1>6, AppendProperties DEF TypeOK
<1>7. CASE NextTarget
  <2>1. Len(table') + 1 \in 1 .. Len(targets)
    BY <1>0, <1>6, <1>7 DEF NextTarget
  <2>2. targets[Len(table') + 1] \in Blocks
    BY <2>1, ElementOfSeq DEF TypeOK
  <2>3. que' \in Seq(Blocks) /\ dist' \in [Blocks -> Nat]
    BY <1>7, <1>a, <2>2 DEF NextTarget
  <2> QED
    BY <1>6, <1>7, <2>3 DEF NextTarget, TypeOK, TargetsInv, graph, walker
<1>8. CASE Circular
  <2>1. \A b : {p[2] : p \in {q \in Processes : q[1] = b /\ q[2] # b}} \subseteq Blocks
    BY DEF Processes, TypeOK
  <2>2. preds' \in [Blocks -> SUBSET Blocks]
    BY <1>8, <2>1 DEF Circular, TypeOK
  <2> QED
    BY <1>6, <1>8, <2>2 DEF Circular, TypeOK, TargetsInv, walker
<1>9. CASE UNCHANGED vars
  BY <1>9 DEF vars, graph, walker, TypeOK, TargetsInv
<1> QED
  BY <1>1, <1>2, <1>3, <1>4, <1>5, <1>7, <1>8, <1>9 DEF DistNext

(***************************************************************************)
(* Every variable keeps its type; blocks are always blocks, the NULL of an *)
(* entry_block's idom never gets into a queue.                             *)
(***************************************************************************)
THEOREM TypeCorrect == Spec => []TypeOK
<1>1. DistInit => TypeOK /\ TargetsInv
  BY TypeInit
<1>2. (TypeOK /\ TargetsInv) /\ [DistNext]_vars => (TypeOK /\ TargetsInv)'
  BY TypeStep
<1> QED
  BY <1>1, <1>2, PTL DEF Spec

-----------------------------------------------------------------------------
(***************************************************************************)
(* Distances.  While blocks wait in bb_queue the equations are off by them *)
(* alone: a step of the graph that would shorten a distance starts at a    *)
(* block that waits, and a distance is never less than what a block it     *)
(* leads to accounts for.                                                  *)
(***************************************************************************)
Target == targets[Len(table) + 1]

Leads(p, b) == p \in preds[b] \/ p = idom[b]

Accounted(d, p, b) == Leads(p, b) /\ d[b] < Far /\ d[b] + weight[b] <= d[p]

BalanceInv ==
  phase = "distance" =>
    /\ Target \in Blocks /\ dist[Target] = 0
    /\ \A p \in Blocks : dist[p] <= Far
    /\ \A c : Queued(que, c) => dist[c] < Far
    /\ \A b, p \in Blocks :
         Leads(p, b) => Queued(que, b) \/ dist[p] <= dist[b] + weight[b]
    /\ \A p \in Blocks \ {Target} :
         dist[p] < Far => \E b \in Blocks : Accounted(dist, p, b)

(* The first moment of a target. *)
LEMMA BalanceStart ==
  ASSUME TypeOK, NEW t \in Blocks, dist' = ZeroAt(dist, t), que' = << t >>,
         targets'[Len(table') + 1] = t, weight' = weight
  PROVE  BalanceInv'
<1>1. Far \in Nat /\ 0 < Far
  BY DEF Far
<1>2. /\ \A p \in Blocks : dist'[p] = IF p = t THEN 0 ELSE Far
      /\ \A p \in Blocks : weight[p] \in Nat
  <2>1. \A p \in Blocks : weight[p] \in {0, 1}
    BY DEF TypeOK
  <2> QED
    BY <2>1 DEF ZeroAt, Reset
<1>3. \A c : Queued(que', c) <=> c = t
  BY DEF Queued
<1>4. ASSUME NEW b \in Blocks, NEW p \in Blocks, b # t
      PROVE  dist'[p] <= dist'[b] + weight'[b]
  BY <1>1, <1>2, <1>4
<1>5. Target' = t
  BY DEF Target
<1> QED
  BY <1>1, <1>2, <1>3, <1>4, <1>5 DEF BalanceInv

(* One block is taken off the queue. *)
LEMMA BalanceRelax ==
  ASSUME TypeOK, BalanceInv, Relax
  PROVE  BalanceInv'
<1> DEFINE b == Head(que)
<1> DEFINE Moves(p) == p \in Nearer(b) \/ (Lift(b) /\ p = idom[b])
<1>0. /\ phase = "distance" /\ phase' = phase /\ Target' = Target
      /\ weight' = weight /\ preds' = preds /\ idom' = idom
  BY DEF Relax, graph, Target
<1>1. /\ b \in Blocks /\ Sum(b) \in Nat /\ Queued(que, b)
      /\ dist' = [p \in Blocks |-> IF Moves(p) THEN Sum(b) ELSE dist[p]]
      /\ \A c : (Queued(que, c) /\ c # b) \/ Moves(c) => Queued(que', c)
      /\ \A c : Queued(que', c) => Queued(que, c) \/ Moves(c)
      /\ \A c : Moves(c) => c \in Blocks
  BY RelaxStep
<1>2. /\ \A p \in Blocks : dist[p] \in Nat /\ weight[p] \in Nat
      /\ Far \in Nat
  <2>1. \A p \in Blocks : weight[p] \in {0, 1} /\ dist[p] \in Nat
    BY DEF TypeOK
  <2> QED
    BY <2>1 DEF Far
<1>3. \A p \in Blocks : Moves(p) => Sum(b) < dist[p]
  <2>1. \A p \in Nearer(b) : Sum(b) < dist[p]
    BY DEF Nearer, Closer, Sum
  <2>2. Lift(b) => Sum(b) < dist[idom[b]]
    BY RelaxStep
  <2> QED
    BY <2>1, <2>2
<1>4. Sum(b) = dist[b] + weight[b] /\ dist[b] <= Sum(b) /\ ~ Moves(b)
  BY <1>1, <1>2, <1>3 DEF Sum
<1>5. \A p \in Blocks : Leads(p, b) /\ ~ Moves(p) => dist[p] <= Sum(b)
  <2>1. ASSUME NEW p \in Blocks, p \in preds[b], ~ Moves(p)
        PROVE  dist[p] <= Sum(b)
    BY <1>1, <1>2, <2>1 DEF Nearer, Closer, Sum
  <2>2. ASSUME NEW p \in Blocks, p = idom[b], ~ Moves(p)
        PROVE  dist[p] <= Sum(b)
    <3>1. p # 0
      BY BlocksAssumption DEF Blocks
    <3>2. ~ Sum(b) < After(b)[p] /\ p \notin Nearer(b)
      BY <2>2, <3>1 DEF Lift
    <3>3. After(b)[p] = dist[p]
      BY <3>2 DEF After
    <3> QED
      BY <1>1, <1>2, <3>2, <3>3
  <2> QED
    BY <2>1, <2>2 DEF Leads
<1>6. \A p \in Blocks : /\ dist'[p] = IF Moves(p) THEN Sum(b) ELSE dist[p]
                        /\ dist'[p] <= dist[p]
                        /\ dist'[p] \in Nat
  BY <1>1, <1>2, <1>3
<1>7. \A p : Moves(p) => Leads(p, b)
  BY DEF Leads, Nearer
<1> HIDE DEF Moves, b
<1>8. Target \in Blocks /\ dist'[Target] = 0
  BY <1>0, <1>2, <1>6 DEF BalanceInv
<1>9. \A p \in Blocks : dist'[p] <= Far
  BY <1>0, <1>2, <1>6 DEF BalanceInv
<1>10. \A c : Queued(que', c) => dist'[c] < Far
  <2>1. ASSUME NEW c, Queued(que', c)
        PROVE  dist'[c] < Far
    <3>1. CASE Moves(c)
      <4>1. c \in Blocks /\ dist[c] <= Far /\ Sum(b) < dist[c]
        BY <1>0, <1>1, <1>3, <3>1 DEF BalanceInv
      <4> QED
        BY <1>1, <1>2, <1>6, <3>1, <4>1
    <3>2. CASE ~ Moves(c)
      <4>1. Queued(que, c) /\ dist[c] < Far
        BY <1>0, <1>1, <2>1, <3>2 DEF BalanceInv
      <4>2. c \in Blocks
        BY <4>1, ElementOfSeq DEF Queued, TypeOK
      <4> QED
        BY <1>6, <3>2, <4>1, <4>2
    <3> QED
      BY <3>1, <3>2
  <2> QED
    BY <2>1
<1>11. ASSUME NEW c \in Blocks, NEW p \in Blocks, Leads(p, c), ~ Queued(que', c)
       PROVE  dist'[p] <= dist'[c] + weight[c]
  <2>1. ~ Moves(c) /\ dist'[c] = dist[c]
    BY <1>1, <1>6, <1>11
  <2>2. CASE c = b
    BY <1>1, <1>2, <1>4, <1>5, <1>6, <1>11, <2>1, <2>2
  <2>3. CASE c # b
    <3>1. ~ Queued(que, c)
      BY <1>1, <1>11, <2>3
    <3>2. dist[p] <= dist[c] + weight[c]
      BY <1>0, <1>11, <3>1 DEF BalanceInv
    <3> QED
      BY <1>2, <1>6, <2>1, <3>2
  <2> QED
    BY <2>2, <2>3
<1>12. ASSUME NEW p \in Blocks \ {Target}, dist'[p] < Far
       PROVE  \E c \in Blocks : Accounted(dist', p, c)
  <2>1. CASE Moves(p)
    <3>1. dist[b] < Far /\ dist'[b] = dist[b]
      BY <1>0, <1>1, <1>4, <1>6 DEF BalanceInv
    <3>2. Leads(p, b) /\ dist'[p] = dist[b] + weight[b]
      BY <1>4, <1>6, <1>7, <2>1
    <3> QED
      BY <1>1, <1>2, <3>1, <3>2 DEF Accounted
  <2>2. CASE ~ Moves(p)
    <3>1. dist'[p] = dist[p]
      BY <1>6, <2>2
    <3>2. PICK c \in Blocks : Accounted(dist, p, c)
      BY <1>0, <1>12, <3>1 DEF BalanceInv
    <3>3. /\ Leads(p, c) /\ dist[c] < Far /\ dist[c] + weight[c] <= dist[p]
          /\ dist'[c] <= dist[c]
      BY <1>6, <3>2 DEF Accounted
    <3>4. dist'[c] < Far /\ dist'[c] + weight[c] <= dist'[p]
      BY <1>2, <1>6, <3>1, <3>3
    <3> QED
      BY <3>3, <3>4 DEF Accounted
  <2> QED
    BY <2>1, <2>2
<1> QED
  BY <1>0, <1>8, <1>9, <1>10, <1>11, <1>12 DEF BalanceInv, Accounted, Leads

LEMMA BalanceStep ==
  ASSUME TypeOK, TargetsInv, BalanceInv, [DistNext]_vars
  PROVE  BalanceInv'
<1>0. Len(targets) \in Nat /\ Len(table) \in Nat
  BY LenProperties DEF TypeOK
<1>1. ASSUME Build
      PROVE  BalanceInv'
  BY <1>1 DEF Build, BalanceInv
<1>2. CASE SelectTargets
  BY <1>2 DEF SelectTargets, BalanceInv
<1>3. CASE Realign
  BY <1>3 DEF Realign, BalanceInv
<1>4. CASE Measure
  <2>1. 1 <= Len(targets) /\ table = << >> /\ Len(table) + 1 = 1
    BY <1>4 DEF Measure, TargetsInv
  <2>2. targets[1] \in Blocks
    BY <1>0, <2>1, ElementOfSeq DEF TypeOK
  <2>3. targets'[Len(table') + 1] = targets[1]
    BY <1>4, <2>1 DEF Measure
  <2> QED
    BY <1>4, <2>2, <2>3, BalanceStart DEF Measure, graph
<1>5. CASE Relax
  BY <1>5, BalanceRelax
<1>6. CASE NextTarget
  <2>1. Len(table') = Len(table) + 1
    BY <1>6, AppendProperties DEF NextTarget, TypeOK
  <2>2. targets[Len(table') + 1] \in Blocks
    <3>1. Len(table') + 1 \in 1 .. Len(targets)
      BY <1>0, <1>6, <2>1 DEF NextTarget
    <3> QED
      BY <3>1, ElementOfSeq DEF TypeOK
  <2> QED
    BY <1>6, <2>2, BalanceStart DEF NextTarget, graph
<1>7. CASE Circular
  BY <1>7 DEF Circular, BalanceInv
<1>8. CASE UNCHANGED vars
  BY <1>8 DEF vars, graph, walker, BalanceInv, Accounted, Leads, Target
<1> QED
  BY <1>1, <1>2, <1>3, <1>4, <1>5, <1>6, <1>7, <1>8 DEF DistNext

-----------------------------------------------------------------------------
(***************************************************************************)
(* Control flow.  While a statement is open, the block that will follow it *)
(* already has the statement's block as its idom, and no other block will  *)
(* be given that number.                                                   *)
(***************************************************************************)
Known(e) == /\ e[2] \in Blocks /\ e[2] <= count
            /\ e[1] \in preds[e[2]] \/ e[1] = idom[e[2]]

Awaited(s) == s.exit \in Blocks /\ s.exit <= count /\ idom[s.exit] = s.head

FlowInv ==
  phase = "build" =>
    /\ \A e \in flow : Known(e)
    /\ \A i \in 1 .. Len(open) : Awaited(open[i])

(* What all actions have in common: edges are added, known blocks keep     *)
(* their idom, and the statements that are open were open or are awaited.  *)
LEMMA FlowGrows ==
  ASSUME TypeOK, TypeOK', FlowInv, phase = "build", count <= count',
         \A b \in Blocks : preds[b] \subseteq preds'[b],
         \A b \in Blocks : b <= count => idom'[b] = idom[b],
         \A e \in flow' \ flow : Known(e)',
         \A i \in 1 .. Len(open') :
           \/ /\ i <= Len(open)
              /\ open'[i].exit = open[i].exit
              /\ open'[i].head = open[i].head
           \/ /\ open'[i].exit \in Blocks
              /\ open'[i].exit <= count'
              /\ idom'[open'[i].exit] = open'[i].head
  PROVE  FlowInv'
<1>1. count \in Nat /\ count' \in Nat /\ \A b \in Blocks : b \in Nat
  <2>1. count \in Blocks /\ count' \in Blocks
    BY DEF TypeOK
  <2> QED
    BY <2>1, BlocksAssumption DEF Blocks
<1>2. ASSUME NEW e \in flow
      PROVE  Known(e)'
  BY <1>1 DEF FlowInv, Known
<1>3. ASSUME NEW i \in 1 .. Len(open')
      PROVE  Awaited(open[i])'
  <2>1. CASE i <= Len(open) /\ open'[i].exit = open[i].exit
                            /\ open'[i].head = open[i].head
    <3>1. i \in 1 .. Len(open)
      BY <2>1
    <3>2. Awaited(open[i])
      BY <3>1 DEF FlowInv
    <3> QED
      BY <1>1, <2>1, <3>2 DEF Awaited
  <2> QED
    BY <1>3, <2>1 DEF Awaited
<1> QED
  BY <1>2, <1>3 DEF FlowInv

LEMMA FlowBuild ==
  ASSUME TypeOK, TypeOK', FlowInv, Build
  PROVE  FlowInv'
<1>0. /\ phase = "build" /\ count \in Nat
      /\ preds \in [Blocks -> SUBSET Blocks]
      /\ idom \in [Blocks -> 0 .. MaxBlocks]
      /\ Len(open) \in Nat
      /\ MaxBlocks \in Nat
  <2>1. /\ phase = "build" /\ count \in Blocks
        /\ preds \in [Blocks -> SUBSET Blocks]
        /\ idom \in [Blocks -> 0 .. MaxBlocks]
    BY DEF Build, TypeOK
  <2>2. Len(open) \in Nat
    BY LenProperties DEF TypeOK
  <2> QED
    BY <2>1, <2>2, BlocksAssumption DEF Blocks
<1>a. ASSUME open # << >>
      PROVE  /\ Inner \in Statement /\ Inner = open[Len(open)]
             /\ Len(open) \in 1 .. Len(open)
             /\ Awaited(Inner)
             /\ Len(Outer) = Len(open) - 1
             /\ \A i \in 1 .. Len(Outer) : Outer[i] = open[i]
             /\ \A s \in Statement :
                  /\ Len(Append(Outer, s)) = Len(open)
                  /\ \A i \in 1 .. Len(open) :
                       Append(Outer, s)[i] = IF i = Len(open) THEN s ELSE open[i]
  <2>1. Len(open) \in Nat \ {0}
    BY <1>a, EmptySeq DEF TypeOK
  <2>2. Len(open) \in 1 .. Len(open)
    BY <2>1
  <2>3. Awaited(Inner)
    BY <1>0, <2>2 DEF FlowInv, Inner
  <2> QED
    BY <1>a, <2>2, <2>3, InnerOuter DEF Inner
<1>1. CASE Assign
  BY <1>0, <1>1, FlowGrows DEF Assign, walker
<1>2. CASE OpenIf
  <2>1. {count + 1, count + 2, count + 3} \subseteq Blocks
    BY <1>0, <1>2 DEF OpenIf, Blocks
  <2>2. /\ \A b \in Blocks : preds[b] \subseteq preds'[b]
        /\ top \in preds'[count + 1] /\ top \in preds'[count + 2]
    BY <1>0, <1>2, <2>1 DEF OpenIf, Edge
  <2>3. /\ \A b \in Blocks : b <= count => idom'[b] = idom[b]
        /\ idom'[count + 3] = top
    BY <1>0, <1>2, <2>1 DEF OpenIf, Dominated, Blocks
  <2>4. \A e \in flow' \ flow : Known(e)'
    BY <1>0, <1>2, <2>1, <2>2 DEF OpenIf, Edge, Known
  <2>5. \A i \in 1 .. Len(open') :
          \/ /\ i <= Len(open)
             /\ open'[i].exit = open[i].exit
             /\ open'[i].head = open[i].head
          \/ /\ open'[i].exit \in Blocks
             /\ open'[i].exit <= count'
             /\ idom'[open'[i].exit] = open'[i].head
    <3>0. PICK s : s = [if |-> TRUE, head |-> top, other |-> count + 2,
                        exit |-> count + 3, default |-> FALSE]
      OBVIOUS
    <3>1. s \in Statement /\ open \in Seq(Statement)
      BY <1>0, <2>1, <3>0 DEF Statement, TypeOK, Blocks
    <3>2. Awaited(s)'
      BY <1>0, <1>2, <2>1, <2>3, <3>0 DEF OpenIf, Awaited
    <3>3. open' = Append(open, s)
      BY <1>2, <3>0 DEF OpenIf
    <3>4. /\ Len(open') = Len(open) + 1
          /\ \A i \in 1 .. Len(open) : open'[i] = open[i]
          /\ open'[Len(open) + 1] = s
      BY <3>1, <3>3, AppendProperties
    <3>5. ASSUME NEW i \in 1 .. Len(open'), i > Len(open)
          PROVE  open'[i] = s
      <4>1. i = Len(open) + 1
        BY <1>0, <3>4, <3>5
      <4> QED
        BY <3>4, <4>1
    <3>6. ASSUME NEW i \in 1 .. Len(open'), i <= Len(open)
          PROVE  open'[i] = open[i]
      BY <1>0, <3>4, <3>6
    <3>7. \A i \in 1 .. Len(open') : i <= Len(open) \/ i > Len(open)
      BY <1>0
    <3> QED
      BY <3>2, <3>5, <3>6, <3>7 DEF Awaited
  <2> QED
    BY <1>0, <1>2, <2>2, <2>3, <2>4, <2>5, FlowGrows DEF OpenIf
<1>3. ASSUME open # << >>, Edge(top, {Inner.exit}), idom' = idom, count' = count,
             \/ open' = Outer
             \/ open' = Append(Outer, [Inner EXCEPT !.other = 0])
      PROVE  FlowInv'
  <2>1. Inner.exit \in Blocks /\ Inner.exit <= count
    BY <1>3, <1>a DEF Awaited
  <2>2. /\ \A b \in Blocks : preds[b] \subseteq preds'[b]
        /\ top \in preds'[Inner.exit]
    BY <1>0, <1>3, <2>1 DEF Edge
  <2>3. \A e \in flow' \ flow : Known(e)'
    BY <1>3, <2>1, <2>2 DEF Edge, Known
  <2>4. [Inner EXCEPT !.other = 0] \in Statement
    BY <1>3, <1>a, BlocksAssumption DEF Statement
  <2>5. \A i \in 1 .. Len(open') :
          i <= Len(open) /\ open'[i].exit = open[i].exit
                         /\ open'[i].head = open[i].head
    <3>1. CASE open' = Outer
      BY <1>0, <1>3, <1>a, <3>1
    <3>2. CASE open' = Append(Outer, [Inner EXCEPT !.other = 0])
      <4>1. /\ Len(open') = Len(open)
            /\ \A i \in 1 .. Len(open) :
                 open'[i] = IF i = Len(open) THEN [Inner EXCEPT !.other = 0]
                                             ELSE open[i]
        BY <1>3, <1>a, <2>4, <3>2
      <4>2. /\ [Inner EXCEPT !.other = 0].exit = Inner.exit
            /\ [Inner EXCEPT !.other = 0].head = Inner.head
        BY <1>3, <1>a DEF Statement
      <4>3. ASSUME NEW i \in 1 .. Len(open)
            PROVE  open'[i].exit = open[i].exit /\ open'[i].head = open[i].head
        <5>1. CASE i = Len(open)
          <6>1. open[i] = Inner /\ open'[i] = [Inner EXCEPT !.other = 0]
            BY <1>3, <1>a, <4>1, <5>1
          <6> QED
            BY <4>2, <6>1
        <5>2. CASE i # Len(open)
          BY <4>1, <5>2
        <5> QED
          BY <5>1, <5>2
      <4> QED
        BY <1>0, <4>1, <4>3
    <3> QED
      BY <1>3, <3>1, <3>2
  <2> QED
    BY <1>0, <1>3, <2>2, <2>3, <2>5, FlowGrows
<1>4. CASE OpenCase
  <2>1. count + 1 \in Blocks
    BY <1>0, <1>4 DEF OpenCase, Blocks
  <2>2. /\ \A b \in Blocks : b <= count => idom'[b] = idom[b]
        /\ idom'[count + 1] = top
    BY <1>0, <1>4, <2>1 DEF OpenCase, Dominated, Blocks
  <2>3. \A i \in 1 .. Len(open') :
          \/ /\ i <= Len(open)
             /\ open'[i].exit = open[i].exit
             /\ open'[i].head = open[i].head
          \/ /\ open'[i].exit \in Blocks
             /\ open'[i].exit <= count'
             /\ idom'[open'[i].exit] = open'[i].head
    <3>0. PICK s : s = [if |-> FALSE, head |-> top, other |-> 0,
                        exit |-> count + 1, default |-> FALSE]
      OBVIOUS
    <3>1. s \in Statement /\ open \in Seq(Statement)
      BY <1>0, <2>1, <3>0 DEF Statement, TypeOK, Blocks
    <3>2. Awaited(s)'
      BY <1>0, <1>4, <2>1, <2>2, <3>0 DEF OpenCase, Awaited
    <3>3. open' = Append(open, s)
      BY <1>4, <3>0 DEF OpenCase
    <3>4. /\ Len(open') = Len(open) + 1
          /\ \A i \in 1 .. Len(open) : open'[i] = open[i]
          /\ open'[Len(open) + 1] = s
      BY <3>1, <3>3, AppendProperties
    <3>5. ASSUME NEW i \in 1 .. Len(open'), i > Len(open)
          PROVE  open'[i] = s
      <4>1. i = Len(open) + 1
        BY <1>0, <3>4, <3>5
      <4> QED
        BY <3>4, <4>1
    <3>6. ASSUME NEW i \in 1 .. Len(open'), i <= Len(open)
          PROVE  open'[i] = open[i]
      BY <1>0, <3>4, <3>6
    <3>7. \A i \in 1 .. Len(open') : i <= Len(open) \/ i > Len(open)
      BY <1>0
    <3> QED
      BY <3>2, <3>5, <3>6, <3>7 DEF Awaited
  <2> QED
    BY <1>0, <1>4, <2>2, <2>3, FlowGrows DEF OpenCase
<1>5. ASSUME NEW default \in BOOLEAN, Item(default)
      PROVE  FlowInv'
  <2>0. open # << >>
    BY <1>5 DEF Item, At
  <2>1. count + 1 \in Blocks
    BY <1>0, <1>5 DEF Item, Blocks
  <2>2. /\ \A b \in Blocks : preds[b] \subseteq preds'[b]
        /\ Inner.head \in preds'[count + 1]
    BY <1>0, <1>5, <2>1 DEF Item, Edge
  <2>3. \A b \in Blocks : b <= count => idom'[b] = idom[b]
    BY <1>0, <1>5, <2>1 DEF Item, Dominated, Blocks
  <2>4. \A e \in flow' \ flow : Known(e)'
    BY <1>0, <1>5, <2>1, <2>2 DEF Item, Edge, Known
  <2>5. \A i \in 1 .. Len(open') :
          i <= Len(open) /\ open'[i].exit = open[i].exit
                         /\ open'[i].head = open[i].head
    <3> DEFINE s == [Inner EXCEPT !.other = count + 1, !.default = default]
    <3>1. s \in Statement /\ s.exit = Inner.exit /\ s.head = Inner.head
      <4>1. Inner \in Statement
        BY <2>0, <1>a
      <4>2. count + 1 \in 0 .. MaxBlocks
        BY <1>0, <2>1 DEF Blocks
      <4>3. s \in Statement
        BY <4>1, <4>2 DEF Statement
      <4>4. s.exit = Inner.exit
        BY <4>1 DEF Statement
      <4>5. s.head = Inner.head
        BY <4>1 DEF Statement
      <4> QED
        BY <4>3, <4>4, <4>5
    <3>2. open' = Append(Outer, s)
      BY <1>5 DEF Item
    <3> HIDE DEF s
    <3>3. /\ Len(open') = Len(open)
          /\ \A i \in 1 .. Len(open) :
               open'[i] = IF i = Len(open) THEN s ELSE open[i]
      BY <1>a, <2>0, <3>1, <3>2
    <3> QED
      BY <1>0, <1>a, <2>0, <3>1, <3>3
  <2> QED
    BY <1>0, <1>5, <2>2, <2>3, <2>4, <2>5, FlowGrows DEF Item
<1>6. CASE EndCase
  <2>0. open # << >>
    BY <1>6 DEF EndCase, At
  <2>1. \A e \in flow' \ flow : Known(e)'
    BY <1>6, <1>a, <2>0 DEF EndCase, graph, Awaited, Known
  <2>2. \A i \in 1 .. Len(open') : i <= Len(open) /\ open'[i] = open[i]
    BY <1>0, <1>6, <1>a, <2>0 DEF EndCase
  <2> QED
    BY <1>0, <1>6, <2>1, <2>2, FlowGrows DEF EndCase, graph
<1>7. CASE NextProcess
  BY <1>0, <1>7, FlowGrows DEF NextProcess, graph
<1>8. CASE Else
  BY <1>3, <1>8 DEF Else, At
<1>9. CASE EndIf
  BY <1>3, <1>9 DEF EndIf, At
<1>10. CASE EndItem
  BY <1>3, <1>10 DEF EndItem, At
<1> QED
  BY <1>1, <1>2, <1>4, <1>5, <1>6, <1>7, <1>8, <1>9, <1>10 DEF Build

(***************************************************************************)
(* Whatever the processes are made of, every way control can go is an edge *)
(* or a step from a block's idom.                                          *)
(***************************************************************************)
THEOREM NoFlowMissed == Spec => []FlowIsKnown
<1>1. DistInit => TypeOK /\ TargetsInv /\ FlowInv
  <2>1. DistInit => FlowInv
    BY DEF DistInit, Init, FlowInv
  <2> QED
    BY <2>1, TypeInit
<1>2. (TypeOK /\ TargetsInv /\ FlowInv) /\ [DistNext]_vars
        => (TypeOK /\ TargetsInv /\ FlowInv)'
  <2>1. SUFFICES ASSUME TypeOK, TargetsInv, FlowInv, [DistNext]_vars
                 PROVE  TypeOK' /\ TargetsInv' /\ FlowInv'
    OBVIOUS
  <2>2. TypeOK' /\ TargetsInv'
    BY <2>1, TypeStep
  <2>3. CASE Build
    BY <2>1, <2>2, <2>3, FlowBuild
  <2>4. CASE UNCHANGED vars
    BY <2>1, <2>2, <2>4 DEF vars, graph, walker, FlowInv, Known, Awaited
  <2>5. CASE phase' # "build"
    BY <2>2, <2>5 DEF FlowInv
  <2>6. DistNext => Build \/ phase' # "build"
    BY DEF DistNext, SelectTargets, Realign, Measure, Relax, NextTarget, Circular
  <2> QED
    BY <2>1, <2>2, <2>3, <2>4, <2>5, <2>6
<1>3. FlowInv => FlowIsKnown
  BY DEF FlowInv, FlowIsKnown, Finished, Known
<1> QED
  BY <1>1, <1>2, <1>3, PTL DEF Spec

-----------------------------------------------------------------------------
(***************************************************************************)
(* Shortest walks.                                                         *)
(***************************************************************************)
Onward(R, edges, up, w) ==
  R \cup UNION {{<< p, r[2] + w[r[1]] >> :
                   p \in (edges[r[1]] \cup {up[r[1]]}) \ {0}} : r \in R}

Reach(t, n, edges, up, w) ==
  CHOOSE reach : reach =
    [k \in 0 .. n |->
       IF k = 0 THEN {<< t, 0 >>} ELSE Onward(reach[k - 1], edges, up, w)]

Costs(t, n, edges, up, w, p) ==
  {r[2] : r \in {q \in Reach(t, n, edges, up, w)[n] : q[1] = p}}

ShortestIn(t, n, edges, up, w) ==
  [p \in Blocks |-> Min(Costs(t, n, edges, up, w, p) \cup {Far})]

LEMMA ShortestDef ==
  ASSUME NEW t
  PROVE  Shortest(t) = ShortestIn(t, count, measured, idom, weight)
BY DEF Shortest, ShortestIn, Costs, Reach, Onward

LeadsBy(edges, up, p, b) == p \in edges[b] \/ p = up[b]

(* A set of blocks with costs that is left by no step of the graph. *)
ClosedUnder(W, edges, up, w) ==
  \A b, p \in Blocks : \A c \in Nat :
    << b, c >> \in W /\ LeadsBy(edges, up, p, b) => << p, c + w[b] >> \in W

(* Every block that has a distance d is at the end of a walk of that cost. *)
Walked(t, d, edges, up, w) ==
  \A W \in SUBSET (Blocks \X Nat) :
    << t, 0 >> \in W /\ ClosedUnder(W, edges, up, w) =>
      \A p \in Blocks : d[p] < Far => << p, d[p] >> \in W

(* Q is what R becomes by one more step of the walks. *)
Onwards(R, Q, edges, up, w) ==
  /\ Q \in SUBSET (Blocks \X Nat)
  /\ R \subseteq Q
  /\ \A p \in Blocks, c \in Nat :
       << p, c >> \in Q <=>
         \/ << p, c >> \in R
         \/ \E b \in Blocks, a \in Nat :
              << b, a >> \in R /\ LeadsBy(edges, up, p, b) /\ c = a + w[b]

LEMMA OnwardMembers ==
  ASSUME NEW edges \in [Blocks -> SUBSET Blocks],
         NEW up \in [Blocks -> 0 .. MaxBlocks],
         NEW w \in [Blocks -> {0, 1}],
         NEW R \in SUBSET (Blocks \X Nat)
  PROVE  Onwards(R, Onward(R, edges, up, w), edges, up, w)
<1>0. /\ MaxBlocks \in Nat /\ 0 \notin Blocks
      /\ \A b \in Blocks : w[b] \in Nat
      /\ \A b \in Blocks : (edges[b] \cup {up[b]}) \ {0} \subseteq Blocks
  <2>1. MaxBlocks \in Nat /\ 0 \notin Blocks
    BY BlocksAssumption DEF Blocks
  <2>2. ASSUME NEW b \in Blocks
        PROVE  w[b] \in Nat /\ (edges[b] \cup {up[b]}) \ {0} \subseteq Blocks
    <3>1. w[b] \in {0, 1} /\ up[b] \in 0 .. MaxBlocks /\ edges[b] \subseteq Blocks
      OBVIOUS
    <3>2. up[b] # 0 => up[b] \in Blocks
      BY <3>1 DEF Blocks
    <3> QED
      BY <3>1, <3>2
  <2> QED
    BY <2>1, <2>2
<1>1. ASSUME NEW r \in R
      PROVE  r[1] \in Blocks /\ r[2] \in Nat /\ r = << r[1], r[2] >>
  OBVIOUS
<1>2. ASSUME NEW x \in Onward(R, edges, up, w), x \notin R
      PROVE  \E r \in R, p \in Blocks :
               /\ p \in edges[r[1]] \cup {up[r[1]]}
               /\ x = << p, r[2] + w[r[1]] >>
  <2>1. PICK r \in R : x \in {<< p, r[2] + w[r[1]] >> :
                              p \in (edges[r[1]] \cup {up[r[1]]}) \ {0}}
    BY <1>2 DEF Onward
  <2>2. PICK p \in (edges[r[1]] \cup {up[r[1]]}) \ {0} :
          x = << p, r[2] + w[r[1]] >>
    BY <2>1
  <2> QED
    BY <1>0, <1>1, <2>2
<1>3. Onward(R, edges, up, w) \in SUBSET (Blocks \X Nat)
  <2>1. ASSUME NEW x \in Onward(R, edges, up, w), x \notin R
        PROVE  x \in Blocks \X Nat
    <3>1. PICK r \in R, p \in Blocks : x = << p, r[2] + w[r[1]] >>
      BY <1>2, <2>1
    <3>2. r[2] + w[r[1]] \in Nat
      BY <1>0, <1>1
    <3> QED
      BY <3>1, <3>2
  <2> QED
    BY <2>1
<1>4. R \subseteq Onward(R, edges, up, w)
  BY DEF Onward
<1>5. ASSUME NEW p \in Blocks, NEW c \in Nat,
             << p, c >> \in Onward(R, edges, up, w), << p, c >> \notin R
      PROVE  \E b \in Blocks, a \in Nat :
               << b, a >> \in R /\ LeadsBy(edges, up, p, b) /\ c = a + w[b]
  <2>1. PICK r \in R, q \in Blocks : /\ q \in edges[r[1]] \cup {up[r[1]]}
                                     /\ << p, c >> = << q, r[2] + w[r[1]] >>
    BY <1>2, <1>5
  <2>2. p = q /\ c = r[2] + w[r[1]]
    BY <2>1
  <2> QED
    BY <1>1, <2>1, <2>2 DEF LeadsBy
<1>6. ASSUME NEW p \in Blocks, NEW c \in Nat, NEW b \in Blocks, NEW a \in Nat,
             << b, a >> \in R, LeadsBy(edges, up, p, b), c = a + w[b]
      PROVE  << p, c >> \in Onward(R, edges, up, w)
  <2>1. p \in (edges[b] \cup {up[b]}) \ {0}
    BY <1>0, <1>6 DEF LeadsBy
  <2>2. << p, c >> \in {<< q, << b, a >>[2] + w[<< b, a >>[1]] >> :
                        q \in (edges[<< b, a >>[1]] \cup {up[<< b, a >>[1]]}) \ {0}}
    BY <1>6, <2>1
  <2> QED
    BY <1>6, <2>2 DEF Onward
<1> QED
  BY <1>3, <1>4, <1>5, <1>6 DEF Onwards

(* f is the walks of up to n steps, by the number of steps. *)
Grows(f, t, n, edges, up, w) ==
  /\ f[0] = {<< t, 0 >>}
  /\ \A k \in 0 .. n : f[k] \in SUBSET (Blocks \X Nat)
  /\ \A k \in 0 .. n - 1 : Onwards(f[k], f[k + 1], edges, up, w)

LEMMA ReachFacts ==
  ASSUME NEW edges \in [Blocks -> SUBSET Blocks],
         NEW up \in [Blocks -> 0 .. MaxBlocks],
         NEW w \in [Blocks -> {0, 1}],
         NEW t \in Blocks, NEW n \in Nat
  PROVE  Grows(Reach(t, n, edges, up, w), t, n, edges, up, w)
<1> DEFINE V == SUBSET (Blocks \X Nat)
           Right(f) == f = [k \in 0 .. n |->
                              IF k = 0 THEN {<< t, 0 >>}
                              ELSE Onward(f[k - 1], edges, up, w)]
           next == [k \in 1 .. n |-> [R \in V |-> Onward(R, edges, up, w)]]
<1>1. {<< t, 0 >>} \in V
  OBVIOUS
<1>2. next \in StepsOf(n, V)
  BY OnwardMembers DEF StepsOf, Onwards
<1>3. PICK f \in [0 .. n -> V] :
        f[0] = {<< t, 0 >>} /\ \A m \in 1 .. n : f[m] = next[m][f[m - 1]]
  <2> HIDE DEF next, V
  <2>1. \E f \in [0 .. n -> V] : Follows(f, n, {<< t, 0 >>}, next)
    BY <1>1, <1>2, Recursion
  <2> QED
    BY <2>1 DEF Follows
<1>4. \A m \in 1 .. n : f[m] = Onward(f[m - 1], edges, up, w)
  <2> TAKE m \in 1 .. n
  <2>1. m - 1 \in 0 .. n
    OBVIOUS
  <2>2. f[m - 1] \in V
    BY <2>1
  <2> QED
    BY <1>3, <2>2
<1>5. Right(f)
  <2> DEFINE g == [k \in 0 .. n |-> IF k = 0 THEN {<< t, 0 >>}
                                   ELSE Onward(f[k - 1], edges, up, w)]
  <2>1. \A k \in 0 .. n : f[k] = g[k]
    <3> TAKE k \in 0 .. n
    <3>1. CASE k = 0
      BY <1>3, <3>1
    <3>2. CASE k # 0
      <4>1. k \in 1 .. n
        BY <3>2
      <4> QED
        BY <1>4, <3>2, <4>1
    <3> QED
      BY <3>1, <3>2
  <2> HIDE DEF V
  <2>2. f = g
    BY <2>1
  <2> QED
    BY <2>2
<1>6. Right(Reach(t, n, edges, up, w))
  <2> HIDE DEF Right
  <2>1. Reach(t, n, edges, up, w) = CHOOSE g : Right(g)
    BY DEF Reach, Right
  <2> QED
    BY <1>5, <2>1
<1>7. ASSUME NEW g, Right(g)
      PROVE  /\ DOMAIN g = 0 .. n
             /\ g = [k \in 0 .. n |-> g[k]]
             /\ g[0] = {<< t, 0 >>}
             /\ \A k \in 1 .. n : g[k] = Onward(g[k - 1], edges, up, w)
  <2>1. \A k \in 0 .. n : g[k] = IF k = 0 THEN {<< t, 0 >>}
                                ELSE Onward(g[k - 1], edges, up, w)
    BY <1>7
  <2>2. 0 \in 0 .. n /\ \A k \in 1 .. n : k \in 0 .. n /\ k # 0
    OBVIOUS
  <2>3. DOMAIN g = 0 .. n /\ g = [k \in 0 .. n |-> g[k]]
    BY <1>7
  <2> QED
    BY <2>1, <2>2, <2>3
<1> DEFINE g == Reach(t, n, edges, up, w)
<1>8. /\ g = [k \in 0 .. n |-> g[k]]
      /\ g[0] = {<< t, 0 >>}
      /\ \A k \in 1 .. n : g[k] = Onward(g[k - 1], edges, up, w)
  <2> HIDE DEF g, Right
  <2> QED
    BY <1>6, <1>7 DEF g
<1> HIDE DEF g
<1>9. \A k \in 0 .. n : g[k] \in V
  <2> DEFINE S == {k \in 0 .. n : g[k] \in V}
  <2>1. 0 \in S
    BY <1>1, <1>8
  <2>2. \A k \in 0 .. n - 1 : k \in S => k + 1 \in S
    <3> SUFFICES ASSUME NEW k \in 0 .. n - 1, g[k] \in V
                 PROVE  k + 1 \in S
      OBVIOUS
    <3>1. k + 1 \in 1 .. n /\ (k + 1) - 1 = k /\ k + 1 \in 0 .. n
      OBVIOUS
    <3>2. g[k + 1] = Onward(g[k], edges, up, w)
      BY <1>8, <3>1
    <3>3. Onward(g[k], edges, up, w) \in V
      <4>1. PICK R \in SUBSET (Blocks \X Nat) : R = g[k]
        OBVIOUS
      <4>2. Onward(R, edges, up, w) \in SUBSET (Blocks \X Nat)
        BY OnwardMembers DEF Onwards
      <4> QED
        BY <4>1, <4>2
    <3> QED
      BY <3>1, <3>2, <3>3
  <2> HIDE DEF S
  <2>3. \A k \in 0 .. n : k \in S
    BY <2>1, <2>2, UpTo
  <2> QED
    BY <2>3 DEF S
<1>10. \A k \in 0 .. n - 1 : Onwards(g[k], g[k + 1], edges, up, w)
  <2> TAKE k \in 0 .. n - 1
  <2>1. k \in 0 .. n /\ k + 1 \in 1 .. n /\ (k + 1) - 1 = k
    OBVIOUS
  <2>2. g[k + 1] = Onward(g[k], edges, up, w)
    BY <1>8, <2>1
  <2>3. PICK R \in SUBSET (Blocks \X Nat) : R = g[k]
    BY <1>9, <2>1
  <2>4. Onwards(R, Onward(R, edges, up, w), edges, up, w)
    BY OnwardMembers
  <2> QED
    BY <2>2, <2>3, <2>4
<1> QED
  BY <1>8, <1>9, <1>10 DEF g, Grows

(* Distances that solve the equations and belong to walks are the shortest *)
(* ones over at most n steps, if n is the number of blocks.  The blocks    *)
(* whose distance is reached in k steps grow with k by one at least until  *)
(* no step of the graph adds to them.                                      *)
LEMMA ShortestFound ==
  ASSUME NEW edges \in [Blocks -> SUBSET Blocks],
         NEW up \in [Blocks -> 0 .. MaxBlocks],
         NEW w \in [Blocks -> {0, 1}],
         NEW n \in Blocks, NEW t \in 1 .. n, NEW d \in [Blocks -> Nat],
         d[t] = 0,
         \A p \in Blocks : d[p] <= Far,
         \A b, p \in Blocks : LeadsBy(edges, up, p, b) =>
           d[p] <= d[b] + w[b] /\ p <= n,
         Walked(t, d, edges, up, w)
  PROVE  d = ShortestIn(t, n, edges, up, w)
<1> DEFINE R == Reach(t, n, edges, up, w)
           F(k) == {p \in Blocks : << p, d[p] >> \in R[k]}
           Full(k) == \A b, p \in Blocks :
                        b \in F(k) /\ LeadsBy(edges, up, p, b) /\ d[p] = d[b] + w[b]
                          => p \in F(k)
<1>0. /\ n \in Nat /\ MaxBlocks \in Nat /\ t \in Blocks /\ Far \in Nat
      /\ 1 .. n \subseteq Blocks
      /\ \A b \in Blocks : b \in Nat /\ b >= 1 /\ w[b] \in Nat /\ d[b] \in Nat
  <2>1. n \in Nat /\ MaxBlocks \in Nat /\ t \in Blocks /\ 1 .. n \subseteq Blocks
    BY BlocksAssumption DEF Blocks
  <2>2. \A b \in Blocks : b \in Nat /\ b >= 1 /\ d[b] \in Nat
    BY <2>1 DEF Blocks
  <2>3. \A b \in Blocks : w[b] \in {0, 1}
    OBVIOUS
  <2> QED
    BY <2>1, <2>2, <2>3 DEF Far
<1>a. Grows(R, t, n, edges, up, w)
  BY <1>0, ReachFacts
<1> HIDE DEF R
<1>1. /\ R[0] = {<< t, 0 >>}
      /\ \A k \in 0 .. n : R[k] \in SUBSET (Blocks \X Nat)
  BY <1>a DEF Grows
(* What a step of Reach adds. *)
<1>2. ASSUME NEW k \in 0 .. n - 1
      PROVE  /\ R[k] \subseteq R[k + 1]
             /\ \A p \in Blocks, c \in Nat :
                  << p, c >> \in R[k + 1] <=>
                    \/ << p, c >> \in R[k]
                    \/ \E b \in Blocks, a \in Nat :
                         << b, a >> \in R[k] /\ LeadsBy(edges, up, p, b) /\ c = a + w[b]
  BY <1>a DEF Grows, Onwards
(* No walk costs less than the distance. *)
<1>3. \A k \in 0 .. n : \A p \in Blocks, c \in Nat : << p, c >> \in R[k] => d[p] <= c
  <2> DEFINE S == {k \in 0 .. n : \A p \in Blocks, c \in Nat :
                                    << p, c >> \in R[k] => d[p] <= c}
  <2>1. 0 \in S
    <3>1. ASSUME NEW p \in Blocks, NEW c \in Nat, << p, c >> \in R[0]
          PROVE  d[p] <= c
      <4>1. p = t /\ c = 0
        BY <1>1, <3>1
      <4> QED
        BY <4>1
    <3> QED
      BY <1>0, <3>1
  <2>2. ASSUME NEW k \in 0 .. n - 1, k \in S
        PROVE  k + 1 \in S
    <3>1. ASSUME NEW p \in Blocks, NEW c \in Nat, << p, c >> \in R[k + 1]
          PROVE  d[p] <= c
      <4>1. CASE << p, c >> \in R[k]
        BY <2>2, <4>1
      <4>2. ASSUME NEW b \in Blocks, NEW a \in Nat, << b, a >> \in R[k],
                   LeadsBy(edges, up, p, b), c = a + w[b]
            PROVE  d[p] <= c
        <5>1. d[b] <= a /\ d[p] <= d[b] + w[b]
          BY <2>2, <4>2
        <5>2. d[b] \in Nat /\ d[p] \in Nat /\ w[b] \in Nat
          BY <1>0
        <5> QED
          BY <4>2, <5>1, <5>2
      <4>3. \/ << p, c >> \in R[k]
            \/ \E b \in Blocks, a \in Nat :
                 << b, a >> \in R[k] /\ LeadsBy(edges, up, p, b) /\ c = a + w[b]
        BY <1>2, <3>1
      <4> QED
        BY <4>1, <4>2, <4>3
    <3>2. k + 1 \in 0 .. n
      BY <1>0
    <3> QED
      BY <3>1, <3>2
  <2> HIDE DEF S
  <2>3. \A k \in 0 .. n : k \in S
    BY <1>0, <2>1, <2>2, UpTo
  <2> QED
    BY <2>3 DEF S
(* The blocks whose distance is reached. *)
<1>4. ASSUME NEW k \in 0 .. n - 1
      PROVE  /\ F(k) \subseteq F(k + 1)
             /\ \A p \in F(k + 1) : p \in F(k) \/
                  \E b \in F(k) : LeadsBy(edges, up, p, b) /\ d[p] = d[b] + w[b]
             /\ \A p \in Blocks, b \in F(k) :
                  LeadsBy(edges, up, p, b) /\ d[p] = d[b] + w[b] => p \in F(k + 1)
  <2>1. F(k) \subseteq F(k + 1)
    BY <1>2
  <2>2. ASSUME NEW p \in F(k + 1), p \notin F(k)
        PROVE  \E b \in F(k) : LeadsBy(edges, up, p, b) /\ d[p] = d[b] + w[b]
    <3>0. /\ p \in Blocks /\ d[p] \in Nat
          /\ << p, d[p] >> \in R[k + 1] /\ << p, d[p] >> \notin R[k]
      BY <1>0, <2>2
    <3>1. PICK b \in Blocks, a \in Nat :
            << b, a >> \in R[k] /\ LeadsBy(edges, up, p, b) /\ d[p] = a + w[b]
      BY <1>2, <3>0
    <3>2. d[b] <= a /\ d[p] <= d[b] + w[b]
      BY <1>0, <1>3, <3>1
    <3>3. d[b] \in Nat /\ d[p] \in Nat /\ w[b] \in Nat
      BY <1>0
    <3>4. a = d[b]
      BY <3>1, <3>2, <3>3
    <3> QED
      BY <3>1, <3>4
  <2>3. ASSUME NEW p \in Blocks, NEW b \in F(k),
               LeadsBy(edges, up, p, b), d[p] = d[b] + w[b]
        PROVE  p \in F(k + 1)
    <3>1. /\ b \in Blocks /\ d[b] \in Nat /\ d[p] \in Nat
          /\ << b, d[b] >> \in R[k]
      BY <1>0, <2>3
    <3>2. << p, d[p] >> \in R[k + 1]
      BY <1>2, <2>3, <3>1, ZenonT(30)
    <3> QED
      BY <3>2
  <2> QED
    BY <2>1, <2>2, <2>3
<1>5. ASSUME NEW k \in 0 .. n
      PROVE  /\ F(k) \subseteq 1 .. n
             /\ IsFiniteSet(F(k)) /\ Cardinality(F(k)) \in Nat
             /\ Cardinality(F(k)) <= n
  <2> DEFINE S == {j \in 0 .. n : F(j) \subseteq 1 .. n}
  <2>1. 0 \in S
    <3>1. \A p \in F(0) : p = t
      BY <1>1
    <3> HIDE DEF F
    <3> QED
      BY <1>0, <3>1
  <2>2. \A j \in 0 .. n - 1 : j \in S => j + 1 \in S
    <3> SUFFICES ASSUME NEW j \in 0 .. n - 1, F(j) \subseteq 1 .. n
                 PROVE  j + 1 \in S
      OBVIOUS
    <3>1. ASSUME NEW p \in F(j + 1), p \notin F(j)
          PROVE  p \in 1 .. n
      <4>1. PICK b \in F(j) : LeadsBy(edges, up, p, b)
        BY <1>4, <3>1
      <4>2. p \in Blocks /\ b \in Blocks /\ p <= n
        BY <4>1
      <4> QED
        BY <1>0, <4>2
    <3>2. j + 1 \in 0 .. n
      BY <1>0
    <3> HIDE DEF F
    <3> QED
      BY <3>1, <3>2
  <2> HIDE DEF S
  <2>3. \A j \in 0 .. n : j \in S
    BY <1>0, <2>1, <2>2, UpTo
  <2>4. F(k) \subseteq 1 .. n
    BY <2>3 DEF S
  <2>5. IsFiniteSet(1 .. n) /\ Cardinality(1 .. n) = n
    BY <1>0, FS_Interval
  <2> HIDE DEF F
  <2> QED
    BY <2>4, <2>5, FS_Subset, FS_CardinalityType
<1>6. ASSUME NEW k \in 0 .. n
      PROVE  Full(k) \/ Cardinality(F(k)) >= k + 1
  <2> DEFINE S == {j \in 0 .. n : Full(j) \/ Cardinality(F(j)) >= j + 1}
  <2>1. 0 \in S
    <3>1. F(0) = {t}
      BY <1>0, <1>1
    <3>2. Cardinality(F(0)) = 1
      BY <3>1, FS_Singleton
    <3> HIDE DEF F, Full
    <3> QED
      BY <1>0, <3>2
  <2>2. ASSUME NEW j \in 0 .. n - 1, j \in S
        PROVE  j + 1 \in S
    <3>0. j \in 0 .. n /\ j + 1 \in 0 .. n
      BY <1>0
    <3>1. CASE Full(j)
      <4>1. F(j + 1) = F(j)
        BY <1>4, <3>1
      <4> QED
        BY <3>0, <3>1, <4>1
    <3>2. CASE ~ Full(j)
      <4>1. PICK b \in Blocks, p \in Blocks :
              /\ b \in F(j) /\ LeadsBy(edges, up, p, b) /\ d[p] = d[b] + w[b]
              /\ p \notin F(j)
        BY <3>2
      <4>2. F(j) \subseteq F(j + 1) /\ p \in F(j + 1)
        BY <1>4, <4>1
      <4>3. Cardinality(F(j)) >= j + 1
        BY <2>2, <3>2
      <4> HIDE DEF F
      <4>4. /\ IsFiniteSet(F(j + 1)) /\ Cardinality(F(j + 1)) \in Nat
            /\ Cardinality(F(j)) \in Nat
        BY <1>5, <3>0
      <4>5. /\ Cardinality(F(j)) <= Cardinality(F(j + 1))
            /\ Cardinality(F(j + 1)) = Cardinality(F(j)) => F(j + 1) = F(j)
        BY <4>2, <4>4, FS_Subset
      <4>6. Cardinality(F(j)) # Cardinality(F(j + 1))
        BY <4>1, <4>2, <4>5
      <4>7. Cardinality(F(j + 1)) >= (j + 1) + 1
        BY <4>3, <4>4, <4>5, <4>6
      <4> HIDE DEF Full
      <4> QED
        BY <3>0, <4>7
    <3> QED
      BY <3>1, <3>2
  <2> HIDE DEF S
  <2>3. \A j \in 0 .. n : j \in S
    BY <1>0, <2>1, <2>2, UpTo
  <2> QED
    BY <2>3 DEF S
<1>7. Full(n)
  <2>1. n \in 0 .. n
    BY <1>0
  <2> HIDE DEF F, Full
  <2> QED
    BY <1>0, <1>5, <1>6, <2>1
(* And so every block that has a distance is among them. *)
<1>8. \A p \in Blocks : d[p] < Far => << p, d[p] >> \in R[n]
  <2> DEFINE W == {x \in Blocks \X Nat :
                     /\ d[x[1]] <= x[2]
                     /\ x[2] = d[x[1]] => x[1] \in F(n)}
  <2>0. n \in 0 .. n
    BY <1>0
  <2>1. << t, 0 >> \in W
    <3>1. \A k \in 0 .. n - 1 : F(k) \subseteq F(k + 1)
      BY <1>4
    <3> DEFINE S == {k \in 0 .. n : t \in F(k)}
    <3>2. 0 \in S
      BY <1>0, <1>1
    <3>3. \A k \in 0 .. n - 1 : k \in S => k + 1 \in S
      BY <1>0, <3>1
    <3> HIDE DEF S
    <3>4. \A k \in 0 .. n : k \in S
      BY <1>0, <3>2, <3>3, UpTo
    <3>5. t \in F(n)
      BY <2>0, <3>4 DEF S
    <3> HIDE DEF F
    <3> QED
      BY <1>0, <3>5
  <2>2. ClosedUnder(W, edges, up, w)
    <3> SUFFICES ASSUME NEW b \in Blocks, NEW p \in Blocks, NEW c \in Nat,
                        << b, c >> \in W, LeadsBy(edges, up, p, b)
                 PROVE  << p, c + w[b] >> \in W
      BY DEF ClosedUnder
    <3>1. /\ d[p] <= d[b] + w[b] /\ d[b] <= c
          /\ d[p] \in Nat /\ d[b] \in Nat /\ w[b] \in Nat
          /\ c = d[b] => b \in F(n)
      BY <1>0
    <3>2. c + w[b] \in Nat /\ d[p] <= c + w[b]
      BY <3>1
    <3>3. c + w[b] = d[p] => c = d[b] /\ d[p] = d[b] + w[b]
      BY <3>1
    <3>4. c + w[b] = d[p] => p \in F(n)
      BY <1>7, <3>1, <3>3
    <3> HIDE DEF F
    <3> QED
      BY <3>2, <3>4
  <2>3. W \in SUBSET (Blocks \X Nat)
    OBVIOUS
  <2>4. \A p \in Blocks : d[p] < Far => << p, d[p] >> \in W
    <3> HIDE DEF W
    <3> QED
      BY <2>1, <2>2, <2>3 DEF Walked
  <2> QED
    BY <2>4
<1>9. ASSUME NEW p \in Blocks
      PROVE  d[p] = Min(Costs(t, n, edges, up, w, p) \cup {Far})
  <2> DEFINE C == Costs(t, n, edges, up, w, p) \cup {Far}
  <2>0. n \in 0 .. n /\ R[n] \in SUBSET (Blocks \X Nat)
    BY <1>0, <1>1
  <2>1. \A c : c \in Costs(t, n, edges, up, w, p) <=>
                c \in Nat /\ << p, c >> \in R[n]
    <3>1. Costs(t, n, edges, up, w, p) = {r[2] : r \in {q \in R[n] : q[1] = p}}
      BY DEF Costs, R
    <3>2. ASSUME NEW r \in R[n], r[1] = p
          PROVE  r[2] \in Nat /\ << p, r[2] >> \in R[n]
      BY <2>0, <3>2
    <3>3. ASSUME NEW c, << p, c >> \in R[n]
          PROVE  c \in {r[2] : r \in {q \in R[n] : q[1] = p}}
      <4>1. << p, c >> \in {q \in R[n] : q[1] = p} /\ << p, c >>[2] = c
        BY <3>3
      <4> QED
        BY <4>1
    <3> QED
      BY <3>1, <3>2, <3>3
  <2>2. \A c \in C : c \in Nat /\ d[p] <= c
    BY <1>0, <1>3, <2>0, <2>1
  <2>3. d[p] \in C
    <3>1. CASE d[p] < Far
      BY <1>0, <1>8, <2>1, <3>1
    <3>2. CASE d[p] = Far
      BY <3>2
    <3> QED
      BY <1>0, <3>1, <3>2
  <2> HIDE DEF C
  <2>4. \A x : x \in C /\ (\A y \in C : x <= y) => x = d[p]
    <3> TAKE x
    <3> HAVE x \in C /\ \A y \in C : x <= y
    <3>1. x <= d[p] /\ d[p] <= x /\ x \in Nat /\ d[p] \in Nat
      BY <1>0, <2>2, <2>3
    <3> QED
      BY <3>1
  <2>5. Min(C) = d[p]
    BY <2>2, <2>3, <2>4 DEF Min
  <2> QED
    BY <2>5 DEF C
<1> QED
  BY <1>9 DEF ShortestIn

-----------------------------------------------------------------------------
(***************************************************************************)
(* The tree of the idoms.  x is under h if every set that has h and, with  *)
(* a block, the blocks that have it as idom, has x: h is x or one of the   *)
(* idoms above it.                                                         *)
(***************************************************************************)
Inherits(U, up) == \A b \in Blocks : up[b] \in U => b \in U

Under(up, h, x) == \A U \in SUBSET Blocks : h \in U /\ Inherits(U, up) => x \in U

LEMMA UnderFacts ==
  ASSUME NEW up, NEW h \in Blocks
  PROVE  /\ Under(up, h, h)
         /\ \A b \in Blocks : Under(up, h, up[b]) => Under(up, h, b)
         /\ \A x, y : Under(up, h, x) /\ Under(up, x, y) => Under(up, h, y)
BY DEF Under, Inherits

(* What is under a block stays there when blocks that had no idom get one. *)
LEMMA UnderStays ==
  ASSUME NEW up, NEW down,
         \A b \in Blocks : up[b] # 0 => down[b] = up[b],
         NEW h, NEW x, Under(up, h, x)
  PROVE  Under(down, h, x)
<1>1. 0 \notin Blocks
  BY BlocksAssumption DEF Blocks
<1> SUFFICES ASSUME NEW U \in SUBSET Blocks, h \in U, Inherits(U, down)
             PROVE  x \in U
  BY DEF Under
<1>2. Inherits(U, up)
  BY <1>1 DEF Inherits
<1> QED
  BY <1>2 DEF Under

(***************************************************************************)
(* Blocks are numbered as they are made, and nothing is known of a block   *)
(* before.                                                                 *)
(***************************************************************************)
Numbered ==
  /\ top <= count
  /\ branches \subseteq 1 .. count /\ assigns \subseteq 1 .. count
  /\ \A b \in Blocks : /\ preds[b] \subseteq 1 .. count
                       /\ idom[b] <= count
                       /\ b > count => idom[b] = 0

NumInv ==
  phase # "done" =>
    /\ Numbered
    /\ phase # "build" => \A k \in 1 .. Len(targets) : targets[k] \in 1 .. count

(* The blocks of an open statement are made, its exit and the branch that  *)
(* is still to come have its block as their idom.                          *)
Settled(s) ==
  /\ s.head <= count /\ s.exit <= count /\ s.other <= count
  /\ idom[s.exit] = s.head
  /\ s.if /\ s.other # 0 => idom[s.other] = s.head

(* The block the statement in this one stands in, or the one in hand. *)
Inside(i) == IF i = Len(open) THEN top ELSE open[i + 1].head

(* Control goes to a block only from blocks under its idom; the printing   *)
(* goes down the tree with every statement.                                *)
Nested(e) == /\ e \in Blocks \X Blocks /\ idom[e[2]] \in Blocks
             /\ Under(idom, idom[e[2]], e[1])

DomInv ==
  phase = "build" =>
    /\ \A e \in flow : Nested(e)
    /\ \A i \in 1 .. Len(open) :
         Settled(open[i]) /\ Under(idom, open[i].head, Inside(i))
    /\ \A a \in entries : a <= count /\ idom[a] = 0

LEMMA DomGrows ==
  ASSUME TypeOK, TypeOK', NumInv, DomInv, phase = "build", count <= count',
         \A b \in Blocks : b <= count => idom'[b] = idom[b],
         \A e \in flow' \ flow : Nested(e)',
         \A i \in 1 .. Len(open') :
           \/ /\ i <= Len(open)
              /\ open'[i].exit = open[i].exit
              /\ open'[i].head = open[i].head
              /\ open'[i].other <= count'
              /\ open'[i].if /\ open'[i].other # 0
                   => open[i].if /\ open'[i].other = open[i].other
           \/ Settled(open[i])',
         \A i \in 1 .. Len(open') :
           \/ /\ i <= Len(open)
              /\ open'[i].head = open[i].head
              /\ Inside(i)' = Inside(i)
           \/ Under(idom', open'[i].head, Inside(i)'),
         \A a \in entries' \ entries : a <= count' /\ idom'[a] = 0
  PROVE  DomInv'
<1>1. count \in Nat /\ count' \in Nat /\ \A b \in Blocks : b \in Nat
  BY BlocksAssumption DEF TypeOK, Blocks
<1>2. \A b \in Blocks : idom[b] # 0 => b <= count /\ idom'[b] = idom[b]
  BY <1>1 DEF NumInv, Numbered
<1>3. \A h, x : Under(idom, h, x) => Under(idom', h, x)
  BY <1>2, UnderStays
<1>4. 0 \notin Blocks
  BY BlocksAssumption DEF Blocks
<1>5. ASSUME NEW e \in flow
      PROVE  Nested(e)'
  <2>1. /\ e \in Blocks \X Blocks /\ idom[e[2]] \in Blocks
        /\ Under(idom, idom[e[2]], e[1])
    BY DEF DomInv, Nested
  <2>2. idom'[e[2]] = idom[e[2]]
    BY <1>2, <1>4, <2>1
  <2> QED
    BY <1>3, <2>1, <2>2 DEF Nested
<1>6. ASSUME NEW i \in 1 .. Len(open')
      PROVE  Settled(open[i])'
  <2>1. CASE /\ i <= Len(open)
             /\ open'[i].exit = open[i].exit
             /\ open'[i].head = open[i].head
             /\ open'[i].other <= count'
             /\ open'[i].if /\ open'[i].other # 0
                   => open[i].if /\ open'[i].other = open[i].other
    <3>1. i \in 1 .. Len(open)
      BY <2>1
    <3>2. Settled(open[i]) /\ open[i] \in Statement
      BY <3>1, ElementOfSeq DEF DomInv, TypeOK, Statement
    <3>3. /\ open[i].head \in Blocks /\ open[i].exit \in Blocks
          /\ open[i].other \in 0 .. MaxBlocks
      BY <3>2 DEF Statement
    <3>4. /\ open[i].head <= count' /\ open[i].exit <= count'
          /\ idom'[open[i].exit] = open[i].head
      BY <1>1, <3>2, <3>3 DEF Settled
    <3>5. ASSUME open[i].if, open[i].other # 0
          PROVE  idom'[open[i].other] = open[i].head
      <4>1. open[i].other \in Blocks
        BY <3>3, <3>5 DEF Blocks
      <4> QED
        BY <3>2, <3>5, <4>1 DEF Settled
    <3> QED
      BY <2>1, <3>4, <3>5 DEF Settled
  <2> QED
    BY <1>6, <2>1
<1>7. ASSUME NEW i \in 1 .. Len(open')
      PROVE  Under(idom', open'[i].head, Inside(i)')
  <2>1. CASE i <= Len(open) /\ open'[i].head = open[i].head /\ Inside(i)' = Inside(i)
    <3>1. i \in 1 .. Len(open)
      BY <2>1
    <3> QED
      BY <1>3, <2>1, <3>1 DEF DomInv
  <2> QED
    BY <1>7, <2>1
<1>8. ASSUME NEW a \in entries
      PROVE  a <= count' /\ idom'[a] = 0
  <2>1. a \in Blocks /\ a <= count /\ idom[a] = 0
    BY DEF DomInv, TypeOK
  <2> QED
    BY <1>1, <2>1
<1> QED
  BY <1>5, <1>6, <1>7, <1>8 DEF DomInv

(* What is known of the innermost statement. *)
LEMMA InnerFacts ==
  ASSUME TypeOK, DomInv, phase = "build", open # << >>
  PROVE  /\ Inner \in Statement /\ Inner = open[Len(open)]
         /\ Len(open) \in Nat /\ Len(open) \in 1 .. Len(open)
         /\ Inner.head \in Blocks /\ Inner.exit \in Blocks
         /\ Inner.other \in 0 .. MaxBlocks
         /\ Settled(Inner)
         /\ Under(idom, Inner.head, top)
         /\ Len(Outer) = Len(open) - 1
         /\ \A i \in 1 .. Len(Outer) : Outer[i] = open[i]
         /\ \A s \in Statement :
              /\ Len(Append(Outer, s)) = Len(open)
              /\ \A i \in 1 .. Len(open) :
                   Append(Outer, s)[i] = IF i = Len(open) THEN s ELSE open[i]
<1>1. Len(open) \in Nat \ {0}
  BY EmptySeq DEF TypeOK
<1>2. Len(open) \in 1 .. Len(open) /\ Len(open) \in Nat
  BY <1>1
<1>3. Settled(Inner) /\ Under(idom, Inner.head, top)
  BY <1>2 DEF DomInv, Inner, Inside
<1>4. Inner \in Statement
  BY InnerOuter
<1>5. /\ Inner.head \in Blocks /\ Inner.exit \in Blocks
      /\ Inner.other \in 0 .. MaxBlocks
  BY <1>4 DEF Statement
<1> QED
  BY <1>2, <1>3, <1>4, <1>5, InnerOuter DEF Inner

LEMMA NumBuild ==
  ASSUME TypeOK, NumInv, DomInv, Build
  PROVE  NumInv'
<1>0. /\ phase = "build" /\ phase' = "build" /\ count \in Nat /\ top \in Nat
      /\ preds \in [Blocks -> SUBSET Blocks]
      /\ idom \in [Blocks -> 0 .. MaxBlocks]
      /\ MaxBlocks \in Nat
      /\ \A b \in Blocks : b \in Nat /\ idom[b] \in Nat
  <2>1. phase = "build" /\ phase' = "build"
    BY DEF Build
  <2>2. MaxBlocks \in Nat /\ count \in Blocks /\ top \in Blocks
        /\ preds \in [Blocks -> SUBSET Blocks]
        /\ idom \in [Blocks -> 0 .. MaxBlocks]
    BY BlocksAssumption DEF TypeOK
  <2>3. \A b \in Blocks : b \in Nat
    BY <2>2 DEF Blocks
  <2>4. \A b \in Blocks : idom[b] \in 0 .. MaxBlocks
    BY <2>2
  <2> QED
    BY <2>1, <2>2, <2>3, <2>4
<1>1. /\ top <= count
      /\ branches \subseteq 1 .. count /\ assigns \subseteq 1 .. count
      /\ \A b \in Blocks : /\ preds[b] \subseteq 1 .. count
                           /\ idom[b] <= count
                           /\ b > count => idom[b] = 0
  BY <1>0 DEF NumInv, Numbered
<1>2. ASSUME Numbered'
      PROVE  NumInv'
  BY <1>0, <1>2 DEF NumInv
<1>3. top \in 1 .. count
  BY <1>0, <1>1 DEF TypeOK, Blocks
<1>4. CASE Assign
  <2>1. assigns' \subseteq 1 .. count
    BY <1>1, <1>3, <1>4 DEF Assign
  <2>2. UNCHANGED << preds, idom, branches, count, top >>
    BY <1>4 DEF Assign, walker
  <2> QED
    BY <1>1, <1>2, <2>1, <2>2 DEF Numbered
<1>5. CASE OpenIf
  <2>1. count' = count + 3 /\ top' = count + 1 /\ assigns' = assigns
        /\ branches' = branches \cup {count + 1, count + 2}
    BY <1>5 DEF OpenIf
  <2>2. \A b \in Blocks : preds'[b] \subseteq preds[b] \cup {top}
    BY <1>0, <1>5 DEF OpenIf, Edge
  <2>3. \A b \in Blocks : idom'[b] = IF b \in {count + 1, count + 2, count + 3}
                                   THEN top ELSE idom[b]
    BY <1>0, <1>5 DEF OpenIf, Dominated
  <2>4. 1 .. count \subseteq 1 .. count' /\ {count + 1, count + 2} \subseteq 1 .. count'
    BY <1>0, <2>1
  <2>5. \A b \in Blocks : preds'[b] \subseteq 1 .. count'
    BY <1>1, <1>3, <2>2, <2>4
  <2>6. \A b \in Blocks : idom'[b] <= count' /\ (b > count' => idom'[b] = 0)
    BY <1>0, <1>1, <2>1, <2>3
  <2>7. branches' \subseteq 1 .. count' /\ assigns' \subseteq 1 .. count'
    BY <1>1, <2>1, <2>4
  <2> QED
    BY <1>0, <1>2, <2>1, <2>5, <2>6, <2>7 DEF Numbered
<1>6. ASSUME open # << >>, Edge(top, {Inner.exit}), idom' = idom, count' = count,
             branches' = branches, assigns' = assigns,
             top' \in {top, Inner.other, Inner.exit}
      PROVE  NumInv'
  <2>1. \A b \in Blocks : preds'[b] \subseteq preds[b] \cup {top}
    BY <1>0, <1>6 DEF Edge
  <2>2. Inner.other <= count /\ Inner.exit <= count
    BY <1>0, <1>6, InnerFacts DEF Settled
  <2> QED
    BY <1>1, <1>2, <1>3, <1>6, <2>1, <2>2 DEF Numbered
<1>7. CASE OpenCase
  <2>1. count' = count + 1 /\ top' = top /\ assigns' = assigns
        /\ branches' = branches /\ preds' = preds
    BY <1>7 DEF OpenCase
  <2>2. \A b \in Blocks : idom'[b] = IF b = count + 1 THEN top ELSE idom[b]
    BY <1>0, <1>7 DEF OpenCase, Dominated
  <2>3. 1 .. count \subseteq 1 .. count' /\ count <= count'
    BY <1>0, <2>1
  <2>4. \A b \in Blocks : preds'[b] \subseteq 1 .. count'
    BY <1>1, <2>1, <2>3
  <2>5. \A b \in Blocks : idom'[b] <= count' /\ (b > count' => idom'[b] = 0)
    BY <1>0, <1>1, <2>1, <2>2
  <2> QED
    BY <1>0, <1>1, <1>2, <2>1, <2>3, <2>4, <2>5 DEF Numbered
<1>8. ASSUME NEW default \in BOOLEAN, Item(default)
      PROVE  NumInv'
  <2>1. count' = count + 1 /\ top' = count + 1 /\ assigns' = assigns
        /\ branches' = branches \cup {count + 1} /\ open # << >>
    BY <1>8 DEF Item, At
  <2>2. Inner.head \in 1 .. count
    BY <1>0, <2>1, InnerFacts DEF Settled, Blocks
  <2>3. \A b \in Blocks : preds'[b] \subseteq preds[b] \cup {Inner.head}
    BY <1>0, <1>8 DEF Item, Edge
  <2>4. \A b \in Blocks : idom'[b] = IF b = count + 1 THEN Inner.head ELSE idom[b]
    BY <1>0, <1>8 DEF Item, Dominated
  <2>5. 1 .. count \subseteq 1 .. count' /\ count + 1 \in 1 .. count'
    BY <1>0, <2>1
  <2>6. \A b \in Blocks : preds'[b] \subseteq 1 .. count'
    BY <1>1, <2>2, <2>3, <2>5
  <2>7. \A b \in Blocks : idom'[b] <= count' /\ (b > count' => idom'[b] = 0)
    BY <1>0, <1>1, <2>1, <2>2, <2>4
  <2>8. branches' \subseteq 1 .. count' /\ assigns' \subseteq 1 .. count'
    BY <1>1, <2>1, <2>5
  <2> QED
    BY <1>0, <1>2, <2>1, <2>6, <2>7, <2>8 DEF Numbered
<1>9. CASE EndCase
  <2>1. Inner.exit <= count
    BY <1>0, <1>9, InnerFacts DEF Settled, EndCase, At
  <2> QED
    BY <1>1, <1>2, <1>9, <2>1 DEF EndCase, graph, Numbered
<1>10. CASE NextProcess
  <2>1. /\ count' = count + 1 /\ top' = count + 1
        /\ UNCHANGED << preds, idom, branches, assigns >>
    BY <1>10 DEF NextProcess, graph
  <2>2. 1 .. count \subseteq 1 .. count' /\ count <= count'
    BY <1>0, <2>1
  <2>3. \A b \in Blocks : idom'[b] <= count' /\ (b > count' => idom'[b] = 0)
    BY <1>0, <1>1, <2>1
  <2> QED
    BY <1>0, <1>1, <1>2, <2>1, <2>2, <2>3 DEF Numbered
<1>11. CASE Else
  BY <1>6, <1>11 DEF Else, At
<1>12. CASE EndIf
  BY <1>6, <1>12 DEF EndIf, At
<1>13. CASE EndItem
  BY <1>6, <1>13 DEF EndItem, At
<1> QED
  BY <1>4, <1>5, <1>7, <1>8, <1>9, <1>10, <1>11, <1>12, <1>13 DEF Build

LEMMA DomBuild ==
  ASSUME TypeOK, TypeOK', NumInv, DomInv, Build
  PROVE  DomInv'
<1>0. /\ phase = "build" /\ count \in Nat /\ top \in Blocks /\ top <= count
      /\ preds \in [Blocks -> SUBSET Blocks]
      /\ idom \in [Blocks -> 0 .. MaxBlocks]
      /\ Len(open) \in Nat
      /\ MaxBlocks \in Nat /\ 0 \notin Blocks
  BY BlocksAssumption, LenProperties DEF Build, TypeOK, Blocks, NumInv, Numbered
(* A new statement. *)
<1>1. ASSUME NEW s \in Statement, open' = Append(open, s), s.head = top,
             Settled(s)', top' \in Blocks, idom'[top'] = top \/ top' = top,
             count <= count', count' \in Nat
      PROVE  /\ \A i \in 1 .. Len(open') :
                  \/ /\ i <= Len(open)
                     /\ open'[i].exit = open[i].exit
                     /\ open'[i].head = open[i].head
                     /\ open'[i].other <= count'
                     /\ open'[i].if /\ open'[i].other # 0
                          => open[i].if /\ open'[i].other = open[i].other
                  \/ Settled(open[i])'
             /\ \A i \in 1 .. Len(open') :
                  \/ /\ i <= Len(open)
                     /\ open'[i].head = open[i].head
                     /\ Inside(i)' = Inside(i)
                  \/ Under(idom', open'[i].head, Inside(i)')
  <2>1. /\ Len(open') = Len(open) + 1
        /\ \A i \in 1 .. Len(open) : open'[i] = open[i]
        /\ open'[Len(open) + 1] = s
    BY <1>1, AppendProperties DEF TypeOK, Statement
  <2>2. ASSUME NEW i \in 1 .. Len(open'), i <= Len(open)
        PROVE  /\ open'[i] = open[i]
               /\ open'[i].other <= count'
               /\ Inside(i)' = Inside(i)
    <3>1. i \in 1 .. Len(open) /\ open'[i] = open[i]
      BY <1>0, <2>1, <2>2
    <3>2. open[i].other <= count'
      <4>1. open[i] \in Statement
        BY <3>1, ElementOfSeq DEF TypeOK, Statement
      <4>2. open[i].other \in 0 .. MaxBlocks
        BY <4>1 DEF Statement
      <4>3. open[i].other <= count
        BY <1>0, <3>1 DEF DomInv, Settled
      <4> QED
        BY <1>0, <1>1, <4>2, <4>3
    <3>3. CASE i = Len(open)
      <4>1. i # Len(open') /\ open'[i + 1].head = top
        BY <1>0, <1>1, <2>1, <3>3
      <4> QED
        BY <3>1, <3>2, <3>3, <4>1 DEF Inside
    <3>4. CASE i # Len(open)
      <4>1. i # Len(open') /\ i + 1 \in 1 .. Len(open)
        BY <1>0, <2>1, <3>1, <3>4
      <4>2. open'[i + 1] = open[i + 1]
        BY <2>1, <4>1
      <4> QED
        BY <3>1, <3>2, <3>4, <4>1, <4>2 DEF Inside
    <3> QED
      BY <3>3, <3>4
  <2>3. ASSUME NEW i \in 1 .. Len(open'), ~ i <= Len(open)
        PROVE  Settled(open[i])' /\ Under(idom', open'[i].head, Inside(i)')
    <3>1. i = Len(open')
      BY <1>0, <2>1, <2>3
    <3>2. open'[i] = s /\ Inside(i)' = top'
      BY <2>1, <3>1 DEF Inside
    <3>3. Under(idom', top, top')
      BY <1>0, <1>1, UnderFacts
    <3> QED
      BY <1>1, <3>2, <3>3
  <2> QED
    BY <2>2, <2>3
(* The innermost statement goes on: its block and its exit are the same. *)
<1>2. ASSUME open # << >>, NEW s \in Statement, open' = Append(Outer, s),
             s.head = Inner.head, s.exit = Inner.exit, s.other <= count',
             count <= count',
             s.if /\ s.other # 0 => Inner.if /\ s.other = Inner.other,
             Under(idom', Inner.head, top')
      PROVE  /\ \A i \in 1 .. Len(open') :
                  /\ i <= Len(open)
                  /\ open'[i].exit = open[i].exit
                  /\ open'[i].head = open[i].head
                  /\ open'[i].other <= count'
                  /\ open'[i].if /\ open'[i].other # 0
                          => open[i].if /\ open'[i].other = open[i].other
             /\ \A i \in 1 .. Len(open') :
                  \/ /\ i <= Len(open)
                     /\ open'[i].head = open[i].head
                     /\ Inside(i)' = Inside(i)
                  \/ Under(idom', open'[i].head, Inside(i)')
  <2>1. /\ Inner = open[Len(open)]
        /\ Len(open') = Len(open)
        /\ \A i \in 1 .. Len(open) : open'[i] = IF i = Len(open) THEN s ELSE open[i]
    BY <1>0, <1>2, InnerFacts
  <2>2. \A i \in 1 .. Len(open) : /\ open'[i].head = open[i].head
                                  /\ open'[i].exit = open[i].exit
    BY <1>2, <2>1
  <2>3. ASSUME NEW i \in 1 .. Len(open)
        PROVE  /\ open'[i].other <= count'
               /\ open'[i].if /\ open'[i].other # 0
                          => open[i].if /\ open'[i].other = open[i].other
    <3>1. CASE i = Len(open)
      BY <1>2, <2>1, <3>1
    <3>2. CASE i # Len(open)
      <4>1. open'[i] = open[i] /\ open[i].other <= count
        BY <1>0, <2>1, <3>2 DEF DomInv, Settled
      <4>2. open[i].other \in Nat /\ count' \in Nat
        <5>1. open[i] \in Statement
          BY ElementOfSeq DEF TypeOK, Statement
        <5>2. open[i].other \in 0 .. MaxBlocks
          BY <5>1 DEF Statement
        <5>3. count' \in 1 .. MaxBlocks
          BY DEF TypeOK, Blocks
        <5> QED
          BY <1>0, <5>2, <5>3
      <4> QED
        BY <1>0, <1>2, <4>1, <4>2
    <3> QED
      BY <3>1, <3>2
  <2>4. ASSUME NEW i \in 1 .. Len(open), i # Len(open)
        PROVE  Inside(i)' = Inside(i)
    <3>1. i # Len(open') /\ i + 1 \in 1 .. Len(open)
      BY <1>0, <2>1, <2>4
    <3>2. open'[i + 1].head = open[i + 1].head
      BY <2>2, <3>1
    <3> QED
      BY <2>4, <3>1, <3>2 DEF Inside
  <2>5. ASSUME NEW i \in 1 .. Len(open), i = Len(open)
        PROVE  Under(idom', open'[i].head, Inside(i)')
    <3>1. Inside(i)' = top' /\ open'[i].head = Inner.head
      BY <1>2, <2>1, <2>5 DEF Inside
    <3> QED
      BY <1>2, <3>1
  <2>6. \A i \in 1 .. Len(open) : i <= Len(open)
    BY <1>0
  <2> QED
    BY <2>1, <2>2, <2>3, <2>4, <2>5, <2>6
(* The innermost statement ends: its exit is under its block, and so under *)
(* the one of the statement around it.                                     *)
<1>3. ASSUME open # << >>, open' = Outer, idom' = idom, top' = Inner.exit
      PROVE  /\ \A i \in 1 .. Len(open') :
                  i <= Len(open) /\ open'[i] = open[i] /\ open[i].other <= count
             /\ \A i \in 1 .. Len(open') :
                  \/ /\ i <= Len(open)
                     /\ open'[i].head = open[i].head
                     /\ Inside(i)' = Inside(i)
                  \/ Under(idom', open'[i].head, Inside(i)')
  <2>1. /\ Inner = open[Len(open)] /\ Len(open') = Len(open) - 1
        /\ Inner.head \in Blocks /\ Inner.exit \in Blocks
        /\ idom[Inner.exit] = Inner.head
        /\ \A i \in 1 .. Len(open') : open'[i] = open[i]
    BY <1>0, <1>3, InnerFacts DEF Settled
  <2>2. ASSUME NEW i \in 1 .. Len(open')
        PROVE  i <= Len(open) /\ i \in 1 .. Len(open) /\ open'[i] = open[i]
               /\ open[i].other <= count
    <3>1. i <= Len(open) /\ i \in 1 .. Len(open)
      BY <1>0, <2>1
    <3> QED
      BY <1>0, <2>1, <3>1 DEF DomInv, Settled
  <2>3. ASSUME NEW i \in 1 .. Len(open'), i # Len(open')
        PROVE  Inside(i)' = Inside(i)
    <3>1. i + 1 \in 1 .. Len(open') /\ i # Len(open)
      BY <1>0, <2>1, <2>3
    <3> QED
      BY <2>1, <2>3, <3>1 DEF Inside
  <2>4. ASSUME NEW i \in 1 .. Len(open'), i = Len(open')
        PROVE  Under(idom', open'[i].head, Inside(i)')
    <3>1. i # Len(open) /\ i + 1 = Len(open)
      BY <1>0, <2>1, <2>4
    <3>2. Inside(i) = Inner.head /\ Inside(i)' = Inner.exit
      BY <1>3, <2>1, <2>4, <3>1 DEF Inside
    <3>3. Under(idom, open[i].head, Inner.head)
      BY <1>0, <2>2, <3>2 DEF DomInv
    <3>4. open[i].head \in Blocks
      <4>1. open[i] \in Statement
        BY <2>2, ElementOfSeq DEF TypeOK, Statement
      <4> QED
        BY <4>1 DEF Statement
    <3>5. Under(idom, open[i].head, Inner.exit)
      BY <2>1, <3>3, <3>4, UnderFacts
    <3> QED
      BY <1>3, <2>2, <3>2, <3>5
  <2> QED
    BY <2>2, <2>3, <2>4
<1>4. CASE Assign
  <2>1. UNCHANGED << idom, count, flow, entries, open, top >>
    BY <1>4 DEF Assign, walker
  <2>2. \A i : Inside(i)' = Inside(i)
    BY <2>1 DEF Inside
  <2>3. \A i \in 1 .. Len(open) : i <= Len(open) /\ open[i].other <= count
    BY <1>0 DEF DomInv, Settled
  <2> QED
    BY <1>0, <2>1, <2>2, <2>3, DomGrows
<1>5. CASE OpenIf
  <2>1. /\ {count + 1, count + 2, count + 3} \subseteq Blocks
        /\ count' = count + 3 /\ top' = count + 1
        /\ entries' = entries
    BY <1>0, <1>5 DEF OpenIf, Blocks
  <2>2. \A b \in Blocks : idom'[b] = IF b \in {count + 1, count + 2, count + 3}
                                   THEN top ELSE idom[b]
    BY <1>0, <1>5 DEF OpenIf, Dominated
  <2>3. \A b \in Blocks : b <= count => idom'[b] = idom[b]
    BY <1>0, <2>2 DEF Blocks
  <2>4. /\ idom'[count + 1] = top /\ idom'[count + 2] = top
        /\ idom'[count + 3] = top
    BY <2>1, <2>2
  <2>5. Under(idom', top, top)
    BY <1>0, UnderFacts
  <2>6. \A e \in flow' \ flow : Nested(e)'
    <3>1. \A e \in flow' \ flow : e = << top, count + 1 >> \/ e = << top, count + 2 >>
      BY <1>5 DEF OpenIf, Edge
    <3> QED
      BY <1>0, <2>1, <2>4, <2>5, <3>1 DEF Nested
  <2>7. PICK s : s = [if |-> TRUE, head |-> top, other |-> count + 2,
                      exit |-> count + 3, default |-> FALSE]
    OBVIOUS
  <2>8. s \in Statement /\ s.head = top /\ open' = Append(open, s)
    <3>1. count + 2 \in 0 .. MaxBlocks
      BY <1>0, <2>1 DEF Blocks
    <3> QED
      BY <1>0, <1>5, <2>1, <2>7, <3>1 DEF Statement, OpenIf
  <2>9. Settled(s)'
    <3>1. s.head = top /\ s.exit = count + 3 /\ s.other = count + 2
      BY <2>7
    <3>2. top <= count' /\ count + 3 <= count' /\ count + 2 <= count'
      BY <1>0, <2>1 DEF Blocks
    <3> QED
      BY <2>4, <3>1, <3>2 DEF Settled
  <2>10. count <= count' /\ top' \in Blocks /\ idom'[top'] = top
    BY <1>0, <2>1, <2>4
  <2>11. count' \in Nat
    BY <1>0, <2>1
  <2>12. /\ \A i \in 1 .. Len(open') :
              \/ /\ i <= Len(open)
                 /\ open'[i].exit = open[i].exit
                 /\ open'[i].head = open[i].head
                 /\ open'[i].other <= count'
                 /\ open'[i].if /\ open'[i].other # 0
                      => open[i].if /\ open'[i].other = open[i].other
              \/ Settled(open[i])'
         /\ \A i \in 1 .. Len(open') :
              \/ /\ i <= Len(open)
                 /\ open'[i].head = open[i].head
                 /\ Inside(i)' = Inside(i)
              \/ Under(idom', open'[i].head, Inside(i)')
    BY <1>1, <2>8, <2>9, <2>10, <2>11
  <2> QED
    BY <1>0, <2>1, <2>3, <2>6, <2>10, <2>12, DomGrows
<1>6. CASE OpenCase
  <2>1. /\ count + 1 \in Blocks /\ count' = count + 1 /\ top' = top
        /\ entries' = entries /\ flow' = flow
    BY <1>0, <1>6 DEF OpenCase, Blocks
  <2>2. \A b \in Blocks : idom'[b] = IF b = count + 1 THEN top ELSE idom[b]
    BY <1>0, <1>6 DEF OpenCase, Dominated
  <2>3. /\ \A b \in Blocks : b <= count => idom'[b] = idom[b]
        /\ idom'[count + 1] = top
    BY <1>0, <2>1, <2>2 DEF Blocks
  <2>4. PICK s : s = [if |-> FALSE, head |-> top, other |-> 0,
                      exit |-> count + 1, default |-> FALSE]
    OBVIOUS
  <2>5. s \in Statement /\ s.head = top /\ open' = Append(open, s)
    BY <1>0, <1>6, <2>1, <2>4 DEF Statement, OpenCase
  <2>6. Settled(s)'
    <3>1. s.head = top /\ s.exit = count + 1 /\ s.other = 0
      BY <2>4
    <3>2. top <= count' /\ count + 1 <= count' /\ 0 <= count'
      BY <1>0, <2>1 DEF Blocks
    <3> QED
      BY <2>3, <3>1, <3>2 DEF Settled
  <2>7. count <= count' /\ count' \in Nat /\ top' \in Blocks
    BY <1>0, <2>1
  <2>8. \A e \in flow' \ flow : Nested(e)'
    BY <2>1
  <2>9. \A a \in entries' \ entries : a <= count' /\ idom'[a] = 0
    BY <2>1
  <2> HIDE DEF Nested
  <2> QED
    BY <1>0, <1>1, <2>1, <2>3, <2>5, <2>6, <2>7, <2>8, <2>9, DomGrows
(* An edge from the block in hand to the exit of its statement. *)
<1>7. ASSUME open # << >>, Edge(top, {Inner.exit}), idom' = idom, count' = count,
             entries' = entries
      PROVE  \A e \in flow' \ flow : Nested(e)'
  <2>1. /\ Inner.head \in Blocks /\ Inner.exit \in Blocks
        /\ idom[Inner.exit] = Inner.head
        /\ Under(idom, Inner.head, top)
    BY <1>0, <1>7, InnerFacts DEF Settled
  <2>2. \A e \in flow' \ flow : e = << top, Inner.exit >>
    BY <1>7 DEF Edge
  <2> QED
    BY <1>0, <1>7, <2>1, <2>2 DEF Nested
<1>8. CASE EndIf
  <2>1. /\ open # << >> /\ Edge(top, {Inner.exit})
        /\ UNCHANGED << idom, count, entries >>
        /\ open' = Outer /\ top' = Inner.exit
    BY <1>8 DEF EndIf, At
  <2> QED
    BY <1>0, <1>3, <1>7, <2>1, DomGrows
<1>9. ASSUME open # << >>, Edge(top, {Inner.exit}), idom' = idom, count' = count,
             entries' = entries, open' = Append(Outer, [Inner EXCEPT !.other = 0]),
             top' = top \/ (Inner.if /\ Inner.other # 0 /\ top' = Inner.other)
      PROVE  DomInv'
  <2>1. /\ Inner \in Statement /\ Inner.head \in Blocks
        /\ Inner.other \in 0 .. MaxBlocks
        /\ Settled(Inner) /\ Under(idom, Inner.head, top)
    BY <1>0, <1>9, InnerFacts
  <2>2. PICK s : s = [Inner EXCEPT !.other = 0]
    OBVIOUS
  <2>3. /\ s \in Statement /\ s.head = Inner.head /\ s.exit = Inner.exit
        /\ s.other = 0
    BY <1>0, <2>1, <2>2 DEF Statement
  <2>4. Under(idom', Inner.head, top')
    <3>1. CASE top' = top
      BY <1>9, <2>1, <3>1
    <3>2. CASE Inner.if /\ Inner.other # 0 /\ top' = Inner.other
      <4>1. Inner.other \in Blocks /\ idom[Inner.other] = Inner.head
        BY <1>0, <2>1, <3>2 DEF Blocks, Settled
      <4>2. Under(idom, Inner.head, Inner.head)
        BY <2>1, UnderFacts
      <4>3. Under(idom, Inner.head, Inner.other)
        BY <2>1, <4>1, <4>2, UnderFacts
      <4> QED
        BY <1>9, <3>2, <4>3
    <3> QED
      BY <1>9, <3>1, <3>2
  <2>5. 0 <= count' /\ count <= count'
    BY <1>0, <1>9
  <2> QED
    BY <1>0, <1>2, <1>7, <1>9, <2>2, <2>3, <2>4, <2>5, DomGrows
<1>10. ASSUME NEW default \in BOOLEAN, Item(default)
       PROVE  DomInv'
  <2>1. /\ count + 1 \in Blocks /\ count' = count + 1 /\ top' = count + 1
        /\ entries' = entries /\ open # << >>
    BY <1>0, <1>10 DEF Item, At, Blocks
  <2>2. /\ Inner \in Statement /\ Inner.head \in Blocks
        /\ ~ Inner.if
    BY <1>0, <1>10, <2>1, InnerFacts DEF Item, At
  <2>3. \A b \in Blocks : idom'[b] = IF b = count + 1 THEN Inner.head ELSE idom[b]
    BY <1>0, <1>10 DEF Item, Dominated
  <2>4. /\ \A b \in Blocks : b <= count => idom'[b] = idom[b]
        /\ idom'[count + 1] = Inner.head
    BY <1>0, <2>1, <2>3 DEF Blocks
  <2>5. Under(idom', Inner.head, Inner.head)
    BY <2>2, UnderFacts
  <2>6. Under(idom', Inner.head, top')
    BY <2>1, <2>2, <2>4, <2>5, UnderFacts
  <2>7. \A e \in flow' \ flow : Nested(e)'
    <3>1. \A e \in flow' \ flow : e = << Inner.head, count + 1 >>
      BY <1>10 DEF Item, Edge
    <3> QED
      BY <1>0, <2>1, <2>2, <2>4, <2>5, <3>1 DEF Nested
  <2>8. PICK s : s = [Inner EXCEPT !.other = count + 1, !.default = default]
    OBVIOUS
  <2>9. open' = Append(Outer, s)
    BY <1>10, <2>8 DEF Item
  <2>10. /\ s \in Statement /\ s.head = Inner.head /\ s.exit = Inner.exit
         /\ s.other = count + 1 /\ ~ s.if
    <3>1. count + 1 \in 0 .. MaxBlocks
      BY <1>0, <2>1 DEF Blocks
    <3>2. s \in Statement
      BY <2>2, <2>8, <3>1 DEF Statement
    <3>3. s.head = Inner.head /\ s.exit = Inner.exit
      BY <2>2, <2>8 DEF Statement
    <3>4. s.other = count + 1 /\ s.if = Inner.if
      BY <2>2, <2>8 DEF Statement
    <3> QED
      BY <2>2, <3>2, <3>3, <3>4
  <2>11. s.other <= count' /\ count <= count'
    BY <1>0, <2>1, <2>10
  <2> QED
    BY <1>0, <1>2, <2>1, <2>4, <2>6, <2>7, <2>9, <2>10, <2>11, DomGrows
<1>11. CASE EndCase
  <2>1. /\ open # << >> /\ UNCHANGED << idom, count, entries >>
        /\ open' = Outer /\ top' = Inner.exit
    BY <1>11 DEF EndCase, At, graph
  <2>2. /\ Inner.head \in Blocks /\ Inner.exit \in Blocks
        /\ idom[Inner.exit] = Inner.head
    BY <1>0, <2>1, InnerFacts DEF Settled
  <2>3. \A e \in flow' \ flow : Nested(e)'
    <3>1. \A e \in flow' \ flow : e = << Inner.head, Inner.exit >>
      BY <1>11 DEF EndCase
    <3>2. Under(idom, Inner.head, Inner.head)
      BY <2>2, UnderFacts
    <3> QED
      BY <2>1, <2>2, <3>1, <3>2 DEF Nested
  <2> QED
    BY <1>0, <1>3, <2>1, <2>3, DomGrows
<1>12. CASE NextProcess
  <2>1. /\ count' = count + 1 /\ open = << >> /\ open' = open
        /\ flow' = flow /\ idom' = idom /\ entries' = entries \cup {count + 1}
        /\ count + 1 \in Blocks
    BY <1>0, <1>12 DEF NextProcess, graph, Blocks
  <2>2. \A a \in entries' \ entries : a <= count' /\ idom'[a] = 0
    <3>1. idom[count + 1] = 0
      BY <1>0, <2>1 DEF NumInv, Numbered
    <3> QED
      BY <1>0, <2>1, <3>1
  <2>3. Len(open') = 0 /\ count <= count'
    BY <1>0, <2>1
  <2> QED
    BY <1>0, <2>1, <2>2, <2>3, DomGrows
<1>13. CASE Else
  BY <1>9, <1>13 DEF Else, At
<1>14. CASE EndItem
  BY <1>9, <1>14 DEF EndItem, At
<1> QED
  BY <1>4, <1>5, <1>6, <1>8, <1>10, <1>11, <1>12, <1>13, <1>14 DEF Build

-----------------------------------------------------------------------------
LEMMA NumStep ==
  ASSUME TypeOK, NumInv, DomInv, [DistNext]_vars
  PROVE  NumInv'
<1>0. /\ preds \in [Blocks -> SUBSET Blocks] /\ count \in Nat
      /\ phase \in {"build", "realign", "distance", "done"}
  BY BlocksAssumption DEF TypeOK, Blocks
<1>1. CASE Build
  BY <1>1, NumBuild
<1>2. CASE SelectTargets
  <2>1. phase = "build" /\ UNCHANGED << graph, walker >>
    BY <1>2 DEF SelectTargets
  <2>2. Numbered'
    BY <2>1 DEF NumInv, Numbered, graph, walker
  <2>3. PICK n \in 1 .. MaxTargets : targets' \in [1 .. n -> branches]
    BY <1>2 DEF SelectTargets
  <2>4. Len(targets') = n
    BY <2>3, MeasuredAssumption
  <2>5. branches \subseteq 1 .. count'
    BY <2>1 DEF NumInv, Numbered, walker
  <2>6. \A k \in 1 .. Len(targets') : targets'[k] \in 1 .. count'
    BY <2>3, <2>4, <2>5
  <2> QED
    BY <2>2, <2>6 DEF NumInv
<1>3. CASE Realign
  <2>1. /\ phase = "realign"
        /\ UNCHANGED << phase, idom, branches, assigns, walker, targets >>
    BY <1>3 DEF Realign
  <2>2. /\ Numbered
        /\ \A k \in 1 .. Len(targets) : targets[k] \in 1 .. count
    BY <2>1 DEF NumInv
  <2>3. assigns \subseteq 1 .. count /\ \A b \in Blocks : preds[b] \subseteq 1 .. count
    BY <2>2 DEF Numbered
  <2>4. \A b \in Blocks : preds'[b] \subseteq 1 .. count
    <3>1. ASSUME NEW from \in SUBSET assigns, Enable(Head(que), from)
          PROVE  \A b \in Blocks : preds'[b] \subseteq 1 .. count
      <4>1. from \subseteq 1 .. count
        BY <2>3
      <4>2. \A b \in Blocks : preds'[b] = preds[b] \/ preds'[b] = from
        BY <1>0, <3>1 DEF Enable
      <4> QED
        BY <2>3, <4>1, <4>2
    <3>2. CASE preds' = preds
      BY <2>3, <3>2
    <3> QED
      BY <1>3, <3>1, <3>2 DEF Realign, GoUp, Stop
  <2>5. Numbered'
    BY <2>1, <2>2, <2>4 DEF Numbered, walker
  <2> QED
    BY <2>1, <2>2, <2>5 DEF NumInv, walker
<1>4. ASSUME phase # "build", phase # "done", UNCHANGED << graph, walker, targets >>
      PROVE  NumInv'
  <2>1. /\ Numbered
        /\ \A k \in 1 .. Len(targets) : targets[k] \in 1 .. count
    BY <1>4 DEF NumInv
  <2>2. Numbered'
    BY <1>4, <2>1 DEF Numbered, graph, walker
  <2> QED
    BY <1>4, <2>1, <2>2 DEF NumInv, walker
<1>5. CASE Measure
  BY <1>4, <1>5 DEF Measure
<1>6. CASE Relax
  BY <1>4, <1>6 DEF Relax
<1>7. CASE NextTarget
  BY <1>4, <1>7 DEF NextTarget
<1>8. CASE Circular
  BY <1>8 DEF Circular, NumInv
<1>9. CASE UNCHANGED vars
  BY <1>9 DEF vars, graph, walker, NumInv, Numbered
<1> QED
  BY <1>1, <1>2, <1>3, <1>5, <1>6, <1>7, <1>8, <1>9 DEF DistNext

LEMMA DomStep ==
  ASSUME TypeOK, TypeOK', NumInv, DomInv, [DistNext]_vars
  PROVE  DomInv'
<1>1. CASE Build
  BY <1>1, DomBuild
<1>2. CASE UNCHANGED vars
  <2>1. UNCHANGED << phase, count, idom, top, open, entries, flow >>
    BY <1>2 DEF vars, graph, walker
  <2>2. CASE phase = "build"
    <3>1. \A e \in flow : Nested(e)'
      BY <2>1, <2>2 DEF DomInv, Nested
    <3>2. \A i \in 1 .. Len(open) : Settled(open[i])' /\ Inside(i)' = Inside(i)
      BY <2>1, <2>2 DEF DomInv, Settled, Inside
    <3> QED
      BY <2>1, <2>2, <3>1, <3>2 DEF DomInv
  <2>3. CASE phase # "build"
    BY <2>1, <2>3 DEF DomInv
  <2> QED
    BY <2>2, <2>3
<1>3. CASE phase' # "build"
  BY <1>3 DEF DomInv
<1>4. DistNext => Build \/ phase' # "build"
  BY DEF DistNext, SelectTargets, Realign, Measure, Relax, NextTarget, Circular
<1> QED
  BY <1>1, <1>2, <1>3, <1>4

LEMMA NumDomInit ==
  ASSUME DistInit
  PROVE  NumInv /\ DomInv
<1>1. /\ phase = "build" /\ count = 1 /\ top = 1 /\ branches = {} /\ assigns = {}
      /\ flow = {} /\ entries = {1} /\ 1 \in Blocks
      /\ \A b \in Blocks : preds[b] = {} /\ idom[b] = 0
      /\ Len(open) = 0
  BY BlocksAssumption DEF DistInit, Init, Blocks
<1>2. Numbered
  BY <1>1 DEF Numbered
<1> QED
  BY <1>1, <1>2 DEF NumInv, DomInv

-----------------------------------------------------------------------------
(***************************************************************************)
(* Dominators.  Paths is what ReachedWithout computes, for every number of *)
(* steps; the paths that avoid a block do not leave a set that no transfer *)
(* of control leaves.                                                      *)
(***************************************************************************)
Passed(R, cut, fl) == R \cup {e[2] : e \in {f \in fl : f[1] \in R /\ f[2] # cut}}

Paths(a, cut, n, fl) ==
  CHOOSE reach : reach =
    [k \in 0 .. n |->
       IF k = 0 THEN {a} \ {cut} ELSE Passed(reach[k - 1], cut, fl)]

LEMMA ReachedDef ==
  ASSUME NEW a, NEW cut
  PROVE  ReachedWithout(a, cut) = Paths(a, cut, count, flow)[count]
BY DEF ReachedWithout, Paths, Passed

LEMMA PathsStay ==
  ASSUME NEW n \in Nat, NEW a \in Blocks, NEW cut, NEW fl \in SUBSET (Blocks \X Blocks),
         NEW U \in SUBSET Blocks, {a} \ {cut} \subseteq U,
         \A e \in fl : e[1] \in U /\ e[2] # cut => e[2] \in U
  PROVE  Paths(a, cut, n, fl)[n] \subseteq U
<1> DEFINE V == SUBSET Blocks
           base == {a} \ {cut}
           Right(f) == f = [k \in 0 .. n |->
                              IF k = 0 THEN base ELSE Passed(f[k - 1], cut, fl)]
           next == [k \in 1 .. n |-> [R \in V |-> Passed(R, cut, fl)]]
<1>1. base \in V
  OBVIOUS
<1>2. \A R \in V : Passed(R, cut, fl) \in V
  BY DEF Passed
<1>3. next \in StepsOf(n, V)
  BY <1>2 DEF StepsOf
<1>4. PICK f \in [0 .. n -> V] : f[0] = base /\ \A m \in 1 .. n : f[m] = next[m][f[m - 1]]
  <2> HIDE DEF next, V, base
  <2>1. \E f \in [0 .. n -> V] : Follows(f, n, base, next)
    BY <1>1, <1>3, Recursion
  <2> QED
    BY <2>1 DEF Follows
<1>5. \A m \in 1 .. n : f[m] = Passed(f[m - 1], cut, fl)
  <2> TAKE m \in 1 .. n
  <2>1. m - 1 \in 0 .. n
    OBVIOUS
  <2>2. f[m - 1] \in V
    BY <2>1
  <2> QED
    BY <1>4, <2>2
<1>6. Right(f)
  <2> DEFINE g == [k \in 0 .. n |-> IF k = 0 THEN base ELSE Passed(f[k - 1], cut, fl)]
  <2>1. \A k \in 0 .. n : f[k] = g[k]
    <3> TAKE k \in 0 .. n
    <3>1. CASE k = 0
      BY <1>4, <3>1
    <3>2. CASE k # 0
      <4>1. k \in 1 .. n
        BY <3>2
      <4> QED
        BY <1>5, <3>2, <4>1
    <3> QED
      BY <3>1, <3>2
  <2> HIDE DEF V
  <2>2. f = g
    BY <2>1
  <2> QED
    BY <2>2
<1> DEFINE g == Paths(a, cut, n, fl)
<1>7. Right(g)
  <2> HIDE DEF Right
  <2>1. g = CHOOSE h : Right(h)
    BY DEF Paths, Right
  <2> QED
    BY <1>6, <2>1
<1>8. g[0] = base /\ \A k \in 1 .. n : g[k] = Passed(g[k - 1], cut, fl)
  <2> HIDE DEF g
  <2>1. \A k \in 0 .. n : g[k] = IF k = 0 THEN base ELSE Passed(g[k - 1], cut, fl)
    BY <1>7
  <2>2. 0 \in 0 .. n /\ \A k \in 1 .. n : k \in 0 .. n /\ k # 0
    OBVIOUS
  <2> QED
    BY <2>1, <2>2
<1> HIDE DEF g
<1> DEFINE S == {k \in 0 .. n : g[k] \subseteq U}
<1>9. 0 \in S
  BY <1>8
<1>10. \A k \in 0 .. n - 1 : k \in S => k + 1 \in S
  <2> SUFFICES ASSUME NEW k \in 0 .. n - 1, g[k] \subseteq U
               PROVE  k + 1 \in S
    OBVIOUS
  <2>1. k + 1 \in 1 .. n /\ (k + 1) - 1 = k /\ k + 1 \in 0 .. n
    OBVIOUS
  <2>2. g[k + 1] = Passed(g[k], cut, fl)
    BY <1>8, <2>1
  <2>3. Passed(g[k], cut, fl) \subseteq U
    BY DEF Passed
  <2> QED
    BY <2>1, <2>2, <2>3
<1> HIDE DEF S
<1>11. \A k \in 0 .. n : k \in S
  BY <1>9, <1>10, UpTo
<1> QED
  BY <1>11 DEF S, g

LEMMA Dominates ==
  ASSUME TypeOK, NumInv, DomInv, Finished,
         NEW b \in Made, NEW a \in entries, idom[b] # 0
  PROVE  b \notin ReachedWithout(a, idom[b])
<1> DEFINE h == idom[b]
           D == {x \in Blocks : idom[x] # 0 /\ Under(idom, h, idom[x])}
           U == Blocks \ (D \cup {h})
<1>0. /\ count \in Nat /\ 0 \notin Blocks /\ b \in Blocks /\ a \in Blocks
      /\ h \in Blocks /\ idom[a] = 0
      /\ \A x \in Blocks : idom[x] # 0 => idom[x] \in Blocks
  <2>1. MaxBlocks \in Nat /\ count \in Blocks /\ entries \subseteq Blocks
        /\ idom \in [Blocks -> 0 .. MaxBlocks]
    BY BlocksAssumption DEF TypeOK
  <2>2. count \in Nat /\ 0 \notin Blocks /\ b \in Blocks
    BY <2>1 DEF Blocks, Made
  <2>3. \A x \in Blocks : idom[x] # 0 => idom[x] \in Blocks
    BY <2>1 DEF Blocks
  <2>4. idom[a] = 0
    BY DEF DomInv, Finished
  <2> QED
    BY <2>1, <2>2, <2>3, <2>4
<1>1. \A e \in flow : Nested(e)
  BY DEF DomInv, Finished
<1>2. Under(idom, h, h)
  BY <1>0, UnderFacts
<1>3. b \in D
  BY <1>0, <1>2
(* What is under h is h or has an idom that is. *)
<1>4. Inherits(D \cup {h}, idom)
  <2>1. ASSUME NEW x \in Blocks, idom[x] \in D \cup {h}
        PROVE  x \in D
    <3>1. idom[x] # 0
      BY <1>0, <2>1
    <3>2. CASE idom[x] = h
      BY <1>2, <3>1, <3>2
    <3>3. CASE idom[x] \in D
      <4>1. idom[x] \in Blocks /\ Under(idom, h, idom[idom[x]])
        BY <3>3
      <4>2. Under(idom, h, idom[x])
        BY <1>0, <4>1, UnderFacts
      <4> QED
        BY <3>1, <4>2
    <3> QED
      BY <2>1, <3>2, <3>3
  <2> HIDE DEF D, h
  <2> QED
    BY <2>1 DEF Inherits
<1>5. \A x : Under(idom, h, x) => x \in D \cup {h}
  <2>1. D \cup {h} \in SUBSET Blocks
    BY <1>0
  <2> HIDE DEF D, h
  <2> QED
    BY <1>4, <2>1 DEF Under
<1>6. ASSUME NEW e \in flow, e[1] \in U, e[2] # h
      PROVE  e[2] \in U
  <2>1. e \in Blocks \X Blocks /\ idom[e[2]] \in Blocks /\ Under(idom, idom[e[2]], e[1])
    BY <1>1 DEF Nested
  <2>2. SUFFICES ASSUME e[2] \in D
                 PROVE  FALSE
    BY <1>6, <2>1
  <2>3. Under(idom, h, idom[e[2]])
    BY <2>2
  <2>4. Under(idom, h, e[1])
    BY <1>0, <2>1, <2>3, UnderFacts
  <2> QED
    BY <1>5, <1>6, <2>4
<1>7. {a} \ {h} \subseteq U
  BY <1>0
<1>8. flow \in SUBSET (Blocks \X Blocks)
  BY <1>1 DEF Nested
<1>9. b \notin U
  BY <1>3
<1>10. Paths(a, h, count, flow)[count] \subseteq U
  <2>1. U \in SUBSET Blocks
    OBVIOUS
  <2> HIDE DEF U, h
  <2> QED
    BY <1>0, <1>6, <1>7, <1>8, <2>1, PathsStay
<1> QED
  BY <1>9, <1>10, ReachedDef

(***************************************************************************)
(* idom is a dominator, whatever statements the processes are made of and  *)
(* however deep they stand in each other.                                  *)
(***************************************************************************)
THEOREM IdomIsDominator == Spec => []IdomDominates
<1> DEFINE IInv == TypeOK /\ TargetsInv /\ NumInv /\ DomInv
<1>1. DistInit => IInv
  BY TypeInit, NumDomInit
<1>2. IInv /\ [DistNext]_vars => IInv'
  BY TypeStep, NumStep, DomStep
<1>3. IInv => IdomDominates
  BY Dominates DEF IdomDominates
<1> QED
  BY <1>1, <1>2, <1>3, PTL DEF Spec

-----------------------------------------------------------------------------
(***************************************************************************)
(* Every distance under way belongs to a walk from the target, and the     *)
(* lists that are written are the shortest ones.                           *)
(***************************************************************************)
WalkInv ==
  phase = "distance" =>
    measured = preds /\ Walked(Target, dist, preds, idom, weight)

ListsInv ==
  /\ phase \in {"distance", "done"} =>
       \A k \in 1 .. Len(table) :
         table[k] = ShortestIn(targets[k], count, measured, idom, weight)
  /\ phase = "done" => Len(table) = Len(targets)

LEMMA WalkStart ==
  ASSUME NEW t \in Blocks, dist' = ZeroAt(dist, t),
         targets'[Len(table') + 1] = t, measured' = preds'
  PROVE  WalkInv'
<1>1. \A p \in Blocks : dist'[p] = IF p = t THEN 0 ELSE Far
  BY DEF ZeroAt, Reset
<1>2. ~ Far < Far
  BY DEF Far
<1>3. Target' = t
  BY DEF Target
<1>4. \A p \in Blocks : dist'[p] < Far => << p, dist'[p] >> = << t, 0 >>
  BY <1>1, <1>2
<1>5. Walked(t, dist', preds', idom', weight')
  BY <1>4 DEF Walked
<1> QED
  BY <1>3, <1>5 DEF WalkInv

LEMMA WalkRelax ==
  ASSUME TypeOK, BalanceInv, WalkInv, Relax
  PROVE  WalkInv'
<1> DEFINE b == Head(que)
           Moves(p) == p \in Nearer(b) \/ (Lift(b) /\ p = idom[b])
<1>0. /\ phase = "distance" /\ Target' = Target /\ measured' = measured
      /\ weight' = weight /\ preds' = preds /\ idom' = idom
  BY DEF Relax, graph, Target
<1>1. /\ b \in Blocks /\ Queued(que, b)
      /\ \A p \in Blocks : dist'[p] = IF Moves(p) THEN Sum(b) ELSE dist[p]
  <2>1. /\ b \in Blocks /\ Queued(que, b)
        /\ dist' = [p \in Blocks |-> IF Moves(p) THEN Sum(b) ELSE dist[p]]
    BY RelaxStep
  <2> QED
    BY <2>1
<1>2. dist[b] < Far /\ dist[b] \in Nat /\ Sum(b) = dist[b] + weight[b]
  BY <1>0, <1>1 DEF BalanceInv, TypeOK, Sum
<1>3. \A p : Moves(p) => LeadsBy(preds, idom, p, b)
  BY DEF Nearer, LeadsBy
<1>4. Walked(Target, dist, preds, idom, weight) /\ measured = preds
  BY <1>0 DEF WalkInv
<1> HIDE DEF Moves, b
<1>5. ASSUME NEW W \in SUBSET (Blocks \X Nat), << Target, 0 >> \in W,
             ClosedUnder(W, preds, idom, weight), NEW p \in Blocks, dist'[p] < Far
      PROVE  << p, dist'[p] >> \in W
  <2>1. CASE Moves(p)
    <3>1. << b, dist[b] >> \in W
      BY <1>1, <1>2, <1>4, <1>5 DEF Walked
    <3>2. << p, dist[b] + weight[b] >> \in W
      BY <1>1, <1>2, <1>3, <1>5, <2>1, <3>1 DEF ClosedUnder
    <3> QED
      BY <1>1, <1>2, <2>1, <3>2
  <2>2. CASE ~ Moves(p)
    BY <1>1, <1>4, <1>5, <2>2 DEF Walked
  <2> QED
    BY <2>1, <2>2
<1>6. Walked(Target, dist', preds, idom, weight)
  BY <1>5 DEF Walked
<1> QED
  BY <1>0, <1>4, <1>6 DEF WalkInv

LEMMA WalkStep ==
  ASSUME TypeOK, TargetsInv, BalanceInv, WalkInv, [DistNext]_vars
  PROVE  WalkInv'
<1>0. Len(targets) \in Nat /\ Len(table) \in Nat
  BY LenProperties DEF TypeOK
<1>1. CASE Measure
  <2>1. 1 <= Len(targets) /\ table = << >> /\ Len(table) + 1 = 1
    BY <1>1 DEF Measure, TargetsInv
  <2>2. targets[1] \in Blocks
    BY <1>0, <2>1, ElementOfSeq DEF TypeOK
  <2> QED
    BY <1>1, <2>1, <2>2, WalkStart DEF Measure, graph
<1>2. CASE Relax
  BY <1>2, WalkRelax
<1>3. CASE NextTarget
  <2>1. Len(table') = Len(table) + 1
    BY <1>3, AppendProperties DEF NextTarget, TypeOK
  <2>2. Len(table') + 1 \in 1 .. Len(targets)
    BY <1>0, <1>3, <2>1 DEF NextTarget
  <2>3. targets[Len(table') + 1] \in Blocks
    BY <2>2, ElementOfSeq DEF TypeOK
  <2>4. measured' = preds'
    BY <1>3 DEF NextTarget, graph, WalkInv
  <2> QED
    BY <1>3, <2>3, <2>4, WalkStart DEF NextTarget
<1>4. CASE UNCHANGED vars
  BY <1>4 DEF vars, graph, walker, WalkInv, Target
<1>5. CASE phase' # "distance"
  BY <1>5 DEF WalkInv
<1>6. DistNext => Measure \/ Relax \/ NextTarget \/ phase' # "distance"
  BY DEF DistNext, Build, SelectTargets, Realign, Circular
<1> QED
  BY <1>1, <1>2, <1>3, <1>4, <1>5, <1>6

(* What a target is left with when nothing waits. *)
LEMMA TargetDone ==
  ASSUME TypeOK, TargetsInv, NumInv, BalanceInv, WalkInv,
         phase = "distance", que = << >>
  PROVE  dist = ShortestIn(Target, count, measured, idom, weight)
<1>1. /\ preds \in [Blocks -> SUBSET Blocks] /\ idom \in [Blocks -> 0 .. MaxBlocks]
      /\ weight \in [Blocks -> {0, 1}] /\ count \in Blocks
      /\ dist \in [Blocks -> Nat]
  BY DEF TypeOK
<1>2. /\ Walked(Target, dist, preds, idom, weight) /\ measured = preds
  BY DEF WalkInv
<1>3. \A c : ~ Queued(que, c)
  BY EmptySeq DEF Queued
<1>4. ASSUME NEW b \in Blocks, NEW p \in Blocks, LeadsBy(preds, idom, p, b)
      PROVE  dist[p] <= dist[b] + weight[b] /\ p <= count
  <2>1. Leads(p, b)
    BY <1>4 DEF Leads, LeadsBy
  <2>2. dist[p] <= dist[b] + weight[b]
    BY <1>3, <2>1 DEF BalanceInv
  <2>3. preds[b] \subseteq 1 .. count /\ idom[b] <= count
    BY DEF NumInv, Numbered
  <2> QED
    BY <1>4, <2>2, <2>3 DEF LeadsBy
<1>5. dist[Target] = 0 /\ \A p \in Blocks : dist[p] <= Far
  BY DEF BalanceInv
<1>6. Target \in 1 .. count
  <2>1. Len(table) + 1 \in 1 .. Len(targets)
    <3>1. Len(table) \in Nat /\ Len(targets) \in Nat
      BY LenProperties DEF TypeOK
    <3> QED
      BY <3>1 DEF TargetsInv
  <2> QED
    BY <2>1 DEF NumInv, Target
<1> QED
  BY <1>1, <1>2, <1>4, <1>5, <1>6, ShortestFound

LEMMA ListsStep ==
  ASSUME TypeOK, TargetsInv, NumInv, BalanceInv, WalkInv, ListsInv, [DistNext]_vars
  PROVE  ListsInv'
<1>0. /\ Len(targets) \in Nat /\ Len(table) \in Nat
      /\ table \in Seq([Blocks -> Nat]) /\ dist \in [Blocks -> Nat]
  BY LenProperties DEF TypeOK
<1>1. CASE Measure
  <2>1. table' = << >> /\ phase' = "distance"
    BY <1>1 DEF Measure, TargetsInv
  <2>2. Len(table') = 0
    BY <2>1
  <2> QED
    BY <2>1, <2>2 DEF ListsInv
(* A list is written. *)
<1>2. ASSUME phase = "distance", que = << >>, table' = Append(table, dist),
             UNCHANGED << targets, count, measured, idom, weight >>,
             phase' = "done" => Len(table) + 1 = Len(targets)
      PROVE  ListsInv'
  <2>1. dist = ShortestIn(Target, count, measured, idom, weight)
    BY <1>2, TargetDone
  <2>2. /\ Len(table') = Len(table) + 1
        /\ \A k \in 1 .. Len(table) : table'[k] = table[k]
        /\ table'[Len(table) + 1] = dist
    BY <1>0, <1>2, AppendProperties
  <2>3. ASSUME NEW k \in 1 .. Len(table')
        PROVE  table'[k] = ShortestIn(targets'[k], count', measured', idom', weight')
    <3>1. CASE k \in 1 .. Len(table)
      BY <1>2, <2>2, <3>1 DEF ListsInv
    <3>2. CASE k = Len(table) + 1
      BY <1>2, <2>1, <2>2, <3>2 DEF Target
    <3> QED
      BY <1>0, <2>2, <2>3, <3>1, <3>2
  <2> QED
    BY <1>2, <2>2, <2>3 DEF ListsInv
<1>3. CASE NextTarget
  BY <1>2, <1>3 DEF NextTarget, graph, walker
<1>4. CASE Circular
  BY <1>2, <1>4 DEF Circular, walker
<1>5. ASSUME UNCHANGED << phase, targets, table, count, measured, idom, weight >>
      PROVE  ListsInv'
  BY <1>5 DEF ListsInv
<1>6. CASE Relax
  BY <1>5, <1>6 DEF Relax, graph, walker
<1>7. CASE UNCHANGED vars
  BY <1>5, <1>7 DEF vars, graph, walker
<1>8. CASE phase' \notin {"distance", "done"}
  BY <1>8 DEF ListsInv
<1>9. DistNext => \/ Measure \/ Relax \/ NextTarget \/ Circular
                  \/ phase' \notin {"distance", "done"}
  BY DEF DistNext, Build, SelectTargets, Realign
<1> QED
  BY <1>1, <1>3, <1>4, <1>6, <1>7, <1>8, <1>9

(***************************************************************************)
(* The lists update_all_distances leaves are the shortest distances of the *)
(* realigned graph, for every graph and every order of the queue: no walk  *)
(* over as many steps as there are blocks costs less.                      *)
(***************************************************************************)
THEOREM ListsAreShortest == Spec => []DistanceIsShortest
<1> DEFINE IInv == /\ TypeOK /\ TargetsInv /\ NumInv /\ DomInv
                   /\ BalanceInv /\ WalkInv /\ ListsInv
<1>1. DistInit => IInv
  <2>1. DistInit => phase = "build"
    BY DEF DistInit, Init
  <2>2. DistInit => BalanceInv /\ WalkInv /\ ListsInv
    BY <2>1 DEF BalanceInv, WalkInv, ListsInv
  <2> QED
    BY <2>2, TypeInit, NumDomInit
<1>2. IInv /\ [DistNext]_vars => IInv'
  <2> SUFFICES ASSUME IInv, [DistNext]_vars
               PROVE  IInv'
    OBVIOUS
  <2>1. TypeOK' /\ TargetsInv'
    BY TypeStep
  <2>2. NumInv' /\ DomInv'
    BY <2>1, NumStep, DomStep
  <2>3. BalanceInv' /\ WalkInv' /\ ListsInv'
    BY BalanceStep, WalkStep, ListsStep
  <2> QED
    BY <2>1, <2>2, <2>3
<1>3. IInv => DistanceIsShortest
  <2> SUFFICES ASSUME IInv, phase = "done", NEW k \in 1 .. Len(targets)
               PROVE  table[k] = Shortest(targets[k])
    BY DEF DistanceIsShortest
  <2>1. table[k] = ShortestIn(targets[k], count, measured, idom, weight)
    BY DEF ListsInv
  <2> QED
    BY <2>1, ShortestDef
<1> QED
  BY <1>1, <1>2, <1>3, PTL DEF Spec

-----------------------------------------------------------------------------
(***************************************************************************)
(* The queue of edge_realignment.                                          *)
(***************************************************************************)

(* A set of blocks in some order has each of them once. *)
LEMMA OrdersAreDistinct ==
  ASSUME NEW S \in SUBSET Blocks, NEW s \in Orders(S)
  PROVE  \A i, j \in 1 .. Len(s) : s[i] = s[j] => i = j
<1>1. MaxBlocks \in Nat
  BY BlocksAssumption
<1>2. IsFiniteSet(S)
  <2>1. IsFiniteSet(1 .. MaxBlocks)
    BY <1>1, FS_Interval
  <2>2. S \subseteq 1 .. MaxBlocks
    BY DEF Blocks
  <2> QED
    BY <2>1, <2>2, FS_Subset
<1> DEFINE n == Cardinality(S)
<1>3. n \in Nat
  BY <1>2, FS_CardinalityType
<1>4. IsFiniteSet(1 .. n) /\ Cardinality(1 .. n) = n
  BY <1>3, FS_Interval
<1>5. s \in Surjection(1 .. n, S)
  BY DEF Orders
<1>6. s \in Injection(1 .. n, S)
  BY <1>2, <1>4, <1>5, FS_SurjSameCardinalityImpliesInj
<1>7. s \in [1 .. n -> S] /\ \A i, j \in 1 .. n : s[i] = s[j] => i = j
  BY <1>6 DEF Injection, IsInjective
<1>8. Len(s) = n
  BY <1>3, <1>7
<1> QED
  BY <1>7, <1>8

(* What was taken up and what waits is marked, and different but for the
   targets, which came first. *)
All == taken \o que

Once(q) == \A i, j \in 1 .. Len(q) :
             q[i] = q[j] => i = j \/ (i <= Len(targets) /\ j <= Len(targets))

Marked(q) == \A i \in 1 .. Len(q) : q[i] \in updated

OnceInv ==
  /\ phase = "realign" => Once(All) /\ Marked(All)
  /\ phase # "realign" => taken = << >>

(* One block is taken up and others are put behind. *)
LEMMA AllGrows ==
  ASSUME TypeOK, que # << >>, NEW r \in Seq(Blocks),
         taken' = Append(taken, Head(que)), que' = Tail(que) \o r
  PROVE  All' = All \o r
<1>1. /\ taken \in Seq(Blocks) /\ que \in Seq(Blocks)
      /\ Head(que) \in Blocks /\ Tail(que) \in Seq(Blocks)
  BY HeadTailProperties DEF TypeOK
<1>2. PICK h \in Blocks : h = Head(que)
  BY <1>1
<1>3. << h >> \in Seq(Blocks)
  OBVIOUS
<1>4. que = << h >> \o Tail(que)
  <2>1. /\ Len(que) \in Nat \ {0} /\ que[1] = h
        /\ Len(Tail(que)) = Len(que) - 1
        /\ \A i \in 1 .. Len(Tail(que)) : Tail(que)[i] = que[i + 1]
    BY <1>1, <1>2, HeadTailProperties, EmptySeq
  <2>2. Len(<< h >>) = 1 /\ << h >>[1] = h
    OBVIOUS
  <2>3. /\ << h >> \o Tail(que) \in Seq(Blocks)
        /\ Len(<< h >> \o Tail(que)) = Len(que)
        /\ \A i \in 1 .. Len(que) :
             (<< h >> \o Tail(que))[i] = IF i <= 1 THEN h ELSE Tail(que)[i - 1]
    BY <1>1, <1>3, <2>1, <2>2, ConcatProperties
  <2>4. ASSUME NEW i \in 1 .. Len(que)
        PROVE  (<< h >> \o Tail(que))[i] = que[i]
    <3>1. CASE i = 1
      BY <2>1, <2>3, <3>1
    <3>2. CASE i # 1
      <4>1. i - 1 \in 1 .. Len(Tail(que)) /\ ~ i <= 1 /\ (i - 1) + 1 = i
        BY <2>1, <3>2
      <4> QED
        BY <2>1, <2>3, <4>1
    <3> QED
      BY <3>1, <3>2
  <2> QED
    BY <1>1, <2>3, <2>4, SeqEqual
<1>5. taken' = taken \o << h >>
  BY <1>1, <1>2, AppendIsConcat
<1>a. \A u, v, w \in Seq(Blocks) : (u \o v) \o w = u \o (v \o w)
  BY ConcatAssociative
<1>6. All = (taken \o << h >>) \o Tail(que)
  <2>1. PICK t \in Seq(Blocks) : t = Tail(que)
    BY <1>1
  <2>2. All = taken \o (<< h >> \o t)
    BY <1>4, <2>1 DEF All
  <2>3. taken \o (<< h >> \o t) = (taken \o << h >>) \o t
    BY <1>1, <1>3, <1>a
  <2> QED
    BY <2>1, <2>2, <2>3
<1>7. taken \o << h >> \in Seq(Blocks)
  BY <1>1, <1>3, ConcatProperties
<1>8. All' = (taken \o << h >>) \o (Tail(que) \o r)
  BY <1>5 DEF All
<1> QED
  BY <1>1, <1>6, <1>7, <1>8, <1>a

LEMMA OnceStep ==
  ASSUME NEW r \in Seq(Blocks), TypeOK, que # << >>, Once(All), Marked(All),
         taken' = Append(taken, Head(que)), que' = Tail(que) \o r,
         updated \subseteq updated', targets' = targets,
         \A i \in 1 .. Len(r) : r[i] \in updated' /\ r[i] \notin updated,
         \A i, j \in 1 .. Len(r) : r[i] = r[j] => i = j
  PROVE  Once(All)' /\ Marked(All)'
<1>1. PICK q \in Seq(Blocks) : q = All
  BY ConcatProperties DEF All, TypeOK
<1>2. PICK n \in Nat : n = Len(q)
  BY LenProperties
<1>3. Len(r) \in Nat
  BY LenProperties
<1>4. All' = q \o r
  BY <1>1, AllGrows
<1>5. /\ Len(All') = n + Len(r)
      /\ \A i \in 1 .. n + Len(r) : All'[i] = IF i <= n THEN q[i] ELSE r[i - n]
  BY <1>1, <1>2, <1>4, ConcatProperties
(* A block of before, or a new one. *)
<1>6. ASSUME NEW i \in 1 .. Len(All')
      PROVE  \/ i \in 1 .. n /\ All'[i] = q[i] /\ All'[i] \in updated
             \/ i - n \in 1 .. Len(r) /\ All'[i] = r[i - n] /\ All'[i] \notin updated
                /\ All'[i] \in updated'
  <2>1. CASE i <= n
    <3>1. i \in 1 .. n /\ All'[i] = q[i]
      BY <1>2, <1>3, <1>5, <1>6, <2>1
    <3> QED
      BY <1>1, <1>2, <3>1 DEF Marked
  <2>2. CASE ~ i <= n
    <3>1. i - n \in 1 .. Len(r) /\ All'[i] = r[i - n]
      BY <1>2, <1>3, <1>5, <1>6, <2>2
    <3> QED
      BY <3>1
  <2> QED
    BY <2>1, <2>2
<1>7. Marked(All)'
  BY <1>6 DEF Marked
<1>8. ASSUME NEW i \in 1 .. Len(All'), NEW j \in 1 .. Len(All'), All'[i] = All'[j]
      PROVE  i = j \/ (i <= Len(targets) /\ j <= Len(targets))
  <2>1. CASE All'[i] \in updated
    <3>1. i \in 1 .. n /\ j \in 1 .. n /\ q[i] = q[j]
      BY <1>6, <1>8, <2>1
    <3> QED
      BY <1>1, <1>2, <3>1 DEF Once
  <2>2. CASE All'[i] \notin updated
    <3>1. /\ i - n \in 1 .. Len(r) /\ All'[i] = r[i - n]
          /\ j - n \in 1 .. Len(r) /\ All'[j] = r[j - n]
      BY <1>6, <1>8, <2>2
    <3>2. i - n = j - n
      BY <1>8, <3>1
    <3> QED
      BY <1>2, <1>3, <1>5, <3>2
  <2> QED
    BY <2>1, <2>2
<1>9. Once(All)'
  BY <1>8 DEF Once
<1> QED
  BY <1>7, <1>9

LEMMA OnceRealign ==
  ASSUME TypeOK, OnceInv, Realign
  PROVE  OnceInv'
<1> DEFINE b == Head(que)
<1>0. /\ phase = "realign" /\ que # << >> /\ targets' = targets
      /\ phase' = "realign" /\ taken' = Append(taken, Head(que))
      /\ que \in Seq(Blocks) /\ b \in Blocks /\ Tail(que) \in Seq(Blocks)
      /\ Once(All) /\ Marked(All) /\ 0 \notin Blocks /\ MaxBlocks \in Nat
  <2>1. /\ phase = "realign" /\ que # << >> /\ targets' = targets
        /\ phase' = "realign" /\ taken' = Append(taken, Head(que))
        /\ que \in Seq(Blocks)
    BY DEF Realign, TypeOK
  <2>2. 0 \notin Blocks /\ MaxBlocks \in Nat
    BY BlocksAssumption DEF Blocks
  <2> QED
    BY <2>1, <2>2, HeadTailProperties DEF OnceInv
<1>1. SUFFICES Once(All)' /\ Marked(All)'
  BY <1>0 DEF OnceInv
<1>2. ASSUME NEW from \in SUBSET assigns, Enable(b, from)
      PROVE  Once(All)' /\ Marked(All)'
  <2> DEFINE S == {c \in from : Awaits(c)}
  <2>1. S \in SUBSET Blocks
    BY DEF TypeOK
  <2>2. PICK s \in Orders(S) : que' = Tail(que) \o s
    BY <1>2 DEF Enable
  <2>3. s \in Seq(S) /\ s \in Seq(Blocks)
    <3> HIDE DEF S
    <3>1. s \in Seq(S)
      BY <1>0, <2>1, OrdersAreSequences
    <3> QED
      BY <2>1, <3>1, SeqMonotonic
  <2>4. \A i, j \in 1 .. Len(s) : s[i] = s[j] => i = j
    <3> HIDE DEF S
    <3> QED
      BY <2>1, OrdersAreDistinct
  <2>5. \A c \in S : c \in updated' /\ c \notin updated
    BY <1>2 DEF Enable, Awaits
  <2>6. \A i \in 1 .. Len(s) : s[i] \in updated' /\ s[i] \notin updated
    <3> HIDE DEF S
    <3> QED
      BY <2>3, <2>5, ElementOfSeq
  <2>7. updated \subseteq updated'
    BY <1>2 DEF Enable
  <2> QED
    BY <1>0, <2>2, <2>3, <2>4, <2>6, <2>7, OnceStep
<1>3. CASE que' = Tail(que) /\ updated' = updated
  <2>1. que' = Tail(que) \o << >>
    BY <1>0, <1>3, ConcatEmptySeq
  <2>2. << >> \in Seq(Blocks) /\ Len(<< >>) = 0
    OBVIOUS
  <2>3. \A i : i \notin 1 .. Len(<< >>)
    BY <2>2
  <2> QED
    BY <1>0, <1>3, <2>1, <2>2, <2>3, OnceStep
<1>4. CASE /\ idom[b] # 0 /\ Awaits(idom[b])
           /\ updated' = updated \cup {idom[b]} /\ que' = Append(Tail(que), idom[b])
  <2>1. idom[b] \in Blocks /\ idom[b] \notin updated
    BY <1>0, <1>4 DEF TypeOK, Blocks, Awaits
  <2> DEFINE r == << idom[b] >>
  <2>2. r \in Seq(Blocks) /\ Len(r) = 1 /\ r[1] = idom[b]
    BY <2>1
  <2>3. que' = Tail(que) \o r
    BY <1>0, <1>4, <2>1, AppendIsConcat
  <2>4. \A i \in 1 .. Len(r) : i = 1
    BY <2>2
  <2> HIDE DEF r
  <2>5. \A i \in 1 .. Len(r) : r[i] \in updated' /\ r[i] \notin updated
    BY <1>4, <2>1, <2>2, <2>4
  <2>6. \A i, j \in 1 .. Len(r) : r[i] = r[j] => i = j
    BY <2>4
  <2> QED
    BY <1>0, <1>4, <2>2, <2>3, <2>5, <2>6, OnceStep
<1> QED
  BY <1>2, <1>3, <1>4 DEF Realign, GoUp, Stop

(***************************************************************************)
(* edge_realignment takes a block up once, however the graph is connected  *)
(* and whatever the solver answers, and a target once for each line that   *)
(* lists it.                                                               *)
(***************************************************************************)
THEOREM TakenUpOnce == Spec => []RealignOnce
<1> DEFINE IInv == TypeOK /\ TargetsInv /\ OnceInv
<1>1. DistInit => IInv
  <2>1. DistInit => OnceInv
    BY DEF DistInit, Init, OnceInv
  <2> QED
    BY <2>1, TypeInit
<1>2. IInv /\ [DistNext]_vars => IInv'
  <2> SUFFICES ASSUME IInv, [DistNext]_vars
               PROVE  OnceInv'
    BY TypeStep
  <2>1. CASE SelectTargets
    <3>1. PICK n \in 1 .. MaxTargets : targets' \in [1 .. n -> branches]
      BY <2>1 DEF SelectTargets
    <3>2. n \in Nat /\ Len(targets') = n /\ DOMAIN targets' = 1 .. n
      BY <3>1, MeasuredAssumption
    <3>3. taken' = << >> /\ que' = targets' /\ updated' = Range(targets')
          /\ phase' = "realign"
      BY <2>1 DEF SelectTargets, OnceInv
    <3>4. que' \in Seq(Blocks)
      BY TypeStep DEF TypeOK
    <3>5. All' = targets'
      BY <3>3, <3>4, ConcatEmptySeq DEF All
    <3>6. \A i \in 1 .. Len(targets') : targets'[i] \in Range(targets')
      BY <3>2 DEF Range
    <3> QED
      BY <3>2, <3>3, <3>5, <3>6 DEF OnceInv, Once, Marked
  <2>2. CASE Realign
    BY <2>2, OnceRealign
  <2>3. CASE UNCHANGED vars
    BY <2>3 DEF vars, OnceInv, Once, Marked, All
  <2>4. CASE Measure
    BY <2>4 DEF Measure, OnceInv
  <2>5. CASE phase # "realign" /\ phase' # "realign" /\ UNCHANGED taken
    BY <2>5 DEF OnceInv
  <2>6. DistNext => \/ SelectTargets \/ Realign \/ Measure
                    \/ phase # "realign" /\ phase' # "realign" /\ UNCHANGED taken
    BY DEF DistNext, Build, Relax, NextTarget, Circular
  <2> QED
    BY <2>1, <2>2, <2>3, <2>4, <2>5, <2>6
<1>3. IInv => RealignOnce
  <2> SUFFICES ASSUME IInv, NEW i \in DOMAIN taken, NEW j \in DOMAIN taken,
                      taken[i] = taken[j], i # j
               PROVE  {i, j} \subseteq DOMAIN targets
    BY DEF RealignOnce
  <2>1. /\ taken \in Seq(Blocks) /\ que \in Seq(Blocks)
        /\ Len(taken) \in Nat /\ Len(que) \in Nat
        /\ DOMAIN taken = 1 .. Len(taken)
        /\ DOMAIN targets = 1 .. Len(targets) /\ Len(targets) \in Nat
    BY LenProperties DEF TypeOK
  <2>2. phase = "realign"
    BY <2>1, EmptySeq DEF OnceInv
  <2>3. /\ Len(All) = Len(taken) + Len(que)
        /\ \A k \in 1 .. Len(taken) : All[k] = taken[k]
    <3>1. \A k \in 1 .. Len(taken) : k \in 1 .. Len(taken) + Len(que)
      BY <2>1
    <3> QED
      BY <2>1, <3>1, ConcatProperties DEF All
  <2>4. i \in 1 .. Len(All) /\ j \in 1 .. Len(All) /\ All[i] = All[j]
    BY <2>1, <2>3
  <2>5. i <= Len(targets) /\ j <= Len(targets)
    BY <2>2, <2>4 DEF OnceInv, Once
  <2> QED
    BY <2>1, <2>5
<1> QED
  BY <1>1, <1>2, <1>3, PTL DEF Spec

=============================================================================
