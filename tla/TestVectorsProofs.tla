------------------------- MODULE TestVectorsProofs -------------------------
(***************************************************************************)
(* Theorems about TestVectors, for all widths of the inputs and all        *)
(* bounds: the positions add_input gives do not overlap, update_input_     *)
(* vectors changes what a model speaks of and nothing else, and by that    *)
(* the vectors implement InputPlan.                                        *)
(***************************************************************************)
EXTENDS TestVectors, SequenceTheorems, Induction

(* The bits of an input in a line, and the width of every input. *)
Place == [lsb : Nat, msb : Nat]

LEMMA WidthsPositive ==
  /\ Len(Widths) \in Nat /\ Len(Widths) > 0
  /\ Obs \in Nat /\ Obs > 1 /\ Obs = Len(Widths) + 1
  /\ Obs \notin Ports
  /\ \A p \in 1 .. Obs : WidthOf(p) \in Nat /\ WidthOf(p) >= 1
  /\ WidthOf(Obs) = 1
<1>1. Len(Widths) \in Nat /\ Len(Widths) > 0
  BY VectorsAssumption, EmptySeq, LenProperties
<1>2. Obs \in Nat /\ Obs > 1 /\ Obs = Len(Widths) + 1 /\ Obs \notin Ports
  BY <1>1 DEF Obs, Ports
<1>3. ASSUME NEW p \in 1 .. Obs
      PROVE  WidthOf(p) \in Nat /\ WidthOf(p) >= 1
  <2>1. CASE p = Obs
    BY <2>1 DEF WidthOf
  <2>2. CASE p # Obs
    <3>1. p \in 1 .. Len(Widths)
      BY <1>1, <2>2 DEF Obs
    <3>2. Widths[p] \in Nat \ {0}
      BY <3>1, VectorsAssumption
    <3> QED
      BY <2>2, <3>2 DEF WidthOf
  <2> QED
    BY <2>1, <2>2
<1> QED
  BY <1>1, <1>2, <1>3 DEF WidthOf

(* add_input gives every input the bits after those of the one before. *)
LEMMA PortsPlaced ==
  /\ in_ports \in [1 .. Obs -> Place]
  /\ in_ports[1].lsb = 0
  /\ \A p \in 1 .. Obs : /\ in_ports[p].msb = in_ports[p].lsb + WidthOf(p) - 1
                         /\ p > 1 => in_ports[p].lsb = in_ports[p - 1].msb + 1
<1> DEFINE N == Len(Widths)
           At(lsb, p) == [lsb |-> lsb, msb |-> lsb + WidthOf(p) - 1]
           base == At(0, 1)
           next == [m \in 1 .. N |-> [w \in Place |-> At(w.msb + 1, m + 1)]]
           Right(h) == h = [p \in 1 .. Obs |->
                              LET lsb == IF p = 1 THEN 0 ELSE h[p - 1].msb + 1
                              IN  [lsb |-> lsb, msb |-> lsb + WidthOf(p) - 1]]
<1>1. N \in Nat /\ Obs = N + 1 /\ Obs \in Nat
  BY WidthsPositive
<1>2. ASSUME NEW lsb \in Nat, NEW p \in 1 .. Obs
      PROVE  At(lsb, p) \in Place
  BY WidthsPositive DEF Place
<1>3. base \in Place
  BY <1>1, <1>2, WidthsPositive
<1>4. next \in StepsOf(N, Place)
  <2>1. ASSUME NEW m \in 1 .. N, NEW w \in Place
        PROVE  At(w.msb + 1, m + 1) \in Place
    <3>1. w.msb + 1 \in Nat /\ m + 1 \in 1 .. Obs
      BY <1>1 DEF Place
    <3> QED
      BY <1>2, <3>1
  <2> HIDE DEF At
  <2> QED
    BY <2>1 DEF StepsOf
<1>5. PICK f \in [0 .. N -> Place] : Follows(f, N, base, next)
  <2> HIDE DEF base, next, N
  <2> QED
    BY <1>1, <1>3, <1>4, Recursion
<1> DEFINE g == [p \in 1 .. Obs |-> f[p - 1]]
<1>6. g \in [1 .. Obs -> Place]
  BY <1>1, <1>5
<1>7. g[1] = At(0, 1)
  BY <1>1, <1>5, WidthsPositive DEF Follows
<1>8. ASSUME NEW p \in 2 .. Obs
      PROVE  g[p] = At(g[p - 1].msb + 1, p)
  <2>1. p - 1 \in 1 .. N /\ p - 1 \in 0 .. N /\ (p - 1) - 1 \in 0 .. N
        /\ p - 1 \in 1 .. Obs /\ p \in 1 .. Obs /\ (p - 1) + 1 = p
    BY <1>1
  <2>2. f[p - 1] = next[p - 1][f[(p - 1) - 1]]
    BY <1>5, <2>1 DEF Follows
  <2>3. f[(p - 1) - 1] \in Place
    BY <1>5, <2>1
  <2>4. next[p - 1][f[(p - 1) - 1]] = At(f[(p - 1) - 1].msb + 1, p)
    <3> HIDE DEF At
    <3> QED
      BY <2>1, <2>3
  <2> QED
    BY <2>1, <2>2, <2>4
<1> HIDE DEF g
<1>9. Right(g)
  <2>1. \A p \in 1 .. Obs : g[p] = LET lsb == IF p = 1 THEN 0 ELSE g[p - 1].msb + 1
                                   IN  [lsb |-> lsb, msb |-> lsb + WidthOf(p) - 1]
    BY <1>7, <1>8
  <2>2. g = [p \in 1 .. Obs |-> g[p]]
    BY <1>6
  <2> QED
    BY <2>1, <2>2
<1>10. add_input = CHOOSE h : Right(h)
  BY DEF add_input
<1>11. Right(add_input)
  <2> HIDE DEF Right
  <2> QED
    BY <1>9, <1>10
<1>12. ASSUME NEW p \in 1 .. Obs
       PROVE  add_input[p] = At(IF p = 1 THEN 0 ELSE add_input[p - 1].msb + 1, p)
  BY <1>11
<1>13. 1 \in 1 .. Obs
  BY WidthsPositive
<1> HIDE DEF Right
<1> DEFINE S == {n \in 0 .. N : add_input[n + 1] \in Place}
<1>14. 0 \in S
  <2>1. add_input[0 + 1] = At(0, 1)
    BY <1>12, <1>13
  <2> QED
    BY <1>1, <1>3, <2>1
<1>15. \A n \in 0 .. N - 1 : n \in S => n + 1 \in S
  <2> SUFFICES ASSUME NEW n \in 0 .. N - 1, add_input[n + 1] \in Place
               PROVE  add_input[(n + 1) + 1] \in Place
    BY <1>1
  <2>1. add_input[n + 1].msb + 1 \in Nat
    BY DEF Place
  <2>2. (n + 1) + 1 \in 1 .. Obs /\ (n + 1) + 1 # 1 /\ ((n + 1) + 1) - 1 = n + 1
    BY <1>1
  <2>3. add_input[(n + 1) + 1] = At(add_input[n + 1].msb + 1, (n + 1) + 1)
    <3> HIDE DEF At
    <3> QED
      BY <1>12, <2>2
  <2> QED
    BY <1>2, <2>1, <2>2, <2>3
<1> HIDE DEF S, N
<1>16. \A n \in 0 .. N : n \in S
  BY <1>1, <1>14, <1>15, UpTo
<1>17. ASSUME NEW p \in 1 .. Obs
       PROVE  add_input[p] \in Place
  <2>1. p - 1 \in 0 .. N /\ (p - 1) + 1 = p
    BY <1>1
  <2>2. p - 1 \in S
    BY <1>16, <2>1
  <2> QED
    BY <2>1, <2>2 DEF S
<1>18. add_input \in [1 .. Obs -> Place]
  <2>1. add_input = [p \in 1 .. Obs |-> add_input[p]]
    BY <1>11 DEF Right
  <2> QED
    BY <1>17, <2>1
<1>19. in_ports = add_input
  BY <1>11 DEF in_ports, Right
<1>20. /\ add_input[1].lsb = 0
       /\ \A p \in 1 .. Obs :
            /\ add_input[p].msb = add_input[p].lsb + WidthOf(p) - 1
            /\ p > 1 => add_input[p].lsb = add_input[p - 1].msb + 1
  BY <1>12, <1>13, <1>18
<1> QED
  BY <1>18, <1>19, <1>20

(* The inputs lie next to each other, and __obs is the leftmost. *)
LEMMA PortsApart ==
  /\ Width \in Nat /\ Width >= 1
  /\ in_ports[Obs].lsb = Width - 1 /\ in_ports[Obs].msb = Width - 1
  /\ \A p \in 1 .. Obs : /\ in_ports[p].lsb \in Nat
                         /\ in_ports[p].msb \in Nat
                         /\ in_ports[p].msb = in_ports[p].lsb + WidthOf(p) - 1
                         /\ in_ports[p].msb < Width
                         /\ \A q \in 1 .. p - 1 :
                              in_ports[q].msb < in_ports[p].lsb
<1>1. \A p \in 1 .. Obs : in_ports[p].lsb \in Nat /\ in_ports[p].msb \in Nat
  BY PortsPlaced DEF Place
<1>2. Obs \in 1 .. Obs /\ 1 \in 1 .. Obs /\ Obs \in Nat
  BY WidthsPositive
<1>3. Width \in Nat /\ Width >= 1 /\ in_ports[Obs].msb = Width - 1
  BY <1>1, <1>2 DEF Width
<1>4. in_ports[Obs].lsb = Width - 1
  BY <1>1, <1>2, <1>3, PortsPlaced, WidthsPositive
<1> DEFINE Apart(p) == \A q \in 1 .. p - 1 : in_ports[q].msb < in_ports[p].lsb
           S == {n \in 0 .. Obs - 1 : Apart(n + 1)}
<1>5. 0 \in S
  BY <1>2
<1>6. \A n \in 0 .. (Obs - 1) - 1 : n \in S => n + 1 \in S
  <2> SUFFICES ASSUME NEW n \in 0 .. (Obs - 1) - 1, Apart(n + 1)
               PROVE  n + 1 \in 0 .. Obs - 1 /\ Apart((n + 1) + 1)
    OBVIOUS
  <2>1. n + 1 \in 1 .. Obs /\ (n + 1) + 1 \in 1 .. Obs
        /\ ((n + 1) + 1) - 1 = n + 1 /\ n + 1 \in 0 .. Obs - 1
        /\ (n + 1) + 1 > 1
    BY <1>2
  <2>2. in_ports[(n + 1) + 1].lsb = in_ports[n + 1].msb + 1
    BY <2>1, PortsPlaced
  <2>3. in_ports[n + 1].lsb <= in_ports[n + 1].msb
    <3>1. /\ WidthOf(n + 1) \in Nat /\ WidthOf(n + 1) >= 1
          /\ in_ports[n + 1].msb = in_ports[n + 1].lsb + WidthOf(n + 1) - 1
          /\ in_ports[n + 1].lsb \in Nat
      BY <1>1, <2>1, PortsPlaced, WidthsPositive
    <3> QED
      BY <3>1
  <2>4. ASSUME NEW q \in 1 .. n + 1
        PROVE  in_ports[q].msb < in_ports[(n + 1) + 1].lsb
    <3>1. q \in 1 .. Obs
      BY <1>2, <2>1
    <3>2. q = n + 1 \/ in_ports[q].msb < in_ports[n + 1].lsb
      <4>1. q = n + 1 \/ q \in 1 .. (n + 1) - 1
        OBVIOUS
      <4> QED
        BY <4>1
    <3> QED
      BY <1>1, <2>1, <2>2, <2>3, <3>1, <3>2
  <2> QED
    BY <2>1, <2>4
<1> HIDE DEF S
<1>7. \A n \in 0 .. Obs - 1 : n \in S
  <2>1. PICK N \in Nat : N = Obs - 1
    BY <1>2, WidthsPositive
  <2>2. \A n \in 0 .. N - 1 : n \in S => n + 1 \in S
    BY <1>6, <2>1
  <2>3. \A n \in 0 .. N : n \in S
    BY <1>5, <2>2, UpTo
  <2> QED
    BY <2>1, <2>3
<1>8. ASSUME NEW p \in 1 .. Obs
      PROVE  Apart(p)
  <2>1. p - 1 \in 0 .. Obs - 1 /\ (p - 1) + 1 = p
    BY <1>2
  <2>2. p - 1 \in S
    BY <1>7, <2>1
  <2> QED
    BY <2>1, <2>2 DEF S
<1>9. ASSUME NEW p \in 1 .. Obs
      PROVE  in_ports[p].msb < Width
  <2>1. p = Obs \/ p \in 1 .. Obs - 1
    BY <1>2
  <2>2. p \in 1 .. Obs - 1 => in_ports[p].msb < in_ports[Obs].lsb
    BY <1>2, <1>8
  <2> QED
    BY <1>1, <1>3, <1>4, <2>1, <2>2
<1> QED
  BY <1>1, <1>3, <1>4, <1>8, <1>9, PortsPlaced

-----------------------------------------------------------------------------
(***************************************************************************)
(* What a line drives, and what is left of it after a correction.          *)
(***************************************************************************)
Line == [1 .. Width -> Bit]

LEMMA DrivenTyped ==
  ASSUME NEW line \in Line, NEW p \in 1 .. Obs
  PROVE  /\ Driven(line, p) \in Seq(Bit)
         /\ Len(Driven(line, p)) = WidthOf(p)
         /\ \A i \in 1 .. WidthOf(p) :
              /\ Width - in_ports[p].msb - 1 + i \in 1 .. Width
              /\ Driven(line, p)[i] = line[Width - in_ports[p].msb - 1 + i]
<1> DEFINE m == Width - in_ports[p].msb
           n == Width - in_ports[p].lsb
<1>1. /\ in_ports[p].lsb \in Nat /\ in_ports[p].msb \in Nat /\ Width \in Nat
      /\ in_ports[p].msb = in_ports[p].lsb + WidthOf(p) - 1
      /\ in_ports[p].msb < Width
  BY PortsApart
<1>2. WidthOf(p) \in Nat /\ WidthOf(p) >= 1
  BY WidthsPositive
<1>3. /\ m \in Int /\ n \in Int /\ m <= n /\ n - m + 1 = WidthOf(p)
      /\ m >= 1 /\ n <= Width
      /\ \A i \in 1 .. WidthOf(p) : m + i - 1 = m - 1 + i /\ m - 1 + i \in 1 .. Width
  BY <1>1, <1>2
<1>5. Driven(line, p) = SubSeq(line, m, n)
  BY DEF Driven
<1> HIDE DEF m, n
<1>4. \A i \in m .. n : line[i] \in Bit
  <2>1. \A i \in m .. n : i \in 1 .. Width
    BY <1>1, <1>3
  <2> QED
    BY <2>1 DEF Line
<1>6. /\ SubSeq(line, m, n) \in Seq(Bit)
      /\ Len(SubSeq(line, m, n)) = WidthOf(p)
      /\ \A i \in 1 .. WidthOf(p) : SubSeq(line, m, n)[i] = line[m + i - 1]
  BY <1>3, <1>4, SubSeqProperties
<1> QED
  BY <1>3, <1>5, <1>6 DEF m

(* Two lines that have the same bits where an input lies drive it alike. *)
LEMMA DrivenAlike ==
  ASSUME NEW line \in Line, NEW p \in 1 .. Obs, NEW bits \in Seq(Bit),
         Len(bits) = WidthOf(p),
         \A i \in 1 .. WidthOf(p) :
           bits[i] = line[Width - in_ports[p].msb - 1 + i]
  PROVE  Driven(line, p) = bits
<1>1. /\ Driven(line, p) \in Seq(Bit)
      /\ Len(Driven(line, p)) = Len(bits)
      /\ \A i \in 1 .. Len(Driven(line, p)) : Driven(line, p)[i] = bits[i]
  BY DrivenTyped
<1> HIDE DEF Driven
<1> QED
  BY <1>1, SeqEqual

(* Bits of inputs that do not overlap are at different places of a line. *)
LEMMA BitsApart ==
  ASSUME NEW width \in Nat, NEW lp \in Nat, NEW mp \in Nat,
         NEW lq \in Nat, NEW mq \in Nat, mq < lp \/ mp < lq,
         NEW i \in 1 .. mq - lq + 1
  PROVE  ((width - mq - 1) + i) - (width - mp - 1) \notin 1 .. mp - lp + 1
  OBVIOUS

(* The corrected input is driven with the value, every other as before. *)
LEMMA ModifyOne ==
  ASSUME NEW line \in Line, NEW p \in 1 .. Obs,
         NEW value \in [1 .. WidthOf(p) -> Bit]
  PROVE  /\ Modify(line, p, value) \in Line
         /\ Driven(Modify(line, p, value), p) = value
         /\ \A q \in (1 .. Obs) \ {p} :
              Driven(Modify(line, p, value), q) = Driven(line, q)
<1> DEFINE before(q) == Width - in_ports[q].msb - 1
<1>1. \A q \in 1 .. Obs :
        /\ in_ports[q].lsb \in Nat /\ in_ports[q].msb \in Nat
        /\ in_ports[q].msb = in_ports[q].lsb + WidthOf(q) - 1
        /\ in_ports[q].msb < Width
        /\ WidthOf(q) \in Nat
  BY PortsApart, WidthsPositive
<1>2. Width \in Nat
  BY PortsApart
<1>3. PICK new : new = Modify(line, p, value)
  OBVIOUS
<1>4. new = [i \in 1 .. Width |->
               IF i - before(p) \in 1 .. WidthOf(p)
               THEN value[i - before(p)] ELSE line[i]]
  BY <1>3 DEF Modify
<1>5. before(p) \in Int
  BY <1>1, <1>2
<1>6. new \in Line
  BY <1>4 DEF Line
<1>7. value \in Seq(Bit) /\ Len(value) = WidthOf(p)
  <2>1. value \in Seq(Bit)
    BY <1>1, SeqDef
  <2>2. DOMAIN value = 1 .. Len(value) /\ Len(value) \in Nat
    BY <2>1, LenProperties
  <2> QED
    BY <1>1, <2>1, <2>2
<1>8. Driven(new, p) = value
  <2>1. ASSUME NEW i \in 1 .. WidthOf(p)
        PROVE  value[i] = new[before(p) + i]
    <3>1. before(p) + i \in 1 .. Width
      BY <1>6, DrivenTyped
    <3>2. (before(p) + i) - before(p) = i
      BY <1>1, <1>5
    <3> QED
      BY <1>4, <3>1, <3>2
  <2> QED
    BY <1>6, <1>7, <2>1, DrivenAlike
<1>9. ASSUME NEW q \in (1 .. Obs) \ {p}
      PROVE  Driven(new, q) = Driven(line, q)
  <2>1. PICK bits : bits = Driven(line, q)
    OBVIOUS
  <2>2. /\ bits \in Seq(Bit) /\ Len(bits) = WidthOf(q)
        /\ \A i \in 1 .. WidthOf(q) : /\ before(q) + i \in 1 .. Width
                                      /\ bits[i] = line[before(q) + i]
    BY <2>1, DrivenTyped
  <2>3. ASSUME NEW i \in 1 .. WidthOf(q)
        PROVE  bits[i] = new[before(q) + i]
    <3>1. in_ports[q].msb < in_ports[p].lsb \/ in_ports[p].msb < in_ports[q].lsb
      <4>1. q \in 1 .. p - 1 \/ p \in 1 .. q - 1
        BY WidthsPositive
      <4> QED
        BY <4>1, PortsApart
    <3>2. /\ in_ports[p].lsb \in Nat /\ in_ports[p].msb \in Nat
          /\ WidthOf(p) = in_ports[p].msb - in_ports[p].lsb + 1
      <4>1. /\ in_ports[p].lsb \in Nat /\ in_ports[p].msb \in Nat
            /\ in_ports[p].msb = in_ports[p].lsb + WidthOf(p) - 1
            /\ WidthOf(p) \in Nat
        BY <1>1
      <4> QED
        BY <4>1
    <3>3. /\ in_ports[q].lsb \in Nat /\ in_ports[q].msb \in Nat
          /\ WidthOf(q) = in_ports[q].msb - in_ports[q].lsb + 1
      BY <1>1
    <3>4. i \in 1 .. in_ports[q].msb - in_ports[q].lsb + 1
      BY <3>3
    <3>5. (before(q) + i) - before(p) \notin 1 .. WidthOf(p)
      BY <1>2, <3>1, <3>2, <3>3, <3>4, BitsApart
    <3> QED
      BY <1>4, <2>2, <3>5
  <2>4. Driven(new, q) = bits
    BY <1>6, <2>2, <2>3, DrivenAlike
  <2> QED
    BY <2>1, <2>4
<1> QED
  BY <1>3, <1>6, <1>8, <1>9

-----------------------------------------------------------------------------
(* A model says at most one value of an input in a clock. *)
LEMMA ModelTyped ==
  ASSUME NEW said \in Models
  PROVE  /\ Len(said) \in Nat
         /\ DOMAIN said = 1 .. Len(said)
         /\ \A i \in 1 .. Len(said) :
              said[i].port \in Ports =>
                /\ said[i].clock \in Nat
                /\ said[i].value \in [1 .. WidthOf(said[i].port) -> Bit]
         /\ \A i, j \in 1 .. Len(said) :
              said[i].port = said[j].port /\ said[i].clock = said[j].clock
                => i = j
<1>1. PICK n \in 0 .. MaxSaid : said \in [1 .. n -> Entry]
  BY DEF Models
<1>2. n \in Nat
  BY VectorsAssumption
<1>3. said \in Seq(Entry)
  BY <1>1, <1>2, SeqDef
<1>4. Len(said) \in Nat /\ DOMAIN said = 1 .. Len(said)
  BY <1>3, LenProperties
<1>5. ASSUME NEW i \in 1 .. Len(said), said[i].port \in Ports
      PROVE  /\ said[i].clock \in Nat
             /\ said[i].value \in [1 .. WidthOf(said[i].port) -> Bit]
  <2>1. said[i] \in Entry
    BY <1>3, <1>5
  <2>2. 0 \notin Ports
    BY DEF Ports
  <2> DEFINE Of(p) == [port : {p}, clock : 0 .. MaxClk + 1,
                       value : [1 .. WidthOf(p) -> Bit]]
             Spoken == UNION {Of(p) : p \in Ports}
             Other == {[port |-> 0, clock |-> 1, value |-> << 1 >>]}
  <2>3. Entry = Spoken \cup Other
    BY DEF Entry
  <2>4. ASSUME NEW p \in Ports, said[i] \in Of(p)
        PROVE  /\ said[i].port = p
               /\ said[i].clock \in Nat
               /\ said[i].value \in [1 .. WidthOf(p) -> Bit]
    BY <2>4
  <2>5. said[i] \notin Other
    BY <1>5, <2>2
  <2> HIDE DEF Of, Other
  <2>6. said[i] \in Spoken
    <3> HIDE DEF Spoken
    <3> QED
      BY <2>1, <2>3, <2>5
  <2>7. PICK p \in Ports : said[i] \in Of(p)
    BY <2>6
  <2> QED
    BY <2>4, <2>7
<1>6. ASSUME NEW i \in 1 .. Len(said), NEW j \in 1 .. Len(said),
             said[i].port = said[j].port, said[i].clock = said[j].clock,
             i # j
      PROVE  FALSE
  <2>1. \A a, b \in DOMAIN said : a < b =>
          << said[a].port, said[a].clock >> # << said[b].port, said[b].clock >>
    BY DEF Models
  <2>2. i < j \/ j < i
    BY <1>4, <1>6
  <2> QED
    BY <1>4, <1>6, <2>1, <2>2
<1> QED
  BY <1>4, <1>5, <1>6

(***************************************************************************)
(* After a correction an input of the design is driven with what the model *)
(* says of it, and where it says nothing with what it was; __obs, of which *)
(* no model speaks, stays.                                                 *)
(***************************************************************************)
Rows(n) == {l \in Seq(Line) : Len(l) = n}

Speaks(e, p, c) == e.port = p /\ e.clock = c

CorrectedBy(old, new, said, n) ==
  \A c \in 1 .. Len(old), p \in 1 .. Obs :
    /\ \A i \in 1 .. n : p \in Ports /\ Speaks(said[i], p, c)
                           => Driven(new[c], p) = said[i].value
    /\ (\A i \in 1 .. n : ~ (p \in Ports /\ Speaks(said[i], p, c)))
         => Driven(new[c], p) = Driven(old[c], p)

(* One line of model.log. *)
PutOne(l, e, limit) ==
  IF e.port \in Ports /\ e.clock # 0 /\ e.clock <= limit
  THEN [l EXCEPT ![e.clock] = Modify(@, e.port, e.value)]
  ELSE l

LEMMA PutTyped ==
  ASSUME NEW said \in Models, NEW i \in 1 .. Len(said),
         NEW limit \in Nat, NEW l \in Rows(limit)
  PROVE  PutOne(l, said[i], limit) \in Rows(limit)
<1>1. CASE said[i].port \in Ports /\ said[i].clock # 0
           /\ said[i].clock <= limit
  <2>1. /\ said[i].clock \in 1 .. Len(l) /\ l \in Seq(Line)
        /\ Len(l) = limit
    BY <1>1, ModelTyped DEF Rows
  <2>2. said[i].port \in 1 .. Obs
    BY <1>1, WidthsPositive DEF Ports
  <2>3. Modify(l[said[i].clock], said[i].port, said[i].value) \in Line
    BY <1>1, <2>1, <2>2, ModelTyped, ModifyOne
  <2>4. PICK x \in Line :
          x = Modify(l[said[i].clock], said[i].port, said[i].value)
    BY <2>3
  <2>5. PutOne(l, said[i], limit) = [l EXCEPT ![said[i].clock] = x]
    BY <1>1, <2>4 DEF PutOne
  <2>6. /\ [l EXCEPT ![said[i].clock] = x] \in Seq(Line)
        /\ Len([l EXCEPT ![said[i].clock] = x]) = limit
    BY <2>1, ExceptSeq
  <2> QED
    BY <2>5, <2>6 DEF Rows
<1>2. CASE ~ (said[i].port \in Ports /\ said[i].clock # 0
              /\ said[i].clock <= limit)
  BY <1>2 DEF PutOne
<1> QED
  BY <1>1, <1>2

LEMMA PutCorrects ==
  ASSUME NEW said \in Models, NEW n \in Nat, n + 1 \in 1 .. Len(said),
         NEW limit \in Nat, NEW old \in Rows(limit), NEW new \in Rows(limit),
         CorrectedBy(old, new, said, n)
  PROVE  CorrectedBy(old, PutOne(new, said[n + 1], limit), said, n + 1)
<1>1. PICK e : e = said[n + 1]
  OBVIOUS
<1>2. PICK after : after = PutOne(new, e, limit)
  OBVIOUS
<1>3. /\ Len(old) = limit /\ Len(new) = limit /\ Len(said) \in Nat
      /\ new \in Seq(Line)
  BY ModelTyped DEF Rows
<1>4. e.port \in Ports =>
        /\ e.clock \in Nat /\ e.port \in 1 .. Obs
        /\ e.value \in [1 .. WidthOf(e.port) -> Bit]
  BY <1>1, ModelTyped, WidthsPositive DEF Ports
<1>5. ASSUME NEW c \in 1 .. limit, NEW p \in 1 .. Obs
      PROVE  /\ p \in Ports /\ Speaks(e, p, c) => Driven(after[c], p) = e.value
             /\ ~ (p \in Ports /\ Speaks(e, p, c))
                  => Driven(after[c], p) = Driven(new[c], p)
  <2>1. new[c] \in Line
    BY <1>3
  <2>2. CASE e.port \in Ports /\ e.clock = c
    <3>1. c # 0 /\ c <= limit /\ c \in DOMAIN new
      BY <1>3
    <3>2. after[c] = Modify(new[c], e.port, e.value)
      BY <1>2, <2>2, <3>1 DEF PutOne
    <3>3. /\ Driven(after[c], e.port) = e.value
          /\ p # e.port => Driven(after[c], p) = Driven(new[c], p)
      BY <1>4, <2>1, <2>2, <3>2, ModifyOne
    <3> QED
      BY <2>2, <3>3 DEF Speaks
  <2>3. CASE ~ (e.port \in Ports /\ e.clock = c)
    <3>1. after[c] = new[c]
      BY <1>2, <1>3, <2>3 DEF PutOne
    <3> QED
      BY <2>3, <3>1 DEF Speaks
  <2> QED
    BY <2>2, <2>3
<1>6. ASSUME NEW c \in 1 .. limit, NEW p \in 1 .. Obs
      PROVE  /\ \A i \in 1 .. n + 1 :
                  p \in Ports /\ Speaks(said[i], p, c)
                    => Driven(after[c], p) = said[i].value
             /\ (\A i \in 1 .. n + 1 : ~ (p \in Ports /\ Speaks(said[i], p, c)))
                  => Driven(after[c], p) = Driven(old[c], p)
  <2>1. ASSUME NEW i \in 1 .. n + 1, p \in Ports, Speaks(said[i], p, c)
        PROVE  Driven(after[c], p) = said[i].value
    <3>1. CASE i = n + 1
      BY <1>1, <1>5, <2>1, <3>1
    <3>2. CASE i \in 1 .. n
      <4>1. i \in 1 .. Len(said) /\ i # n + 1
        BY <1>3, <3>2
      <4>2. ~ Speaks(e, p, c)
        BY <1>1, <2>1, <4>1, ModelTyped DEF Speaks
      <4>3. Driven(new[c], p) = said[i].value
        BY <1>3, <2>1, <3>2 DEF CorrectedBy
      <4> QED
        BY <1>5, <4>2, <4>3
    <3> QED
      BY <3>1, <3>2
  <2>2. ASSUME \A i \in 1 .. n + 1 : ~ (p \in Ports /\ Speaks(said[i], p, c))
        PROVE  Driven(after[c], p) = Driven(old[c], p)
    <3>1. \A i \in 1 .. n : i \in 1 .. n + 1
      OBVIOUS
    <3>2. n + 1 \in 1 .. n + 1
      OBVIOUS
    <3>3. Driven(new[c], p) = Driven(old[c], p)
      BY <1>3, <2>2, <3>1 DEF CorrectedBy
    <3>4. ~ (p \in Ports /\ Speaks(e, p, c))
      BY <1>1, <2>2, <3>2
    <3> QED
      BY <1>5, <3>3, <3>4
  <2> QED
    BY <2>1, <2>2
<1> QED
  BY <1>1, <1>2, <1>3, <1>6 DEF CorrectedBy

LEMMA UpdateCorrects ==
  ASSUME NEW said \in Models, NEW limit \in Nat, NEW lines \in Rows(limit)
  PROVE  /\ Update(lines, said, limit) \in Rows(limit)
         /\ CorrectedBy(lines, Update(lines, said, limit), said, Len(said))
<1> DEFINE N == Len(said)
           V == Rows(limit)
           next == [m \in 1 .. N |-> [l \in V |-> PutOne(l, said[m], limit)]]
           Right(h) == h = [n \in 0 .. Len(said) |->
                              IF n = 0 THEN lines
                              ELSE LET e == said[n]
                                   IN  IF e.port \in Ports /\ e.clock # 0
                                          /\ e.clock <= limit
                                       THEN [h[n - 1] EXCEPT ![e.clock] =
                                               Modify(@, e.port, e.value)]
                                       ELSE h[n - 1]]
           put == CHOOSE h : Right(h)
<1>1. N \in Nat
  BY ModelTyped
<1>2. \A m \in 1 .. N, l \in V : PutOne(l, said[m], limit) \in V
  BY PutTyped
<1> HIDE DEF V
<1>3. next \in StepsOf(N, V)
  <2> HIDE DEF N
  <2> QED
    BY <1>2 DEF StepsOf
<1>4. lines \in V
  BY DEF V
<1>5. PICK f \in [0 .. N -> V] : Follows(f, N, lines, next)
  <2> HIDE DEF next, N
  <2> QED
    BY <1>1, <1>3, <1>4, Recursion
<1>6. ASSUME NEW m \in 1 .. N
      PROVE  f[m] = PutOne(f[m - 1], said[m], limit)
  <2>1. f[m - 1] \in V
    BY <1>1
  <2>2. f[m] = next[m][f[m - 1]]
    BY <1>5 DEF Follows
  <2> HIDE DEF PutOne
  <2> QED
    BY <2>1, <2>2
<1>7. f[0] = lines
  BY <1>5 DEF Follows
<1>8. Right(f)
  <2>1. \A n \in 0 .. N : f[n] = IF n = 0 THEN lines
                                ELSE PutOne(f[n - 1], said[n], limit)
    BY <1>1, <1>6, <1>7
  <2>2. f = [n \in 0 .. N |-> f[n]]
    OBVIOUS
  <2>3. f = [n \in 0 .. N |-> IF n = 0 THEN lines
                             ELSE PutOne(f[n - 1], said[n], limit)]
    BY <2>1, <2>2
  <2> QED
    BY <2>3 DEF PutOne
<1>9. Right(put)
  <2> HIDE DEF Right
  <2> QED
    BY <1>8
<1>10. Update(lines, said, limit) = put[N]
  BY DEF Update
<1> HIDE DEF put
<1>11. put[0] = lines /\ \A n \in 1 .. N : put[n] = PutOne(put[n - 1], said[n], limit)
  <2>1. put = [n \in 0 .. N |-> IF n = 0 THEN lines
                               ELSE PutOne(put[n - 1], said[n], limit)]
    BY <1>9 DEF PutOne
  <2>2. 0 \in 0 .. N /\ \A n \in 1 .. N : n \in 0 .. N /\ n # 0
    BY <1>1
  <2> HIDE DEF N
  <2> QED
    BY <2>1, <2>2
<1> HIDE DEF Right, N, next
<1> DEFINE S == {n \in 0 .. N : /\ put[n] \in V
                               /\ CorrectedBy(lines, put[n], said, n)}
<1>12. 0 \in S
  <2>1. CorrectedBy(lines, lines, said, 0)
    BY DEF CorrectedBy
  <2> QED
    BY <1>1, <1>4, <1>11, <2>1
<1>13. \A n \in 0 .. N - 1 : n \in S => n + 1 \in S
  <2> SUFFICES ASSUME NEW n \in 0 .. N - 1,
                      put[n] \in V, CorrectedBy(lines, put[n], said, n)
               PROVE  /\ n + 1 \in 0 .. N
                      /\ put[n + 1] \in V
                      /\ CorrectedBy(lines, put[n + 1], said, n + 1)
    OBVIOUS
  <2>1. n \in Nat /\ n + 1 \in 1 .. N /\ n + 1 \in 0 .. N /\ (n + 1) - 1 = n
    BY <1>1
  <2>2. put[n + 1] = PutOne(put[n], said[n + 1], limit)
    BY <1>11, <2>1
  <2>3. CorrectedBy(lines, PutOne(put[n], said[n + 1], limit), said, n + 1)
    BY <2>1, PutCorrects DEF V, N
  <2> QED
    BY <1>2, <2>1, <2>2, <2>3
<1> HIDE DEF S
<1>14. \A n \in 0 .. N : n \in S
  BY <1>1, <1>12, <1>13, UpTo
<1>15. N \in S
  BY <1>1, <1>14
<1> QED
  BY <1>10, <1>15 DEF S, V, N

(* One value of an input in a clock, or none. *)
LEMMA UpdateSays ==
  ASSUME NEW said \in Models, NEW limit \in Nat, NEW lines \in Rows(limit),
         NEW c \in 1 .. limit, NEW p \in Ports
  PROVE  Driven(Update(lines, said, limit)[c], p) =
           IF Plan!Said(said, p, c) = {} THEN Driven(lines[c], p)
           ELSE (CHOOSE e \in Plan!Said(said, p, c) : TRUE).value
<1>1. PICK new : new = Update(lines, said, limit)
  OBVIOUS
<1>2. CorrectedBy(lines, new, said, Len(said)) /\ Len(lines) = limit
  BY <1>1, UpdateCorrects DEF Rows
<1>3. p \in 1 .. Obs
  BY WidthsPositive DEF Ports
<1>4. PICK T : T = Plan!Said(said, p, c)
  OBVIOUS
<1>5. \A e : e \in T <=> \E i \in 1 .. Len(said) :
                           said[i] = e /\ Speaks(said[i], p, c)
  BY <1>4, ModelTyped DEF Plan!Said, Speaks
<1>6. CASE T = {}
  BY <1>1, <1>2, <1>3, <1>4, <1>5, <1>6 DEF CorrectedBy
<1>7. CASE T # {}
  <2>1. PICK e : e = CHOOSE x \in T : TRUE
    OBVIOUS
  <2>2. e \in T
    BY <1>7, <2>1
  <2>3. Driven(new[c], p) = e.value
    BY <1>2, <1>3, <1>5, <2>2 DEF CorrectedBy
  <2> QED
    BY <1>1, <1>4, <1>7, <2>1, <2>3
<1> QED
  BY <1>6, <1>7

(* No model speaks of __obs. *)
LEMMA UpdateKeepsObs ==
  ASSUME NEW said \in Models, NEW limit \in Nat, NEW lines \in Rows(limit),
         NEW c \in 1 .. limit
  PROVE  Driven(Update(lines, said, limit)[c], Obs) = Driven(lines[c], Obs)
<1>1. PICK new : new = Update(lines, said, limit)
  OBVIOUS
<1>2. CorrectedBy(lines, new, said, Len(said)) /\ Len(lines) = limit
  BY <1>1, UpdateCorrects DEF Rows
<1>3. Obs \in 1 .. Obs /\ Obs \notin Ports
  BY WidthsPositive
<1>4. Driven(new[c], Obs) = Driven(lines[c], Obs)
  BY <1>2, <1>3 DEF CorrectedBy
<1> QED
  BY <1>1, <1>4

-----------------------------------------------------------------------------
(* The bit of __obs is the leftmost of a line. *)
LEMMA ObsIsFirst ==
  ASSUME NEW line \in Line
  PROVE  Driven(line, Obs) = << line[1] >> /\ line[1] \in Bit
<1>1. /\ Obs \in 1 .. Obs /\ WidthOf(Obs) = 1
      /\ Width \in Nat /\ Width >= 1 /\ in_ports[Obs].msb = Width - 1
  BY WidthsPositive, PortsApart
<1>2. 1 \in 1 .. Width /\ Width - in_ports[Obs].msb - 1 + 1 = 1
  BY <1>1
<1>3. line[1] \in Bit
  BY <1>2 DEF Line
<1>4. << line[1] >> \in Seq(Bit) /\ Len(<< line[1] >>) = 1
      /\ << line[1] >>[1] = line[1]
  BY <1>3
<1>5. PICK bits : bits = << line[1] >>
  OBVIOUS
<1>6. \A i \in 1 .. WidthOf(Obs) :
        bits[i] = line[Width - in_ports[Obs].msb - 1 + i]
  BY <1>1, <1>2, <1>4, <1>5
<1>7. Driven(line, Obs) = bits
  BY <1>1, <1>4, <1>5, <1>6, DrivenAlike
<1> QED
  BY <1>3, <1>5, <1>7

(* generate makes lines of their type, in which __obs is 0 and 1 by turns. *)
LEMMA GeneratedLines ==
  ASSUME NEW new \in Generated
  PROVE  /\ new.lines \in Seq(Line) /\ Len(new.lines) = Step /\ new.clk = Step
         /\ \A k \in 1 .. Step :
              Driven(new.lines[k], Obs) = << (k - 1) % 2 >>
         /\ new \in Data
<1>1. PICK bits \in [1 .. Step -> [1 .. Width -> Bit]] :
        new = [lines |-> Padded(bits), clk |-> Step]
  BY RandomAssumption DEF Generated
<1>2. Width \in Nat /\ Width >= 1 /\ Step \in Nat
  BY PortsApart, VectorsAssumption
<1>3. \A k \in 1 .. Step : bits[k] \in Line
  BY <1>1, RandomAssumption DEF Line
<1>4. new.lines = [k \in 1 .. Step |-> [bits[k] EXCEPT ![1] = (k - 1) % 2]]
      /\ new.clk = Step
  BY <1>1 DEF Padded
<1>5. ASSUME NEW k \in 1 .. Step
      PROVE  new.lines[k] \in Line /\ new.lines[k][1] = (k - 1) % 2
  <2>1. (k - 1) % 2 \in Bit
    BY <1>2 DEF Bit
  <2>2. new.lines[k] = [bits[k] EXCEPT ![1] = (k - 1) % 2]
    BY <1>4
  <2>3. bits[k] \in [1 .. Width -> Bit] /\ 1 \in 1 .. Width
    BY <1>2, <1>3 DEF Line
  <2>4. PICK b : b = (k - 1) % 2
    OBVIOUS
  <2>5. [bits[k] EXCEPT ![1] = b] \in [1 .. Width -> Bit]
        /\ [bits[k] EXCEPT ![1] = b][1] = b
    BY <2>1, <2>3, <2>4
  <2> QED
    BY <2>2, <2>4, <2>5 DEF Line
<1>6. new.lines \in [1 .. Step -> Line]
  BY <1>4, <1>5
<1>7. new.lines \in Seq(Line)
  BY <1>2, <1>6, SeqDef
<1>8. Len(new.lines) = Step
  <2>1. DOMAIN new.lines = 1 .. Len(new.lines) /\ Len(new.lines) \in Nat
    BY <1>7, LenProperties
  <2>2. DOMAIN new.lines = 1 .. Step
    BY <1>6
  <2> QED
    BY <1>2, <2>1, <2>2
<1>9. \A k \in 1 .. Step : Driven(new.lines[k], Obs) = << (k - 1) % 2 >>
  BY <1>5, ObsIsFirst
<1>10. new \in Data
  BY <1>1, <1>2, <1>4, <1>7 DEF Data, Lines, Line
<1> QED
  BY <1>4, <1>7, <1>8, <1>9, <1>10

LEMMA BeforeEven ==
  ASSUME NEW n \in Nat, n >= 1, n % 2 = 0
  PROVE  (n - 1) % 2 = 1
  OBVIOUS

(* Where __obs repeats in lines l there is a cut. *)
Alternates(l, cs) ==
  \A c \in 1 .. Len(l) - 1 :
    Driven(l[c], Obs) = Driven(l[c + 1], Obs) => c \in cs

LEMMA ConnectAlternates ==
  ASSUME NEW l \in Seq(Line), NEW new \in Generated, NEW cs,
         Alternates(l, cs),
         Len(l) \in cs \/ Len(l) = 0 \/ Driven(l[Len(l)], Obs) = << 1 >>
  PROVE  /\ l \o new.lines \in Seq(Line)
         /\ Len(l \o new.lines) = Len(l) + Step
         /\ Alternates(l \o new.lines, cs)
         /\ Driven((l \o new.lines)[Len(l) + Step], Obs) = << 1 >>
<1>1. /\ new.lines \in Seq(Line) /\ Len(new.lines) = Step
      /\ \A k \in 1 .. Step : Driven(new.lines[k], Obs) = << (k - 1) % 2 >>
      /\ Step \in Nat /\ Step >= 1 /\ Step % 2 = 0
      /\ Len(l) \in Nat
  <2>1. Step \in Nat /\ Step >= 1 /\ Step % 2 = 0
    BY VectorsAssumption
  <2>2. Len(l) \in Nat
    BY LenProperties
  <2> QED
    BY <2>1, <2>2, GeneratedLines
<1>2. PICK all : all = l \o new.lines
  OBVIOUS
<1>3. /\ all \in Seq(Line) /\ Len(all) = Len(l) + Step
      /\ \A i \in 1 .. Len(l) + Step :
           all[i] = IF i <= Len(l) THEN l[i] ELSE new.lines[i - Len(l)]
  BY <1>1, <1>2, ConcatProperties
<1>4. \A i \in 1 .. Len(l) : all[i] = l[i]
  BY <1>1, <1>3
<1>5. ASSUME NEW k \in 1 .. Step
      PROVE  Driven(all[Len(l) + k], Obs) = << (k - 1) % 2 >>
  <2>1. Len(l) + k \in 1 .. Len(l) + Step /\ ~ (Len(l) + k <= Len(l))
        /\ (Len(l) + k) - Len(l) = k
    BY <1>1
  <2>2. all[Len(l) + k] = new.lines[k]
    BY <1>3, <2>1
  <2> QED
    BY <1>1, <2>2
<1>6. ASSUME NEW c \in 1 .. Len(all) - 1,
             Driven(all[c], Obs) = Driven(all[c + 1], Obs)
      PROVE  c \in cs
  <2>1. CASE c \in 1 .. Len(l) - 1
    <3>1. c \in 1 .. Len(l) /\ c + 1 \in 1 .. Len(l)
      BY <1>1, <2>1
    <3> QED
      BY <1>4, <1>6, <2>1, <3>1 DEF Alternates
  <2>2. CASE c = Len(l)
    <3>1. c \in 1 .. Len(l) /\ all[c] = l[c] /\ 1 \in 1 .. Step
      BY <1>1, <1>4, <2>2
    <3>2. Driven(all[c + 1], Obs) = << (1 - 1) % 2 >>
      BY <1>5, <2>2, <3>1
    <3>3. (1 - 1) % 2 = 0
      OBVIOUS
    <3>4. << 0 >> # << 1 >>
      OBVIOUS
    <3> QED
      BY <1>1, <1>6, <2>2, <3>1, <3>2, <3>3, <3>4
  <2>3. CASE c > Len(l)
    <3>1. PICK k \in Nat : k = c - Len(l)
      <4>1. c \in Nat
        BY <1>1, <1>3
      <4>2. c - Len(l) \in Nat
        BY <1>1, <2>3, <4>1
      <4> QED
        BY <4>2
    <3>2. k \in 1 .. Step /\ k + 1 \in 1 .. Step /\ c = Len(l) + k
          /\ c + 1 = Len(l) + (k + 1)
      BY <1>1, <1>3, <2>3, <3>1
    <3>3. << (k - 1) % 2 >> = << ((k + 1) - 1) % 2 >>
      BY <1>5, <1>6, <3>2
    <3>4. (k - 1) % 2 = ((k + 1) - 1) % 2
      BY <3>3
    <3>5. (k - 1) % 2 # ((k + 1) - 1) % 2
      BY <3>2
    <3> QED
      BY <3>4, <3>5
  <2> QED
    BY <1>1, <1>3, <2>1, <2>2, <2>3
<1>7. Driven(all[Len(l) + Step], Obs) = << 1 >>
  <2>1. Step \in 1 .. Step
    BY <1>1
  <2>2. (Step - 1) % 2 = 1
    BY <1>1, BeforeEven
  <2> QED
    BY <1>5, <2>1, <2>2
<1> QED
  BY <1>2, <1>3, <1>6, <1>7 DEF Alternates

(* A cut and the corrections leave __obs as it was in the clocks kept. *)
LEMMA CutLines ==
  ASSUME NEW data \in Data, Len(data.lines) = data.clk,
         NEW clock \in 1 .. data.clk
  PROVE  /\ Intercept(data, clock).lines \in Rows(clock)
         /\ Intercept(data, clock).clk = clock
         /\ Intercept(data, clock) \in Data
         /\ \A c \in 1 .. clock : Intercept(data, clock).lines[c] = data.lines[c]
<1>1. data.lines \in Seq(Line) /\ data.clk \in Nat
  BY DEF Data, Lines, Line
<1>2. Min({clock, Len(data.lines)}) = clock
  BY <1>1 DEF Min
<1>3. Intercept(data, clock) =
        [lines |-> SubSeq(data.lines, 1, clock), clk |-> clock]
  BY <1>2 DEF Intercept
<1>4. \A i \in 1 .. clock : data.lines[i] \in Line
  <2>1. \A i \in 1 .. clock : i \in 1 .. Len(data.lines)
    BY <1>1
  <2> QED
    BY <1>1, <2>1
<1>5. /\ SubSeq(data.lines, 1, clock) \in Seq(Line)
      /\ Len(SubSeq(data.lines, 1, clock)) = clock
      /\ \A i \in 1 .. clock : SubSeq(data.lines, 1, clock)[i] = data.lines[i]
  <2>1. 1 \in Int /\ clock \in Int /\ 1 <= clock /\ clock - 1 + 1 = clock
        /\ \A i \in 1 .. clock : 1 + i - 1 = i
    BY <1>1
  <2> QED
    BY <1>4, <2>1, SubSeqProperties
<1> QED
  BY <1>1, <1>3, <1>5 DEF Rows, Data, Lines, Line

-----------------------------------------------------------------------------
(***************************************************************************)
(* A path ends with __obs at 1, unless it was cut there, so that what is   *)
(* put after it, which begins with 0, goes on alternating.                 *)
(***************************************************************************)
LastObs == path.clk \notin cuts => Driven(ram[Len(ram)], Obs) = << 1 >>

(* A path of a random simulation, however long it was made: it was never   *)
(* cut.                                                                    *)
Uncut(data) ==
  /\ data \in Data /\ data.clk = Len(data.lines) /\ data.clk >= 1
  /\ Alternates(data.lines, {})
  /\ Driven(data.lines[data.clk], Obs) = << 1 >>

VectorInv ==
  /\ TypeOK
  /\ CountsAgree
  /\ path.clk >= 1
  /\ initClk # -1 => hand # None
  /\ \A k \in Paths : Uncut(kept[k])
  /\ hand \in Paths => cuts = {}
  /\ Alternates(ram, cuts)
  /\ LastObs

(* CountsAgree, once every kept path is Uncut. *)
LEMMA CountsFrom ==
  ASSUME path.clk = Len(path.lines), ram = path.lines,
         hand \in Paths => path = kept[hand],
         \A k \in Paths : Uncut(kept[k])
  PROVE  CountsAgree
BY DEF CountsAgree, Uncut

LEMMA NoModel == << >> \in Models
<1>1. << >> \in [1 .. 0 -> Entry]
  OBVIOUS
<1>2. 0 \in 0 .. MaxSaid
  BY VectorsAssumption
<1>3. << >> \in UNION {[1 .. n -> Entry] : n \in 0 .. MaxSaid}
  BY <1>1, <1>2
<1> QED
  BY <1>3 DEF Models

LEMMA GeneratedUncut ==
  ASSUME NEW new \in Generated
  PROVE  Uncut(new) /\ Len(new.lines) = Step
<1>1. /\ new.lines \in Seq(Line) /\ Len(new.lines) = Step /\ new.clk = Step
      /\ new \in Data
      /\ Step \in Nat /\ Step >= 1
  BY GeneratedLines, VectorsAssumption
<1>2. << >> \in Seq(Line) /\ Len(<< >>) = 0 /\ << >> \o new.lines = new.lines
  BY <1>1, EmptySeq, ConcatEmptySeq
<1>3. Alternates(<< >>, {})
  BY <1>2 DEF Alternates
<1>4. /\ Alternates(new.lines, {})
      /\ Driven(new.lines[Step], Obs) = << 1 >>
  BY <1>1, <1>2, <1>3, ConnectAlternates
<1> QED
  BY <1>1, <1>4 DEF Uncut

LEMMA VectorsStart == Init => VectorInv
<1> SUFFICES ASSUME Init PROVE VectorInv
  OBVIOUS
<1>1. /\ kept \in [Paths -> Generated] /\ hand = RandomPaths /\ path = kept[hand]
      /\ stepData = [lines |-> << >>, clk |-> 0] /\ ram = path.lines
      /\ model = << >> /\ initClk = -1 /\ flips = 0 /\ cuts = {}
  BY DEF Init
<1>2. hand \in Paths
  BY <1>1, VectorsAssumption DEF Paths
<1>3. \A k \in Paths : Uncut(kept[k])
  BY <1>1, GeneratedUncut
<1>4. stepData \in Data
  <2>1. << >> \in Seq(Line)
    BY EmptySeq
  <2> QED
    BY <1>1, <2>1 DEF Data, Lines, Line
<1>5. kept \in [Paths -> Data]
  BY <1>1, <1>3 DEF Uncut
<1>6. Uncut(path)
  BY <1>1, <1>2, <1>3
<1>7. TypeOK
  BY <1>1, <1>2, <1>4, <1>5, <1>6, NoModel, VectorsAssumption
  DEF TypeOK, Uncut, Data
<1>8. CountsAgree
  BY <1>1, <1>3, <1>6, CountsFrom DEF Uncut
<1> QED
  BY <1>1, <1>3, <1>6, <1>7, <1>8 DEF VectorInv, LastObs, Uncut

(* Lines put after those of a path. *)
LEMMA Connected ==
  ASSUME NEW data \in Data, Len(data.lines) = data.clk, NEW new \in Generated,
         NEW cs, Alternates(data.lines, cs),
         \/ data.clk \in cs \/ data.clk = 0
         \/ Driven(data.lines[data.clk], Obs) = << 1 >>
  PROVE  LET all == Connect(data, new) IN
           /\ all \in Data /\ all.lines \in Seq(Line)
           /\ all.clk = data.clk + Step /\ Len(all.lines) = all.clk
           /\ all.clk >= 1
           /\ all.lines = data.lines \o new.lines
           /\ Alternates(all.lines, cs)
           /\ Driven(all.lines[Len(all.lines)], Obs) = << 1 >>
<1>1. data.lines \in Seq(Line) /\ data.clk \in Nat
  BY DEF Data, Lines, Line
<1>2. Step \in Nat /\ Step >= 1
  BY VectorsAssumption
<1>3. PICK l \in Seq(Line) : l = data.lines
  BY <1>1
<1>4. /\ l \o new.lines \in Seq(Line)
      /\ Len(l \o new.lines) = Len(l) + Step
      /\ Alternates(l \o new.lines, cs)
      /\ Driven((l \o new.lines)[Len(l) + Step], Obs) = << 1 >>
  BY <1>3, ConnectAlternates
<1>5. PICK all : all = Connect(data, new)
  OBVIOUS
<1>6. all = [lines |-> l \o new.lines, clk |-> data.clk + Step]
  BY <1>3, <1>5 DEF Connect
<1>7. all.lines = l \o new.lines /\ all.clk = data.clk + Step
  BY <1>6
<1>8. all \in Data
  BY <1>1, <1>2, <1>4, <1>6 DEF Data, Lines, Line
<1>9. Len(all.lines) = data.clk + Step /\ all.clk >= 1
  <2>1. Len(l) = data.clk
    BY <1>3
  <2>2. Len(all.lines) = data.clk + Step
    BY <1>4, <1>7, <2>1
  <2>3. all.clk >= 1
    BY <1>1, <1>2, <1>7
  <2> QED
    BY <2>2, <2>3
<1>10. /\ all.lines \in Seq(Line) /\ all.lines = data.lines \o new.lines
       /\ Alternates(all.lines, cs)
       /\ Driven(all.lines[Len(all.lines)], Obs) = << 1 >>
  BY <1>3, <1>4, <1>7, <1>9
<1> QED
  BY <1>5, <1>7, <1>8, <1>9, <1>10

LEMMA ExploreKeeps ==
  ASSUME VectorInv, Explore
  PROVE  VectorInv'
<1> USE DEF VectorInv
<1>1. PICK new \in Generated : stepData' = new /\ path' = Connect(path, new)
  BY DEF Explore
<1>2. /\ path.clk + Step <= MaxClk /\ ram' = path'.lines /\ initClk' = path.clk
      /\ kept' = [k \in Paths |-> IF k = hand THEN path' ELSE kept[k]]
      /\ hand # None
      /\ UNCHANGED << hand, model, flips, cuts >>
  BY DEF Explore
<1>3. /\ path \in Data /\ path.clk \in Nat /\ ram = path.lines
      /\ Len(path.lines) = path.clk
  BY DEF TypeOK, Data, CountsAgree
<1>4. path.clk \in cuts \/ Driven(path.lines[path.clk], Obs) = << 1 >>
  BY <1>3 DEF LastObs
<1>5. /\ path' \in Data /\ path'.lines \in Seq(Line)
      /\ path'.clk >= 1 /\ Len(path'.lines) = path'.clk
      /\ Alternates(path'.lines, cuts)
      /\ Driven(path'.lines[Len(path'.lines)], Obs) = << 1 >>
  BY <1>1, <1>3, <1>4, Connected
<1>6. stepData' \in Data
  BY <1>1, GeneratedLines
<1>7. initClk' \in -1 .. MaxClk
  BY <1>2, <1>3, VectorsAssumption
<1>8. ASSUME NEW k \in Paths PROVE Uncut(kept'[k])
  <2>1. CASE k = hand
    <3>1. cuts = {}
      BY <2>1
    <3> QED
      BY <1>2, <1>5, <2>1, <3>1 DEF Uncut
  <2> QED
    BY <1>2, <2>1
<1>9. kept' \in [Paths -> Data]
  BY <1>2, <1>8 DEF Uncut
<1>10. TypeOK'
  BY <1>2, <1>5, <1>6, <1>7, <1>9 DEF TypeOK, Lines, Line
<1>11. CountsAgree'
  <2>1. (hand \in Paths => path = kept[hand])'
    BY <1>2
  <2> QED
    BY <1>2, <1>5, <1>8, <2>1 DEF CountsAgree, Uncut
<1>12. (hand \in Paths => cuts = {})' /\ (initClk # -1 => hand # None)'
  BY <1>2
<1> QED
  BY <1>2, <1>5, <1>8, <1>10, <1>11, <1>12 DEF LastObs

LEMMA RestartKeeps ==
  ASSUME VectorInv, Restart
  PROVE  VectorInv' /\ Len(ram') = Step
<1> USE DEF VectorInv
<1>1. PICK data : data = [lines |-> << >>, clk |-> 0]
  OBVIOUS
<1>2. PICK new \in Generated : stepData' = new /\ path' = Connect(data, new)
  BY <1>1 DEF Restart
<1>3. /\ ram' = path'.lines /\ cuts' = {} /\ hand = Fresh
      /\ UNCHANGED << kept, hand, model, initClk, flips >>
  BY DEF Restart
<1>4. << >> \in Seq(Line) /\ Len(<< >>) = 0
  BY EmptySeq
<1>5. data \in Data /\ data.clk = 0 /\ data.lines = << >>
  BY <1>1, <1>4 DEF Data, Lines, Line
<1>6. Alternates(data.lines, {})
  BY <1>4, <1>5 DEF Alternates
<1>7. /\ path' \in Data /\ path'.lines \in Seq(Line)
      /\ path'.clk = 0 + Step
      /\ path'.clk >= 1 /\ Len(path'.lines) = path'.clk
      /\ Alternates(path'.lines, {})
      /\ Driven(path'.lines[Len(path'.lines)], Obs) = << 1 >>
  BY <1>2, <1>4, <1>5, <1>6, Connected
<1>8. stepData' \in Data
  BY <1>2, GeneratedLines
<1>9. TypeOK'
  BY <1>3, <1>7, <1>8 DEF TypeOK, Lines, Line
<1>10. CountsAgree'
  BY <1>3, <1>7 DEF CountsAgree, Fresh, Paths
<1> QED
  BY <1>3, <1>7, <1>9, <1>10, VectorsAssumption DEF LastObs

LEMMA UnsatKeeps ==
  ASSUME VectorInv, Unsat
  PROVE  VectorInv' /\ UNCHANGED << kept, hand, ram, model >>
<1> USE DEF VectorInv
<1>1. PICK clock \in initClk + 1 .. path.clk : stepData' = Intercept(path, clock)
  BY DEF Unsat
<1>2. UNCHANGED << kept, hand, path, ram, model, initClk, flips, cuts >>
  BY DEF Unsat
<1>3. path \in Data /\ Len(path.lines) = path.clk /\ clock \in 1 .. path.clk
  <2>1. initClk \in Nat
    BY VectorsAssumption DEF Unsat, TypeOK
  <2>2. path \in Data /\ path.clk \in Nat /\ Len(path.lines) = path.clk
    BY DEF TypeOK, Data, CountsAgree
  <2> QED
    BY <2>1, <2>2
<1>4. stepData' \in Data
  BY <1>1, <1>3, CutLines
<1>5. TypeOK'
  BY <1>2, <1>4 DEF TypeOK
<1>6. CountsAgree'
  BY <1>2 DEF CountsAgree
<1> QED
  BY <1>2, <1>5, <1>6 DEF LastObs, Alternates

(* What a flip makes of the path: the lines of the clocks kept, corrected. *)
LEMMA FlipCorrects ==
  ASSUME VectorInv, Flip
  PROVE  \E clock \in 1 .. Len(ram), said \in Models : \E lines :
           /\ lines \in Rows(clock)
           /\ \A c \in 1 .. clock : lines[c] = ram[c]
           /\ stepData' = [lines |-> Update(lines, said, clock), clk |-> clock]
           /\ path' = stepData' /\ ram' = stepData'.lines
           /\ model' = said
           /\ cuts' = {c \in cuts : c < clock} \cup {clock}
           /\ initClk' = -1 /\ flips < MaxFlips /\ flips' = flips + 1
           /\ hand # None /\ hand' = Fresh /\ kept' = kept
<1> USE DEF VectorInv
<1>1. PICK clock \in initClk + 1 .. path.clk, said \in Models :
        /\ stepData' = [Intercept(path, clock) EXCEPT !.lines = Update(@, said, clock)]
        /\ model' = said
        /\ cuts' = {c \in cuts : c < clock} \cup {clock}
  BY DEF Flip
<1>2. path \in Data /\ Len(path.lines) = path.clk /\ ram = path.lines
      /\ clock \in 1 .. path.clk
  <2>1. initClk \in Nat
    BY VectorsAssumption DEF Flip, TypeOK
  <2>2. path \in Data /\ path.clk \in Nat /\ Len(path.lines) = path.clk
        /\ ram = path.lines
    BY DEF TypeOK, Data, CountsAgree
  <2> QED
    BY <2>1, <2>2
<1>3. PICK cut : cut = Intercept(path, clock)
  OBVIOUS
<1>4. /\ cut.lines \in Rows(clock) /\ cut.clk = clock
      /\ cut \in Data
      /\ \A c \in 1 .. clock : cut.lines[c] = ram[c]
  BY <1>2, <1>3, CutLines
<1>5. stepData' = [lines |-> Update(cut.lines, said, clock), clk |-> clock]
  BY <1>1, <1>3, <1>4 DEF Data
<1>6. path' = stepData' /\ ram' = stepData'.lines
      /\ initClk' = -1 /\ flips < MaxFlips /\ flips' = flips + 1
      /\ hand # None /\ hand' = Fresh /\ kept' = kept
  BY DEF Flip
<1>7. clock \in 1 .. Len(ram)
  BY <1>2
<1>8. PICK lines : lines = cut.lines
  OBVIOUS
<1>9. /\ lines \in Rows(clock)
      /\ \A c \in 1 .. clock : lines[c] = ram[c]
      /\ stepData' = [lines |-> Update(lines, said, clock), clk |-> clock]
  BY <1>4, <1>5, <1>8
<1> QED
  BY <1>1, <1>6, <1>7, <1>9

LEMMA FlipKeeps ==
  ASSUME VectorInv, Flip
  PROVE  VectorInv'
<1> USE DEF VectorInv
<1> DEFINE Made(clock, said, lines) ==
             /\ lines \in Rows(clock)
             /\ \A c \in 1 .. clock : lines[c] = ram[c]
             /\ stepData' = [lines |-> Update(lines, said, clock), clk |-> clock]
             /\ path' = stepData' /\ ram' = stepData'.lines
             /\ model' = said
             /\ cuts' = {c \in cuts : c < clock} \cup {clock}
             /\ initClk' = -1 /\ flips < MaxFlips /\ flips' = flips + 1
             /\ hand # None /\ hand' = Fresh /\ kept' = kept
<1>0. PICK clock \in 1 .. Len(ram), said \in Models :
        \E lines : Made(clock, said, lines)
  BY FlipCorrects
<1>1. PICK lines : Made(clock, said, lines)
  BY <1>0
<1>2. clock \in Nat /\ clock >= 1 /\ clock \in cuts'
  <2>1. ram \in Seq(Line)
    BY DEF TypeOK, Lines, Line
  <2> QED
    BY <1>1, <2>1, LenProperties
<1>3. PICK new : new = Update(lines, said, clock)
  OBVIOUS
<1>4. new \in Seq(Line) /\ Len(new) = clock
  BY <1>1, <1>2, <1>3, UpdateCorrects DEF Rows
<1>5. \A c \in 1 .. clock : Driven(new[c], Obs) = Driven(ram[c], Obs)
  BY <1>1, <1>2, <1>3, UpdateKeepsObs
<1>6. path' = [lines |-> new, clk |-> clock] /\ ram' = new
      /\ stepData' = path'
  BY <1>1, <1>3
<1>7. path' \in Data
  BY <1>2, <1>4, <1>6 DEF Data, Lines, Line
<1>11. flips' \in 0 .. MaxFlips
  BY <1>1, VectorsAssumption DEF TypeOK
<1>8. TypeOK'
  BY <1>1, <1>4, <1>6, <1>7, <1>11, VectorsAssumption DEF TypeOK, Lines, Line
<1>9. ASSUME NEW c \in 1 .. Len(new) - 1,
             Driven(new[c], Obs) = Driven(new[c + 1], Obs)
      PROVE  c \in cuts'
  <2>1. c \in 1 .. clock /\ c + 1 \in 1 .. clock /\ c < clock
        /\ c \in 1 .. Len(ram) - 1
    BY <1>1, <1>2, <1>4
  <2>2. Driven(ram[c], Obs) = Driven(ram[c + 1], Obs)
    BY <1>5, <1>9, <2>1
  <2>3. c \in cuts
    BY <2>1, <2>2 DEF Alternates
  <2> QED
    BY <1>1, <2>1, <2>3
<1>10. Alternates(ram', cuts')
  BY <1>6, <1>9 DEF Alternates
<1>15. hand' = Fresh /\ kept' = kept /\ Fresh \notin Paths
  BY <1>1 DEF Fresh, Paths
<1>12. CountsAgree' /\ (path.clk >= 1)'
  BY <1>2, <1>4, <1>6, <1>15 DEF CountsAgree
<1>13. LastObs'
  BY <1>2, <1>6 DEF LastObs
<1>14. initClk' = -1
  BY <1>1
<1> QED
  BY <1>8, <1>10, <1>12, <1>13, <1>14, <1>15

LEMMA FailKeeps ==
  ASSUME VectorInv, Fail
  PROVE  VectorInv' /\ hand # None /\ hand' = None /\ UNCHANGED << kept, ram, model >>
<1> USE DEF VectorInv
<1>1. /\ hand # None /\ hand' = None /\ initClk' = -1 /\ None \notin Paths
      /\ UNCHANGED << kept, path, stepData, ram, model, flips, cuts >>
  BY DEF Fail, None, Paths
<1>2. TypeOK'
  BY <1>1, VectorsAssumption DEF TypeOK
<1>3. CountsAgree'
  BY <1>1 DEF CountsAgree
<1> QED
  BY <1>1, <1>2, <1>3 DEF LastObs, Alternates

(* A path taken up again is driven as it was left. *)
LEMMA TakeUpKeeps ==
  ASSUME VectorInv, NEW k \in Paths, TakeUp(k)
  PROVE  /\ VectorInv'
         /\ hand # k /\ hand' = k /\ ram' = kept[k].lines
         /\ UNCHANGED << kept, model >>
<1> USE DEF VectorInv
<1>1. /\ hand # k /\ hand' = k /\ path' = kept[k] /\ ram' = path'.lines
      /\ cuts' = {} /\ initClk = -1
      /\ UNCHANGED << kept, stepData, model, initClk, flips >>
  BY DEF TakeUp
<1>2. Uncut(path')
  BY <1>1
<1>3. TypeOK'
  BY <1>1, <1>2 DEF TypeOK, Uncut, Data
<1>4. CountsAgree'
  BY <1>1, <1>2 DEF CountsAgree, Uncut
<1> QED
  BY <1>1, <1>2, <1>3, <1>4 DEF LastObs, Uncut

LEMMA VectorsStep == VectorInv /\ [Next]_vars => VectorInv'
<1> SUFFICES ASSUME VectorInv, [Next]_vars PROVE VectorInv'
  OBVIOUS
<1>1. CASE Explore
  BY <1>1, ExploreKeeps
<1>2. CASE Restart
  BY <1>2, RestartKeeps
<1>3. CASE Unsat
  BY <1>3, UnsatKeeps
<1>4. CASE Flip
  BY <1>4, FlipKeeps
<1>5. CASE Fail
  BY <1>5, FailKeeps
<1>6. CASE \E k \in Paths : TakeUp(k)
  BY <1>6, TakeUpKeeps
<1>7. CASE UNCHANGED vars
  BY <1>7 DEF vars, VectorInv, TypeOK, CountsAgree, Alternates, LastObs
<1> QED
  BY <1>1, <1>2, <1>3, <1>4, <1>5, <1>6, <1>7 DEF Next

(* The inductive invariant of the vectors holds. *)
THEOREM Invariant == Spec => []VectorInv
BY VectorsStart, VectorsStep, PTL DEF Spec

(* Every line keeps its width, whatever is put into it, and every clk,
   model and counter its range. *)
THEOREM TypesHold == Spec => []TypeOK
<1>1. VectorInv => TypeOK
  BY DEF VectorInv
<1> QED
  BY <1>1, Invariant, PTL

(* The clk of a path is the number of its lines, and data.mem holds them. *)
THEOREM CountsHold == Spec => []CountsAgree
<1>1. VectorInv => CountsAgree
  BY DEF VectorInv
<1> QED
  BY <1>1, Invariant, PTL

(* __obs changes in every clock but those after which the path was cut. *)
THEOREM ObsChanges == Spec => []ObsAlternates
<1>1. VectorInv => ObsAlternates
  BY DEF VectorInv, Alternates, ObsAlternates
<1> QED
  BY <1>1, Invariant, PTL

-----------------------------------------------------------------------------
(***************************************************************************)
(* The refinement of InputPlan: what the testbench drives from data.mem is *)
(* lengthened, begun afresh, or cut and corrected by the model.            *)
(***************************************************************************)
Values == [Ports -> Seq(Bit)]

(* The plans of the kept paths. *)
Plans == [k \in DOMAIN kept |-> PlanOf(kept[k].lines)]

LEMMA PlanTyped ==
  ASSUME NEW rows \in Seq(Line)
  PROVE  /\ PlanOf(rows) \in Seq(Values)
         /\ Len(PlanOf(rows)) = Len(rows)
         /\ \A c \in 1 .. Len(rows) :
              PlanOf(rows)[c] = [p \in Ports |-> Driven(rows[c], p)]
<1>1. Len(rows) \in Nat /\ DOMAIN rows = 1 .. Len(rows)
  BY LenProperties
<1>2. ASSUME NEW c \in 1 .. Len(rows)
      PROVE  [p \in Ports |-> Driven(rows[c], p)] \in Values
  <2>1. ASSUME NEW p \in Ports PROVE Driven(rows[c], p) \in Seq(Bit)
    <3>1. p \in 1 .. Obs /\ rows[c] \in Line
      BY WidthsPositive DEF Ports
    <3> QED
      BY <3>1, DrivenTyped
  <2> QED
    BY <2>1 DEF Values
<1>3. PICK pl : pl = PlanOf(rows)
  OBVIOUS
<1>4. pl = [c \in 1 .. Len(rows) |-> [p \in Ports |-> Driven(rows[c], p)]]
  BY <1>1, <1>3 DEF PlanOf
<1>5. pl \in [1 .. Len(rows) -> Values]
  BY <1>2, <1>4
<1>6. pl \in Seq(Values)
  BY <1>1, <1>5, SeqDef
<1>7. Len(pl) = Len(rows)
  <2>1. DOMAIN pl = 1 .. Len(pl) /\ Len(pl) \in Nat
    BY <1>6, LenProperties
  <2>2. DOMAIN pl = 1 .. Len(rows)
    BY <1>5
  <2>3. PICK m, n \in Nat : m = Len(pl) /\ n = Len(rows)
    BY <1>1, <2>1
  <2>4. 1 .. m = 1 .. n
    BY <2>1, <2>2, <2>3
  <2> QED
    BY <2>3, <2>4
<1> QED
  BY <1>3, <1>4, <1>6, <1>7

LEMMA PlanStart == Init => Plan!Init
<1> SUFFICES ASSUME Init PROVE Plan!Init
  OBVIOUS
<1>1. /\ kept \in [Paths -> Generated] /\ hand = RandomPaths
      /\ ram = kept[hand].lines /\ model = << >>
  BY DEF Init
<1>2. DOMAIN Plans = Paths /\ hand \in Paths
  BY <1>1, VectorsAssumption DEF Plans, Paths
<1>3. ASSUME NEW k \in Paths
      PROVE  Plans[k] = PlanOf(kept[k].lines) /\ Len(Plans[k]) = Step
  <2>1. kept[k].lines \in Seq(Line) /\ Len(kept[k].lines) = Step
    BY <1>1, GeneratedLines
  <2>2. Plans[k] = PlanOf(kept[k].lines)
    BY <1>1 DEF Plans
  <2> QED
    BY <2>1, <2>2, PlanTyped
<1>4. PlanOf(ram) = Plans[hand]
  BY <1>1, <1>2, <1>3
<1> QED
  BY <1>1, <1>2, <1>3, <1>4 DEF Plan!Init, Plans

(* The plans of the kept paths change with the paths. *)
LEMMA PlansKept ==
  ASSUME kept' = kept
  PROVE  Plans' = Plans
BY DEF Plans

LEMMA ExploreLengthens ==
  ASSUME VectorInv, VectorInv', Explore
  PROVE  Plan!Lengthen
<1>1. ram \in Seq(Line) /\ ram' \in Seq(Line)
  BY DEF VectorInv, TypeOK, Lines, Line
<1>2. PICK new \in Generated : path' = Connect(path, new)
  BY DEF Explore
<1>3. ram' = ram \o new.lines /\ UNCHANGED model
  BY <1>2 DEF Explore, Connect, VectorInv, CountsAgree
<1>4. new.lines \in Seq(Line) /\ Len(new.lines) = Step /\ Step \in Nat
      /\ Len(ram) \in Nat
  BY <1>1, GeneratedLines, VectorsAssumption, LenProperties
<1>5. /\ Len(ram') = Len(ram) + Step
      /\ \A c \in 1 .. Len(ram) : c \in 1 .. Len(ram') /\ ram'[c] = ram[c]
  <2>1. /\ Len(ram \o new.lines) = Len(ram) + Step
        /\ \A c \in 1 .. Len(ram) + Step :
             (ram \o new.lines)[c] =
               IF c <= Len(ram) THEN ram[c] ELSE new.lines[c - Len(ram)]
    BY <1>1, <1>4, ConcatProperties
  <2>2. \A c \in 1 .. Len(ram) : c \in 1 .. Len(ram) + Step /\ c <= Len(ram)
    BY <1>4
  <2> QED
    BY <1>3, <2>1, <2>2
<1>6. PICK old, all : old = PlanOf(ram) /\ all = PlanOf(ram')
  OBVIOUS
<1>7. /\ old \in Seq(Values) /\ Len(old) = Len(ram)
      /\ all \in Seq(Values) /\ Len(all) = Len(ram) + Step
      /\ \A c \in 1 .. Len(ram) : all[c] = old[c]
  <2>1. /\ old \in Seq(Values) /\ Len(old) = Len(ram)
        /\ \A c \in 1 .. Len(ram) : old[c] = [p \in Ports |-> Driven(ram[c], p)]
    BY <1>1, <1>6, PlanTyped
  <2>2. /\ all \in Seq(Values) /\ Len(all) = Len(ram')
        /\ \A c \in 1 .. Len(ram') : all[c] = [p \in Ports |-> Driven(ram'[c], p)]
    BY <1>1, <1>6, PlanTyped
  <2> QED
    BY <1>5, <2>1, <2>2
<1>8. SubSeq(all, 1, Len(old)) = old
  <2>1. \A c \in 1 .. Len(old) : all[c] \in Values /\ 1 + c - 1 = c
    BY <1>4, <1>7
  <2>2. /\ SubSeq(all, 1, Len(old)) \in Seq(Values)
        /\ Len(SubSeq(all, 1, Len(old))) = Len(old)
        /\ \A c \in 1 .. Len(old) : SubSeq(all, 1, Len(old))[c] = all[c]
    <3>1. 1 \in Int /\ Len(old) \in Int /\ Len(old) - 1 + 1 = Len(old)
          /\ (1 <= Len(old) \/ Len(old) = 0)
      BY <1>4, <1>7
    <3> QED
      BY <2>1, <3>1, SubSeqProperties
  <2> QED
    BY <1>7, <2>2, SeqEqual
<1>9. /\ Len(PlanOf(ram')) = Len(PlanOf(ram)) + Step
      /\ SubSeq(PlanOf(ram'), 1, Len(PlanOf(ram))) = PlanOf(ram)
  BY <1>6, <1>7, <1>8
<1>10. /\ kept' = [k \in Paths |-> IF k = hand THEN path' ELSE kept[k]]
       /\ ram' = path'.lines /\ hand # None /\ hand' = hand
       /\ DOMAIN kept = Paths
  BY DEF Explore, VectorInv, TypeOK
<1>11. Plans' = [k \in DOMAIN Plans |-> IF k = hand THEN PlanOf(ram') ELSE Plans[k]]
  <2>1. /\ DOMAIN Plans = Paths /\ DOMAIN kept' = Paths
        /\ \A k \in Paths : Plans[k] = PlanOf(kept[k].lines)
    BY <1>10 DEF Plans
  <2>2. Plans' = [k \in Paths |-> PlanOf(kept'[k].lines)]
    BY <2>1 DEF Plans
  <2>3. \A k \in Paths : PlanOf(kept'[k].lines) =
                            IF k = hand THEN PlanOf(ram') ELSE Plans[k]
    BY <1>10, <2>1
  <2> QED
    BY <2>1, <2>2, <2>3
<1> QED
  BY <1>3, <1>9, <1>10, <1>11 DEF Plan!Lengthen, Plan!None, None, Plans

LEMMA RestartBegins ==
  ASSUME VectorInv, Restart
  PROVE  Plan!StartAfresh
<1>1. VectorInv' /\ Len(ram') = Step
  BY RestartKeeps
<1>2. ram' \in Seq(Line)
  BY <1>1 DEF VectorInv, TypeOK, Lines, Line
<1>3. Len(PlanOf(ram')) = Step
  BY <1>1, <1>2, PlanTyped
<1>4. hand = Fresh /\ UNCHANGED << kept, hand, model >>
  BY DEF Restart
<1>5. Plans' = Plans
  BY <1>4, PlansKept
<1> QED
  BY <1>3, <1>4, <1>5 DEF Plan!StartAfresh, Plan!Fresh, Fresh, Plans

LEMMA FlipCorrectsPlan ==
  ASSUME VectorInv, VectorInv', Flip
  PROVE  \E clock \in 1 .. Len(PlanOf(ram)) : Plan!Correct(clock)
<1>0. PICK clock \in 1 .. Len(ram), said \in Models :
        \E lines :
          /\ lines \in Rows(clock)
          /\ \A c \in 1 .. clock : lines[c] = ram[c]
          /\ ram' = Update(lines, said, clock)
          /\ model' = said
          /\ hand # None /\ hand' = Fresh /\ kept' = kept
  BY FlipCorrects
<1>1. PICK lines : /\ lines \in Rows(clock)
                   /\ \A c \in 1 .. clock : lines[c] = ram[c]
                   /\ ram' = Update(lines, said, clock)
                   /\ model' = said
                   /\ hand # None /\ hand' = Fresh /\ kept' = kept
  BY <1>0
<1>2. ram \in Seq(Line) /\ ram' \in Seq(Line) /\ Len(ram) \in Nat
  BY LenProperties DEF VectorInv, TypeOK, Lines, Line
<1>3. clock \in Nat /\ clock \in 1 .. Len(PlanOf(ram))
  BY <1>2, PlanTyped
<1>4. Len(ram') = clock
  BY <1>1, <1>3, UpdateCorrects DEF Rows
<1>5. Len(PlanOf(ram')) = clock
  BY <1>2, <1>4, PlanTyped
<1>6. ASSUME NEW c \in 1 .. clock, NEW p \in Ports
      PROVE  PlanOf(ram')[c][p] =
               IF Plan!Said(model', p, c) = {} THEN PlanOf(ram)[c][p]
               ELSE (CHOOSE e \in Plan!Said(model', p, c) : TRUE).value
  <2>1. c \in 1 .. Len(ram) /\ c \in 1 .. Len(ram')
    BY <1>2, <1>3, <1>4
  <2>2. /\ PlanOf(ram)[c][p] = Driven(ram[c], p)
        /\ PlanOf(ram')[c][p] = Driven(ram'[c], p)
    <3>1. PlanOf(ram)[c] = [q \in Ports |-> Driven(ram[c], q)]
      BY <1>2, <2>1, PlanTyped
    <3>2. PlanOf(ram')[c] = [q \in Ports |-> Driven(ram'[c], q)]
      BY <1>2, <2>1, PlanTyped
    <3> QED
      BY <3>1, <3>2
  <2>3. Driven(ram'[c], p) =
          IF Plan!Said(said, p, c) = {} THEN Driven(lines[c], p)
          ELSE (CHOOSE e \in Plan!Said(said, p, c) : TRUE).value
    BY <1>1, <1>3, UpdateSays
  <2>4. lines[c] = ram[c]
    BY <1>1
  <2> QED
    BY <1>1, <2>2, <2>3, <2>4
<1>8. Plans' = Plans
  BY <1>1, PlansKept
<1>7. Plan!Correct(clock)
  BY <1>1, <1>5, <1>6, <1>8
  DEF Plan!Correct, Plan!None, Plan!Fresh, None, Fresh, Plans
<1> QED
  BY <1>3, <1>7

LEMMA FailLeaves ==
  ASSUME VectorInv, Fail
  PROVE  Plan!Leave
<1>1. hand # None /\ hand' = None /\ UNCHANGED << kept, ram, model >>
  BY FailKeeps
<1>2. PlanOf(ram)' = PlanOf(ram) /\ Plans' = Plans
  BY <1>1, PlansKept
<1> QED
  BY <1>1, <1>2 DEF Plan!Leave, Plan!None, None, Plans

LEMMA TakeUpResumes ==
  ASSUME VectorInv, NEW k \in Paths, TakeUp(k)
  PROVE  k \in DOMAIN Plans /\ Plan!TakeUp(k)
<1>1. /\ hand # k /\ hand' = k /\ ram' = kept[k].lines
      /\ UNCHANGED << kept, model >>
  BY TakeUpKeeps
<1>2. k \in DOMAIN Plans /\ Plans[k] = PlanOf(kept[k].lines)
  BY DEF Plans, VectorInv, TypeOK
<1>3. PlanOf(ram)' = Plans[k] /\ Plans' = Plans
  BY <1>1, <1>2, PlansKept
<1> QED
  BY <1>1, <1>2, <1>3 DEF Plan!TakeUp, Plans

LEMMA PlanStep ==
  VectorInv /\ VectorInv' /\ [Next]_vars => [Plan!Next]_(Plan!vars)
<1> SUFFICES ASSUME VectorInv, VectorInv', [Next]_vars
             PROVE  [Plan!Next]_(Plan!vars)
  OBVIOUS
<1>1. CASE Explore
  BY <1>1, ExploreLengthens DEF Plan!Next
<1>2. CASE Restart
  BY <1>2, RestartBegins DEF Plan!Next
<1>3. CASE Unsat
  <2>1. UNCHANGED << kept, hand, ram, model >>
    BY <1>3, UnsatKeeps
  <2> QED
    BY <2>1 DEF Plan!vars
<1>4. CASE Flip
  BY <1>4, FlipCorrectsPlan DEF Plan!Next
<1>5. CASE Fail
  BY <1>5, FailLeaves DEF Plan!Next
<1>6. CASE \E k \in Paths : TakeUp(k)
  BY <1>6, TakeUpResumes DEF Plan!Next, Plans
<1>7. CASE UNCHANGED vars
  BY <1>7 DEF vars, Plan!vars
<1> QED
  BY <1>1, <1>2, <1>3, <1>4, <1>5, <1>6, <1>7 DEF Next

(***************************************************************************)
(* The vectors implement the plan, for all widths and bounds: positions,   *)
(* cuts, corrections and connections change no input in no clock but by    *)
(* what the solver says of it.                                             *)
(***************************************************************************)
THEOREM VectorsDriveThePlan == Spec => DrivesThePlan
<1>1. Spec => Plan!Spec
  BY PlanStart, PlanStep, Invariant, PTL DEF Spec, Plan!Spec
<1> QED
  BY <1>1 DEF DrivesThePlan

=============================================================================
