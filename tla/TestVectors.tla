---------------------------- MODULE TestVectors ----------------------------
(***************************************************************************)
(* The test vectors of CTDataMem (data_mem.cpp), on the way of a path from *)
(* random lines through cuts and corrections to the inputs the testbench   *)
(* drives (concolic.cpp:generate_tb).                                      *)
(*                                                                         *)
(* A line is a row of characters, the leftmost one at position 1.  The     *)
(* inputs share it: each has a range of bits, counted from the right.  The *)
(* last one is __obs, an input that is added to the design and is meant to *)
(* change in every clock, so that processes that wait for levels run.      *)
(***************************************************************************)
EXTENDS Integers, Sequences, FiniteSetsExt

CONSTANTS
  Widths,      (* port_width of the design's inputs, in order               *)
  Step,        (* g_step                                                    *)
  Unroll,      (* g_unroll                                                  *)
  RandomPaths, (* g_random_sim_num                                          *)
  Random,      (* bound: what rand() gives for the lines of a path          *)
  MaxClk,      (* bound: clocks of a path                                   *)
  MaxSaid,     (* bound: inputs in a model                                  *)
  MaxFlips     (* bound: models                                             *)

ASSUME VectorsAssumption ==
  /\ Widths \in Seq(Nat \ {0}) /\ Widths # << >>
  /\ Step \in Nat \ {0} /\ Step % 2 = 0
  /\ RandomPaths \in Nat \ {0}
  /\ {Unroll, MaxClk, MaxSaid, MaxFlips} \subseteq Nat

VARIABLES
  kept,        (* the data of the paths of the random simulations           *)
  hand,        (* the path in hand: one of those, Fresh or None             *)
  path,        (* the data of the path last in hand: lines, clk             *)
  stepData,    (* g_data_step                                               *)
  ram,         (* the file data.mem, read into _conc_ram                    *)
  model,       (* the file model.log: port, clock, value                    *)
  initClk,     (* clk of the path before it was explored; -1 if it was not  *)
  flips,       (* history: models so far                                    *)
  cuts         (* history: clocks of the path after which it was cut        *)

vars == << kept, hand, path, stepData, ram, model, initClk, flips, cuts >>

-----------------------------------------------------------------------------
Paths == 1 .. RandomPaths
Fresh == 0   \* a path that a search made
None == -1   \* concolic_iteration returned NULL

(* Positions. *)
Ports == 1 .. Len(Widths)
Obs == Len(Widths) + 1
WidthOf(p) == IF p = Obs THEN 1 ELSE Widths[p]

(* The bits after those of the inputs before. *)
add_input[p \in 1 .. Obs] ==
  LET lsb == IF p = 1 THEN 0 ELSE add_input[p - 1].msb + 1
  IN  [lsb |-> lsb, msb |-> lsb + WidthOf(p) - 1]

in_ports == [p \in 1 .. Obs |-> add_input[p]]

Width == in_ports[Obs].msb + 1
Bit == {0, 1}

ASSUME RandomAssumption == Random \subseteq [1 .. Step -> [1 .. Width -> Bit]]

(* Broken: the value is put in, and nothing is taken out. *)
ModifyInserted(line, p, value) ==
  LET before == Width - in_ports[p].msb - 1
  IN  SubSeq(line, 1, before) \o value \o SubSeq(line, before + 1, Width)

(* modify: str.replace(length - msb - 1, width, value). *)
Modify(line, p, value) ==
  LET before == Width - in_ports[p].msb - 1
  IN  [i \in 1 .. Width |->
         IF i - before \in 1 .. WidthOf(p) THEN value[i - before] ELSE line[i]]

(* The testbench: input <= _conc_opcode[msb:lsb]. *)
Driven(line, p) == SubSeq(line, Width - in_ports[p].msb, Width - in_ports[p].lsb)

-----------------------------------------------------------------------------
(* Broken: __obs is left to chance. *)
PaddedNot(bits) == bits

(* generate: bit 0 of the string is k & 1 in the k-th line. *)
Padded(bits) ==
  [k \in DOMAIN bits |-> [bits[k] EXCEPT ![1] = (k - 1) % 2]]

Generated == {[lines |-> Padded(bits), clk |-> Step] : bits \in Random}

(* ConnectPath *)
Connect(data, new) == [lines |-> data.lines \o new.lines, clk |-> data.clk + Step]

(* Broken: a line is left out. *)
InterceptShort(data, end) ==
  [lines |-> SubSeq(data.lines, 1, end - 1), clk |-> end]

(* intercept(source, 0, end); clk is set before end is cut. *)
Intercept(data, end) ==
  [lines |-> SubSeq(data.lines, 1, Min({end, Len(data.lines)})), clk |-> end]

(* Broken: the inputs' initial values are not skipped. *)
UpdateFromZero(lines, said, limit) ==
  LET put[n \in 0 .. Len(said)] ==
        IF n = 0 THEN lines
        ELSE LET e == said[n]
             IN  IF e.port \in Ports /\ e.clock < limit
                 THEN [put[n - 1] EXCEPT ![e.clock + 1] =
                         Modify(@, e.port, e.value)]
                 ELSE put[n - 1]
  IN  put[Len(said)]

(***************************************************************************)
(* update_input_vectors: line by line of model.log.  Signals that are no   *)
(* inputs, the initial values and what is after the limit are skipped.     *)
(***************************************************************************)
Update(lines, said, limit) ==
  LET put[n \in 0 .. Len(said)] ==
        IF n = 0 THEN lines
        ELSE LET e == said[n]
             IN  IF e.port \in Ports /\ e.clock # 0 /\ e.clock <= limit
                 THEN [put[n - 1] EXCEPT ![e.clock] =
                         Modify(@, e.port, e.value)]
                 ELSE put[n - 1]
  IN  put[Len(said)]

-----------------------------------------------------------------------------
(* A model: every signal has a value in some clocks; port 0 is a register. *)
Entry ==
  (UNION {[port : {p}, clock : 0 .. MaxClk + 1,
           value : [1 .. WidthOf(p) -> Bit]] : p \in Ports})
  \cup {[port |-> 0, clock |-> 1, value |-> << 1 >>]}

Models ==
  {m \in UNION {[1 .. n -> Entry] : n \in 0 .. MaxSaid} :
     \A i, j \in DOMAIN m :
       i < j => << m[i].port, m[i].clock >> # << m[j].port, m[j].clock >>}

(* step_coverage, after the random simulations: every path is kept as the  *)
(* closest one of some target, the last one is in hand.                    *)
Init ==
  /\ kept \in [Paths -> Generated]
  /\ hand = RandomPaths
  /\ path = kept[hand]
  /\ stepData = [lines |-> << >>, clk |-> 0]
  /\ ram = path.lines
  /\ model = << >>
  /\ initClk = -1
  /\ flips = 0
  /\ cuts = {}

(* explore_one_step, at the start of concolic_iteration, which lengthens   *)
(* the path it is given, and a kept one with it.  A path that a search has *)
(* made longer than g_unroll was cleared before; kept ones have no limit.  *)
Explore ==
  /\ initClk = -1
  /\ hand # None
  /\ hand = Fresh => path.clk <= Max({Unroll, Step})
  /\ path.clk + Step <= MaxClk
  /\ \E new \in Generated :
       /\ stepData' = new
       /\ path' = Connect(path, new)
  /\ kept' = [k \in Paths |-> IF k = hand THEN path' ELSE kept[k]]
  /\ ram' = path'.lines
  /\ initClk' = path.clk
  /\ UNCHANGED << hand, model, flips, cuts >>

(* step_coverage, on a path of the search longer than g_unroll: ClearPath, *)
(* then explore_one_step.                                                  *)
Restart ==
  /\ initClk = -1
  /\ hand = Fresh
  /\ path.clk > Unroll
  /\ \E new \in Generated :
       /\ stepData' = new
       /\ path' = Connect([lines |-> << >>, clk |-> 0], new)
  /\ ram' = path'.lines
  /\ cuts' = {}
  /\ UNCHANGED << kept, hand, model, initClk, flips >>

(* find_next_cfg, on an alternative in the clocks that were explored last: *)
(* its constraints have no solution ...                                    *)
Unsat ==
  /\ initClk # -1
  /\ \E clock \in initClk + 1 .. path.clk : stepData' = Intercept(path, clock)
  /\ UNCHANGED << kept, hand, path, ram, model, initClk, flips, cuts >>

(* ... or one, which goes into the path that is simulated next.            *)
Flip ==
  /\ initClk # -1
  /\ flips < MaxFlips
  /\ \E clock \in initClk + 1 .. path.clk, said \in Models :
       LET cut == Intercept(path, clock)
       IN  /\ stepData' = [cut EXCEPT !.lines = Update(@, said, clock)]
           /\ model' = said
           /\ cuts' = {c \in cuts : c < clock} \cup {clock}
  /\ ram' = stepData'.lines
  /\ path' = stepData'
  /\ hand' = Fresh
  /\ initClk' = -1
  /\ flips' = flips + 1
  /\ UNCHANGED kept

(* No alternative is left: concolic_iteration returns NULL, the search     *)
(* ends, and its path stays as long as it was made.                        *)
Fail ==
  /\ initClk # -1
  /\ hand' = None
  /\ initClk' = -1
  /\ UNCHANGED << kept, path, stepData, ram, model, flips, cuts >>

(* step_coverage, when a search begins: the closest path of the target, as *)
(* searches before have left it, is dumped and simulated.                  *)
TakeUp(k) ==
  /\ initClk = -1
  /\ hand # k /\ hand' = k
  /\ path' = kept[k]
  /\ ram' = path'.lines
  /\ cuts' = {}
  /\ UNCHANGED << kept, stepData, model, initClk, flips >>

Next ==
  \/ Explore \/ Restart \/ Unsat \/ Flip \/ Fail
  \/ \E k \in Paths : TakeUp(k)

Spec == Init /\ [][Next]_vars

-----------------------------------------------------------------------------
Lines == Seq([1 .. Width -> Bit])
Data == [lines : Lines, clk : Nat]

TypeOK ==
  /\ kept \in [Paths -> Data] /\ hand \in Paths \cup {Fresh, None}
  /\ path \in Data /\ stepData \in Data /\ ram \in Lines
  /\ model \in Models
  /\ initClk \in -1 .. MaxClk
  /\ flips \in 0 .. MaxFlips

(* What the testbench drives from a file with these lines. *)
PlanOf(lines) == [c \in DOMAIN lines |-> [p \in Ports |-> Driven(lines[c], p)]]

Plan == INSTANCE InputPlan WITH
  plan <- PlanOf(ram),
  kept <- [k \in DOMAIN kept |-> PlanOf(kept[k].lines)]

(***************************************************************************)
(* Through positions, cuts and corrections the inputs of the design get in *)
(* every clock what was planned: the solver's values where it gave any,    *)
(* for the clocks that are kept, and elsewhere the values they had; and a  *)
(* path that is taken up again drives what it did when it was left, though *)
(* the paths made of it since share its lines.                             *)
(***************************************************************************)
DrivesThePlan == Plan!Spec

(***************************************************************************)
(* The clk of a path, which sets how long it is simulated, is the number   *)
(* of its lines; the file holds the path in hand, whoever wrote last, and  *)
(* a kept path in hand is the object it was taken up from.                 *)
(***************************************************************************)
CountsAgree ==
  /\ \A data \in {path} \cup {kept[k] : k \in Paths} :
       data.clk = Len(data.lines)
  /\ ram = path.lines
  /\ hand \in Paths => path = kept[hand]

(***************************************************************************)
(* __obs changes in every clock, except where a path was cut after a clock *)
(* and lengthened: the new lines begin with 0 whatever the last one has.   *)
(***************************************************************************)
ObsAlternates ==
  \A c \in 1 .. Len(ram) - 1 :
    Driven(ram[c], Obs) = Driven(ram[c + 1], Obs) => c \in cuts

=============================================================================
