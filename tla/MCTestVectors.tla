--------------------------- MODULE MCTestVectors ---------------------------
(***************************************************************************)
(* A design with an input of one bit and one of two bits.  Random bits are *)
(* others in each of the lines of a path, except the one __obs stands in,  *)
(* and the same in each path: paths differ by what the solver says and by  *)
(* how long they are.                                                      *)
(***************************************************************************)
EXTENDS TestVectors

MCWidths == << 1, 2 >>
MCRandom ==
  {[k \in 1 .. 2 |-> [i \in 1 .. 4 |-> IF i = 1 THEN 1 ELSE (i + k) % 2]]}

=============================================================================
