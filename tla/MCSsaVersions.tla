-------------------------- MODULE MCSsaVersions --------------------------
(***************************************************************************)
(* A design for SsaVersions.                                               *)
(***************************************************************************)
EXTENDS SsaVersions

B(reads)    == [kind |-> "branch", reads |-> reads, sig |-> "r"]
N(reads, s) == [kind |-> "nba", reads |-> reads, sig |-> s]
A(reads, s) == [kind |-> "blk", reads |-> reads, sig |-> s]

MCInputs == {"in"}

(***************************************************************************)
(* A machine in the usual style: two registers, and next-state logic in a  *)
(* level-sensitive process.  One of the registers is also assigned at an   *)
(* edge of the other, as by always @(posedge clk or posedge r).            *)
(***************************************************************************)
StyleRegs  == {"r", "q", "w"}
StyleProcs == {"reg r", "reg q", "comb"}
StyleEdge  == {"reg r", "reg q"}
StyleBody ==
  [p \in StyleProcs |->
     CASE p = "reg r" -> << B({"w", "in"}), N({"w"}, "r"), N({"q"}, "r") >>
       [] p = "reg q" -> << B({"r"}), N({"r", "in"}, "q") >>
       [] p = "comb"  -> << B({"r", "in"}), A({"r"}, "w") >>]
StyleSensitive ==
  [p \in StyleProcs |->
     CASE p = "reg r" -> {}
       [] p = "reg q" -> {"r"}
       [] p = "comb"  -> {"r", "in"}]

=============================================================================
