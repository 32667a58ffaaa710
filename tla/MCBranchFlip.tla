--------------------------- MODULE MCBranchFlip ---------------------------
(***************************************************************************)
(* A design for BranchFlip: a process with the two states "a" and "b",     *)
(*                                                                         *)
(*   case (state)                                                          *)
(*     a : if (in) state <= b;      branches "case a", then "if" or "else" *)
(*     b : if (in) state <= a;      branch "case b"; the if is written as  *)
(*                                  an expression: it has no branch        *)
(*                                                                         *)
(* so that a trace tells the input of a clock spent in "a" only, and the   *)
(* solver has a choice.                                                    *)
(***************************************************************************)
EXTENDS BranchFlip

MCInputs   == {0, 1}
MCRegs     == {"a", "b"}
MCBranches == {"case a", "case b", "if", "else"}

MCAfter == [x \in MCRegs \X MCInputs |->
              IF x[2] = 0 THEN x[1] ELSE IF x[1] = "a" THEN "b" ELSE "a"]

MCLog == [x \in MCRegs \X MCInputs |->
            IF x[1] = "b" THEN << "case b" >>
            ELSE << "case a", IF x[2] = 1 THEN "if" ELSE "else" >>]

MCNode == [b \in MCBranches |->
             IF b \in {"case a", "case b"} THEN "case" ELSE "test"]

(* The target is "case b": one step from "if", two from "case a". *)
MCDistance == [b \in MCBranches |->
                 CASE b = "case b" -> 0 [] b = "if" -> 1
                   [] b = "case a" -> 2 [] b = "else" -> 3]

MCHash == [b \in MCBranches |->
             CASE b = "case a" -> 1 [] b = "case b" -> 13
               [] b = "if" -> 57    [] b = "else" -> 211]

(* Every clock of this design begins with "case a" or "case b". *)
ASSUME CaseComesFirst == OneBeginning

=============================================================================
