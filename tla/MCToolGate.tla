----------------------------- MODULE MCToolGate -----------------------------
(***************************************************************************)
(* ToolGate with two files of one directory outside the workspace, which   *)
(* are read at the same time, and two changes, one of a file outside.      *)
(***************************************************************************)
EXTENDS ToolGate, TLC

CONSTANTS p1, p2, dir, e1, read1, read2, edit1, edit2, A, B

MCManagers == {A, B}
MCCalls    == {read1, read2, edit1, edit2}
MCTogether == {read1, read2}
MCKindOf   == [r \in {p1, p2, e1} |-> IF r = e1 THEN "edit" ELSE "path"]
MCScopeOf  == [r \in {p1, p2, e1} |-> IF r = e1 THEN e1 ELSE dir]
MCPlan     == [c \in MCCalls |->
                 CASE c = read1 -> <<p1>>
                   [] c = read2 -> <<p2>>
                   [] c = edit1 -> <<p1, e1>>
                   [] OTHER     -> <<e1>>]

\* Nothing tells the two managers apart.
MCSymmetry == Permutations(MCManagers)
=============================================================================
