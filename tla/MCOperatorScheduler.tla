------------------------ MODULE MCOperatorScheduler ------------------------
(* A resident pair on one GPU beside a cell that needs the host alone.      *)
EXTENDS OperatorScheduler, TLC

MCNeed == [c \in Cells |-> IF c = "s" THEN 2 ELSE 1]
MCPinned == [c \in Cells |-> 0]
====
