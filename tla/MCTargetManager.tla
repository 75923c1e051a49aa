--------------------------- MODULE MCTargetManager ---------------------------
(***************************************************************************)
(* Instances of the targets of a display for TLC: two aircraft that stay,  *)
(* one of which may be made twice, or one aircraft that leaves.            *)
(***************************************************************************)
EXTENDS TargetManager

CONSTANTS c1, c2

TwoStayOneLeaves ==
    {[flying |-> {c1, c2}, leavers |-> {}], [flying |-> {c1}, leavers |-> {c1}]}

OneTwice == [c \in Callsigns |-> IF c = c1 THEN 2 ELSE 1]

=============================================================================
