--------------------------- MODULE MCTickExecutor ---------------------------
(* Two goals: the second one is the goal that a flag, a thread or a tree    *)
(* left over from the first could disturb.                                  *)
EXTENDS TickExecutor

CONSTANTS g1, g2

MCGoals == {g1, g2}
=============================================================================
