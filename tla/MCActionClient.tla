--------------------------- MODULE MCActionClient ---------------------------
(* Two activations: the second one is what the answers still owed to the    *)
(* first can disturb.                                                       *)
EXTENDS ActionClient

CONSTANTS g1, g2

MCGoals == {g1, g2}
=============================================================================
