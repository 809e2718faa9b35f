----------------------------- MODULE MCMoveGroup -----------------------------
(* Two goals: a cartesian pick, and a goal of any other kind that meets it  *)
(* at any moment, before it or after it.                                   *)
EXTENDS MoveGroup

CONSTANTS g1, g2

MCGoals == {g1, g2}

MCAsks == [g \in MCGoals |->
             IF g = g1 THEN {[kind |-> "object", group |-> "arm", cartesian |-> TRUE]}
                       ELSE {w \in Wants : ~w.cartesian}]
=============================================================================
