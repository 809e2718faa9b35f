----------------------------- MODULE MCPickStage -----------------------------
(* Two objects and two goals: an attempt that follows another, and a goal   *)
(* that finds the blackboard, the scene and the requests of the last one.   *)
EXTENDS PickStage
=============================================================================
