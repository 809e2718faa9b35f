---------------------------- MODULE MCRotateRobot ----------------------------
(* A circle of four steps, a goal of one and no tolerance: a robot that gets *)
(* no odometry for a while turns past its goal, by any angle.  The integral  *)
(* weighs as much as an error after one message (Rate), where the code takes *)
(* thirty.                                                                   *)
EXTENDS RotateRobot
=============================================================================
