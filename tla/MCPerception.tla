---------------------------- MODULE MCPerception ----------------------------
(* Two detections without depth before and after one that has it, then a     *)
(* frame with nothing in it, and one whose depth the samples miss.           *)
EXTENDS Perception

MCSight == << <<{}, {<<0, 0>>}, {}>>, <<>>, <<{<<2, 0>>}, {<<-2, 0>>}>> >>
=============================================================================
