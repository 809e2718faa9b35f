--------------------------- MODULE MCConfigLoader ---------------------------
(* A batch and a half of parameters that match, and one whose name only begins *)
(* like them. Of the values a parameter can change to, one has another type.   *)
EXTENDS ConfigLoader

CONSTANTS v, w, other

MCNames == << <<"rd">>, <<"rd", "a">>, <<"rd", "b">>, <<"rd_x">>, <<"rd", "c">> >>
MCPrefixes == {<<"rd">>}
MCTypeOf == [x \in {v, w, other} |-> IF x = other THEN "integer" ELSE "double"]
=============================================================================
