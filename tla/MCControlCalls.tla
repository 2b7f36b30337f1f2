--------------------------- MODULE MCControlCalls ---------------------------
(***************************************************************************)
(* Two presets that do not overlap, and a pair without the gap the code    *)
(* asks for.                                                               *)
(***************************************************************************)
EXTENDS ControlCalls

MCPairs == {[end |-> 90, start |-> 85], [end |-> 60, start |-> 55], [end |-> 60, start |-> 58]}
=============================================================================
