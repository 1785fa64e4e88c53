--------------------------- MODULE MCMultiSystem ---------------------------
(* The clients of the model-checking runs of MultiSystem. *)
EXTENDS MultiSystem

CONSTANTS c1, c2
=============================================================================
