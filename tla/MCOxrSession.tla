---------------------------- MODULE MCOxrSession ----------------------------
(* The model-checking runs of OxrSession. *)
EXTENDS OxrSession
=============================================================================
