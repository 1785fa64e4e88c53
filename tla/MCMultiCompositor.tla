------------------------- MODULE MCMultiCompositor -------------------------
(* The bounds of the model-checking runs of MultiCompositor. *)
EXTENDS MultiCompositor

\* Bound: two display times with all frames but the last, one with the last.
FewTimes ==
  frameCounter = MaxFrame =>
    /\ now < MaxTime + 1 /\ renderDisplay < MaxTime + 1
    /\ \A slot \in {progress, scheduled, delivered} : slot.display_time < MaxTime
=============================================================================
