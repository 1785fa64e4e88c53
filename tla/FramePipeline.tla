--------------------------- MODULE FramePipeline ---------------------------
(***************************************************************************)
(* What the multi-client compositor promises about the frames of one       *)
(* client, without saying how: frames are shown in the order they were     *)
(* submitted, none before its GPU work is complete, and a frame that is    *)
(* not shown was replaced by a newer complete one, was hidden with its     *)
(* client, or went away with it.  MultiCompositor implements it.           *)
(***************************************************************************)
EXTENDS Integers

CONSTANT Frames  \* positive frame ids

VARIABLES inFlight,  \* frames submitted and not yet shown or dropped
          complete,  \* those whose GPU work is complete
          shown,     \* the frame the compositor shows, or 0
          past       \* frames that were shown or dropped, and are gone

vars == <<inFlight, complete, shown, past>>

Known == inFlight \cup past \cup {shown}

Init == inFlight = {} /\ complete = {} /\ shown = 0 /\ past = {}

Submit(f) ==
  /\ \A g \in Known : g < f
  /\ inFlight' = inFlight \cup {f}
  /\ UNCHANGED <<complete, shown, past>>

Complete(f) ==
  /\ f \in inFlight \ complete
  /\ complete' = complete \cup {f}
  /\ UNCHANGED <<inFlight, shown, past>>

Replace(old, new) ==
  /\ old < new /\ {old, new} \subseteq complete
  /\ inFlight' = inFlight \ {old} /\ complete' = complete \ {old}
  /\ past' = past \cup {old}
  /\ UNCHANGED shown

Show(f) ==
  /\ f \in complete /\ \A g \in inFlight : f <= g
  /\ shown' = f
  /\ inFlight' = inFlight \ {f} /\ complete' = complete \ {f}
  /\ past' = past \cup ({shown} \ {0})

Hide ==
  /\ shown # 0
  /\ shown' = 0 /\ past' = past \cup {shown}
  /\ UNCHANGED <<inFlight, complete>>

Close ==
  /\ inFlight' = {} /\ complete' = {} /\ shown' = 0
  /\ past' = Known \ {0}

Next ==
  \/ \E f \in Frames : Submit(f) \/ Complete(f) \/ Show(f)
  \/ \E old, new \in Frames : Replace(old, new)
  \/ Hide \/ Close

Spec == Init /\ [][Next]_vars
=============================================================================
