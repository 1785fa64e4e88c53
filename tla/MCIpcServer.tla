---------------------------- MODULE MCIpcServer ----------------------------
(* The model-checking runs of IpcServer. *)
EXTENDS IpcServer

\* Bound: one client at a time has made a second session.
OneLaterSession == Cardinality({s \in Slots : ~InFirst(s)}) <= 1
=============================================================================
