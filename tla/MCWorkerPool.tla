---------------------------- MODULE MCWorkerPool ----------------------------
(* The bounds of the model-checking run of WorkerPool. *)
EXTENDS WorkerPool
=============================================================================
