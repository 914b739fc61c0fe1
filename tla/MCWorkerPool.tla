---------------------------- MODULE MCWorkerPool ----------------------------
(* WorkerPool with a few tasks and workers. *)
EXTENDS WorkerPool

=============================================================================
