---------------------------- MODULE MCJobManager ----------------------------
(* JobManager on small sets of jobs. *)
EXTENDS JobManager, TLC

\* Jobs are interchangeable: nothing orders them but the state itself.
JobSymmetry == Permutations(Jobs)

=============================================================================
