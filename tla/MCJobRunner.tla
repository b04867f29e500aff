---------------------------- MODULE MCJobRunner ----------------------------
(* Small instances of JobRunner for TLC. *)
EXTENDS JobRunner, TLC

RequestSymmetry == Permutations(Enqueuer) \cup Permutations(Canceller)

JobRequestSymmetry == RequestSymmetry \cup Permutations(Job)
=============================================================================
