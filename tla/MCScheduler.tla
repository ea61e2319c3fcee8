----------------------------- MODULE MCScheduler -----------------------------
(***************************************************************************)
(* Instances of Scheduler for TLC.  Workers and jobs are model values; the *)
(* jobs of one kind are interchangeable, and so are the workers, in runs   *)
(* that check no liveness.                                                 *)
(***************************************************************************)
EXTENDS Scheduler

WorkerSymmetry == Permutations(Workers)
JobSymmetry    == Permutations(CoJobs) \cup Permutations(Jobs \ CoJobs)
Symmetry       == WorkerSymmetry \cup JobSymmetry
=============================================================================
