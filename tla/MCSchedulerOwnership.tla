----------------------- MODULE MCSchedulerOwnership -----------------------
(* SchedulerOwnership on small instances. *)
EXTENDS SchedulerOwnership, TLC

Symmetry == Permutations(Pools) \cup Permutations(Coordinators)
===========================================================================
