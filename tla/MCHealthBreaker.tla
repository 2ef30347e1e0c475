-------------------------- MODULE MCHealthBreaker --------------------------
(* HealthBreaker on small instances; observers are interchangeable. *)
EXTENDS HealthBreaker, TLC

Symmetry == Permutations(Observers)
=============================================================================
