----------------------- MODULE MCObservationIngestor -----------------------
(* ObservationIngestor on small instances.                                 *)
EXTENDS ObservationIngestor, TLC

Symmetry == Permutations(Publishers) \cup Permutations(Keys)
=============================================================================
