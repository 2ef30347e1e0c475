------------------------------ MODULE MCEpochs ------------------------------
(***************************************************************************)
(* The two sides of a pool's catalog, RuntimeManager and ProviderSource,   *)
(* on small instances.  The models share no state; a behaviour is one of   *)
(* either.                                                                 *)
(***************************************************************************)
EXTENDS MCRuntimeManager, ProviderSource

CONSTANTS v1, v2 \* the providers

VARIABLE part

(* Bounds on the updates of each provider, on changes of the list of         *)
(* providers, and on failing rebuilds: two small scenarios.                  *)
Budget(m, n, l, f) == [updates |-> v1 :> m @@ v2 :> n, listings |-> l, failures |-> f]
Scenarios == {Budget(1, 1, 0, 1), Budget(2, 0, 1, 1)}

MCInit ==
    /\ part \in {"epochs", "source"} /\ Init /\ SourceInit
    /\ part = "epochs" => left = Budget(2, 0, 1, 1)

(* No attempt runs while a source update waits for its replay. *)
QuietReplay == NoReplay \/ \A d \in Dials : dial[d].pc = "idle"

EpochsNext == part = "epochs" /\ Next /\ QuietReplay' /\ UNCHANGED <<sourceVars, part>>
CatalogNext == part = "source" /\ SourceNext /\ UNCHANGED <<vars, part>>

MCSpec == MCInit /\ [][EpochsNext \/ CatalogNext]_<<vars, sourceVars, part>>
=============================================================================
