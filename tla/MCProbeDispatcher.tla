------------------------- MODULE MCProbeDispatcher -------------------------
(***************************************************************************)
(* ProbeDispatcher with three keys of two sources and two callers, each of *)
(* which submits one of two tasks: on demand at two priorities, on demand  *)
(* and fresh, periodic.                                                    *)
(***************************************************************************)
EXTENDS ProbeDispatcher, TLC

CONSTANTS k1, k2, k3, c1, c2

OnDemand(k, priority, fresh) ==
    [key |-> k, priority |-> priority, periodic |-> FALSE, due |-> TRUE, fresh |-> fresh]
Periodic(k, priority) ==
    [key |-> k, priority |-> priority, periodic |-> TRUE, due |-> TRUE, fresh |-> FALSE]

CallerTasks ==
    c1 :> {OnDemand(k1, 1, FALSE), OnDemand(k2, 3, TRUE)} @@
    c2 :> {Periodic(k2, 3), OnDemand(k3, 3, FALSE)}

TwoSources == [k \in Keys |-> IF k = k3 THEN 2 ELSE 1]
OneRemoval == {{k1}}

(* A queue of one entry has no second source to rotate to. *)
OneSource == queueSize = 1 => \A c \in Callers : call[c].task = Absent \/ call[c].task.key # k3

MCSpec == ProbeInit /\ [][ProbeNext /\ OneSource']_probeVars /\ ProbeFairness
=============================================================================
