----------------------------- MODULE MCBreaker -----------------------------
(***************************************************************************)
(* The two stores of health evidence, HealthBreaker and NodeProfiles, on   *)
(* small instances; the models share no state.                             *)
(*   windows: one observer at a time, over a long clock; cooldowns double, *)
(*            records expire, and the store holds one of the two records;  *)
(*   recovery: two concurrent observers that take, lose and settle permits *)
(*            of breakers that open at the first failure; the clock is     *)
(*            read before a permit only by the first to start, and the     *)
(*            handle is retired under the owner of a recovery while the    *)
(*            other has a result to settle;                                *)
(*   profiles: three callers of the shared registry of probe results.      *)
(* The invariants of HealthBreaker are stated with the constants of the    *)
(* first part, which are the weaker ones for the second.                   *)
(***************************************************************************)
EXTENDS HealthBreaker, NodeProfiles, TLC

CONSTANTS tcp, udp, other, e1, e2, c1, c2, c3

VARIABLE part

Recovery == INSTANCE HealthBreaker WITH
    FailureThreshold <- 1, BaseCooldown <- 1, MaxCooldown <- 1, JitterPercent <- 0,
    Retention <- 9, MaxEntries <- 2, MaxTime <- 1, MaxVersion <- 1

(* Two tracks of one endpoint (TCP and UDP) and one of another. *)
SharedEndpoint == tcp :> e1 @@ udp :> e1 @@ other :> e2
Callers == c1 :> [track : {tcp, other}, mode : {"normal"}]
        @@ c2 :> {[track |-> tcp, mode |-> "recovery"]}
        @@ c3 :> {[track |-> udp, mode |-> "forced"]}

MCInit == part \in {"windows", "recovery", "profiles"} /\ Init /\ ProfilesInit

WindowsNext ==
    /\ part = "windows" /\ UNCHANGED <<profileVars, part>>
    /\ \/ \E o \in Observers :
             (\A p \in Observers \ {o} : obs[p].pc = "idle") /\ Step(o)
       \/ RetireNodeHandle
       \/ Tick

(* An observer owns a recovery, and the others have results to settle. *)
OwnerAndLateResult ==
    \E o \in Observers : /\ \E k \in Keys : Owns(o, k)
                         /\ \A p \in Observers \ {o} : obs[p].pc = "ready"

RecoveryNext ==
    /\ part = "recovery" /\ UNCHANGED <<profileVars, part>>
    /\ \/ \E o \in Observers :
             /\ Recovery!Step(o)
             /\ obs'[o].pc = "early" => \A p \in Observers \ {o} : obs[p].pc = "idle"
       \/ RetireNodeHandle /\ OwnerAndLateResult
       \/ Recovery!Tick

RegistryNext == part = "profiles" /\ UNCHANGED <<vars, part>> /\ ProfilesNext

MCNext == WindowsNext \/ RecoveryNext \/ RegistryNext

MCSpec == MCInit /\ [][MCNext]_<<vars, profileVars, part>>

Symmetry == Permutations(Observers)
=============================================================================
