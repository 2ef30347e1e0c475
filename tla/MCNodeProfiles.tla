--------------------------- MODULE MCNodeProfiles ---------------------------
(* NodeProfiles with a history variable that counts the failed probes of a *)
(* track since its last success, or since its entry was pruned.            *)
EXTENDS NodeProfiles, TLC

CONSTANTS t1, e1, p1

OneEndpoint == t1 :> e1
OneProber == p1 :> [track : {t1}, mode : Modes]

VARIABLE streak

Counted(k) ==
    CASE profiles'[k] = Nil -> 0
      [] profiles[k] # Nil /\ profiles[k].owner # Nil /\ profiles'[k] # Nil /\ profiles'[k].owner = Nil ->
           (CASE profiles'[k].outcome = "success" -> 0
              [] profiles'[k].outcome = "failure" -> OneMore(streak[k])
              [] profiles'[k].outcome = "deferred" -> streak[k])
      [] OTHER -> streak[k]

MCSpec ==
    /\ ProfilesInit /\ streak = [k \in Tracks |-> 0]
    /\ [][ProfilesNext /\ streak' = [k \in Tracks |-> Counted(k)]]_<<profileVars, streak>>

(* "three consecutive basic-probe failures must isolate the candidate"       *)
(* (smart_integration_test.go:585): while the result of the last of them is  *)
(* not due, dead() is true of the track.                                     *)
ThreeFailuresIsolate ==
    \A k \in Tracks :
        /\ streak[k] = DeadAfter
        /\ profiles[k] # Nil /\ profiles[k].owner = Nil /\ ~profiles[k].due
        => Dead(k)
=============================================================================
