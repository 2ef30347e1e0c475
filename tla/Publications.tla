---------------------------- MODULE Publications ----------------------------
(***************************************************************************)
(* What the observation pipeline promises whoever publishes: the call      *)
(* settles the breaker permit exactly once, completes it only with         *)
(* evidence that may move a breaker, and leaves none held when it returns. *)
(* ObservationIngestor implements it; AttemptRunner relies on it.          *)
(***************************************************************************)
CONSTANT Publishers  \* callers, each of which publishes at most once

VARIABLE calls       \* the calls of PublishSettledObservationGuarded

(* Evidence is "eligible" (may move a breaker), "quality" (low or medium     *)
(* confidence) or "deferred" (cancelled, maps to no domain).                 *)
Evidence == {"eligible", "quality", "deferred"}

Call == [pc : {"idle", "begun", "done"}, evidence : Evidence,
         permit : {"none", "held", "completed", "released"}]

NoCall == [pc |-> "idle", evidence |-> "deferred", permit |-> "none"]

PubInit == calls = [p \in Publishers |-> NoCall]

Publish(p, evidence, permit) ==
    /\ calls[p].pc = "idle"
    /\ calls' = [calls EXCEPT ![p] = [pc |-> "begun", evidence |-> evidence, permit |-> permit]]

(* A plausible bug: evidence that is refused keeps the permit.               *)
ReturnHolding(p) ==
    /\ calls[p].pc = "begun"
    /\ calls' = [calls EXCEPT ![p].pc = "done"]

(* The call returns: eligible evidence that was accepted completes the       *)
(* permit, everything else releases it.                                      *)
Return(p) ==
    /\ calls[p].pc = "begun"
    /\ \E permit \in {"none", "completed", "released"} :
        /\ (permit = "none") = (calls[p].permit = "none")
        /\ permit = "completed" => calls[p].evidence = "eligible"
        /\ calls' = [calls EXCEPT ![p] =
              [pc |-> "done", evidence |-> calls[p].evidence, permit |-> permit]]

PubNext ==
    \E p \in Publishers :
        \/ \E evidence \in Evidence, permit \in {"none", "held"} : Publish(p, evidence, permit)
        \/ Return(p)

PubSpec == PubInit /\ [][PubNext]_calls
=============================================================================
