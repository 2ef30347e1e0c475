---------------------------- MODULE MCOwnership ----------------------------
(***************************************************************************)
(* SessionLease and SchedulerOwnership on small instances: who owns a      *)
(* session's first dial, and who owns the probes of a group.  The two do   *)
(* not share state; a behaviour is one of either.                          *)
(***************************************************************************)
EXTENDS SessionLease, SchedulerOwnership

CONSTANTS p1, p2, c1, c2 \* the pools and the coordinators

VARIABLE part

InSession(A) == part = "session" /\ A /\ UNCHANGED <<vars, part>>
InGroup(A) == part = "group" /\ A /\ UNCHANGED <<leaseVars, part>>
all == <<leaseVars, vars, part>>

(* Pools and coordinators are interchangeable: they are named in the order  *)
(* in which they appear.                                                     *)
InOrder ==
    /\ pool[p2] # NoPool => pool[p1] # NoPool
    /\ coordinator[c2].made => coordinator[c1].made

MCInit == LeaseInit /\ Init /\ part \in {"session", "group"}
MCNext == InSession(LeaseNext) \/ InGroup(Next /\ InOrder')

(* LeaseFairness and Fairness, each in its part. *)
MCFairSpec ==
    /\ MCInit /\ [][MCNext]_all
    /\ \A d \in Dials : WF_all(InSession(Wake(d))) /\ WF_all(InSession(Finish(d)))
    /\ \A p \in Pools :
          /\ WF_all(InGroup(CloseStep(p))) /\ WF_all(InGroup(TokenStep(p)))
          /\ WF_all(InGroup(RevokeSeen(p)))
          /\ WF_all(InGroup(DispatcherStep(p))) /\ WF_all(InGroup(WorkerStep(p)))
    /\ \A d \in Attempts : WF_all(InGroup(ReleaseStep(d)))
    /\ WF_all(InGroup(\E w \in waiting : DrainWaiter(w)))
=============================================================================
