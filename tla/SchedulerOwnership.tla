------------------------- MODULE SchedulerOwnership -------------------------
(***************************************************************************)
(* Who may run probes (scheduler.go, runtime_manager.go, outbound.go).     *)
(*                                                                         *)
(* The pools of one group share a SchedulerCoordinator.  A pool that       *)
(* becomes active claims it: the previous token is revoked, and the new    *)
(* token becomes ready only when the previous one has drained, that is,    *)
(* when it was ready itself and the dispatcher and all workers of its      *)
(* scheduler have returned.  The runtime manager drops the coordinator     *)
(* when the group has no user and no epoch and the coordinator is idle.    *)
(*                                                                         *)
(* A pool claims at most once (startSchedulerLocked tests p.scheduler and  *)
(* p.retired under lifecycleAccess) and epoch ids are not reused while a   *)
(* token is held, so a token is named by the pool that claimed it and the  *)
(* early return of Claim for the current owner is never taken.             *)
(***************************************************************************)
EXTENDS Naturals, FiniteSets

CONSTANTS
    Pools,        \* AdaptivePool instances of one group, one epoch each
    Coordinators, \* SchedulerCoordinator objects that can be allocated
    Workers,      \* workers per scheduler (probeConcurrency)
    Attempts,     \* attempts that hold an epoch lease
    Nobody

ASSUME OwnershipConstants ==
    /\ Workers \in Nat \ {0}
    /\ Nobody \notin Pools \cup Coordinators

VARIABLES
    registered,  \* pools counted in groupUsers
    epochs,      \* pools whose epoch is in the manager's table
    schedulers,  \* m.schedulers[groupID], a coordinator or Nobody
    waiter,      \* m.schedulerWaiter[groupID]
    waiting,     \* the drain waiters that run: [of, on]
    coordinator, \* the fields of each coordinator
    token,       \* the ownership token each pool claimed
    scheduler,   \* the ProbeScheduler of each pool
    pool,        \* where each pool is, and the coordinator it looked up
    attempt      \* the attempts, each with the pool whose epoch it leased

vars == <<registered, epochs, schedulers, waiter, waiting, coordinator,
          token, scheduler, pool, attempt>>

Coordinator ==
    [made : BOOLEAN, owner : Pools \cup {Nobody}, generation : Nat, drain : Pools \cup {Nobody}]
NoCoordinator == [made |-> FALSE, owner |-> Nobody, generation |-> 0, drain |-> Nobody]

Token ==
    [of : Coordinators \cup {Nobody}, generation : Nat, previous : Pools \cup {Nobody},
     revoked : BOOLEAN, ready : BOOLEAN, done : BOOLEAN, drained : BOOLEAN]
NoToken ==
    [of |-> Nobody, generation |-> 0, previous |-> Nobody,
     revoked |-> FALSE, ready |-> FALSE, done |-> FALSE, drained |-> FALSE]

(* life of the dispatcher; workers that run a probe; workers that returned.  *)
Scheduler ==
    [dispatcher : {"none", "waiting", "ready", "closed"}, cancelled : BOOLEAN,
     busy : 0..Workers, exited : 0..Workers]
NoScheduler == [dispatcher |-> "none", cancelled |-> FALSE, busy |-> 0, exited |-> 0]

PoolState ==
    [pc : {"none", "registered", "prepared", "active", "running", "retiring", "released",
           "closing", "unregistered", "eligible", "closed"},
     of : Coordinators \cup {Nobody}]
NoPool == [pc |-> "none", of |-> Nobody]

AttemptState ==
    [pc : {"none", "holding", "released", "eligible", "done"}, of : Pools \cup {Nobody}]
NoDial == [pc |-> "none", of |-> Nobody]

Init ==
    /\ registered = {} /\ epochs = {}
    /\ schedulers = Nobody /\ waiter = Nobody /\ waiting = {}
    /\ coordinator = [c \in Coordinators |-> NoCoordinator]
    /\ token = [p \in Pools |-> NoToken]
    /\ scheduler = [p \in Pools |-> NoScheduler]
    /\ pool = [p \in Pools |-> NoPool]
    /\ attempt = [d \in Attempts |-> NoDial]

At(p, pc) == pool[p].pc = pc
Go(p, pc) == pool' = [pool EXCEPT ![p].pc = pc]
-----------------------------------------------------------------------------
(* New: the pool registers, then looks the coordinator up.                   *)

RegisterGroup(p) ==
    /\ At(p, "none")
    /\ registered' = registered \cup {p}
    /\ Go(p, "registered")
    /\ UNCHANGED <<epochs, schedulers, waiter, waiting, coordinator, token, scheduler, attempt>>

Lookup(p, c) ==
    /\ At(p, "registered")
    /\ IF schedulers # Nobody
       THEN c = schedulers /\ UNCHANGED coordinator
       ELSE /\ ~coordinator[c].made
            /\ coordinator' = [coordinator EXCEPT ![c].made = TRUE]
    /\ schedulers' = c
    /\ pool' = [pool EXCEPT ![p] = [pc |-> "prepared", of |-> c]]
    /\ UNCHANGED <<registered, epochs, waiter, waiting, token, scheduler, attempt>>

(* The epoch is published; an attempt may take a lease on it.                *)
Publish(p) ==
    /\ At(p, "prepared")
    /\ epochs' = epochs \cup {p}
    /\ Go(p, "active")
    /\ UNCHANGED <<registered, schedulers, waiter, waiting, coordinator, token, scheduler, attempt>>

AcquireEpoch(d, p) ==
    /\ attempt[d].pc = "none" /\ pool[p].pc \in {"active", "running"}
    /\ attempt' = [attempt EXCEPT ![d] = [pc |-> "holding", of |-> p]]
    /\ UNCHANGED <<registered, epochs, schedulers, waiter, waiting, coordinator, token, scheduler, pool>>
-----------------------------------------------------------------------------
(* The token: Claim, Release and the two goroutines Claim starts.            *)

(* A plausible bug: the previous owner is not told to stop.                  *)
ClaimedUnrevoked(p, c) ==
    [token EXCEPT ![p] = [NoToken EXCEPT !.of = c,
                                         !.generation = coordinator[c].generation + 1,
                                         !.previous = coordinator[c].drain,
                                         !.ready = coordinator[c].drain = Nobody]]

(* The tokens after Claim: the owner's is revoked, and the new one is ready  *)
(* at once only when the coordinator never had another.                      *)
Claimed(p, c) ==
    LET owner == coordinator[c].owner
        next == [of |-> c, generation |-> coordinator[c].generation + 1,
                 previous |-> coordinator[c].drain, revoked |-> FALSE,
                 ready |-> (coordinator[c].drain = Nobody), done |-> FALSE, drained |-> FALSE]
    IN  [q \in Pools |-> IF q = p THEN next
                         ELSE IF q = owner THEN [token[q] EXCEPT !.revoked = TRUE]
                         ELSE token[q]]

(* startSchedulerLocked: claim, and start the dispatcher and the workers.    *)
StartScheduler(p) ==
    /\ At(p, "active")
    /\ LET c == pool[p].of IN
       /\ token' = Claimed(p, c)
       /\ coordinator' = [coordinator EXCEPT
              ![c] = [made |-> TRUE, owner |-> p,
                      generation |-> coordinator[c].generation + 1, drain |-> p]]
    /\ scheduler' = [scheduler EXCEPT ![p].dispatcher = "waiting"]
    /\ Go(p, "running")
    /\ UNCHANGED <<registered, epochs, schedulers, waiter, waiting, attempt>>

TokenReady(p) ==
    /\ token[p].previous # Nobody /\ ~token[p].ready
    /\ token[token[p].previous].drained
    /\ token' = [token EXCEPT ![p].ready = TRUE]
    /\ UNCHANGED <<registered, epochs, schedulers, waiter, waiting, coordinator, scheduler, pool, attempt>>

TokenDrained(p) ==
    /\ token[p].ready /\ token[p].done /\ ~token[p].drained
    /\ token' = [token EXCEPT ![p].drained = TRUE]
    /\ UNCHANGED <<registered, epochs, schedulers, waiter, waiting, coordinator, scheduler, pool, attempt>>
-----------------------------------------------------------------------------
(* The scheduler: its dispatcher, its workers, and the goroutines that       *)
(* follow the revocation and the end of the workers.                         *)

Alive(p) == scheduler[p].dispatcher \in {"waiting", "ready"}

RevokeSeen(p) ==
    /\ Alive(p) /\ token[p].revoked /\ ~scheduler[p].cancelled
    /\ scheduler' = [scheduler EXCEPT ![p].cancelled = TRUE]
    /\ UNCHANGED <<registered, epochs, schedulers, waiter, waiting, coordinator, token, pool, attempt>>

OwnerReady(p) ==
    /\ scheduler[p].dispatcher = "waiting" /\ token[p].ready
    /\ scheduler' = [scheduler EXCEPT ![p].dispatcher = "ready"]
    /\ UNCHANGED <<registered, epochs, schedulers, waiter, waiting, coordinator, token, pool, attempt>>

(* select picks at random, so a job may still be handed out after the        *)
(* context is cancelled.                                                     *)
Dispatch(p) ==
    /\ scheduler[p].dispatcher = "ready"
    /\ scheduler[p].busy + scheduler[p].exited < Workers
    /\ scheduler' = [scheduler EXCEPT ![p].busy = @ + 1]
    /\ UNCHANGED <<registered, epochs, schedulers, waiter, waiting, coordinator, token, pool, attempt>>

(* The probe returns; the worker reports it, or returns when cancelled.      *)
FinishProbe(p) ==
    /\ scheduler[p].busy > 0
    /\ \/ scheduler' = [scheduler EXCEPT ![p].busy = @ - 1]
       \/ /\ scheduler[p].cancelled
          /\ scheduler' = [scheduler EXCEPT ![p].busy = @ - 1, ![p].exited = @ + 1]
    /\ UNCHANGED <<registered, epochs, schedulers, waiter, waiting, coordinator, token, pool, attempt>>

WorkerExits(p) ==
    /\ scheduler[p].cancelled
    /\ scheduler[p].busy + scheduler[p].exited < Workers
    /\ scheduler' = [scheduler EXCEPT ![p].exited = @ + 1]
    /\ UNCHANGED <<registered, epochs, schedulers, waiter, waiting, coordinator, token, pool, attempt>>

DispatcherExits(p) ==
    /\ Alive(p) /\ scheduler[p].cancelled
    /\ scheduler' = [scheduler EXCEPT ![p].dispatcher = "closed"]
    /\ UNCHANGED <<registered, epochs, schedulers, waiter, waiting, coordinator, token, pool, attempt>>

Stopped(p) == scheduler[p].dispatcher = "closed" /\ scheduler[p].exited = Workers

(* A plausible bug: the token is done when the dispatcher is, whatever the   *)
(* workers still run.                                                        *)
MarkDoneWithDispatcher(p) ==
    /\ scheduler[p].dispatcher = "closed" /\ ~token[p].done
    /\ token' = [token EXCEPT ![p].done = TRUE]
    /\ UNCHANGED <<registered, epochs, schedulers, waiter, waiting, coordinator, scheduler, pool, attempt>>

MarkDone(p) ==
    /\ Stopped(p) /\ ~token[p].done
    /\ token' = [token EXCEPT ![p].done = TRUE]
    /\ UNCHANGED <<registered, epochs, schedulers, waiter, waiting, coordinator, scheduler, pool, attempt>>
-----------------------------------------------------------------------------
(* Dropping the coordinator: tryCleanupScheduler and its drain waiter.       *)

Unused == registered = {} /\ epochs = {}

(* cleanupState *)
Idle(c) ==
    /\ coordinator[c].owner = Nobody
    /\ coordinator[c].drain # Nobody => token[coordinator[c].drain].drained

(* The part under schedulerAccess, once the group was found unused.          *)
TryDelete ==
    LET c == schedulers IN
    IF c = Nobody \/ (~Idle(c) /\ waiter = c) THEN UNCHANGED <<schedulers, waiter, waiting>>
    ELSE IF Idle(c)
    THEN schedulers' = Nobody /\ waiter' = Nobody /\ UNCHANGED waiting
    ELSE /\ waiter' = c
         /\ waiting' = waiting \cup {[of |-> c, on |-> coordinator[c].drain]}
         /\ UNCHANGED schedulers

(* A plausible bug: the waiter trusts the check made before it slept.        *)
DrainWaiterUnchecked(w) ==
    /\ token[w.on].drained
    /\ waiting' = waiting \ {w}
    /\ waiter' = IF waiter = w.of THEN Nobody ELSE waiter
    /\ schedulers' = IF schedulers = w.of THEN Nobody ELSE schedulers
    /\ UNCHANGED <<registered, epochs, coordinator, token, scheduler, pool, attempt>>

DrainWaiter(w) ==
    /\ token[w.on].drained
    /\ waiting' = waiting \ {w}
    /\ waiter' = IF waiter = w.of THEN Nobody ELSE waiter
    /\ schedulers' = IF schedulers = w.of /\ Unused /\ Idle(w.of) THEN Nobody ELSE schedulers
    /\ UNCHANGED <<registered, epochs, coordinator, token, scheduler, pool, attempt>>
-----------------------------------------------------------------------------
(* OnRuntimeEpochRetire and Close of a pool, and the release of a lease.     *)

Retired(p) ==
    pool[p].pc \in {"retiring", "released", "closing", "unregistered", "eligible", "closed"}

Holding(d) == attempt[d].pc = "holding"
EpochLeased(p) == \E d \in Attempts : Holding(d) /\ attempt[d].of = p

(* The pool is registered, so the cleanup RetireEpoch tries does nothing.    *)
RetireEpoch(p) ==
    /\ pool[p].pc \in {"active", "running"}
    /\ epochs' = IF EpochLeased(p) THEN epochs ELSE epochs \ {p}
    /\ Go(p, "retiring")
    /\ UNCHANGED <<registered, schedulers, waiter, waiting, coordinator, token, scheduler, attempt>>

(* A pool that was never published has no epoch and no scheduler.            *)
Abandon(p) ==
    /\ At(p, "prepared")
    /\ Go(p, "released")
    /\ UNCHANGED <<registered, epochs, schedulers, waiter, waiting, coordinator, token, scheduler, attempt>>

Release(p) ==
    /\ At(p, "retiring")
    /\ LET c == pool[p].of IN
       IF /\ token[p].of # Nobody
          /\ coordinator[c].owner = p /\ coordinator[c].generation = token[p].generation
       THEN /\ token' = [token EXCEPT ![p].revoked = TRUE]
            /\ coordinator' = [coordinator EXCEPT ![c].owner = Nobody]
       ELSE UNCHANGED <<token, coordinator>>
    /\ Go(p, "released")
    /\ UNCHANGED <<registered, epochs, schedulers, waiter, waiting, scheduler, attempt>>

CloseScheduler(p) ==
    /\ At(p, "released")
    /\ scheduler' = [scheduler EXCEPT ![p].cancelled = scheduler[p].dispatcher # "none"]
    /\ Go(p, "closing")
    /\ UNCHANGED <<registered, epochs, schedulers, waiter, waiting, coordinator, token, attempt>>

(* Close waits for the dispatcher and the workers before it unregisters.     *)
UnregisterGroup(p) ==
    /\ At(p, "closing")
    /\ scheduler[p].dispatcher # "none" => Stopped(p)
    /\ registered' = registered \ {p}
    /\ Go(p, IF registered = {p} THEN "unregistered" ELSE "closed")
    /\ UNCHANGED <<epochs, schedulers, waiter, waiting, coordinator, token, scheduler, attempt>>

CheckUnused(p) ==
    /\ At(p, "unregistered")
    /\ Go(p, IF Unused THEN "eligible" ELSE "closed")
    /\ UNCHANGED <<registered, epochs, schedulers, waiter, waiting, coordinator, token, scheduler, attempt>>

Cleanup(p) ==
    /\ At(p, "eligible")
    /\ TryDelete
    /\ Go(p, "closed")
    /\ UNCHANGED <<registered, epochs, coordinator, token, scheduler, attempt>>

(* The last lease of a retired epoch takes the epoch with it.                *)
ReleaseEpoch(d) ==
    /\ Holding(d)
    /\ LET p == attempt[d].of IN
       epochs' = IF Retired(p) /\ \A e \in Attempts \ {d} : Holding(e) => attempt[e].of # p
                 THEN epochs \ {p} ELSE epochs
    /\ attempt' = [attempt EXCEPT ![d] = [pc |-> "released", of |-> Nobody]]
    /\ UNCHANGED <<registered, schedulers, waiter, waiting, coordinator, token, scheduler, pool>>

DialChecksUnused(d) ==
    /\ attempt[d].pc = "released"
    /\ attempt' = [attempt EXCEPT ![d].pc = IF Unused THEN "eligible" ELSE "done"]
    /\ UNCHANGED <<registered, epochs, schedulers, waiter, waiting, coordinator, token, scheduler, pool>>

DialCleanup(d) ==
    /\ attempt[d].pc = "eligible"
    /\ TryDelete
    /\ attempt' = [attempt EXCEPT ![d].pc = "done"]
    /\ UNCHANGED <<registered, epochs, coordinator, token, scheduler, pool>>
-----------------------------------------------------------------------------
PoolStep(p) ==
    \/ RegisterGroup(p) \/ \E c \in Coordinators : Lookup(p, c)
    \/ Publish(p) \/ StartScheduler(p) \/ RetireEpoch(p) \/ Abandon(p)
    \/ Release(p) \/ CloseScheduler(p) \/ UnregisterGroup(p)
    \/ CheckUnused(p) \/ Cleanup(p)

DialStep(d) ==
    \/ \E p \in Pools : AcquireEpoch(d, p)
    \/ ReleaseEpoch(d) \/ DialChecksUnused(d) \/ DialCleanup(d)

TokenStep(p) == TokenReady(p) \/ TokenDrained(p) \/ MarkDone(p)

SchedulerStep(p) ==
    \/ RevokeSeen(p) \/ OwnerReady(p) \/ Dispatch(p) \/ FinishProbe(p)
    \/ WorkerExits(p) \/ DispatcherExits(p)

Next ==
    \/ \E p \in Pools : PoolStep(p) \/ TokenStep(p) \/ SchedulerStep(p)
    \/ \E d \in Attempts : DialStep(d)
    \/ \E w \in waiting : DrainWaiter(w)

Spec == Init /\ [][Next]_vars

(* What each goroutine does once it is under way: the one that closes the    *)
(* pool, the dispatcher, the workers, and an attempt that gives up its lease. *)
CloseStep(p) ==
    Release(p) \/ CloseScheduler(p) \/ UnregisterGroup(p) \/ CheckUnused(p) \/ Cleanup(p)
DispatcherStep(p) == OwnerReady(p) \/ DispatcherExits(p)
WorkerStep(p) == FinishProbe(p) \/ WorkerExits(p)
ReleaseStep(d) == ReleaseEpoch(d) \/ DialChecksUnused(d) \/ DialCleanup(d)

(* Goroutines run, probes return (they have a timeout) and a pool that has   *)
(* begun to retire goes on; nobody has to register, publish or retire.       *)
Fairness ==
    /\ \A p \in Pools :
       /\ WF_vars(CloseStep(p)) /\ WF_vars(TokenStep(p)) /\ WF_vars(RevokeSeen(p))
       /\ WF_vars(DispatcherStep(p)) /\ WF_vars(WorkerStep(p))
    /\ \A d \in Attempts : WF_vars(ReleaseStep(d))
    /\ WF_vars(\E w \in waiting : DrainWaiter(w))

FairSpec == Spec /\ Fairness
-----------------------------------------------------------------------------
TypeOK ==
    /\ registered \subseteq Pools /\ epochs \subseteq Pools
    /\ schedulers \in Coordinators \cup {Nobody} /\ waiter \in Coordinators \cup {Nobody}
    /\ waiting \subseteq [of : Coordinators, on : Pools]
    /\ coordinator \in [Coordinators -> Coordinator]
    /\ token \in [Pools -> Token]
    /\ scheduler \in [Pools -> Scheduler]
    /\ pool \in [Pools -> PoolState]
    /\ attempt \in [Attempts -> AttemptState]

(* The probes of two schedulers of one coordinator never overlap: a token is *)
(* ready only when every earlier one has drained (Claim, newOwnedScheduler). *)
OneProber ==
    \A p, q \in Pools :
        p # q /\ token[p].of = token[q].of /\ scheduler[p].busy > 0 => scheduler[q].busy = 0

(* A claimed token becomes ready: the handover always completes.             *)
HandoverCompletes == \A p \in Pools : token[p].of # Nobody ~> token[p].ready

(* A drain waiter never takes the coordinator from a pool that looked it up, *)
(* however long ago the group was unused: "drain waiter deleted coordinator  *)
(* after group was re-registered" is the failure the test reports.           *)
WaiterKeepsCoordinator ==
    [][\A p \in registered :
          (waiting' # waiting /\ schedulers # Nobody /\ schedulers = pool[p].of)
              => schedulers' = schedulers]_vars

(* "Register before looking up the coordinator so an old drain waiter cannot *)
(* delete it between lookup and publication" (outbound.go:387-388): the      *)
(* coordinator of a registered pool is the group's.                          *)
CoordinatorKept ==
    \A p \in registered : pool[p].of # Nobody => schedulers = pool[p].of
-----------------------------------------------------------------------------
(* The inductive invariant behind OneProber.                                 *)

Claims(p) == token[p].of # Nobody

(* A pool that has not started its scheduler has claimed nothing.            *)
ClaimOnce ==
    \A p \in Pools :
        /\ pool[p].pc \in {"none", "registered", "prepared", "active"} =>
               token[p] = NoToken /\ scheduler[p] = NoScheduler
        /\ pool[p].pc \in {"prepared", "active"} => pool[p].of \in Coordinators
        /\ ~Claims(p) => token[p] = NoToken /\ scheduler[p].dispatcher = "none"

(* The tokens of a coordinator are numbered, each knows its predecessor, and *)
(* the coordinator knows the last.                                           *)
Numbered ==
    /\ \A c \in Coordinators :
        LET last == coordinator[c].drain IN
        /\ coordinator[c].owner \in {Nobody, last}
        /\ IF last = Nobody THEN coordinator[c].generation = 0
           ELSE token[last].of = c /\ token[last].generation = coordinator[c].generation
    /\ \A p \in Pools : Claims(p) =>
        /\ token[p].generation \in 1..coordinator[token[p].of].generation
        /\ LET before == token[p].previous IN
           IF before = Nobody THEN token[p].generation = 1
           ELSE token[before].of = token[p].of /\ token[before].generation + 1 = token[p].generation
    /\ \A p, q \in Pools :
        p # q /\ Claims(p) /\ token[p].of = token[q].of => token[p].generation # token[q].generation

(* The drain barrier: a ready token follows drained ones only, and a drained *)
(* token's scheduler has stopped.                                            *)
Barrier ==
    /\ \A p, q \in Pools :
        Claims(p) /\ token[p].of = token[q].of /\ token[p].generation < token[q].generation
          /\ token[q].ready => token[p].drained
    /\ \A p \in Pools :
        /\ token[p].drained => token[p].ready /\ token[p].done
        /\ token[p].done => Stopped(p)
        /\ scheduler[p].dispatcher = "ready" \/ scheduler[p].busy > 0 => token[p].ready
        /\ scheduler[p].busy + scheduler[p].exited <= Workers

OwnershipInv == TypeOK /\ ClaimOnce /\ Numbered /\ Barrier
=============================================================================
