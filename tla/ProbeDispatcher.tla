-------------------------- MODULE ProbeDispatcher --------------------------
(***************************************************************************)
(* The probe queue of one ProbeScheduler (scheduler.go): the dispatcher    *)
(* goroutine, which owns the queue, its workers, and the callers that      *)
(* submit, cancel and remove probes.                                       *)
(*                                                                         *)
(* A key is pending (queued, perhaps already chosen for the next free      *)
(* worker), active (with a worker) or neither.  A submission for a key     *)
(* that is pending or active joins it; one that asks for a fresh run while *)
(* the key is active is kept in rerun until the active one completes.      *)
(* Each submission has one waiter, whose channel holds one result and is   *)
(* closed after it: a second send would panic the dispatcher.              *)
(*                                                                         *)
(* Time is abstracted: a queued probe is due or not yet due, and becomes   *)
(* due at any moment.  What a probe finds (and the streaks counted from    *)
(* it) only chooses the next due time, and cancelling a probe that runs    *)
(* only makes it return sooner; both are left out, as are names, delays    *)
(* and counters.                                                           *)
(***************************************************************************)
EXTENDS Naturals, Sequences, FiniteSets, FiniteSetsExt

CONSTANTS
    Keys,         \* ProbeKey values
    Callers,      \* calls of Submit, each with the waiter it creates
    Tasks,        \* the tasks each caller may submit
    Removals,     \* the sets of keys a removal can match
    SourceOf,     \* task.Source of each key, a number (the code sorts them)
    QueueSizes,   \* the queue sizes to consider
    ProbeWorkers, \* worker goroutines, and the capacity of s.done
    MaxBurst,     \* maxHighPriorityBurst
    Absent

Priorities == 1..4

Task ==
    [key : Keys, priority : Priorities, periodic : BOOLEAN, due : BOOLEAN, fresh : BOOLEAN]

ASSUME DispatcherConstants ==
    /\ Tasks \in [Callers -> SUBSET Task]
    /\ Removals \subseteq SUBSET Keys
    /\ SourceOf \in [Keys -> Nat \ {0}]
    /\ QueueSizes \subseteq Nat \ {0} /\ ProbeWorkers \in Nat \ {0}
    /\ MaxBurst \in Nat
    /\ Absent \notin Keys

VARIABLES
    queueSize, \* s.queueSize, which never changes
    pending,   \* keys of the pending map
    active,    \* keys of the active map
    rerun,     \* keys of the rerun map
    entry,     \* the scheduledProbe of a pending or active key
    again,     \* the scheduledProbe of a key in rerun
    order,     \* the keys of pending and rerun by SubmittedAt
    dispatch,  \* the key chosen for the next free worker, or Absent
    rotation,  \* highBurst, forcedPriority and lastSource
    loop,      \* the dispatcher: in its select, or returned
    busy,      \* keys a worker is running
    done,      \* the buffered channel of completions
    owner,     \* ownership: token ready, scheduler context cancelled
    call       \* each caller: progress and task

probeVars == <<queueSize, pending, active, rerun, entry, again, order, dispatch, rotation, loop,
               busy, done, owner, call>>

Entry == [waiters : SUBSET Callers, priority : Priorities, periodic : BOOLEAN, due : BOOLEAN]
NoEntry == [waiters |-> {}, priority |-> 1, periodic |-> FALSE, due |-> FALSE]

(* A submission is sent, then the dispatcher has its waiter.  Its caller may *)
(* give it up: "cancelling" until the dispatcher looks for the waiter, or     *)
(* "late" if the answer came first; "cancelled" if the waiter was not found. *)
(* covered: the waiter was with its entry when a worker took it.             *)
Call ==
    [pc : {"none", "sent", "waiting", "cancelling", "late", "cancelled"},
     task : Task \cup {Absent}, covered : BOOLEAN]
NoCall == [pc |-> "none", task |-> Absent, covered |-> FALSE]

(* newOwnedProbeScheduler: without ownership the queue is ready at once.     *)
ProbeInit ==
    /\ queueSize \in QueueSizes
    /\ pending = {} /\ active = {} /\ rerun = {}
    /\ entry = [k \in Keys |-> NoEntry] /\ again = [k \in Keys |-> NoEntry]
    /\ order = <<>> /\ dispatch = Absent
    /\ rotation = [burst |-> 0, forced |-> 0, last |-> [p \in Priorities |-> 0]]
    /\ loop = "select" /\ busy = {} /\ done = <<>>
    /\ owner \in {[ready |-> r, cancelled |-> FALSE] : r \in BOOLEAN}
    /\ call = [c \in Callers |-> NoCall]

-----------------------------------------------------------------------------
(* Which probe is next: nextScheduledProbe, over the queue p, its entries e  *)
(* and their order o.                                                        *)

Ready(p, e) == {k \in p : e[k].due}
ReadyPriorities(p, e) == {e[k].priority : k \in Ready(p, e)}
LowerPriorities(p, e) == ReadyPriorities(p, e) \ {Max(ReadyPriorities(p, e))}

(* A plausible bug: the burst is never interrupted.                          *)
NeverGivesWay(p, e) == FALSE

(* After a burst of the highest priority a lower one has its turn, the lower *)
(* ones in rotation.                                                         *)
GivesWay(p, e) == rotation.burst >= MaxBurst /\ LowerPriorities(p, e) # {}

ForcedPriority(p, e) ==
    LET above == {q \in LowerPriorities(p, e) : q > rotation.forced}
    IN  Min(IF above # {} THEN above ELSE LowerPriorities(p, e))

SelectedPriority(p, e) ==
    IF GivesWay(p, e) THEN ForcedPriority(p, e) ELSE Max(ReadyPriorities(p, e))

(* Sources take turns, if the last one is still among those that are ready.  *)
SelectedSource(p, e, q) ==
    LET sources == {SourceOf[k] : k \in {j \in Ready(p, e) : e[j].priority = q}}
        later == {s \in sources : s > rotation.last[q]}
    IN  Min(IF rotation.last[q] \in sources /\ later # {} THEN later ELSE sources)

Position(o, k) == CHOOSE i \in 1..Len(o) : o[i] = k

(* The oldest of the ready probes of the selected priority and source.       *)
IsNext(k, p, e, o) ==
    LET q == SelectedPriority(p, e)
        s == SelectedSource(p, e, q)
        same == {j \in Ready(p, e) : e[j].priority = q /\ SourceOf[j] = s}
    IN  k \in same /\ \A j \in same : Position(o, k) <= Position(o, j)

(* highBurst is only compared with its limit, so it is counted up to there.  *)
NextRotation(p, e) ==
    LET q == SelectedPriority(p, e)
    IN  [burst |-> IF GivesWay(p, e) THEN 0
                   ELSE IF rotation.burst < MaxBurst THEN rotation.burst + 1 ELSE MaxBurst,
         forced |-> IF GivesWay(p, e) THEN q ELSE rotation.forced,
         last |-> [rotation.last EXCEPT ![q] = SelectedSource(p, e, q)]]

(* The head of the loop, which the dispatcher reaches after every case of    *)
(* its select: d is the choice that case has left.                           *)
LoopHead(d) ==
    IF d = Absent /\ owner'.ready /\ Ready(pending', entry') # {}
    THEN /\ dispatch' \in {k \in Ready(pending', entry') : IsNext(k, pending', entry', order')}
         /\ rotation' = NextRotation(pending', entry')
    ELSE dispatch' = d /\ UNCHANGED rotation

(* A case of the select: the dispatcher has not returned.                    *)
Selects == loop = "select" /\ UNCHANGED loop

(* Time passes.  The timer wakes the loop if nothing is chosen.              *)
BecomesDue(k) ==
    /\ \/ /\ k \in pending /\ ~entry[k].due
          /\ entry' = [entry EXCEPT ![k].due = TRUE] /\ UNCHANGED again
       \/ /\ k \in rerun /\ ~again[k].due
          /\ again' = [again EXCEPT ![k].due = TRUE] /\ UNCHANGED entry
    /\ UNCHANGED <<pending, active, rerun, order, dispatch, rotation, loop, busy,
                   done, owner, call>>

TimerFires ==
    /\ Selects /\ dispatch = Absent /\ owner.ready /\ Ready(pending, entry) # {}
    /\ UNCHANGED <<pending, active, rerun, entry, again, order, busy, done, owner,
                   call>>
    /\ LoopHead(dispatch)
-----------------------------------------------------------------------------
(* The callers: Submit and ProbeFuture.Cancel.  Submit hands its request to  *)
(* the dispatcher or gives up when the scheduler's context is cancelled.     *)

(* Submit's IsOwner test is SchedulerOwnership's: a submission it rejects    *)
(* changes nothing here.                                                     *)
Submit(c, t) ==
    /\ call[c].pc = "none"
    /\ call' = [call EXCEPT ![c].pc = "sent", ![c].task = t]
    /\ UNCHANGED <<pending, active, rerun, entry, again, order, dispatch, rotation, loop,
                   busy, done, owner>>

(* ProbeFuture.Cancel, at most once.                                         *)
Cancel(c) ==
    /\ call[c].pc = "waiting"
    /\ call' = [call EXCEPT ![c].pc = "cancelling"]
    /\ UNCHANGED <<pending, active, rerun, entry, again, order, dispatch, rotation, loop,
                   busy, done, owner>>

(* case <-s.ctx.Done() of Submit and of Cancel: nothing is sent.             *)
Abort(c) ==
    /\ owner.cancelled /\ call[c].pc \in {"sent", "late", "cancelling"}
    /\ call' = [call EXCEPT ![c] = IF call[c].pc = "cancelling"
                                   THEN [call[c] EXCEPT !.pc = "cancelled"] ELSE NoCall]
    /\ UNCHANGED <<pending, active, rerun, entry, again, order, dispatch, rotation, loop,
                   busy, done, owner>>

-----------------------------------------------------------------------------
(* The cases of the dispatcher's select that change the queue.               *)

QueueFull(p, r) == Cardinality(p) + Cardinality(r) >= queueSize

(* mergeProbeTask: the earlier due time, the higher priority, and periodic   *)
(* if either is.                                                             *)
Merged(e, t, c) ==
    [waiters |-> e.waiters \cup {c},
     priority |-> IF t.priority > e.priority THEN t.priority ELSE e.priority,
     periodic |-> e.periodic \/ t.periodic,
     due |-> e.due \/ t.due]

NewEntry(t, c) ==
    [waiters |-> {c}, priority |-> t.priority, periodic |-> t.periodic, due |-> t.due]

Without(k) == LET other(x) == x # k IN SelectSeq(order, other)
WithoutAll(K) == LET other(x) == x \notin K IN SelectSeq(order, other)

(* finish: every waiter of a set of callers receives its result, and the     *)
(* caller may submit again, once a cancellation on its way has arrived.      *)
Answered(W) ==
    [c \in Callers |->
        IF c \notin W THEN call[c]
        ELSE IF call[c].pc = "cancelling" THEN [NoCall EXCEPT !.pc = "late", !.task = call[c].task]
        ELSE NoCall]

(* acceptSubmission, for a key that is not queued: full, or a new entry.     *)
AcceptNew(c, t) ==
    \/ /\ QueueFull(pending, rerun)
       /\ call' = [call EXCEPT ![c] = NoCall]
       /\ UNCHANGED <<pending, entry, order>>
    \/ /\ ~QueueFull(pending, rerun)
       /\ pending' = pending \cup {t.key}
       /\ entry' = [entry EXCEPT ![t.key] = NewEntry(t, c)]
       /\ order' = Append(order, t.key)
       /\ call' = [call EXCEPT ![c].pc = "waiting"]

AcceptRerun(c, t) ==
    \/ /\ t.key \in rerun
       /\ again' = [again EXCEPT ![t.key] = Merged(again[t.key], t, c)]
       /\ call' = [call EXCEPT ![c].pc = "waiting"]
       /\ UNCHANGED <<rerun, order>>
    \/ /\ t.key \notin rerun /\ QueueFull(pending, rerun)
       /\ call' = [call EXCEPT ![c] = NoCall]
       /\ UNCHANGED <<rerun, again, order>>
    \/ /\ t.key \notin rerun /\ ~QueueFull(pending, rerun)
       /\ rerun' = rerun \cup {t.key}
       /\ again' = [again EXCEPT ![t.key] = NewEntry(t, c)]
       /\ order' = Append(order, t.key)
       /\ call' = [call EXCEPT ![c].pc = "waiting"]

(* An active probe takes the waiter, but nothing else of the task.           *)
Attach(c, t) ==
    /\ entry' = [entry EXCEPT ![t.key].waiters = @ \cup {c}]
    /\ call' = [call EXCEPT ![c].pc = "waiting"]

(* A plausible bug: FreshAfterCurrent is not looked at.                      *)
AcceptUnfresh(c) ==
    /\ Selects /\ call[c].pc = "sent"
    /\ LET t == call[c].task IN
       \/ /\ t.key \in pending
          /\ entry' = [entry EXCEPT ![t.key] = Merged(entry[t.key], t, c)]
          /\ call' = [call EXCEPT ![c].pc = "waiting"]
          /\ UNCHANGED <<pending, rerun, again, order>>
       \/ /\ t.key \in active
          /\ Attach(c, t) /\ UNCHANGED <<pending, rerun, again, order>>
       \/ /\ t.key \notin pending \cup active
          /\ AcceptNew(c, t) /\ UNCHANGED <<rerun, again>>
    /\ UNCHANGED <<active, busy, done, owner>>
    /\ LoopHead(dispatch)

(* case request := <-s.submit                                                *)
Accept(c) ==
    /\ Selects /\ call[c].pc = "sent"
    /\ LET t == call[c].task IN
       \/ /\ t.key \in pending
          /\ entry' = [entry EXCEPT ![t.key] = Merged(entry[t.key], t, c)]
          /\ call' = [call EXCEPT ![c].pc = "waiting"]
          /\ UNCHANGED <<pending, rerun, again, order>>
       \/ /\ t.key \in active /\ ~t.fresh
          /\ Attach(c, t) /\ UNCHANGED <<pending, rerun, again, order>>
       \/ /\ t.key \in active /\ t.fresh
          /\ AcceptRerun(c, t) /\ UNCHANGED <<pending, entry>>
       \/ /\ t.key \notin pending \cup active
          /\ AcceptNew(c, t) /\ UNCHANGED <<rerun, again>>
    /\ UNCHANGED <<active, busy, done, owner>>
    /\ LoopHead(dispatch)

(* case jobChannel <- job: a worker that is free takes the chosen probe.  A  *)
(* worker whose completion found s.done full is not free.                    *)
FreeWorker ==
    LET held == IF Len(done) > ProbeWorkers THEN Len(done) - ProbeWorkers ELSE 0
    IN  Cardinality(busy) + held < ProbeWorkers

HandOff ==
    /\ Selects /\ dispatch # Absent /\ FreeWorker
    /\ pending' = pending \ {dispatch}
    /\ active' = active \cup {dispatch}
    /\ order' = Without(dispatch)
    /\ busy' = busy \cup {dispatch}
    /\ call' = [c \in Callers |-> IF c \in entry[dispatch].waiters
                                  THEN [call[c] EXCEPT !.covered = TRUE] ELSE call[c]]
    /\ UNCHANGED <<rerun, entry, again, done, owner>>
    /\ LoopHead(Absent)

(* A plausible bug: the periodic task does not outlive a rerun of its key.   *)
NextEntryOf(k) ==
    IF k \in rerun THEN again[k] ELSE [entry[k] EXCEPT !.waiters = {}, !.due = FALSE]

(* What a completed key goes on as: the rerun, which inherits the interval,  *)
(* or the next round of a periodic task.                                     *)
NextEntry(k) ==
    IF k \in rerun
    THEN [again[k] EXCEPT !.periodic = again[k].periodic \/ entry[k].periodic]
    ELSE [entry[k] EXCEPT !.waiters = {}, !.due = FALSE]

(* case completion := <-s.done                                               *)
Complete ==
    /\ Selects /\ done # <<>>
    /\ done' = Tail(done)
    /\ LET k == Head(done)
           next == NextEntry(k)
           recurs == k \in rerun \/ entry[k].periodic
           room == ~QueueFull(pending, rerun \ {k})
       IN  /\ active' = active \ {k}
           /\ rerun' = rerun \ {k}
           /\ again' = [again EXCEPT ![k] = NoEntry]
           /\ IF recurs /\ room
              THEN /\ pending' = pending \cup {k}
                   /\ entry' = [entry EXCEPT ![k] = next]
                   /\ order' = IF k \in rerun THEN order ELSE Append(order, k)
                   /\ call' = Answered(entry[k].waiters)
              ELSE /\ entry' = [entry EXCEPT ![k] = NoEntry]
                   /\ order' = Without(k)
                   /\ call' = Answered(entry[k].waiters \cup again[k].waiters)
                   /\ UNCHANGED pending
    /\ UNCHANGED <<busy, owner>>
    /\ LoopHead(dispatch)

(* A plausible bug: a chosen probe that has left the queue is kept.          *)
StillChosenAnyway == dispatch

(* The chosen probe is given up when it has left the queue.                  *)
StillChosen == IF dispatch \in pending' THEN dispatch ELSE Absent

Forget(e, k, c) == [e EXCEPT ![k].waiters = @ \ {c}]
Deserted(e, k, c) == e[k].waiters = {c} /\ ~e[k].periodic

(* case cancellation := <-s.cancelWaiter: cancelProbeWaiter looks at the     *)
(* first map that has the key, and only there.                               *)
CancelWaiter(c) ==
    /\ Selects /\ call[c].pc \in {"cancelling", "late"}
    /\ LET k == call[c].task.key
           here == IF k \in pending \cup (active \ rerun) THEN entry ELSE again
           found == k \in pending \cup active /\ c \in here[k].waiters
           left == found /\ Deserted(here, k, c)
       IN  /\ call' = [call EXCEPT ![c] =
                          IF found \/ call[c].pc = "late" THEN NoCall
                          ELSE [call[c] EXCEPT !.pc = "cancelled"]]
           /\ pending' = IF left THEN pending \ {k} ELSE pending
           /\ rerun' = IF left THEN rerun \ {k} ELSE rerun
           /\ entry' = IF ~found \/ k \in rerun THEN entry
                       ELSE IF left /\ k \in pending THEN [entry EXCEPT ![k] = NoEntry]
                       ELSE Forget(entry, k, c)
           /\ again' = IF ~found \/ k \notin rerun THEN again
                       ELSE IF left THEN [again EXCEPT ![k] = NoEntry] ELSE Forget(again, k, c)
           /\ order' = IF left THEN Without(k) ELSE order
    /\ UNCHANGED <<active, busy, done, owner>>
    /\ LoopHead(StillChosen)

Waiting(e, K) == UNION {e[k].waiters : k \in K}
Dropped(e, K) == [k \in Keys |-> IF k \in K THEN NoEntry ELSE e[k]]

(* case removal := <-s.remove: removeProbes drops what is queued and cancels *)
(* what runs.                                                                *)
Remove(K) ==
    /\ Selects
    /\ call' = Answered(Waiting(entry, pending \cap K) \cup Waiting(again, rerun \cap K))
    /\ pending' = pending \ K
    /\ rerun' = rerun \ K
    /\ entry' = Dropped(entry, pending \cap K)
    /\ again' = Dropped(again, K)
    /\ order' = WithoutAll(K)
    /\ UNCHANGED <<active, busy, done, owner>>
    /\ LoopHead(StillChosen)

(* case <-ownerReadyChannel                                                  *)
ProbeOwnerReady ==
    /\ Selects /\ ~owner.ready
    /\ owner' = [owner EXCEPT !.ready = TRUE]
    /\ UNCHANGED <<pending, active, rerun, entry, again, order, busy, done, call>>
    /\ LoopHead(dispatch)

(* A plausible bug: the probes that run are cancelled and their waiters left.*)
StopQuietly ==
    /\ loop = "select" /\ owner.cancelled
    /\ loop' = "stopped"
    /\ call' = Answered(Waiting(entry, pending) \cup Waiting(again, rerun))
    /\ pending' = {} /\ active' = {} /\ rerun' = {}
    /\ entry' = Dropped(entry, Keys) /\ again' = Dropped(again, Keys)
    /\ order' = <<>> /\ dispatch' = Absent /\ busy' = {} /\ done' = <<>>
    /\ UNCHANGED <<rotation, owner>>

(* case <-s.ctx.Done(): the dispatcher returns and its deferred function     *)
(* answers everyone.  What the workers still do is seen by nobody (their end *)
(* is in SchedulerOwnership), so they are dropped here.                      *)
Stop ==
    /\ loop = "select" /\ owner.cancelled
    /\ loop' = "stopped"
    /\ call' = Answered(Waiting(entry, pending \cup active) \cup Waiting(again, rerun))
    /\ pending' = {} /\ active' = {} /\ rerun' = {}
    /\ entry' = Dropped(entry, Keys) /\ again' = Dropped(again, Keys)
    /\ order' = <<>> /\ dispatch' = Absent /\ busy' = {} /\ done' = <<>>
    /\ UNCHANGED <<rotation, owner>>

-----------------------------------------------------------------------------
(* runWorker: a probe returns, on its own or because its context ended, and  *)
(* the completion is sent; a worker of a cancelled scheduler may instead     *)
(* return without sending it.                                                *)
ProbeReturns(k) ==
    /\ k \in busy
    /\ busy' = busy \ {k}
    /\ \/ done' = Append(done, k)
       \/ owner.cancelled /\ UNCHANGED done
    /\ UNCHANGED <<pending, active, rerun, entry, again, order, dispatch, rotation, loop,
                   owner, call>>

(* Close, or the revocation of the scheduler's ownership.                    *)
CancelScheduler ==
    /\ ~owner.cancelled
    /\ owner' = [owner EXCEPT !.cancelled = TRUE]
    /\ UNCHANGED <<pending, active, rerun, entry, again, order, dispatch, rotation, loop,
                   busy, done, call>>

ProbeStep ==
    \/ TimerFires \/ HandOff \/ Complete \/ ProbeOwnerReady \/ Stop
    \/ CancelScheduler
    \/ \E k \in Keys : BecomesDue(k) \/ ProbeReturns(k)
    \/ \E c \in Callers :
          \/ \E t \in Tasks[c] : Submit(c, t)
          \/ Abort(c) \/ Cancel(c) \/ Accept(c) \/ CancelWaiter(c)
    \/ \E K \in Removals : Remove(K)

Fixed == UNCHANGED queueSize
ProbeNext == ProbeStep /\ Fixed

ProbeSpec == ProbeInit /\ [][ProbeNext]_probeVars

(* The dispatcher runs, and its select leaves no ready case out for ever;    *)
(* probes return within their timeout; the clock goes on; the previous owner *)
(* drains.                                                                   *)
ProbeFairness ==
    /\ WF_probeVars(TimerFires /\ Fixed) /\ WF_probeVars(HandOff /\ Fixed)
    /\ WF_probeVars(Complete /\ Fixed) /\ WF_probeVars(ProbeOwnerReady /\ Fixed)
    /\ WF_probeVars(Stop /\ Fixed)
    /\ \A k \in Keys : /\ WF_probeVars(BecomesDue(k) /\ Fixed)
                       /\ WF_probeVars(ProbeReturns(k) /\ Fixed)

ProbeFairSpec == ProbeSpec /\ ProbeFairness
-----------------------------------------------------------------------------
(* Types.                                                                    *)
ProbeTypeOK ==
    /\ pending \subseteq Keys /\ active \subseteq Keys /\ rerun \subseteq Keys
    /\ entry \in [Keys -> Entry] /\ again \in [Keys -> Entry]
    /\ order \in Seq(Keys) /\ dispatch \in Keys \cup {Absent}
    /\ rotation.burst \in 0..MaxBurst /\ rotation.forced \in Priorities \cup {0}
    /\ loop \in {"select", "stopped"}
    /\ busy \subseteq Keys
    /\ done \in Seq(Keys)
    /\ owner \in [ready : BOOLEAN, cancelled : BOOLEAN]
    /\ call \in [Callers -> Call]

Open(c) == call[c].pc \in {"waiting", "cancelling", "cancelled"}
InEntry(c) == {k \in pending \cup active : c \in entry[k].waiters}
InRerun(c) == {k \in rerun : c \in again[k].waiters}

(* Every submission the dispatcher took and has not answered is waited for   *)
(* in exactly one place, and an answered one nowhere: finish, deferEntry,    *)
(* cancelProbeWaiter and the deferred function at the end never send twice   *)
(* on a waiter's channel, which they close after the first send, and forget  *)
(* none.                                                                     *)
AnsweredOnce ==
    \A c \in Callers :
        Cardinality(InEntry(c)) + Cardinality(InRerun(c)) = IF Open(c) THEN 1 ELSE 0

(* A caller that asked for a fresh run (FreshAfterCurrent) never waits for a *)
(* run that a worker had taken before the dispatcher received the request,   *)
(* and so never receives its outcome.                                        *)
FreshAnswer ==
    \A k \in active : \A c \in entry[k].waiters : call[c].task.fresh => call[c].covered

(* The three maps, the chosen probe and the workers agree: a key is queued   *)
(* or runs, never both, and a rerun waits only behind its own active run;    *)
(* the chosen probe is still queued, so a probe that was cancelled or        *)
(* removed while it waited for a worker is not started; every active key has *)
(* exactly one worker or one completion under way; and the queue keeps its   *)
(* limit although a completion puts keys back into it.                       *)
QueueConsistent ==
    /\ pending \cap active = {} /\ rerun \subseteq active
    /\ dispatch \in pending \cup {Absent}
    /\ Cardinality(pending) + Cardinality(rerun) <= queueSize
    /\ ~owner.cancelled => active = busy \cup {done[i] : i \in 1..Len(done)}
    /\ \A i \in 1..Len(done) : done[i] \notin busy
    /\ \A i, j \in 1..Len(done) : done[i] = done[j] => i = j

Recurs(k) ==
    \/ k \in pending \cup active /\ entry[k].periodic
    \/ k \in rerun /\ again[k].periodic

(* A recurring probe that is queued or runs stays scheduled whatever is      *)
(* submitted, cancelled or rerun for its key and however its runs end, until *)
(* it is removed, the scheduler stops, or the queue is full when its run     *)
(* completes.                                                                *)
RecurringKept ==
    [][\A k \in Keys : Recurs(k) =>
           \/ Recurs(k)' \/ Stop \/ QueueFull(pending, rerun \ {k})
           \/ \E K \in Removals : k \in K /\ Remove(K)]_probeVars

(* Every submission the dispatcher takes is answered, however much work of a *)
(* higher priority keeps coming: nextScheduledProbe gives lower priorities   *)
(* and other sources their turn.                                             *)
SubmissionsAnswered == \A c \in Callers : Open(c) ~> ~Open(c)
=============================================================================
