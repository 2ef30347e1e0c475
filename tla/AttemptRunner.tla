--------------------------- MODULE AttemptRunner ---------------------------
(***************************************************************************)
(* One call of AttemptRunner.Dial (retry.go): the candidates of a plan are *)
(* tried in order, the next one when an attempt fails or is deferred, or   *)
(* when the hedge timer fires; the first connection wins.  Every attempt   *)
(* runs in a goroutine with a breaker permit, an epoch lease and a lease   *)
(* on the execution bindings (execution_bridge.go), and ends by publishing *)
(* its evidence (Publications) and sending its result.                     *)
(*                                                                         *)
(* Attempt i is the i-th candidate and the i-th publisher: attempt ids are *)
(* unique (attemptSequence), so its evidence has a key of its own.         *)
(***************************************************************************)
EXTENDS Naturals, Sequences, FiniteSets, Publications

CONSTANTS
    N,    \* candidates of the plan
    None

ASSUME RunnerConstants ==
    /\ N \in Nat \ {0} /\ Publishers = 1..N
    /\ None \notin 1..N /\ None \notin {"ok", "error", "deferred"}

VARIABLES
    ctx,      \* the caller cancelled
    hedge,    \* the plan allows a second attempt beside a slow one
    run,      \* the loop of Dial
    results,  \* the buffered channel of results
    attempt,  \* the goroutines
    bindings  \* EpochBindingSet of the plan's revision

runnerVars == <<ctx, hedge, run, results, attempt, bindings>>
vars == <<runnerVars, calls>>

Attempts == 1..N

Result == {"ok", "error", "deferred"}
Outcome == {"none", "ok", "error", "timeout", "cancelled", "panic", "unbound"}

Attempt ==
    [pc : {"none", "started", "begun", "bound", "dialed", "checked",
           "completing", "sent", "gone"},
     outcome : Outcome, lease : BOOLEAN, exec : BOOLEAN, send : Result \cup {None}]
NoAttempt ==
    [pc |-> "none", outcome |-> "none", lease |-> FALSE, exec |-> FALSE, send |-> None]

RunnerInit ==
    /\ ctx = FALSE /\ hedge \in BOOLEAN
    /\ run = [returned |-> FALSE, started |-> 1, active |-> 1,
              timer |-> hedge /\ N > 1, winner |-> None]
    /\ results = <<>>
    /\ attempt = [i \in Attempts |-> IF i = 1 THEN [NoAttempt EXCEPT !.pc = "started"]
                                     ELSE NoAttempt]
    /\ bindings = [refs |-> 0, retiring |-> FALSE, freed |-> FALSE]

Init == PubInit /\ RunnerInit

(* parentCtx: cancelled by the caller, and by Dial when it returns.          *)
Cancelled == ctx \/ run.returned

At(i, pc) == attempt[i].pc = pc
-----------------------------------------------------------------------------
(* The goroutine of attempt i.                                               *)

Report(i, evidence) == Publish(i, evidence, "held")

(* The breaker defers the attempt, or the epoch cannot be leased and the     *)
(* permit goes back unused.                                                  *)
Deferred(i) ==
    /\ At(i, "started")
    /\ attempt' = [attempt EXCEPT ![i].pc = "sent", ![i].send = "deferred"]
    /\ results' = Append(results, i)
    /\ UNCHANGED <<ctx, hedge, run, bindings, calls>>

(* The attempt has its permit and leases the epoch.                          *)
BeginAttempt(i) ==
    /\ At(i, "started")
    /\ attempt' = [attempt EXCEPT ![i].pc = "begun", ![i].lease = TRUE]
    /\ UNCHANGED <<ctx, hedge, run, results, bindings, calls>>

(* resolve takes an execution lease unless the bindings are retiring.        *)
Resolve(i) ==
    /\ At(i, "begun")
    /\ IF bindings.retiring
       THEN /\ attempt' = [attempt EXCEPT ![i].pc = "completing", ![i].outcome = "unbound",
                                          ![i].send = "error"]
            /\ Report(i, "eligible")
            /\ UNCHANGED bindings
       ELSE /\ bindings' = [bindings EXCEPT !.refs = @ + 1]
            /\ attempt' = [attempt EXCEPT ![i].pc = "bound", ![i].exec = TRUE]
            /\ UNCHANGED calls
    /\ UNCHANGED <<ctx, hedge, run, results>>

Dialed(i, outcome) ==
    /\ At(i, "bound")
    /\ outcome \in {"ok", "error", "timeout"} \/ (outcome = "cancelled" /\ Cancelled)
    /\ attempt' = [attempt EXCEPT ![i].pc = "dialed", ![i].outcome = outcome]
    /\ UNCHANGED <<ctx, hedge, run, results, bindings, calls>>

(* EpochBindingSet.release: the last lease of a retired set frees it.        *)
Unref ==
    LET refs == IF bindings.refs > 0 THEN bindings.refs - 1 ELSE 0
    IN  bindings' = [bindings EXCEPT !.refs = refs,
                                     !.freed = @ \/ (bindings.retiring /\ refs = 0)]

(* The deferred calls release the execution lease, then publish and report.  *)
Panics(i) ==
    /\ At(i, "bound")
    /\ attempt' = [attempt EXCEPT ![i].pc = "completing", ![i].outcome = "panic",
                                  ![i].exec = FALSE, ![i].send = "error"]
    /\ Unref
    /\ Report(i, "eligible")
    /\ UNCHANGED <<ctx, hedge, run, results>>

(* A connection that comes after the cancellation is closed, not sent.       *)
CheckConnected(i) ==
    /\ At(i, "dialed")
    /\ IF attempt[i].outcome = "ok" /\ Cancelled
       THEN /\ attempt' = [attempt EXCEPT ![i].pc = "completing"]
            /\ Report(i, "deferred")
       ELSE /\ attempt' = [attempt EXCEPT ![i].pc = "checked"]
            /\ UNCHANGED calls
    /\ UNCHANGED <<ctx, hedge, run, results, bindings>>

(* A plausible bug: a cancelled attempt counts as a failure.                 *)
CheckNothing(i) ==
    /\ At(i, "checked")
    /\ LET o == attempt[i].outcome IN
       /\ attempt' = [attempt EXCEPT ![i].pc = "completing",
                                     ![i].send = IF o = "ok" THEN "ok" ELSE "error"]
       /\ Report(i, IF o = "timeout" THEN "quality" ELSE "eligible")
    /\ UNCHANGED <<ctx, hedge, run, results, bindings>>

(* An attempt that was cancelled is deferred, whatever the dial brought.     *)
CheckCancelled(i) ==
    /\ At(i, "checked")
    /\ LET o == attempt[i].outcome IN
       IF Cancelled
       THEN /\ attempt' = [attempt EXCEPT ![i].pc = "completing", ![i].send = "deferred"]
            /\ Report(i, "deferred")
       ELSE /\ attempt' = [attempt EXCEPT ![i].pc = "completing",
                                          ![i].send = IF o = "ok" THEN "ok" ELSE "error"]
            /\ Report(i, IF o = "timeout" THEN "quality" ELSE "eligible")
    /\ UNCHANGED <<ctx, hedge, run, results, bindings>>

(* A plausible bug: the channel is not buffered, and nobody receives.        *)
CompletedUnbuffered(i) ==
    /\ At(i, "completing") /\ Return(i)
    /\ attempt[i].send # None => ~run.returned
    /\ attempt' = [attempt EXCEPT ![i].pc = "sent", ![i].lease = FALSE]
    /\ results' = IF attempt[i].send = None THEN results ELSE Append(results, i)
    /\ UNCHANGED <<ctx, hedge, run, bindings>>

(* completeTransportAttempt returns and releases the epoch lease; the result *)
(* is sent, except that of a connection closed after the cancellation.       *)
Completed(i) ==
    /\ At(i, "completing") /\ Return(i)
    /\ attempt' = [attempt EXCEPT ![i].pc = "sent", ![i].lease = FALSE]
    /\ results' = IF attempt[i].send = None THEN results ELSE Append(results, i)
    /\ UNCHANGED <<ctx, hedge, run, bindings>>

(* A plausible bug: the execution lease is not given back.                   *)
ExitKeepsExecution(i) ==
    /\ At(i, "sent")
    /\ attempt' = [attempt EXCEPT ![i].pc = "gone", ![i].exec = FALSE]
    /\ UNCHANGED <<ctx, hedge, run, results, bindings, calls>>

Exit(i) ==
    /\ At(i, "sent")
    /\ attempt' = [attempt EXCEPT ![i].pc = "gone", ![i].exec = FALSE]
    /\ IF attempt[i].exec THEN Unref ELSE UNCHANGED bindings
    /\ UNCHANGED <<ctx, hedge, run, results, calls>>
-----------------------------------------------------------------------------
(* The loop of Dial.                                                         *)

Running == ~run.returned /\ run.active > 0

(* What the loop starts next, if a candidate is left; taken is 1 when it got *)
(* a result and 0 when the hedge timer fired, which is armed again while     *)
(* candidates are left.                                                      *)
NextStarted(taken) ==
    IF run.started < N
    THEN /\ run' = [run EXCEPT !.started = @ + 1, !.active = @ - taken + 1,
                               !.timer = IF taken = 0 THEN run.started + 1 < N ELSE @]
         /\ attempt' = [attempt EXCEPT ![run.started + 1].pc = "started"]
    ELSE /\ run' = [run EXCEPT !.active = @ - taken, !.timer = IF taken = 0 THEN FALSE ELSE @]
         /\ UNCHANGED attempt

HedgeTimer ==
    /\ Running /\ run.timer
    /\ NextStarted(0)
    /\ UNCHANGED <<ctx, hedge, results, bindings, calls>>

(* A plausible bug: a deferred candidate ends the dial.                      *)
ReceiveDeferredLast ==
    /\ Running /\ results # <<>>
    /\ LET i == Head(results) IN
       IF attempt[i].send = "ok"
       THEN /\ run' = [run EXCEPT !.returned = TRUE, !.winner = i, !.active = @ - 1]
            /\ UNCHANGED attempt
       ELSE IF attempt[i].send = "deferred"
       THEN run' = [run EXCEPT !.active = @ - 1] /\ UNCHANGED attempt
       ELSE NextStarted(1)
    /\ results' = Tail(results)
    /\ UNCHANGED <<ctx, hedge, bindings, calls>>

Receive ==
    /\ Running /\ results # <<>>
    /\ LET i == Head(results) IN
       IF attempt[i].send = "ok"
       THEN /\ run' = [run EXCEPT !.returned = TRUE, !.winner = i, !.active = @ - 1]
            /\ UNCHANGED attempt
       ELSE NextStarted(1)
    /\ results' = Tail(results)
    /\ UNCHANGED <<ctx, hedge, bindings, calls>>

CallerDone ==
    /\ Running /\ ctx
    /\ run' = [run EXCEPT !.returned = TRUE]
    /\ UNCHANGED <<ctx, hedge, results, attempt, bindings, calls>>

Exhausted ==
    /\ ~run.returned /\ run.active = 0
    /\ run' = [run EXCEPT !.returned = TRUE]
    /\ UNCHANGED <<ctx, hedge, results, attempt, bindings, calls>>

CallerCancels ==
    /\ ~ctx /\ ~run.returned
    /\ ctx' = TRUE
    /\ UNCHANGED <<hedge, run, results, attempt, bindings, calls>>

(* The revision is replaced: its bindings go when the last lease does.       *)
RetireBindings ==
    /\ ~bindings.retiring
    /\ bindings' = [bindings EXCEPT !.retiring = TRUE, !.freed = bindings.refs = 0]
    /\ UNCHANGED <<ctx, hedge, run, results, attempt, calls>>
-----------------------------------------------------------------------------
AttemptStep(i) ==
    \/ Deferred(i) \/ BeginAttempt(i) \/ Resolve(i)
    \/ \E o \in Outcome : Dialed(i, o)
    \/ Panics(i) \/ CheckConnected(i) \/ CheckCancelled(i) \/ Completed(i) \/ Exit(i)

DialStep == HedgeTimer \/ Receive \/ CallerDone \/ Exhausted

Next ==
    \/ \E i \in Attempts : AttemptStep(i)
    \/ DialStep \/ CallerCancels \/ RetireBindings

Spec == Init /\ [][Next]_vars

(* Every dial ends (attemptTimeout), goroutines run, and the loop's select   *)
(* takes what is ready.  Nobody has to cancel, retire or report.             *)
FairSpec ==
    /\ Spec
    /\ \A i \in Attempts : WF_vars(AttemptStep(i))
    /\ WF_vars(DialStep)
-----------------------------------------------------------------------------
TypeOK ==
    /\ calls \in [Publishers -> Call]
    /\ ctx \in BOOLEAN /\ hedge \in BOOLEAN
    /\ run \in [returned : BOOLEAN, started : 1..N, active : 0..N, timer : BOOLEAN,
                winner : Attempts \cup {None}]
    /\ results \in Seq(Attempts)
    /\ attempt \in [Attempts -> Attempt]
    /\ bindings \in [refs : 0..N, retiring : BOOLEAN, freed : BOOLEAN]

Ended(i) == attempt[i].pc \in {"sent", "gone"}
InChannel(i) == \E n \in DOMAIN results : results[n] = i

(* What an attempt holds at each point of its goroutine, and what it has     *)
(* told the ledger and the loop by then.                                     *)
HoldsByPhase(i) ==
    LET a == attempt[i]
        c == calls[i]
    IN  /\ c.pc = "idle" <=> (a.pc \in {"none", "started", "begun", "bound", "dialed", "checked"}
                              \/ (Ended(i) /\ a.outcome = "none"))
        /\ c.pc = "begun" <=> At(i, "completing")
        /\ c.permit = "held" <=> At(i, "completing")
        /\ c.pc = "idle" => c.permit = "none"
        /\ c.permit = "completed" => c.evidence = "eligible"
        /\ a.lease <=> a.pc \in {"begun", "bound", "dialed", "checked", "completing"}
        /\ a.pc \in {"bound", "dialed", "checked"} => a.exec
        /\ a.exec => a.pc \in {"bound", "dialed", "checked", "completing", "sent"}

ReportsByPhase(i) ==
    LET a == attempt[i]
        c == calls[i]
    IN  /\ a.pc \in {"none", "started", "begun", "bound"} => a.outcome = "none"
        /\ a.pc \in {"dialed", "checked", "completing"} => a.outcome # "none"
        /\ a.pc \in {"none", "started", "begun", "bound", "dialed", "checked"} => a.send = None
        /\ a.outcome = "cancelled" => Cancelled /\ (c.pc # "idle" => c.evidence = "deferred")
        /\ a.send = "ok" => a.outcome = "ok" /\ c.evidence = "eligible"
        /\ (a.send = None /\ (At(i, "completing") \/ Ended(i))) => Cancelled

(* The attempts the loop still counts: those that run and those whose result *)
(* it has not received.                                                      *)
Outstanding == {i \in Attempts : i <= run.started /\ (~Ended(i) \/ attempt[i].send = None \/ InChannel(i))}

(* The counters of Dial's loop agree with the goroutines and the channel.    *)
LoopCounts ==
    /\ \A i \in Attempts : At(i, "none") <=> i > run.started
    /\ \A n \in DOMAIN results : Ended(results[n]) /\ attempt[results[n]].send # None
    /\ \A n, m \in DOMAIN results : results[n] = results[m] => n = m
    /\ run.winner = None => run.active = Cardinality(Outstanding)
    /\ run.winner = None => \A i \in Attempts :
          i <= run.started /\ i \notin Outstanding => attempt[i].send \in {"error", "deferred"}
    /\ run.winner # None => run.returned
    /\ run.active = 0 /\ run.winner = None => run.started = N
    /\ run.returned => run.winner # None \/ ctx \/ run.active = 0

(* Without a hedge only the attempt started last can be under way.           *)
OneAtATime ==
    ~hedge =>
        /\ ~run.timer
        /\ \A i \in Attempts : i < run.started => Ended(i) /\ ~InChannel(i)

Executing == {i \in Attempts : attempt[i].exec}

(* EpochBindingSet counts the leases that are out.                           *)
BindingsCounted ==
    /\ bindings.refs = Cardinality(Executing)
    /\ bindings.freed <=> bindings.retiring /\ bindings.refs = 0

(* The state of a dial: what each goroutine holds and has reported fits its  *)
(* program point, and the counters of the loop and of the bindings fit the   *)
(* goroutines.  Inductive.                                                   *)
DialInv ==
    /\ TypeOK
    /\ \A i \in Attempts : HoldsByPhase(i) /\ ReportsByPhase(i)
    /\ LoopCounts
    /\ OneAtATime
    /\ BindingsCounted

(* Dial gives up on its own only when every candidate was tried and every    *)
(* attempt has reported that it brought no connection.                       *)
FailsOnlyWhenAllFailed ==
    (run.returned /\ run.winner = None /\ ~ctx) =>
        \A i \in Attempts : attempt[i].pc \in {"sent", "gone"} /\ attempt[i].send \in {"error", "deferred"}

(* Without a hedge the attempts of a plan never overlap (bulk and strict     *)
(* plans "speculatively duplicate" no connection): a candidate is started    *)
(* when the one before has published and sent its result.                    *)
NoSpeculation ==
    ~hedge => \A i, j \in Attempts :
        i < j /\ ~At(j, "none") => attempt[i].pc \in {"sent", "gone"} /\ calls[i].pc \in {"idle", "done"}

(* The outbounds of a retired revision are let go only when no attempt uses  *)
(* them, and then at once.                                                   *)
BindingsHeld ==
    /\ bindings.freed => \A i \in Attempts : ~attempt[i].exec
    /\ (bindings.retiring /\ \A i \in Attempts : ~attempt[i].exec) => bindings.freed

(* A goroutine that has ended holds nothing: its permit is settled, its      *)
(* epoch lease and its execution lease are released.                         *)
NothingHeld ==
    \A i \in Attempts : At(i, "gone") =>
        ~attempt[i].lease /\ ~attempt[i].exec /\ calls[i].pc \in {"idle", "done"} /\ calls[i].permit # "held"

(* "canceled loser contaminated health": an attempt that was cut off because *)
(* another one won, or because the caller left, is never counted.            *)
LoserNotPenalized ==
    \A i \in Attempts : attempt[i].outcome = "cancelled" => calls[i].permit # "completed"

(* Dial returns, and every goroutine it started ends: those that lose the    *)
(* race send into a channel that nobody reads any more (runAttempts).        *)
DialReturns ==
    <>(run.returned /\ \A i \in Attempts : attempt[i].pc \in {"none", "gone"})
=============================================================================
