---------------------------- MODULE HealthBreaker ----------------------------
(***************************************************************************)
(* The health ledger and circuit breakers of one node handle               *)
(* (protocol/group/adaptive/health.go) and the observers that drive them:  *)
(* dial attempts (retry.go, completeTransportAttempt), probes              *)
(* (probe_runtime.go) and traffic observation (business_observation.go),   *)
(* all of which settle through HealthObservationReducer (observation.go).  *)
(*                                                                         *)
(* An observer takes a permit, which captures the version of each record   *)
(* and, for a breaker that is not closed, a half-open token; it reads the  *)
(* clock; and it settles the permit.  Every store operation runs under the *)
(* store's mutex and is one action.  The clock is read outside the mutex,  *)
(* so evidence can arrive out of order.                                    *)
(***************************************************************************)
EXTENDS Integers, Sequences, FiniteSets

CONSTANTS Observers,        \* concurrent dials, probes and connections
          Endpoint,         \* the DomainEndpoint key of the node
          Transport,        \* a DomainTransport key with a concrete family
          Services,         \* DomainService keys
          FailureThreshold, \* BreakerConfig
          BaseCooldown,
          MaxCooldown,
          JitterPercent,    \* BreakerConfig.JitterFraction * 100
          Retention,        \* HealthStore.retention
          MaxEntries,       \* HealthStore.maxEntries
          MaxTime,          \* bound on the clock
          MaxVersion,       \* bound on the openings of one record
          MaxTokens,        \* bound on half-open tokens
          None              \* a nil record, an absent permit entry

ASSUME BreakerConstants ==
    /\ FailureThreshold \in Nat \ {0}
    /\ BaseCooldown \in Nat \ {0}
    /\ MaxCooldown \in Nat /\ MaxCooldown >= BaseCooldown
    /\ JitterPercent \in 0..50
    /\ Retention \in Nat \ {0}
    /\ MaxEntries \in Nat \ {0}
    /\ MaxTime \in Nat /\ MaxVersion \in Nat /\ MaxTokens \in Nat
    /\ IsFiniteSet(Services) /\ Endpoint # Transport
    /\ {Endpoint, Transport} \cap Services = {}

Keys == {Endpoint, Transport} \cup Services

(* consecutive counts consecutiveFailure, quality NonBreakerFailures; both   *)
(* are only compared with the threshold and stop counting there, as reopens *)
(* stops once the backoff has reached MaxCooldown.                           *)
Record == [health : {"unknown", "healthy", "degraded", "unreachable"},
           breaker : {"closed", "open", "cooldown", "half_open"},
           updated : Nat, openUntil : Nat,
           consecutive : 0..FailureThreshold, quality : 0..FailureThreshold,
           reopens : Nat, recovery : 0..1, token : Nat, version : Nat]

PermitEntry == [version : Nat, token : Nat]

ASSUME NilIsFresh == None \notin Record \cup PermitEntry \cup Keys

VARIABLES now,       \* the store clock
          entries,   \* HealthStore.entries
          lru,       \* HealthStore.lru, front first
          nextToken, \* HealthStore.nextToken
          obs        \* where each observer stands, and what it holds

vars == <<now, entries, lru, nextToken, obs>>

(* pc: "idle"; "early" with the time of the evidence read before asking for  *)
(* a permit; "held" with a permit, before the outcome; "busy" after a permit *)
(* was denied; "ready" and "low" once the time is read, with and without a   *)
(* permit; "settling" between the two halves of a quality observation.       *)
ObserverState == [pc : {"idle", "early", "held", "busy", "ready", "low", "settling"},
                  at : Nat, key : Keys \cup {None},
                  permit : [Keys -> PermitEntry \cup {None}]]

NoPermit == [k \in Keys |-> None]
Idle == [pc |-> "idle", at |-> 0, key |-> None, permit |-> NoPermit]

Init ==
    /\ now = 0
    /\ entries = [k \in Keys |-> None]
    /\ lru = <<>>
    /\ nextToken = 0
    /\ obs = [o \in Observers |-> Idle]

-----------------------------------------------------------------------------
Lesser(m, n) == IF m <= n THEN m ELSE n
Greater(m, n) == IF m >= n THEN m ELSE n

Known == {k \in Keys : entries[k] # None}

NewRecord == [health |-> "unknown", breaker |-> "closed", updated |-> 0,
              openUntil |-> 0, consecutive |-> 0, quality |-> 0, reopens |-> 0,
              recovery |-> 0, token |-> 0, version |-> 0]

(***************************************************************************)
(* openBreakerRecordLocked.  The base cooldown doubles with every reopen   *)
(* until it reaches the maximum; the jittered value is clamped to the      *)
(* maximum and to half the base.                                           *)
(***************************************************************************)
Backoff[n \in Nat] ==
    IF n <= 1 THEN BaseCooldown
    ELSE IF Backoff[n - 1] >= MaxCooldown \div 2 THEN MaxCooldown
    ELSE 2 * Backoff[n - 1]

JitteredBackoffs(n) ==
    {Greater(BaseCooldown \div 2, Lesser(MaxCooldown, b)) : b \in
        {b \in 1..2 * MaxCooldown : /\ 100 * b >= (100 - JitterPercent) * Backoff[n]
                                    /\ 100 * b <= (100 + JitterPercent) * Backoff[n]}}

Opened(r, at, backoff) ==
    [r EXCEPT !.openUntil = at + backoff, !.version = @ + 1, !.breaker = "open",
              !.token = 0, !.recovery = 0]

NextReopens(r) == IF Backoff[r.reopens] = MaxCooldown /\ r.reopens > 0
                  THEN r.reopens ELSE r.reopens + 1

(* The records a failure may leave behind: one per jittered backoff. *)
Failed(r, at) ==
    LET c == Lesser(r.consecutive + 1, FailureThreshold)
        f == [r EXCEPT !.updated = at, !.consecutive = c, !.recovery = 0]
    IN IF r.breaker = "half_open" \/ c >= FailureThreshold
       THEN {Opened([f EXCEPT !.health = "unreachable", !.reopens = NextReopens(r)], at, b) :
                 b \in JitteredBackoffs(NextReopens(r))}
       ELSE {[f EXCEPT !.health = "degraded", !.breaker = "closed"]}

(* A faulty success: the first half-open success closes the breaker. *)
SucceededAtOnce(r, at) ==
    [r EXCEPT !.updated = at, !.consecutive = 0, !.health = "healthy",
              !.breaker = "closed", !.openUntil = 0, !.reopens = 0,
              !.recovery = 0, !.token = 0]

Succeeded(r, at) ==
    IF r.breaker = "half_open" /\ r.recovery + 1 < 2
    THEN [r EXCEPT !.updated = at, !.consecutive = 0, !.recovery = 1, !.token = 0,
                   !.health = "degraded"]
    ELSE [r EXCEPT !.updated = at, !.consecutive = 0, !.reopens = 0, !.recovery = 0,
                   !.openUntil = 0, !.token = 0, !.health = "healthy",
                   !.breaker = "closed"]

(***************************************************************************)
(* Store maintenance.  pruneExpiredLocked walks the list from the back and *)
(* stops at the first record that has not expired; a record that is put    *)
(* into a full store evicts the oldest.                                    *)
(***************************************************************************)
MoveToFront(l, k) == <<k>> \o SelectSeq(l, LAMBDA e : e # k)

Expired(at) ==
    {lru[i] : i \in {i \in 1..Len(lru) :
        \A j \in i..Len(lru) : at - entries[lru[j]].updated > Retention}}

Pruned(base, at) == [k \in Keys |-> IF k \in Expired(at) THEN None ELSE base[k]]
PrunedList(at) == SelectSeq(lru, LAMBDA e : e \notin Expired(at))

Store(e, l) ==
    LET over == Len(l) > MaxEntries
    IN /\ entries' = [k \in Keys |-> IF over /\ k = l[Len(l)] THEN None ELSE e[k]]
       /\ lru' = IF over THEN SubSeq(l, 1, Len(l) - 1) ELSE l

(***************************************************************************)
(* observeLocked on key k, in a store whose records are base.  Evidence    *)
(* older than the record, from another opening of the breaker, from a      *)
(* passive observer of a breaker that is not closed, or from an attempt    *)
(* without the half-open token is dropped.                                 *)
(***************************************************************************)
(* A faulty fence: the version captured by the permit is not compared. *)
AdmitsAnyVersion(r, version, token, active) ==
    /\ active \/ r.breaker = "closed"
    /\ r.breaker = "half_open" => token = r.token

Admits(r, version, token, active) ==
    /\ active => r.version = version
    /\ active \/ r.breaker = "closed"
    /\ r.breaker = "half_open" => token = r.token

Stale(r, at) == r # None /\ at < r.updated

Observe(base, k, success, at, version, token, active) ==
    LET e == Pruned(base, at)
        l == PrunedList(at)
        r == IF e[k] = None THEN NewRecord ELSE e[k]
    IN IF Stale(e[k], at) \/ (e[k] = None /\ active /\ version # 0)
       THEN entries' = e /\ lru' = l
       ELSE IF ~Admits(r, version, token, active)
       THEN entries' = e /\ lru' = MoveToFront(l, k)
       ELSE \E n \in IF success THEN {Succeeded(r, at)} ELSE Failed(r, at) :
                Store([e EXCEPT ![k] = n], MoveToFront(l, k))

(***************************************************************************)
(* observeQualityLocked.  Low confidence evidence only feeds the metrics;  *)
(* medium evidence also moves the health of a closed breaker.              *)
(***************************************************************************)
Quality(r, success, at, metricsOnly) ==
    LET q == Lesser(r.quality + 1, FailureThreshold)
        moves == ~metricsOnly /\ r.breaker = "closed"
    IN IF success
       THEN IF moves THEN [r EXCEPT !.updated = at, !.quality = 0, !.health = "healthy"]
            ELSE [r EXCEPT !.updated = at]
       ELSE [r EXCEPT !.updated = at, !.quality = q,
                !.health = IF ~moves THEN @
                           ELSE IF q >= FailureThreshold THEN "unreachable"
                           ELSE IF @ # "unreachable" THEN "degraded" ELSE @]

ObserveQuality(k, success, at, metricsOnly) ==
    LET e == Pruned(entries, at)
        l == PrunedList(at)
        r == IF e[k] = None THEN NewRecord ELSE e[k]
    IN IF Stale(e[k], at)
       THEN entries' = e /\ lru' = l
       ELSE Store([e EXCEPT ![k] = Quality(r, success, at, metricsOnly)], MoveToFront(l, k))

-----------------------------------------------------------------------------
(***************************************************************************)
(* Permits.                                                                *)
(***************************************************************************)
(* availableLocked. *)
Available(r) ==
    CASE r.breaker \in {"open", "cooldown"} -> now >= r.openUntil
      [] r.breaker = "half_open" -> r.token = 0
      [] OTHER -> TRUE

(* The label availableLocked leaves on a record it refuses. *)
Refused(r) == IF r.breaker = "open" THEN [r EXCEPT !.breaker = "cooldown"] ELSE r

HalfOpen(r, token) == [r EXCEPT !.breaker = "half_open", !.token = token]

EntryFor(r) == IF r = None THEN [version |-> 0, token |-> 0]
               ELSE [version |-> r.version, token |-> IF r.breaker = "half_open" THEN r.token ELSE 0]

(* A faulty releaseTokenLocked: the breaker cools down with its token. *)
ReleasedKeepsToken(r, p) ==
    IF r # None /\ p # None /\ p.token # 0 /\ r.token = p.token
    THEN [r EXCEPT !.breaker = "cooldown"]
    ELSE r

(* releaseTokenLocked. *)
Released(r, p) ==
    IF /\ r # None /\ p # None
       /\ r.version = p.version /\ p.token # 0 /\ r.token = p.token
       /\ r.breaker = "half_open"
    THEN [r EXCEPT !.breaker = "cooldown", !.token = 0]
    ELSE r

(* classifyPathCapability, as transportPathEligible uses it for one family. *)
Eligible(r) ==
    r # None =>
        CASE r.breaker \in {"open", "cooldown"} -> now >= r.openUntil
          [] r.breaker = "closed" -> r.health # "unreachable"
          [] OTHER -> TRUE

(* One key of tryAcquirePermit: the record once admitted. *)
Admitted(r, token) ==
    IF r # None /\ r.breaker # "closed" THEN HalfOpen(r, token) ELSE r

NeedsToken(r) == r # None /\ r.breaker # "closed"

(* A permit for a connection: one entry for each of its two breakers. *)
Connection(endpoint, transport) ==
    [pc |-> "held", at |-> 0, key |-> None,
     permit |-> [k \in Keys |-> IF k = Endpoint THEN endpoint
                                ELSE IF k = Transport THEN transport ELSE None]]

AcquireConnection(o) ==
    LET e == entries[Endpoint]
        t == entries[Transport]
        t1 == IF NeedsToken(e) THEN nextToken + 1 ELSE nextToken
        t2 == IF NeedsToken(t) THEN t1 + 1 ELSE t1
        eOK == e # None => Available(e)
        tOK == t # None => Available(t)
    IN /\ obs[o].pc = "idle"
       /\ Eligible(t)
       /\ t2 <= MaxTokens
       /\ entries' = [entries EXCEPT
              ![Endpoint] = IF ~eOK THEN Refused(e)
                            ELSE IF tOK THEN Admitted(e, t1)
                            ELSE IF NeedsToken(e) THEN [e EXCEPT !.breaker = "cooldown", !.token = 0]
                            ELSE e,
              ![Transport] = IF ~eOK THEN t
                             ELSE IF tOK THEN Admitted(t, t2) ELSE Refused(t)]
       /\ nextToken' = IF ~eOK THEN nextToken ELSE IF tOK THEN t2 ELSE t1
       /\ obs' = IF eOK /\ tOK
                 THEN [obs EXCEPT ![o] = Connection(EntryFor(Admitted(e, t1)),
                                                    EntryFor(Admitted(t, t2)))]
                 ELSE obs
       /\ UNCHANGED <<now, lru>>

(* TryAcquireConnectionFallbackPermitHandle: no token is ever taken. *)
AcquireFallback(o) ==
    /\ obs[o].pc = "idle"
    /\ \A k \in {Endpoint, Transport} :
          entries[k] # None => entries[k].breaker # "half_open"
    /\ obs' = [obs EXCEPT ![o] = Connection(EntryFor(entries[Endpoint]),
                                            EntryFor(entries[Transport]))]
    /\ UNCHANGED <<now, entries, lru, nextToken>>

(* A permit for one domain. *)
Domain(k, entry) == [j \in Keys |-> IF j = k THEN entry ELSE None]

(* A faulty TryAcquireDomainPermitHandle: every permit gets the same token. *)
AcquireDomainSameToken(o, k) ==
    LET r == entries[k]
        granted == r # None => Available(r)
    IN /\ obs[o].pc \in {"idle", "early"}
       /\ granted
       /\ entries' = [entries EXCEPT ![k] = Admitted(r, 1)]
       /\ obs' = [obs EXCEPT ![o] = [pc |-> IF @.pc = "early" THEN "ready" ELSE "held",
                                     at |-> @.at, key |-> k,
                                     permit |-> Domain(k, EntryFor(Admitted(r, 1)))]]
       /\ UNCHANGED <<now, lru, nextToken>>

(* TryAcquireDomainPermitHandle. *)
AcquireDomain(o, k) ==
    LET r == entries[k]
        token == IF NeedsToken(r) THEN nextToken + 1 ELSE nextToken
        granted == r # None => Available(r)
    IN /\ obs[o].pc \in {"idle", "early"}
       /\ token <= MaxTokens
       /\ entries' = [entries EXCEPT ![k] = IF granted THEN Admitted(r, token) ELSE Refused(r)]
       /\ nextToken' = IF granted THEN token ELSE nextToken
       /\ obs' = [obs EXCEPT ![o] =
                    [pc |-> IF @.pc = "early" THEN IF granted THEN "ready" ELSE "low"
                            ELSE IF granted THEN "held" ELSE "busy",
                     at |-> @.at, key |-> k,
                     permit |-> Domain(k, IF granted THEN EntryFor(Admitted(r, token)) ELSE None)]]
       /\ UNCHANGED <<now, lru>>

(* evidence.At = store.Now(), outside the store's mutex. *)
Stamp(o) ==
    /\ obs[o].pc \in {"idle", "held", "busy"}
    /\ obs' = [obs EXCEPT ![o] = [@ EXCEPT !.at = now,
                 !.pc = CASE obs[o].pc = "idle" -> "early"
                          [] obs[o].pc = "held" -> "ready"
                          [] OTHER -> "low"]]
    /\ UNCHANGED <<now, entries, lru, nextToken>>

Finish(o) == obs' = [obs EXCEPT ![o] = Idle]

(***************************************************************************)
(* Settling.  Evidence concerns one domain (MapDomains).  Breaker-eligible *)
(* evidence completes the permit of its domain and releases the others;    *)
(* nothing reports a breaker-eligible success of the endpoint domain.      *)
(***************************************************************************)
Complete(o, k, success) ==
    /\ obs[o].pc = "ready"
    /\ obs[o].permit[k] # None
    /\ k = Endpoint => ~success /\ obs[o].permit[Transport] # None
    /\ ~success /\ entries[k] # None => entries[k].version < MaxVersion
    /\ Observe([j \in Keys |-> IF j = k THEN entries[j] ELSE Released(entries[j], obs[o].permit[j])],
               k, success, obs[o].at, obs[o].permit[k].version, obs[o].permit[k].token, TRUE)
    /\ Finish(o)
    /\ UNCHANGED <<now, nextToken>>

(* Medium evidence of a permit holder: a timed out dial or a generic probe. *)
(* The reducer records it, then releases the permit.                         *)
SettleQuality(o, k, success) ==
    /\ obs[o].pc = "ready"
    /\ obs[o].permit[k] # None
    /\ k = Endpoint => obs[o].permit[Transport] = None
    /\ success => k = Endpoint
    /\ ObserveQuality(k, success, obs[o].at, FALSE)
    /\ obs' = [obs EXCEPT ![o] = [@ EXCEPT !.pc = "settling"]]
    /\ UNCHANGED <<now, nextToken>>

(* ReleaseDeferred: after quality evidence, a cancelled attempt, or evidence *)
(* the ingestor did not accept.  Without a permit there is nothing to do.    *)
ReleaseDeferred(o) ==
    /\ obs[o].pc # "idle"
    /\ entries' = [k \in Keys |-> Released(entries[k], obs[o].permit[k])]
    /\ Finish(o)
    /\ UNCHANGED <<now, lru, nextToken>>

(* An observer that was denied the permit still records the outcome, at low  *)
(* confidence (observeTLSFailure, observePayload, observeUDPPathSuccess).    *)
RecordBusy(o, success) ==
    /\ obs[o].pc = "low"
    /\ obs[o].key \in Keys \ {Endpoint}
    /\ ObserveQuality(obs[o].key, success, obs[o].at, TRUE)
    /\ Finish(o)
    /\ UNCHANGED <<now, nextToken>>

(* A network error on an established UDP flow: no permit is involved. *)
ObservePassive(o) ==
    /\ obs[o].pc = "early"
    /\ entries[Transport] # None => entries[Transport].version < MaxVersion
    /\ Observe(entries, Transport, FALSE, obs[o].at, 0, 0, FALSE)
    /\ Finish(o)
    /\ UNCHANGED <<now, nextToken>>

(* A UDP timeout, or the throughput of a connection. *)
ObservePassiveQuality(o, k) ==
    /\ obs[o].pc = "early"
    /\ k # Endpoint
    /\ ObserveQuality(k, k \in Services, obs[o].at, FALSE)
    /\ Finish(o)
    /\ UNCHANGED <<now, nextToken>>

(* RetireNodeHandle, when the catalog drops the handle. *)
RetireNodeHandle ==
    /\ Known # {}
    /\ entries' = [k \in Keys |-> None]
    /\ lru' = <<>>
    /\ UNCHANGED <<now, nextToken, obs>>

Tick ==
    /\ now < MaxTime
    /\ now' = now + 1
    /\ UNCHANGED <<entries, lru, nextToken, obs>>

Step(o) ==
    \/ AcquireConnection(o)
    \/ AcquireFallback(o)
    \/ \E k \in Keys : AcquireDomain(o, k)
    \/ Stamp(o)
    \/ \E k \in Keys, s \in BOOLEAN : Complete(o, k, s)
    \/ \E k \in Keys, s \in BOOLEAN : SettleQuality(o, k, s)
    \/ ReleaseDeferred(o)
    \/ \E s \in BOOLEAN : RecordBusy(o, s)
    \/ ObservePassive(o)
    \/ \E k \in Keys : ObservePassiveQuality(o, k)

Next == (\E o \in Observers : Step(o)) \/ RetireNodeHandle \/ Tick

Spec == Init /\ [][Next]_vars

-----------------------------------------------------------------------------
(* Every variable keeps its shape. *)
TypeOK ==
    /\ now \in 0..MaxTime
    /\ entries \in [Keys -> Record \cup {None}]
    /\ lru \in Seq(Keys)
    /\ nextToken \in 0..MaxTokens
    /\ obs \in [Observers -> ObserverState]

(* An unsettled permit whose token is the one on the record (halfOpenToken). *)
Owns(o, k) ==
    /\ obs[o].permit[k] # None
    /\ entries[k] # None
    /\ obs[o].permit[k].token # 0
    /\ obs[o].permit[k].token = entries[k].token

(* TryAcquire*: at most one attempt at a time owns the recovery of a breaker. *)
SingleRecoveryOwner ==
    \A k \in Keys : \A o, p \in Observers : Owns(o, k) /\ Owns(p, k) => o = p

(* observeLocked and releaseTokenLocked: a token sits only on a half-open    *)
(* breaker; a closed breaker has neither recovery progress nor enough        *)
(* consecutive failures to be open; one that is not closed was opened, and   *)
(* is unreachable until somebody asked for a permit.                         *)
Consistent(r) ==
    /\ r.token # 0 => r.breaker = "half_open"
    /\ r.breaker = "closed" => r.recovery = 0 /\ r.consecutive < FailureThreshold
    /\ r.breaker # "closed" => r.version # 0
    /\ r.breaker = "open" => r.health = "unreachable"

BreakerConsistent == \A k \in Known : Consistent(entries[k])

(* openBreakerRecordLocked: with the jitter, no breaker stays shut for more  *)
(* than MaxCooldown from now.                                                *)
CooldownBounded == \A k \in Known : entries[k].openUntil <= now + MaxCooldown

(* Evidence carries a clock reading made before the lock is taken; a record  *)
(* never goes back to older evidence.                                        *)
EvidenceInOrder ==
    [][\A k \in Keys : entries[k] # None /\ entries'[k] # None =>
           entries'[k].updated >= entries[k].updated]_vars

(* A late result cannot close a breaker that opened after the attempt began: *)
(* the record's version moved past the one its permit captured.  A record    *)
(* that expired and was created anew (version 0) is another record.          *)
LateResultFence ==
    [][\A k \in Known :
         entries[k].breaker # "closed" /\ entries'[k] # None
           /\ entries'[k].breaker = "closed" /\ entries'[k].version = entries[k].version =>
             \E o \in Observers : /\ obs[o].pc = "ready" /\ obs'[o].pc = "idle"
                                  /\ obs[o].permit[k] # None
                                  /\ obs[o].permit[k].version = entries[k].version]_vars

(* A half-open breaker is closed only by its second success: the first one   *)
(* leaves it half-open.                                                      *)
TwoSuccessesToClose ==
    [][\A k \in Known :
         entries[k].breaker = "half_open" /\ entries'[k] # None
           /\ entries'[k].breaker = "closed" /\ entries'[k].version = entries[k].version =>
             entries[k].recovery = 1]_vars

(* "learning continues without stealing tokens" (business_observation.go):   *)
(* the token of a half-open breaker is always held by an unsettled permit.   *)
TokenHasOwner ==
    \A k \in Known : entries[k].token # 0 => \E o \in Observers : Owns(o, k)
=============================================================================
