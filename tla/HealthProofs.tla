---------------------------- MODULE HealthProofs ----------------------------
(***************************************************************************)
(* Proofs about the two stores of health evidence.                         *)
(*                                                                         *)
(* The breakers of HealthBreaker, for any number of observers and keys,    *)
(* any threshold, cooldown, retention and store size.  Nothing here        *)
(* depends on the order of the store's list: pruning and trimming may drop *)
(* any record.                                                             *)
(*                                                                         *)
(* The node profile registry (NodeProfiles), for any number of callers,    *)
(* tracks and endpoints, any number of slots and any size of the table.    *)
(***************************************************************************)
EXTENDS HealthBreaker, NodeProfiles, TLAPS

-----------------------------------------------------------------------------
(* The breakers. *)


(* A record that may be in the store at time t.                              *)
Good(r, t) == r \in Record /\ Consistent(r) /\ r.openUntil <= t + MaxCooldown

(* Half-open tokens are handed out once, in increasing order.                *)
TokensIssued ==
    \A o \in Observers, k \in Keys :
        obs[o].permit[k] # None => obs[o].permit[k].token <= nextToken

TokensApart ==
    \A k \in Keys, o, p \in Observers :
        /\ obs[o].permit[k] # None /\ obs[p].permit[k] # None
        /\ obs[o].permit[k].token # 0
        /\ obs[o].permit[k].token = obs[p].permit[k].token
        => o = p

(* The inductive invariant.  Evidence is never stamped with a time to come.  *)
BreakerInv ==
    /\ now \in Nat /\ nextToken \in Nat
    /\ entries \in [Keys -> Record \cup {None}]
    /\ obs \in [Observers -> ObserverState]
    /\ \A k \in Keys : entries[k] # None => Good(entries[k], now)
    /\ \A o \in Observers : obs[o].at <= now
    /\ TokensIssued /\ TokensApart

-----------------------------------------------------------------------------
(* What the operations on one record leave behind.                           *)

LEMMA NewRecordGood == \A t \in Nat : Good(NewRecord, t)
  BY BreakerConstants DEF Good, NewRecord, Record, Consistent

LEMMA NilNotRecord == None \notin Record /\ None \notin PermitEntry /\ None \notin Keys
  BY NilIsFresh, Zenon

LEMMA BackoffBounded ==
  ASSUME NEW n, NEW b \in JitteredBackoffs(n)
  PROVE  b \in Nat /\ b <= MaxCooldown
  <1>1. PICK c \in 1..2 * MaxCooldown : b = Greater(BaseCooldown \div 2, Lesser(MaxCooldown, c))
    BY Zenon DEF JitteredBackoffs
  <1>2. c \in Nat /\ MaxCooldown \in Nat /\ BaseCooldown \in Nat /\ BaseCooldown <= MaxCooldown
    BY BreakerConstants
  <1>3. BaseCooldown \div 2 \in Nat /\ BaseCooldown \div 2 <= BaseCooldown
    BY <1>2
  <1> QED
    BY <1>1, <1>2, <1>3 DEF Greater, Lesser

LEMMA ReopensType ==
  ASSUME NEW r \in Record
  PROVE  NextReopens(r) \in Nat
  BY DEF NextReopens, Record

(* Numbers the fields are set to.                                            *)
LEMMA FieldConstants ==
  /\ 0 \in Nat /\ 0 \in 0..1 /\ 1 \in 0..1 /\ 0 \in 0..FailureThreshold
  /\ FailureThreshold \in Nat /\ 0 < FailureThreshold
  BY BreakerConstants

LEMMA FailedGood ==
  ASSUME NEW t \in Nat, NEW at \in Nat, at <= t, NEW r, Good(r, t),
         NEW n \in Failed(r, at)
  PROVE  /\ Good(n, t) /\ n.updated = at
         /\ n.breaker = "closed" => r.breaker # "half_open" /\ n.version = r.version
         /\ n.breaker # "closed" => n.version = r.version + 1
  <1> DEFINE c == Lesser(r.consecutive + 1, FailureThreshold)
             f == [r EXCEPT !.updated = at, !.consecutive = c, !.recovery = 0]
             m == NextReopens(r)
             u == [f EXCEPT !.health = "unreachable", !.reopens = m]
  <1>1. r \in Record /\ Consistent(r) /\ r.openUntil <= t + MaxCooldown
    BY Zenon DEF Good
  <1>2. c \in 0..FailureThreshold
    BY <1>1, BreakerConstants DEF Record, Lesser
  <1>3. m \in Nat
    BY <1>1, ReopensType, Zenon
  <1> HIDE DEF c, m
  <1>4. f \in Record
    BY <1>1, <1>2, FieldConstants, Zenon DEF Record
  <1>5. CASE r.breaker = "half_open" \/ c >= FailureThreshold
    <2>1. PICK b \in JitteredBackoffs(m) : n = Opened(u, at, b)
      BY <1>5, Zenon DEF Failed, c, m
    <2>2. b \in Nat /\ b <= MaxCooldown
      BY BackoffBounded, Zenon
    <2>3. PICK g : g = u
      BY Zenon
    <2>4. g \in Record
      BY <1>3, <1>4, <2>3, Zenon DEF Record
    <2>5. g.version = r.version /\ g.health = "unreachable" /\ g.updated = at
      BY <1>1, <2>3, Zenon DEF Record
    <2> HIDE DEF u
    <2>6. at + b \in Nat /\ g.version + 1 \in Nat
      BY <2>2, <2>4 DEF Record
    <2>7. n \in Record
      BY <2>1, <2>3, <2>4, <2>6, FieldConstants, Zenon DEF Record, Opened
    <2>8. /\ n.openUntil = at + b /\ n.version = g.version + 1 /\ n.breaker = "open"
          /\ n.token = 0 /\ n.health = g.health /\ n.updated = g.updated
      BY <2>1, <2>3, <2>4, Zenon DEF Opened, Record
    <2> QED
      BY <1>1, <2>2, <2>5, <2>7, <2>8, BreakerConstants DEF Good, Consistent, Record
  <1>6. CASE ~(r.breaker = "half_open" \/ c >= FailureThreshold)
    <2>1. n = [f EXCEPT !.health = "degraded", !.breaker = "closed"]
      BY <1>6, Zenon DEF Failed, c
    <2>2. n \in Record
      BY <1>4, <2>1, Zenon DEF Record
    <2>3. /\ n.updated = at /\ n.breaker = "closed" /\ n.version = r.version
          /\ n.token = r.token /\ n.recovery = 0 /\ n.consecutive = c
          /\ n.openUntil = r.openUntil
      BY <1>1, <2>1, Zenon DEF Record
    <2>4. c < FailureThreshold
      BY <1>2, <1>6, BreakerConstants
    <2>5. r.token = 0
      BY <1>1, <1>6, Zenon DEF Consistent
    <2> QED
      BY <1>1, <1>6, <2>2, <2>3, <2>4, <2>5, Zenon DEF Good, Consistent
  <1> QED
    BY <1>5, <1>6, Zenon

LEMMA SucceededGood ==
  ASSUME NEW t \in Nat, NEW at \in Nat, NEW r, Good(r, t)
  PROVE  /\ Good(Succeeded(r, at), t) /\ Succeeded(r, at).updated = at
         /\ Succeeded(r, at).version = r.version
         /\ Succeeded(r, at).breaker = "closed" /\ r.breaker = "half_open" => r.recovery = 1
  <1>1. r \in Record /\ Consistent(r) /\ r.openUntil <= t + MaxCooldown
    BY Zenon DEF Good
  <1>2. CASE r.breaker = "half_open" /\ r.recovery + 1 < 2
    <2>1. PICK n : n = [r EXCEPT !.updated = at, !.consecutive = 0, !.recovery = 1, !.token = 0,
                                 !.health = "degraded"]
      BY Zenon
    <2>2. n \in Record
      BY <1>1, <2>1, FieldConstants, Zenon DEF Record
    <2>3. /\ n.updated = at /\ n.breaker = r.breaker /\ n.version = r.version /\ n.token = 0
          /\ n.openUntil = r.openUntil
      BY <1>1, <2>1, Zenon DEF Record
    <2>4. Succeeded(r, at) = n
      BY <1>2, <2>1, Zenon DEF Succeeded
    <2> QED
      BY <1>1, <1>2, <2>2, <2>3, <2>4, Zenon DEF Good, Consistent
  <1>3. CASE ~(r.breaker = "half_open" /\ r.recovery + 1 < 2)
    <2>1. PICK n : n = [r EXCEPT !.updated = at, !.consecutive = 0, !.reopens = 0,
                                 !.recovery = 0, !.openUntil = 0, !.token = 0,
                                 !.health = "healthy", !.breaker = "closed"]
      BY Zenon
    <2>2. n \in Record
      BY <1>1, <2>1, FieldConstants, Zenon DEF Record
    <2>3. /\ n.updated = at /\ n.breaker = "closed" /\ n.version = r.version /\ n.token = 0
          /\ n.openUntil = 0 /\ n.recovery = 0 /\ n.consecutive = 0
      BY <1>1, <2>1, Zenon DEF Record
    <2>4. Succeeded(r, at) = n
      BY <1>3, <2>1, Zenon DEF Succeeded
    <2>5. r.breaker = "half_open" => r.recovery = 1
      BY <1>1, <1>3 DEF Record
    <2>6. 0 <= t + MaxCooldown
      BY BreakerConstants
    <2> QED
      BY <2>2, <2>3, <2>4, <2>5, <2>6, FieldConstants, Zenon DEF Good, Consistent
  <1> QED
    BY <1>2, <1>3, Zenon

LEMMA QualityGood ==
  ASSUME NEW t \in Nat, NEW at \in Nat, NEW r, Good(r, t),
         NEW success \in BOOLEAN, NEW metricsOnly \in BOOLEAN
  PROVE  LET n == Quality(r, success, at, metricsOnly)
         IN  Good(n, t) /\ n.updated = at /\ n.breaker = r.breaker /\ n.version = r.version
  <1>1. r \in Record /\ Consistent(r) /\ r.openUntil <= t + MaxCooldown
    BY Zenon DEF Good
  <1>2. PICK q : q = Lesser(r.quality + 1, FailureThreshold)
    BY Zenon
  <1>3. q \in 0..FailureThreshold
    BY <1>1, <1>2, BreakerConstants DEF Record, Lesser
  <1>4. PICK n : n = Quality(r, success, at, metricsOnly)
    BY Zenon
  <1>5. PICK h : h = IF r.breaker # "closed" \/ metricsOnly THEN r.health
                     ELSE IF success THEN "healthy"
                     ELSE IF q >= FailureThreshold THEN "unreachable"
                     ELSE IF r.health # "unreachable" THEN "degraded" ELSE r.health
    BY Zenon
  <1>6. h \in {"unknown", "healthy", "degraded", "unreachable"}
    BY <1>1, <1>5, Zenon DEF Record
  <1>7. PICK z : z = IF ~success THEN q
                     ELSE IF r.breaker = "closed" /\ ~metricsOnly THEN 0 ELSE r.quality
    BY Zenon
  <1>8. z \in 0..FailureThreshold
    BY <1>1, <1>3, <1>7, FieldConstants, Zenon DEF Record
  <1>9. /\ n \in Record /\ n.updated = at /\ n.breaker = r.breaker /\ n.version = r.version
        /\ n.token = r.token /\ n.recovery = r.recovery /\ n.consecutive = r.consecutive
        /\ n.openUntil = r.openUntil /\ n.health = h
    <2>1. CASE success /\ ~(r.breaker = "closed" /\ ~metricsOnly)
      <3>1. n = [r EXCEPT !.updated = at] /\ h = r.health
        BY <1>4, <1>5, <2>1, Zenon DEF Quality
      <3>2. n \in Record
        BY <1>1, <3>1, Zenon DEF Record
      <3> QED
        BY <1>1, <3>1, <3>2, Zenon DEF Record
    <2>2. CASE ~(success /\ ~(r.breaker = "closed" /\ ~metricsOnly))
      <3>1. n = [r EXCEPT !.updated = at, !.quality = z, !.health = h]
        <4>1. CASE success
          <5>1. r.breaker = "closed" /\ ~metricsOnly
            BY <2>2, <4>1, Zenon
          <5>2. z = 0 /\ h = "healthy"
            BY <1>5, <1>7, <4>1, <5>1, Zenon
          <5>3. n = [r EXCEPT !.updated = at, !.quality = 0, !.health = "healthy"]
            BY <1>4, <4>1, <5>1, Zenon DEF Quality
          <5> QED
            BY <5>2, <5>3, Zenon
        <4>2. CASE ~success
          <5>1. PICK g : g = [r EXCEPT !.updated = at, !.quality = q]
            BY Zenon
          <5>2. g.health = r.health
            BY <1>1, <5>1, Zenon DEF Record
          <5>3. z = q
            BY <1>7, <4>2, Zenon
          <5>4. n = [g EXCEPT !.health = IF ~(~metricsOnly /\ r.breaker = "closed") THEN @
                           ELSE IF q >= FailureThreshold THEN "unreachable"
                           ELSE IF @ # "unreachable" THEN "degraded" ELSE @]
            BY <1>2, <1>4, <4>2, <5>1, Zenon DEF Quality
          <5>5. n = [g EXCEPT !.health = h]
            BY <1>5, <4>2, <5>2, <5>4, Zenon
          <5> QED
            BY <5>1, <5>3, <5>5, Zenon
        <4> QED
          BY <4>1, <4>2, Zenon
      <3>2. n \in Record
        BY <1>1, <1>6, <1>8, <3>1, Zenon DEF Record
      <3> QED
        BY <1>1, <3>1, <3>2, ZenonT(60) DEF Record
    <2> QED
      BY <2>1, <2>2, Zenon
  <1>10. r.breaker # "closed" => h = r.health
    BY <1>5, Zenon
  <1> QED
    BY <1>1, <1>4, <1>9, <1>10, Zenon DEF Good, Consistent

(* Releasing, refusing and admitting touch only the label and the token.     *)
LEMMA ReleasedGood ==
  ASSUME NEW t \in Nat, NEW r \in Record \cup {None}, r # None => Good(r, t),
         NEW p \in PermitEntry \cup {None}
  PROVE  /\ Released(r, p) = None <=> r = None
         /\ r # None => /\ Good(Released(r, p), t) /\ Released(r, p).updated = r.updated
                        /\ Released(r, p).version = r.version
                        /\ Released(r, p).breaker = "closed" <=> r.breaker = "closed"
  <1>1. CASE Released(r, p) = r
    BY <1>1, Zenon
  <1>2. CASE Released(r, p) # r
    <2>1. /\ r # None /\ Released(r, p) = [r EXCEPT !.breaker = "cooldown", !.token = 0]
          /\ r.breaker = "half_open"
      BY <1>2, Zenon DEF Released
    <2>2. r \in Record /\ Consistent(r) /\ r.openUntil <= t + MaxCooldown
      BY <2>1, Zenon DEF Good
    <2>3. PICK n : n = [r EXCEPT !.breaker = "cooldown", !.token = 0]
      BY Zenon
    <2>4. n \in Record
      BY <2>2, <2>3, FieldConstants, Zenon DEF Record
    <2>5. /\ n.breaker = "cooldown" /\ n.token = 0 /\ n.version = r.version
          /\ n.updated = r.updated /\ n.openUntil = r.openUntil
      BY <2>2, <2>3, Zenon DEF Record
    <2> QED
      BY <2>1, <2>2, <2>3, <2>4, <2>5, NilNotRecord, Zenon DEF Good, Consistent
  <1> QED
    BY <1>1, <1>2, Zenon

-----------------------------------------------------------------------------
(* What an operation on the store leaves behind.                             *)

EntriesGood ==
    /\ now \in Nat
    /\ entries \in [Keys -> Record \cup {None}]
    /\ \A k \in Keys : entries[k] # None => Good(entries[k], now)

(* The step closes the breaker of k without opening it again.                *)
Closes(k) ==
    /\ entries[k] # None /\ entries'[k] # None
    /\ entries[k].breaker # "closed" /\ entries'[k].breaker = "closed"
    /\ entries'[k].version = entries[k].version

(* A step of the store: records stay good, do not go back to older evidence, *)
(* and only a record in C may be closed.                                     *)
StoreStep(C) ==
    /\ entries' \in [Keys -> Record \cup {None}]
    /\ \A k \in Keys : entries'[k] # None => Good(entries'[k], now)
    /\ \A k \in Keys : entries[k] # None /\ entries'[k] # None =>
          entries'[k].updated >= entries[k].updated
    /\ \A k \in Keys : Closes(k) =>
          k \in C /\ (entries[k].breaker = "half_open" => entries[k].recovery = 1)

(* Records that differ from the store's at most by a released token.         *)
SameRecords(base) ==
    /\ base \in [Keys -> Record \cup {None}]
    /\ \A k \in Keys :
          /\ base[k] = None <=> entries[k] = None
          /\ base[k] # None => /\ Good(base[k], now)
                               /\ base[k].updated = entries[k].updated
                               /\ base[k].version = entries[k].version
                               /\ base[k].breaker = "closed" <=> entries[k].breaker = "closed"

LEMMA EntriesSame == EntriesGood => SameRecords(entries)
  BY Zenon DEF EntriesGood, SameRecords

(* pruneExpiredLocked drops only records that are older than the evidence.   *)
LEMMA PrunedFacts ==
  ASSUME EntriesGood, NEW base, SameRecords(base), NEW at \in Nat, NEW k \in Keys
  PROVE  /\ Pruned(base, at) \in [Keys -> Record \cup {None}]
         /\ Pruned(base, at)[k] = None \/ Pruned(base, at)[k] = base[k]
         /\ entries[k] # None /\ Pruned(base, at)[k] = None => at > entries[k].updated
  <1>1. Pruned(base, at) \in [Keys -> Record \cup {None}]
    BY Zenon DEF Pruned, SameRecords
  <1>2. Pruned(base, at)[k] = IF k \in Expired(at) THEN None ELSE base[k]
    BY Zenon DEF Pruned
  <1>3. ASSUME entries[k] # None, k \in Expired(at)
        PROVE  at > entries[k].updated
    <2>1. PICK i \in 1..Len(lru) : /\ k = lru[i]
              /\ \A j \in i..Len(lru) : at - entries[lru[j]].updated > Retention
      BY <1>3, Zenon DEF Expired
    <2>2. at - entries[k].updated > Retention
      <3>1. i \in i..Len(lru)
        BY <2>1
      <3> QED
        BY <2>1, <3>1, Zenon
    <2>3. entries[k].updated \in Nat /\ Retention \in Nat
      BY <1>3, BreakerConstants, Zenon DEF EntriesGood, Good, Record
    <2> QED
      BY <2>2, <2>3, SMTT(60)
  <1> QED
    BY <1>1, <1>2, <1>3, Zenon DEF SameRecords

(* After pruning, a record written at key k with evidence that is not older, *)
(* followed by a trim, is a step of the store.                               *)
LEMMA WriteStep ==
  ASSUME EntriesGood, NEW base, SameRecords(base), NEW at \in Nat, NEW k \in Keys,
         NEW n, Good(n, now), n.updated = at, NEW C,
         Pruned(base, at)[k] # None => at >= entries[k].updated,
         Closes(k) /\ entries'[k] = n
            => k \in C /\ (entries[k].breaker = "half_open" => entries[k].recovery = 1),
         NEW l, Store([Pruned(base, at) EXCEPT ![k] = n], l)
  PROVE  StoreStep(C)
  <1> DEFINE e == Pruned(base, at)
             w == [e EXCEPT ![k] = n]
  <1>1. e \in [Keys -> Record \cup {None}]
    BY PrunedFacts, Zenon
  <1>2. n \in Record
    BY Zenon DEF Good
  <1>3. w \in [Keys -> Record \cup {None}] /\ w[k] = n /\ \A j \in Keys \ {k} : w[j] = e[j]
    BY <1>1, <1>2, Zenon
  <1>4. entries' \in [Keys -> Record \cup {None}] /\ \A j \in Keys : entries'[j] \in {None, w[j]}
    <2> HIDE DEF w
    <2> QED
      BY <1>3, Zenon DEF Store, w
  <1>5. ASSUME NEW j \in Keys, entries'[j] # None
        PROVE  /\ Good(entries'[j], now)
               /\ entries[j] # None => entries'[j].updated >= entries[j].updated
               /\ Closes(j) => /\ j \in C
                               /\ entries[j].breaker = "half_open" => entries[j].recovery = 1
    <2>1. entries'[j] = w[j]
      BY <1>4, <1>5, Zenon
    <2>2. CASE j = k
      <3>1. entries'[j] = n
        BY <1>3, <2>1, <2>2, Zenon
      <3>2. entries[k] # None => at >= entries[k].updated
        <4>1. entries[k] # None => entries[k].updated \in Nat
          BY Zenon DEF EntriesGood, Good, Record
        <4> QED
          BY <4>1, PrunedFacts
      <3> QED
        BY <2>2, <3>1, <3>2, Zenon
    <2>3. CASE j # k
      <3>1. entries'[j] = base[j]
        BY <1>3, <1>5, <2>1, <2>3, PrunedFacts, SMTT(60)
      <3>2. entries[j] # None => entries[j].updated \in Nat
        BY Zenon DEF EntriesGood, Good, Record
      <3> QED
        BY <1>5, <3>1, <3>2, SMTT(60) DEF SameRecords, Closes
    <2> QED
      BY <2>2, <2>3, Zenon
  <1> QED
    BY <1>4, <1>5, Zenon DEF StoreStep, Closes

(* A step that only prunes, or only releases tokens, closes nothing.         *)
LEMMA PruneStep ==
  ASSUME EntriesGood, NEW base, SameRecords(base), NEW at \in Nat, NEW C,
         entries' = Pruned(base, at)
  PROVE  StoreStep(C)
  <1>1. ASSUME NEW k \in Keys, entries'[k] # None
        PROVE  entries'[k] = base[k] /\ entries[k] # None
    BY <1>1, PrunedFacts, Zenon DEF SameRecords
  <1>2. entries' \in [Keys -> Record \cup {None}]
    <2> Keys # {}
      BY Zenon DEF Keys
    <2> QED
      BY PrunedFacts, Zenon
  <1>3. \A k \in Keys : entries[k] # None => entries[k].updated \in Nat
    BY Zenon DEF EntriesGood, Good, Record
  <1> QED
    BY <1>1, <1>2, <1>3 DEF StoreStep, SameRecords, Closes

LEMMA ReleaseStep ==
  ASSUME EntriesGood, NEW C, SameRecords(entries')
  PROVE  StoreStep(C)
  <1>1. \A k \in Keys : entries[k] # None => entries[k].updated \in Nat
    BY Zenon DEF EntriesGood, Good, Record
  <1> QED
    BY <1>1 DEF StoreStep, SameRecords, Closes

(* The keys an observation of k may close.                                   *)
Fenced(k, version, active) == {j \in {k} : active /\ entries[j].version = version}

(* observeLocked: only an admitted result of the record's own version, or a  *)
(* success, can close a breaker that is not closed.                          *)
LEMMA ObserveStep ==
  ASSUME EntriesGood, NEW base, SameRecords(base), NEW k \in Keys, base[k] = entries[k],
         NEW success \in BOOLEAN, NEW at \in Nat, at <= now, NEW version, NEW token,
         NEW active \in BOOLEAN, Observe(base, k, success, at, version, token, active)
  PROVE  StoreStep(Fenced(k, version, active))
  <1> DEFINE C == Fenced(k, version, active)
             e == Pruned(base, at)
             l == PrunedList(at)
             r == IF e[k] = None THEN NewRecord ELSE e[k]
  <1>0. now \in Nat
    BY Zenon DEF EntriesGood
  <1>1. CASE entries' = e
    BY <1>1, PruneStep, Zenon
  <1>2. CASE entries' # e
    <2>1. /\ ~(Stale(e[k], at) \/ (e[k] = None /\ active /\ version # 0))
          /\ Admits(r, version, token, active)
          /\ \E n \in IF success THEN {Succeeded(r, at)} ELSE Failed(r, at) :
                Store([e EXCEPT ![k] = n], MoveToFront(l, k))
      BY <1>2, Zenon DEF Observe
    <2>2. PICK n \in IF success THEN {Succeeded(r, at)} ELSE Failed(r, at) :
                Store([e EXCEPT ![k] = n], MoveToFront(l, k))
      BY <2>1, Zenon
    <2>3. e[k] # None => e[k] = entries[k] /\ Good(entries[k], now)
      BY PrunedFacts, Zenon DEF EntriesGood
    <2>4. Good(r, now)
      BY <1>0, <2>3, NewRecordGood, Zenon
    <2>5. /\ Good(n, now) /\ n.updated = at
          /\ n.breaker = "closed" /\ r.breaker = "half_open" => r.recovery = 1
          /\ n.version \in Nat
      <3> HIDE DEF r
      <3>1. CASE success
        <4>1. n = Succeeded(r, at)
          BY <2>2, <3>1, Zenon
        <4>2. Good(n, now) /\ n.updated = at
          BY <1>0, <2>4, <4>1, SucceededGood, ZenonT(60)
        <4>3. n.breaker = "closed" /\ r.breaker = "half_open" => r.recovery = 1
          BY <1>0, <2>4, <4>1, SucceededGood, ZenonT(60)
        <4> QED
          BY <4>2, <4>3, Zenon DEF Good, Record
      <3>2. CASE ~success
        <4>1. n \in Failed(r, at)
          BY <2>2, <3>2, Zenon
        <4>2. Good(n, now) /\ n.updated = at /\ (n.breaker = "closed" => r.breaker # "half_open")
          BY <1>0, <2>4, <4>1, FailedGood
        <4> QED
          BY <4>2, Zenon DEF Good, Record
      <3> QED
        BY <3>1, <3>2, Zenon
    <2>6. e[k] # None => at >= entries[k].updated
      <3>1. e[k] # None => ~(at < entries[k].updated)
        BY <2>1, <2>3, Zenon DEF Stale
      <3> QED
        BY <2>3, <3>1 DEF Good, Record
    <2>7. ASSUME Closes(k), entries'[k] = n
          PROVE  k \in C /\ (entries[k].breaker = "half_open" => entries[k].recovery = 1)
      <3>1. e[k] # None
        <4> SUFFICES ASSUME e[k] = None PROVE FALSE
          BY Zenon
        <4>1. r = NewRecord /\ entries[k].version # 0
          BY <2>7, Zenon DEF Closes, EntriesGood, Good, Consistent
        <4>2. n.breaker = "closed" /\ n.version = entries[k].version
          BY <2>7, Zenon DEF Closes
        <4>3. NewRecord.version = 0 /\ Good(NewRecord, now)
          BY <1>0, NewRecordGood, Zenon DEF NewRecord
        <4>4. n.version = 0
          <5>1. CASE success
            <6>1. n = Succeeded(NewRecord, at)
              BY <2>2, <4>1, <5>1, Zenon
            <6> QED
              BY <1>0, <4>3, <6>1, SucceededGood, ZenonT(60)
          <5>2. CASE ~success
            BY <1>0, <2>2, <4>1, <4>2, <4>3, <5>2, FailedGood
          <5> QED
            BY <5>1, <5>2, Zenon
        <4> QED
          BY <4>1, <4>2, <4>4, Zenon
      <3>2. r = entries[k]
        BY <2>3, <3>1, Zenon
      <3>3. entries[k].breaker # "closed" /\ n.breaker = "closed"
        BY <2>7, Zenon DEF Closes
      <3>4. active /\ entries[k].version = version
        BY <2>1, <3>2, <3>3, Zenon DEF Admits
      <3> QED
        BY <2>5, <3>2, <3>3, <3>4, Zenon DEF Fenced
    <2> HIDE DEF C, e
    <2> QED
      BY <2>2, <2>5, <2>6, <2>7, WriteStep, Zenon DEF C, e
  <1> QED
    BY <1>1, <1>2, Zenon

(* observeQualityLocked never closes a breaker.                              *)
LEMMA QualityStep ==
  ASSUME EntriesGood, NEW k \in Keys, NEW success \in BOOLEAN, NEW at \in Nat, at <= now,
         NEW metricsOnly \in BOOLEAN, ObserveQuality(k, success, at, metricsOnly)
  PROVE  StoreStep({})
  <1> DEFINE e == Pruned(entries, at)
             l == PrunedList(at)
             r == IF e[k] = None THEN NewRecord ELSE e[k]
             n == Quality(r, success, at, metricsOnly)
  <1>0. now \in Nat /\ SameRecords(entries)
    BY EntriesSame, Zenon DEF EntriesGood
  <1>1. CASE Stale(e[k], at)
    <2>1. entries' = e
      BY <1>1, Zenon DEF ObserveQuality
    <2> QED
      BY <1>0, <2>1, PruneStep, Zenon
  <1>2. CASE ~Stale(e[k], at)
    <2>1. Store([e EXCEPT ![k] = n], MoveToFront(l, k))
      BY <1>2, Zenon DEF ObserveQuality
    <2>2. e[k] # None => e[k] = entries[k] /\ Good(entries[k], now)
      BY <1>0, PrunedFacts, Zenon DEF EntriesGood
    <2>3. Good(r, now)
      BY <1>0, <2>2, NewRecordGood, Zenon
    <2> HIDE DEF r
    <2>4. Good(n, now) /\ n.updated = at /\ n.breaker = r.breaker /\ n.version = r.version
      BY <1>0, <2>3, QualityGood, SMTT(60)
    <2>5. e[k] # None => at >= entries[k].updated
      <3>1. e[k] # None => ~(at < entries[k].updated)
        BY <1>2, <2>2, Zenon DEF Stale
      <3> QED
        BY <2>2, <3>1 DEF Good, Record
    <2>6. ~(Closes(k) /\ entries'[k] = n)
      <3> SUFFICES ASSUME Closes(k), entries'[k] = n PROVE FALSE
        BY Zenon
      <3>1. r.breaker = "closed" /\ r.version = entries[k].version
        BY <2>4, Zenon DEF Closes
      <3>2. entries[k].breaker # "closed" /\ entries[k].version # 0
        BY Zenon DEF Closes, EntriesGood, Good, Consistent
      <3>3. e[k] = None /\ r = NewRecord
        BY <2>2, <3>1, <3>2, Zenon DEF r
      <3> QED
        BY <3>1, <3>2, <3>3, Zenon DEF NewRecord
    <2> HIDE DEF n, e
    <2> QED
      BY <1>0, <2>1, <2>4, <2>5, <2>6, WriteStep, Zenon DEF e
  <1> QED
    BY <1>1, <1>2, Zenon

-----------------------------------------------------------------------------
(* Permits.                                                                  *)

(* A new label on a breaker that is not closed; a token goes only with the   *)
(* half-open label.                                                          *)
Labelled(r, b, token) == [r EXCEPT !.breaker = b, !.token = token]

LEMMA LabelGood ==
  ASSUME NEW t \in Nat, NEW r, Good(r, t), r.breaker # "closed",
         NEW b \in {"cooldown", "half_open"}, NEW token \in Nat,
         token # 0 => b = "half_open"
  PROVE  /\ Good(Labelled(r, b, token), t)
         /\ Labelled(r, b, token).updated = r.updated
         /\ Labelled(r, b, token).version = r.version
         /\ Labelled(r, b, token).breaker = b
         /\ Labelled(r, b, token).token = token
  <1> DEFINE n == Labelled(r, b, token)
  <1>1. r \in Record /\ Consistent(r) /\ r.openUntil <= t + MaxCooldown
    BY Zenon DEF Good
  <1>2. n \in Record
    BY <1>1, Zenon DEF Record, Labelled
  <1>3. /\ n.breaker = b /\ n.token = token /\ n.version = r.version
        /\ n.updated = r.updated /\ n.openUntil = r.openUntil
    BY <1>1, Zenon DEF Record, Labelled
  <1> QED
    BY <1>1, <1>2, <1>3, Zenon DEF Good, Consistent

LEMMA RefusedGood ==
  ASSUME NEW t \in Nat, NEW r, Good(r, t)
  PROVE  /\ Good(Refused(r), t) /\ Refused(r).updated = r.updated
         /\ Refused(r).version = r.version
         /\ Refused(r).breaker = "closed" <=> r.breaker = "closed"
  <1>1. CASE r.breaker # "open"
    BY <1>1, Zenon DEF Refused
  <1>2. CASE r.breaker = "open"
    <2>1. r \in Record /\ Consistent(r) /\ r.openUntil <= t + MaxCooldown
      BY Zenon DEF Good
    <2>2. PICK n : n = [r EXCEPT !.breaker = "cooldown"]
      BY Zenon
    <2>3. n \in Record
      BY <2>1, <2>2, Zenon DEF Record
    <2>4. /\ n.breaker = "cooldown" /\ n.token = r.token /\ n.version = r.version
          /\ n.updated = r.updated /\ n.openUntil = r.openUntil
      BY <2>1, <2>2, Zenon DEF Record
    <2>5. Refused(r) = n
      BY <1>2, <2>2, Zenon DEF Refused
    <2> QED
      BY <1>2, <2>1, <2>3, <2>4, <2>5, Zenon DEF Good, Consistent
  <1> QED
    BY <1>1, <1>2, Zenon

(* One key of tryAcquirePermit: the record and the permit entry.             *)
LEMMA AdmittedGood ==
  ASSUME NEW t \in Nat, NEW r \in Record \cup {None}, r # None => Good(r, t),
         NEW token \in Nat
  PROVE  /\ Admitted(r, token) = None <=> r = None
         /\ r # None => /\ Good(Admitted(r, token), t)
                        /\ Admitted(r, token).updated = r.updated
                        /\ Admitted(r, token).version = r.version
                        /\ Admitted(r, token).breaker = "closed" <=> r.breaker = "closed"
         /\ EntryFor(Admitted(r, token)) \in PermitEntry
         /\ EntryFor(Admitted(r, token)).token = IF NeedsToken(r) THEN token ELSE 0
  <1>1. CASE r = None
    BY <1>1, Zenon DEF Admitted, EntryFor, NeedsToken, PermitEntry
  <1>2. CASE r # None /\ r.breaker = "closed"
    <2>1. Admitted(r, token) = r
      BY <1>2, Zenon DEF Admitted
    <2>2. EntryFor(r) = [version |-> r.version, token |-> 0]
      BY <1>2, Zenon DEF EntryFor
    <2>3. r.version \in Nat
      BY <1>2, Zenon DEF Record
    <2> QED
      BY <1>2, <2>1, <2>2, <2>3 DEF NeedsToken, PermitEntry
  <1>3. CASE r # None /\ r.breaker # "closed"
    <2> DEFINE n == Labelled(r, "half_open", token)
    <2>2. Admitted(r, token) = n
      BY <1>3, Zenon DEF Admitted, HalfOpen, Labelled
    <2>3. /\ Good(n, t) /\ n.updated = r.updated /\ n.version = r.version
          /\ n.breaker = "half_open" /\ n.token = token
      BY <1>3, LabelGood
    <2> HIDE DEF n
    <2>4. n # None /\ n.version \in Nat
      BY <2>3, NilNotRecord, Zenon DEF Good, Record
    <2>5. EntryFor(n) = [version |-> n.version, token |-> token]
      BY <2>3, <2>4, Zenon DEF EntryFor
    <2> QED
      BY <1>3, <2>2, <2>3, <2>4, <2>5 DEF NeedsToken, PermitEntry
  <1> QED
    BY <1>1, <1>2, <1>3, Zenon

LEMMA FallbackEntry ==
  ASSUME NEW r \in Record \cup {None}, r # None => r.breaker # "half_open"
  PROVE  EntryFor(r) \in PermitEntry /\ EntryFor(r).token = 0
  BY Zenon DEF EntryFor, PermitEntry, Record

(* A step of the store and of one observer keeps the invariant, if what the  *)
(* observer's new permit holds was held before, has no token, or has a token *)
(* that was not handed out before.                                           *)
PermitStep(o, s) ==
    \A k \in Keys : s.permit[k] # None =>
        \/ s.permit[k] = obs[o].permit[k]
        \/ s.permit[k].token = 0
        \/ s.permit[k].token > nextToken /\ s.permit[k].token <= nextToken'

LEMMA ObserverStep ==
  ASSUME BreakerInv, now' = now, nextToken' \in Nat, nextToken <= nextToken',
         NEW C, StoreStep(C),
         NEW o \in Observers, NEW s \in ObserverState, s.at <= now,
         obs' = [obs EXCEPT ![o] = s], PermitStep(o, s)
  PROVE  BreakerInv'
  <1>1. obs' \in [Observers -> ObserverState]
    BY Zenon DEF BreakerInv
  <1>2. obs'[o] = s /\ \A p \in Observers \ {o} : obs'[p] = obs[p]
    BY Zenon DEF BreakerInv
  <1>3. \A p \in Observers, k \in Keys : obs[p].permit[k] \in PermitEntry \cup {None}
    BY DEF BreakerInv, ObserverState
  <1>4. \A k \in Keys : s.permit[k] \in PermitEntry \cup {None}
    BY Zenon DEF ObserverState
  <1>5. \A p \in Observers, k \in Keys : obs[p].permit[k] # None =>
            obs[p].permit[k].token \in Nat /\ obs[p].permit[k].token <= nextToken
    BY <1>3, Zenon DEF BreakerInv, TokensIssued, PermitEntry
  <1>6. \A k \in Keys : s.permit[k] # None => s.permit[k].token \in Nat
    BY <1>4, Zenon DEF PermitEntry
  <1>7. nextToken \in Nat
    BY Zenon DEF BreakerInv
  <1>8. TokensIssued'
    <2> SUFFICES ASSUME NEW p \in Observers, NEW k \in Keys, obs'[p].permit[k] # None
                 PROVE  obs'[p].permit[k].token <= nextToken'
      BY Zenon DEF TokensIssued
    <2>1. CASE p = o
      <3>1. s.permit[k] # None /\ obs'[p].permit[k] = s.permit[k]
        BY <1>2, <2>1, ZenonT(60)
      <3> QED
        BY <1>5, <1>6, <1>7, <3>1, SMTT(60) DEF PermitStep
    <2>2. CASE p # o
      BY <1>2, <1>5, <1>7, <2>2, SMTT(60)
    <2> QED
      BY <2>1, <2>2, Zenon
  <1>9. TokensApart'
    <2>1. ASSUME NEW k \in Keys, NEW p \in Observers \ {o},
                 s.permit[k] # None, obs[p].permit[k] # None,
                 s.permit[k].token # 0, s.permit[k].token = obs[p].permit[k].token
          PROVE  FALSE
      <3>1. obs[p].permit[k].token <= nextToken /\ obs[p].permit[k].token \in Nat
        BY <1>5, <2>1, Zenon
      <3>2. s.permit[k] = obs[o].permit[k]
        BY <1>7, <2>1, <3>1 DEF PermitStep
      <3> QED
        BY <2>1, <3>2, ZenonT(60) DEF BreakerInv, TokensApart
    <2> SUFFICES ASSUME NEW k \in Keys, NEW p \in Observers, NEW q \in Observers,
                        obs'[p].permit[k] # None, obs'[q].permit[k] # None,
                        obs'[p].permit[k].token # 0,
                        obs'[p].permit[k].token = obs'[q].permit[k].token,
                        p # q
                 PROVE  FALSE
      BY ZenonT(60) DEF TokensApart
    <2>2. CASE p = o
      BY <1>2, <2>1, <2>2, SMTT(60)
    <2>3. CASE q = o
      BY <1>2, <2>1, <2>3
    <2>4. CASE p # o /\ q # o
      BY <1>2, <2>4, Zenon DEF BreakerInv, TokensApart
    <2> QED
      BY <2>2, <2>3, <2>4, Zenon
  <1>10. \A p \in Observers : obs'[p].at <= now'
    BY <1>2, Zenon DEF BreakerInv
  <1>11. \A k \in Keys : entries'[k] # None => Good(entries'[k], now')
    BY Zenon DEF StoreStep
  <1>12. entries' \in [Keys -> Record \cup {None}] /\ now' \in Nat
    BY Zenon DEF StoreStep, BreakerInv
  <1> QED
    BY <1>1, <1>8, <1>9, <1>10, <1>11, <1>12, Zenon DEF BreakerInv
-----------------------------------------------------------------------------
(* The actions.                                                              *)

(* The keys whose permit some observer settles in this step, with the        *)
(* version that is on the record.                                            *)
Settled ==
    {k \in Keys : \E o \in Observers :
        /\ obs[o].pc = "ready" /\ obs'[o].pc = "idle"
        /\ obs[o].permit[k] # None
        /\ obs[o].permit[k].version = entries[k].version}

(* A record n that takes the place of r and is the same but for its label.   *)
Kept(n, r) ==
    /\ n = None <=> r = None
    /\ n # None => /\ Good(n, now) /\ n.updated = r.updated /\ n.version = r.version
                   /\ n.breaker = "closed" <=> r.breaker = "closed"

LEMMA KeptRecords ==
  ASSUME BreakerInv, entries' \in [Keys -> Record \cup {None}],
         \A k \in Keys : Kept(entries'[k], entries[k]), NEW C
  PROVE  StoreStep(C)
  <1>1. SameRecords(entries')
    BY Zenon DEF SameRecords, Kept
  <1>2. EntriesGood
    BY Zenon DEF EntriesGood, BreakerInv
  <1> QED
    BY <1>1, <1>2, ReleaseStep, Zenon

LEMMA KeptCases ==
  ASSUME BreakerInv, NEW k \in Keys, NEW token \in Nat
  PROVE  /\ Kept(entries[k], entries[k])
         /\ Kept(Admitted(entries[k], token), entries[k])
         /\ entries[k] # None => Kept(Refused(entries[k]), entries[k])
         /\ NeedsToken(entries[k]) => Kept(Labelled(entries[k], "cooldown", 0), entries[k])
  <1>1. now \in Nat /\ entries[k] \in Record \cup {None}
    BY Zenon DEF BreakerInv
  <1>2. entries[k] # None => Good(entries[k], now)
    BY Zenon DEF BreakerInv
  <1>3. \A n : Good(n, now) => n # None
    BY NilNotRecord, Zenon DEF Good
  <1>4. Kept(entries[k], entries[k])
    BY <1>2, Zenon DEF Kept
  <1>5. Kept(Admitted(entries[k], token), entries[k])
    BY <1>1, <1>2, AdmittedGood DEF Kept
  <1>6. ASSUME entries[k] # None PROVE Kept(Refused(entries[k]), entries[k])
    BY <1>1, <1>2, <1>3, <1>6, RefusedGood, Zenon DEF Kept
  <1>7. ASSUME NeedsToken(entries[k])
        PROVE  Kept(Labelled(entries[k], "cooldown", 0), entries[k])
    <2>1. Good(entries[k], now) /\ entries[k].breaker # "closed" /\ entries[k] # None
      BY <1>2, <1>7, Zenon DEF NeedsToken
    <2>2. LET n == Labelled(entries[k], "cooldown", 0)
          IN  /\ Good(n, now) /\ n.updated = entries[k].updated
              /\ n.version = entries[k].version /\ n.breaker = "cooldown"
      BY <1>1, <2>1, LabelGood
    <2> QED
      BY <1>3, <2>1, <2>2, Zenon DEF Kept
  <1> QED
    BY <1>4, <1>5, <1>6, <1>7, Zenon

LEMMA KeptType ==
  ASSUME NEW n, NEW r, Kept(n, r)
  PROVE  n \in Record \cup {None}
  BY Zenon DEF Kept, Good

LEMMA ConnectionState ==
  ASSUME NEW a \in PermitEntry, NEW c \in PermitEntry
  PROVE  /\ Connection(a, c) \in ObserverState /\ Connection(a, c).at = 0
         /\ Connection(a, c).permit[Endpoint] = a
         /\ Connection(a, c).permit[Transport] = c
         /\ \A k \in Keys \ {Endpoint, Transport} : Connection(a, c).permit[k] = None
  BY BreakerConstants, Zenon DEF Connection, ObserverState, Keys

LEMMA ObserversStay ==
  ASSUME BreakerInv, now' = now, obs' = obs,
         nextToken' \in Nat, nextToken <= nextToken', NEW C, StoreStep(C)
  PROVE  BreakerInv'
  <1>1. \A p \in Observers, k \in Keys :
            obs[p].permit[k] # None => obs[p].permit[k].token \in Nat
    BY DEF BreakerInv, ObserverState, PermitEntry
  <1>2. TokensIssued'
    BY <1>1 DEF BreakerInv, TokensIssued
  <1>3. TokensApart'
    BY ZenonT(60) DEF BreakerInv, TokensApart
  <1> QED
    BY <1>2, <1>3, Zenon DEF BreakerInv, StoreStep

LEMMA AcquireConnectionStep ==
  ASSUME BreakerInv, NEW o \in Observers, AcquireConnection(o)
  PROVE  BreakerInv' /\ StoreStep(Settled)
  <1> DEFINE e == entries[Endpoint]
             t == entries[Transport]
             t1 == IF NeedsToken(e) THEN nextToken + 1 ELSE nextToken
             t2 == IF NeedsToken(t) THEN t1 + 1 ELSE t1
             eOK == e # None => Available(e)
             tOK == t # None => Available(t)
             e1 == IF ~eOK THEN Refused(e)
                   ELSE IF tOK THEN Admitted(e, t1)
                   ELSE IF NeedsToken(e) THEN [e EXCEPT !.breaker = "cooldown", !.token = 0]
                   ELSE e
             x1 == IF ~eOK THEN t
                   ELSE IF tOK THEN Admitted(t, t2) ELSE Refused(t)
  <1>1. /\ Endpoint \in Keys /\ Transport \in Keys /\ Endpoint # Transport
        /\ nextToken \in Nat /\ t1 \in Nat /\ t2 \in Nat
        /\ nextToken <= t1 /\ t1 <= t2 /\ now \in Nat
        /\ e \in Record \cup {None} /\ t \in Record \cup {None}
    BY BreakerConstants DEF Keys, BreakerInv
  <1>2. /\ entries' = [entries EXCEPT ![Endpoint] = e1, ![Transport] = x1]
        /\ nextToken' = IF ~eOK THEN nextToken ELSE IF tOK THEN t2 ELSE t1
        /\ obs' = IF eOK /\ tOK
                  THEN [obs EXCEPT ![o] = Connection(EntryFor(Admitted(e, t1)),
                                                     EntryFor(Admitted(t, t2)))]
                  ELSE obs
        /\ now' = now
    BY Zenon DEF AcquireConnection
  <1>3. [e EXCEPT !.breaker = "cooldown", !.token = 0] = Labelled(e, "cooldown", 0)
    BY Zenon DEF Labelled
  <1>4. Kept(e1, e)
    BY <1>1, <1>3, KeptCases, Zenon
  <1>5. Kept(x1, t)
    BY <1>1, KeptCases, Zenon
  <1>6. /\ EntryFor(Admitted(e, t1)) \in PermitEntry /\ EntryFor(Admitted(t, t2)) \in PermitEntry
        /\ EntryFor(Admitted(e, t1)).token = IF NeedsToken(e) THEN t1 ELSE 0
        /\ EntryFor(Admitted(t, t2)).token = IF NeedsToken(t) THEN t2 ELSE 0
    BY <1>1, AdmittedGood, SMTT(60) DEF BreakerInv
  <1>7. nextToken' \in Nat /\ nextToken <= nextToken'
    BY <1>1, <1>2
  <1> HIDE DEF e1, x1, eOK, tOK
  <1>8. StoreStep(Settled)
    <2>1. e1 \in Record \cup {None} /\ x1 \in Record \cup {None}
      BY <1>4, <1>5, KeptType, Zenon
    <2>2. entries' \in [Keys -> Record \cup {None}]
      BY <1>1, <1>2, <2>1, Zenon DEF BreakerInv
    <2>3. \A k \in Keys : Kept(entries'[k], entries[k])
      <3>1. entries \in [Keys -> Record \cup {None}]
        BY Zenon DEF BreakerInv
      <3>2. entries'[Endpoint] = e1 /\ entries'[Transport] = x1
        BY <1>1, <1>2, <3>1, Zenon
      <3>3. \A k \in Keys \ {Endpoint, Transport} : entries'[k] = entries[k]
        BY <1>1, <1>2, <3>1, Zenon
      <3>4. \A k \in Keys : Kept(entries[k], entries[k])
        BY <1>1, KeptCases, Zenon
      <3> QED
        BY <1>4, <1>5, <3>2, <3>3, <3>4, Zenon
    <2> QED
      BY <2>2, <2>3, KeptRecords, Zenon
  <1>9. CASE eOK /\ tOK
    <2> DEFINE a == EntryFor(Admitted(e, t1))
               c == EntryFor(Admitted(t, t2))
               s == Connection(a, c)
    <2>1. obs' = [obs EXCEPT ![o] = s]
      BY <1>2, <1>9, Zenon
    <2> HIDE DEF a, c, s, e, t, t1, t2
    <2>2. a \in PermitEntry /\ c \in PermitEntry
      BY <1>6, Zenon DEF a, c
    <2>3. /\ s \in ObserverState /\ s.at = 0
          /\ s.permit[Endpoint] = a /\ s.permit[Transport] = c
          /\ \A k \in Keys \ {Endpoint, Transport} : s.permit[k] = None
      BY <2>2, ConnectionState DEF s
    <2>5. nextToken' = t2
      BY <1>2, <1>9, Zenon DEF t2
    <2>6. PermitStep(o, s)
      <3>2. \A k \in Keys : s.permit[k] # None => s.permit[k] \in {a, c}
        BY <2>3, Zenon
      <3>3. a.token = 0 \/ (a.token > nextToken /\ a.token <= t2)
        BY <1>1, <1>6, SMTT(60) DEF a, t1, t2
      <3>4. c.token = 0 \/ (c.token > nextToken /\ c.token <= t2)
        BY <1>1, <1>6 DEF c, t1, t2
      <3> QED
        BY <2>5, <3>2, <3>3, <3>4, Zenon DEF PermitStep
    <2>7. s.at <= now
      BY <1>1, <2>3
    <2>8. now' = now
      BY <1>2, Zenon
    <2> HIDE DEF Settled
    <2> QED
      BY <1>7, <1>8, <2>1, <2>3, <2>6, <2>7, <2>8, ObserverStep, Zenon
  <1>10. CASE ~(eOK /\ tOK)
    <2>1. obs' = obs /\ now' = now
      BY <1>2, <1>10, Zenon
    <2> QED
      BY <1>7, <1>8, <2>1, ObserversStay, Zenon
  <1> QED
    BY <1>8, <1>9, <1>10, Zenon
LEMMA Unlocked ==
  ASSUME BreakerInv, entries' = entries, NEW C
  PROVE  StoreStep(C)
  <1>1. \A k \in Keys : Kept(entries[k], entries[k])
    BY KeptCases, Zenon
  <1>2. entries' \in [Keys -> Record \cup {None}]
    BY Zenon DEF BreakerInv
  <1> QED
    BY <1>1, <1>2, KeptRecords, Zenon

LEMMA AcquireFallbackStep ==
  ASSUME BreakerInv, NEW o \in Observers, AcquireFallback(o)
  PROVE  BreakerInv' /\ StoreStep(Settled)
  <1> DEFINE a == EntryFor(entries[Endpoint])
             c == EntryFor(entries[Transport])
             s == Connection(a, c)
  <1>1. /\ entries' = entries /\ now' = now /\ nextToken' = nextToken
        /\ obs' = [obs EXCEPT ![o] = s]
        /\ entries[Endpoint] # None => entries[Endpoint].breaker # "half_open"
        /\ entries[Transport] # None => entries[Transport].breaker # "half_open"
    BY Zenon DEF AcquireFallback
  <1>2. /\ entries[Endpoint] \in Record \cup {None} /\ entries[Transport] \in Record \cup {None}
        /\ nextToken \in Nat /\ now \in Nat
    BY Zenon DEF BreakerInv, Keys
  <1>3. a \in PermitEntry /\ a.token = 0 /\ c \in PermitEntry /\ c.token = 0
    BY <1>1, <1>2, FallbackEntry, Zenon
  <1> HIDE DEF a, c, Settled
  <1>4. /\ s \in ObserverState /\ s.at = 0
        /\ \A k \in Keys : s.permit[k] # None => s.permit[k] \in {a, c}
    BY <1>3, ConnectionState
  <1>5. PermitStep(o, s)
    BY <1>3, <1>4, Zenon DEF PermitStep
  <1>6. StoreStep(Settled)
    BY <1>1, Unlocked, ZenonT(60)
  <1>7. nextToken' \in Nat /\ nextToken <= nextToken' /\ s.at <= now
    BY <1>1, <1>2, <1>4, SMTT(60)
  <1> HIDE DEF s
  <1> QED
    BY <1>1, <1>4, <1>5, <1>6, <1>7, ObserverStep, Zenon

LEMMA AcquireDomainStep ==
  ASSUME BreakerInv, NEW o \in Observers, NEW k \in Keys, AcquireDomain(o, k)
  PROVE  BreakerInv' /\ StoreStep(Settled)
  <1> DEFINE r == entries[k]
             token == IF NeedsToken(r) THEN nextToken + 1 ELSE nextToken
             granted == r # None => Available(r)
             n == IF granted THEN Admitted(r, token) ELSE Refused(r)
             p == IF granted THEN EntryFor(Admitted(r, token)) ELSE None
             pc == IF obs[o].pc = "early" THEN IF granted THEN "ready" ELSE "low"
                   ELSE IF granted THEN "held" ELSE "busy"
             s == [pc |-> pc, at |-> obs[o].at, key |-> k, permit |-> Domain(k, p)]
  <1>1. /\ nextToken \in Nat /\ token \in Nat /\ nextToken <= token /\ now \in Nat
        /\ r \in Record \cup {None} /\ entries \in [Keys -> Record \cup {None}]
    BY DEF BreakerInv
  <1>2. /\ entries' = [entries EXCEPT ![k] = n]
        /\ nextToken' = IF granted THEN token ELSE nextToken
        /\ obs' = [obs EXCEPT ![o] = s]
        /\ now' = now
    BY Zenon DEF AcquireDomain, BreakerInv
  <1>3. Kept(n, r)
    BY <1>1, KeptCases, Zenon
  <1>4. /\ p \in PermitEntry \cup {None}
        /\ p # None => p.token = IF NeedsToken(r) THEN token ELSE 0
        /\ p # None => granted
    BY <1>1, AdmittedGood, ZenonT(60) DEF BreakerInv
  <1>5. nextToken' \in Nat /\ nextToken <= nextToken'
    BY <1>1, <1>2, SMTT(60)
  <1>6. p # None => p.token = 0 \/ (p.token > nextToken /\ p.token <= nextToken')
    BY <1>1, <1>2, <1>4
  <1>7. pc \in {"idle", "early", "held", "busy", "ready", "low", "settling"}
    BY Zenon
  <1> HIDE DEF n, p, pc, granted, Settled
  <1>8. StoreStep(Settled)
    <2>1. n \in Record \cup {None}
      BY <1>3, KeptType, Zenon
    <2>2. entries' \in [Keys -> Record \cup {None}]
      BY <1>1, <1>2, <2>1, Zenon
    <2>3. \A j \in Keys : Kept(entries'[j], entries[j])
      BY <1>1, <1>2, <1>3, KeptCases, Zenon
    <2> QED
      BY <2>2, <2>3, KeptRecords, Zenon
  <1>9. obs[o].at \in Nat /\ obs[o].at <= now
    BY Zenon DEF BreakerInv, ObserverState
  <1>10. Domain(k, p) \in [Keys -> PermitEntry \cup {None}]
    BY <1>4, Zenon DEF Domain
  <1>11. s \in ObserverState /\ s.at <= now
    BY <1>7, <1>9, <1>10, Zenon DEF ObserverState
  <1>12. \A j \in Keys : s.permit[j] # None => s.permit[j] = p /\ p # None
    BY Zenon DEF Domain
  <1>13. PermitStep(o, s)
    BY <1>6, <1>12, Zenon DEF PermitStep
  <1>14. obs' = [obs EXCEPT ![o] = s] /\ now' = now
    BY <1>2, Zenon
  <1> HIDE DEF s
  <1> QED
    BY <1>5, <1>8, <1>11, <1>13, <1>14, ObserverStep, ZenonT(60)

(* A step that only moves an observer to another place, with the permit it   *)
(* holds.                                                                    *)
LEMMA MovesOn ==
  ASSUME BreakerInv, now' = now, nextToken' = nextToken, NEW C, StoreStep(C),
         NEW o \in Observers, NEW s \in ObserverState, s.at <= now,
         s.permit = obs[o].permit, obs' = [obs EXCEPT ![o] = s]
  PROVE  BreakerInv'
  <1>1. PermitStep(o, s)
    BY Zenon DEF PermitStep
  <1>2. nextToken' \in Nat /\ nextToken <= nextToken'
    BY DEF BreakerInv
  <1> QED
    BY <1>1, <1>2, ObserverStep, Zenon

LEMMA Finishes ==
  ASSUME BreakerInv, now' = now, nextToken' = nextToken, NEW C, StoreStep(C),
         NEW o \in Observers, Finish(o)
  PROVE  BreakerInv' /\ obs'[o].pc = "idle"
  <1>1. Idle \in ObserverState /\ \A k \in Keys : Idle.permit[k] = None
    BY Zenon DEF Idle, NoPermit, ObserverState
  <1>2. nextToken' \in Nat /\ nextToken <= nextToken' /\ Idle.at <= now
    BY DEF BreakerInv, Idle
  <1>3. obs' = [obs EXCEPT ![o] = Idle] /\ PermitStep(o, Idle)
    BY <1>1, Zenon DEF Finish, PermitStep
  <1>4. BreakerInv'
    BY <1>1, <1>2, <1>3, ObserverStep, Zenon
  <1>5. obs'[o].pc = "idle"
    BY <1>3, Zenon DEF BreakerInv, Idle
  <1> QED
    BY <1>4, <1>5, Zenon
LEMMA StampStep ==
  ASSUME BreakerInv, NEW o \in Observers, Stamp(o)
  PROVE  BreakerInv' /\ StoreStep(Settled)
  <1> DEFINE pc == CASE obs[o].pc = "idle" -> "early" [] obs[o].pc = "held" -> "ready"
                     [] OTHER -> "low"
  <1>1. obs[o] \in ObserverState /\ now \in Nat
    BY Zenon DEF BreakerInv
  <1>2. PICK s : s = [obs[o] EXCEPT !.at = now, !.pc = pc]
    BY Zenon
  <1>3. pc \in {"idle", "early", "held", "busy", "ready", "low", "settling"}
    BY Zenon
  <1>4. entries' = entries /\ now' = now /\ nextToken' = nextToken
    BY Zenon DEF Stamp
  <1>5. obs' = [obs EXCEPT ![o] = s]
    BY <1>2, Zenon DEF Stamp, BreakerInv
  <1> HIDE DEF pc, Settled
  <1>6. s \in ObserverState
    BY <1>1, <1>2, <1>3, Zenon DEF ObserverState
  <1>7. s.at <= now /\ s.permit = obs[o].permit
    BY <1>1, <1>2 DEF ObserverState
  <1>8. StoreStep(Settled)
    BY <1>4, Unlocked, Zenon
  <1> QED
    BY <1>4, <1>5, <1>6, <1>7, <1>8, MovesOn, Zenon

LEMMA InvEntriesGood == BreakerInv => EntriesGood
  BY Zenon DEF BreakerInv, EntriesGood

LEMMA Evidence ==
  ASSUME BreakerInv, NEW o \in Observers
  PROVE  obs[o].at \in Nat /\ obs[o].at <= now
  BY Zenon DEF BreakerInv, ObserverState

LEMMA ReleasedKept ==
  ASSUME BreakerInv, NEW o \in Observers, NEW k \in Keys
  PROVE  Kept(Released(entries[k], obs[o].permit[k]), entries[k])
  <1>1. now \in Nat /\ entries[k] \in Record \cup {None}
    BY Zenon DEF BreakerInv
  <1>2. entries[k] # None => Good(entries[k], now)
    BY Zenon DEF BreakerInv
  <1>3. CASE entries[k] = None
    BY <1>3, Zenon DEF Released, Kept
  <1>4. CASE entries[k] # None
    <2>1. obs[o].permit[k] \in PermitEntry \cup {None}
      BY DEF BreakerInv, ObserverState
    <2>2. PICK p : p = obs[o].permit[k]
      BY Zenon
    <2> QED
      BY <1>1, <1>2, <1>4, <2>1, <2>2, ReleasedGood, ZenonT(60) DEF Kept
  <1> QED
    BY <1>3, <1>4, Zenon

LEMMA CompleteStep ==
  ASSUME BreakerInv, NEW o \in Observers, NEW k \in Keys, NEW success \in BOOLEAN,
         Complete(o, k, success)
  PROVE  BreakerInv' /\ StoreStep(Settled)
  <1> DEFINE base == [j \in Keys |-> IF j = k THEN entries[j]
                                     ELSE Released(entries[j], obs[o].permit[j])]
             C == Fenced(k, obs[o].permit[k].version, TRUE)
  <1>1. /\ obs[o].pc = "ready" /\ obs[o].permit[k] # None
        /\ Observe(base, k, success, obs[o].at, obs[o].permit[k].version,
                   obs[o].permit[k].token, TRUE)
        /\ Finish(o) /\ now' = now /\ nextToken' = nextToken
    BY Zenon DEF Complete
  <1>2. \A j \in Keys : Kept(base[j], entries[j])
    BY ReleasedKept, KeptCases, Zenon
  <1>3. base \in [Keys -> Record \cup {None}]
    <2>1. \A j \in Keys : base[j] \in Record \cup {None}
      BY <1>2, KeptType, Zenon
    <2> QED
      BY <2>1, Zenon
  <1>4. SameRecords(base)
    BY <1>2, <1>3, Zenon DEF SameRecords, Kept
  <1>5. base[k] = entries[k]
    BY Zenon
  <1> HIDE DEF base
  <1>6. StoreStep(C)
    <2>1. EntriesGood /\ obs[o].at \in Nat /\ obs[o].at <= now /\ TRUE \in BOOLEAN
      BY InvEntriesGood, Evidence, Zenon
    <2> QED
      BY <1>1, <1>4, <1>5, <2>1, ObserveStep, Zenon
  <1> HIDE DEF C
  <1>7. BreakerInv' /\ obs'[o].pc = "idle"
    BY <1>1, <1>6, Finishes, Zenon
  <1>8. \A j \in C : j \in Settled
    BY <1>1, <1>7, Zenon DEF C, Fenced, Settled
  <1>9. StoreStep(Settled)
    BY <1>6, <1>8, Zenon DEF StoreStep
  <1> QED
    BY <1>7, <1>9, Zenon

LEMMA NothingSettles == StoreStep({}) => StoreStep(Settled)
  BY Zenon DEF StoreStep

LEMMA SettleQualityStep ==
  ASSUME BreakerInv, NEW o \in Observers, NEW k \in Keys, NEW success \in BOOLEAN,
         SettleQuality(o, k, success)
  PROVE  BreakerInv' /\ StoreStep(Settled)
  <1>1. /\ ObserveQuality(k, success, obs[o].at, FALSE)
        /\ now' = now /\ nextToken' = nextToken
    BY Zenon DEF SettleQuality
  <1>2. StoreStep({})
    <2>1. EntriesGood /\ obs[o].at \in Nat /\ obs[o].at <= now /\ FALSE \in BOOLEAN
      BY InvEntriesGood, Evidence, Zenon
    <2> QED
      BY <1>1, <2>1, QualityStep, Zenon
  <1>3. obs[o] \in ObserverState
    BY Zenon DEF BreakerInv
  <1>4. PICK s : s = [obs[o] EXCEPT !.pc = "settling"]
    BY Zenon
  <1>5. obs' = [obs EXCEPT ![o] = s]
    BY <1>4, Zenon DEF SettleQuality, BreakerInv
  <1>6. s \in ObserverState
    BY <1>3, <1>4, Zenon DEF ObserverState
  <1>7. s.at <= now /\ s.permit = obs[o].permit
    BY <1>3, <1>4, Evidence, Zenon DEF ObserverState
  <1>8. BreakerInv'
    BY <1>1, <1>2, <1>5, <1>6, <1>7, MovesOn, Zenon
  <1> QED
    BY <1>2, <1>8, NothingSettles, Zenon

LEMMA ReleaseDeferredStep ==
  ASSUME BreakerInv, NEW o \in Observers, ReleaseDeferred(o)
  PROVE  BreakerInv' /\ StoreStep(Settled)
  <1>1. /\ entries' = [k \in Keys |-> Released(entries[k], obs[o].permit[k])]
        /\ Finish(o) /\ now' = now /\ nextToken' = nextToken
    BY Zenon DEF ReleaseDeferred
  <1>2. \A k \in Keys : Kept(entries'[k], entries[k])
    BY <1>1, ReleasedKept, Zenon
  <1>3. \A k \in Keys : entries'[k] \in Record \cup {None}
    BY <1>2, KeptType, Zenon
  <1>4. entries' \in [Keys -> Record \cup {None}]
    BY <1>1, <1>3, Zenon
  <1>5. StoreStep({}) /\ StoreStep(Settled)
    BY <1>2, <1>4, KeptRecords, Zenon
  <1> QED
    BY <1>1, <1>5, Finishes, Zenon
LEMMA RecordBusyStep ==
  ASSUME BreakerInv, NEW o \in Observers, NEW success \in BOOLEAN,
         RecordBusy(o, success)
  PROVE  BreakerInv' /\ StoreStep(Settled)
  <1>1. /\ obs[o].key \in Keys
        /\ ObserveQuality(obs[o].key, success, obs[o].at, TRUE)
        /\ Finish(o) /\ now' = now /\ nextToken' = nextToken
    BY Zenon DEF RecordBusy
  <1>2. EntriesGood /\ obs[o].at \in Nat /\ obs[o].at <= now /\ TRUE \in BOOLEAN
    BY InvEntriesGood, Evidence, Zenon
  <1>3. StoreStep({})
    BY <1>1, <1>2, QualityStep, Zenon
  <1>4. BreakerInv'
    BY <1>1, <1>3, Finishes, Zenon
  <1> QED
    BY <1>3, <1>4, NothingSettles, Zenon

LEMMA ObservePassiveStep ==
  ASSUME BreakerInv, NEW o \in Observers, ObservePassive(o)
  PROVE  BreakerInv' /\ StoreStep(Settled)
  <1>1. /\ Observe(entries, Transport, FALSE, obs[o].at, 0, 0, FALSE)
        /\ Finish(o) /\ now' = now /\ nextToken' = nextToken
    BY Zenon DEF ObservePassive
  <1>2. EntriesGood /\ obs[o].at \in Nat /\ obs[o].at <= now /\ FALSE \in BOOLEAN
    BY InvEntriesGood, Evidence, Zenon
  <1>3. Transport \in Keys /\ SameRecords(entries)
    BY <1>2, EntriesSame, Zenon DEF Keys
  <1>4. StoreStep(Fenced(Transport, 0, FALSE))
    BY <1>1, <1>2, <1>3, ObserveStep, Zenon
  <1>5. StoreStep({})
    BY <1>4, Zenon DEF StoreStep, Fenced
  <1>6. BreakerInv'
    BY <1>1, <1>5, Finishes, Zenon
  <1> QED
    BY <1>5, <1>6, NothingSettles, Zenon

LEMMA ObservePassiveQualityStep ==
  ASSUME BreakerInv, NEW o \in Observers, NEW k \in Keys, ObservePassiveQuality(o, k)
  PROVE  BreakerInv' /\ StoreStep(Settled)
  <1>1. PICK success \in BOOLEAN : success = (k \in Services)
    <2>1. (k \in Services) \in BOOLEAN
      OBVIOUS
    <2> QED
      BY <2>1, Zenon
  <1>2. /\ ObserveQuality(k, success, obs[o].at, FALSE)
        /\ Finish(o) /\ now' = now /\ nextToken' = nextToken
    BY <1>1, Zenon DEF ObservePassiveQuality
  <1>3. EntriesGood /\ obs[o].at \in Nat /\ obs[o].at <= now /\ FALSE \in BOOLEAN
    BY InvEntriesGood, Evidence, Zenon
  <1>4. StoreStep({})
    BY <1>2, <1>3, QualityStep, Zenon
  <1>5. BreakerInv'
    BY <1>2, <1>4, Finishes, Zenon
  <1> QED
    BY <1>4, <1>5, NothingSettles, Zenon

LEMMA RetireStep ==
  ASSUME BreakerInv, RetireNodeHandle
  PROVE  BreakerInv' /\ StoreStep(Settled)
  <1>1. /\ entries' = [k \in Keys |-> None] /\ obs' = obs /\ now' = now
        /\ nextToken' = nextToken
    BY Zenon DEF RetireNodeHandle
  <1>2. StoreStep(Settled)
    BY <1>1, Zenon DEF StoreStep, Closes
  <1>3. nextToken' \in Nat /\ nextToken <= nextToken'
    BY <1>1 DEF BreakerInv
  <1> QED
    BY <1>1, <1>2, <1>3, ObserversStay, Zenon

LEMMA TickStep ==
  ASSUME BreakerInv, Tick
  PROVE  BreakerInv' /\ StoreStep(Settled)
  <1>1. /\ entries' = entries /\ obs' = obs /\ nextToken' = nextToken
        /\ now \in Nat /\ now' = now + 1
    BY Zenon DEF Tick, BreakerInv
  <1>2. \A k \in Keys : entries[k] # None => Good(entries[k], now + 1)
    <2>1. \A r : Good(r, now) => Good(r, now + 1)
      BY <1>1, BreakerConstants DEF Good, Record
    <2> QED
      BY <2>1, Zenon DEF BreakerInv
  <1>3. \A o \in Observers : obs[o].at <= now + 1
    BY <1>1 DEF BreakerInv, ObserverState
  <1>4. TokensIssued' /\ TokensApart'
    BY <1>1, Zenon DEF BreakerInv, TokensIssued, TokensApart
  <1>5. BreakerInv'
    <2>1. entries' \in [Keys -> Record \cup {None}] /\ obs' \in [Observers -> ObserverState]
      BY <1>1, Zenon DEF BreakerInv
    <2>2. now' \in Nat /\ nextToken' \in Nat
      BY <1>1 DEF BreakerInv
    <2>3. \A k \in Keys : entries'[k] # None => Good(entries'[k], now')
      BY <1>1, <1>2, Zenon
    <2>4. \A o \in Observers : obs'[o].at <= now'
      BY <1>1, <1>3, Zenon
    <2> QED
      BY <1>4, <2>1, <2>2, <2>3, <2>4, Zenon DEF BreakerInv
  <1> QED
    BY <1>1, <1>5, Unlocked, Zenon

(* Every step keeps the invariant and is a step of the store in which only   *)
(* settled permits close a breaker.                                          *)
LEMMA EveryStep ==
  ASSUME BreakerInv, [Next]_vars
  PROVE  BreakerInv' /\ StoreStep(Settled)
  <1>1. CASE UNCHANGED vars
    <2>1. /\ entries' = entries /\ obs' = obs /\ now' = now /\ nextToken' = nextToken
      BY <1>1, Zenon DEF vars
    <2>2. nextToken' \in Nat /\ nextToken <= nextToken'
      BY <2>1 DEF BreakerInv
    <2> QED
      BY <2>1, <2>2, Unlocked, ObserversStay, Zenon
  <1>2. CASE RetireNodeHandle
    BY <1>2, RetireStep, Zenon
  <1>3. CASE Tick
    BY <1>3, TickStep, Zenon
  <1>4. ASSUME NEW o \in Observers, Step(o)
        PROVE  BreakerInv' /\ StoreStep(Settled)
    <2>1. CASE AcquireConnection(o)
      BY <2>1, AcquireConnectionStep, Zenon
    <2>2. CASE AcquireFallback(o)
      BY <2>2, AcquireFallbackStep, Zenon
    <2>3. CASE \E k \in Keys : AcquireDomain(o, k)
      BY <2>3, AcquireDomainStep, Zenon
    <2>4. CASE Stamp(o)
      BY <2>4, StampStep, Zenon
    <2>5. CASE \E k \in Keys, s \in BOOLEAN : Complete(o, k, s)
      BY <2>5, CompleteStep, Zenon
    <2>6. CASE \E k \in Keys, s \in BOOLEAN : SettleQuality(o, k, s)
      BY <2>6, SettleQualityStep, Zenon
    <2>7. CASE ReleaseDeferred(o)
      BY <2>7, ReleaseDeferredStep, Zenon
    <2>8. CASE \E s \in BOOLEAN : RecordBusy(o, s)
      BY <2>8, RecordBusyStep, Zenon
    <2>9. CASE ObservePassive(o)
      BY <2>9, ObservePassiveStep, Zenon
    <2>10. CASE \E k \in Keys : ObservePassiveQuality(o, k)
      BY <2>10, ObservePassiveQualityStep, Zenon
    <2> QED
      BY <1>4, <2>1, <2>2, <2>3, <2>4, <2>5, <2>6, <2>7, <2>8, <2>9, <2>10, ZenonT(60) DEF Step
  <1> QED
    BY <1>1, <1>2, <1>3, <1>4, Zenon DEF Next

-----------------------------------------------------------------------------
(* The inductive invariant holds in every reachable state of health.go's     *)
(* store and its observers.                                                  *)
THEOREM BreakerInvariant == Spec => []BreakerInv
  <1>1. Init => BreakerInv
    <2> SUFFICES ASSUME Init PROVE BreakerInv
      BY Zenon
    <2>1. Idle \in ObserverState /\ Idle.at = 0 /\ \A k \in Keys : Idle.permit[k] = None
      BY Zenon DEF Idle, NoPermit, ObserverState
    <2>2. \A o \in Observers : obs[o] = Idle
      BY Zenon DEF Init
    <2>3. TokensIssued /\ TokensApart
      BY <2>1, <2>2, Zenon DEF TokensIssued, TokensApart
    <2>4. obs \in [Observers -> ObserverState] /\ \A o \in Observers : obs[o].at <= now
      BY <2>1, <2>2 DEF Init
    <2> QED
      BY <2>3, <2>4, Zenon DEF Init, BreakerInv
  <1>2. BreakerInv /\ [Next]_vars => BreakerInv'
    BY EveryStep, Zenon
  <1> QED
    BY <1>1, <1>2, PTL DEF Spec

(* TryAcquire*: no two unsettled permits own the half-open token of one      *)
(* breaker, whatever the number of observers, keys and tokens.               *)
THEOREM SingleRecoveryOwnerTheorem == Spec => []SingleRecoveryOwner
  <1>1. BreakerInv => SingleRecoveryOwner
    BY DEF BreakerInv, TokensApart, SingleRecoveryOwner, Owns
  <1> QED
    BY <1>1, BreakerInvariant, PTL

(* observeLocked, releaseTokenLocked and availableLocked keep the fields of  *)
(* every record in agreement with the state of its breaker.                  *)
THEOREM BreakerConsistentTheorem == Spec => []BreakerConsistent
  <1>1. BreakerInv => BreakerConsistent
    BY Zenon DEF BreakerInv, Good, BreakerConsistent, Known
  <1> QED
    BY <1>1, BreakerInvariant, PTL

(* openBreakerRecordLocked: for every base, maximum and jitter, a breaker    *)
(* lets attempts through again within MaxCooldown from now.                  *)
THEOREM CooldownBoundedTheorem == Spec => []CooldownBounded
  <1>1. BreakerInv => CooldownBounded
    BY Zenon DEF BreakerInv, Good, CooldownBounded, Known
  <1> QED
    BY <1>1, BreakerInvariant, PTL

(* observeLocked and observeQualityLocked never apply evidence older than    *)
(* what the record already holds.                                            *)
THEOREM EvidenceInOrderTheorem == Spec => EvidenceInOrder
  <1>1. BreakerInv /\ [Next]_vars =>
          [\A k \in Keys : entries[k] # None /\ entries'[k] # None =>
               entries'[k].updated >= entries[k].updated]_vars
    BY EveryStep, Zenon DEF StoreStep
  <1> QED
    BY <1>1, BreakerInvariant, PTL DEF Spec, EvidenceInOrder
(* A result closes a breaker only if its permit was taken in the opening it  *)
(* closes: completePermit compares the version the permit captured.          *)
THEOREM LateResultFenceTheorem == Spec => LateResultFence
  <1>1. BreakerInv /\ [Next]_vars =>
          [\A k \in Known :
             entries[k].breaker # "closed" /\ entries'[k] # None
               /\ entries'[k].breaker = "closed" /\ entries'[k].version = entries[k].version =>
                 \E o \in Observers : /\ obs[o].pc = "ready" /\ obs'[o].pc = "idle"
                                      /\ obs[o].permit[k] # None
                                      /\ obs[o].permit[k].version = entries[k].version]_vars
    BY EveryStep, Zenon DEF StoreStep, Closes, Settled, Known
  <1> QED
    BY <1>1, BreakerInvariant, PTL DEF Spec, LateResultFence

(* observeLocked: a half-open breaker closes only if one success was already *)
(* counted.                                                                  *)
THEOREM TwoSuccessesToCloseTheorem == Spec => TwoSuccessesToClose
  <1>1. BreakerInv /\ [Next]_vars =>
          [\A k \in Known :
             entries[k].breaker = "half_open" /\ entries'[k] # None
               /\ entries'[k].breaker = "closed" /\ entries'[k].version = entries[k].version =>
                 entries[k].recovery = 1]_vars
    BY EveryStep, Zenon DEF StoreStep, Closes, Known
  <1> QED
    BY <1>1, BreakerInvariant, PTL DEF Spec, TwoSuccessesToClose

-----------------------------------------------------------------------------
(* The node profile registry. *)

(* What the proof needs of the types; the order of completion (age) only     *)
(* decides which completed entries go.                                       *)
RegistryTyped ==
    /\ prober \in [Probers -> ProberCall]
    /\ profiles \in [AllTracks -> Profile \cup {Nil}]
    /\ activity \in [Endpoints -> Probers \cup {Nil}]
    /\ \A p \in Probers : prober[p].pc # "idle" => prober[p].track \in Tracks

(* r.active and the calls agree: a call owns the endpoint of its track from  *)
(* its admission to the end of its probe, and nobody else does.              *)
OwnersAgree ==
    /\ \A p \in Probers : Owning(p) => activity[EndpointFor(p)] = p
    /\ \A e \in Endpoints : activity[e] # Nil =>
           Owning(activity[e]) /\ EndpointFor(activity[e]) = e

(* An entry in flight belongs to the call that probes its track. *)
EntriesOwned ==
    \A k \in AllTracks : Inflight(profiles, k) =>
        Owning(profiles[k].owner) /\ prober[profiles[k].owner].track = k

(* A call that sleeps has the channel of a running call of its endpoint. *)
SleepersServed ==
    \A p \in Probers : prober[p].pc \in {"joined", "queued"} =>
        /\ prober[p].of \in Probers /\ Owning(prober[p].of)
        /\ EndpointFor(prober[p].of) = EndpointFor(p)
        /\ prober[p].pc = "joined" => prober[prober[p].of].track = prober[p].track

(* A sample handed to a joined call was taken during that call; a probe that *)
(* has returned has a result.                                                *)
SamplesNew ==
    \A p \in Probers :
        /\ prober[p].pc = "finishing" => prober[p].outcome \in Outcomes
        /\ prober[p].pc = "served" /\ prober[p].outcome # "deferred" => prober[p].sampled
        /\ prober[p].pc = "idle" /\ prober[p].fresh => prober[p].sampled

RegistryInv == RegistryTyped /\ OwnersAgree /\ EntriesOwned /\ SleepersServed /\ SamplesNew

OwningPoints == {"admitted", "probing", "finishing"}

(* An idle call, as the zero of the calls (its definition need not be        *)
(* expanded elsewhere).                                                      *)
LEMMA IdleCallFields ==
    /\ IdleCall \in ProberCall
    /\ IdleCall.pc = "idle" /\ IdleCall.sampled = FALSE /\ IdleCall.fresh = FALSE
    /\ IdleCall.outcome = "none"
  BY Zenon DEF IdleCall, ProberCall, Modes, Outcomes

LEMMA RegistryInit == ProfilesInit => RegistryInv
  <1> SUFFICES ASSUME ProfilesInit PROVE RegistryInv
      BY Zenon
  <1>1. \A p \in Probers : prober[p] = IdleCall
      BY Zenon DEF ProfilesInit
  <1>2. RegistryTyped
      BY <1>1, IdleCallFields, ProfileConstants, Zenon DEF ProfilesInit, RegistryTyped
  <1>3. OwnersAgree /\ EntriesOwned
      BY <1>1, IdleCallFields, Zenon DEF ProfilesInit, OwnersAgree, EntriesOwned, Owning, Inflight
  <1>4. SleepersServed /\ SamplesNew
      BY <1>1, IdleCallFields, Zenon DEF SleepersServed, SamplesNew
  <1> QED BY <1>2, <1>3, <1>4, Zenon DEF RegistryInv

(* No entry comes to be in flight. *)
TableShrinks ==
    \A k \in AllTracks : Inflight(profiles, k)' =>
        Inflight(profiles, k) /\ profiles'[k].owner = profiles[k].owner

(* What call p may become by a step of its own that neither takes nor gives  *)
(* back an endpoint.                                                         *)
CallMoves(p, c) ==
    /\ c \in ProberCall /\ (c.pc # "idle" => c.track \in Tracks)
    /\ \/ ~Owning(p) /\ c.pc \notin OwningPoints
       \/ Owning(p) /\ c.pc \in OwningPoints /\ c.track = prober[p].track
    /\ c.pc \in {"joined", "queued"} =>
           /\ c.of \in Probers /\ Owning(c.of)
           /\ EndpointFor(c.of) = EndpointOf[c.track]
           /\ c.pc = "joined" => prober[c.of].track = c.track
    /\ c.pc = "finishing" => c.outcome \in Outcomes
    /\ c.pc = "served" /\ c.outcome # "deferred" => c.sampled
    /\ c.pc = "idle" /\ c.fresh => c.sampled

(* A step of one call that leaves the endpoints alone keeps the invariant,   *)
(* whatever completed entries leave the table with it.                       *)
LEMMA CallStep ==
    ASSUME RegistryInv, NEW p \in Probers, NEW c, CallMoves(p, c),
           prober' \in [Probers -> ProberCall], prober'[p] = c,
           \A q \in Probers : q # p => prober'[q] = prober[q], UNCHANGED activity,
           profiles' \in [AllTracks -> Profile \cup {Nil}], TableShrinks
    PROVE  RegistryInv'
  <1>0. RegistryTyped
      BY Zenon DEF RegistryInv
  <1>a. prober'[p] = c /\ \A q \in Probers : q # p => prober'[q] = prober[q]
      BY Zenon
  <1>b. \A q \in Probers : /\ Owning(q)' <=> Owning(q)
                           /\ Owning(q) => prober'[q].track = prober[q].track
      BY <1>a, Zenon DEF CallMoves, Owning, OwningPoints
  <1>c. \A q \in Probers : Owning(q) => EndpointFor(q)' = EndpointFor(q)
      BY <1>b, Zenon DEF EndpointFor
  <1>1. RegistryTyped'
    <2>1. \A q \in Probers : prober'[q].pc # "idle" => prober'[q].track \in Tracks
        BY <1>0, <1>a, Zenon DEF RegistryTyped, CallMoves
    <2> QED BY <2>1, <1>0, Zenon DEF RegistryTyped
  <1>2. OwnersAgree'
    <2>1. \A q \in Probers : Owning(q)' => activity'[EndpointFor(q)'] = q
        BY <1>b, <1>c, ZenonT(60) DEF RegistryInv, OwnersAgree
    <2>2. \A e \in Endpoints, q \in Probers : activity[e] = q => Owning(q)' /\ EndpointFor(q)' = e
        BY <1>0, <1>b, <1>c, ProfileConstants, SMTT(60) DEF RegistryInv, OwnersAgree
    <2>3. \A e \in Endpoints : activity[e] \in Probers \cup {Nil}
        BY <1>0, Zenon DEF RegistryTyped
    <2> QED BY <2>1, <2>2, <2>3, Zenon DEF OwnersAgree
  <1>3. EntriesOwned'
    <2> SUFFICES ASSUME NEW k \in AllTracks, Inflight(profiles, k)'
                 PROVE  /\ prober'[profiles'[k].owner].pc \in OwningPoints
                        /\ prober'[profiles'[k].owner].track = k
        BY Zenon DEF EntriesOwned, Owning, OwningPoints
    <2>1. Inflight(profiles, k) /\ profiles'[k].owner = profiles[k].owner
        BY Zenon DEF TableShrinks
    <2>2. profiles[k].owner \in Probers
        BY <2>1, <1>0, Zenon DEF Inflight, RegistryTyped, Profile
    <2>3. Owning(profiles[k].owner) /\ prober[profiles[k].owner].track = k
        BY <2>1, Zenon DEF RegistryInv, EntriesOwned
    <2> QED BY <2>1, <2>2, <2>3, <1>b, Zenon DEF Owning, OwningPoints
  <1>4. SleepersServed'
    <2> SUFFICES ASSUME NEW q \in Probers, prober'[q].pc \in {"joined", "queued"}
                 PROVE  /\ prober'[q].of \in Probers
                        /\ prober'[prober'[q].of].pc \in OwningPoints
                        /\ EndpointOf[prober'[prober'[q].of].track] = EndpointOf[prober'[q].track]
                        /\ prober'[q].pc = "joined" =>
                              prober'[prober'[q].of].track = prober'[q].track
        BY ZenonT(60) DEF SleepersServed, Owning, OwningPoints, EndpointFor
    <2>1. /\ prober'[q].of \in Probers /\ Owning(prober'[q].of)
          /\ EndpointFor(prober'[q].of) = EndpointOf[prober'[q].track]
          /\ prober'[q].pc = "joined" => prober[prober'[q].of].track = prober'[q].track
        BY <1>a, SMTT(60) DEF CallMoves, RegistryInv, SleepersServed, EndpointFor
    <2> QED BY <2>1, <1>b, Zenon DEF EndpointFor, Owning, OwningPoints
  <1>5. SamplesNew'
      BY <1>a, ZenonT(60) DEF SamplesNew, RegistryInv, CallMoves
  <1> QED BY <1>1, <1>2, <1>3, <1>4, <1>5, ZenonT(60) DEF RegistryInv

(* A step of the table alone keeps the invariant. *)
LEMMA TableStep ==
    ASSUME RegistryInv, UNCHANGED <<prober, activity>>,
           profiles' \in [AllTracks -> Profile \cup {Nil}], TableShrinks
    PROVE  RegistryInv'
  <1>1. RegistryTyped'
      BY Zenon DEF RegistryInv, RegistryTyped
  <1>2. OwnersAgree' /\ SleepersServed' /\ SamplesNew'
      BY Zenon DEF RegistryInv, OwnersAgree, SleepersServed, SamplesNew, Owning, EndpointFor
  <1>3. EntriesOwned'
      BY ZenonT(60) DEF RegistryInv, EntriesOwned, Owning, TableShrinks
  <1> QED BY <1>1, <1>2, <1>3, Zenon DEF RegistryInv

(* The admission of a probe: the endpoint was free, so that nobody else owns *)
(* it, and the new entry is the call's own.                                  *)
LEMMA AdmissionStep ==
    ASSUME RegistryInv, NEW p \in Probers, prober[p].pc = "checked", ~EndpointBusy(p),
           prober' = [prober EXCEPT ![p].pc = "admitted"],
           activity' = [activity EXCEPT ![EndpointFor(p)] = p],
           profiles' \in [AllTracks -> Profile \cup {Nil}],
           profiles'[prober[p].track].owner = p,
           \A k \in AllTracks : k # prober[p].track /\ Inflight(profiles, k)' =>
               Inflight(profiles, k) /\ profiles'[k].owner = profiles[k].owner
    PROVE  RegistryInv'
  <1> DEFINE ep == EndpointFor(p)
  <1>0. /\ RegistryTyped /\ prober[p] \in ProberCall /\ prober[p].track \in Tracks
        /\ ep \in Endpoints /\ activity[ep] = Nil /\ ~Owning(p)
      BY ProfileConstants, Zenon
      DEF RegistryInv, RegistryTyped, EndpointBusy, EndpointFor, Owning
  <1>a. /\ prober'[p].pc = "admitted" /\ prober'[p].track = prober[p].track
        /\ prober'[p] \in ProberCall
        /\ \A q \in Probers : q # p => prober'[q] = prober[q]
      BY <1>0, ZenonT(60) DEF RegistryTyped, ProberCall
  <1>b. \A q \in Probers : /\ EndpointFor(q)' = EndpointFor(q)
                           /\ Owning(q)' <=> (q = p \/ Owning(q))
      BY <1>a, Zenon DEF EndpointFor, Owning
  <1>c. activity'[ep] = p /\ \A e \in Endpoints : e # ep => activity'[e] = activity[e]
      BY <1>0, Zenon DEF RegistryTyped
  <1>1. RegistryTyped'
    <2>1. (prober \in [Probers -> ProberCall])'
        BY <1>0, <1>a, Zenon DEF RegistryTyped
    <2>2. (activity \in [Endpoints -> Probers \cup {Nil}])'
        BY <1>0, Zenon DEF RegistryTyped
    <2> QED BY <2>1, <2>2, <1>0, <1>a, Zenon DEF RegistryTyped
  <1>2. OwnersAgree'
    <2>1. \A q \in Probers : Owning(q) =>
             activity[EndpointFor(q)] = q /\ EndpointFor(q) \in Endpoints /\ EndpointFor(q) # ep
        BY <1>0, ProfileConstants
        DEF RegistryInv, OwnersAgree, RegistryTyped, EndpointFor, Owning
    <2>2. \A q \in Probers : Owning(q)' => activity'[EndpointFor(q)'] = q
        BY <2>1, <1>b, <1>c, ZenonT(60)
    <2>3. \A e \in Endpoints, q \in Probers :
             activity'[e] = q => Owning(q)' /\ EndpointFor(q)' = e
        BY <1>0, <1>b, <1>c, ProfileConstants, SMTT(60) DEF RegistryInv, OwnersAgree
    <2>4. \A e \in Endpoints : activity'[e] \in Probers \cup {Nil}
        BY <1>1, Zenon DEF RegistryTyped
    <2> QED BY <2>2, <2>3, <2>4, ZenonT(60) DEF OwnersAgree
  <1>3. EntriesOwned'
    <2> SUFFICES ASSUME NEW k \in AllTracks, Inflight(profiles, k)'
                 PROVE  /\ prober'[profiles'[k].owner].pc \in OwningPoints
                        /\ prober'[profiles'[k].owner].track = k
        BY Zenon DEF EntriesOwned, Owning, OwningPoints
    <2>1. CASE k = prober[p].track
        BY <2>1, <1>a, Zenon DEF OwningPoints
    <2>2. CASE k # prober[p].track
      <3>1. Inflight(profiles, k) /\ profiles'[k].owner = profiles[k].owner
          BY <2>2, Zenon
      <3>2. Owning(profiles[k].owner) /\ prober[profiles[k].owner].track = k
          BY <3>1, Zenon DEF RegistryInv, EntriesOwned
      <3>3. profiles[k].owner \in Probers
          BY <3>1, <1>0, Zenon DEF Inflight, RegistryTyped, Profile
      <3> QED BY <3>1, <3>2, <3>3, <1>0, <1>a, Zenon DEF Owning, OwningPoints
    <2> QED BY <2>1, <2>2, Zenon
  <1>4. SleepersServed'
    <2> SUFFICES ASSUME NEW q \in Probers, prober'[q].pc \in {"joined", "queued"}
                 PROVE  /\ prober'[q].of \in Probers
                        /\ prober'[prober'[q].of].pc \in OwningPoints
                        /\ EndpointOf[prober'[prober'[q].of].track] = EndpointOf[prober'[q].track]
                        /\ prober'[q].pc = "joined" =>
                              prober'[prober'[q].of].track = prober'[q].track
        BY Zenon DEF SleepersServed, Owning, OwningPoints, EndpointFor
    <2>1. q # p /\ prober'[q] = prober[q]
        BY <1>a, Zenon
    <2>2. /\ prober[q].of \in Probers /\ Owning(prober[q].of)
          /\ EndpointFor(prober[q].of) = EndpointFor(q)
          /\ prober[q].pc = "joined" => prober[prober[q].of].track = prober[q].track
        BY <2>1, Zenon DEF RegistryInv, SleepersServed
    <2>3. prober'[prober[q].of] = prober[prober[q].of]
        BY <2>2, <1>0, <1>a, Zenon
    <2> QED BY <2>1, <2>2, <2>3, Zenon DEF EndpointFor, Owning, OwningPoints
  <1>5. SamplesNew'
      BY <1>a, ZenonT(60) DEF SamplesNew, RegistryInv
  <1> QED BY <1>1, <1>2, <1>3, <1>4, <1>5, Zenon DEF RegistryInv

(* What the end of the probe of p makes of every call: p returns, those that *)
(* joined it have its result, those behind the endpoint begin again, and the *)
(* others at most learn that a sample was taken.                             *)
SettledCall(p, outcome, q) ==
    /\ prober'[q] \in ProberCall
    /\ q = p => prober'[q].pc = "idle" /\ (prober'[q].fresh => prober'[q].sampled)
    /\ q # p => /\ prober'[q].track = prober[q].track
                /\ prober[q].sampled => prober'[q].sampled
    /\ q # p /\ prober[q].pc = "joined" /\ prober[q].of = p =>
           /\ prober'[q].pc = "served" /\ prober'[q].outcome = outcome
           /\ outcome # "deferred" /\ prober[q].track = prober[p].track => prober'[q].sampled
    /\ q # p /\ prober[q].pc = "queued" /\ prober[q].of = p => prober'[q].pc = "enter"
    /\ q # p /\ ~(prober[q].pc \in {"joined", "queued"} /\ prober[q].of = p) =>
           /\ prober'[q].pc = prober[q].pc /\ prober'[q].of = prober[q].of
           /\ prober'[q].outcome = prober[q].outcome /\ prober'[q].fresh = prober[q].fresh

LEMMA SettleCalls ==
    ASSUME RegistryTyped, NEW p \in Probers, NEW outcome \in Outcomes,
           SettleProbe(p, outcome), NEW q \in Probers
    PROVE  SettledCall(p, outcome, q)
  <1> DEFINE fresh == outcome # "deferred"
             k == prober[p].track
  <1>0. prober[q] \in ProberCall
      BY Zenon DEF RegistryTyped
  <1>1. PICK c : c = [prober[q] EXCEPT !.sampled = @ \/ (fresh /\ prober[q].track = k)]
      BY Zenon
  <1>2. /\ c \in ProberCall /\ c.pc = prober[q].pc /\ c.of = prober[q].of
        /\ c.track = prober[q].track /\ c.outcome = prober[q].outcome
        /\ c.fresh = prober[q].fresh
        /\ c.sampled = (prober[q].sampled \/ (fresh /\ prober[q].track = k))
      BY <1>0, <1>1, Zenon DEF ProberCall
  <1>3. prober'[q] = CASE q = p -> [IdleCall EXCEPT !.sampled = fresh, !.fresh = fresh]
             [] q # p /\ c.pc = "joined" /\ c.of = p ->
                    [c EXCEPT !.pc = "served", !.of = Nil, !.outcome = outcome]
             [] q # p /\ c.pc = "queued" /\ c.of = p -> [c EXCEPT !.pc = "enter", !.of = Nil]
             [] OTHER -> c
      BY <1>1, Zenon DEF SettleProbe
  <1> HIDE DEF fresh, k
  <1>4. CASE q = p
    <2>1. prober'[q] = [IdleCall EXCEPT !.sampled = fresh, !.fresh = fresh]
        BY <1>3, <1>4, Zenon
    <2>2. fresh \in BOOLEAN
        BY Zenon DEF fresh
    <2>3. prober'[q] \in ProberCall /\ prober'[q].pc = "idle" /\ prober'[q].sampled = fresh
        BY <2>1, <2>2, IdleCallFields, Zenon DEF ProberCall
    <2>4. prober'[q].fresh = fresh
        BY <2>1, <2>2, IdleCallFields, Zenon DEF ProberCall
    <2> QED BY <1>4, <2>3, <2>4, Zenon DEF SettledCall
  <1>5. CASE q # p /\ c.pc = "joined" /\ c.of = p
    <2>1. prober'[q] = [c EXCEPT !.pc = "served", !.of = Nil, !.outcome = outcome]
        BY <1>3, <1>5, Zenon
    <2> QED BY <1>2, <1>5, <2>1, ZenonT(60) DEF SettledCall, ProberCall, Outcomes, fresh, k
  <1>6. CASE q # p /\ c.pc = "queued" /\ c.of = p
    <2>1. prober'[q] = [c EXCEPT !.pc = "enter", !.of = Nil]
        BY <1>3, <1>6, Zenon
    <2> QED BY <1>2, <1>6, <2>1, Zenon DEF SettledCall, ProberCall
  <1>7. CASE q # p /\ ~(c.pc \in {"joined", "queued"} /\ c.of = p)
    <2>1. prober'[q] = c
        BY <1>3, <1>7, Zenon
    <2> QED BY <1>2, <1>7, <2>1, Zenon DEF SettledCall
  <1> QED BY <1>4, <1>5, <1>6, <1>7, Zenon

(* A completed entry is not in flight. *)
LEMMA ResultFields ==
    ASSUME NEW p, NEW outcome \in Outcomes
    PROVE  Result(p, outcome) \in Profile /\ Result(p, outcome).owner = Nil
  <1>1. NewProfile(p).failures = 0
      BY Zenon DEF NewProfile
  <1>2. OneMore(0) \in 0..DeadAfter
      BY ProfileConstants DEF OneMore
  <1> QED BY <1>1, <1>2, ProfileConstants DEF Result, Previous, Profile, Outcomes

(* The end of a probe keeps the invariant: only the calls that slept on its  *)
(* channels had it as the call they wait for.                                *)
LEMMA SettleStep ==
    ASSUME RegistryInv, NEW p \in Probers, Owning(p), NEW outcome \in Outcomes,
           SettleProbe(p, outcome)
    PROVE  RegistryInv'
  <1> DEFINE k == prober[p].track
             ep == EndpointFor(p)
  <1>0. /\ RegistryTyped /\ k \in Tracks /\ k \in AllTracks /\ ep \in Endpoints
        /\ activity[ep] = p
      BY ProfileConstants, SMTT(60)
      DEF RegistryInv, RegistryTyped, OwnersAgree, Owning, EndpointFor, AllTracks
  <1>a. \A q \in Probers : SettledCall(p, outcome, q)
      BY <1>0, SettleCalls, Zenon
  <1>b. \A q \in Probers : /\ Owning(q)' <=> (Owning(q) /\ q # p)
                           /\ q # p => EndpointFor(q)' = EndpointFor(q)
      BY <1>a, Zenon DEF SettledCall, Owning, EndpointFor
  <1>c. activity'[ep] = Nil /\ \A e \in Endpoints : e # ep => activity'[e] = activity[e]
      BY <1>0, Zenon DEF SettleProbe, RegistryTyped
  <1>d. /\ profiles' \in [AllTracks -> Profile \cup {Nil}]
        /\ \A j \in AllTracks : Inflight(profiles, j)' =>
              /\ Inflight(profiles, j) /\ profiles'[j].owner = profiles[j].owner
              /\ profiles[j].owner # p
    <2>1. \A j \in AllTracks : Inflight(profiles, j) /\ profiles[j].owner = p => j = k
        BY Zenon DEF RegistryInv, EntriesOwned
    <2>2. CASE profiles[k] # Nil /\ profiles[k].owner = p
      <3>1. profiles' = [profiles EXCEPT ![k] = Result(p, outcome)]
          BY <2>2, Zenon DEF SettleProbe
      <3> QED BY <2>1, <2>2, <3>1, <1>0, ResultFields, Zenon DEF RegistryTyped, Inflight
    <2>3. CASE ~(profiles[k] # Nil /\ profiles[k].owner = p)
      <3>1. profiles' = profiles
          BY <2>3, Zenon DEF SettleProbe
      <3> QED BY <2>1, <2>3, <3>1, <1>0, Zenon DEF RegistryTyped, Inflight
    <2> QED BY <2>2, <2>3, Zenon
  <1>1. RegistryTyped'
    <2>1. (prober \in [Probers -> ProberCall])'
        BY <1>a, Zenon DEF SettledCall, SettleProbe
    <2>2. (activity \in [Endpoints -> Probers \cup {Nil}])'
        BY <1>0, Zenon DEF RegistryTyped, SettleProbe
    <2>3. \A q \in Probers : prober'[q].pc # "idle" => prober'[q].track \in Tracks
      <3> SUFFICES ASSUME NEW q \in Probers, prober'[q].pc # "idle"
                   PROVE  prober'[q].track \in Tracks
          BY Zenon
      <3>1. SettledCall(p, outcome, q)
          BY <1>a, Zenon
      <3>2. prober[q].pc # "idle" => prober[q].track \in Tracks
          BY <1>0, Zenon DEF RegistryTyped
      <3> QED BY <3>1, <3>2, Zenon DEF SettledCall
    <2> QED BY <2>1, <2>2, <2>3, <1>d, Zenon DEF RegistryTyped
  <1>2. OwnersAgree'
    <2>1. \A q \in Probers : Owning(q) => activity[EndpointFor(q)] = q /\ EndpointFor(q) \in Endpoints
      <3>1. ASSUME NEW q \in Probers, Owning(q)
            PROVE  activity[EndpointFor(q)] = q
          BY <3>1, Zenon DEF RegistryInv, OwnersAgree
      <3>2. ASSUME NEW q \in Probers, Owning(q)
            PROVE  prober[q].track \in Tracks
          BY <1>0, <3>2, Zenon DEF RegistryTyped, Owning
      <3>3. ASSUME NEW q \in Probers, Owning(q)
            PROVE  EndpointFor(q) \in Endpoints
          BY <3>2, <3>3, ProfileConstants, Zenon DEF EndpointFor
      <3> QED BY <3>1, <3>3, Zenon
    <2>2. \A q \in Probers : Owning(q)' => activity'[EndpointFor(q)'] = q
        BY <2>1, <1>0, <1>b, <1>c, Zenon
    <2>3. \A e \in Endpoints, q \in Probers :
             activity'[e] = q => Owning(q)' /\ EndpointFor(q)' = e
        BY <1>0, <1>b, <1>c, ProfileConstants, ZenonT(60) DEF RegistryInv, OwnersAgree
    <2>4. \A e \in Endpoints : activity'[e] \in Probers \cup {Nil}
        BY <1>1, Zenon DEF RegistryTyped
    <2> QED BY <2>2, <2>3, <2>4, Zenon DEF OwnersAgree
  <1>3. EntriesOwned'
    <2> SUFFICES ASSUME NEW j \in AllTracks, Inflight(profiles, j)'
                 PROVE  /\ prober'[profiles'[j].owner].pc \in OwningPoints
                        /\ prober'[profiles'[j].owner].track = j
        BY Zenon DEF EntriesOwned, Owning, OwningPoints
    <2>1. /\ Inflight(profiles, j) /\ profiles'[j].owner = profiles[j].owner
          /\ profiles[j].owner # p
        BY <1>d, Zenon
    <2>2. Owning(profiles[j].owner) /\ prober[profiles[j].owner].track = j
        BY <2>1, Zenon DEF RegistryInv, EntriesOwned
    <2>3. profiles[j].owner \in Probers
        BY <2>1, <1>0, Zenon DEF Inflight, RegistryTyped, Profile
    <2> QED BY <2>1, <2>2, <2>3, <1>a, SMTT(60) DEF SettledCall, Owning, OwningPoints
  <1>4. SleepersServed'
    <2> SUFFICES ASSUME NEW q \in Probers, prober'[q].pc \in {"joined", "queued"}
                 PROVE  /\ prober'[q].of \in Probers
                        /\ prober'[prober'[q].of].pc \in OwningPoints
                        /\ EndpointOf[prober'[prober'[q].of].track] = EndpointOf[prober'[q].track]
                        /\ prober'[q].pc = "joined" =>
                              prober'[prober'[q].of].track = prober'[q].track
        BY Zenon DEF SleepersServed, Owning, OwningPoints, EndpointFor
    <2>1. /\ q # p /\ prober'[q].pc = prober[q].pc /\ prober'[q].of = prober[q].of
          /\ prober'[q].track = prober[q].track /\ prober[q].of # p
        BY <1>a, Zenon DEF SettledCall
    <2>2. /\ prober[q].of \in Probers /\ Owning(prober[q].of)
          /\ EndpointFor(prober[q].of) = EndpointFor(q)
          /\ prober[q].pc = "joined" => prober[prober[q].of].track = prober[q].track
        BY <2>1, Zenon DEF RegistryInv, SleepersServed
    <2>3. /\ prober'[prober[q].of].track = prober[prober[q].of].track
          /\ prober'[prober[q].of].pc \in OwningPoints
        BY <2>1, <2>2, <1>a, Zenon DEF SettledCall, Owning, OwningPoints
    <2> QED BY <2>1, <2>2, <2>3, Zenon DEF EndpointFor
  <1>5. SamplesNew'
    <2> SUFFICES ASSUME NEW q \in Probers
                 PROVE  /\ prober'[q].pc = "finishing" => prober'[q].outcome \in Outcomes
                        /\ prober'[q].pc = "served" /\ prober'[q].outcome # "deferred"
                              => prober'[q].sampled
                        /\ prober'[q].pc = "idle" /\ prober'[q].fresh => prober'[q].sampled
        BY Zenon DEF SamplesNew
    <2>1. CASE q # p /\ prober[q].pc = "joined" /\ prober[q].of = p
      <3>1. prober[q].track = prober[p].track
          BY <2>1, Zenon DEF RegistryInv, SleepersServed
      <3> QED BY <2>1, <3>1, <1>a, Zenon DEF SettledCall
    <2>2. CASE ~(q # p /\ prober[q].pc = "joined" /\ prober[q].of = p)
        BY <2>2, <1>a, ZenonT(60) DEF SettledCall, RegistryInv, SamplesNew
    <2> QED BY <2>1, <2>2, Zenon
  <1> QED BY <1>1, <1>2, <1>3, <1>4, <1>5, ZenonT(60) DEF RegistryInv

(* A call that owns no endpoint returns; it reports a fresh result only if a *)
(* sample was taken since it began.                                          *)
LEMMA ReturnStep ==
    ASSUME RegistryInv, NEW p \in Probers, ~Owning(p), NEW fresh \in BOOLEAN,
           fresh => prober[p].sampled, prober' = Returned(p, fresh), UNCHANGED activity,
           profiles' \in [AllTracks -> Profile \cup {Nil}], TableShrinks
    PROVE  RegistryInv'
  <1>0. prober \in [Probers -> ProberCall] /\ prober[p].sampled \in BOOLEAN
      BY Zenon DEF RegistryInv, RegistryTyped, ProberCall
  <1>1. PICK new : new = (fresh /\ prober[p].sampled)
      BY Zenon
  <1>2. PICK c : c = [IdleCall EXCEPT !.sampled = new, !.fresh = fresh]
      BY Zenon
  <1>3. prober' = [prober EXCEPT ![p] = c]
      BY <1>1, <1>2, Zenon DEF Returned
  <1>4. new \in BOOLEAN
      BY <1>1, Zenon
  <1>5. c \in ProberCall /\ c.pc = "idle"
      BY <1>2, <1>4, IdleCallFields, Zenon DEF ProberCall
  <1>6. c.sampled = new /\ c.fresh = fresh
      BY <1>2, <1>4, IdleCallFields, Zenon DEF ProberCall
  <1>7. c.fresh => c.sampled
      BY <1>1, <1>6, Zenon
  <1>8. CallMoves(p, c)
      BY <1>5, <1>7, Zenon DEF CallMoves, OwningPoints
  <1>9. prober' \in [Probers -> ProberCall] /\ prober'[p] = c
      BY <1>0, <1>3, <1>5, Zenon
  <1>10. \A q \in Probers : q # p => prober'[q] = prober[q]
      BY <1>0, <1>3, Zenon
  <1> QED BY <1>8, <1>9, <1>10, CallStep, Zenon

(* A step that leaves the table and the endpoints alone. *)
LEMMA QuietStep ==
    ASSUME RegistryInv, UNCHANGED <<profiles, activity>>
    PROVE  UNCHANGED activity /\ profiles' \in [AllTracks -> Profile \cup {Nil}] /\ TableShrinks
  BY Zenon DEF RegistryInv, RegistryTyped, TableShrinks, Inflight

LEMMA BeginCallInv ==
    ASSUME RegistryInv, NEW p \in Probers, NEW t \in ProbeCalls[p], BeginCall(p, t)
    PROVE  RegistryInv'
  <1>a. t \in [track : Tracks, mode : Modes]
      BY ProfileConstants, Zenon
  <1>0. /\ prober \in [Probers -> ProberCall] /\ t.track \in Tracks /\ t.mode \in Modes
        /\ ~Owning(p) /\ UNCHANGED <<profiles, activity>>
      BY <1>a, Zenon DEF RegistryInv, RegistryTyped, BeginCall, Owning
  <1>1. PICK c : c = [IdleCall EXCEPT !.pc = "enter", !.track = t.track, !.mode = t.mode]
      BY Zenon
  <1>2. prober' = [prober EXCEPT ![p] = c]
      BY <1>1, Zenon DEF BeginCall
  <1>3. c \in ProberCall /\ c.pc = "enter" /\ c.track = t.track
      BY <1>0, <1>1, IdleCallFields, Zenon DEF ProberCall
  <1>4. CallMoves(p, c)
      BY <1>0, <1>3, Zenon DEF CallMoves, OwningPoints
  <1> QED BY <1>0, <1>2, <1>3, <1>4, QuietStep, CallStep, Zenon

LEMMA CancelCallInv ==
    ASSUME RegistryInv, NEW p \in Probers, CancelCall(p) PROVE RegistryInv'
  <1>0. /\ prober \in [Probers -> ProberCall] /\ prober[p] \in ProberCall
        /\ UNCHANGED <<profiles, activity>> /\ prober' = [prober EXCEPT ![p].cancelled = TRUE]
      BY Zenon DEF RegistryInv, RegistryTyped, CancelCall
  <1>1. PICK c : c = prober'[p]
      BY Zenon
  <1>2. /\ c \in ProberCall /\ c.pc = prober[p].pc /\ c.track = prober[p].track
        /\ c.of = prober[p].of /\ c.outcome = prober[p].outcome
        /\ c.sampled = prober[p].sampled /\ c.fresh = prober[p].fresh
      BY <1>0, <1>1, ZenonT(60) DEF ProberCall
  <1>3. CallMoves(p, c)
      BY <1>2, ZenonT(60) DEF CallMoves, RegistryInv, RegistryTyped, SleepersServed, SamplesNew, Owning,
         OwningPoints, EndpointFor
  <1>4. prober' \in [Probers -> ProberCall] /\ \A q \in Probers : q # p => prober'[q] = prober[q]
      BY <1>0, <1>1, <1>2, Zenon
  <1> QED BY <1>0, <1>1, <1>3, <1>4, QuietStep, CallStep, Zenon

(* A change of the program point of p, and of the call it waits for. *)
LEMMA PointStep ==
    ASSUME RegistryInv, NEW p \in Probers, prober[p].pc # "idle",
           UNCHANGED <<profiles, activity>>, NEW c, c = prober'[p], c \in ProberCall,
           c.pc \in {"enter", "checked", "joined", "queued", "probing", "finishing"},
           c.track = prober[p].track, Owning(p) <=> c.pc \in OwningPoints,
           c.pc = "finishing" => c.outcome \in Outcomes,
           c.pc \in {"joined", "queued"} =>
               /\ c.of \in Probers /\ Owning(c.of) /\ EndpointFor(c.of) = EndpointFor(p)
               /\ c.pc = "joined" => prober[c.of].track = prober[p].track,
           prober' \in [Probers -> ProberCall],
           \A q \in Probers : q # p => prober'[q] = prober[q]
    PROVE  RegistryInv'
  <1>1. prober[p].track \in Tracks
      BY Zenon DEF RegistryInv, RegistryTyped
  <1>2. CallMoves(p, c)
      BY <1>1, Zenon DEF CallMoves, OwningPoints, EndpointFor
  <1> QED BY <1>2, QuietStep, CallStep, Zenon

LEMMA CheckContextsInv ==
    ASSUME RegistryInv, NEW p \in Probers, CheckContexts(p) PROVE RegistryInv'
  <1>0. /\ prober \in [Probers -> ProberCall] /\ prober[p] \in ProberCall
        /\ prober[p].pc = "enter" /\ UNCHANGED <<profiles, activity>> /\ ~Owning(p)
      BY Zenon DEF RegistryInv, RegistryTyped, CheckContexts, Owning
  <1>1. CASE Ended(p)
    <2>1. prober' = Returned(p, FALSE)
        BY <1>1, Zenon DEF CheckContexts
    <2> QED BY <2>1, <1>0, QuietStep, ReturnStep, Zenon
  <1>2. CASE ~Ended(p)
    <2>1. prober' = [prober EXCEPT ![p].pc = "checked"]
        BY <1>2, Zenon DEF CheckContexts
    <2>2. PICK c : c = prober'[p]
        BY Zenon
    <2>3. c \in ProberCall /\ c.pc = "checked" /\ c.track = prober[p].track
        BY <2>1, <2>2, <1>0, Zenon DEF ProberCall
    <2>4. prober' \in [Probers -> ProberCall] /\ \A q \in Probers : q # p => prober'[q] = prober[q]
        BY <2>1, <2>2, <2>3, <1>0, ZenonT(60)
    <2> QED BY <2>2, <2>3, <2>4, <1>0, PointStep, Zenon DEF OwningPoints
  <1> QED BY <1>1, <1>2, Zenon

LEMMA JoinInflightInv ==
    ASSUME RegistryInv, NEW p \in Probers, JoinInflight(p) PROVE RegistryInv'
  <1> DEFINE k == prober[p].track
  <1>0. /\ prober \in [Probers -> ProberCall] /\ prober[p] \in ProberCall
        /\ prober[p].pc = "checked" /\ UNCHANGED <<profiles, activity>> /\ ~Owning(p)
        /\ k \in AllTracks /\ Inflight(profiles, k)
      BY Zenon DEF RegistryInv, RegistryTyped, JoinInflight, Owning, AllTracks
  <1>1. /\ profiles[k].owner \in Probers /\ Owning(profiles[k].owner)
        /\ prober[profiles[k].owner].track = k
      BY <1>0, Zenon DEF RegistryInv, EntriesOwned, RegistryTyped, Inflight, Profile
  <1>2. PICK c : c = prober'[p]
      BY Zenon
  <1>3. c \in ProberCall /\ c.pc = "joined" /\ c.track = k /\ c.of = profiles[k].owner
      BY <1>0, <1>1, <1>2, Zenon DEF JoinInflight, ProberCall
  <1>4. prober' \in [Probers -> ProberCall] /\ \A q \in Probers : q # p => prober'[q] = prober[q]
      BY <1>0, <1>2, <1>3, ZenonT(60) DEF JoinInflight
  <1> QED BY <1>0, <1>1, <1>2, <1>3, <1>4, PointStep, ZenonT(60) DEF OwningPoints, EndpointFor

LEMMA QueueBehindInv ==
    ASSUME RegistryInv, NEW p \in Probers, QueueBehind(p) PROVE RegistryInv'
  <1> DEFINE ep == EndpointFor(p)
  <1>0. /\ prober \in [Probers -> ProberCall] /\ prober[p] \in ProberCall
        /\ prober[p].pc = "checked" /\ UNCHANGED <<profiles, activity>> /\ ~Owning(p)
        /\ activity[ep] # Nil /\ prober[p].track \in Tracks
      BY Zenon DEF RegistryInv, RegistryTyped, QueueBehind, MustProbe, EndpointBusy, Owning
  <1>a. ep \in Endpoints /\ activity[ep] \in Probers
      BY <1>0, ProfileConstants, Zenon DEF RegistryInv, RegistryTyped, EndpointFor
  <1>1. Owning(activity[ep]) /\ EndpointFor(activity[ep]) = ep
      BY <1>0, <1>a, Zenon DEF RegistryInv, OwnersAgree
  <1>2. PICK c : c = prober'[p]
      BY Zenon
  <1>3. c \in ProberCall /\ c.pc = "queued" /\ c.track = prober[p].track /\ c.of = activity[ep]
      BY <1>0, <1>a, <1>2, Zenon DEF QueueBehind, ProberCall
  <1>4. prober' \in [Probers -> ProberCall] /\ \A q \in Probers : q # p => prober'[q] = prober[q]
      BY <1>0, <1>2, <1>3, Zenon DEF QueueBehind
  <1> QED BY <1>0, <1>a, <1>1, <1>2, <1>3, <1>4, PointStep, ZenonT(60) DEF OwningPoints

LEMMA ProbeRunsInv ==
    ASSUME RegistryInv, NEW p \in Probers,
           TakeSlot(p) \/ \E outcome \in {"success", "failure"} : SampleReturns(p, outcome)
    PROVE  RegistryInv'
  <1>0. /\ prober \in [Probers -> ProberCall] /\ prober[p] \in ProberCall
        /\ prober[p].pc \in {"admitted", "probing"} /\ UNCHANGED <<profiles, activity>> /\ Owning(p)
      BY Zenon DEF RegistryInv, RegistryTyped, TakeSlot, SampleReturns, Owning
  <1>1. PICK c : c = prober'[p]
      BY Zenon
  <1>2. CASE TakeSlot(p)
    <2>1. c \in ProberCall /\ c.pc = "probing" /\ c.track = prober[p].track
        BY <1>0, <1>1, <1>2, Zenon DEF TakeSlot, ProberCall
    <2>2. prober' \in [Probers -> ProberCall] /\ \A q \in Probers : q # p => prober'[q] = prober[q]
        BY <1>0, <1>1, <1>2, <2>1, Zenon DEF TakeSlot
    <2> QED BY <1>0, <1>1, <2>1, <2>2, PointStep, Zenon DEF OwningPoints
  <1>3. ASSUME NEW outcome \in {"success", "failure"}, SampleReturns(p, outcome)
        PROVE  RegistryInv'
    <2>1. /\ c \in ProberCall /\ c.pc = "finishing" /\ c.track = prober[p].track
          /\ c.outcome \in Outcomes
        BY <1>0, <1>1, <1>3, Zenon DEF SampleReturns, ProberCall, Outcomes
    <2>2. prober' \in [Probers -> ProberCall] /\ \A q \in Probers : q # p => prober'[q] = prober[q]
        BY <1>0, <1>1, <1>3, <2>1, Zenon DEF SampleReturns
    <2> QED BY <1>0, <1>1, <2>1, <2>2, PointStep, Zenon DEF OwningPoints
  <1> QED BY <1>2, <1>3, Zenon

LEMMA ReadResultInv ==
    ASSUME RegistryInv, NEW p \in Probers, ReadResult(p) PROVE RegistryInv'
  <1>0. /\ prober \in [Probers -> ProberCall] /\ prober[p] \in ProberCall
        /\ prober[p].pc = "served" /\ UNCHANGED <<profiles, activity>> /\ ~Owning(p)
      BY Zenon DEF RegistryInv, RegistryTyped, ReadResult, Owning
  <1>1. CASE prober[p].outcome = "failure" /\ prober[p].mode = "recovery"
    <2>1. prober' = [prober EXCEPT ![p].pc = "enter", ![p].outcome = "none"]
        BY <1>1, Zenon DEF ReadResult
    <2>2. PICK c : c = prober'[p]
        BY Zenon
    <2>3. c \in ProberCall /\ c.pc = "enter" /\ c.track = prober[p].track
        BY <2>1, <2>2, <1>0, Zenon DEF ProberCall
    <2>4. prober' \in [Probers -> ProberCall] /\ \A q \in Probers : q # p => prober'[q] = prober[q]
        BY <2>1, <2>2, <2>3, <1>0, Zenon
    <2> QED BY <2>2, <2>3, <2>4, <1>0, PointStep, Zenon DEF OwningPoints
  <1>2. CASE ~(prober[p].outcome = "failure" /\ prober[p].mode = "recovery")
    <2>1. PICK fresh \in BOOLEAN : fresh = (prober[p].outcome # "deferred")
        BY Zenon
    <2>2. prober' = Returned(p, fresh)
        BY <1>2, <2>1, Zenon DEF ReadResult
    <2>3. fresh => prober[p].sampled
        BY <1>0, <2>1, Zenon DEF RegistryInv, SamplesNew
    <2> QED BY <2>2, <2>3, <1>0, QuietStep, ReturnStep, Zenon
  <1> QED BY <1>1, <1>2, Zenon

LEMMA LeaveInv ==
    ASSUME RegistryInv, NEW p \in Probers, AnswerCached(p) \/ LeaveWait(p) PROVE RegistryInv'
  <1>1. ~Owning(p) /\ UNCHANGED <<profiles, activity>> /\ prober' = Returned(p, FALSE)
      BY Zenon DEF AnswerCached, LeaveWait, Owning
  <1> QED BY <1>1, QuietStep, ReturnStep, Zenon

(* Pruning takes entries out and puts none in flight. *)
LEMMA DroppedTable ==
    ASSUME NEW pruned \in [AllTracks -> Profile \cup {Nil}], NEW K, NEW k \in AllTracks
    PROVE  /\ Dropped(pruned, K) \in [AllTracks -> Profile \cup {Nil}]
           /\ Inflight(Dropped(pruned, K), k) =>
                 Inflight(pruned, k) /\ Dropped(pruned, K)[k] = pruned[k]
  BY Zenon DEF Dropped, Inflight

LEMMA AdmitProbeInv ==
    ASSUME RegistryInv, NEW p \in Probers, AdmitProbe(p) PROVE RegistryInv'
  <1> DEFINE k == prober[p].track
             free == Cardinality(KeptProfiles(profiles)) < ProfileLimit
  <1>0. /\ prober \in [Probers -> ProberCall] /\ profiles \in [AllTracks -> Profile \cup {Nil}]
        /\ prober[p].pc = "checked" /\ ~EndpointBusy(p) /\ ~Owning(p)
        /\ k \in AllTracks
      BY Zenon DEF RegistryInv, RegistryTyped, AdmitProbe, MustProbe, Owning, AllTracks
  <1>1. PICK gone \in IF free THEN {{}} ELSE PrunedProfiles(profiles, age) :
            IF Cardinality(KeptProfiles(Dropped(profiles, gone))) >= ProfileLimit
            THEN /\ profiles' = Dropped(profiles, gone)
                 /\ prober' = Returned(p, FALSE)
                 /\ UNCHANGED activity
            ELSE /\ profiles' = [Dropped(profiles, gone) EXCEPT ![k] = NewProfile(p)]
                 /\ prober' = [prober EXCEPT ![p].pc = "admitted"]
                 /\ activity' = [activity EXCEPT ![EndpointFor(p)] = p]
      BY Zenon DEF AdmitProbe
  <1>2. PICK pruned : pruned = Dropped(profiles, gone)
      BY Zenon
  <1>3. /\ pruned \in [AllTracks -> Profile \cup {Nil}]
        /\ \A j \in AllTracks : Inflight(pruned, j) => Inflight(profiles, j) /\ pruned[j] = profiles[j]
      BY <1>0, <1>2, DroppedTable, Zenon
  <1>4. CASE Cardinality(KeptProfiles(pruned)) >= ProfileLimit
    <2>1. profiles' = pruned /\ prober' = Returned(p, FALSE) /\ UNCHANGED activity
        BY <1>1, <1>2, <1>4, Zenon
    <2>2. TableShrinks
        BY <2>1, <1>3, Zenon DEF TableShrinks, Inflight
    <2> QED BY <2>1, <2>2, <1>0, <1>3, ReturnStep, Zenon
  <1>5. CASE ~(Cardinality(KeptProfiles(pruned)) >= ProfileLimit)
    <2>1. /\ profiles' = [pruned EXCEPT ![k] = NewProfile(p)]
          /\ prober' = [prober EXCEPT ![p].pc = "admitted"]
          /\ activity' = [activity EXCEPT ![EndpointFor(p)] = p]
        BY <1>1, <1>2, <1>5, Zenon
    <2>2. NewProfile(p) \in Profile /\ NewProfile(p).owner = p
        BY ProfileConstants, SMTT(60) DEF NewProfile, Profile
    <2>3. /\ profiles' \in [AllTracks -> Profile \cup {Nil}] /\ profiles'[k].owner = p
          /\ \A j \in AllTracks : j # k => profiles'[j] = pruned[j]
        BY <2>1, <2>2, <1>0, <1>3, Zenon
    <2>4. \A j \in AllTracks : j # k /\ Inflight(profiles, j)' =>
              Inflight(profiles, j) /\ profiles'[j].owner = profiles[j].owner
        BY <2>3, <1>3, Zenon DEF Inflight
    <2> QED BY <2>1, <2>3, <2>4, <1>0, AdmissionStep, Zenon
  <1> QED BY <1>4, <1>5, Zenon

LEMMA RecordPassiveInv ==
    ASSUME RegistryInv, NEW k \in PassiveTracks, NEW success \in BOOLEAN, RecordPassive(k, success)
    PROVE  RegistryInv'
  <1>0. profiles \in [AllTracks -> Profile \cup {Nil}] /\ k \in AllTracks
      BY Zenon DEF RegistryInv, RegistryTyped, AllTracks
  <1> DEFINE failures == IF profiles[k] = Nil THEN 0 ELSE profiles[k].failures
  <1>1. PICK e : e = [owner |-> Nil, outcome |-> "failure",
                      failures |-> OneMore(failures), due |-> FALSE]
      BY Zenon
  <1>2. failures \in 0..DeadAfter
      BY <1>0, ProfileConstants, SMTT(60) DEF Profile
  <1>3. OneMore(failures) \in 0..DeadAfter
      BY <1>2, ProfileConstants, SMTT(60) DEF OneMore
  <1>4. e \in Profile /\ e.owner = Nil
      BY <1>1, <1>3, Zenon DEF Profile, Outcomes
  <1>5. PICK gone : /\ profiles' = Dropped([profiles EXCEPT ![k] = e], gone)
                    /\ UNCHANGED <<prober, activity>>
      BY <1>1, Zenon DEF RecordPassive
  <1>6. PICK pruned : pruned = [profiles EXCEPT ![k] = e]
      BY Zenon
  <1>7. pruned \in [AllTracks -> Profile \cup {Nil}]
      BY <1>0, <1>4, <1>6, Zenon
  <1>8. \A j \in AllTracks : Inflight(pruned, j) => Inflight(profiles, j) /\ pruned[j] = profiles[j]
      BY <1>0, <1>4, <1>6, Zenon DEF Inflight
  <1>9. /\ profiles' \in [AllTracks -> Profile \cup {Nil}]
        /\ \A j \in AllTracks : Inflight(profiles', j) => Inflight(pruned, j) /\ profiles'[j] = pruned[j]
    <2>1. profiles' = Dropped(pruned, gone)
        BY <1>5, <1>6, Zenon
    <2>2. /\ Dropped(pruned, gone) \in [AllTracks -> Profile \cup {Nil}]
          /\ \A j \in AllTracks : Inflight(Dropped(pruned, gone), j) =>
                Inflight(pruned, j) /\ Dropped(pruned, gone)[j] = pruned[j]
        BY <1>7, <1>0, DroppedTable, Zenon
    <2> QED BY <2>1, <2>2, Zenon
  <1>10. TableShrinks
      BY <1>8, <1>9, Zenon DEF TableShrinks, Inflight
  <1> QED BY <1>5, <1>9, <1>10, TableStep, Zenon

LEMMA RegistryNext == RegistryInv /\ [ProfilesNext]_profileVars => RegistryInv'
  <1> SUFFICES ASSUME RegistryInv, [ProfilesNext]_profileVars PROVE RegistryInv'
      BY Zenon
  <1>1. ASSUME NEW p \in Probers, NEW t \in ProbeCalls[p], BeginCall(p, t) PROVE RegistryInv'
      BY <1>1, BeginCallInv, Zenon
  <1>2. ASSUME NEW p \in Probers, GiveUp(p) PROVE RegistryInv'
      BY <1>2, SettleStep, Zenon DEF GiveUp, Owning, Outcomes
  <1>3. ASSUME NEW p \in Probers, FinishProbe(p) PROVE RegistryInv'
    <2>1. PICK outcome : outcome = IF Ended(p) THEN "deferred" ELSE prober[p].outcome
        BY Zenon
    <2>2. Owning(p) /\ outcome \in Outcomes
        BY <2>1, <1>3, Zenon DEF FinishProbe, Owning, RegistryInv, SamplesNew, Outcomes
    <2>3. SettleProbe(p, outcome)
        BY <2>1, <1>3, Zenon DEF FinishProbe
    <2> QED BY <2>2, <2>3, SettleStep, Zenon
  <1>4. ASSUME NEW p \in Probers, ProberStep(p) PROVE RegistryInv'
      BY <1>2, <1>3, <1>4, CheckContextsInv, JoinInflightInv, LeaveInv, QueueBehindInv,
         AdmitProbeInv, ReadResultInv, ProbeRunsInv, ZenonT(60) DEF ProberStep
  <1>5. ASSUME NEW p \in Probers, TakeSlot(p) \/ LeaveWait(p) \/ CancelCall(p) PROVE RegistryInv'
      BY <1>5, ProbeRunsInv, LeaveInv, CancelCallInv, Zenon
  <1>6. ASSUME NEW k \in PassiveTracks, NEW success \in BOOLEAN, RecordPassive(k, success)
        PROVE  RegistryInv'
      BY <1>6, RecordPassiveInv, Zenon
  <1>7. ASSUME NEW k \in AllTracks, Elapses(k) PROVE RegistryInv'
    <2>1. /\ profiles' \in [AllTracks -> Profile \cup {Nil}]
          /\ \A j \in AllTracks : j # k => profiles'[j] = profiles[j]
          /\ profiles'[k].owner = Nil /\ UNCHANGED <<prober, activity>>
        BY <1>7, ZenonT(60) DEF Elapses, RegistryInv, RegistryTyped, Profile
    <2>2. TableShrinks
        BY <2>1, Zenon DEF TableShrinks, Inflight
    <2> QED BY <2>1, <2>2, TableStep, Zenon
  <1>8. CASE CancelRegistry \/ UNCHANGED profileVars
    <2>1. UNCHANGED <<profiles, prober, activity>>
        BY <1>8, Zenon DEF CancelRegistry, profileVars
    <2> QED BY <2>1, QuietStep, TableStep, Zenon
  <1>9. CASE ClearRegistry
    <2>1. profiles' = [k \in AllTracks |-> Nil] /\ UNCHANGED <<prober, activity>>
        BY <1>9, Zenon DEF ClearRegistry
    <2>2. profiles' \in [AllTracks -> Profile \cup {Nil}] /\ TableShrinks
        BY <2>1, Zenon DEF TableShrinks, Inflight
    <2> QED BY <2>1, <2>2, TableStep, Zenon
  <1> QED BY <1>1, <1>4, <1>5, <1>6, <1>7, <1>8, <1>9, ZenonT(60) DEF ProfilesNext

(* The calls, the table and the endpoints of the node profile registry agree *)
(* in every reachable state.                                                 *)
THEOREM RegistryInvariant == ProfilesSpec => []RegistryInv
  BY RegistryInit, RegistryNext, PTL DEF ProfilesSpec

(* Two probes never run for one endpoint, and a call sleeps only on the      *)
(* channels of one that runs (runProbeModeInternal, r.active).               *)
THEOREM OneProbePerEndpointTheorem == ProfilesSpec => []OneProbePerEndpoint
  <1>1. RegistryInv => OneProbePerEndpoint
      BY Zenon DEF RegistryInv, OwnersAgree, SleepersServed, OneProbePerEndpoint
  <1> QED BY <1>1, RegistryInvariant, PTL

(* A result reported as fresh comes from a probe that completed during the   *)
(* call (runProbeModeInternal).                                              *)
THEOREM FreshIsNewTheorem == ProfilesSpec => []FreshIsNew
  <1>1. RegistryInv => FreshIsNew
      BY Zenon DEF RegistryInv, SamplesNew, FreshIsNew
  <1> QED BY <1>1, RegistryInvariant, PTL
=============================================================================
