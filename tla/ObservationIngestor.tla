------------------------ MODULE ObservationIngestor ------------------------
(***************************************************************************)
(* The observation pipeline of a pool (observation.go): evidence of dials  *)
(* and of business connections goes through one ingestor, which drops      *)
(* replays, and then into the health store, which settles the permit of    *)
(* the attempt.                                                            *)
(*                                                                         *)
(* A publication is a call of PublishSettledObservationGuarded.  MapDomains*)
(* maps evidence to at most one domain, so a publication reserves at most  *)
(* one key.  The ingestor's mutex covers ReserveMapped, Commit and Abort;  *)
(* the clock is read before the mutex is taken.                            *)
(***************************************************************************)
EXTENDS Naturals, Sequences, FiniteSets, FiniteSetsExt

CONSTANTS
    Publishers,  \* callers, each of which publishes at most once
    Keys,        \* observationDedupKey
    Ttl,         \* how long a committed key suppresses replays
    MaxEntries,  \* bound of entries and pending together
    MaxTime,     \* bound of the clock
    None

ASSUME IngestorConstants ==
    /\ Ttl \in Nat \ {0} /\ MaxEntries \in Nat \ {0} /\ MaxTime \in Nat
    /\ None \notin Publishers \cup Keys \cup Nat

VARIABLES
    now,      \* the ingestor's clock
    entries,  \* expiry of each committed key, or None
    lru,      \* committed keys, newest first
    pending,  \* the publisher that reserved each key, or None
    pub       \* the publications

ingestorVars == <<now, entries, lru, pending, pub>>

(* What callers see of a publication: its permit is settled when it returns. *)
Calls ==
    [p \in Publishers |->
        [pc |-> IF pub[p].pc \in {"idle", "done"} THEN pub[p].pc ELSE "begun",
         evidence |-> pub[p].evidence,
         permit |-> IF pub[p].pc = "done" \/ pub[p].permit = "none" THEN pub[p].permit
                    ELSE "held"]]

Promise == INSTANCE Publications WITH calls <- Calls

Evidence == Promise!Evidence

Publication ==
    [pc : {"idle", "begun", "clocked", "reserved", "reduced", "aborting", "settling", "done"},
     key : Keys \cup {None}, evidence : Evidence, read : Nat,
     permit : {"none", "held", "completed", "released"}]

NoPublication ==
    [pc |-> "idle", key |-> None, evidence |-> "deferred", read |-> 0, permit |-> "none"]

IngestorInit ==
    /\ now = 0
    /\ entries = [k \in Keys |-> None] /\ lru = <<>> /\ pending = [k \in Keys |-> None]
    /\ pub = [p \in Publishers |-> NoPublication]

Committed == {k \in Keys : entries[k] # None}
Pending == {k \in Keys : pending[k] # None}
Become(p, pc) == pub' = [pub EXCEPT ![p].pc = pc]
-----------------------------------------------------------------------------
Begin(p, k, evidence, permit) ==
    /\ pub[p].pc = "idle"
    /\ pub' = [pub EXCEPT ![p] = [pc |-> "begun", key |-> k, evidence |-> evidence,
                                  read |-> 0, permit |-> permit]]
    /\ UNCHANGED <<now, entries, lru, pending>>

(* The guard refuses evidence of another epoch, revision or handle; deferred *)
(* evidence has nothing to reserve.                                          *)
Refuse(p) ==
    /\ pub[p].pc = "begun"
    /\ Become(p, "settling")
    /\ UNCHANGED <<now, entries, lru, pending>>

ReadClock(p) ==
    /\ pub[p].pc = "begun" /\ pub[p].evidence # "deferred"
    /\ pub' = [pub EXCEPT ![p].pc = "clocked", ![p].read = now]
    /\ UNCHANGED <<now, entries, lru, pending>>

(* How many records pruneLocked keeps: it walks from the oldest and stops at *)
(* the first that has not expired.                                           *)
Kept(at) ==
    LET live == {i \in 1..Len(lru) : at < entries[lru[i]]}
    IN  IF live = {} THEN 0 ELSE Max(live)

Keep(n) ==
    /\ lru' = SubSeq(lru, 1, n)
    /\ entries' = [k \in Keys |-> IF \E i \in 1..n : lru[i] = k THEN entries[k] ELSE None]

(* A plausible bug: only committed records are looked at.                    *)
DuplicateOfCommitted(p, n) ==
    \E i \in 1..n : lru[i] = pub[p].key /\ pub[p].read < entries[lru[i]]

Duplicate(p, n) ==
    \/ pending[pub[p].key] # None
    \/ \E i \in 1..n : lru[i] = pub[p].key /\ pub[p].read < entries[lru[i]]

(* The records kept when one more key is reserved: the oldest gives way.     *)
Room(n) == IF Cardinality(Pending) + n + 1 > MaxEntries THEN n - 1 ELSE n

ReserveMapped(p) ==
    /\ pub[p].pc = "clocked"
    /\ LET n == Kept(pub[p].read) IN
       IF Duplicate(p, n)
       THEN Keep(n) /\ Become(p, "settling") /\ UNCHANGED pending
       ELSE IF Cardinality(Pending) + n + 1 > MaxEntries /\ n = 0
       THEN Keep(n) /\ Become(p, "settling") /\ UNCHANGED pending
       ELSE /\ Keep(Room(n))
            /\ pending' = [pending EXCEPT ![pub[p].key] = p]
            /\ Become(p, "reserved")
    /\ UNCHANGED now
-----------------------------------------------------------------------------
(* The reducer completes the permit with eligible evidence and releases it   *)
(* otherwise.                                                                *)
Settled(p) ==
    IF pub[p].permit # "held" THEN pub[p].permit
    ELSE IF pub[p].evidence = "eligible" THEN "completed" ELSE "released"

Reduce(p) ==
    /\ pub[p].pc = "reserved"
    /\ pub' = [pub EXCEPT ![p].pc = "reduced", ![p].permit = Settled(p)]
    /\ UNCHANGED <<now, entries, lru, pending>>

(* A hook that refuses or a panic that is recovered.                         *)
ReduceFails(p) ==
    /\ pub[p].pc = "reserved"
    /\ Become(p, "aborting")
    /\ UNCHANGED <<now, entries, lru, pending>>

Commit(p) ==
    /\ pub[p].pc = "reduced"
    /\ LET k == pub[p].key IN
       IF pending[k] # p
       THEN Become(p, "settling") /\ UNCHANGED <<entries, lru, pending>>
       ELSE /\ pending' = [pending EXCEPT ![k] = None]
            /\ entries' = [entries EXCEPT ![k] = now + Ttl]
            /\ lru' = <<k>> \o lru
            /\ Become(p, "done")
    /\ UNCHANGED now

Abort(p) ==
    /\ pub[p].pc = "aborting"
    /\ LET k == pub[p].key IN
       pending' = IF pending[k] = p THEN [pending EXCEPT ![k] = None] ELSE pending
    /\ Become(p, "settling")
    /\ UNCHANGED <<now, entries, lru>>

(* A plausible bug: refused evidence keeps the permit.                       *)
SettleNothing(p) ==
    /\ pub[p].pc = "settling"
    /\ Become(p, "done")
    /\ UNCHANGED <<now, entries, lru, pending>>

(* What was not accepted releases the permit.                                *)
Settle(p) ==
    /\ pub[p].pc = "settling"
    /\ pub' = [pub EXCEPT ![p].pc = "done",
                          ![p].permit = IF @ = "held" THEN "released" ELSE @]
    /\ UNCHANGED <<now, entries, lru, pending>>

Tick ==
    /\ now < MaxTime
    /\ now' = now + 1
    /\ UNCHANGED <<entries, lru, pending, pub>>
-----------------------------------------------------------------------------
PublishStep(p) ==
    \/ Refuse(p) \/ ReadClock(p) \/ ReserveMapped(p) \/ Reduce(p) \/ ReduceFails(p)
    \/ Commit(p) \/ Abort(p) \/ Settle(p)

IngestorNext ==
    \/ Tick
    \/ \E p \in Publishers :
        \/ PublishStep(p)
        \/ \E k \in Keys, e \in Evidence, permit \in {"none", "held"} : Begin(p, k, e, permit)

(* Any caller publishes any evidence.                                        *)
IngestorSpec == IngestorInit /\ [][IngestorNext]_ingestorVars
-----------------------------------------------------------------------------
IngestorTypeOK ==
    /\ now \in Nat
    /\ entries \in [Keys -> Nat \cup {None}]
    /\ pending \in [Keys -> Publishers \cup {None}]
    /\ pub \in [Publishers -> Publication]

Owns(p) == pub[p].pc \in {"reserved", "reduced", "aborting"}

(* A reservation is never evicted or taken over: whoever got past reserve    *)
(* still has its key pending when it commits or aborts, so the error         *)
(* "reservation was evicted before commit" is never returned.  A key that is *)
(* being counted has no committed record: no replay is counted beside it.    *)
ReservationKept ==
    /\ IngestorTypeOK
    /\ \A p \in Publishers : Owns(p) => pub[p].key \in Keys /\ pending[pub[p].key] = p
    /\ \A k \in Keys : pending[k] # None =>
        /\ Owns(pending[k]) /\ pub[pending[k]].key = k
        /\ entries[k] = None

(* A record that suppresses replays is dropped only when it has expired or   *)
(* the table is full.                                                        *)
DroppedOnlyIfNeeded ==
    [][\A k \in Keys : (entries[k] # None /\ entries'[k] = None) =>
          \/ entries[k] <= now
          \/ Cardinality(Committed) + Cardinality(Pending) = MaxEntries]_ingestorVars

(* The ingestor keeps the promise its callers rely on: a publication returns *)
(* with its permit settled once and as its evidence allows, whatever was     *)
(* refused, dropped or aborted on the way.                                   *)
KeepsPromise == Promise!PubSpec
=============================================================================
