--------------------- MODULE ObservationIngestorProofs ---------------------
(***************************************************************************)
(* Proofs about ObservationIngestor: reservations are kept, records are    *)
(* dropped only when they must be, and the ingestor implements             *)
(* Publications.                                                           *)
(*                                                                         *)
(* pruneLocked stops at the first record that has not expired, so a record *)
(* of the key being reserved is found only if the records are in the order *)
(* of their expiry.  They are, because the clock that Commit reads does    *)
(* not go back: TableInv.                                                  *)
(***************************************************************************)
EXTENDS ObservationIngestor, FiniteSetTheorems, FunctionTheorems, WellFoundedInduction, TLAPS

(* The records: each committed key once, newest first, the expiries never    *)
(* growing towards the oldest, and none further ahead than the ttl.          *)
TableInv ==
    /\ lru \in Seq(Keys)
    /\ \A k \in Keys : entries[k] # None => \E i \in 1..Len(lru) : lru[i] = k
    /\ \A i \in 1..Len(lru) : entries[lru[i]] \in Nat /\ entries[lru[i]] <= now + Ttl
    /\ \A i, j \in 1..Len(lru) :
          i < j => entries[lru[j]] <= entries[lru[i]] /\ lru[i] # lru[j]

(* A publication: the clock it has read, and what its permit may be.         *)
Sound(r, time) ==
    /\ r.pc # "idle" => r.key \in Keys
    /\ r.pc = "clocked" => r.read <= time
    /\ r.pc \in {"reduced", "done"} => r.permit # "held"
    /\ r.permit = "completed" => r.evidence = "eligible"

PubInv == \A p \in Publishers : Sound(pub[p], now)

BoundInv ==
    IsFiniteSet(Pending) /\ Cardinality(Pending) + Len(lru) <= MaxEntries

IngestorInv == ReservationKept /\ TableInv /\ PubInv /\ BoundInv
-----------------------------------------------------------------------------
(* pruneLocked: what it keeps are the records from the newest down to the    *)
(* oldest live one, and so, in the order of the table, the live ones.        *)

LEMMA HighestExists ==
  ASSUME NEW m \in Nat, NEW S \in SUBSET (1..m), S # {}
  PROVE  Max(S) \in S /\ \A y \in S : y <= Max(S)
  <1> DEFINE T == {m - i : i \in S}
             R == OpToRel(<, Nat)
  <1>1. T \subseteq Nat /\ T # {}
    <2>1. \A i \in S : m - i \in Nat
      OBVIOUS
    <2> QED
      BY <2>1, Zenon
  <1>2. IsWellFoundedOn(R, Nat)
    BY NatLessThanWellFounded, Zenon
  <1> HIDE DEF R
  <1>3. PICK x \in T : \A y \in T : ~(<<y, x>> \in R)
    BY <1>1, <1>2, WFMin, Zenon
  <1>4. \A y \in T : ~(y < x)
    BY <1>1, <1>3, Zenon DEF R, OpToRel
  <1>5. PICK i \in S : x = m - i
    BY Zenon
  <1>6. \A y \in S : i >= y
    <2> SUFFICES ASSUME NEW y \in S PROVE i >= y
      BY Zenon
    <2>1. m - y \in T
      BY Zenon
    <2>2. ~(m - y < m - i)
      BY <1>4, <1>5, <2>1, Zenon
    <2> QED
      BY <2>2
  <1>7. \E z \in S : \A y \in S : z >= y
    BY <1>6, Zenon
  <1>8. Max(S) \in S /\ \A y \in S : Max(S) >= y
    BY <1>7, Zenon DEF Max
  <1> QED
    BY <1>8, Zenon

LEMMA KeptRange ==
  ASSUME TableInv, NEW at \in Nat
  PROVE  /\ Kept(at) \in 0..Len(lru)
         /\ \A i \in 1..Kept(at) : at < entries[lru[i]]
         /\ \A i \in 1..Len(lru) : i > Kept(at) => entries[lru[i]] <= at
  <1> DEFINE live == {i \in 1..Len(lru) : at < entries[lru[i]]}
  <1>1. Len(lru) \in Nat /\ live \subseteq 1..Len(lru)
    BY DEF TableInv
  <1>2. Kept(at) = IF live = {} THEN 0 ELSE Max(live)
    BY Zenon DEF Kept
  <1>3. CASE live = {}
    <2>1. \A i \in 1..Len(lru) : ~(at < entries[lru[i]])
      BY <1>3, Zenon
    <2> QED
      BY <1>1, <1>2, <1>3, <2>1, SMTT(60) DEF TableInv
  <1>4. CASE live # {}
    <2>1. Max(live) \in live /\ \A y \in live : y <= Max(live)
      BY <1>1, <1>4, HighestExists, Zenon
    <2>2. PICK n \in 1..Len(lru) : n = Max(live) /\ n = Kept(at) /\ at < entries[lru[n]]
      BY <1>2, <1>4, <2>1, Zenon
    <2>3. \A i \in 1..n : at < entries[lru[i]]
      BY <1>1, <2>2, SMTT(60) DEF TableInv
    <2>4. \A i \in 1..Len(lru) : at < entries[lru[i]] => i <= n
      BY <2>1, <2>2, Zenon
    <2>5. \A i \in 1..Len(lru) : i > n => entries[lru[i]] <= at
      BY <1>1, <2>4, SMTT(60) DEF TableInv
    <2> HIDE DEF live
    <2> QED
      BY <1>1, <2>2, <2>3, <2>5
  <1> QED
    BY <1>3, <1>4, Zenon

LEMMA KeepStep ==
  ASSUME IngestorInv, NEW n \in 0..Len(lru), Keep(n), now' = now
  PROVE  /\ TableInv' /\ Len(lru') = n
         /\ entries' \in [Keys -> Nat \cup {None}]
         /\ \A k \in Keys : entries'[k] = None \/ entries'[k] = entries[k]
         /\ \A k \in Keys : entries[k] # None /\ entries'[k] = None =>
               \E i \in 1..Len(lru) : lru[i] = k /\ i > n
         /\ \A k \in Keys : entries'[k] # None => \E i \in 1..n : lru[i] = k
  <1>1. /\ lru' = SubSeq(lru, 1, n)
        /\ entries' = [k \in Keys |-> IF \E i \in 1..n : lru[i] = k THEN entries[k] ELSE None]
    BY Zenon DEF Keep
  <1>2. lru \in Seq(Keys) /\ Len(lru) \in Nat /\ entries \in [Keys -> Nat \cup {None}]
    BY DEF IngestorInv, TableInv, ReservationKept, IngestorTypeOK
  <1>3. lru' \in Seq(Keys) /\ Len(lru') = n /\ \A i \in 1..n : lru'[i] = lru[i] /\ lru[i] \in Keys
    BY <1>1, <1>2
  <1>4. \A k \in Keys : entries'[k] = IF \E i \in 1..n : lru[i] = k THEN entries[k] ELSE None
    BY <1>1, Zenon
  <1>5. \A i \in 1..n : i \in 1..Len(lru) /\ entries'[lru'[i]] = entries[lru[i]]
    BY <1>2, <1>3, <1>4, SMTT(60)
  <1>6. entries' \in [Keys -> Nat \cup {None}]
    BY <1>1, <1>2, Zenon
  <1>7. \A k \in Keys : entries'[k] # None => \E i \in 1..n : lru[i] = k
    BY <1>4, Zenon
  <1>8. TableInv'
    BY <1>3, <1>5, <1>7, SMTT(60) DEF IngestorInv, TableInv
  <1>9. \A k \in Keys : entries[k] # None /\ entries'[k] = None =>
               \E i \in 1..Len(lru) : lru[i] = k /\ i > n
    BY <1>2, <1>4 DEF IngestorInv, TableInv
  <1> QED
    BY <1>3, <1>4, <1>6, <1>7, <1>8, <1>9, ZenonT(60)
-----------------------------------------------------------------------------
(* The steps.                                                                *)

Owning == {"reserved", "reduced", "aborting"}

LEMMA PubUpdate ==
  ASSUME IngestorInv, NEW p \in Publishers, NEW n \in Publication, pub' = [pub EXCEPT ![p] = n]
  PROVE  /\ pub' \in [Publishers -> Publication]
         /\ \A q \in Publishers : pub'[q] = IF q = p THEN n ELSE pub[q]
  BY Zenon DEF IngestorInv, ReservationKept, IngestorTypeOK

(* A step that changes one publication, but not what it has reserved.        *)
LEMMA PubStep ==
  ASSUME IngestorInv, NEW p \in Publishers, NEW n \in Publication, pub' = [pub EXCEPT ![p] = n],
         UNCHANGED <<now, entries, lru, pending>>,
         pub[p].pc \in Owning <=> n.pc \in Owning,
         n.pc \in Owning => n.key = pub[p].key,
         Sound(n, now)
  PROVE  IngestorInv'
  <1>1. /\ pub' \in [Publishers -> Publication]
        /\ \A q \in Publishers : pub'[q] = IF q = p THEN n ELSE pub[q]
    BY PubUpdate, Zenon
  <1>2. IngestorTypeOK'
    BY <1>1, Zenon DEF IngestorInv, ReservationKept, IngestorTypeOK
  <1>3. \A q \in Publishers : pub'[q].pc \in Owning =>
            pub[q].pc \in Owning /\ pub'[q].key = pub[q].key
    BY <1>1, Zenon
  <1>4. \A q \in Publishers : pub[q].pc \in Owning =>
            pub'[q].pc \in Owning /\ pub'[q].key = pub[q].key
    BY <1>1, Zenon
  <1>5. ReservationKept'
    <2>1. \A q \in Publishers : Owns(q)' => pub'[q].key \in Keys /\ pending'[pub'[q].key] = q
      BY <1>3, Zenon DEF IngestorInv, ReservationKept, Owns, Owning
    <2>2. \A k \in Keys : pending'[k] # None =>
            Owns(pending[k])' /\ pub'[pending'[k]].key = k /\ entries'[k] = None
      <3> SUFFICES ASSUME NEW k \in Keys, pending[k] # None
                   PROVE  Owns(pending[k])' /\ pub'[pending[k]].key = k /\ entries[k] = None
        BY Zenon
      <3>1. /\ pending[k] \in Publishers /\ pub[pending[k]].pc \in Owning
            /\ pub[pending[k]].key = k /\ entries[k] = None
        BY DEF IngestorInv, ReservationKept, IngestorTypeOK, Owns, Owning
      <3>2. UNCHANGED pending
        BY Zenon
      <3> QED
        BY <1>4, <3>1, <3>2, Zenon DEF Owns, Owning
    <2> QED
      BY <1>2, <2>1, <2>2, ZenonT(60) DEF ReservationKept, Owns
  <1>6. TableInv' /\ BoundInv'
    BY Zenon DEF IngestorInv, TableInv, BoundInv, Pending
  <1>7. PubInv'
    BY <1>1, Zenon DEF IngestorInv, PubInv
  <1> QED
    BY <1>5, <1>6, <1>7, Zenon DEF IngestorInv
(* What each action makes of its publication.                                *)
Pcs == {"idle", "begun", "clocked", "reserved", "reduced", "aborting", "settling", "done"}

Becomes(p, n) == n \in Publication /\ pub' = [pub EXCEPT ![p] = n]

Moves(p, n, pc, permit) ==
    /\ Becomes(p, n) /\ n.pc = pc /\ n.key = pub[p].key
    /\ n.evidence = pub[p].evidence /\ n.permit = permit

LEMMA PcsNamed == \A pc \in {"settling", "reduced", "aborting", "done", "reserved"} : pc \in Pcs
  BY Zenon DEF Pcs

LEMMA BecomeFacts ==
  ASSUME IngestorInv, NEW p \in Publishers, NEW pc \in Pcs, Become(p, pc)
  PROVE  \E n : Moves(p, n, pc, pub[p].permit)
  <1>1. PICK n : n = [pub[p] EXCEPT !.pc = pc]
    BY Zenon
  <1>2. pub[p] \in Publication
    BY Zenon DEF IngestorInv, ReservationKept, IngestorTypeOK
  <1>3. n \in Publication
    BY <1>1, <1>2, Zenon DEF Publication, Pcs
  <1>4. /\ n.pc = pc /\ n.key = pub[p].key
        /\ n.evidence = pub[p].evidence /\ n.permit = pub[p].permit
    BY <1>1, <1>2, Zenon DEF Publication
  <1>5. pub' = [pub EXCEPT ![p] = n]
    BY <1>1, Zenon DEF Become
  <1> QED
    BY <1>3, <1>4, <1>5, Zenon DEF Becomes, Moves

LEMMA SettledFacts ==
  ASSUME IngestorInv, NEW p \in Publishers, NEW pc \in Pcs,
         NEW permit \in {"none", "held", "completed", "released"},
         pub' = [pub EXCEPT ![p].pc = pc, ![p].permit = permit]
  PROVE  \E n : Moves(p, n, pc, permit)
  <1>1. PICK n : n = [pub[p] EXCEPT !.pc = pc, !.permit = permit]
    BY Zenon
  <1>2. pub[p] \in Publication
    BY Zenon DEF IngestorInv, ReservationKept, IngestorTypeOK
  <1>3. n \in Publication
    BY <1>1, <1>2, Zenon DEF Publication, Pcs
  <1>4. /\ n.pc = pc /\ n.key = pub[p].key
        /\ n.evidence = pub[p].evidence /\ n.permit = permit
    BY <1>1, <1>2, Zenon DEF Publication
  <1>5. pub' = [pub EXCEPT ![p] = n]
    BY <1>1, <1>2, ZenonT(60) DEF IngestorInv, ReservationKept, IngestorTypeOK, Publication
  <1> QED
    BY <1>3, <1>4, <1>5, Zenon DEF Becomes, Moves

LEMMA ReadFacts ==
  ASSUME IngestorInv, NEW p \in Publishers, ReadClock(p)
  PROVE  \E n : /\ Becomes(p, n) /\ n.pc = "clocked" /\ n.key = pub[p].key /\ n.read = now
                /\ n.evidence = pub[p].evidence /\ n.permit = pub[p].permit
  <1>1. PICK n : n = [pub[p] EXCEPT !.pc = "clocked", !.read = now]
    BY Zenon
  <1>2. pub[p] \in Publication /\ now \in Nat
    BY Zenon DEF IngestorInv, ReservationKept, IngestorTypeOK
  <1>3. n \in Publication
    BY <1>1, <1>2, Zenon DEF Publication
  <1>4. /\ n.pc = "clocked" /\ n.key = pub[p].key /\ n.read = now
        /\ n.evidence = pub[p].evidence /\ n.permit = pub[p].permit
    BY <1>1, <1>2, Zenon DEF Publication
  <1>5. pub' = [pub EXCEPT ![p] = n]
    BY <1>1, <1>2, ZenonT(60) DEF ReadClock, IngestorInv, ReservationKept, IngestorTypeOK, Publication
  <1> QED
    BY <1>3, <1>4, <1>5, Zenon DEF Becomes

LEMMA SettledPermit ==
  ASSUME IngestorInv, NEW p \in Publishers
  PROVE  /\ Settled(p) \in {"none", "completed", "released"}
         /\ Settled(p) = "completed" => pub[p].evidence = "eligible"
         /\ Settled(p) = "none" <=> pub[p].permit = "none"
  <1>1. pub[p].permit \in {"none", "held", "completed", "released"}
    BY Zenon DEF IngestorInv, ReservationKept, IngestorTypeOK, Publication
  <1> QED
    BY <1>1, Zenon DEF Settled, IngestorInv, PubInv, Sound

LEMMA SoundNow == ASSUME IngestorInv, NEW p \in Publishers
                  PROVE  Sound(pub[p], now) /\ now \in Nat /\ pub[p] \in Publication
  BY Zenon DEF IngestorInv, PubInv, ReservationKept, IngestorTypeOK
LEMMA BeginStep ==
  ASSUME IngestorInv, NEW p \in Publishers, NEW k \in Keys, NEW e \in Evidence,
         NEW permit \in {"none", "held"}, Begin(p, k, e, permit)
  PROVE  IngestorInv'
  <1>1. PICK n : n = [pc |-> "begun", key |-> k, evidence |-> e, read |-> 0, permit |-> permit]
    BY Zenon
  <1>2. /\ n \in Publication /\ n.pc = "begun" /\ n.key = k
        /\ n.permit = permit /\ n.evidence = e
    BY <1>1, Zenon DEF Publication
  <1>3. /\ pub[p].pc = "idle" /\ pub' = [pub EXCEPT ![p] = n]
        /\ UNCHANGED <<now, entries, lru, pending>>
    BY <1>1, Zenon DEF Begin
  <1>4. Sound(n, now)
    BY <1>2, Zenon DEF Sound
  <1> QED
    BY <1>2, <1>3, <1>4, PubStep, Zenon DEF Owning

LEMMA RefuseStep == ASSUME IngestorInv, NEW p \in Publishers, Refuse(p) PROVE IngestorInv'
  <1>1. /\ pub[p].pc = "begun" /\ Become(p, "settling")
        /\ UNCHANGED <<now, entries, lru, pending>>
    BY Zenon DEF Refuse
  <1>2. PICK n : Moves(p, n, "settling", pub[p].permit)
    BY <1>1, BecomeFacts, PcsNamed, Zenon
  <1>3. Sound(n, now)
    BY <1>1, <1>2, SoundNow, Zenon DEF Sound, Moves
  <1> QED
    BY <1>1, <1>2, <1>3, PubStep, Zenon DEF Owning, Becomes, Moves

LEMMA ReadClockStep == ASSUME IngestorInv, NEW p \in Publishers, ReadClock(p) PROVE IngestorInv'
  <1>1. pub[p].pc = "begun" /\ UNCHANGED <<now, entries, lru, pending>>
    BY Zenon DEF ReadClock
  <1>2. PICK n : /\ Becomes(p, n) /\ n.pc = "clocked" /\ n.key = pub[p].key /\ n.read = now
                 /\ n.evidence = pub[p].evidence /\ n.permit = pub[p].permit
    BY ReadFacts, Zenon
  <1>3. Sound(n, now)
    BY <1>1, <1>2, SoundNow, SMTT(60) DEF Sound, Moves
  <1> QED
    BY <1>1, <1>2, <1>3, PubStep, ZenonT(60) DEF Owning, Becomes, Moves

LEMMA ReduceStep == ASSUME IngestorInv, NEW p \in Publishers, Reduce(p) PROVE IngestorInv'
  <1>1. /\ pub[p].pc = "reserved" /\ UNCHANGED <<now, entries, lru, pending>>
        /\ pub' = [pub EXCEPT ![p].pc = "reduced", ![p].permit = Settled(p)]
    BY Zenon DEF Reduce
  <1>2. PICK n : Moves(p, n, "reduced", Settled(p))
    BY <1>1, SettledPermit, SettledFacts, PcsNamed, ZenonT(60)
  <1>3. Sound(n, now)
    BY <1>1, <1>2, SoundNow, SettledPermit, ZenonT(60) DEF Sound, Moves
  <1> QED
    BY <1>1, <1>2, <1>3, PubStep, ZenonT(60) DEF Owning, Becomes, Moves

LEMMA ReduceFailsStep ==
  ASSUME IngestorInv, NEW p \in Publishers, ReduceFails(p) PROVE IngestorInv'
  <1>1. /\ pub[p].pc = "reserved" /\ Become(p, "aborting")
        /\ UNCHANGED <<now, entries, lru, pending>>
    BY Zenon DEF ReduceFails
  <1>2. PICK n : Moves(p, n, "aborting", pub[p].permit)
    BY <1>1, BecomeFacts, PcsNamed, Zenon
  <1>3. Sound(n, now)
    BY <1>1, <1>2, SoundNow, Zenon DEF Sound, Moves
  <1> QED
    BY <1>1, <1>2, <1>3, PubStep, Zenon DEF Owning, Becomes, Moves

(* The permit of a publication that was not accepted.                        *)
Freed(p) == IF pub[p].permit = "held" THEN "released" ELSE pub[p].permit

LEMMA FreedPermit ==
  ASSUME IngestorInv, NEW p \in Publishers
  PROVE  /\ Freed(p) \in {"none", "completed", "released"}
         /\ Freed(p) = "completed" => pub[p].evidence = "eligible"
         /\ Freed(p) = "none" <=> pub[p].permit = "none"
  <1>1. pub[p].permit \in {"none", "held", "completed", "released"}
    BY Zenon DEF IngestorInv, ReservationKept, IngestorTypeOK, Publication
  <1> QED
    BY <1>1, Zenon DEF Freed, IngestorInv, PubInv, Sound

LEMMA SettleFacts ==
  ASSUME IngestorInv, NEW p \in Publishers, Settle(p)
  PROVE  \E n : Moves(p, n, "done", Freed(p))
  <1>1. pub' = [pub EXCEPT ![p].pc = "done", ![p].permit = Freed(p)]
    BY Zenon DEF Settle, Freed
  <1> QED
    BY <1>1, FreedPermit, SettledFacts, PcsNamed, Zenon

LEMMA SettleStep == ASSUME IngestorInv, NEW p \in Publishers, Settle(p) PROVE IngestorInv'
  <1>1. /\ pub[p].pc = "settling" /\ UNCHANGED <<now, entries, lru, pending>>
    BY Zenon DEF Settle
  <1>2. PICK n : Moves(p, n, "done", Freed(p))
    BY SettleFacts, Zenon
  <1>3. Sound(n, now)
    BY <1>1, <1>2, SoundNow, FreedPermit, ZenonT(60) DEF Sound, Moves
  <1> QED
    BY <1>1, <1>2, <1>3, PubStep, Zenon DEF Owning, Becomes, Moves

LEMMA TickStep == ASSUME IngestorInv, Tick PROVE IngestorInv'
  <1>1. now \in Nat /\ now' = now + 1 /\ UNCHANGED <<entries, lru, pending, pub>>
    BY Zenon DEF Tick, IngestorInv, ReservationKept, IngestorTypeOK
  <1>2. ReservationKept' /\ BoundInv'
    BY <1>1, SMTT(60) DEF IngestorInv, ReservationKept, IngestorTypeOK, BoundInv, Pending, Owns
  <1>3. TableInv'
    BY <1>1, IngestorConstants, SMTT(60) DEF IngestorInv, TableInv
  <1>4. PubInv'
    BY <1>1 DEF IngestorInv, PubInv, Sound, ReservationKept, IngestorTypeOK, Publication
  <1> QED
    BY <1>2, <1>3, <1>4, Zenon DEF IngestorInv
(* Abort gives the reservation back.                                         *)
LEMMA AbortStep == ASSUME IngestorInv, NEW p \in Publishers, Abort(p) PROVE IngestorInv'
  <1> DEFINE k == pub[p].key
  <1>1. /\ pub[p].pc = "aborting" /\ Become(p, "settling")
        /\ UNCHANGED <<now, entries, lru>>
        /\ pending' = IF pending[k] = p THEN [pending EXCEPT ![k] = None] ELSE pending
    BY Zenon DEF Abort
  <1>2. PICK n : Moves(p, n, "settling", pub[p].permit)
    BY <1>1, BecomeFacts, PcsNamed, Zenon
  <1>3. /\ pub' \in [Publishers -> Publication]
        /\ \A q \in Publishers : pub'[q] = IF q = p THEN n ELSE pub[q]
    BY <1>2, PubUpdate, Zenon DEF Moves, Becomes
  <1>4. n.pc = "settling" /\ Sound(n, now)
    BY <1>1, <1>2, SoundNow, Zenon DEF Sound, Moves
  <1>5. k \in Keys /\ pending[k] = p
    BY <1>1, Zenon DEF IngestorInv, ReservationKept, Owns
  <1>6. /\ pending' \in [Keys -> Publishers \cup {None}]
        /\ \A j \in Keys : pending'[j] = IF j = k THEN None ELSE pending[j]
    BY <1>1, <1>5, Zenon DEF IngestorInv, ReservationKept, IngestorTypeOK
  <1> HIDE DEF k
  <1>7. ReservationKept'
    <2>1. IngestorTypeOK'
      BY <1>1, <1>3, <1>6, Zenon DEF IngestorInv, ReservationKept, IngestorTypeOK
    <2>2. \A q \in Publishers : Owns(q)' =>
              q # p /\ pub'[q].key = pub[q].key /\ pub[q].key \in Keys
              /\ pending[pub[q].key] = q
      BY <1>3, <1>4, ZenonT(60) DEF IngestorInv, ReservationKept, Owns
    <2>3. \A q \in Publishers : Owns(q)' => pub'[q].key \in Keys /\ pending'[pub'[q].key] = q
      BY <1>5, <1>6, <2>2, ZenonT(60)
    <2>4. \A j \in Keys : pending'[j] # None =>
              /\ j # k /\ pending'[j] = pending[j] /\ pending[j] \in Publishers
              /\ Owns(pending[j]) /\ pub[pending[j]].key = j /\ entries[j] = None
      BY <1>6 DEF IngestorInv, ReservationKept, IngestorTypeOK
    <2>5. \A j \in Keys : pending'[j] # None => pending[j] # p
      BY <2>4, Zenon DEF k
    <2>6. \A j \in Keys : pending'[j] # None =>
              /\ pub'[pending'[j]] = pub[pending[j]] /\ pub[pending[j]].key = j
              /\ entries'[j] = None /\ Owns(pending[j])
      BY <1>1, <1>3, <2>4, <2>5, ZenonT(60)
    <2> QED
      BY <2>1, <2>3, <2>6, Zenon DEF ReservationKept, Owns
  <1>8. TableInv'
    BY <1>1, Zenon DEF IngestorInv, TableInv
  <1>9. BoundInv'
    <2>1. Pending' = Pending \ {k} /\ k \in Pending
      BY <1>5, <1>6, IngestorConstants, Zenon DEF Pending
    <2>2. IsFiniteSet(Pending') /\ Cardinality(Pending') = Cardinality(Pending) - 1
      BY <2>1, FS_RemoveElement, Zenon DEF IngestorInv, BoundInv
    <2>3. Cardinality(Pending) \in Nat /\ Len(lru) \in Nat /\ Len(lru') = Len(lru)
      BY <1>1, FS_CardinalityType, SMTT(60) DEF IngestorInv, BoundInv, TableInv
    <2> QED
      BY <2>2, <2>3, IngestorConstants DEF IngestorInv, BoundInv
  <1>10. PubInv'
    BY <1>1, <1>3, <1>4, Zenon DEF IngestorInv, PubInv
  <1> QED
    BY <1>7, <1>8, <1>9, <1>10, ZenonT(60) DEF IngestorInv
(* Commit finds its reservation and turns it into the newest record.         *)
LEMMA CommitFacts ==
  ASSUME IngestorInv, NEW p \in Publishers, Commit(p)
  PROVE  /\ pub[p].pc = "reduced" /\ pub[p].key \in Keys /\ pending[pub[p].key] = p
         /\ entries[pub[p].key] = None /\ UNCHANGED now
         /\ pending' = [pending EXCEPT ![pub[p].key] = None]
         /\ entries' = [entries EXCEPT ![pub[p].key] = now + Ttl]
         /\ lru' = <<pub[p].key>> \o lru
         /\ Become(p, "done")
  <1>1. pub[p].pc = "reduced"
    BY Zenon DEF Commit
  <1>2. pub[p].key \in Keys /\ pending[pub[p].key] = p
    BY <1>1, Zenon DEF IngestorInv, ReservationKept, Owns
  <1>3. entries[pub[p].key] = None
    BY <1>2, IngestorConstants, ZenonT(60) DEF IngestorInv, ReservationKept
  <1> QED
    BY <1>1, <1>2, <1>3, Zenon DEF Commit

LEMMA CommitStep == ASSUME IngestorInv, NEW p \in Publishers, Commit(p) PROVE IngestorInv'
  <1> DEFINE k == pub[p].key
  <1>1. /\ pub[p].pc = "reduced" /\ k \in Keys /\ pending[k] = p /\ entries[k] = None
        /\ UNCHANGED now /\ pending' = [pending EXCEPT ![k] = None]
        /\ entries' = [entries EXCEPT ![k] = now + Ttl] /\ lru' = <<k>> \o lru
        /\ Become(p, "done")
    BY CommitFacts, Zenon
  <1>2. PICK n : Moves(p, n, "done", pub[p].permit)
    BY <1>1, BecomeFacts, PcsNamed, Zenon
  <1>3. /\ pub' \in [Publishers -> Publication]
        /\ \A q \in Publishers : pub'[q] = IF q = p THEN n ELSE pub[q]
    BY <1>2, PubUpdate, Zenon DEF Moves, Becomes
  <1>4. n.pc = "done" /\ Sound(n, now)
    BY <1>1, <1>2, SoundNow, Zenon DEF Sound, Moves
  <1>5. /\ pending' \in [Keys -> Publishers \cup {None}]
        /\ \A j \in Keys : pending'[j] = IF j = k THEN None ELSE pending[j]
    BY <1>1, Zenon DEF IngestorInv, ReservationKept, IngestorTypeOK
  <1>6. now \in Nat /\ now + Ttl \in Nat /\ now + Ttl # None
    BY IngestorConstants DEF IngestorInv, ReservationKept, IngestorTypeOK
  <1>7. /\ entries' \in [Keys -> Nat \cup {None}]
        /\ \A j \in Keys : entries'[j] = IF j = k THEN now + Ttl ELSE entries[j]
    BY <1>1, <1>6, Zenon DEF IngestorInv, ReservationKept, IngestorTypeOK
  <1> HIDE DEF k
  <1>8. ReservationKept'
    <2>1. IngestorTypeOK'
      BY <1>1, <1>3, <1>5, <1>7, Zenon DEF IngestorInv, ReservationKept, IngestorTypeOK
    <2>2. \A q \in Publishers : Owns(q)' =>
              q # p /\ pub'[q].key = pub[q].key /\ pub[q].key \in Keys
              /\ pending[pub[q].key] = q
      BY <1>3, <1>4, ZenonT(60) DEF IngestorInv, ReservationKept, Owns
    <2>3. \A q \in Publishers : Owns(q)' => pub'[q].key \in Keys /\ pending'[pub'[q].key] = q
      BY <1>1, <1>5, <2>2
    <2>4. \A j \in Keys : pending'[j] # None =>
              /\ j # k /\ pending'[j] = pending[j] /\ pending[j] \in Publishers
              /\ Owns(pending[j]) /\ pub[pending[j]].key = j /\ entries[j] = None
      BY <1>5 DEF IngestorInv, ReservationKept, IngestorTypeOK
    <2>5. \A j \in Keys : pending'[j] # None => pending[j] # p
      BY <2>4, Zenon DEF k
    <2>6. \A j \in Keys : pending'[j] # None =>
              /\ pub'[pending'[j]] = pub[pending[j]] /\ pub[pending[j]].key = j
              /\ entries'[j] = None /\ Owns(pending[j])
      BY <1>3, <1>7, <2>4, <2>5, ZenonT(60)
    <2> QED
      BY <2>1, <2>3, <2>6, Zenon DEF ReservationKept, Owns
  <1>9. lru \in Seq(Keys) /\ Len(lru) \in Nat
    BY DEF IngestorInv, TableInv
  <1>10. /\ lru' \in Seq(Keys) /\ Len(lru') = Len(lru) + 1
         /\ lru'[1] = k /\ \A i \in 1..Len(lru) : lru'[i + 1] = lru[i]
    BY <1>1, <1>9
  <1>11. \A i \in 1..Len(lru') : i = 1 \/ (i - 1 \in 1..Len(lru) /\ lru'[i] = lru[i - 1])
    BY <1>9, <1>10, SMTT(60)
  <1>12. \A i \in 1..Len(lru) :
            /\ lru[i] \in Keys /\ lru[i] # k /\ entries'[lru[i]] = entries[lru[i]]
            /\ entries[lru[i]] \in Nat /\ entries[lru[i]] <= now + Ttl
    BY <1>1, <1>7, <1>9, IngestorConstants, SMTT(60) DEF IngestorInv, TableInv
  <1>13. TableInv'
    <2>1. \A j \in Keys : entries'[j] # None => \E i \in 1..Len(lru') : lru'[i] = j
      <3> SUFFICES ASSUME NEW j \in Keys, entries'[j] # None
                   PROVE  \E i \in 1..Len(lru') : lru'[i] = j
        BY Zenon
      <3>1. CASE j = k
        BY <3>1, <1>9, <1>10, SMTT(60)
      <3>2. CASE j # k
        <4>1. PICK i \in 1..Len(lru) : lru[i] = j
          BY <3>2, <1>7, Zenon DEF IngestorInv, TableInv
        <4>2. i + 1 \in 1..Len(lru') /\ lru'[i + 1] = j
          BY <4>1, <1>9, <1>10, SMTT(60)
        <4> QED
          BY <4>2, Zenon
      <3> QED
        BY <3>1, <3>2, Zenon
    <2>2. \A i \in 1..Len(lru') : entries'[lru'[i]] \in Nat /\ entries'[lru'[i]] <= now' + Ttl
      BY <1>1, <1>6, <1>7, <1>10, <1>11, <1>12, SMTT(60)
    <2>3. ASSUME NEW i \in 1..Len(lru'), NEW j \in 1..Len(lru'), i < j
          PROVE  entries'[lru'[j]] <= entries'[lru'[i]] /\ lru'[i] # lru'[j]
      <3>1. j - 1 \in 1..Len(lru) /\ lru'[j] = lru[j - 1]
        BY <1>9, <1>10, <1>11, <2>3, SMTT(60)
      <3>2. CASE i = 1
        BY <3>1, <3>2, <1>1, <1>6, <1>7, <1>10, <1>12, SMTT(60)
      <3>3. CASE i # 1
        <4>1. i - 1 \in 1..Len(lru) /\ lru'[i] = lru[i - 1] /\ i - 1 < j - 1
          BY <3>3, <1>9, <1>10, <1>11, <2>3, SMTT(60)
        <4>2. entries[lru[j - 1]] <= entries[lru[i - 1]] /\ lru[i - 1] # lru[j - 1]
          BY <3>1, <4>1, Zenon DEF IngestorInv, TableInv
        <4> QED
          BY <3>1, <4>1, <4>2, <1>12, ZenonT(60)
      <3> QED
        BY <3>2, <3>3, Zenon
    <2> QED
      BY <1>10, <2>1, <2>2, <2>3, Zenon DEF TableInv
  <1>14. BoundInv'
    <2>1. Pending' = Pending \ {k} /\ k \in Pending
      BY <1>1, <1>5, IngestorConstants, ZenonT(60) DEF Pending
    <2>2. IsFiniteSet(Pending') /\ Cardinality(Pending') = Cardinality(Pending) - 1
      BY <2>1, FS_RemoveElement, Zenon DEF IngestorInv, BoundInv
    <2>3. Cardinality(Pending) \in Nat
      BY FS_CardinalityType, Zenon DEF IngestorInv, BoundInv
    <2> QED
      BY <1>9, <1>10, <2>2, <2>3, IngestorConstants, SMTT(60) DEF IngestorInv, BoundInv
  <1>15. PubInv'
    BY <1>1, <1>3, <1>4, Zenon DEF IngestorInv, PubInv
  <1> QED
    BY <1>8, <1>13, <1>14, <1>15, Zenon DEF IngestorInv
(* ReserveMapped: how many records stay, and which of its ways it took.      *)
LEMMA ReserveFacts ==
  ASSUME IngestorInv, NEW p \in Publishers, ReserveMapped(p)
  PROVE  \E n \in 0..Len(lru) :
            /\ n = Kept(pub[p].read) /\ pub[p].pc = "clocked" /\ UNCHANGED now
            /\ \/ Keep(n) /\ Become(p, "settling") /\ UNCHANGED pending
               \/ /\ ~Duplicate(p, n) /\ Room(n) \in 0..n
                  /\ Room(n) # n => Cardinality(Pending) + n + 1 > MaxEntries /\ Room(n) = n - 1
                  /\ Room(n) = n => ~(Cardinality(Pending) + n + 1 > MaxEntries)
                  /\ Keep(Room(n)) /\ pending' = [pending EXCEPT ![pub[p].key] = p]
                  /\ Become(p, "reserved")
  <1>1. PICK n : n = Kept(pub[p].read)
    BY Zenon
  <1>2. pub[p].read \in Nat
    BY SoundNow, Zenon DEF Publication
  <1>3. n \in 0..Len(lru) /\ Len(lru) \in Nat
    BY <1>1, <1>2, KeptRange, SMTT(60) DEF IngestorInv, TableInv
  <1>4. /\ pub[p].pc = "clocked" /\ UNCHANGED now
        /\ \/ Keep(n) /\ Become(p, "settling") /\ UNCHANGED pending
           \/ /\ ~Duplicate(p, n) /\ ~(Cardinality(Pending) + n + 1 > MaxEntries /\ n = 0)
              /\ Keep(Room(n)) /\ pending' = [pending EXCEPT ![pub[p].key] = p]
              /\ Become(p, "reserved")
    BY <1>1, Zenon DEF ReserveMapped
  <1>5. CASE Cardinality(Pending) + n + 1 > MaxEntries
    <2>1. Room(n) = n - 1
      BY <1>5, Zenon DEF Room
    <2>2. n # 0 => Room(n) \in 0..n /\ Room(n) # n
      BY <2>1, <1>3, SMTT(60)
    <2> QED
      BY <1>1, <1>3, <1>4, <1>5, <2>1, <2>2, Zenon
  <1>6. CASE ~(Cardinality(Pending) + n + 1 > MaxEntries)
    <2>1. Room(n) = n
      BY <1>6, Zenon DEF Room
    <2>2. Room(n) \in 0..n
      BY <2>1, <1>3
    <2> QED
      BY <1>1, <1>3, <1>4, <1>6, <2>1, <2>2, ZenonT(60)
  <1> QED
    BY <1>5, <1>6, Zenon

LEMMA DropStep ==
  ASSUME IngestorInv, NEW p \in Publishers, NEW n \in 0..Len(lru), pub[p].pc = "clocked",
         Keep(n), Become(p, "settling"), UNCHANGED <<now, pending>>
  PROVE  IngestorInv'
  <1>1. /\ TableInv' /\ Len(lru') = n
        /\ entries' \in [Keys -> Nat \cup {None}]
        /\ \A k \in Keys : entries'[k] = None \/ entries'[k] = entries[k]
    BY KeepStep, Zenon
  <1>2. PICK r : Moves(p, r, "settling", pub[p].permit)
    BY BecomeFacts, PcsNamed, Zenon
  <1>3. /\ pub' \in [Publishers -> Publication]
        /\ \A q \in Publishers : pub'[q] = IF q = p THEN r ELSE pub[q]
    BY <1>2, PubUpdate, Zenon DEF Moves, Becomes
  <1>4. r.pc = "settling" /\ Sound(r, now)
    BY <1>2, SoundNow, ZenonT(60) DEF Sound, Moves
  <1>5. ReservationKept'
    <2>1. IngestorTypeOK'
      BY <1>1, <1>3, Zenon DEF IngestorInv, ReservationKept, IngestorTypeOK
    <2>2. \A q \in Publishers : Owns(q)' => Owns(q) /\ pub'[q].key = pub[q].key
      BY <1>3, <1>4, Zenon DEF Owns
    <2>3. \A q \in Publishers : Owns(q) => q # p /\ pub'[q] = pub[q]
      BY <1>3, Zenon DEF Owns
    <2>4. \A j \in Keys : pending[j] # None =>
              /\ pending[j] \in Publishers /\ Owns(pending[j])
              /\ pub[pending[j]].key = j /\ entries[j] = None
      BY DEF IngestorInv, ReservationKept, IngestorTypeOK
    <2>5. \A j \in Keys : pending'[j] # None =>
              /\ pub'[pending'[j]] = pub[pending[j]] /\ pub[pending[j]].key = j
              /\ entries'[j] = None /\ Owns(pending[j])
      BY <1>1, <2>3, <2>4, Zenon
    <2> QED
      BY <2>1, <2>2, <2>5, SMTT(60) DEF IngestorInv, ReservationKept, Owns
  <1>6. BoundInv'
    <2>1. Len(lru) \in Nat /\ Cardinality(Pending) \in Nat
      BY FS_CardinalityType DEF IngestorInv, TableInv, BoundInv
    <2>2. Pending' = Pending
      BY Zenon DEF Pending
    <2> QED
      BY <1>1, <2>1, <2>2, IngestorConstants, SMTT(60) DEF IngestorInv, BoundInv
  <1>7. PubInv'
    BY <1>3, <1>4, Zenon DEF IngestorInv, PubInv
  <1> QED
    BY <1>1, <1>5, <1>6, <1>7, Zenon DEF IngestorInv
LEMMA TakeStep ==
  ASSUME IngestorInv, NEW p \in Publishers, NEW n \in 0..Len(lru), n = Kept(pub[p].read),
         pub[p].pc = "clocked", ~Duplicate(p, n), Room(n) \in 0..n,
         Room(n) # n => Cardinality(Pending) + n + 1 > MaxEntries /\ Room(n) = n - 1,
         Room(n) = n => ~(Cardinality(Pending) + n + 1 > MaxEntries),
         Keep(Room(n)), pending' = [pending EXCEPT ![pub[p].key] = p], UNCHANGED now,
         Become(p, "reserved")
  PROVE  IngestorInv'
  <1> DEFINE k == pub[p].key
  <1>1. Len(lru) \in Nat /\ Room(n) \in 0..Len(lru) /\ k \in Keys /\ pub[p].read \in Nat
    BY SoundNow, SMTT(60) DEF IngestorInv, TableInv, Sound, Publication
  <1>2. /\ TableInv' /\ Len(lru') = Room(n)
        /\ entries' \in [Keys -> Nat \cup {None}]
        /\ \A j \in Keys : entries'[j] = None \/ entries'[j] = entries[j]
        /\ \A j \in Keys : entries'[j] # None => \E i \in 1..Room(n) : lru[i] = j
    BY <1>1, KeepStep, Zenon
  <1>3. PICK r : Moves(p, r, "reserved", pub[p].permit)
    BY BecomeFacts, PcsNamed, Zenon
  <1>4. /\ pub' \in [Publishers -> Publication]
        /\ \A q \in Publishers : pub'[q] = IF q = p THEN r ELSE pub[q]
    BY <1>3, PubUpdate, Zenon DEF Moves, Becomes
  <1>5. r.pc = "reserved" /\ r.key = k /\ Sound(r, now)
    BY <1>3, SoundNow, ZenonT(60) DEF Sound, Moves
  <1>6. pending[k] = None /\ entries'[k] = None
    <2>1. pending[k] = None /\ ~(\E i \in 1..n : lru[i] = k /\ pub[p].read < entries[lru[i]])
      BY Zenon DEF Duplicate
    <2>2. \A i \in 1..n : pub[p].read < entries[lru[i]]
      BY <1>1, KeptRange, Zenon DEF IngestorInv
    <2>3. \A i \in 1..Room(n) : i \in 1..n
      BY <1>1
    <2> QED
      BY <1>1, <1>2, <2>1, <2>2, <2>3, SMTT(60)
  <1>7. /\ pending' \in [Keys -> Publishers \cup {None}]
        /\ \A j \in Keys : pending'[j] = IF j = k THEN p ELSE pending[j]
    BY <1>1, Zenon DEF IngestorInv, ReservationKept, IngestorTypeOK
  <1> HIDE DEF k
  <1>8. ReservationKept'
    <2>1. IngestorTypeOK'
      BY <1>2, <1>4, <1>7, Zenon DEF IngestorInv, ReservationKept, IngestorTypeOK
    <2>2. \A q \in Publishers : Owns(q)' /\ q # p =>
              /\ pub'[q].key = pub[q].key /\ pub[q].key \in Keys
              /\ pending[pub[q].key] = q /\ q # None
      BY <1>4, IngestorConstants, ZenonT(60) DEF IngestorInv, ReservationKept, Owns
    <2>3. \A q \in Publishers : Owns(q)' => pub'[q].key \in Keys /\ pending'[pub'[q].key] = q
      BY <1>1, <1>4, <1>5, <1>6, <1>7, <2>2, SMTT(60)
    <2>4. \A j \in Keys : pending[j] # None =>
              /\ pending[j] \in Publishers /\ Owns(pending[j])
              /\ pub[pending[j]].key = j /\ entries[j] = None
      BY DEF IngestorInv, ReservationKept, IngestorTypeOK
    <2>5. \A q \in Publishers : Owns(q) => q # p /\ pub'[q] = pub[q]
      BY <1>4, ZenonT(60) DEF Owns
    <2>6. \A j \in Keys : pending'[j] # None => 
              /\ pub'[pending'[j]].pc \in Owning /\ pub'[pending'[j]].key = j
              /\ entries'[j] = None
      BY <1>2, <1>4, <1>5, <1>6, <1>7, <2>4, <2>5, SMTT(60) DEF Owns, Owning
    <2> QED
      BY <2>1, <2>3, <2>6, Zenon DEF ReservationKept, Owns, Owning
  <1>9. BoundInv'
    <2>1. Pending' = Pending \cup {k} /\ k \notin Pending
      BY <1>1, <1>6, <1>7, IngestorConstants, SMTT(60) DEF Pending
    <2>2. IsFiniteSet(Pending') /\ Cardinality(Pending') = Cardinality(Pending) + 1
      BY <2>1, FS_AddElement, Zenon DEF IngestorInv, BoundInv
    <2>3. Cardinality(Pending) \in Nat
      BY FS_CardinalityType, Zenon DEF IngestorInv, BoundInv
    <2>4. Cardinality(Pending) + Len(lru) <= MaxEntries
      BY Zenon DEF IngestorInv, BoundInv
    <2>5. Cardinality(Pending) + 1 + Room(n) <= MaxEntries
      BY <1>1, <2>3, <2>4, IngestorConstants, SMTT(60)
    <2> QED
      BY <1>1, <1>2, <2>2, <2>3, <2>5, ZenonT(60) DEF BoundInv
  <1>10. PubInv'
    BY <1>4, <1>5, Zenon DEF IngestorInv, PubInv
  <1> QED
    BY <1>2, <1>8, <1>9, <1>10, ZenonT(60) DEF IngestorInv

LEMMA ReserveStep ==
  ASSUME IngestorInv, NEW p \in Publishers, ReserveMapped(p) PROVE IngestorInv'
  BY ReserveFacts, DropStep, TakeStep, Zenon
-----------------------------------------------------------------------------
(* The inductive invariant of the ingestor.                                  *)
THEOREM IngestorInvariant == IngestorSpec => []IngestorInv
  <1>1. IngestorInit => IngestorInv
    <2> SUFFICES ASSUME IngestorInit PROVE IngestorInv
      BY Zenon
    <2>1. /\ NoPublication \in Publication /\ NoPublication.pc = "idle"
          /\ NoPublication.permit = "none"
      BY Zenon DEF NoPublication, Publication, Evidence, Promise!Evidence
    <2>2. \A p \in Publishers : pub[p] = NoPublication
      BY Zenon DEF IngestorInit
    <2>3. ReservationKept
      BY <2>1, <2>2, Zenon DEF IngestorInit, ReservationKept, IngestorTypeOK, Owns
    <2>4. TableInv
      BY DEF IngestorInit, TableInv
    <2>5. PubInv
      BY <2>1, <2>2, Zenon DEF PubInv, Sound
    <2>6. BoundInv
      <3>1. Pending = {}
        BY Zenon DEF IngestorInit, Pending
      <3>2. Len(lru) = 0
        BY Zenon DEF IngestorInit
      <3> QED
        BY <3>1, <3>2, FS_EmptySet, IngestorConstants, SMTT(60) DEF BoundInv
    <2> QED
      BY <2>3, <2>4, <2>5, <2>6, Zenon DEF IngestorInv
  <1>2. IngestorInv /\ [IngestorNext]_ingestorVars => IngestorInv'
    <2> SUFFICES ASSUME IngestorInv, [IngestorNext]_ingestorVars PROVE IngestorInv'
      BY Zenon
    <2>1. CASE UNCHANGED ingestorVars
      BY <2>1, ZenonT(60) DEF ingestorVars, IngestorInv, ReservationKept, IngestorTypeOK, Owns, TableInv,
                  PubInv, BoundInv, Pending
    <2>2. ASSUME NEW p \in Publishers, PublishStep(p) PROVE IngestorInv'
      BY <2>2, RefuseStep, ReadClockStep, ReserveStep, ReduceStep, ReduceFailsStep, CommitStep,
         AbortStep, SettleStep, ZenonT(60) DEF PublishStep
    <2>3. ASSUME NEW p \in Publishers, NEW k \in Keys, NEW e \in Evidence,
                 NEW permit \in {"none", "held"}, Begin(p, k, e, permit)
          PROVE  IngestorInv'
      BY <2>3, BeginStep, Zenon
    <2>4. CASE Tick
      BY <2>4, TickStep, Zenon
    <2> QED
      BY <2>1, <2>2, <2>3, <2>4, Zenon DEF IngestorNext
  <1> QED
    BY <1>1, <1>2, PTL DEF IngestorSpec

(* ReserveMapped, Commit and Abort: for any number of publishers and keys    *)
(* and any table size, a reservation is still there when its owner commits   *)
(* or aborts it, and no record of its key stands beside it.                  *)
THEOREM ReservationKeptTheorem == IngestorSpec => []ReservationKept
  <1>1. IngestorInv => ReservationKept
    BY Zenon DEF IngestorInv
  <1> QED
    BY <1>1, IngestorInvariant, PTL

-----------------------------------------------------------------------------
(* What a step drops.                                                        *)

LEMMA RecordsCounted == ASSUME IngestorInv PROVE Cardinality(Committed) = Len(lru)
  <1>1. /\ lru \in Seq(Keys) /\ Len(lru) \in Nat
        /\ \A i \in 1..Len(lru) : lru[i] \in Committed
    BY IngestorConstants DEF IngestorInv, TableInv, Committed
  <1>2. lru \in [1..Len(lru) -> Committed]
    BY <1>1, SMTT(60)
  <1>3. \A i, j \in 1..Len(lru) : lru[i] = lru[j] => i = j
    BY <1>1, SMTT(60) DEF IngestorInv, TableInv
  <1>4. \A k \in Committed : \E i \in 1..Len(lru) : lru[i] = k
    BY Zenon DEF IngestorInv, TableInv, Committed
  <1>5. lru \in Bijection(1..Len(lru), Committed)
    BY <1>2, <1>3, <1>4, Fun_IsBij, Zenon
  <1>6. ExistsBijection(1..Len(lru), Committed)
    BY <1>5, Zenon DEF ExistsBijection
  <1> QED
    BY <1>1, <1>6, FS_CountingElements, ZenonT(60)

LEMMA ReserveDrops ==
  ASSUME IngestorInv, NEW p \in Publishers, ReserveMapped(p),
         NEW k \in Keys, entries[k] # None, entries'[k] = None
  PROVE  entries[k] <= now \/ Cardinality(Committed) + Cardinality(Pending) = MaxEntries
  <1> DEFINE at == pub[p].read
  <1>1. PICK n \in 0..Len(lru) :
            /\ n = Kept(at) /\ pub[p].pc = "clocked" /\ UNCHANGED now
            /\ \/ Keep(n)
               \/ /\ Room(n) \in 0..n /\ Keep(Room(n))
                  /\ Room(n) # n => Cardinality(Pending) + n + 1 > MaxEntries /\ Room(n) = n - 1
    BY ReserveFacts, ZenonT(60)
  <1>2. /\ at \in Nat /\ now \in Nat /\ at <= now /\ Len(lru) \in Nat
        /\ \A i \in 1..Len(lru) : entries[lru[i]] \in Nat
    BY <1>1, SoundNow, SMTT(60) DEF Sound, Publication, IngestorInv, TableInv
  <1>3. \A i \in 1..Len(lru) : i > n => entries[lru[i]] <= at
    BY <1>1, <1>2, KeptRange, ZenonT(60) DEF IngestorInv
  <1>4. \A m \in 0..Len(lru) : Keep(m) => \E i \in 1..Len(lru) : lru[i] = k /\ i > m
    BY <1>1, KeepStep, ZenonT(60)
  <1> HIDE DEF at
  <1>5. ASSUME NEW i \in 1..Len(lru), lru[i] = k, i > n PROVE entries[k] <= now
    BY <1>2, <1>3, <1>5, SMTT(60)
  <1>6. CASE Keep(n)
    BY <1>4, <1>5, <1>6, ZenonT(60)
  <1>7. CASE Cardinality(Pending) + n + 1 > MaxEntries
    <2>1. /\ Cardinality(Pending) \in Nat
          /\ Cardinality(Pending) + Len(lru) <= MaxEntries
      BY FS_CardinalityType, Zenon DEF IngestorInv, BoundInv
    <2>2. Len(lru) + Cardinality(Pending) = MaxEntries
      BY <1>2, <1>7, <2>1, IngestorConstants, SMTT(60)
    <2> QED
      BY <2>2, RecordsCounted, Zenon
  <1>8. CASE Room(n) = n
    BY <1>1, <1>6, <1>8, Zenon
  <1> QED
    BY <1>1, <1>6, <1>7, <1>8, ZenonT(60)

(* pruneLocked and the eviction loop of ReserveMapped: a record that still   *)
(* suppresses replays is dropped only when the table is at its limit.        *)
THEOREM DroppedOnlyIfNeededTheorem == IngestorSpec => DroppedOnlyIfNeeded
  <1> DEFINE Needed == \A k \in Keys : (entries[k] # None /\ entries'[k] = None) =>
                         \/ entries[k] <= now
                         \/ Cardinality(Committed) + Cardinality(Pending) = MaxEntries
  <1>1. IngestorInv /\ [IngestorNext]_ingestorVars => [Needed]_ingestorVars
    <2> SUFFICES ASSUME IngestorInv, IngestorNext, NEW k \in Keys,
                        entries[k] # None, entries'[k] = None
                 PROVE  \/ entries[k] <= now
                        \/ Cardinality(Committed) + Cardinality(Pending) = MaxEntries
      BY Zenon
    <2>1. ASSUME NEW p \in Publishers, Commit(p) PROVE FALSE
      <3>1. pub[p].key \in Keys /\ entries' = [entries EXCEPT ![pub[p].key] = now + Ttl]
        BY <2>1, CommitFacts, Zenon
      <3>2. entries \in [Keys -> Nat \cup {None}] /\ now + Ttl \in Nat /\ None \notin Nat
        BY IngestorConstants DEF IngestorInv, ReservationKept, IngestorTypeOK
      <3> QED
        BY <3>1, <3>2, Zenon
    <2>2. ~UNCHANGED entries
      BY Zenon
    <2>3. PICK p \in Publishers : ReserveMapped(p) \/ Commit(p)
      BY <2>2, Zenon DEF IngestorNext, PublishStep, Tick, Begin, Refuse, ReadClock, Reduce,
                         ReduceFails, Abort, Settle
    <2> QED
      BY <2>1, <2>3, ReserveDrops, Zenon
  <1>2. IngestorSpec => [][Needed]_ingestorVars
    BY <1>1, IngestorInvariant, PTL DEF IngestorSpec
  <1> QED
    BY <1>2, Zenon DEF DroppedOnlyIfNeeded
-----------------------------------------------------------------------------
(* The refinement.                                                           *)

View(r) ==
    [pc |-> IF r.pc \in {"idle", "done"} THEN r.pc ELSE "begun",
     evidence |-> r.evidence,
     permit |-> IF r.pc = "done" \/ r.permit = "none" THEN r.permit ELSE "held"]

LEMMA CallsAre == Calls = [p \in Publishers |-> View(pub[p])]
  BY Zenon DEF Calls, View

LEMMA CallsMove ==
  ASSUME IngestorInv, NEW p \in Publishers, NEW n, Becomes(p, n)
  PROVE  Calls' = [Calls EXCEPT ![p] = View(n)]
  <1>1. \A q \in Publishers : pub'[q] = IF q = p THEN n ELSE pub[q]
    BY PubUpdate, Zenon DEF Becomes
  <1>2. Calls' = [q \in Publishers |-> View(pub'[q])]
    BY Zenon DEF Calls, View
  <1>3. Calls = [q \in Publishers |-> View(pub[q])]
    BY CallsAre, Zenon
  <1>4. \A q \in Publishers : View(pub'[q]) = IF q = p THEN View(n) ELSE View(pub[q])
    BY <1>1, Zenon
  <1> HIDE DEF View
  <1> QED
    BY <1>2, <1>3, <1>4, Zenon

(* A step within a call is invisible to its caller.                          *)
LEMMA InsideCall ==
  ASSUME IngestorInv, NEW p \in Publishers, NEW n, NEW pc, NEW permit, Moves(p, n, pc, permit),
         pub[p].pc \notin {"idle", "done"}, pc \notin {"idle", "done"},
         permit = "none" <=> pub[p].permit = "none"
  PROVE  UNCHANGED Calls
  <1>1. View(n) = View(pub[p])
    BY Zenon DEF View, Moves
  <1>2. Calls' = [Calls EXCEPT ![p] = View(pub[p])]
    BY <1>1, CallsMove, Zenon DEF Moves
  <1>3. Calls = [q \in Publishers |-> View(pub[q])]
    BY CallsAre, Zenon
  <1> HIDE DEF View
  <1> QED
    BY <1>2, <1>3, Zenon

(* A call that ends with its permit settled returns as it has promised.      *)
LEMMA CallReturns ==
  ASSUME IngestorInv, NEW p \in Publishers, NEW n,
         NEW permit \in {"none", "completed", "released"}, Moves(p, n, "done", permit),
         pub[p].pc \notin {"idle", "done"},
         permit = "none" <=> pub[p].permit = "none",
         permit = "completed" => pub[p].evidence = "eligible"
  PROVE  Promise!Return(p)
  <1>1. Calls' = [Calls EXCEPT ![p] = View(n)]
    BY CallsMove, Zenon DEF Moves
  <1>2. Calls[p] = View(pub[p])
    BY CallsAre, Zenon
  <1>3. /\ Calls[p].pc = "begun" /\ Calls[p].evidence = pub[p].evidence
        /\ Calls[p].permit = "none" <=> pub[p].permit = "none"
    BY <1>2 DEF View
  <1>4. View(n) = [pc |-> "done", evidence |-> Calls[p].evidence, permit |-> permit]
    BY <1>3, Zenon DEF View, Moves
  <1>5. Calls' = [Calls EXCEPT ![p] =
                    [pc |-> "done", evidence |-> Calls[p].evidence, permit |-> permit]]
    BY <1>1, <1>4, Zenon
  <1>6. (permit = "none") = (Calls[p].permit = "none")
    BY <1>3, Zenon
  <1> QED
    BY <1>3, <1>5, <1>6, Zenon DEF Promise!Return

LEMMA CallBegins ==
  ASSUME IngestorInv, NEW p \in Publishers, NEW k \in Keys, NEW e \in Evidence,
         NEW permit \in {"none", "held"}, Begin(p, k, e, permit)
  PROVE  Promise!Publish(p, e, permit)
  <1>1. PICK n : n = [pc |-> "begun", key |-> k, evidence |-> e, read |-> 0, permit |-> permit]
    BY Zenon
  <1>2. n \in Publication /\ View(n) = [pc |-> "begun", evidence |-> e, permit |-> permit]
    BY <1>1, Zenon DEF Publication, View
  <1>3. pub[p].pc = "idle" /\ pub' = [pub EXCEPT ![p] = n]
    BY <1>1, Zenon DEF Begin
  <1>4. Calls' = [Calls EXCEPT ![p] = View(n)]
    BY <1>2, <1>3, CallsMove, Zenon DEF Becomes
  <1>5. Calls[p] = View(pub[p])
    BY CallsAre, Zenon
  <1>6. Calls[p].pc = "idle"
    BY <1>3, <1>5 DEF View
  <1> QED
    BY <1>2, <1>4, <1>6, Zenon DEF Promise!Publish
(* PublishSettledObservationGuarded implements Publications for every number *)
(* of publishers, keys and table entries: whatever is refused, dropped as a  *)
(* replay or aborted, the call settles its permit once, completes it only    *)
(* with eligible evidence, and returns with none held.                       *)
THEOREM KeepsPromiseTheorem == IngestorSpec => KeepsPromise
  <1>1. IngestorInit => Promise!PubInit
    BY DEF IngestorInit, Promise!PubInit, Promise!NoCall, Calls, NoPublication
  <1>2. IngestorInv /\ [IngestorNext]_ingestorVars => [Promise!PubNext]_Calls
    <2> SUFFICES ASSUME IngestorInv, [IngestorNext]_ingestorVars
                 PROVE  Promise!PubNext \/ UNCHANGED Calls
      BY Zenon
    <2>1. CASE UNCHANGED pub
      BY <2>1, Zenon DEF Calls
    <2>2. ASSUME NEW p \in Publishers, NEW k \in Keys, NEW e \in Evidence,
                 NEW permit \in {"none", "held"}, Begin(p, k, e, permit)
          PROVE  Promise!PubNext
      BY <2>2, CallBegins, Zenon DEF Promise!PubNext, Evidence
    <2>3. ASSUME NEW p \in Publishers, Refuse(p) \/ ReduceFails(p) \/ Abort(p)
          PROVE  UNCHANGED Calls
      <3>1. PICK pc \in {"settling", "aborting"} : Become(p, pc)
        BY <2>3, Zenon DEF Refuse, ReduceFails, Abort
      <3>2. pub[p].pc \notin {"idle", "done"}
        BY <2>3, Zenon DEF Refuse, ReduceFails, Abort
      <3>3. pc \in Pcs /\ pc \notin {"idle", "done"}
        BY PcsNamed, Zenon
      <3>4. PICK n : Moves(p, n, pc, pub[p].permit)
        BY <3>1, <3>3, BecomeFacts, Zenon
      <3> QED
        BY <3>2, <3>3, <3>4, InsideCall, Zenon
    <2>4. ASSUME NEW p \in Publishers, ReadClock(p) PROVE UNCHANGED Calls
      <3>1. pub[p].pc = "begun"
        BY <2>4, Zenon DEF ReadClock
      <3>2. PICK n : Moves(p, n, "clocked", pub[p].permit)
        BY <2>4, ReadFacts, Zenon DEF Moves
      <3> QED
        BY <3>1, <3>2, InsideCall, SMTT(60)
    <2>5. ASSUME NEW p \in Publishers, ReserveMapped(p) PROVE UNCHANGED Calls
      <3>1. pub[p].pc = "clocked" /\ \E pc \in {"settling", "reserved"} : Become(p, pc)
        BY <2>5, ReserveFacts, Zenon
      <3>2. PICK pc \in {"settling", "reserved"} : Become(p, pc)
        BY <3>1, Zenon
      <3>3. pc \in Pcs /\ pc \notin {"idle", "done"}
        BY PcsNamed, Zenon
      <3>4. PICK n : Moves(p, n, pc, pub[p].permit)
        BY <3>2, <3>3, BecomeFacts, Zenon
      <3>5. pub[p].pc \notin {"idle", "done"}
        BY <3>1, Zenon
      <3> QED
        BY <3>3, <3>4, <3>5, InsideCall, Zenon
    <2>6. ASSUME NEW p \in Publishers, Reduce(p) PROVE UNCHANGED Calls
      <3>1. /\ pub[p].pc = "reserved"
            /\ pub' = [pub EXCEPT ![p].pc = "reduced", ![p].permit = Settled(p)]
        BY <2>6, Zenon DEF Reduce
      <3>2. PICK n : Moves(p, n, "reduced", Settled(p))
        BY <3>1, SettledPermit, SettledFacts, PcsNamed, Zenon
      <3> QED
        BY <3>1, <3>2, SettledPermit, InsideCall, SMTT(60)
    <2>7. ASSUME NEW p \in Publishers, Commit(p) PROVE Promise!PubNext
      <3>1. pub[p].pc = "reduced" /\ Become(p, "done")
        BY <2>7, CommitFacts, Zenon
      <3>2. PICK n : Moves(p, n, "done", pub[p].permit)
        BY <3>1, BecomeFacts, PcsNamed, Zenon
      <3>3. /\ pub[p].permit \in {"none", "completed", "released"}
            /\ pub[p].permit = "completed" => pub[p].evidence = "eligible"
        BY <3>1, SoundNow, Zenon DEF Sound, Publication
      <3>4. pub[p].pc \notin {"idle", "done"}
        BY <3>1, Zenon
      <3>5. Promise!Return(p)
        BY <3>2, <3>3, <3>4, CallReturns, ZenonT(60)
      <3> QED
        BY <3>5, Zenon DEF Promise!PubNext
    <2>8. ASSUME NEW p \in Publishers, Settle(p) PROVE Promise!PubNext
      <3>1. PICK n : Moves(p, n, "done", Freed(p))
        BY <2>8, SettleFacts, Zenon
      <3>2. pub[p].pc \notin {"idle", "done"}
        BY <2>8, Zenon DEF Settle
      <3>3. Promise!Return(p)
        BY <3>1, <3>2, FreedPermit, CallReturns, Zenon
      <3> QED
        BY <3>3, Zenon DEF Promise!PubNext
    <2> QED
      BY <2>1, <2>2, <2>3, <2>4, <2>5, <2>6, <2>7, <2>8, ZenonT(60)
         DEF IngestorNext, PublishStep, Tick, ingestorVars
  <1>3. IngestorSpec => Promise!PubSpec
    BY <1>1, <1>2, IngestorInvariant, PTL DEF IngestorSpec, Promise!PubSpec
  <1> QED
    BY <1>3, Zenon DEF KeepsPromise
=============================================================================
