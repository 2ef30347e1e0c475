------------------------ MODULE RuntimeManagerProofs ------------------------
(***************************************************************************)
(* Proofs about RuntimeManager, for any number of pools, attempts and      *)
(* nodes, any bound on retired lineages and any state file: the types, and *)
(* the two properties of stable node identities.                           *)
(***************************************************************************)
EXTENDS RuntimeManager, FiniteSetTheorems, SequenceTheorems, TLAPS

(* An entry of the queue of retired lineages names the revision that retired *)
(* its node; revisions start at 1.                                           *)
QueuedItem == [node : Nodes, revision : Nat \ {0}]

(* Of an identity, committed or prepared: a present node has a slot; and a   *)
(* retired handle <<node, slot, version>> has a slot that was given out, is  *)
(* older than the handle its node has in that slot, or is that handle and    *)
(* the node is absent.                                                       *)
DeadBehind(s) ==
    \A x \in s.dead :
        /\ x[2] \in 1..s.nextSlot
        /\ s.handle[x[1]].slot = x[2] =>
               \/ x[3] < s.handle[x[1]].version
               \/ x[3] = s.handle[x[1]].version /\ ~s.present[x[1]]

GoodIdentity(s) ==
    /\ s \in Identity
    /\ SlotsDistinct(s)
    /\ \A n \in Nodes : s.present[n] => s.handle[n].slot # 0
    /\ s.retired \in Seq(QueuedItem)
    /\ DeadBehind(s)

GoodTxn(t) ==
    /\ t \in Prepared
    /\ GoodIdentity(t.next)
    /\ t.base = None \/ GoodIdentity(t.base)
    /\ ~t.newEpoch => t.prior \in Epoch

(* Where the publication or the rebuild of a pool may be in each phase, and  *)
(* when it has a transaction.                                                *)
Holding == {"publish", "check", "persist", "published", "revise", "repersist"}

PoolControl(r) ==
    /\ r.phase \in {"none", "zero"} => r.pc = "idle"
    /\ r.phase = "none" => r.retire = "no"
    /\ r.pc \in {"publish", "check", "persist", "published"} => r.phase \in {"publishing", "retired"}
    /\ r.pc \in {"rebuild", "revise", "repersist"} => r.phase \in {"active", "retired"}
    /\ r.txn = None \/ GoodTxn(r.txn)
    /\ r.pc \in Holding => GoodTxn(r.txn)
    /\ r.phase = "prepared" /\ r.pc = "idle" => GoodTxn(r.txn)

EpochsTyped == DOMAIN epochs \subseteq Nat /\ \A e \in DOMAIN epochs : epochs[e] \in Epoch

(* The pools that are registered with the manager. *)
Joined(r) == r.phase # "none" /\ r.retire # "closed"
Registered == {p \in Pools : Joined(pool[p])}

ManagerInv ==
    /\ users = Cardinality(Registered)
    /\ identity = None \/ GoodIdentity(identity)
    /\ EpochsTyped
    /\ pool \in [Pools -> PoolState]
    /\ \A p \in Pools : PoolControl(pool[p])
    /\ dial \in [Dials -> DialState]

-----------------------------------------------------------------------------
(* What preparePublish and restoreStableIdentityState make. *)

LEMMA NoHandleFields ==
    NoHandle \in Handle /\ NoHandle.slot = 0 /\ NoHandle.version = 0 /\ NoHandle.born = 0
  BY Zenon DEF NoHandle, Handle

LEMMA QueuedAreRetired == Seq(QueuedItem) \subseteq Seq(RetiredItem)
  <1>1. QueuedItem \subseteq RetiredItem
      BY Zenon DEF QueuedItem, RetiredItem
  <1> QED BY <1>1, SeqMonotonic, Zenon

LEMMA NewIdentityGood ==
    ASSUME NEW ref \in Pools \X Nat
    PROVE  GoodIdentity(NewIdentity(ref)) /\ NewIdentity(ref).ref = ref
  <1>1. PICK s : s = NewIdentity(ref)
      BY Zenon
  <1>2. /\ s.ref = ref /\ s.nextEpoch = 0 /\ s.nextRevision = 0 /\ s.nextSlot = 0
        /\ s.currentEpoch = 0 /\ s.handle = [n \in Nodes |-> NoHandle]
        /\ s.present = [n \in Nodes |-> FALSE] /\ s.retired = <<>>
        /\ s.queued = [n \in Nodes |-> 0] /\ s.dead = {}
      BY <1>1, Zenon DEF NewIdentity
  <1>3. s \in Identity
      BY <1>1, NoHandleFields DEF NewIdentity, Identity
  <1>4. SlotsDistinct(s) /\ DeadBehind(s) /\ \A n \in Nodes : ~s.present[n]
      BY <1>2, NoHandleFields DEF SlotsDistinct, DeadBehind
  <1>5. s.retired \in Seq(QueuedItem)
      BY <1>2
  <1> QED BY <1>1, <1>2, <1>3, <1>4, <1>5, Zenon DEF GoodIdentity

LEMMA RestoredGood ==
    ASSUME NEW ref \in Pools \X Nat, NEW r \in Persisted \ {None}, Restorable(r),
           NEW order \in AbsentOrders(r)
    PROVE  GoodIdentity(Restored(r, ref, order))
  <1>1. PICK s : s = Restored(r, ref, order)
      BY Zenon
  <1>2. /\ s.ref = ref /\ s.nextEpoch = r.nextEpoch /\ s.nextRevision = r.nextRevision
        /\ s.nextSlot = r.nextSlot /\ s.currentEpoch = r.nextEpoch
        /\ s.handle = r.handle /\ s.present = r.present
        /\ s.retired = [i \in DOMAIN order |-> [node |-> order[i], revision |-> r.nextRevision]]
        /\ s.queued = [n \in Nodes |-> IF r.handle[n].slot # 0 /\ ~r.present[n]
                                       THEN r.nextRevision ELSE 0]
        /\ s.dead = {}
      BY <1>1, Zenon DEF Restored
  <1>3. /\ r.nextEpoch \in Nat /\ r.nextRevision \in Nat \ {0} /\ r.nextSlot \in Nat
        /\ r.handle \in [Nodes -> Handle] /\ r.present \in [Nodes -> BOOLEAN]
        /\ \A n \in Nodes : r.present[n] => r.handle[n].slot # 0
      BY PersistedConstants, Zenon DEF PersistedIdentity, Restorable
  <1>4. s.retired \in Seq(QueuedItem)
    <2>1. PICK k \in Nat : order \in [1..k -> Nodes]
      <3>1. IsFiniteSet({n \in Nodes : r.handle[n].slot # 0 /\ ~r.present[n]})
          BY ManagerConstants, FS_Subset, Zenon
      <3>2. Cardinality({n \in Nodes : r.handle[n].slot # 0 /\ ~r.present[n]}) \in Nat
          BY <3>1, FS_CardinalityType, Zenon
      <3> QED BY <3>2, Zenon DEF AbsentOrders
    <2>2. s.retired \in [1..k -> QueuedItem]
        BY <2>1, <1>2, <1>3, SMTT(60) DEF QueuedItem
    <2> QED BY <2>2
  <1>5. SlotsDistinct(s)
    <2>1. \A n \in Nodes : r.handle[n].slot \in Nat
        BY <1>3, Zenon DEF Handle
    <2>2. \A m, n \in Nodes : r.handle[n].slot # 0 /\ r.handle[m].slot # 0 =>
              /\ r.handle[n].slot <= r.nextSlot
              /\ r.handle[m].slot = r.handle[n].slot => m = n
        BY Zenon DEF Restorable
    <2> QED BY <1>2, <1>3, <2>1, <2>2, SMTT(60) DEF SlotsDistinct
  <1>6. s \in Identity
    <2>1. s.retired \in Seq(RetiredItem)
        BY <1>4, QueuedAreRetired, ZenonT(60)
    <2>2. s.queued \in [Nodes -> Nat] /\ s.dead \in SUBSET (Nodes \X Nat \X Nat)
        BY <1>2, <1>3, SMTT(60)
    <2> QED BY <1>1, <1>2, <1>3, <2>1, <2>2, ZenonT(60) DEF Restored, Identity
  <1>7. DeadBehind(s) /\ \A n \in Nodes : s.present[n] => s.handle[n].slot # 0
      BY <1>2, <1>3, SMTT(60) DEF DeadBehind
  <1> QED BY <1>1, <1>4, <1>5, <1>6, <1>7, Zenon DEF GoodIdentity

(* The queue of retired lineages holds nodes with the revision that retired  *)
(* them, so that it never evicts a node of the snapshot.                     *)
LEMMA QueueGood ==
    ASSUME NEW s, GoodIdentity(s), NEW present \in SUBSET Nodes, NEW order \in GoneOrders(s, present)
    PROVE  /\ Queue(s, present, order) \in Seq(QueuedItem)
           /\ Evicted(Queue(s, present, order), Queued(s, present)) \subseteq Nodes \ present
           /\ \A m \in Nat : SubSeq(Queue(s, present, order), m + 1, Len(Queue(s, present, order)))
                                \in Seq(QueuedItem)
  <1>0. s.nextRevision \in Nat /\ s.retired \in Seq(QueuedItem)
      BY Zenon DEF GoodIdentity, Identity
  <1>1. PICK k \in Nat : order \in [1..k -> Nodes]
    <2>1. IsFiniteSet(Gone(s, present)) /\ Gone(s, present) \subseteq Nodes
        BY ManagerConstants, FS_Subset, Zenon DEF Gone
    <2>2. Cardinality(Gone(s, present)) \in Nat
        BY <2>1, FS_CardinalityType, Zenon
    <2>3. order \in [1..Cardinality(Gone(s, present)) -> Gone(s, present)]
        BY Zenon DEF GoneOrders
    <2>4. order \in [1..Cardinality(Gone(s, present)) -> Nodes]
        BY <2>1, <2>3, Zenon
    <2> QED BY <2>2, <2>4, Zenon
  <1>2. PICK tail : tail = [i \in DOMAIN order |-> [node |-> order[i], revision |-> s.nextRevision + 1]]
      BY Zenon
  <1>3. tail \in [1..k -> QueuedItem]
      BY <1>0, <1>1, <1>2 DEF QueuedItem
  <1>4. tail \in Seq(QueuedItem)
      BY <1>1, <1>3, SMTT(60)
  <1>5. PICK q : q = Queue(s, present, order)
      BY Zenon
  <1>6. q \in Seq(QueuedItem)
      BY <1>0, <1>2, <1>4, <1>5, ConcatProperties, Zenon DEF Queue
  <1>7. Len(q) \in Nat /\ \A i \in 1..Len(q) : q[i] \in QueuedItem
      BY <1>6, LenProperties, ElementOfSeq, Zenon
  <1>8. Overflow(q) \in Nat /\ Overflow(q) <= Len(q)
      BY <1>7, ManagerConstants, SMTT(60) DEF Overflow
  <1>9. ASSUME NEW n \in Evicted(q, Queued(s, present)) PROVE n \in Nodes \ present
    <2>1. PICK i \in 1..Overflow(q) : n = q[i].node /\ Queued(s, present)[n] = q[i].revision
        BY <1>9, Zenon DEF Evicted
    <2>2. i \in 1..Len(q)
        BY <2>1, <1>7, <1>8
    <2>3. n \in Nodes /\ q[i].revision # 0
        BY <2>1, <2>2, <1>7, Zenon DEF QueuedItem
    <2> QED BY <2>1, <2>3, Zenon DEF Queued
  <1>10. ASSUME NEW m \in Nat PROVE SubSeq(q, m + 1, Len(q)) \in Seq(QueuedItem)
    <2>1. m + 1 \in Int /\ Len(q) \in Int /\ \A i \in (m + 1)..Len(q) : q[i] \in QueuedItem
        BY <1>7
    <2> QED BY <2>1, SubSeqProperties, Zenon
  <1> QED BY <1>5, <1>6, <1>9, <1>10, Zenon

(* A handle after the publication, by what happened to its node. *)
LEMMA NextHandleFields ==
    ASSUME NEW s, GoodIdentity(s), NEW present \in SUBSET Nodes, NEW stable \in SUBSET present,
           NEW slots \in SlotOrders(s, present), NEW n \in present,
           NEW h, h = NextHandle(s, present, stable, slots, n)
    PROVE  /\ h \in Handle
           /\ n \in Fresh(s, present) => h.slot = slots[n] /\ h.version = 1
           /\ n \in Changed(s, present, stable) =>
                  h.slot = s.handle[n].slot /\ h.version = s.handle[n].version + 1
           /\ n \notin Fresh(s, present) /\ n \notin Changed(s, present, stable) =>
                  h = s.handle[n]
           /\ n \in Fresh(s, present) => slots[n] \in (s.nextSlot + 1)..NextSlot(s, present)
  <1>1. /\ s.handle \in [Nodes -> Handle] /\ s.handle[n] \in Handle /\ s.nextRevision \in Nat
        /\ s.nextSlot \in Nat
      BY Zenon DEF GoodIdentity, Identity
  <1>2. Cardinality(Fresh(s, present)) \in Nat
    <2>1. IsFiniteSet(Fresh(s, present))
        BY ManagerConstants, FS_Subset, Zenon DEF Fresh
    <2> QED BY <2>1, FS_CardinalityType, Zenon
  <1>3. n \in Fresh(s, present) => slots[n] \in (s.nextSlot + 1)..NextSlot(s, present)
      BY Zenon DEF SlotOrders, NextSlot
  <1>4. CASE n \in Fresh(s, present)
    <2>1. h = [slot |-> slots[n], version |-> 1, born |-> s.nextRevision + 1]
        BY <1>4, Zenon DEF NextHandle
    <2>2. slots[n] \in Nat
        BY <1>1, <1>2, <1>3, <1>4, SMTT(60) DEF NextSlot
    <2>3. n \notin Changed(s, present, stable)
        BY <1>4, Zenon DEF Changed
    <2> QED BY <2>1, <2>2, <2>3, <1>1, <1>3, <1>4, SMTT(60) DEF Handle
  <1>5. CASE n \notin Fresh(s, present) /\ n \in Changed(s, present, stable)
    <2>1. PICK old : old = s.handle[n]
        BY Zenon
    <2>2. h = [old EXCEPT !.version = old.version + 1, !.born = s.nextRevision + 1]
        BY <2>1, <1>5, Zenon DEF NextHandle
    <2>3. old \in [slot : Nat, version : Nat, born : Nat]
        BY <2>1, <1>1, Zenon DEF Handle
    <2>4. old.version + 1 \in Nat /\ s.nextRevision + 1 \in Nat
        BY <2>3, <1>1
    <2>5. h \in Handle /\ h.slot = old.slot /\ h.version = old.version + 1
        BY <2>2, <2>3, <2>4, Zenon DEF Handle
    <2> QED BY <2>1, <2>5, <1>5, Zenon
  <1>6. CASE n \notin Fresh(s, present) /\ n \notin Changed(s, present, stable)
      BY <1>1, <1>6, Zenon DEF NextHandle
  <1> QED BY <1>4, <1>5, <1>6, Zenon

(* preparePublish keeps identities good. *)
LEMMA PublishGood ==
    ASSUME NEW s, GoodIdentity(s), NEW ref \in Pools \X Nat, NEW present \in SUBSET Nodes,
           NEW stable \in SUBSET present, NEW slots \in SlotOrders(s, present),
           NEW order \in GoneOrders(s, present), NEW newEpoch \in BOOLEAN
    PROVE  GoodIdentity(PreparePublish(s, ref, present, stable, slots, order, newEpoch))
  <1>1. PICK q : q = Queue(s, present, order)
      BY Zenon
  <1>2. PICK out : out = Evicted(q, Queued(s, present))
      BY Zenon
  <1>3. PICK t : t = PreparePublish(s, ref, present, stable, slots, order, newEpoch)
      BY Zenon
  <1>4. /\ t.ref = ref
        /\ t.nextEpoch = IF newEpoch THEN s.nextEpoch + 1 ELSE s.nextEpoch
        /\ t.nextRevision = s.nextRevision + 1
        /\ t.nextSlot = NextSlot(s, present)
        /\ t.currentEpoch = IF newEpoch THEN s.nextEpoch + 1 ELSE s.currentEpoch
        /\ t.handle = [n \in Nodes |-> IF n \in out THEN NoHandle
                                       ELSE IF n \in present
                                       THEN NextHandle(s, present, stable, slots, n)
                                       ELSE s.handle[n]]
        /\ t.present = [n \in Nodes |-> n \in present]
        /\ t.retired = SubSeq(q, Overflow(q) + 1, Len(q))
        /\ t.queued = [n \in Nodes |-> IF n \in out THEN 0 ELSE Queued(s, present)[n]]
        /\ t.dead = s.dead \cup RetiredHandles(s, present, stable)
        /\ t = [ref |-> t.ref, nextEpoch |-> t.nextEpoch, nextRevision |-> t.nextRevision,
                nextSlot |-> t.nextSlot, currentEpoch |-> t.currentEpoch,
                handle |-> t.handle, present |-> t.present, retired |-> t.retired,
                queued |-> t.queued, dead |-> t.dead]
      BY <1>1, <1>2, <1>3, Zenon DEF PreparePublish
  <1>5. /\ s.nextEpoch \in Nat /\ s.nextRevision \in Nat /\ s.nextSlot \in Nat
        /\ s.currentEpoch \in Nat /\ s.handle \in [Nodes -> Handle]
        /\ s.present \in [Nodes -> BOOLEAN] /\ s.queued \in [Nodes -> Nat]
        /\ s.dead \in SUBSET (Nodes \X Nat \X Nat)
      BY Zenon DEF GoodIdentity, Identity
  <1>6. /\ q \in Seq(QueuedItem) /\ Overflow(q) \in Nat /\ out \subseteq Nodes \ present
        /\ t.retired \in Seq(QueuedItem)
    <2>1. q \in Seq(QueuedItem) /\ out \subseteq Nodes \ present
        BY <1>1, <1>2, QueueGood, Zenon
    <2>2. Len(q) \in Nat
        BY <2>1, LenProperties, Zenon
    <2>3. Overflow(q) \in Nat
        BY <2>2, ManagerConstants, SMTT(60) DEF Overflow
    <2>4. \A m \in Nat : SubSeq(q, m + 1, Len(q)) \in Seq(QueuedItem)
        BY <1>1, QueueGood, Zenon
    <2>5. t.retired \in Seq(QueuedItem)
        BY <1>4, <2>3, <2>4, ZenonT(60)
    <2> QED BY <2>1, <2>3, <2>5, Zenon
  <1>7. t.nextSlot \in Nat /\ s.nextSlot <= t.nextSlot
    <2>1. IsFiniteSet(Fresh(s, present))
        BY ManagerConstants, FS_Subset, Zenon DEF Fresh
    <2>2. Cardinality(Fresh(s, present)) \in Nat
        BY <2>1, FS_CardinalityType, Zenon
    <2> QED BY <2>2, <1>4, <1>5, SMTT(60) DEF NextSlot
  <1>8. \A n \in Nodes :
           /\ t.handle[n] \in Handle /\ t.present[n] = (n \in present)
           /\ n \notin present => t.handle[n].slot = 0 \/ t.handle[n] = s.handle[n]
           /\ n \in Fresh(s, present) =>
                 /\ t.handle[n].slot = slots[n]
                 /\ slots[n] \in (s.nextSlot + 1)..t.nextSlot
           /\ n \in Changed(s, present, stable) =>
                 /\ t.handle[n].slot = s.handle[n].slot
                 /\ t.handle[n].version = s.handle[n].version + 1
           /\ n \in present /\ n \notin Fresh(s, present) /\ n \notin Changed(s, present, stable) =>
                 t.handle[n] = s.handle[n]
    <2> SUFFICES ASSUME NEW n \in Nodes
                 PROVE  /\ t.handle[n] \in Handle /\ t.present[n] = (n \in present)
                        /\ n \notin present => t.handle[n].slot = 0 \/ t.handle[n] = s.handle[n]
                        /\ n \in Fresh(s, present) =>
                              /\ t.handle[n].slot = slots[n]
                              /\ slots[n] \in (s.nextSlot + 1)..t.nextSlot
                        /\ n \in Changed(s, present, stable) =>
                              /\ t.handle[n].slot = s.handle[n].slot
                              /\ t.handle[n].version = s.handle[n].version + 1
                        /\ n \in present /\ n \notin Fresh(s, present)
                              /\ n \notin Changed(s, present, stable) => t.handle[n] = s.handle[n]
        BY Zenon
    <2>1. t.present[n] = (n \in present)
        BY <1>4, Zenon
    <2>2. CASE n \notin present
      <3>1. n \notin Fresh(s, present) /\ n \notin Changed(s, present, stable)
          BY <2>2, Zenon DEF Fresh, Changed
      <3>2. t.handle[n] = NoHandle \/ t.handle[n] = s.handle[n]
          BY <2>2, <1>4, Zenon
      <3> QED BY <3>1, <3>2, <2>1, <2>2, <1>5, NoHandleFields, ZenonT(60)
    <2>3. CASE n \in present
      <3>1. PICK h : h = NextHandle(s, present, stable, slots, n)
          BY Zenon
      <3>2. t.handle[n] = h
          BY <2>3, <3>1, <1>4, <1>6, ZenonT(60)
      <3>3. /\ h \in Handle
            /\ n \in Fresh(s, present) => h.slot = slots[n] /\ h.version = 1
            /\ n \in Changed(s, present, stable) =>
                   h.slot = s.handle[n].slot /\ h.version = s.handle[n].version + 1
            /\ n \notin Fresh(s, present) /\ n \notin Changed(s, present, stable) =>
                   h = s.handle[n]
            /\ n \in Fresh(s, present) => slots[n] \in (s.nextSlot + 1)..NextSlot(s, present)
          BY <3>1, <2>3, NextHandleFields, SMT
      <3> QED BY <3>2, <3>3, <2>1, <2>3, <1>4, Zenon
    <2> QED BY <2>2, <2>3, Zenon
  <1>9. \A n \in Nodes : t.handle[n].slot \in Nat /\ t.handle[n].version \in Nat
                         /\ s.handle[n].slot \in Nat /\ s.handle[n].version \in Nat
      BY <1>5, <1>8, Zenon DEF Handle
  <1>10. \A n \in Nodes : n \notin Fresh(s, present) =>
            t.handle[n].slot = 0 \/ t.handle[n].slot = s.handle[n].slot
      BY <1>8, Zenon
  <1>11. SlotsDistinct(t)
    <2>1. \A m, n \in Nodes :
            /\ s.handle[n].slot <= s.nextSlot
            /\ (s.handle[m].slot # 0 /\ s.handle[m].slot = s.handle[n].slot) => m = n
        BY Zenon DEF GoodIdentity, SlotsDistinct
    <2>2. \A m, n \in Fresh(s, present) : slots[m] = slots[n] => m = n
        BY Zenon DEF SlotOrders
    <2>3. \A n \in Nodes : t.handle[n].slot <= t.nextSlot
        BY <2>1, <1>5, <1>7, <1>8, <1>9, <1>10, SMTT(60)
    <2>4. ASSUME NEW m \in Nodes, NEW n \in Nodes, t.handle[m].slot # 0,
                 t.handle[m].slot = t.handle[n].slot
          PROVE  m = n
      <3>1. CASE m \in Fresh(s, present) /\ n \in Fresh(s, present)
          BY <3>1, <2>2, <2>4, <1>8, SMTT(60)
      <3>2. CASE m \in Fresh(s, present) /\ n \notin Fresh(s, present)
          BY <3>2, <2>1, <2>4, <1>5, <1>8, <1>9, <1>10, SMTT(60)
      <3>3. CASE m \notin Fresh(s, present) /\ n \in Fresh(s, present)
          BY <3>3, <2>1, <2>4, <1>5, <1>8, <1>9, <1>10, SMTT(60)
      <3>4. CASE m \notin Fresh(s, present) /\ n \notin Fresh(s, present)
          BY <3>4, <2>1, <2>4, <1>10, ZenonT(60)
      <3> QED BY <3>1, <3>2, <3>3, <3>4, ZenonT(60)
    <2> QED BY <2>3, <2>4, Zenon DEF SlotsDistinct
  <1>12. \A n \in Nodes : t.present[n] => t.handle[n].slot # 0
    <2>1. \A n \in present : n \notin Fresh(s, present) => s.handle[n].slot # 0
        BY Zenon DEF Fresh
    <2>2. \A n \in Fresh(s, present) : n \in Nodes /\ t.handle[n].slot # 0
      <3>1. \A n \in Fresh(s, present) :
               n \in Nodes /\ t.handle[n].slot \in (s.nextSlot + 1)..t.nextSlot
          BY <1>8, ZenonT(60) DEF Fresh
      <3> QED BY <3>1, <1>5, <1>7
    <2> QED BY <2>1, <2>2, <1>8, ZenonT(60)
  <1>13. \A x \in RetiredHandles(s, present, stable) :
            /\ x \in Nodes \X Nat \X Nat /\ x[2] \in 1..s.nextSlot
            /\ x[1] \in Gone(s, present) \cup Changed(s, present, stable)
            /\ x[2] = s.handle[x[1]].slot /\ x[3] = s.handle[x[1]].version
    <2> SUFFICES ASSUME NEW n \in Gone(s, present) \cup Changed(s, present, stable), NEW x,
                        x = <<n, s.handle[n].slot, s.handle[n].version>>
                 PROVE  /\ x \in Nodes \X Nat \X Nat /\ x[2] \in 1..s.nextSlot
                        /\ x[1] \in Gone(s, present) \cup Changed(s, present, stable)
                        /\ x[2] = s.handle[x[1]].slot /\ x[3] = s.handle[x[1]].version
        BY Zenon DEF RetiredHandles
    <2>1. n \in Nodes /\ s.handle[n].slot # 0
        BY Zenon DEF Gone, Changed, Fresh, GoodIdentity
    <2>2. s.handle[n].slot <= s.nextSlot
        BY <2>1, Zenon DEF GoodIdentity, SlotsDistinct
    <2> QED BY <2>1, <2>2, <1>5, <1>9, SMTT(60)
  <1>14. DeadBehind(t)
    <2> SUFFICES ASSUME NEW x \in t.dead
                 PROVE  /\ x[2] \in 1..t.nextSlot
                        /\ t.handle[x[1]].slot = x[2] =>
                              \/ x[3] < t.handle[x[1]].version
                              \/ x[3] = t.handle[x[1]].version /\ ~t.present[x[1]]
        BY Zenon DEF DeadBehind
    <2>1. x[1] \in Nodes /\ x[2] \in Nat /\ x[3] \in Nat /\ x[2] \in 1..s.nextSlot
        BY <1>4, <1>5, <1>13, ZenonT(60) DEF GoodIdentity, DeadBehind
    <2>2. x[2] \in 1..t.nextSlot /\ x[2] # 0 /\ x[2] <= s.nextSlot
        BY <2>1, <1>5, <1>7, SMTT(60)
    <2>3. CASE x[1] \in Fresh(s, present)
        BY <2>1, <2>2, <2>3, <1>5, <1>8, <1>9, SMTT(60)
    <2>4. x \in s.dead => (s.handle[x[1]].slot = x[2] =>
                              \/ x[3] < s.handle[x[1]].version
                              \/ x[3] = s.handle[x[1]].version /\ ~s.present[x[1]])
        BY Zenon DEF GoodIdentity, DeadBehind
    <2>5. CASE x[1] \in Changed(s, present, stable)
      <3>1. s.handle[x[1]].slot = x[2] => x[3] <= s.handle[x[1]].version
          BY <2>1, <2>4, <1>4, <1>9, <1>13, SMTT(60)
      <3> QED BY <3>1, <2>1, <2>2, <2>5, <1>8, <1>9, SMTT(60)
    <2>6. CASE /\ x[1] \in present /\ x[1] \notin Fresh(s, present)
               /\ x[1] \notin Changed(s, present, stable)
      <3>1. x \in s.dead /\ s.present[x[1]]
          BY <2>6, <1>4, <1>13, ZenonT(60) DEF Gone, Changed
      <3> QED BY <3>1, <2>1, <2>2, <2>4, <2>6, <1>8, ZenonT(60)
    <2>7. CASE x[1] \notin present
      <3>1. ~t.present[x[1]]
          BY <2>1, <2>7, <1>8, ZenonT(60)
      <3>2. s.handle[x[1]].slot = x[2] => x[3] <= s.handle[x[1]].version
          BY <2>1, <2>4, <1>4, <1>9, <1>13
      <3> QED BY <3>1, <3>2, <2>1, <2>2, <2>7, <1>8, <1>9, SMTT(60)
    <2> QED BY <2>3, <2>5, <2>6, <2>7, ZenonT(60)
  <1>15. t \in Identity
    <2>1. t.retired \in Seq(RetiredItem) /\ t.dead \in SUBSET (Nodes \X Nat \X Nat)
        BY <1>4, <1>5, <1>6, <1>13, QueuedAreRetired, ZenonT(60)
    <2>2. t.queued \in [Nodes -> Nat]
        BY <1>4, <1>5, SMTT(60) DEF Queued
    <2>3. t.handle \in [Nodes -> Handle] /\ t.present \in [Nodes -> BOOLEAN]
        BY <1>4, <1>8, SMTT(60)
    <2>4. t.nextEpoch \in Nat /\ t.nextRevision \in Nat /\ t.currentEpoch \in Nat
        BY <1>4, <1>5, SMTT(60)
    <2> QED BY <2>1, <2>2, <2>3, <2>4, <1>4, <1>7, ZenonT(60) DEF Identity
  <1> QED BY <1>3, <1>6, <1>11, <1>12, <1>14, <1>15, Zenon DEF GoodIdentity

-----------------------------------------------------------------------------
(* The transactions. *)

(* PrepareEpoch and PrepareRevision. *)
LEMMA PrepareGood ==
    ASSUME NEW p \in Pools, NEW s, GoodIdentity(s), pool[p].generation \in Nat,
           identity = None \/ GoodIdentity(identity),
           s = BaseIdentity(p),
           NEW present \in SUBSET Nodes, NEW stable \in SUBSET present,
           NEW slots \in SlotOrders(s, present), NEW order \in GoneOrders(s, present),
           NEW newEpoch \in BOOLEAN, NEW prior \in Epoch \cup {None},
           ~newEpoch => prior \in Epoch
    PROVE  GoodTxn(Prepare(p, present, stable, slots, order, newEpoch, prior))
  <1>1. PICK ref : ref = <<p, pool[p].generation + 1>>
      BY Zenon
  <1>2. ref \in Pools \X Nat
      BY <1>1
  <1>3. PICK next : next = PreparePublish(s, ref, present, stable, slots, order, newEpoch)
      BY Zenon
  <1>4. GoodIdentity(next)
      BY <1>2, <1>3, PublishGood, Zenon
  <1>5. PICK t : t = Prepare(p, present, stable, slots, order, newEpoch, prior)
      BY Zenon
  <1>6. PICK handles : handles = [n \in Nodes |-> IF n \in present THEN next.handle[n] ELSE NoHandle]
      BY Zenon
  <1>7. t = [base |-> identity, next |-> next, epoch |-> next.currentEpoch,
             revision |-> next.nextRevision, generation |-> pool[p].generation + 1,
             handles |-> handles, newEpoch |-> newEpoch, committed |-> FALSE, prior |-> prior]
      BY <1>1, <1>3, <1>5, <1>6, ZenonT(60) DEF Prepare, BaseIdentity
  <1>8. /\ next \in Identity /\ next.currentEpoch \in Nat /\ next.nextRevision \in Nat
        /\ next.handle \in [Nodes -> Handle]
      BY <1>4, Zenon DEF GoodIdentity, Identity
  <1>9. handles \in [Nodes -> Handle]
      BY <1>6, <1>8, NoHandleFields, Zenon
  <1>10. identity \in Identity \cup {None} /\ pool[p].generation + 1 \in Nat
      BY DEF GoodIdentity
  <1>11. t \in Prepared
      BY <1>7, <1>8, <1>9, <1>10, ZenonT(60) DEF Prepared
  <1>12. t.next = next /\ t.base = identity /\ t.newEpoch = newEpoch /\ t.prior = prior
      BY <1>7, Zenon
  <1> QED BY <1>4, <1>5, <1>11, <1>12, Zenon DEF GoodTxn

(* The fields of a transaction; marking it committed changes nothing else.   *)
LEMMA TxnFields ==
    ASSUME NEW t, GoodTxn(t)
    PROVE  /\ t.epoch \in Nat /\ t.revision \in Nat /\ t.generation \in Nat
           /\ t.handles \in [Nodes -> Handle] /\ t.newEpoch \in BOOLEAN
           /\ t.next.ref[1] \in Pools
           /\ GoodTxn([t EXCEPT !.committed = TRUE])
           /\ CatalogOf(t) \in Catalog
  <1>1. /\ t.epoch \in Nat /\ t.revision \in Nat /\ t.generation \in Nat
        /\ t.handles \in [Nodes -> Handle] /\ t.newEpoch \in BOOLEAN
      BY Zenon DEF GoodTxn, Prepared
  <1>2. t.next.ref[1] \in Pools
      BY Zenon DEF GoodTxn, GoodIdentity, Identity
  <1>3. PICK c : c = [t EXCEPT !.committed = TRUE]
      BY Zenon
  <1>4. /\ c \in Prepared /\ c.next = t.next /\ c.base = t.base /\ c.newEpoch = t.newEpoch
        /\ c.prior = t.prior
      BY <1>3, Zenon DEF GoodTxn, Prepared
  <1>5. GoodTxn(c)
      BY <1>4, Zenon DEF GoodTxn
  <1>6. CatalogOf(t) \in Catalog
      BY <1>1, Zenon DEF CatalogOf, Catalog
  <1> QED BY <1>1, <1>2, <1>3, <1>5, <1>6, Zenon

(* Commit and Rollback write good identities and typed epochs. *)
LEMMA CommitGood ==
    ASSUME NEW t, GoodTxn(t), EpochsTyped, Committable(t),
           identity' = t.next, epochs' = CommittedEpochs(t)
    PROVE  GoodIdentity(identity') /\ EpochsTyped'
  <1>1. GoodIdentity(identity')
      BY Zenon DEF GoodTxn
  <1>2. PICK fresh : fresh = [life |-> "active", revision |-> t.revision, generation |-> t.generation,
                              refs |-> 0, handles |-> t.handles, owner |-> t.next.ref[1]]
      BY Zenon
  <1>3. fresh \in Epoch
    <2>1. /\ t.revision \in Nat /\ t.generation \in Nat /\ t.handles \in [Nodes -> Handle]
          /\ t.next.ref[1] \in Pools
        BY TxnFields, Zenon
    <2>2. 0 \in Int
        OBVIOUS
    <2> QED BY <1>2, <2>1, <2>2, Zenon DEF Epoch
  <1>4. \A x \in Epoch : [x EXCEPT !.revision = t.revision, !.generation = t.generation,
                                   !.handles = t.handles] \in Epoch
      BY TxnFields, Zenon DEF Epoch
  <1>5. epochs' = [e \in DOMAIN epochs \cup {t.epoch} |->
                     IF e # t.epoch THEN epochs[e]
                     ELSE IF t.newEpoch THEN fresh
                     ELSE [epochs[e] EXCEPT !.revision = t.revision, !.generation = t.generation,
                                            !.handles = t.handles]]
      BY <1>2, Zenon DEF CommittedEpochs
  <1>6. ~t.newEpoch => t.epoch \in DOMAIN epochs
      BY Zenon DEF Committable, Live
  <1>7. DOMAIN epochs' = DOMAIN epochs \cup {t.epoch} /\ t.epoch \in Nat
      BY <1>5, TxnFields, Zenon
  <1>8. \A e \in DOMAIN epochs \cup {t.epoch} : epochs'[e] \in Epoch
    <2> SUFFICES ASSUME NEW e \in DOMAIN epochs \cup {t.epoch} PROVE epochs'[e] \in Epoch
        BY Zenon
    <2>1. CASE e # t.epoch
        BY <2>1, <1>5, Zenon DEF EpochsTyped
    <2>2. CASE e = t.epoch /\ t.newEpoch
        BY <2>2, <1>3, <1>5, Zenon
    <2>3. CASE e = t.epoch /\ ~t.newEpoch
      <3>1. epochs[e] \in Epoch
          BY <2>3, <1>6, Zenon DEF EpochsTyped
      <3>2. epochs'[e] = [epochs[e] EXCEPT !.revision = t.revision, !.generation = t.generation,
                                           !.handles = t.handles]
          BY <2>3, <1>5, Zenon
      <3> QED BY <3>1, <3>2, <1>4, Zenon
    <2> QED BY <2>1, <2>2, <2>3, Zenon
  <1> QED BY <1>1, <1>7, <1>8, Zenon DEF EpochsTyped

LEMMA RollbackGood ==
    ASSUME NEW t, GoodTxn(t), EpochsTyped, identity = None \/ GoodIdentity(identity), Rollback(t)
    PROVE  (identity' = None \/ GoodIdentity(identity')) /\ EpochsTyped'
  <1>1. CASE identity = None \/ identity.ref # t.next.ref
      BY <1>1, Zenon DEF Rollback, EpochsTyped
  <1>2. CASE ~(identity = None \/ identity.ref # t.next.ref)
    <2>1. identity' = t.base
        BY <1>2, Zenon DEF Rollback
    <2>2. epochs' = IF t.base = None THEN NoEpochs
                    ELSE IF t.newEpoch THEN Without(epochs, t.epoch)
                    ELSE [epochs EXCEPT ![t.epoch] = t.prior]
        BY <1>2, Zenon DEF Rollback
    <2>3. CASE t.base = None
        BY <2>2, <2>3, <2>1, Zenon DEF NoEpochs, EpochsTyped
    <2>4. CASE t.base # None /\ t.newEpoch
        BY <2>1, <2>2, <2>4, Zenon DEF Without, EpochsTyped, GoodTxn
    <2>5. CASE t.base # None /\ ~t.newEpoch
        BY <2>1, <2>2, <2>5, Zenon DEF EpochsTyped, GoodTxn
    <2> QED BY <2>3, <2>4, <2>5, Zenon
  <1> QED BY <1>1, <1>2, Zenon

-----------------------------------------------------------------------------
(* The steps. *)

LEMMA ManagerInit == Init => ManagerInv
  <1> SUFFICES ASSUME Init PROVE ManagerInv
      BY Zenon
  <1>1. NoPool \in PoolState /\ PoolControl(NoPool) /\ ~Joined(NoPool)
    <2>1. /\ NoPool.phase = "none" /\ NoPool.pc = "idle" /\ NoPool.retire = "no"
          /\ NoPool.txn = None
        BY Zenon DEF NoPool
    <2>2. NoPool \in PoolState
        BY Zenon DEF NoPool, PoolState
    <2>3. PoolControl(NoPool) /\ ~Joined(NoPool)
        BY <2>1, Zenon DEF PoolControl, Joined, Holding
    <2> QED BY <2>2, <2>3, Zenon
  <1>2. NoDial \in DialState
      BY NoHandleFields, Zenon DEF NoDial, DialState
  <1>3. Registered = {} /\ Cardinality({}) = 0
      BY <1>1, FS_EmptySet, Zenon DEF Init, Registered
  <1>4. EpochsTyped
      BY Zenon DEF Init, NoEpochs, EpochsTyped
  <1> QED BY <1>1, <1>2, <1>3, <1>4, Zenon DEF Init, ManagerInv

(* A step of pool p that neither registers nor unregisters it. *)
LEMMA PoolFrame ==
    ASSUME ManagerInv, NEW p \in Pools, pool' \in [Pools -> PoolState],
           \A o \in Pools \ {p} : pool'[o] = pool[o],
           PoolControl(pool'[p]), Joined(pool'[p]) <=> Joined(pool[p]),
           identity' = None \/ GoodIdentity(identity'), EpochsTyped',
           UNCHANGED <<users, dial>>
    PROVE  ManagerInv'
  <1>1. \A o \in Pools : PoolControl(pool'[o])
      BY Zenon DEF ManagerInv
  <1>2. Registered' = Registered
      BY DEF Registered
  <1> QED BY <1>1, <1>2, Zenon DEF ManagerInv

(* A step that leaves the manager's tables alone. *)
LEMMA TablesKept ==
    ASSUME ManagerInv, UNCHANGED <<identity, epochs>>
    PROVE  (identity' = None \/ GoodIdentity(identity')) /\ EpochsTyped'
  BY Zenon DEF ManagerInv, EpochsTyped

LEMMA StartInv ==
    ASSUME ManagerInv, NEW p \in Pools, Start(p)
    PROVE  ManagerInv'
  <1>1. PICK present \in SUBSET Nodes : \E stable \in SUBSET present :
            \E slots \in SlotOrders(BaseIdentity(p), present) :
               \E order \in GoneOrders(BaseIdentity(p), present) :
                  pool' = [pool EXCEPT
                      ![p].phase = "prepared", ![p].generation = @ + 1,
                      ![p].txn = Prepare(p, present, stable, slots, order, TRUE, None)]
      BY Zenon DEF Start
  <1>2. PICK stable \in SUBSET present, slots \in SlotOrders(BaseIdentity(p), present),
             order \in GoneOrders(BaseIdentity(p), present) :
                  pool' = [pool EXCEPT
                      ![p].phase = "prepared", ![p].generation = @ + 1,
                      ![p].txn = Prepare(p, present, stable, slots, order, TRUE, None)]
      BY <1>1, Zenon
  <1>3. PICK t : t = Prepare(p, present, stable, slots, order, TRUE, None)
      BY Zenon
  <1>4. pool[p] \in PoolState /\ pool[p].generation \in Nat /\ pool[p].pc = "idle" /\ pool[p].phase = "zero"
      BY Zenon DEF ManagerInv, PoolState, PoolControl, Start
  <1>5. GoodIdentity(BaseIdentity(p))
    <2>1. <<p, pool[p].generation + 1>> \in Pools \X Nat
        BY <1>4
    <2> QED BY <2>1, NewIdentityGood, Zenon DEF BaseIdentity, ManagerInv
  <1>6. GoodTxn(t)
    <2>1. identity = None \/ GoodIdentity(identity)
        BY Zenon DEF ManagerInv
    <2>2. None \in Epoch \cup {None} /\ TRUE \in BOOLEAN
        BY Zenon
    <2> QED BY <1>3, <1>4, <1>5, <2>1, <2>2, PrepareGood, ZenonT(60)
  <1>7. t \in Prepared
      BY <1>6, Zenon DEF GoodTxn
  <1>8. pool' = [pool EXCEPT ![p].phase = "prepared", ![p].generation = @ + 1, ![p].txn = t]
      BY <1>2, <1>3, ZenonT(60)
  <1>9. /\ pool' \in [Pools -> PoolState] /\ \A o \in Pools \ {p} : pool'[o] = pool[o]
        /\ pool'[p].phase = "prepared" /\ pool'[p].pc = "idle" /\ pool'[p].txn = t
        /\ pool'[p].retire = pool[p].retire
      BY <1>4, <1>7, <1>8, SMTT(60) DEF ManagerInv, PoolState
  <1>10. PoolControl(pool'[p]) /\ (Joined(pool'[p]) <=> Joined(pool[p]))
      BY <1>4, <1>6, <1>9, ZenonT(60) DEF PoolControl, Holding, Joined
  <1>11. UNCHANGED <<users, identity, epochs, dial>>
      BY Zenon DEF Start
  <1> QED BY <1>9, <1>10, <1>11, TablesKept, PoolFrame, ZenonT(60)

LEMMA PrepareRevisionInv ==
    ASSUME ManagerInv, NEW p \in Pools, PrepareRevision(p)
    PROVE  ManagerInv'
  <1>1. PICK prior : prior = epochs[pool[p].epoch]
      BY Zenon
  <1>2. PICK present \in SUBSET Nodes : \E stable \in SUBSET present :
            \E slots \in SlotOrders(identity, present) : \E order \in GoneOrders(identity, present) :
                  pool' = [pool EXCEPT
                      ![p].pc = "revise", ![p].generation = @ + 1,
                      ![p].txn = Prepare(p, present, stable, slots, order, FALSE, prior)]
      BY <1>1, Zenon DEF PrepareRevision
  <1>3. PICK stable \in SUBSET present, slots \in SlotOrders(identity, present),
             order \in GoneOrders(identity, present) :
                  pool' = [pool EXCEPT
                      ![p].pc = "revise", ![p].generation = @ + 1,
                      ![p].txn = Prepare(p, present, stable, slots, order, FALSE, prior)]
      BY <1>2, Zenon
  <1>4. PICK t : t = Prepare(p, present, stable, slots, order, FALSE, prior)
      BY Zenon
  <1>5. /\ pool[p] \in PoolState /\ pool[p].generation \in Nat /\ pool[p].pc = "rebuild"
        /\ pool[p].phase \in {"active", "retired"}
      BY Zenon DEF ManagerInv, PoolState, PoolControl, PrepareRevision
  <1>6. prior \in Epoch /\ identity # None /\ GoodIdentity(identity) /\ identity = BaseIdentity(p)
      BY <1>1, Zenon DEF PrepareRevision, Revisable, Live, ManagerInv, EpochsTyped, BaseIdentity
  <1>7. GoodTxn(t)
    <2>1. prior \in Epoch \cup {None} /\ FALSE \in BOOLEAN
        BY <1>6, Zenon
    <2> QED BY <1>4, <1>5, <1>6, <2>1, PrepareGood, ZenonT(60)
  <1>8. t \in Prepared
      BY <1>7, Zenon DEF GoodTxn
  <1>9. pool' = [pool EXCEPT ![p].pc = "revise", ![p].generation = @ + 1, ![p].txn = t]
      BY <1>3, <1>4, ZenonT(60)
  <1>10. /\ pool' \in [Pools -> PoolState] /\ \A o \in Pools \ {p} : pool'[o] = pool[o]
         /\ pool'[p].phase = pool[p].phase /\ pool'[p].pc = "revise" /\ pool'[p].txn = t
         /\ pool'[p].retire = pool[p].retire
      BY <1>5, <1>8, <1>9, SMTT(60) DEF ManagerInv, PoolState
  <1>11. PoolControl(pool'[p]) /\ (Joined(pool'[p]) <=> Joined(pool[p]))
      BY <1>5, <1>7, <1>10, Zenon DEF PoolControl, Holding, Joined
  <1>12. UNCHANGED <<users, identity, epochs, dial>>
      BY Zenon DEF PrepareRevision
  <1> QED BY <1>10, <1>11, <1>12, TablesKept, PoolFrame, ZenonT(60)

(* OnRuntimeEpochPublish and rebuild: Commit, or the transaction is dropped. *)
LEMMA CommitInv ==
    ASSUME ManagerInv, NEW p \in Pools, PublishIdentity(p) \/ CommitRevision(p)
    PROVE  ManagerInv'
  <1>1. PICK t : t = pool[p].txn
      BY Zenon
  <1>2. /\ pool[p] \in PoolState /\ pool[p].pc \in {"publish", "revise"} /\ GoodTxn(t)
        /\ PoolControl(pool[p])
      BY <1>1, Zenon DEF ManagerInv, PoolControl, Holding, PublishIdentity, CommitRevision
  <1>3. t \in Prepared /\ t.epoch \in Nat
      BY <1>2, TxnFields, Zenon DEF GoodTxn
  <1>4. PICK c : c = [t EXCEPT !.committed = TRUE]
      BY Zenon
  <1>5. GoodTxn(c) /\ c \in Prepared
      BY <1>2, <1>4, TxnFields, Zenon DEF GoodTxn
  <1>6. UNCHANGED <<users, dial>>
      BY Zenon DEF PublishIdentity, CommitRevision
  <1>7. ASSUME Committable(t)
        PROVE  /\ GoodIdentity(identity') /\ EpochsTyped'
               /\ pool' \in [Pools -> PoolState] /\ \A o \in Pools \ {p} : pool'[o] = pool[o]
               /\ PoolControl(pool'[p]) /\ (Joined(pool'[p]) <=> Joined(pool[p]))
    <2>1. GoodIdentity(identity') /\ EpochsTyped'
      <3>1. identity' = t.next /\ epochs' = CommittedEpochs(t)
          BY <1>1, <1>7, Zenon DEF PublishIdentity, CommitRevision
      <3> QED BY <3>1, <1>2, <1>7, CommitGood, ZenonT(60) DEF ManagerInv
    <2>2. \/ pool[p].pc = "publish" /\ pool' = [pool EXCEPT ![p].txn.committed = TRUE, ![p].epoch = t.epoch,
                                                            ![p].pc = "check"]
          \/ pool[p].pc = "revise" /\ pool' = [pool EXCEPT ![p].txn.committed = TRUE, ![p].pc = "repersist"]
        BY <1>1, <1>7, Zenon DEF PublishIdentity, CommitRevision
    <2>3. /\ pool' \in [Pools -> PoolState] /\ \A o \in Pools \ {p} : pool'[o] = pool[o]
          /\ pool'[p].txn = c /\ pool'[p].phase = pool[p].phase /\ pool'[p].retire = pool[p].retire
          /\ \/ pool[p].pc = "publish" /\ pool'[p].pc = "check"
             \/ pool[p].pc = "revise" /\ pool'[p].pc = "repersist"
        BY <2>2, <1>1, <1>2, <1>3, <1>4, <1>5, SMTT(60) DEF ManagerInv, PoolState
    <2>4. PoolControl(pool'[p]) /\ (Joined(pool'[p]) <=> Joined(pool[p]))
        BY <2>3, <1>2, <1>5, Zenon DEF PoolControl, Holding, Joined
    <2> QED BY <2>1, <2>3, <2>4, Zenon
  <1>8. ASSUME ~Committable(t)
        PROVE  /\ UNCHANGED <<identity, epochs>>
               /\ pool' \in [Pools -> PoolState] /\ \A o \in Pools \ {p} : pool'[o] = pool[o]
               /\ PoolControl(pool'[p]) /\ (Joined(pool'[p]) <=> Joined(pool[p]))
    <2>1. \/ /\ pool[p].pc = "publish"
             /\ pool' = [pool EXCEPT ![p].txn = None, ![p].pc = "failed", ![p].phase = Unpublished(p)]
          \/ pool[p].pc = "revise" /\ pool' = [pool EXCEPT ![p].txn = None, ![p].pc = "idle"]
        BY <1>1, <1>8, Zenon DEF PublishIdentity, CommitRevision
    <2>2. /\ pool' \in [Pools -> PoolState] /\ \A o \in Pools \ {p} : pool'[o] = pool[o]
          /\ pool'[p].txn = None /\ pool'[p].retire = pool[p].retire
          /\ \/ pool[p].pc = "publish" /\ pool'[p].pc = "failed" /\ pool'[p].phase = Unpublished(p)
             \/ pool[p].pc = "revise" /\ pool'[p].pc = "idle" /\ pool'[p].phase = pool[p].phase
        BY <2>1, <1>2, SMTT(60) DEF ManagerInv, PoolState, Unpublished
    <2>3. PoolControl(pool'[p]) /\ (Joined(pool'[p]) <=> Joined(pool[p]))
        BY <2>2, <1>2, Zenon DEF PoolControl, Holding, Joined, Unpublished
    <2>4. UNCHANGED <<identity, epochs>>
        BY <1>1, <1>8, Zenon DEF PublishIdentity, CommitRevision
    <2> QED BY <2>2, <2>3, <2>4, Zenon
  <1> QED BY <1>6, <1>7, <1>8, TablesKept, PoolFrame, ZenonT(60)

(* A publication or a revision is taken back. *)
LEMMA RollbackInv ==
    ASSUME ManagerInv, NEW p \in Pools,
           PublishCheck(p) \/ PersistEpochFails(p) \/ PersistRevisionFails(p) \/ PublishRollback(p)
    PROVE  ManagerInv'
  <1>1. pool[p] \in PoolState /\ PoolControl(pool[p]) /\ UNCHANGED <<users, dial>>
      BY Zenon DEF ManagerInv, PublishCheck, PersistEpochFails, PersistRevisionFails, PublishRollback
  <1>2. \/ UNCHANGED <<identity, epochs>>
        \/ Rollback(pool[p].txn) /\ GoodTxn(pool[p].txn)
      BY <1>1, Zenon DEF PoolControl, Holding, PublishCheck, PersistEpochFails, PersistRevisionFails,
                  PublishRollback
  <1>3. (identity' = None \/ GoodIdentity(identity')) /\ EpochsTyped'
      BY <1>2, TablesKept, RollbackGood, Zenon DEF ManagerInv
  <1>4. \/ /\ pool[p].pc = "check" /\ pool[p].phase = "publishing"
           /\ pool' = [pool EXCEPT ![p].pc = "persist"]
        \/ /\ pool[p].pc \in {"check", "persist"}
           /\ pool' = [pool EXCEPT ![p].epoch = 0, ![p].txn = None, ![p].pc = "failed",
                                   ![p].phase = Unpublished(p)]
        \/ pool[p].pc = "repersist" /\ pool' = [pool EXCEPT ![p].txn = None, ![p].pc = "idle"]
        \/ /\ pool[p].pc \in {"failed", "published"}
           /\ pool' = [pool EXCEPT
                 ![p].phase = "retired", ![p].published = FALSE, ![p].dirty = FALSE,
                 ![p].epoch = 0, ![p].txn = None, ![p].catalog = None, ![p].pc = "idle",
                 ![p].retire = IF @ = "no" THEN "done" ELSE @]
      BY ZenonT(60) DEF PublishCheck, PersistEpochFails, PersistRevisionFails, PublishRollback, Abandoned
  <1>5. /\ pool' \in [Pools -> PoolState] /\ \A o \in Pools \ {p} : pool'[o] = pool[o]
        /\ \/ /\ pool[p].pc = "check" /\ pool[p].phase = "publishing" /\ pool'[p].pc = "persist"
              /\ pool'[p].phase = pool[p].phase /\ pool'[p].txn = pool[p].txn
              /\ pool'[p].retire = pool[p].retire
           \/ /\ pool[p].pc \in {"check", "persist"} /\ pool'[p].txn = None
              /\ pool'[p].pc = "failed" /\ pool'[p].phase = Unpublished(p)
              /\ pool'[p].retire = pool[p].retire
           \/ /\ pool[p].pc = "repersist" /\ pool'[p].txn = None /\ pool'[p].pc = "idle"
              /\ pool'[p].phase = pool[p].phase /\ pool'[p].retire = pool[p].retire
           \/ /\ pool[p].pc \in {"failed", "published"} /\ pool'[p].phase = "retired"
              /\ pool'[p].txn = None /\ pool'[p].pc = "idle"
              /\ pool'[p].retire = IF pool[p].retire = "no" THEN "done" ELSE pool[p].retire
      BY <1>1, <1>4, SMTT(60) DEF ManagerInv, PoolState, Unpublished
  <1>6. PoolControl(pool'[p]) /\ (Joined(pool'[p]) <=> Joined(pool[p]))
      BY <1>1, <1>5, Zenon DEF PoolControl, Holding, Joined, Unpublished
  <1> QED BY <1>1, <1>3, <1>5, <1>6, PoolFrame, ZenonT(60)

(* The steps of a pool that leave the manager's tables alone. *)
LEMMA QuietInv ==
    ASSUME ManagerInv, NEW p \in Pools,
           \/ BeginPublish(p) \/ PersistEpoch(p) \/ PublishCommit(p) \/ SourceUpdate(p)
           \/ Superseded(p) \/ PersistRevision(p) \/ BeginRetire(p)
    PROVE  ManagerInv'
  <1>1. pool[p] \in PoolState /\ PoolControl(pool[p])
      BY Zenon DEF ManagerInv
  <1>2. UNCHANGED <<users, identity, epochs, dial>>
      BY Zenon DEF BeginPublish, PersistEpoch, PublishCommit, SourceUpdate, Superseded,
             PersistRevision, BeginRetire
  <1>3. PICK c : c = CatalogOf(pool[p].txn)
      BY Zenon
  <1>4. pool[p].pc \in {"persist", "repersist"} => c \in Catalog
      BY <1>1, <1>3, TxnFields, Zenon DEF PoolControl, Holding
  <1> DEFINE Settled == pool' \in [Pools -> PoolState] /\ (\A o \in Pools \ {p} : pool'[o] = pool[o])
                        /\ PoolControl(pool'[p]) /\ (Joined(pool'[p]) <=> Joined(pool[p]))
  <1>5. ASSUME BeginPublish(p) PROVE Settled
    <2>1. /\ pool' \in [Pools -> PoolState] /\ \A o \in Pools \ {p} : pool'[o] = pool[o]
          /\ pool[p].phase = "prepared" /\ pool[p].pc = "idle" /\ pool'[p].phase = "publishing"
          /\ pool'[p].pc = "publish" /\ pool'[p].txn = pool[p].txn /\ pool'[p].retire = pool[p].retire
        BY <1>1, <1>5, Zenon DEF ManagerInv, PoolState, BeginPublish
    <2> QED BY <2>1, <1>1, Zenon DEF PoolControl, Holding, Joined
  <1>6. ASSUME PersistEpoch(p) PROVE Settled
    <2>1. pool[p].pc = "persist" /\ pool' = [pool EXCEPT ![p].catalog = c, ![p].pc = "published"]
        BY <1>3, <1>6, Zenon DEF PersistEpoch
    <2>2. /\ pool' \in [Pools -> PoolState] /\ \A o \in Pools \ {p} : pool'[o] = pool[o]
          /\ pool'[p].phase = pool[p].phase
          /\ pool'[p].pc = "published" /\ pool'[p].txn = pool[p].txn /\ pool'[p].retire = pool[p].retire
        BY <1>1, <1>4, <2>1, Zenon DEF ManagerInv, PoolState
    <2> QED BY <2>1, <2>2, <1>1, Zenon DEF PoolControl, Holding, Joined
  <1>7. ASSUME PublishCommit(p) PROVE Settled
    <2>1. \/ /\ pool[p].phase = "publishing"
             /\ pool' = [pool EXCEPT ![p].phase = "active", ![p].published = TRUE,
                                     ![p].dirty = FALSE, ![p].txn = None,
                                     ![p].pc = IF pool[p].dirty THEN "rebuild" ELSE "idle"]
          \/ /\ pool[p].phase # "publishing"
             /\ pool' = [pool EXCEPT ![p].txn = None, ![p].pc = "idle"]
        BY <1>7, Zenon DEF PublishCommit
    <2>2. /\ pool' \in [Pools -> PoolState] /\ \A o \in Pools \ {p} : pool'[o] = pool[o]
          /\ pool'[p].txn = None /\ pool'[p].retire = pool[p].retire
          /\ \/ /\ pool[p].phase = "publishing" /\ pool'[p].phase = "active"
                /\ pool'[p].pc \in {"rebuild", "idle"}
             \/ pool[p].phase # "publishing" /\ pool'[p].phase = pool[p].phase /\ pool'[p].pc = "idle"
        BY <1>1, <2>1, SMTT(60) DEF ManagerInv, PoolState
    <2>3. pool[p].phase \in {"publishing", "retired"}
        BY <1>1, <1>7, Zenon DEF PublishCommit, PoolControl
    <2> QED BY <2>2, <2>3, <1>1, Zenon DEF PoolControl, Holding, Joined
  <1>8. ASSUME SourceUpdate(p) PROVE Settled
    <2>1. /\ pool' \in [Pools -> PoolState] /\ \A o \in Pools \ {p} : pool'[o] = pool[o]
          /\ pool'[p].txn = pool[p].txn /\ pool'[p].retire = pool[p].retire
          /\ pool'[p].phase = pool[p].phase /\ pool[p].phase \in {"prepared", "publishing", "active"}
          /\ \/ pool[p].phase = "active" /\ pool'[p].pc = "rebuild"
             \/ pool[p].phase # "active" /\ pool'[p].pc = pool[p].pc
        BY <1>1, <1>8, Zenon DEF ManagerInv, PoolState, SourceUpdate
    <2> QED BY <2>1, <1>1, Zenon DEF PoolControl, Holding, Joined
  <1>9. ASSUME Superseded(p) PROVE Settled
    <2>1. /\ pool' \in [Pools -> PoolState] /\ \A o \in Pools \ {p} : pool'[o] = pool[o]
          /\ pool'[p].txn = pool[p].txn /\ pool'[p].retire = pool[p].retire
          /\ pool'[p].phase = pool[p].phase /\ pool[p].pc = "rebuild" /\ pool'[p].pc = "idle"
        BY <1>1, <1>9, Zenon DEF ManagerInv, PoolState, Superseded
    <2> QED BY <2>1, <1>1, Zenon DEF PoolControl, Holding, Joined
  <1>10. ASSUME PersistRevision(p) PROVE Settled
    <2>1. /\ pool[p].pc = "repersist"
          /\ pool' = [pool EXCEPT ![p].catalog = c, ![p].txn = None, ![p].pc = "idle"]
        BY <1>3, <1>10, Zenon DEF PersistRevision
    <2>2. /\ pool' \in [Pools -> PoolState] /\ \A o \in Pools \ {p} : pool'[o] = pool[o]
          /\ pool'[p].txn = None /\ pool'[p].retire = pool[p].retire
          /\ pool'[p].phase = pool[p].phase /\ pool'[p].pc = "idle"
        BY <1>1, <1>4, <2>1, Zenon DEF ManagerInv, PoolState
    <2> QED BY <2>1, <2>2, <1>1, Zenon DEF PoolControl, Holding, Joined
  <1>11. ASSUME BeginRetire(p) PROVE Settled
    <2>1. /\ pool' \in [Pools -> PoolState] /\ \A o \in Pools \ {p} : pool'[o] = pool[o]
          /\ pool'[p].txn = pool[p].txn /\ pool[p].retire = "no" /\ pool'[p].retire = "pending"
          /\ pool[p].phase # "none" /\ pool'[p].phase = "retired" /\ pool'[p].pc = pool[p].pc
        BY <1>1, <1>11, ZenonT(60) DEF ManagerInv, PoolState, BeginRetire
    <2> QED BY <2>1, <1>1, Zenon DEF PoolControl, Holding, Joined
  <1>12. Settled
      BY <1>5, <1>6, <1>7, <1>8, <1>9, <1>10, <1>11, Zenon
  <1> QED BY <1>2, <1>12, TablesKept, PoolFrame, Zenon

(* RetireEpoch, which may drop the group. *)
LEMMA RetireEpochInv ==
    ASSUME ManagerInv, NEW p \in Pools, RetireEpoch(p)
    PROVE  ManagerInv'
  <1>1. pool[p] \in PoolState /\ PoolControl(pool[p])
      BY Zenon DEF ManagerInv
  <1>2. /\ pool' \in [Pools -> PoolState] /\ \A o \in Pools \ {p} : pool'[o] = pool[o]
        /\ pool'[p].txn = pool[p].txn /\ pool[p].retire = "pending" /\ pool'[p].retire = "done"
        /\ pool'[p].phase = pool[p].phase /\ pool'[p].pc = pool[p].pc
        /\ UNCHANGED <<users, dial>>
      BY <1>1, Zenon DEF ManagerInv, PoolState, RetireEpoch
  <1>3. PoolControl(pool'[p]) /\ (Joined(pool'[p]) <=> Joined(pool[p]))
      BY <1>1, <1>2, Zenon DEF PoolControl, Joined
  <1>4. (identity' = None \/ GoodIdentity(identity')) /\ EpochsTyped'
    <2>1. PICK e : e = pool[p].epoch
        BY Zenon
    <2>2. CASE e \in DOMAIN epochs
      <3>1. /\ epochs' = IF epochs[e].refs = 0 THEN Without(epochs, e)
                         ELSE [epochs EXCEPT ![e].life = "retiring"]
            /\ identity' = None \/ identity' = identity
          BY <2>1, <2>2, Zenon DEF RetireEpoch, Cleanup
      <3>2. epochs[e] \in Epoch /\ EpochsTyped
          BY <2>2, Zenon DEF ManagerInv, EpochsTyped
      <3>3. CASE epochs[e].refs = 0
          BY <3>1, <3>2, <3>3, Zenon DEF Without, EpochsTyped, ManagerInv
      <3>4. CASE epochs[e].refs # 0
        <4>1. [epochs[e] EXCEPT !.life = "retiring"] \in Epoch
            BY <3>2, Zenon DEF Epoch
        <4>2. epochs' = [epochs EXCEPT ![e] = [epochs[e] EXCEPT !.life = "retiring"]]
            BY <3>1, <3>4, Zenon
        <4> QED BY <3>1, <3>2, <4>1, <4>2, Zenon DEF EpochsTyped, ManagerInv
      <3> QED BY <3>3, <3>4, Zenon
    <2>3. CASE e \notin DOMAIN epochs
        BY <2>1, <2>3, TablesKept, Zenon DEF RetireEpoch
    <2> QED BY <2>2, <2>3, Zenon
  <1> QED BY <1>2, <1>3, <1>4, PoolFrame, Zenon

LEMMA NewInv ==
    ASSUME ManagerInv, NEW p \in Pools, New(p)
    PROVE  ManagerInv'
  <1>1. pool[p] \in PoolState /\ PoolControl(pool[p])
      BY Zenon DEF ManagerInv
  <1>2. /\ pool' \in [Pools -> PoolState] /\ \A o \in Pools \ {p} : pool'[o] = pool[o]
        /\ pool'[p].txn = pool[p].txn /\ pool'[p].retire = pool[p].retire
        /\ pool[p].phase = "none" /\ pool'[p].phase = "zero" /\ pool'[p].pc = pool[p].pc
        /\ users' = users + 1 /\ UNCHANGED <<epochs, dial>>
      BY <1>1, Zenon DEF ManagerInv, PoolState, New
  <1>3. PoolControl(pool'[p]) /\ Joined(pool'[p]) /\ ~Joined(pool[p])
      BY <1>1, <1>2, Zenon DEF PoolControl, Holding, Joined
  <1>4. identity' = None \/ GoodIdentity(identity')
    <2>1. PICK r \in Persisted :
             IF r = None THEN UNCHANGED identity
             ELSE IF identity # None \/ ~Restorable(r) THEN UNCHANGED identity
             ELSE \E q \in AbsentOrders(r) : identity' = Restored(r, <<p, 0>>, q)
        BY Zenon DEF New
    <2>2. CASE UNCHANGED identity
        BY <2>2, Zenon DEF ManagerInv
    <2>3. CASE r # None /\ Restorable(r) /\ \E q \in AbsentOrders(r) : identity' = Restored(r, <<p, 0>>, q)
      <3>1. PICK q \in AbsentOrders(r) : identity' = Restored(r, <<p, 0>>, q)
          BY <2>3, Zenon
      <3>2. <<p, 0>> \in Pools \X Nat /\ r \in Persisted \ {None}
          BY <2>3, Zenon
      <3> QED BY <3>1, <3>2, <2>3, RestoredGood, Zenon
    <2> QED BY <2>1, <2>2, <2>3, Zenon
  <1>5. Registered' = Registered \cup {p} /\ p \notin Registered
      BY <1>2, <1>3, Zenon DEF Registered
  <1>6. IsFiniteSet(Registered)
      BY ManagerConstants, FS_Subset, Zenon DEF Registered
  <1>7. users' = Cardinality(Registered')
    <2>1. Cardinality(Registered \cup {p}) = Cardinality(Registered) + 1
        BY <1>5, <1>6, FS_AddElement, Zenon
    <2> QED BY <2>1, <1>2, <1>5, Zenon DEF ManagerInv
  <1>8. \A o \in Pools : PoolControl(pool'[o])
      BY <1>2, <1>3, Zenon DEF ManagerInv
  <1>9. EpochsTyped'
      BY <1>2, Zenon DEF ManagerInv, EpochsTyped
  <1> QED BY <1>2, <1>4, <1>7, <1>8, <1>9, ZenonT(60) DEF ManagerInv

LEMMA UnregisterGroupInv ==
    ASSUME ManagerInv, NEW p \in Pools, UnregisterGroup(p)
    PROVE  ManagerInv'
  <1>1. pool[p] \in PoolState /\ PoolControl(pool[p])
      BY Zenon DEF ManagerInv
  <1>2. /\ pool' \in [Pools -> PoolState] /\ \A o \in Pools \ {p} : pool'[o] = pool[o]
        /\ pool'[p].txn = pool[p].txn /\ pool[p].retire = "done" /\ pool'[p].retire = "closed"
        /\ pool'[p].phase = pool[p].phase /\ pool'[p].pc = pool[p].pc
        /\ users' = users - 1 /\ UNCHANGED <<epochs, dial>>
        /\ identity' = None \/ identity' = identity
      BY <1>1, Zenon DEF ManagerInv, PoolState, UnregisterGroup, Cleanup
  <1>3. PoolControl(pool'[p]) /\ ~Joined(pool'[p]) /\ Joined(pool[p])
      BY <1>1, <1>2, Zenon DEF PoolControl, Joined
  <1>4. Registered' = Registered \ {p} /\ p \in Registered
      BY <1>2, <1>3, Zenon DEF Registered
  <1>5. IsFiniteSet(Registered)
      BY ManagerConstants, FS_Subset, Zenon DEF Registered
  <1>6. users' = Cardinality(Registered')
    <2>1. Cardinality(Registered \ {p}) = Cardinality(Registered) - 1
        BY <1>4, <1>5, FS_RemoveElement, Zenon
    <2> QED BY <2>1, <1>2, <1>4, Zenon DEF ManagerInv
  <1>7. \A o \in Pools : PoolControl(pool'[o])
      BY <1>2, <1>3, Zenon DEF ManagerInv
  <1>8. EpochsTyped' /\ (identity' = None \/ GoodIdentity(identity'))
      BY <1>2, Zenon DEF ManagerInv, EpochsTyped
  <1> QED BY <1>2, <1>6, <1>7, <1>8, Zenon DEF ManagerInv

(* The attempts plan, lease and release. *)
LEMMA DialInv ==
    ASSUME ManagerInv, NEW d \in Dials, DialStep(d)
    PROVE  ManagerInv'
  <1>0. dial[d] \in DialState /\ EpochsTyped /\ NoDial \in DialState
      BY NoHandleFields, Zenon DEF ManagerInv, NoDial, DialState
  <1>1. UNCHANGED <<users, pool>> /\ (identity' = None \/ identity' = identity)
      BY Zenon DEF DialStep, PlanDial, AcquireEpoch, Release, Cleanup
  <1> DEFINE Settled == EpochsTyped' /\ dial' \in [Dials -> DialState]
  <1>2. ASSUME NEW p \in Pools, PlanDial(d, p) PROVE Settled
    <2>1. PICK n \in Nodes : dial' = [dial EXCEPT ![d] =
                [pc |-> "planned", epoch |-> pool[p].catalog.epoch,
                 revision |-> pool[p].catalog.revision,
                 generation |-> pool[p].catalog.generation,
                 node |-> n, handle |-> pool[p].catalog.handles[n], of |-> p]]
        BY <1>2, Zenon DEF PlanDial
    <2>2. PICK c : c = pool[p].catalog
        BY Zenon
    <2>3. c \in Catalog
        BY <2>2, <1>2, Zenon DEF PlanDial, ManagerInv, PoolState
    <2>4. /\ c.epoch \in Nat /\ c.revision \in Nat /\ c.generation \in Nat
          /\ c.handles[n] \in Handle
        BY <2>3, Zenon DEF Catalog
    <2>5. PICK a : a = [pc |-> "planned", epoch |-> c.epoch, revision |-> c.revision,
                        generation |-> c.generation, node |-> n, handle |-> c.handles[n], of |-> p]
        BY Zenon
    <2>6. a \in DialState
        BY <2>4, <2>5, Zenon DEF DialState
    <2>7. dial' = [dial EXCEPT ![d] = a]
        BY <2>1, <2>2, <2>5, Zenon
    <2> QED BY <2>6, <2>7, <1>0, <1>2, Zenon DEF ManagerInv, EpochsTyped, PlanDial
  <1>3. ASSUME AcquireEpoch(d) PROVE Settled
    <2>1. PICK e : e = dial[d].epoch
        BY Zenon
    <2>2. CASE Live(e)
      <3>1. epochs[e] \in Epoch /\ e \in DOMAIN epochs
          BY <2>2, <1>0, Zenon DEF Live, EpochsTyped
      <3>2. PICK x : x = [epochs[e] EXCEPT !.refs = epochs[e].refs + 1]
          BY Zenon
      <3>3. x \in Epoch
          BY <3>1, <3>2 DEF Epoch
      <3>4. epochs' = [epochs EXCEPT ![e] = x]
          BY <2>1, <2>2, <3>2, <1>3, Zenon DEF AcquireEpoch
      <3>5. EpochsTyped'
          BY <3>1, <3>3, <3>4, <1>0, Zenon DEF EpochsTyped
      <3>6. PICK o : o = IF dial[d].of = epochs[e].owner THEN dial[d].of ELSE None
          BY Zenon
      <3>7. o \in Pools \cup {None}
          BY <3>6, <1>0, Zenon DEF DialState
      <3>8. dial' = [dial EXCEPT ![d].pc = "held", ![d].of = o]
          BY <2>1, <2>2, <3>6, <1>3, Zenon DEF AcquireEpoch
      <3>9. dial' \in [Dials -> DialState]
          BY <3>7, <3>8, <1>0, Zenon DEF DialState, ManagerInv
      <3> QED BY <3>5, <3>9, Zenon
    <2>3. CASE ~Live(e)
        BY <2>1, <2>3, <1>0, <1>3, ZenonT(60) DEF AcquireEpoch, EpochsTyped, ManagerInv
    <2> QED BY <2>2, <2>3, Zenon
  <1>4. ASSUME Release(d) PROVE Settled
    <2>1. PICK e : e = dial[d].epoch
        BY Zenon
    <2>2. PICK refs : refs = IF epochs[e].refs > 0 THEN epochs[e].refs - 1 ELSE epochs[e].refs
        BY Zenon
    <2>3. dial' = [dial EXCEPT ![d] = NoDial]
        BY <1>4, Zenon DEF Release
    <2>4. dial' \in [Dials -> DialState]
        BY <2>3, <1>0, Zenon DEF ManagerInv
    <2>5. \/ UNCHANGED epochs
          \/ epochs' = Without(epochs, e)
          \/ e \in DOMAIN epochs /\ epochs' = [epochs EXCEPT ![e].refs = refs]
        BY <2>1, <2>2, <1>4, Zenon DEF Release
    <2>6. EpochsTyped'
      <3>1. CASE UNCHANGED epochs \/ epochs' = Without(epochs, e)
          BY <3>1, <1>0, Zenon DEF EpochsTyped, Without
      <3>2. CASE e \in DOMAIN epochs /\ epochs' = [epochs EXCEPT ![e].refs = refs]
        <4>1. epochs[e] \in Epoch
            BY <3>2, <1>0, Zenon DEF EpochsTyped
        <4>2. refs \in Int
            BY <4>1, <2>2 DEF Epoch
        <4>3. [epochs[e] EXCEPT !.refs = refs] \in Epoch
            BY <4>1, <4>2, Zenon DEF Epoch
        <4> QED BY <4>1, <4>3, <3>2, <1>0, Zenon DEF EpochsTyped
      <3> QED BY <2>5, <3>1, <3>2, Zenon
    <2> QED BY <2>4, <2>6, Zenon
  <1>5. Settled
      BY <1>2, <1>3, <1>4, Zenon DEF DialStep
  <1>6. Registered' = Registered
      BY <1>1, Zenon DEF Registered
  <1> QED BY <1>1, <1>5, <1>6, Zenon DEF ManagerInv

LEMMA ManagerNext == ManagerInv /\ [Next]_vars => ManagerInv'
  <1> SUFFICES ASSUME ManagerInv, [Next]_vars PROVE ManagerInv'
      BY Zenon
  <1>1. ASSUME NEW p \in Pools, PoolStep(p) PROVE ManagerInv'
      BY <1>1, NewInv, StartInv, CommitInv, RollbackInv, PrepareRevisionInv, QuietInv,
         RetireEpochInv, UnregisterGroupInv, ZenonT(60) DEF PoolStep
  <1>2. ASSUME NEW d \in Dials, DialStep(d) PROVE ManagerInv'
      BY <1>2, DialInv, Zenon
  <1>3. CASE UNCHANGED vars
    <2>1. UNCHANGED <<users, identity, epochs, pool, dial>>
        BY <1>3, Zenon DEF vars
    <2> QED BY <2>1, Zenon DEF ManagerInv, EpochsTyped, Registered
  <1> QED BY <1>1, <1>2, <1>3, Zenon DEF Next

(* In every reachable state the identities, committed, prepared or kept for  *)
(* a rollback, are good, and the pools and the attempts are well formed.     *)
THEOREM ManagerInvariant == Spec => []ManagerInv
  BY ManagerInit, ManagerNext, PTL DEF Spec

(* Every structure of the manager keeps its type, and the users of the group *)
(* are never more than its pools (RegisterGroup and UnregisterGroup).        *)
THEOREM ManagerTypeOK == Spec => []TypeOK
  <1>1. ManagerInv => TypeOK
    <2> SUFFICES ASSUME ManagerInv PROVE TypeOK
        BY Zenon
    <2>1. IsFiniteSet(Registered) /\ Cardinality(Registered) <= Cardinality(Pools)
        BY ManagerConstants, FS_Subset, Zenon DEF Registered
    <2>2. Cardinality(Registered) \in Nat /\ Cardinality(Pools) \in Nat
        BY <2>1, ManagerConstants, FS_CardinalityType, Zenon
    <2>3. users \in 0..Cardinality(Pools)
        BY <2>1, <2>2 DEF ManagerInv
    <2>4. identity \in Identity \cup {None}
        BY Zenon DEF ManagerInv, GoodIdentity
    <2> QED BY <2>3, <2>4, Zenon DEF ManagerInv, EpochsTyped, TypeOK
  <1> QED BY <1>1, ManagerInvariant, PTL

(* Two nodes never share a slot and no slot exceeds the counter, through     *)
(* rollbacks, removals, returns, evictions and restored files                *)
(* (preparePublish, Rollback, restoreStableIdentityState).                   *)
THEOREM SlotsUniqueTheorem == Spec => []SlotsUnique
  <1>1. ManagerInv => SlotsUnique
      BY Zenon DEF ManagerInv, PoolControl, GoodTxn, GoodIdentity, SlotsUnique
  <1> QED BY <1>1, ManagerInvariant, PTL

(* A handle that a revision retired is never current again in an identity    *)
(* that follows it (preparePublish, applyCommittedTransitions).              *)
THEOREM NoHandleRevivalTheorem == Spec => []NoHandleRevival
  <1>1. ASSUME NEW s, GoodIdentity(s) PROVE NeverRevived(s)
    <2> SUFFICES ASSUME NEW n \in Nodes, s.present[n],
                        <<n, s.handle[n].slot, s.handle[n].version>> \in s.dead
                 PROVE  FALSE
        BY Zenon DEF NeverRevived
    <2>1. s.handle[n].version \in Nat
        BY <1>1, Zenon DEF GoodIdentity, Identity, Handle
    <2>2. PICK x \in s.dead : x = <<n, s.handle[n].slot, s.handle[n].version>>
        BY Zenon
    <2>3. x[1] = n /\ x[2] = s.handle[n].slot /\ x[3] = s.handle[n].version
        BY <2>2, Zenon
    <2>4. x[3] < s.handle[n].version
        BY <2>3, <1>1, Zenon DEF GoodIdentity, DeadBehind
    <2> QED BY <2>1, <2>3, <2>4, SMTT(60)
  <1>2. ManagerInv => NoHandleRevival
      BY <1>1, Zenon DEF ManagerInv, PoolControl, GoodTxn, NoHandleRevival
  <1> QED BY <1>2, ManagerInvariant, PTL
=============================================================================
