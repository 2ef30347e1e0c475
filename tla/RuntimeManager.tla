--------------------------- MODULE RuntimeManager ---------------------------
(***************************************************************************)
(* Stable node identity and runtime epochs of one adaptive group           *)
(* (protocol/group/adaptive/runtime_manager.go) with the pools that        *)
(* publish into it (outbound.go) and the dials that hold epoch leases.     *)
(*                                                                         *)
(* Successive AdaptivePool objects of one group share the manager: a       *)
(* reload builds a new pool while the old one still drains.  A pool        *)
(* prepares an identity transaction on a private copy, commits it          *)
(* optimistically, writes the state to disk and rolls the transaction back *)
(* when the write fails.  Every operation under the manager's mutex is one *)
(* action; the disk write between commit and rollback is not, and dials of *)
(* every pool run in between.  A pool's catalogAccess mutex is held over   *)
(* the whole of a rebuild and of a publication (CatalogLocked).            *)
(***************************************************************************)
EXTENDS Integers, Sequences, FiniteSets

CONSTANTS Pools,          \* AdaptivePool objects, one per configuration load
          Dials,          \* concurrent observation attempts
          Nodes,          \* NodeIDs
          MaxRetired,     \* stableIdentityState.maxRetired
          PersistMayFail, \* whether a state write may fail
          Persisted,      \* identities New may restore from disk, or None
          MaxGeneration,  \* bound on the rebuilds of one pool
          None

ASSUME ManagerConstants ==
    /\ MaxRetired \in Nat \ {0}
    /\ PersistMayFail \in BOOLEAN
    /\ MaxGeneration \in Nat
    /\ IsFiniteSet(Nodes) /\ IsFiniteSet(Pools)

(* NodeHandle, without its NodeID.  Slot 0 stands for an absent map entry.   *)
Handle == [slot : Nat, version : Nat, born : Nat]
NoHandle == [slot |-> 0, version |-> 0, born |-> 0]
RetiredItem == [node : Nodes, revision : Nat]

(* persistedIdentityState.  A node the file does not list has slot 0; only   *)
(* a listed node has the presence flag.                                      *)
PersistedIdentity == [nextEpoch : Nat, nextRevision : Nat, nextSlot : Nat,
                      handle : [Nodes -> Handle], present : [Nodes -> BOOLEAN]]

ASSUME PersistedConstants ==
    \A r \in Persisted \ {None} :
        /\ r \in PersistedIdentity
        /\ \A n \in Nodes : r.present[n] => r.handle[n].slot # 0

(* stableIdentityState.  ref is the pointer identity of the object: the pool *)
(* and the generation of the rebuild that allocated it.  retired is the part *)
(* of the queue from retiredHead on; dead is history, every handle the       *)
(* revisions up to this one retired (RuntimeIdentity.RetiredHandles).        *)
Identity == [ref : (Pools \X Nat), nextEpoch : Nat, nextRevision : Nat,
             nextSlot : Nat, currentEpoch : Nat,
             handle : [Nodes -> Handle], present : [Nodes -> BOOLEAN],
             retired : Seq(RetiredItem), queued : [Nodes -> Nat],
             dead : SUBSET (Nodes \X Nat \X Nat)]

(* stableEpoch.  owner is history: the pool that published the epoch. *)
Epoch == [life : {"active", "retiring"}, revision : Nat, generation : Nat,
          refs : Int, handles : [Nodes -> Handle], owner : Pools]

(* PreparedIdentity: prior is the previousEpoch copy of a revision. *)
Prepared == [base : Identity \cup {None}, next : Identity, epoch : Nat,
             revision : Nat, generation : Nat, handles : [Nodes -> Handle],
             newEpoch : BOOLEAN, committed : BOOLEAN, prior : Epoch \cup {None}]

(* ExecutionSnapshot *)
Catalog == [epoch : Nat, revision : Nat, generation : Nat,
            handles : [Nodes -> Handle]]

VARIABLES users,    \* RuntimeManager.groupUsers of the group
          identity, \* sharedGroupState.identity; None when there is no group
          epochs,   \* sharedGroupState.epochs
          pool,     \* the pools
          dial      \* the observation attempts

vars == <<users, identity, epochs, pool, dial>>

NoEpochs == [e \in {} |-> None]

(* pc is where the publication or the rebuild of the pool stands: "publish"  *)
(* before Commit, "check" after it, "persist" before the write, "published"  *)
(* before the driver commits, "failed" before it rolls back; "rebuild" before *)
(* PrepareRevision, "revise" before Commit, "repersist" before the write.    *)
PoolState == [phase : {"none", "zero", "prepared", "publishing", "active", "retired"},
              pc : {"idle", "publish", "check", "persist", "published", "failed",
                    "rebuild", "revise", "repersist"},
              retire : {"no", "pending", "done", "closed"},
              published : BOOLEAN, dirty : BOOLEAN, generation : Nat,
              epoch : Nat, txn : Prepared \cup {None}, catalog : Catalog \cup {None}]

NoPool == [phase |-> "none", pc |-> "idle", retire |-> "no", published |-> FALSE,
           dirty |-> FALSE, generation |-> 0, epoch |-> 0, txn |-> None,
           catalog |-> None]

(* of is history: the pool of the attempt, None once the attempt leased an   *)
(* epoch of the same number that another pool published after the group was  *)
(* dropped and its numbering began anew.                                     *)
DialState == [pc : {"idle", "planned", "held"}, epoch : Nat, revision : Nat,
              generation : Nat, node : Nodes \cup {None}, handle : Handle,
              of : Pools \cup {None}]

NoDial == [pc |-> "idle", epoch |-> 0, revision |-> 0, generation |-> 0,
           node |-> None, handle |-> NoHandle, of |-> None]

Init ==
    /\ users = 0
    /\ identity = None
    /\ epochs = NoEpochs
    /\ pool = [p \in Pools |-> NoPool]
    /\ dial = [d \in Dials |-> NoDial]

-----------------------------------------------------------------------------
(***************************************************************************)
(* stableIdentityState.preparePublish on the copy s, for a snapshot with   *)
(* the nodes `present' of which `stable' keep their identity.  The slots   *)
(* of new nodes follow the snapshot's order, and the retired ones are      *)
(* queued in the order Go ranges over the map: slots and order are chosen  *)
(* by the caller.                                                          *)
(***************************************************************************)
NewIdentity(ref) ==
    [ref |-> ref, nextEpoch |-> 0, nextRevision |-> 0, nextSlot |-> 0,
     currentEpoch |-> 0, handle |-> [n \in Nodes |-> NoHandle],
     present |-> [n \in Nodes |-> FALSE], retired |-> <<>>,
     queued |-> [n \in Nodes |-> 0], dead |-> {}]

Fresh(s, present) == {n \in present : s.handle[n].slot = 0}
Gone(s, present) == {n \in Nodes \ present : s.present[n]}
Changed(s, present, stable) ==
    {n \in present \ Fresh(s, present) : ~s.present[n] \/ n \notin stable}

SlotOrders(s, present) ==
    LET fresh == Fresh(s, present)
        free == (s.nextSlot + 1)..(s.nextSlot + Cardinality(fresh))
    IN {f \in [fresh -> free] : \A m, n \in fresh : f[m] = f[n] => m = n}

GoneOrders(s, present) ==
    LET gone == Gone(s, present)
    IN {q \in [1..Cardinality(gone) -> gone] : \A i, j \in DOMAIN q : q[i] = q[j] => i = j}

(* A faulty numbering: a re-added node keeps its version. *)
NextHandleSameVersion(s, present, stable, slots, n) ==
    IF n \in Fresh(s, present)
    THEN [slot |-> slots[n], version |-> 1, born |-> s.nextRevision + 1]
    ELSE s.handle[n]

NextHandle(s, present, stable, slots, n) ==
    IF n \in Fresh(s, present)
    THEN [slot |-> slots[n], version |-> 1, born |-> s.nextRevision + 1]
    ELSE IF n \in Changed(s, present, stable)
    THEN [s.handle[n] EXCEPT !.version = @ + 1, !.born = s.nextRevision + 1]
    ELSE s.handle[n]

RetiredHandles(s, present, stable) ==
    {<<n, s.handle[n].slot, s.handle[n].version>> :
         n \in Gone(s, present) \cup Changed(s, present, stable)}

Queue(s, present, order) ==
    s.retired \o [i \in DOMAIN order |-> [node |-> order[i], revision |-> s.nextRevision + 1]]

Queued(s, present) ==
    [n \in Nodes |-> IF n \in present THEN 0
                     ELSE IF n \in Gone(s, present) THEN s.nextRevision + 1
                     ELSE s.queued[n]]

(* A faulty counter: only the first new node of a snapshot is counted. *)
NextSlotOnce(s, present) == IF Fresh(s, present) = {} THEN s.nextSlot ELSE s.nextSlot + 1

NextSlot(s, present) == s.nextSlot + Cardinality(Fresh(s, present))

Overflow(q) == IF Len(q) > MaxRetired THEN Len(q) - MaxRetired ELSE 0

(* The nodes whose lineage the overflow of the queue drops; an item that a   *)
(* later retirement or a return of the node superseded drops nothing.        *)
Evicted(q, queued) ==
    {q[i].node : i \in {i \in 1..Overflow(q) : queued[q[i].node] = q[i].revision}}

PreparePublish(s, ref, present, stable, slots, order, newEpoch) ==
    LET q == Queue(s, present, order)
        queued == Queued(s, present)
        evicted == Evicted(q, queued)
        epoch == IF newEpoch THEN s.nextEpoch + 1 ELSE s.currentEpoch
    IN [ref |-> ref, nextEpoch |-> IF newEpoch THEN s.nextEpoch + 1 ELSE s.nextEpoch,
        nextRevision |-> s.nextRevision + 1,
        nextSlot |-> NextSlot(s, present),
        currentEpoch |-> epoch,
        handle |-> [n \in Nodes |-> IF n \in evicted THEN NoHandle
                                    ELSE IF n \in present
                                    THEN NextHandle(s, present, stable, slots, n)
                                    ELSE s.handle[n]],
        present |-> [n \in Nodes |-> n \in present],
        retired |-> SubSeq(q, Overflow(q) + 1, Len(q)),
        queued |-> [n \in Nodes |-> IF n \in evicted THEN 0 ELSE queued[n]],
        dead |-> s.dead \cup RetiredHandles(s, present, stable)]

(* restoreStableIdentityState: what a persisted record must satisfy, and the *)
(* state it restores.  The epoch of the earlier process is not live: the     *)
(* current epoch only seeds the numbering.                                   *)
Restorable(r) ==
    LET known == {n \in Nodes : r.handle[n].slot # 0}
    IN /\ r.nextEpoch # 0 /\ r.nextRevision # 0
       /\ \A n \in known : /\ r.handle[n].slot <= r.nextSlot
                           /\ r.handle[n].version # 0
                           /\ r.handle[n].born \in 1..r.nextRevision
                           /\ \A m \in known : r.handle[m].slot = r.handle[n].slot => m = n
       /\ Cardinality({n \in known : ~r.present[n]}) <= MaxRetired

AbsentOrders(r) ==
    LET absent == {n \in Nodes : r.handle[n].slot # 0 /\ ~r.present[n]}
    IN {q \in [1..Cardinality(absent) -> absent] : \A i, j \in DOMAIN q : q[i] = q[j] => i = j}

Restored(r, ref, order) ==
    [ref |-> ref, nextEpoch |-> r.nextEpoch, nextRevision |-> r.nextRevision,
     nextSlot |-> r.nextSlot, currentEpoch |-> r.nextEpoch,
     handle |-> r.handle, present |-> r.present,
     retired |-> [i \in DOMAIN order |-> [node |-> order[i], revision |-> r.nextRevision]],
     queued |-> [n \in Nodes |-> IF r.handle[n].slot # 0 /\ ~r.present[n]
                                 THEN r.nextRevision ELSE 0],
     dead |-> {}]

-----------------------------------------------------------------------------
(* PrepareEpoch and PrepareRevision build the transaction of pool p.         *)
Prepare(p, present, stable, slots, order, newEpoch, prior) ==
    LET ref == <<p, pool[p].generation + 1>>
        base == IF identity = None THEN NewIdentity(ref) ELSE identity
        next == PreparePublish(base, ref, present, stable, slots, order, newEpoch)
    IN [base |-> identity, next |-> next, epoch |-> next.currentEpoch,
        revision |-> next.nextRevision, generation |-> pool[p].generation + 1,
        handles |-> [n \in Nodes |-> IF n \in present THEN next.handle[n] ELSE NoHandle],
        newEpoch |-> newEpoch, committed |-> FALSE, prior |-> prior]

BaseIdentity(p) ==
    IF identity = None THEN NewIdentity(<<p, pool[p].generation + 1>>) ELSE identity

Live(e) == e \in DOMAIN epochs /\ epochs[e].life = "active"

(* The checks of PreparedIdentity.Commit. *)
Committable(t) ==
    /\ t.base = None => identity = None
    /\ t.base # None => /\ identity # None
                        /\ identity.ref = t.base.ref
                        /\ identity.nextRevision = t.base.nextRevision
    /\ ~t.newEpoch => Live(t.epoch) /\ epochs[t.epoch].generation < t.generation

(* A faulty commit: a revision writes back the copy its preparation took. *)
CommittedEpochsFromCopy(t) ==
    [e \in DOMAIN epochs \cup {t.epoch} |->
        IF e # t.epoch THEN epochs[e]
        ELSE IF t.newEpoch
        THEN [life |-> "active", revision |-> t.revision, generation |-> t.generation,
              refs |-> 0, handles |-> t.handles, owner |-> t.next.ref[1]]
        ELSE [t.prior EXCEPT !.revision = t.revision, !.generation = t.generation,
                             !.handles = t.handles]]

(* The epochs after a commit: a revision keeps the life and the references   *)
(* its epoch has now, whatever they were at the preparation.                 *)
CommittedEpochs(t) ==
    [e \in DOMAIN epochs \cup {t.epoch} |->
        IF e # t.epoch THEN epochs[e]
        ELSE IF t.newEpoch
        THEN [life |-> "active", revision |-> t.revision, generation |-> t.generation,
              refs |-> 0, handles |-> t.handles, owner |-> t.next.ref[1]]
        ELSE [epochs[e] EXCEPT !.revision = t.revision, !.generation = t.generation,
                               !.handles = t.handles]]

Without(f, x) == [y \in DOMAIN f \ {x} |-> f[y]]

(* PreparedIdentity.Rollback of a committed transaction t. *)
Rollback(t) ==
    IF identity = None \/ identity.ref # t.next.ref
    THEN UNCHANGED <<identity, epochs>>
    ELSE /\ identity' = t.base
         /\ epochs' = IF t.base = None THEN NoEpochs
                      ELSE IF t.newEpoch THEN Without(epochs, t.epoch)
                      ELSE [epochs EXCEPT ![t.epoch] = t.prior]

(* tryCleanupGroupLocked *)
Cleanup(nusers, nepochs) ==
    identity' = IF nusers = 0 /\ DOMAIN nepochs = {} THEN None ELSE identity

CatalogLocked(p) == pool[p].pc \in {"check", "persist", "revise", "repersist"}

CatalogOf(t) == [epoch |-> t.epoch, revision |-> t.revision,
                 generation |-> t.generation, handles |-> t.handles]

-----------------------------------------------------------------------------
(* New: the pool registers with the manager, then loads the persisted state; *)
(* RestorePersistence leaves an existing group alone.                        *)
New(p) ==
    /\ pool[p].phase = "none"
    /\ pool' = [pool EXCEPT ![p].phase = "zero"]
    /\ users' = users + 1
    /\ \E r \in Persisted :
          IF r = None THEN UNCHANGED identity
          ELSE IF identity # None \/ ~Restorable(r) THEN UNCHANGED identity
          ELSE \E q \in AbsentOrders(r) : identity' = Restored(r, <<p, 0>>, q)
    /\ UNCHANGED <<epochs, dial>>

(* Start: the first rebuild of the pool prepares a new epoch. *)
Start(p) ==
    /\ pool[p].phase = "zero"
    /\ pool[p].generation < MaxGeneration
    /\ \E present \in SUBSET Nodes : \E stable \in SUBSET present :
          \E slots \in SlotOrders(BaseIdentity(p), present) :
             \E order \in GoneOrders(BaseIdentity(p), present) :
                pool' = [pool EXCEPT
                    ![p].phase = "prepared", ![p].generation = @ + 1,
                    ![p].txn = Prepare(p, present, stable, slots, order, TRUE, None)]
    /\ UNCHANGED <<users, identity, epochs, dial>>

(* OnRuntimeEpochPublish up to the release of lifecycleAccess. *)
BeginPublish(p) ==
    /\ pool[p].phase = "prepared" /\ pool[p].pc = "idle"
    /\ pool' = [pool EXCEPT ![p].phase = "publishing", ![p].pc = "publish"]
    /\ UNCHANGED <<users, identity, epochs, dial>>

Unpublished(p) == IF pool[p].phase = "publishing" THEN "prepared" ELSE pool[p].phase

(* OnRuntimeEpochPublish, Commit under catalogAccess.  A stale transaction   *)
(* is dropped.                                                               *)
PublishIdentity(p) ==
    LET t == pool[p].txn IN
    /\ pool[p].pc = "publish"
    /\ IF Committable(t)
       THEN /\ identity' = t.next
            /\ epochs' = CommittedEpochs(t)
            /\ pool' = [pool EXCEPT ![p].txn.committed = TRUE, ![p].epoch = t.epoch,
                                    ![p].pc = "check"]
       ELSE /\ pool' = [pool EXCEPT ![p].txn = None, ![p].pc = "failed",
                                    ![p].phase = Unpublished(p)]
            /\ UNCHANGED <<identity, epochs>>
    /\ UNCHANGED <<users, dial>>

(* OnRuntimeEpochPublish after Commit: a pool that was retired meanwhile     *)
(* rolls back.                                                               *)
Abandoned(p) == [pool EXCEPT ![p].epoch = 0, ![p].txn = None, ![p].pc = "failed",
                             ![p].phase = Unpublished(p)]

PublishCheck(p) ==
    /\ pool[p].pc = "check"
    /\ IF pool[p].phase = "publishing"
       THEN /\ pool' = [pool EXCEPT ![p].pc = "persist"]
            /\ UNCHANGED <<identity, epochs>>
       ELSE /\ Rollback(pool[p].txn)
            /\ pool' = Abandoned(p)
    /\ UNCHANGED <<users, dial>>

(* persistStateDurable in OnRuntimeEpochPublish, then CommitPrepared. *)
PersistEpoch(p) ==
    /\ pool[p].pc = "persist"
    /\ pool' = [pool EXCEPT ![p].catalog = CatalogOf(pool[p].txn), ![p].pc = "published"]
    /\ UNCHANGED <<users, identity, epochs, dial>>

PersistEpochFails(p) ==
    /\ PersistMayFail
    /\ pool[p].pc = "persist"
    /\ Rollback(pool[p].txn)
    /\ pool' = Abandoned(p)
    /\ UNCHANGED <<users, dial>>

(* OnRuntimeEpochPublishCommit: the transitions are applied in any phase; a  *)
(* source update that arrived during the publication is replayed.            *)
PublishCommit(p) ==
    /\ pool[p].pc = "published"
    /\ pool' = IF pool[p].phase = "publishing"
               THEN [pool EXCEPT ![p].phase = "active", ![p].published = TRUE,
                                 ![p].dirty = FALSE, ![p].txn = None,
                                 ![p].pc = IF pool[p].dirty THEN "rebuild" ELSE "idle"]
               ELSE [pool EXCEPT ![p].txn = None, ![p].pc = "idle"]
    /\ UNCHANGED <<users, identity, epochs, dial>>

(* OnRuntimeEpochPublishRollback: this pool's publication failed, or that of *)
(* a later outbound of the same configuration.  The pool retires with its    *)
(* runtime identity already cleared, so no epoch is retired.                 *)
PublishRollback(p) ==
    /\ pool[p].pc \in {"failed", "published"}
    /\ IF pool[p].txn = None THEN UNCHANGED <<identity, epochs>>
       ELSE Rollback(pool[p].txn)
    /\ pool' = [pool EXCEPT
          ![p].phase = "retired", ![p].published = FALSE, ![p].dirty = FALSE,
          ![p].epoch = 0, ![p].txn = None, ![p].catalog = None, ![p].pc = "idle",
          ![p].retire = IF @ = "no" THEN "done" ELSE @]
    /\ UNCHANGED <<users, dial>>

-----------------------------------------------------------------------------
(* onSourceUpdated *)
SourceUpdate(p) ==
    /\ pool[p].phase \in {"prepared", "publishing", "active"}
    /\ pool' = IF pool[p].phase = "active"
               THEN [pool EXCEPT ![p].pc = "rebuild"]
               ELSE [pool EXCEPT ![p].dirty = TRUE]
    /\ pool[p].phase = "active" => pool[p].pc = "idle"
    /\ UNCHANGED <<users, identity, epochs, dial>>

Revisable(e) == identity # None /\ identity.currentEpoch = e /\ Live(e)

(* rebuild of a published pool up to PrepareRevision, which copies the epoch *)
(* as it is now.                                                             *)
PrepareRevision(p) ==
    /\ pool[p].pc = "rebuild"
    /\ pool[p].generation < MaxGeneration
    /\ Revisable(pool[p].epoch)
    /\ \E present \in SUBSET Nodes : \E stable \in SUBSET present :
          \E slots \in SlotOrders(identity, present) :
             \E order \in GoneOrders(identity, present) :
                pool' = [pool EXCEPT
                    ![p].pc = "revise", ![p].generation = @ + 1,
                    ![p].txn = Prepare(p, present, stable, slots, order, FALSE,
                                       epochs[pool[p].epoch])]
    /\ UNCHANGED <<users, identity, epochs, dial>>

(* rebuild when PrepareRevision refuses: the pool is no longer the current   *)
(* publisher of the group.                                                   *)
Superseded(p) ==
    /\ pool[p].pc = "rebuild"
    /\ ~Revisable(pool[p].epoch)
    /\ pool' = [pool EXCEPT ![p].pc = "idle"]
    /\ UNCHANGED <<users, identity, epochs, dial>>

(* rebuild, Commit *)
CommitRevision(p) ==
    LET t == pool[p].txn IN
    /\ pool[p].pc = "revise"
    /\ IF Committable(t)
       THEN /\ identity' = t.next
            /\ epochs' = CommittedEpochs(t)
            /\ pool' = [pool EXCEPT ![p].txn.committed = TRUE, ![p].pc = "repersist"]
       ELSE /\ pool' = [pool EXCEPT ![p].txn = None, ![p].pc = "idle"]
            /\ UNCHANGED <<identity, epochs>>
    /\ UNCHANGED <<users, dial>>

(* rebuild after the state was written: the catalog is replaced and the      *)
(* transitions are applied.                                                  *)
PersistRevision(p) ==
    /\ pool[p].pc = "repersist"
    /\ pool' = [pool EXCEPT ![p].catalog = CatalogOf(pool[p].txn), ![p].txn = None,
                            ![p].pc = "idle"]
    /\ UNCHANGED <<users, identity, epochs, dial>>

PersistRevisionFails(p) ==
    /\ PersistMayFail
    /\ pool[p].pc = "repersist"
    /\ Rollback(pool[p].txn)
    /\ pool' = [pool EXCEPT ![p].txn = None, ![p].pc = "idle"]
    /\ UNCHANGED <<users, dial>>

-----------------------------------------------------------------------------
(* OnRuntimeEpochRetire up to the release of lifecycleAccess, called when a  *)
(* newer configuration takes over or by Close.                               *)
BeginRetire(p) ==
    /\ pool[p].phase # "none" /\ pool[p].retire = "no"
    /\ pool' = [pool EXCEPT ![p].phase = "retired", ![p].retire = "pending"]
    /\ UNCHANGED <<users, identity, epochs, dial>>

(* A faulty retirement: the epoch goes although leases are outstanding. *)
RetireEpochAtOnce(p) ==
    /\ pool[p].retire = "pending" /\ ~CatalogLocked(p)
    /\ epochs' = Without(epochs, pool[p].epoch)
    /\ Cleanup(users, epochs')
    /\ pool' = [pool EXCEPT ![p].retire = "done"]
    /\ UNCHANGED <<users, dial>>

(* OnRuntimeEpochRetire: RetireEpoch, once catalogAccess is free. *)
RetireEpoch(p) ==
    LET e == pool[p].epoch IN
    /\ pool[p].retire = "pending" /\ ~CatalogLocked(p)
    /\ IF e \in DOMAIN epochs
       THEN /\ epochs' = IF epochs[e].refs = 0 THEN Without(epochs, e)
                         ELSE [epochs EXCEPT ![e].life = "retiring"]
            /\ Cleanup(users, epochs')
       ELSE UNCHANGED <<identity, epochs>>
    /\ pool' = [pool EXCEPT ![p].retire = "done"]
    /\ UNCHANGED <<users, dial>>

(* Close, after OnRuntimeEpochRetire: UnregisterGroup. *)
UnregisterGroup(p) ==
    /\ pool[p].retire = "done"
    /\ users' = users - 1
    /\ Cleanup(users - 1, epochs)
    /\ pool' = [pool EXCEPT ![p].retire = "closed"]
    /\ UNCHANGED <<epochs, dial>>

-----------------------------------------------------------------------------
(* DialContext past waitUntilPublished: the dial takes the pool's catalog    *)
(* and picks a node of it.                                                   *)
PlanDial(d, p) ==
    /\ dial[d].pc = "idle"
    /\ pool[p].published /\ pool[p].catalog # None
    /\ \E n \in Nodes :
          /\ pool[p].catalog.handles[n].slot # 0
          /\ dial' = [dial EXCEPT ![d] =
                [pc |-> "planned", epoch |-> pool[p].catalog.epoch,
                 revision |-> pool[p].catalog.revision,
                 generation |-> pool[p].catalog.generation,
                 node |-> n, handle |-> pool[p].catalog.handles[n], of |-> p]]
    /\ UNCHANGED <<users, identity, epochs, pool>>

(* beginObservationAttempt: AcquireEpoch of the epoch of that catalog. *)
AcquireEpoch(d) ==
    LET e == dial[d].epoch IN
    /\ dial[d].pc = "planned"
    /\ IF Live(e)
       THEN /\ epochs' = [epochs EXCEPT ![e].refs = @ + 1]
            /\ dial' = [dial EXCEPT ![d].pc = "held",
                                    ![d].of = IF @ = epochs[e].owner THEN @ ELSE None]
       ELSE /\ dial' = [dial EXCEPT ![d] = NoDial]
            /\ UNCHANGED epochs
    /\ UNCHANGED <<users, identity, pool>>

(* A faulty release: the last lease does not reclaim a retiring epoch. *)
ReleaseKeepsEpoch(d) ==
    LET e == dial[d].epoch IN
    /\ dial[d].pc = "held"
    /\ epochs' = IF e \in DOMAIN epochs /\ epochs[e].refs > 0
                 THEN [epochs EXCEPT ![e].refs = @ - 1] ELSE epochs
    /\ dial' = [dial EXCEPT ![d] = NoDial]
    /\ UNCHANGED <<users, identity, pool>>

(* completeTransportAttempt returns: the lease is released, and the last     *)
(* lease of a retiring epoch reclaims it.                                    *)
Release(d) ==
    LET e == dial[d].epoch
        refs == IF epochs[e].refs > 0 THEN epochs[e].refs - 1 ELSE epochs[e].refs
    IN /\ dial[d].pc = "held"
       /\ dial' = [dial EXCEPT ![d] = NoDial]
       /\ IF e \notin DOMAIN epochs THEN UNCHANGED <<identity, epochs>>
          ELSE IF epochs[e].life = "retiring" /\ refs = 0
          THEN epochs' = Without(epochs, e) /\ Cleanup(users, epochs')
          ELSE /\ epochs' = [epochs EXCEPT ![e].refs = refs]
               /\ UNCHANGED identity
       /\ UNCHANGED <<users, pool>>

-----------------------------------------------------------------------------
PoolStep(p) ==
    \/ New(p) \/ Start(p)
    \/ BeginPublish(p) \/ PublishIdentity(p) \/ PublishCheck(p)
    \/ PersistEpoch(p) \/ PersistEpochFails(p)
    \/ PublishCommit(p) \/ PublishRollback(p)
    \/ SourceUpdate(p) \/ PrepareRevision(p) \/ Superseded(p)
    \/ CommitRevision(p) \/ PersistRevision(p) \/ PersistRevisionFails(p)
    \/ BeginRetire(p) \/ RetireEpoch(p) \/ UnregisterGroup(p)

DialStep(d) == (\E p \in Pools : PlanDial(d, p)) \/ AcquireEpoch(d) \/ Release(d)

Next == (\E p \in Pools : PoolStep(p)) \/ (\E d \in Dials : DialStep(d))

Spec == Init /\ [][Next]_vars

-----------------------------------------------------------------------------
(* validateEpochObservation, as ValidateEvidence calls it: the manager       *)
(* accepts the evidence of a held attempt.                                   *)
Accepts(a) ==
    /\ identity # None
    /\ a.epoch \in DOMAIN epochs
    /\ a.revision <= epochs[a.epoch].revision
    /\ a.generation <= epochs[a.epoch].generation
    /\ identity.present[a.node]
    /\ identity.handle[a.node].slot = a.handle.slot
    /\ identity.handle[a.node].version = a.handle.version
    /\ epochs[a.epoch].handles[a.node].slot = a.handle.slot
    /\ epochs[a.epoch].handles[a.node].version = a.handle.version
    /\ a.revision >= epochs[a.epoch].handles[a.node].born

Holders(e) == {d \in Dials : dial[d].pc = "held" /\ dial[d].epoch = e}

(* The shape of the manager, of every transaction and of every attempt: the  *)
(* fields of runtime_manager.go's structs.                                   *)
TypeOK ==
    /\ users \in 0..Cardinality(Pools)
    /\ identity \in Identity \cup {None}
    /\ DOMAIN epochs \subseteq Nat /\ \A e \in DOMAIN epochs : epochs[e] \in Epoch
    /\ pool \in [Pools -> PoolState]
    /\ dial \in [Dials -> DialState]

(* The reference count of an epoch is the number of attempts that hold a     *)
(* lease on it (AcquireEpoch, Release), whatever publications run meanwhile. *)
RefCountExact ==
    /\ TypeOK
    /\ \A e \in DOMAIN epochs : epochs[e].refs = Cardinality(Holders(e))

(* Evidence of an attempt that holds its lease is accepted as long as the    *)
(* node's handle is still the current one: "Observation transactions remain  *)
(* alive until epoch leases drain so late real failures are not lost"        *)
(* (outbound.go:650-651).                                                    *)
EvidenceNotLost ==
    \A d \in Dials :
        (/\ dial[d].pc = "held" /\ dial[d].of # None
         /\ identity # None
         /\ identity.present[dial[d].node]
         /\ identity.handle[dial[d].node] = dial[d].handle)
        => Accepts(dial[d])

(* A retiring epoch is kept only for the leases it still has ("retired epoch *)
(* survived final lease release", epoch_identity_contract_test.go:172).      *)
RetiringEpochHeld ==
    \A e \in DOMAIN epochs : epochs[e].life = "retiring" => Holders(e) # {}

(* A handle that a committed revision retired (its health and its leases are *)
(* dropped by applyCommittedTransitions) never becomes current again: the    *)
(* slots and versions of preparePublish survive rollbacks and the removal,   *)
(* the return and the eviction of nodes.                                     *)
NeverRevived(s) ==
    \A n \in Nodes : s.present[n] => <<n, s.handle[n].slot, s.handle[n].version>> \notin s.dead

NoHandleRevival ==
    /\ identity # None => NeverRevived(identity)
    /\ \A p \in Pools : pool[p].txn # None => NeverRevived(pool[p].txn.next)

(* Two nodes never share a slot, and no slot exceeds the counter, in the     *)
(* committed identity and in every prepared one.                             *)
SlotsDistinct(s) ==
    \A m, n \in Nodes :
        /\ s.handle[n].slot <= s.nextSlot
        /\ (s.handle[m].slot # 0 /\ s.handle[m].slot = s.handle[n].slot) => m = n

SlotsUnique ==
    /\ identity # None => SlotsDistinct(identity)
    /\ \A p \in Pools : pool[p].txn # None => SlotsDistinct(pool[p].txn.next)

(* When every pool is closed and every attempt is finished nothing of the    *)
(* group remains (tryCleanupGroupLocked).                                    *)
GroupReclaimed ==
    (/\ \A p \in Pools : pool[p].phase = "none" \/ (pool[p].retire = "closed" /\ pool[p].pc = "idle")
     /\ \A d \in Dials : dial[d].pc # "held")
    => identity = None

=============================================================================
