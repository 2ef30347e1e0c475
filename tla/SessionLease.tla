---------------------------- MODULE SessionLease ----------------------------
(***************************************************************************)
(* The session lease table of an adaptive pool                             *)
(* (protocol/group/adaptive/lease.go) together with the dials that use it  *)
(* (AdaptivePool.DialContext and ListenPacket in outbound.go).             *)
(*                                                                         *)
(* A lease binds a session key to one incarnation of a node.  The first    *)
(* dial of a session becomes its leader: Reserve gives it a reservation    *)
(* and every later dial of the same key sleeps on the reservation's        *)
(* channel until the leader commits, aborts, or Clear discards the         *)
(* reservation.  Every operation runs under the manager's mutex, so each   *)
(* is one action; the time a dial spends planning and connecting is the    *)
(* gap between its actions.                                                *)
(***************************************************************************)
EXTENDS Integers, Sequences, FiniteSets

CONSTANTS Dials,        \* calls of DialContext/ListenPacket, one each
          Keys,         \* session keys
          Nodes,        \* node identities
          Incarnations, \* (slot, version) pairs a node identity goes through
          MaxEntries,   \* SessionLeaseManager.maxEntries
          TTL,          \* leaseTTL of the mode
          MaxTime,      \* bound on the clock
          MaxClears,    \* bound on control changes
          None          \* the nil pointer

ASSUME LeaseConstants ==
    /\ MaxEntries \in Nat \ {0}
    /\ TTL \in Nat \ {0}
    /\ MaxTime \in Nat
    /\ MaxClears \in Nat
    /\ IsFiniteSet(Keys)

Handle == [node : Nodes, inc : Incarnations]
Lease == [handle : Handle, expires : Nat]
Pending == [gen : Nat, token : Nat]

ASSUME NoneIsFresh == None \notin Handle \cup Lease \cup Pending \cup Keys

VARIABLES now,        \* the wall clock
          leases,     \* SessionLeaseManager.leases
          lru,        \* SessionLeaseManager.lru, front first
          pending,    \* SessionLeaseManager.pending
          generation, \* SessionLeaseManager.generation
          nextToken,  \* SessionLeaseManager.nextToken
          open,       \* tokens whose pendingRecord.wait is not closed
          dial        \* where each call stands, and what it holds

leaseVars == <<now, leases, lru, pending, generation, nextToken, open, dial>>
table == <<leases, lru>>
reservations == <<pending, nextToken, open>>

(* pc: "idle" before Reserve; "waiting" on the channel of reservation token; *)
(* "reserved" with a LeaseReservation; "leased" with the copy of the lease   *)
(* Reserve returned; "done" once the call has returned.                      *)
LeaseDial == [pc : {"idle", "waiting", "reserved", "leased", "done"},
              key : Keys \cup {None}, at : Nat, gen : Nat, token : Nat,
              seen : Handle \cup {None}]

IdleDial == [pc |-> "idle", key |-> None, at |-> 0, gen |-> 0, token |-> 0,
             seen |-> None]

Leased == {k \in Keys : leases[k] # None}

LeaseInit ==
    /\ now = 0
    /\ leases = [k \in Keys |-> None]
    /\ lru = <<>>
    /\ pending = [k \in Keys |-> None]
    /\ generation = 0
    /\ nextToken = 0
    /\ open = {}
    /\ dial = [d \in Dials |-> IdleDial]

-----------------------------------------------------------------------------
(* list.List: removal and insertion at the front. *)

Without(s, k) == SelectSeq(s, LAMBDA e : e # k)

MoveToFront(s, k) == <<k>> \o Without(s, k)

(* removeLocked on every key of ks. *)
RemoveLocked(ks) ==
    /\ leases' = [k \in Keys |-> IF k \in ks THEN None ELSE leases[k]]
    /\ lru' = SelectSeq(lru, LAMBDA e : e \notin ks)

Finished(d) == [dial EXCEPT ![d] = [IdleDial EXCEPT !.pc = "done"]]

Live(k, at) == leases[k] # None /\ leases[k].expires > at

(***************************************************************************)
(* One turn of the loop of Reserve.  at is the time the caller read before *)
(* calling Reserve: a call that slept and loops keeps it.                  *)
(***************************************************************************)
Hit(d, k, at) ==
    /\ Live(k, at)
    /\ lru' = MoveToFront(lru, k)
    /\ dial' = [dial EXCEPT ![d] = [pc |-> "leased", key |-> k, at |-> 0,
           gen |-> 0, token |-> 0, seen |-> leases[k].handle]]
    /\ UNCHANGED <<now, leases, reservations, generation>>

Join(d, k, at) ==
    /\ ~Live(k, at)
    /\ RemoveLocked({k})
    /\ pending[k] # None
    /\ dial' = [dial EXCEPT ![d] = [pc |-> "waiting", key |-> k, at |-> at,
           gen |-> 0, token |-> pending[k].token, seen |-> None]]
    /\ UNCHANGED <<now, reservations, generation>>

(* A faulty Reserve that leads although another call already does. *)
LeadOverPending(d, k, at) ==
    /\ ~Live(k, at)
    /\ RemoveLocked({k})
    /\ nextToken' = nextToken + 1
    /\ pending' = [pending EXCEPT ![k] = [gen |-> generation, token |-> nextToken + 1]]
    /\ open' = open \cup {nextToken + 1}
    /\ dial' = [dial EXCEPT ![d] = [pc |-> "reserved", key |-> k, at |-> 0,
           gen |-> generation, token |-> nextToken + 1, seen |-> None]]
    /\ UNCHANGED <<now, generation>>

Lead(d, k, at) ==
    /\ ~Live(k, at)
    /\ RemoveLocked({k})
    /\ pending[k] = None
    /\ nextToken' = nextToken + 1
    /\ pending' = [pending EXCEPT ![k] = [gen |-> generation, token |-> nextToken + 1]]
    /\ open' = open \cup {nextToken + 1}
    /\ dial' = [dial EXCEPT ![d] = [pc |-> "reserved", key |-> k, at |-> 0,
           gen |-> generation, token |-> nextToken + 1, seen |-> None]]
    /\ UNCHANGED <<now, generation>>

TryReserve(d, k, at) == Hit(d, k, at) \/ Join(d, k, at) \/ Lead(d, k, at)

Reserve(d, k) == dial[d].pc = "idle" /\ TryReserve(d, k, now)

(* The select of Reserve: the channel is closed, or the context is done. *)
Wake(d) ==
    /\ dial[d].pc = "waiting"
    /\ dial[d].token \notin open
    /\ TryReserve(d, dial[d].key, dial[d].at)

Cancel(d) ==
    /\ dial[d].pc = "waiting"
    /\ dial' = Finished(d)
    /\ UNCHANGED <<now, table, reservations, generation>>

(* finishPendingLocked for the reservation dial d holds. *)
PendingOwnedBy(d) ==
    pending[dial[d].key] = [gen |-> dial[d].gen, token |-> dial[d].token]

(* A faulty end of a reservation: the channel stays open. *)
FinishPendingKeepsChannel(d) ==
    IF PendingOwnedBy(d)
      THEN pending' = [pending EXCEPT ![dial[d].key] = None] /\ UNCHANGED open
      ELSE UNCHANGED <<pending, open>>

FinishPending(d) ==
    IF PendingOwnedBy(d)
      THEN /\ pending' = [pending EXCEPT ![dial[d].key] = None]
           /\ open' = open \ {dial[d].token}
      ELSE UNCHANGED <<pending, open>>

(* PushFront of key k, then removeOldestLocked while the table is too large. *)
(* The table held at most MaxEntries keys, so at most one goes.              *)
Insert(k, lease) ==
    LET inserted == [leases EXCEPT ![k] = lease]
        order == <<k>> \o lru
        oldest == order[Len(order)]
        full == Cardinality(Leased \cup {k}) > MaxEntries
    IN  /\ leases' = IF full THEN [inserted EXCEPT ![oldest] = None] ELSE inserted
        /\ lru' = IF full THEN SubSeq(order, 1, Len(order) - 1) ELSE order

(* A faulty commit that does not look at the generation or the owner. *)
CommitUnfenced(d, h) ==
    /\ dial[d].pc = "reserved"
    /\ Insert(dial[d].key, [handle |-> h, expires |-> now + TTL])
    /\ FinishPending(d)
    /\ dial' = Finished(d)
    /\ UNCHANGED <<now, generation, nextToken>>

(* The dial succeeded on handle h and holds a reservation: CommitHandle. *)
CommitHandle(d, h) ==
    /\ dial[d].pc = "reserved"
    /\ IF dial[d].gen = generation /\ PendingOwnedBy(d)
         THEN /\ Insert(dial[d].key, [handle |-> h, expires |-> now + TTL])
              /\ FinishPending(d)
         ELSE UNCHANGED <<table, pending, open>>
    /\ dial' = Finished(d)
    /\ UNCHANGED <<now, generation, nextToken>>

(* Planning or dialling failed with a reservation in hand: Abort. *)
Abort(d) ==
    /\ dial[d].pc = "reserved"
    /\ FinishPending(d)
    /\ dial' = Finished(d)
    /\ UNCHANGED <<now, table, generation, nextToken>>

(* A faulty replacement: the expected handle is ignored. *)
ReplaceUnconditionally(d, h) ==
    /\ dial[d].pc = "leased" /\ h # dial[d].seen
    /\ IF leases[dial[d].key] # None
         THEN /\ leases' = [leases EXCEPT ![dial[d].key] = [handle |-> h, expires |-> now + TTL]]
              /\ lru' = MoveToFront(lru, dial[d].key)
         ELSE UNCHANGED table
    /\ dial' = Finished(d)
    /\ UNCHANGED <<now, reservations, generation>>

(* The dial was given a lease and connected through another handle. *)
ReplaceHandle(d, h) ==
    LET k == dial[d].key IN
    /\ dial[d].pc = "leased" /\ h # dial[d].seen
    /\ IF leases[k] # None /\ leases[k].handle = dial[d].seen
         THEN /\ leases' = [leases EXCEPT ![k] = [handle |-> h, expires |-> now + TTL]]
              /\ lru' = MoveToFront(lru, k)
         ELSE UNCHANGED table
    /\ dial' = Finished(d)
    /\ UNCHANGED <<now, reservations, generation>>

(* The dial was given a lease and connected through the leased handle. *)
RenewHandle(d) ==
    LET k == dial[d].key IN
    /\ dial[d].pc = "leased"
    /\ IF leases[k] # None /\ leases[k].handle = dial[d].seen
         THEN /\ leases' = [leases EXCEPT ![k].expires = now + TTL]
              /\ lru' = MoveToFront(lru, k)
         ELSE UNCHANGED table
    /\ dial' = Finished(d)
    /\ UNCHANGED <<now, reservations, generation>>

(* Planning or dialling failed with a lease in hand: nothing is written. *)
FailLeased(d) ==
    /\ dial[d].pc = "leased"
    /\ dial' = Finished(d)
    /\ UNCHANGED <<now, table, reservations, generation>>

(* A failed attempt or a broken connection drops the session's lease. *)
Invalidate(k, n) ==
    /\ leases[k] # None /\ leases[k].handle.node = n
    /\ RemoveLocked({k})
    /\ UNCHANGED <<now, reservations, generation, dial>>

(* A committed catalog revision retires an incarnation. *)
RetireNodeHandle(h) ==
    /\ \E k \in Leased : leases[k].handle = h
    /\ RemoveLocked({k \in Leased : leases[k].handle = h})
    /\ UNCHANGED <<now, reservations, generation, dial>>

(* A faulty Clear that drops the reservations and leaves their channels open. *)
ClearKeepsChannels ==
    /\ generation < MaxClears
    /\ generation' = generation + 1
    /\ leases' = [k \in Keys |-> None]
    /\ lru' = <<>>
    /\ pending' = [k \in Keys |-> None]
    /\ UNCHANGED <<now, nextToken, open, dial>>

(* Clear, on a change of the pinned node. *)
Clear ==
    /\ generation < MaxClears
    /\ generation' = generation + 1
    /\ leases' = [k \in Keys |-> None]
    /\ lru' = <<>>
    /\ pending' = [k \in Keys |-> None]
    /\ open' = open \ {pending[k].token : k \in {j \in Keys : pending[j] # None}}
    /\ UNCHANGED <<now, nextToken, dial>>

Tick ==
    /\ now < MaxTime
    /\ now' = now + 1
    /\ UNCHANGED <<table, reservations, generation, dial>>

Finish(d) == \/ \E h \in Handle : CommitHandle(d, h) \/ ReplaceHandle(d, h)
             \/ Abort(d) \/ RenewHandle(d) \/ FailLeased(d)

AllDone == (\A d \in Dials : dial[d].pc = "done") /\ UNCHANGED leaseVars

LeaseNext ==
    \/ \E d \in Dials :
         \/ \E k \in Keys : Reserve(d, k)
         \/ Wake(d) \/ Cancel(d) \/ Finish(d)
    \/ \E k \in Keys, n \in Nodes : Invalidate(k, n)
    \/ \E h \in Handle : RetireNodeHandle(h)
    \/ Clear \/ Tick \/ AllDone

LeaseSpec == LeaseInit /\ [][LeaseNext]_leaseVars

(* A woken call runs, and every dial returns: attempts carry a timeout and *)
(* each path of DialContext ends in a commit, an abort or a return.        *)
LeaseFairness == \A d \in Dials : WF_leaseVars(Wake(d)) /\ WF_leaseVars(Finish(d))

LeaseFairSpec == LeaseSpec /\ LeaseFairness

-----------------------------------------------------------------------------
(* Properties *)

(* Every variable has its type. *)
StateTypeOK ==
    /\ now \in Nat
    /\ leases \in [Keys -> Lease \cup {None}]
    /\ pending \in [Keys -> Pending \cup {None}]
    /\ generation \in Nat
    /\ nextToken \in Nat
    /\ open \subseteq Nat
    /\ dial \in [Dials -> LeaseDial]
    /\ \A d \in Dials : dial[d].pc \in {"waiting", "reserved", "leased"} => dial[d].key # None
    /\ \A d \in Dials : dial[d].pc = "leased" => dial[d].seen # None

Holds(d, k) == dial[d].pc = "reserved" /\ dial[d].key = k

(* Reserve elects one leader per session: two calls never both hold a live   *)
(* reservation (one made since the last Clear) of the same key, so one       *)
(* session is never bound twice by concurrent first dials.                   *)
SingleLeader ==
    \A k \in Keys : \A d, e \in Dials :
        (Holds(d, k) /\ Holds(e, k) /\ dial[d].gen = generation /\ dial[e].gen = generation)
            => d = e

(* A call asleep in Reserve is woken: as long as its channel is open there   *)
(* is a call still dialling that owns the reservation and will close it.     *)
WaitersHaveLeader ==
    \A d \in Dials :
        (dial[d].pc = "waiting" /\ dial[d].token \in open)
            => \E e \in Dials : Holds(e, dial[d].key) /\ dial[e].token = dial[d].token
                                /\ PendingOwnedBy(e)

(* No reservation outlives the call that made it: abandoned ones would block *)
(* the session for ever.                                                     *)
NoAbandonedReservation ==
    \A k \in Keys : pending[k] # None => \E d \in Dials : Holds(d, k) /\ PendingOwnedBy(d)

(* A key is never leased and reserved at once.  CommitHandle inserts without *)
(* looking for an older record of the key, whose list element would survive  *)
(* and, when evicted, take the live lease with it.                           *)
PendingExcludesLease == \A k \in Keys : pending[k] = None \/ leases[k] = None

(* The tokens identify reservations: those in use are distinct and no newer  *)
(* than the counter, Clear leaves none of an older generation behind, and    *)
(* the open channels are those of the pending records.                       *)
TokensIdentifyReservations ==
    /\ \A k \in Keys : pending[k] # None =>
          pending[k].gen = generation /\ pending[k].token <= nextToken
    /\ \A j, k \in Keys :
          (pending[j] # None /\ pending[k] # None /\ pending[j].token = pending[k].token) => j = k
    /\ \A d \in Dials : dial[d].pc \in {"waiting", "reserved"} => dial[d].token <= nextToken
    /\ \A d \in Dials : dial[d].pc = "reserved" => dial[d].gen <= generation
    /\ \A d, e \in Dials :
          (dial[d].pc = "reserved" /\ dial[e].pc = "reserved" /\ dial[d].token = dial[e].token) => d = e
    /\ \A t \in open : \E k \in Keys : pending[k] # None /\ pending[k].token = t

(* A reservation made since the last Clear is the pending record of its key. *)
LiveReservationIsPending ==
    \A d \in Dials : (dial[d].pc = "reserved" /\ dial[d].gen = generation) => PendingOwnedBy(d)

(* A sleeping call sleeps on the channel of its own key's pending record. *)
WaitersShareKey ==
    \A d \in Dials : (dial[d].pc = "waiting" /\ dial[d].token \in open) =>
        pending[dial[d].key] # None /\ pending[dial[d].key].token = dial[d].token

LeaseInv ==
    /\ StateTypeOK
    /\ TokensIdentifyReservations
    /\ LiveReservationIsPending
    /\ WaitersShareKey
    /\ NoAbandonedReservation
    /\ PendingExcludesLease

(* A control change is a fence: the only way a key becomes leased is by the  *)
(* commit of a reservation made after the last Clear.                        *)
ClearFence ==
    [][\A k \in Keys : (leases[k] = None /\ leases'[k] # None) =>
          \E d \in Dials : Holds(d, k) /\ dial[d].gen = generation /\ dial'[d].pc = "done"]_leaseVars

(* No lost update: the handle of a lease changes only at the hand of a dial  *)
(* that was given the handle it replaces, so of two dials that move the same *)
(* session away from the same node the second leaves the first one's choice. *)
NoLostUpdate ==
    [][\A k \in Keys : (leases[k] # None /\ leases'[k] # None /\ leases'[k].handle # leases[k].handle) =>
          \E d \in Dials : /\ dial[d].pc = "leased" /\ dial[d].key = k
                           /\ dial[d].seen = leases[k].handle /\ dial'[d].pc = "done"]_leaseVars

(* Nobody sleeps in Reserve for ever. *)
WaitersProceed == \A d \in Dials : dial[d].pc = "waiting" ~> dial[d].pc # "waiting"

=============================================================================
