---------------------------- MODULE NodeProfiles ----------------------------
(***************************************************************************)
(* The process-wide registry of probe results that Smart, URLTest and      *)
(* LoadBalance groups share (protocol/group/node_profile_registry.go).     *)
(* One probe at a time runs for an endpoint; callers of the same track     *)
(* join it, callers of another track of the endpoint wait for it.          *)
(*                                                                         *)
(* An entry is written by the call that made it and by nobody else until   *)
(* its done channel is closed, and never again after that (a later probe   *)
(* makes a new entry, and the passive evidence has tracks of its own), so  *)
(* the model hands a joined caller its result when the channel is closed.  *)
(* A channel is named by the call that closes it.  Delays and the lengths  *)
(* of the cadence are left out: a result is due, or not yet.  Callers name *)
(* a track and an endpoint that are not empty.                             *)
(***************************************************************************)
EXTENDS Naturals, FiniteSets, Sequences

CONSTANTS Probers,         \* the callers, each making one call after another
          Tracks,          \* the keys of probe results
          PassiveTracks,   \* the keys of passive evidence
          Endpoints,
          EndpointOf,      \* the endpoint of each track
          ProbeCalls,           \* the calls each prober makes: sets of [track, mode]
          ProbeSlots,      \* cap(r.slots)
          ProfileLimit,    \* nodeProfileRegistryLimit
          DeadAfter,       \* failures after which a profile is dead: 3
          Nil

AllTracks == Tracks \cup PassiveTracks
Modes == {"normal", "forced", "recovery"}   \* force, retryAfterInflight

ASSUME ProfileConstants ==
    /\ EndpointOf \in [Tracks -> Endpoints]
    /\ ProbeCalls \in [Probers -> SUBSET [track : Tracks, mode : Modes]]
    /\ ProbeSlots \in Nat \ {0} /\ ProfileLimit \in Nat \ {0} /\ DeadAfter \in Nat \ {0}
    /\ Tracks \cap PassiveTracks = {} /\ IsFiniteSet(AllTracks)
    /\ Nil \notin Probers \cup AllTracks

VARIABLES
    profiles,   \* r.entries: an entry or Nil
    age,        \* the completed entries from the oldest completedAt
    activity,   \* r.active: the call that owns each endpoint
    prober,     \* the call of each prober
    registry    \* "open", "cancelled" (r.ctx is done) or "cleared"

profileVars == <<profiles, age, activity, prober, registry>>

Outcomes == {"success", "failure", "deferred"}

(* owner: the call that probes, Nil once the entry is not in flight. *)
Profile == [owner : Probers \cup {Nil}, outcome : Outcomes \cup {"none"},
            failures : 0..DeadAfter, due : BOOLEAN]

(* of: the call whose channel this one waits for.  sampled: a probe of the   *)
(* track completed since the call began.  fresh: what the last call          *)
(* returned.                                                                 *)
ProberCall == [pc : {"idle", "enter", "checked", "joined", "served", "queued",
               "admitted", "probing", "finishing"},
         track : Tracks \cup {Nil}, mode : Modes, of : Probers \cup {Nil},
         outcome : Outcomes \cup {"none"}, cancelled : BOOLEAN,
         sampled : BOOLEAN, fresh : BOOLEAN]

IdleCall == [pc |-> "idle", track |-> Nil, mode |-> "normal", of |-> Nil,
             outcome |-> "none", cancelled |-> FALSE, sampled |-> FALSE, fresh |-> FALSE]

ProfilesTypeOK ==
    /\ profiles \in [AllTracks -> Profile \cup {Nil}]
    /\ age \in Seq(AllTracks)
    /\ activity \in [Endpoints -> Probers \cup {Nil}]
    /\ prober \in [Probers -> ProberCall]
    /\ registry \in {"open", "cancelled", "cleared"}

ProfilesInit ==
    /\ profiles = [k \in AllTracks |-> Nil]
    /\ age = <<>>
    /\ activity = [e \in Endpoints |-> Nil]
    /\ prober = [p \in Probers |-> IdleCall]
    /\ registry = "open"

-----------------------------------------------------------------------------
OneMore(failures) == IF failures < DeadAfter THEN failures + 1 ELSE DeadAfter
KeptProfiles(table) == {k \in AllTracks : table[k] # Nil}
Inflight(table, k) == table[k] # Nil /\ table[k].owner # Nil
EndpointFor(p) == EndpointOf[prober[p].track]
Removed(s, K) == SelectSeq(s, LAMBDA k : k \notin K)

(* The entry runProbeModeInternal makes.  It does not take over the result   *)
(* of the entry it replaces, so previous is the zero result.                 *)
NewProfile(p) == [owner |-> p, outcome |-> "none", failures |-> 0, due |-> FALSE]
Previous(p) == NewProfile(p)

(* The result of a probe; a run that was cancelled keeps previous, deferred  *)
(* and due at once.                                                          *)
Result(p, outcome) ==
    [owner |-> Nil, outcome |-> outcome,
     failures |-> CASE outcome = "success" -> 0
                    [] outcome = "failure" -> OneMore(Previous(p).failures)
                    [] outcome = "deferred" -> Previous(p).failures,
     due |-> outcome = "deferred"]

(* pruneLocked: the completed entries older than an hour, then the oldest    *)
(* ones until there is room for one more.  What is older than an hour is a   *)
(* beginning of the order, long due.                                         *)
PrunedProfiles(table, order) ==
    LET kept == Cardinality(KeptProfiles(table))
        excess == IF kept < ProfileLimit THEN 0 ELSE kept - ProfileLimit + 1
        room == IF excess < Len(order) THEN excess ELSE Len(order)
        old == {n \in 0..Len(order) : \A i \in 1..n : table[order[i]].due} IN
    {{order[i] : i \in 1..(IF n < room THEN room ELSE n)} : n \in old}

Dropped(table, K) == [k \in AllTracks |-> IF k \in K THEN Nil ELSE table[k]]

Returned(p, fresh) ==
    [prober EXCEPT ![p] = [IdleCall EXCEPT !.sampled = fresh /\ prober[p].sampled, !.fresh = fresh]]

-----------------------------------------------------------------------------
(* runProbeModeInternal *)

BeginCall(p, c) ==
    /\ prober[p].pc = "idle"
    /\ prober' = [prober EXCEPT ![p] =
                      [IdleCall EXCEPT !.pc = "enter", !.track = c.track, !.mode = c.mode]]
    /\ UNCHANGED <<profiles, age, activity, registry>>

(* The context of a caller ends. *)
CancelCall(p) ==
    /\ prober[p].pc # "idle" /\ ~prober[p].cancelled
    /\ prober' = [prober EXCEPT ![p].cancelled = TRUE]
    /\ UNCHANGED <<profiles, age, activity, registry>>

Ended(p) == prober[p].cancelled \/ registry # "open"

(* The contexts are looked at before the lock is taken. *)
CheckContexts(p) ==
    /\ prober[p].pc = "enter"
    /\ prober' = IF Ended(p) THEN Returned(p, FALSE) ELSE [prober EXCEPT ![p].pc = "checked"]
    /\ UNCHANGED <<profiles, age, activity, registry>>

JoinInflight(p) ==
    /\ prober[p].pc = "checked" /\ Inflight(profiles, prober[p].track)
    /\ prober' = [prober EXCEPT ![p].pc = "joined", ![p].of = profiles[prober[p].track].owner]
    /\ UNCHANGED <<profiles, age, activity, registry>>

Cached(p) ==
    LET e == profiles[prober[p].track] IN
    e # Nil /\ e.owner = Nil /\ prober[p].mode = "normal" /\ ~e.due

(* A faulty answer: a cached result passes for a new sample. *)
AnswerCachedAsFresh(p) ==
    /\ prober[p].pc = "checked" /\ Cached(p)
    /\ prober' = Returned(p, TRUE)
    /\ UNCHANGED <<profiles, age, activity, registry>>

AnswerCached(p) ==
    /\ prober[p].pc = "checked" /\ Cached(p)
    /\ prober' = Returned(p, FALSE)
    /\ UNCHANGED <<profiles, age, activity, registry>>

MustProbe(p) ==
    prober[p].pc = "checked" /\ ~Inflight(profiles, prober[p].track) /\ ~Cached(p)

(* A faulty admission: force bypasses the endpoint as well as the cadence. *)
EndpointBusyUnlessForced(p) == prober[p].mode = "normal" /\ activity[EndpointFor(p)] # Nil

EndpointBusy(p) == activity[EndpointFor(p)] # Nil

QueueBehind(p) ==
    /\ MustProbe(p) /\ EndpointBusy(p)
    /\ prober' = [prober EXCEPT ![p].pc = "queued", ![p].of = activity[EndpointFor(p)]]
    /\ UNCHANGED <<profiles, age, activity, registry>>

(* The table is pruned when it is full; a call that finds no room after that *)
(* is deferred and gives the endpoint back.                                  *)
AdmitProbe(p) ==
    /\ MustProbe(p) /\ ~EndpointBusy(p)
    /\ \E gone \in IF Cardinality(KeptProfiles(profiles)) < ProfileLimit THEN {{}}
                   ELSE PrunedProfiles(profiles, age) :
         LET k == prober[p].track
             table == Dropped(profiles, gone) IN
         IF Cardinality(KeptProfiles(table)) >= ProfileLimit
         THEN /\ profiles' = table /\ age' = Removed(age, gone)
              /\ prober' = Returned(p, FALSE)
              /\ UNCHANGED activity
         ELSE /\ profiles' = [table EXCEPT ![k] = NewProfile(p)]
              /\ age' = Removed(age, gone \cup {k})
              /\ prober' = [prober EXCEPT ![p].pc = "admitted"]
              /\ activity' = [activity EXCEPT ![EndpointFor(p)] = p]
    /\ UNCHANGED registry

TakeSlot(p) ==
    /\ prober[p].pc = "admitted"
    /\ Cardinality({q \in Probers : prober[q].pc = "probing"}) < ProbeSlots
    /\ prober' = [prober EXCEPT ![p].pc = "probing"]
    /\ UNCHANGED <<profiles, age, activity, registry>>

(* The probe, which its timeout ends, returns and the slot is released. *)
SampleReturns(p, outcome) ==
    /\ prober[p].pc = "probing"
    /\ prober' = [prober EXCEPT ![p].pc = "finishing", ![p].outcome = outcome]
    /\ UNCHANGED <<profiles, age, activity, registry>>

(* The result is stored in the entry, which close() may have dropped from    *)
(* the table, and both channels are closed: joined calls have their result,  *)
(* the calls behind the endpoint begin again.                                *)
SettleProbe(p, outcome) ==
    LET k == prober[p].track
        mine == profiles[k] # Nil /\ profiles[k].owner = p
        fresh == outcome # "deferred" IN
    /\ profiles' = IF mine THEN [profiles EXCEPT ![k] = Result(p, outcome)] ELSE profiles
    /\ age' = IF mine THEN Append(age, k) ELSE age
    /\ activity' = [activity EXCEPT ![EndpointFor(p)] = Nil]
    /\ prober' = [q \in Probers |->
           LET c == [prober[q] EXCEPT !.sampled = @ \/ (fresh /\ prober[q].track = k)] IN
           CASE q = p -> [IdleCall EXCEPT !.sampled = fresh, !.fresh = fresh]
             [] q # p /\ c.pc = "joined" /\ c.of = p ->
                    [c EXCEPT !.pc = "served", !.of = Nil, !.outcome = outcome]
             [] q # p /\ c.pc = "queued" /\ c.of = p -> [c EXCEPT !.pc = "enter", !.of = Nil]
             [] OTHER -> c]
    /\ UNCHANGED registry

(* ctx.Done or r.ctx.Done instead of a slot. *)
GiveUp(p) == prober[p].pc = "admitted" /\ Ended(p) /\ SettleProbe(p, "deferred")

(* A cancellation is not evidence, whatever the probe returned. *)
FinishProbe(p) ==
    /\ prober[p].pc = "finishing"
    /\ SettleProbe(p, IF Ended(p) THEN "deferred" ELSE prober[p].outcome)

(* A joined call reads the result; recovery probes again after a failure. *)
ReadResult(p) ==
    /\ prober[p].pc = "served"
    /\ prober' = IF prober[p].outcome = "failure" /\ prober[p].mode = "recovery"
                 THEN [prober EXCEPT ![p].pc = "enter", ![p].outcome = "none"]
                 ELSE Returned(p, prober[p].outcome # "deferred")
    /\ UNCHANGED <<profiles, age, activity, registry>>

(* The select may take the end of a context although the channel is closed. *)
LeaveWait(p) ==
    /\ prober[p].pc \in {"joined", "served", "queued"} /\ Ended(p)
    /\ prober' = Returned(p, FALSE)
    /\ UNCHANGED <<profiles, age, activity, registry>>

-----------------------------------------------------------------------------
(* recordPassive *)
RecordPassive(k, success) ==
    LET before == profiles[k]
        failures == IF before = Nil THEN 0 ELSE before.failures
        table == [profiles EXCEPT ![k] =
                     [owner |-> Nil, outcome |-> "failure",
                      failures |-> OneMore(failures), due |-> FALSE]]
        order == Append(Removed(age, {k}), k) IN
    /\ \E gone \in IF success THEN {{k}} ELSE PrunedProfiles(table, order) :
          profiles' = Dropped(table, gone) /\ age' = Removed(order, gone)
    /\ UNCHANGED <<activity, prober, registry>>

(* dead: the profile isolates its candidate until the cadence ends. *)
Dead(k) ==
    /\ profiles[k] # Nil /\ profiles[k].owner = Nil /\ profiles[k].outcome # "success"
    /\ profiles[k].failures >= DeadAfter /\ ~profiles[k].due

(* The cadence of a result ends. *)
Elapses(k) ==
    /\ profiles[k] # Nil /\ profiles[k].owner = Nil /\ ~profiles[k].due
    /\ profiles' = [profiles EXCEPT ![k].due = TRUE]
    /\ UNCHANGED <<age, activity, prober, registry>>

(* close, or the end of the context a registry without a manager hangs on. *)
CancelRegistry ==
    /\ registry = "open" /\ registry' = "cancelled"
    /\ UNCHANGED <<profiles, age, activity, prober>>

ClearRegistry ==
    /\ registry = "cancelled" /\ registry' = "cleared"
    /\ profiles' = [k \in AllTracks |-> Nil] /\ age' = <<>>
    /\ UNCHANGED <<activity, prober>>

-----------------------------------------------------------------------------
ProberStep(p) ==
    \/ CheckContexts(p) \/ JoinInflight(p) \/ AnswerCached(p) \/ QueueBehind(p) \/ AdmitProbe(p)
    \/ GiveUp(p) \/ FinishProbe(p) \/ ReadResult(p)
    \/ \E outcome \in {"success", "failure"} : SampleReturns(p, outcome)

ProfilesNext ==
    \/ \E p \in Probers : \E c \in ProbeCalls[p] : BeginCall(p, c)
    \/ \E p \in Probers : ProberStep(p) \/ TakeSlot(p) \/ LeaveWait(p) \/ CancelCall(p)
    \/ \E k \in PassiveTracks, success \in BOOLEAN : RecordPassive(k, success)
    \/ \E k \in AllTracks : Elapses(k)
    \/ CancelRegistry \/ ClearRegistry

ProfilesSpec == ProfilesInit /\ [][ProfilesNext]_profileVars

-----------------------------------------------------------------------------
Owning(p) == prober[p].pc \in {"admitted", "probing", "finishing"}

(* "TCP and UDP must not create simultaneous upstream health traffic for one *)
(* physical node": two calls never own the same endpoint, whatever their     *)
(* mode, also when the table is cleared under a running probe; and a call    *)
(* waits only for one that runs.                                             *)
OneProbePerEndpoint ==
    /\ \A p, q \in Probers : Owning(p) /\ Owning(q) /\ EndpointFor(p) = EndpointFor(q) => p = q
    /\ \A p \in Probers : prober[p].pc \in {"joined", "queued"} =>
           /\ Owning(prober[p].of)
           /\ EndpointFor(prober[p].of) = EndpointFor(p)
           /\ prober[p].pc = "joined" => prober[prober[p].of].track = prober[p].track

(* "A cached result [...] is not a new network sample": a call that reports  *)
(* a fresh result returns it from a probe that completed during the call.    *)
FreshIsNew == \A p \in Probers : prober[p].pc = "idle" /\ prober[p].fresh => prober[p].sampled
=============================================================================
