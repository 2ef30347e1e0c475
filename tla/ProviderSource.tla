--------------------------- MODULE ProviderSource ---------------------------
(***************************************************************************)
(* How a change of a provider's members reaches the catalog of a pool.     *)
(*                                                                         *)
(* A provider (adapter/provider/adapter.go) sets its members, appends the  *)
(* difference to its bounded delta history and calls the groups back.  The *)
(* source runtime (source_a48_v1.go) keeps the last publication it gave,   *)
(* a delta cursor per provider and the providers marked dirty.  The pool   *)
(* (outbound.go, onSourceUpdated and rebuild) asks it for a delta, falls   *)
(* back to a full snapshot, and commits the result to its catalog; before  *)
(* it is published it only remembers that there was an update.             *)
(*                                                                         *)
(* With UseAll a poll registers and drops providers as the provider        *)
(* manager's list changes.                                                 *)
(*                                                                         *)
(* A member is the number of the update that created its outbound, 0 if    *)
(* there is none.  Members of different tags are different nodes, so no    *)
(* duplicate is ever suppressed; filters and identities are left out.      *)
(***************************************************************************)
EXTENDS Naturals, Sequences

CONSTANTS
    Providers,
    Tags,         \* tags of a provider's members
    Starter,      \* the goroutine that starts and publishes the pool
    Poller,       \* the goroutine of pollProviders
    HistoryLimit, \* providerDeltaHistoryLimit
    Budgets,      \* bounds: the changes one behaviour makes
    Nobody

Members == [Tags -> Nat]

ASSUME SourceConstants ==
    /\ Starter # Poller /\ {Starter, Poller} \cap Providers = {}
    /\ Nobody \notin Providers \cup {Starter, Poller} /\ Nobody \notin [Providers -> Members]
    /\ HistoryLimit \in Nat \ {0}
    /\ Budgets \subseteq [updates : [Providers -> Nat], listings : Nat, failures : Nat]

VARIABLES
    members,     \* each provider's members
    revision,    \* deltaRevision and deltaHistory of each provider
    history,
    change,      \* what the update under way has changed
    listed,      \* the provider manager's list
    known,       \* the runtime's providers, with their callbacks
    baseline,    \* lastPublication
    cursor,      \* providerRevisions
    dirty,       \* dirtyProviders
    force,       \* forceFullRefresh
    phase,       \* the pool: publishPhase
    sourceDirty,
    publication, \* sourcePublication
    prepared,    \* preparedExecution
    catalog,     \* the committed execution catalog
    thread,      \* where each goroutine stands
    rebuild,     \* the rebuild that holds catalogAccess
    raced,       \* a snapshot has overwritten what is newer than what it read
    behind,      \* the last rebuild failed
    left         \* bounds: updates of each provider, changes of the manager's
                 \* list and rebuilds that fail after the source was read

providerVars == <<members, revision, history, change, listed>>
runtimeVars == <<known, baseline, cursor, dirty, force>>
poolVars == <<phase, sourceDirty, publication, prepared, catalog>>
ghostVars == <<raced, behind>>
sourceVars == <<providerVars, runtimeVars, poolVars, thread, rebuild, ghostVars, left>>

Threads == Providers \cup {Starter, Poller}
NoMembers == [t \in Tags |-> 0]
NoChange == [upserts |-> {}, removes |-> {}]

NoRebuild == [by |-> Nobody, pc |-> "idle", todo |-> {}, was |-> {}, of |-> Nobody, known |-> {},
         published |-> FALSE, read |-> [p \in Providers |-> NoMembers], at |-> [p \in Providers |-> 0],
         delta |-> [p \in Providers |-> NoChange]]

(* Start has registered the callbacks; Start of the pool is to rebuild.      *)
SourceInit ==
    /\ members = [p \in Providers |-> NoMembers]
    /\ revision = [p \in Providers |-> 0] /\ history = [p \in Providers |-> <<>>]
    /\ change = [p \in Providers |-> NoChange]
    /\ listed = Providers /\ known = Providers
    /\ baseline = Nobody /\ cursor = [p \in Providers |-> 0] /\ dirty = {} /\ force = FALSE
    /\ phase = "starting" /\ sourceDirty = FALSE
    /\ publication = Nobody /\ prepared = Nobody /\ catalog = Nobody
    /\ thread = [th \in Threads |-> IF th = Starter THEN "rebuild" ELSE "idle"]
    /\ rebuild = NoRebuild
    /\ raced = FALSE /\ behind = FALSE /\ left \in Budgets

-----------------------------------------------------------------------------
(* The provider: UpdateOutbounds and UpdateGroups, by one goroutine.         *)

(* The members are replaced under outboundsAccess.                           *)
SetMembers(p, upserts, removes) ==
    /\ thread[p] = "idle" /\ left.updates[p] > 0
    /\ left' = [left EXCEPT !.updates[p] = @ - 1]
    /\ upserts \cup removes # {} /\ upserts \cap removes = {}
    /\ \A t \in removes : members[p][t] # 0
    /\ members' = [members EXCEPT ![p] = [t \in Tags |->
           IF t \in upserts THEN revision[p] + 1
           ELSE IF t \in removes THEN 0 ELSE members[p][t]]]
    /\ change' = [change EXCEPT ![p] = [upserts |-> upserts, removes |-> removes]]
    /\ thread' = [thread EXCEPT ![p] = "record"]
    /\ UNCHANGED <<revision, history, listed, runtimeVars, poolVars, rebuild,
                   ghostVars>>

(* recordOutboundDelta, under deltaAccess.                                   *)
RecordDelta(p) ==
    /\ thread[p] = "record"
    /\ revision' = [revision EXCEPT ![p] = @ + 1]
    /\ LET h == Append(history[p], change[p]) IN
       history' = [history EXCEPT ![p] = IF Len(h) > HistoryLimit THEN Tail(h) ELSE h]
    /\ change' = [change EXCEPT ![p] = NoChange]
    /\ thread' = [thread EXCEPT ![p] = "notify"]
    /\ UNCHANGED <<members, listed, runtimeVars, poolVars, rebuild, ghostVars, left>>

(* UpdateGroups copies the callbacks ...                                     *)
UpdateGroups(p) ==
    /\ thread[p] = "notify"
    /\ thread' = [thread EXCEPT ![p] = IF p \in known THEN "mark" ELSE "idle"]
    /\ UNCHANGED <<providerVars, runtimeVars, poolVars, rebuild, ghostVars, left>>

(* ... and calls the runtime's, which marks the provider.                    *)
MarkProvider(p) ==
    /\ thread[p] = "mark"
    /\ dirty' = dirty \cup {p}
    /\ thread' = [thread EXCEPT ![p] = "updated"]
    /\ UNCHANGED <<providerVars, known, baseline, cursor, force, poolVars, rebuild,
                   ghostVars, left>>

(* A plausible bug: an update while the pool is being published is dropped.  *)
OnSourceUpdatedForgets(th) ==
    /\ thread[th] = "updated"
    /\ thread' = [thread EXCEPT ![th] =
           IF phase \in {"prepared", "publishing"} THEN "idle" ELSE "rebuild"]
    /\ UNCHANGED <<providerVars, runtimeVars, poolVars, rebuild, ghostVars, left>>

(* onSourceUpdated: while the pool is being published the update is only     *)
(* remembered; otherwise the goroutine goes on to rebuild.                   *)
OnSourceUpdated(th) ==
    /\ thread[th] = "updated"
    /\ IF phase \in {"prepared", "publishing"}
       THEN /\ sourceDirty' = TRUE
            /\ thread' = [thread EXCEPT ![th] = "idle"]
       ELSE /\ thread' = [thread EXCEPT ![th] = "rebuild"]
            /\ UNCHANGED sourceDirty
    /\ UNCHANGED <<providerVars, runtimeVars, phase, publication, prepared, catalog, rebuild,
                   ghostVars, left>>

-----------------------------------------------------------------------------
(* The provider manager adds or removes a provider.                          *)
ChangeListing(p) ==
    /\ left.listings > 0 /\ left' = [left EXCEPT !.listings = @ - 1]
    /\ listed' = IF p \in listed THEN listed \ {p} ELSE listed \cup {p}
    /\ UNCHANGED <<members, revision, history, change, runtimeVars, poolVars, thread, rebuild,
                   ghostVars>>

(* reconcileAllProviders: a dropped provider loses callback and cursor, a    *)
(* new one gets both, under the runtime's mutex ...                          *)
Reconcile ==
    /\ thread[Poller] = "idle" /\ known # listed
    /\ known' = listed
    /\ cursor' = [p \in Providers |->
           IF p \in listed \ known THEN revision[p] ELSE IF p \in listed THEN cursor[p] ELSE 0]
    /\ thread' = [thread EXCEPT ![Poller] = "force"]
    /\ UNCHANGED <<providerVars, baseline, dirty, force, poolVars, rebuild, ghostVars, left>>

(* ... which is taken again to ask for a full refresh.                       *)
ForceRefresh ==
    /\ thread[Poller] = "force"
    /\ force' = TRUE
    /\ thread' = [thread EXCEPT ![Poller] = "updated"]
    /\ UNCHANGED <<providerVars, known, baseline, cursor, dirty, poolVars, rebuild,
                   ghostVars, left>>

-----------------------------------------------------------------------------
(* OutboundDelta: the changes after a cursor, if the history still has them. *)
Retained(p, after) == after <= revision[p] /\ after + Len(history[p]) >= revision[p]

DeltaAfter(p, after) ==
    LET h == history[p]
        kept == {h[i] : i \in {i \in 1..Len(h) : revision[p] + i > after + Len(h)}}
    IN  [upserts |-> UNION {c.upserts : c \in kept}, removes |-> UNION {c.removes : c \in kept}]

(* ApplySourceDelta: what is removed or upserted leaves, then the upserted   *)
(* outbounds are added as they were looked up.                               *)
Applied(pub, delta, found) ==
    [p \in Providers |-> [t \in Tags |->
        IF t \in delta[p].upserts THEN found[p][t]
        ELSE IF t \in delta[p].removes THEN 0 ELSE pub[p][t]]]

(* Snapshot copies the providers under the runtime's mutex.                  *)
FullSnapshot(th) ==
    [NoRebuild EXCEPT !.by = th, !.pc = IF known = {} THEN "storeSnapshot" ELSE "snapshot",
                 !.todo = known, !.known = known]

(* rebuild takes catalogAccess.  Delta is refused without a publication, if  *)
(* a full refresh is asked for or no provider is dirty; its copies are made  *)
(* under the runtime's mutex.                                                *)
BeginRebuild(th) ==
    /\ rebuild.pc = "idle" /\ thread[th] = "rebuild"
    /\ rebuild' = IF publication # Nobody /\ baseline # Nobody /\ ~force /\ dirty # {}
                  THEN [NoRebuild EXCEPT !.by = th, !.pc = "delta", !.todo = dirty, !.was = dirty,
                                    !.at = cursor, !.known = known]
                  ELSE FullSnapshot(th)
    /\ UNCHANGED <<providerVars, runtimeVars, poolVars, thread, ghostVars, left>>

(* Delta, one dirty provider: the change log, unless the provider was        *)
(* dropped or the cursor has expired, ...                                    *)
ReadDelta(p) ==
    /\ rebuild.pc = "delta" /\ p \in rebuild.todo
    /\ rebuild' = IF p \in rebuild.known /\ Retained(p, rebuild.at[p])
                  THEN [rebuild EXCEPT !.pc = "lookup", !.of = p, !.todo = @ \ {p},
                                       !.at[p] = revision[p],
                                       !.delta[p] = DeltaAfter(p, rebuild.at[p])]
                  ELSE FullSnapshot(rebuild.by)
    /\ UNCHANGED <<providerVars, runtimeVars, poolVars, thread, ghostVars, left>>

(* ... then the outbounds it names; one that is gone makes it incomplete.    *)
LookUp ==
    /\ rebuild.pc = "lookup"
    /\ LET p == rebuild.of
           up == rebuild.delta[p].upserts
       IN  rebuild' = IF \E t \in up : members[p][t] = 0
                      THEN FullSnapshot(rebuild.by)
                      ELSE [rebuild EXCEPT
                               !.pc = IF rebuild.todo = {} THEN "storeDelta" ELSE "delta",
                               !.of = Nobody,
                               !.read[p] = [t \in Tags |-> IF t \in up THEN members[p][t] ELSE 0]]
    /\ UNCHANGED <<providerVars, runtimeVars, poolVars, thread, ghostVars, left>>

(* The end of Delta, and its use by rebuild: the runtime and the pool apply  *)
(* it to their own copies.  A provider whose revision has not moved on is    *)
(* clean.                                                                    *)
StoreDelta ==
    /\ rebuild.pc = "storeDelta"
    /\ baseline' = Applied(baseline, rebuild.delta, rebuild.read)
    /\ cursor' = [p \in Providers |-> IF p \in rebuild.was THEN rebuild.at[p] ELSE cursor[p]]
    /\ dirty' = {p \in dirty :
                   ~(p \in rebuild.was /\ p \in known /\ rebuild.at[p] = revision[p])}
    /\ publication' = Applied(publication, rebuild.delta, rebuild.read)
    /\ rebuild' = [rebuild EXCEPT !.pc = "stored"]
    /\ UNCHANGED <<providerVars, known, force, phase, sourceDirty, prepared, catalog, thread,
                   ghostVars, left>>

(* Snapshot, one provider: Outbounds.  at is the revision its members have   *)
(* or are about to get.                                                      *)
ReadMembers(p) ==
    /\ rebuild.pc = "snapshot" /\ p \in rebuild.todo
    /\ rebuild' = [rebuild EXCEPT !.todo = @ \ {p}, !.read[p] = members[p],
                                  !.at[p] = revision[p] + (IF thread[p] = "record" THEN 1 ELSE 0),
                                  !.pc = IF rebuild.todo = {p} THEN "storeSnapshot" ELSE @]
    /\ UNCHANGED <<providerVars, runtimeVars, poolVars, thread, ghostVars, left>>

(* The end of Snapshot: the publication is stored with the revisions the     *)
(* providers have now; nothing is dirty and no refresh asked for any more.   *)
StoreSnapshot ==
    /\ rebuild.pc = "storeSnapshot"
    /\ baseline' = rebuild.read
    /\ cursor' = [p \in Providers |-> IF p \in rebuild.known THEN revision[p] ELSE cursor[p]]
    /\ dirty' = {} /\ force' = FALSE
    /\ publication' = rebuild.read
    /\ raced' = (raced \/ rebuild.known # known
                       \/ \E p \in rebuild.known : revision[p] > rebuild.at[p])
    /\ rebuild' = [rebuild EXCEPT !.pc = "stored"]
    /\ UNCHANGED <<providerVars, known, phase, sourceDirty, prepared, catalog, thread, behind,
                   left>>

(* The flag published: the publication was committed and ended.              *)
Published == catalog # Nobody /\ thread[Starter] \in {"idle", "rebuild"}

(* rebuild looks at it once, under lifecycleAccess.                          *)
LookPublished ==
    /\ rebuild.pc = "stored"
    /\ rebuild' = [rebuild EXCEPT !.pc = "commit", !.published = Published]
    /\ UNCHANGED <<providerVars, runtimeVars, poolVars, thread, ghostVars, left>>

(* The goroutine leaves rebuild, with its error or without.                  *)
Leaves ==
    /\ rebuild' = NoRebuild
    /\ thread' = [thread EXCEPT ![rebuild.by] = "idle"]

(* The rest of rebuild.  Of a published pool, identity and catalog are       *)
(* committed; otherwise they are only prepared, whatever the phase is by now.*)
CommitRebuild ==
    /\ rebuild.pc = "commit"
    /\ IF rebuild.published
       THEN catalog' = publication /\ UNCHANGED <<phase, prepared>>
       ELSE prepared' = publication /\ phase' = "prepared" /\ UNCHANGED catalog
    /\ behind' = FALSE
    /\ Leaves
    /\ UNCHANGED <<providerVars, runtimeVars, sourceDirty, publication, raced, left>>

(* A plausible bug: a failed rebuild forgets the publication it has read.    *)
FailRebuildForgets ==
    /\ rebuild.pc = "commit" /\ rebuild.published /\ left.failures > 0
    /\ publication' = catalog
    /\ behind' = TRUE /\ left' = [left EXCEPT !.failures = @ - 1]
    /\ Leaves
    /\ UNCHANGED <<providerVars, runtimeVars, phase, sourceDirty, prepared, catalog, raced>>

(* The identity is refused or not durable: the catalog stays as it was.      *)
FailRebuild ==
    /\ rebuild.pc = "commit" /\ rebuild.published /\ left.failures > 0
    /\ behind' = TRUE /\ left' = [left EXCEPT !.failures = @ - 1]
    /\ Leaves
    /\ UNCHANGED <<providerVars, runtimeVars, poolVars, raced>>

-----------------------------------------------------------------------------
(* OnRuntimeEpochPublish: the phase changes first, then the prepared catalog *)
(* is committed under catalogAccess, unless a rebuild has prepared the pool  *)
(* anew in between.                                                          *)
BeginPublication ==
    /\ thread[Starter] = "idle" /\ phase = "prepared" /\ catalog = Nobody
    /\ phase' = "publishing"
    /\ thread' = [thread EXCEPT ![Starter] = "publish"]
    /\ UNCHANGED <<providerVars, runtimeVars, sourceDirty, publication, prepared, catalog,
                   rebuild, ghostVars, left>>

Publish ==
    /\ thread[Starter] = "publish" /\ rebuild.pc = "idle"
    /\ IF phase = "publishing"
       THEN /\ catalog' = prepared
            /\ thread' = [thread EXCEPT ![Starter] = "commit"]
       ELSE /\ thread' = [thread EXCEPT ![Starter] = "superseded"]
            /\ UNCHANGED catalog
    /\ UNCHANGED <<providerVars, runtimeVars, phase, sourceDirty, publication, prepared,
                   rebuild, ghostVars, left>>

(* OnRuntimeEpochPublishCommit makes the pool active, with the same          *)
(* exception, and replays an update that was remembered.                     *)
EndPublication ==
    /\ thread[Starter] = "commit"
    /\ IF phase = "publishing"
       THEN /\ phase' = "active" /\ sourceDirty' = FALSE
            /\ thread' = [thread EXCEPT ![Starter] = IF sourceDirty THEN "rebuild" ELSE "idle"]
       ELSE /\ thread' = [thread EXCEPT ![Starter] = "superseded"]
            /\ UNCHANGED <<phase, sourceDirty>>
    /\ UNCHANGED <<providerVars, runtimeVars, publication, prepared, catalog, rebuild,
                   ghostVars, left>>

SourceNext ==
    \/ \E p \in Providers :
          \/ \E U, R \in SUBSET Tags : SetMembers(p, U, R)
          \/ RecordDelta(p) \/ UpdateGroups(p) \/ MarkProvider(p)
          \/ ChangeListing(p) \/ ReadDelta(p) \/ ReadMembers(p)
    \/ \E th \in Threads : OnSourceUpdated(th) \/ BeginRebuild(th)
    \/ Reconcile \/ ForceRefresh
    \/ LookUp \/ StoreDelta \/ StoreSnapshot
    \/ LookPublished \/ CommitRebuild \/ FailRebuild
    \/ BeginPublication \/ Publish \/ EndPublication

SourceSpec == SourceInit /\ [][SourceNext]_sourceVars

-----------------------------------------------------------------------------
(* Types.                                                                    *)
SourceTypeOK ==
    /\ members \in [Providers -> Members]
    /\ revision \in [Providers -> Nat] /\ cursor \in [Providers -> Nat]
    /\ dirty \subseteq Providers /\ known \subseteq Providers
    /\ phase \in {"starting", "prepared", "publishing", "active"}
    /\ \A pub \in {baseline, publication, prepared, catalog} :
          pub # Nobody => pub \in [Providers -> Members]

(* Nothing is on its way: no update, no callback, no rebuild.                *)
Quiet ==
    /\ \A th \in Threads : thread[th] = "idle"
    /\ rebuild.pc = "idle" /\ phase = "active" /\ known = listed

UpToDate == catalog = [p \in Providers |-> IF p \in known THEN members[p] ELSE NoMembers]

(* provider.go: a consumer follows the change cursor and falls back to       *)
(* Outbounds when the cursor is no longer retained.  When everything has     *)
(* settled, the catalog has the members every listed provider has: an        *)
(* earlier failed rebuild is made good by the next one, and a change between *)
(* the steps of a delta, a dropped provider's late callback or an update     *)
(* while the pool was being published is not lost.  The code does not        *)
(* promise more: after the last rebuild failed, or once a snapshot has       *)
(* overwritten a cursor or a refresh newer than what it had read             *)
(* (StoreSnapshot), the catalog may stay behind.                             *)
ConvergesUnlessRaced == Quiet /\ ~raced /\ ~behind => UpToDate

(* The runtime computes its deltas against lastPublication and the pool      *)
(* applies them to sourcePublication: between rebuilds the two are the same, *)
(* also after a rebuild that failed.                                         *)
BaselinesAgree == rebuild.pc = "idle" => baseline = publication
=============================================================================
