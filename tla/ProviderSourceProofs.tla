------------------------ MODULE ProviderSourceProofs ------------------------
(***************************************************************************)
(* Proofs about ProviderSource, for any number of providers, tags and      *)
(* updates, any length of the change logs and any number of listings and   *)
(* failures: a settled pool has the members its providers have, unless a   *)
(* snapshot was overtaken, and the source and the pool agree on what was   *)
(* published last.                                                         *)
(***************************************************************************)
EXTENDS ProviderSource, TLAPS

(* The sets the variables range over.                                        *)
Change == [upserts : SUBSET Tags, removes : SUBSET Tags]
Points == {"idle", "record", "notify", "mark", "updated", "rebuild", "force", "publish",
           "commit", "superseded"}
RebuildPoints == {"idle", "delta", "lookup", "storeDelta", "snapshot", "storeSnapshot", "stored",
                  "commit"}
Rebuild ==
    [by : Threads \cup {Nobody}, todo : SUBSET Providers, was : SUBSET Providers,
     of : Providers \cup {Nobody}, known : SUBSET Providers, published : BOOLEAN,
     pc : RebuildPoints, read : [Providers -> Members], at : [Providers -> Nat], delta : [Providers -> Change]]

SourceTyped ==
    /\ members \in [Providers -> Members] /\ revision \in [Providers -> Nat]
    /\ history \in [Providers -> Seq(Change)] /\ change \in [Providers -> Change]
    /\ listed \subseteq Providers /\ known \subseteq Providers
    /\ cursor \in [Providers -> Nat] /\ dirty \subseteq Providers
    /\ force \in BOOLEAN /\ sourceDirty \in BOOLEAN /\ raced \in BOOLEAN /\ behind \in BOOLEAN
    /\ phase \in {"starting", "prepared", "publishing", "active"}
    /\ baseline \in [Providers -> Members] \cup {Nobody}
    /\ thread \in [Threads -> Points]
    /\ rebuild \in Rebuild

(* Where a rebuild is: it follows the change logs, or it reads everything.   *)
Following == rebuild.pc \in {"delta", "lookup", "storeDelta"}
Reading == rebuild.pc \in {"snapshot", "storeSnapshot"}
Unread == rebuild.pc \notin {"stored", "commit"}

(* A tag of p may have changed after revision c: the change is under way,    *)
(* the log has it, or the log does not reach back to c.                      *)
Touched(p, t, c) ==
    \/ t \in change[p].upserts \cup change[p].removes
    \/ c + Len(history[p]) < revision[p]
    \/ \E i \in 1..Len(history[p]) : /\ revision[p] + i > c + Len(history[p])
                                     /\ t \in history[p][i].upserts \cup history[p][i].removes

(* What a provider's log says of what was removed.                           *)
LogFits(p) ==
    /\ thread[p] # "record" => change[p] = NoChange
    /\ \A t \in change[p].removes : members[p][t] = 0
    /\ \A i \in 1..Len(history[p]) : \A t \in history[p][i].removes :
          \/ members[p][t] = 0 \/ t \in change[p].upserts
          \/ \E j \in i..Len(history[p]) : t \in history[p][j].upserts
    /\ cursor[p] <= revision[p]

ProvidersInv == \A p \in Providers : LogFits(p)

(* A rebuild that has not begun is on its way.                               *)
Coming ==
    \/ sourceDirty
    \/ \E th \in Threads : thread[th] \in {"updated", "rebuild"} /\ rebuild.by # th

(* The list of providers has changed and no snapshot was taken yet.          *)
Refreshing == force \/ thread[Poller] = "force"

(* Who rebuilds, that the runtime and the pool have the same publication,    *)
(* and that a refresh asked for is still to come.                            *)
ControlInv ==
    /\ rebuild.pc = "idle" => rebuild.by = Nobody
    /\ rebuild.pc # "idle" => rebuild.by \in Threads /\ thread[rebuild.by] = "rebuild"
    /\ baseline = publication
    /\ phase # "starting" \/ Following \/ ~Unread => baseline # Nobody
    /\ phase = "active" => ~sourceDirty
    /\ force => Coming \/ Reading

(* The catalog is the publication once it was committed.                     *)
CatalogInv ==
    /\ rebuild.published => catalog # Nobody /\ thread[Starter] \in {"idle", "rebuild"}
    /\ thread[Starter] = "publish" => catalog = Nobody
    /\ Unread /\ catalog = Nobody /\ phase \in {"prepared", "publishing"} => prepared = publication
    /\ thread[Starter] = "commit" => phase # "active"
    /\ Unread /\ thread[Starter] = "commit" /\ phase = "publishing" => catalog = publication
    /\ Unread /\ phase = "active" /\ ~behind => catalog = publication

(* What a snapshot has read is what the provider has, unless it has changed. *)
ReadingInv ==
    Reading =>
      /\ rebuild.todo \subseteq rebuild.known
      /\ rebuild.pc = "storeSnapshot" => rebuild.todo = {}
      /\ \A p \in Providers \ rebuild.known : rebuild.read[p] = NoMembers
      /\ \A p \in rebuild.known \ rebuild.todo :
           /\ rebuild.at[p] <= revision[p] + 1
           /\ revision[p] < rebuild.at[p] => thread[p] = "record" /\ rebuild.read[p] = members[p]
           /\ revision[p] = rebuild.at[p] =>
                 \A t \in Tags : \/ rebuild.read[p][t] = members[p][t]
                                 \/ t \in change[p].upserts \cup change[p].removes

(* What the delta of p will make of the publication, at tag t.               *)
Becomes(p, t) ==
    IF t \in rebuild.delta[p].upserts THEN rebuild.read[p][t]
    ELSE IF t \in rebuild.delta[p].removes THEN 0 ELSE baseline[p][t]

(* A rebuild from the logs: the providers it was to read, and those it has.  *)
FollowingInv ==
    Following =>
      /\ rebuild.todo \subseteq rebuild.was
      /\ rebuild.was \ rebuild.todo \subseteq rebuild.known
      /\ rebuild.pc = "lookup" => rebuild.of \in rebuild.was \ rebuild.todo
      /\ rebuild.pc = "storeDelta" => rebuild.todo = {}
      /\ \A p \in Providers : rebuild.at[p] <= revision[p]
      /\ \A p \in Providers \ rebuild.was : rebuild.delta[p] = NoChange

(* What the delta will make of the publication is what the provider has,     *)
(* unless it has changed again or is looked up.                              *)
DeltaInv ==
    Following /\ ~Refreshing =>
      /\ rebuild.known = known
      /\ \A p \in rebuild.todo : rebuild.at[p] = cursor[p]
      /\ \A p \in rebuild.was \ rebuild.todo : \A t \in Tags :
           \/ Becomes(p, t) = members[p][t]
           \/ Touched(p, t, rebuild.at[p])
           \/ rebuild.pc = "lookup" /\ rebuild.of = p /\ t \in rebuild.delta[p].upserts

(* The revision the pool will have of p when the rebuild is over.            *)
Reached(p) == IF Following /\ p \in rebuild.was THEN rebuild.at[p] ELSE cursor[p]

(* p has told, or will tell, of a change: its callback is on its way, it is  *)
(* dirty and a rebuild is to come, or the rebuild has yet to read its log.   *)
Noticed(p) ==
    \/ thread[p] \in {"notify", "mark"}
    \/ p \in dirty /\ Coming
    \/ Following /\ p \in rebuild.todo

(* The publication has what p had at its cursor, and what p has changed      *)
(* since then is noticed.                                                    *)
BaselineInv ==
    baseline # Nobody /\ ~Refreshing =>
      /\ \A p \in Providers \ known : baseline[p] = NoMembers
      /\ \A p \in known :
           /\ \A t \in Tags : baseline[p][t] = members[p][t] \/ Touched(p, t, cursor[p])
           /\ Reading \/ Reached(p) = revision[p] \/ Noticed(p)

(* The inductive invariant.  Only its last part needs that no snapshot was   *)
(* overtaken.                                                                *)
SourceInv ==
    /\ SourceTyped /\ ProvidersInv /\ ControlInv /\ CatalogInv /\ ReadingInv /\ FollowingInv
    /\ ~raced => DeltaInv /\ BaselineInv

-----------------------------------------------------------------------------
(* The records a rebuild goes through.                                       *)

(* The record of no rebuild: leaving rebuild resets it.                      *)
LEMMA IdleFields ==
    /\ NoRebuild \in Rebuild /\ NoRebuild.by = Nobody /\ NoRebuild.pc = "idle"
    /\ NoRebuild.published = FALSE
  <1>1. PICK none : none = [p \in Providers |-> NoMembers]
      BY Zenon
  <1>2. PICK zero : zero = [p \in Providers |-> 0]
      BY Zenon
  <1>3. PICK nothing : nothing = [p \in Providers |-> NoChange]
      BY Zenon
  <1>4. none \in [Providers -> Members] /\ zero \in [Providers -> Nat]
        /\ nothing \in [Providers -> Change]
      BY <1>1, <1>2, <1>3, Zenon DEF Members, NoMembers, NoChange, Change
  <1>5. NoRebuild = [by |-> Nobody, pc |-> "idle", todo |-> {}, was |-> {}, of |-> Nobody,
                     known |-> {}, published |-> FALSE, read |-> none, at |-> zero,
                     delta |-> nothing]
      BY <1>1, <1>2, <1>3, Zenon DEF NoRebuild
  <1> QED BY <1>4, <1>5, Zenon DEF Rebuild, RebuildPoints

(* Snapshot starts from the providers the runtime knows.                     *)
AllToRead(r, th) ==
    /\ r \in Rebuild /\ r.by = th /\ r.published = FALSE
    /\ r.pc \in {"snapshot", "storeSnapshot"} /\ (r.pc = "storeSnapshot" => known = {})
    /\ r.todo = known /\ r.known = known
    /\ \A p \in Providers : r.read[p] = NoMembers

LEMMA SnapshotFields ==
    ASSUME SourceTyped, NEW th \in Threads
    PROVE  AllToRead(FullSnapshot(th), th)
  <1> PICK r : r = FullSnapshot(th)
      BY Zenon
  <1>0. PICK pc : pc = IF known = {} THEN "storeSnapshot" ELSE "snapshot"
      BY Zenon
  <1>1. PICK e : e = NoRebuild
      BY Zenon
  <1>2. e \in Rebuild /\ e.published = FALSE
      BY <1>1, IdleFields, Zenon
  <1>3. e.read = [p \in Providers |-> NoMembers]
      BY <1>1, Zenon DEF NoRebuild
  <1>4. r = [e EXCEPT !.by = th, !.pc = pc, !.todo = known, !.known = known]
      BY <1>0, <1>1, Zenon DEF FullSnapshot
  <1>6. known \in SUBSET Providers /\ pc \in RebuildPoints
      BY <1>0, Zenon DEF SourceTyped, RebuildPoints
  <1>7. r \in Rebuild
      BY <1>2, <1>4, <1>6, ZenonT(60) DEF Rebuild
  <1>8. /\ r.by = th /\ r.published = e.published /\ r.pc = pc
        /\ r.todo = known /\ r.known = known /\ r.read = e.read
      BY <1>2, <1>4, Zenon DEF Rebuild
  <1>9. pc \in {"snapshot", "storeSnapshot"} /\ (pc = "storeSnapshot" => known = {})
      BY <1>0, Zenon
  <1> QED BY <1>2, <1>3, <1>7, <1>8, <1>9, Zenon DEF AllToRead

(* Delta starts from the dirty providers and the cursors.                    *)
LEMMA DeltaFields ==
    ASSUME SourceTyped, NEW th \in Threads, NEW r,
           r = [NoRebuild EXCEPT !.by = th, !.pc = "delta", !.todo = dirty, !.was = dirty,
                                 !.at = cursor, !.known = known]
    PROVE  /\ r \in Rebuild /\ r.by = th /\ r.published = FALSE /\ r.pc = "delta"
           /\ r.todo = dirty /\ r.was = dirty /\ r.at = cursor /\ r.known = known
           /\ \A p \in Providers : r.delta[p] = NoChange
  <1>1. PICK e : e = NoRebuild
      BY Zenon
  <1>2. e \in Rebuild /\ e.published = FALSE
      BY <1>1, IdleFields, Zenon
  <1>3. e.delta = [p \in Providers |-> NoChange]
      BY <1>1, Zenon DEF NoRebuild
  <1>4. PICK f : f = [e EXCEPT !.by = th, !.pc = "delta", !.todo = dirty]
      BY Zenon
  <1>5. r = [f EXCEPT !.was = dirty, !.at = cursor, !.known = known]
      BY <1>1, <1>4, Zenon
  <1>6. dirty \in SUBSET Providers /\ known \in SUBSET Providers /\ cursor \in [Providers -> Nat]
        /\ "delta" \in RebuildPoints
      BY Zenon DEF SourceTyped, RebuildPoints
  <1>7. f \in Rebuild
      BY <1>2, <1>4, <1>6, Zenon DEF Rebuild
  <1>8. r \in Rebuild
      BY <1>5, <1>6, <1>7, ZenonT(60) DEF Rebuild
  <1>9. /\ f.by = th /\ f.published = e.published /\ f.pc = "delta" /\ f.todo = dirty
        /\ f.delta = e.delta
      BY <1>2, <1>4, Zenon DEF Rebuild
  <1>10. r.was = dirty /\ r.at = cursor /\ r.known = known
      BY <1>5, <1>7, ZenonT(60) DEF Rebuild
  <1>11. /\ r.by = f.by /\ r.published = f.published /\ r.pc = f.pc /\ r.todo = f.todo
         /\ r.delta = f.delta
      BY <1>5, <1>7, Zenon DEF Rebuild
  <1>12. \A p \in Providers : r.delta[p] = NoChange
    <2>1. r.delta = [p \in Providers |-> NoChange]
        BY <1>3, <1>9, <1>11, Zenon
    <2> QED BY <2>1, Zenon
  <1> QED BY <1>2, <1>8, <1>9, <1>10, <1>11, <1>12, Zenon

(* Snapshot reads the members of a provider.                                 *)
LEMMA ReadFields ==
    ASSUME SourceTyped, NEW p \in Providers, ReadMembers(p)
    PROVE  /\ rebuild' \in Rebuild /\ rebuild'.by = rebuild.by /\ rebuild'.known = rebuild.known
           /\ rebuild'.published = rebuild.published
           /\ rebuild'.pc = (IF rebuild.todo = {p} THEN "storeSnapshot" ELSE "snapshot")
           /\ rebuild'.todo = rebuild.todo \ {p}
           /\ rebuild'.read = [rebuild.read EXCEPT ![p] = members[p]]
           /\ rebuild'.at = [rebuild.at EXCEPT ![p] =
                                revision[p] + (IF thread[p] = "record" THEN 1 ELSE 0)]
  <1>1. PICK e : e = rebuild
      BY Zenon
  <1>2. e \in Rebuild /\ e.pc = "snapshot"
      BY <1>1, Zenon DEF SourceTyped, ReadMembers
  <1>3. PICK todo : todo = e.todo \ {p}
      BY Zenon
  <1>4. PICK read : read = [e.read EXCEPT ![p] = members[p]]
      BY Zenon
  <1>5. PICK at : at = [e.at EXCEPT ![p] = revision[p] + (IF thread[p] = "record" THEN 1 ELSE 0)]
      BY Zenon
  <1>6. PICK pc : pc = IF e.todo = {p} THEN "storeSnapshot" ELSE "snapshot"
      BY Zenon
  <1>7. rebuild' = [e EXCEPT !.todo = todo, !.read = read, !.at = at, !.pc = pc]
      BY <1>1, <1>2, <1>3, <1>4, <1>5, <1>6, Zenon DEF ReadMembers
  <1>8. /\ todo \in SUBSET Providers /\ read \in [Providers -> Members]
        /\ pc \in RebuildPoints
      BY <1>2, <1>3, <1>4, <1>6, Zenon DEF SourceTyped, Rebuild, RebuildPoints
  <1>9. at \in [Providers -> Nat]
    <2>1. e.at \in [Providers -> Nat] /\ revision[p] \in Nat
        BY <1>2, Zenon DEF SourceTyped, Rebuild
    <2> QED BY <1>5, <2>1
  <1>10. rebuild' \in Rebuild
      BY <1>2, <1>7, <1>8, <1>9, Zenon DEF Rebuild
  <1>11. /\ rebuild'.by = e.by /\ rebuild'.known = e.known /\ rebuild'.published = e.published
         /\ rebuild'.pc = pc /\ rebuild'.todo = todo /\ rebuild'.read = read /\ rebuild'.at = at
      BY <1>2, <1>7, Zenon DEF Rebuild
  <1> QED BY <1>1, <1>3, <1>4, <1>5, <1>6, <1>10, <1>11, Zenon

(* Delta reads the change log of a provider that still has it.               *)
LEMMA LogFields ==
    ASSUME SourceTyped, NEW p \in Providers, ReadDelta(p),
           p \in rebuild.known /\ Retained(p, rebuild.at[p])
    PROVE  /\ rebuild' \in Rebuild /\ rebuild'.by = rebuild.by /\ rebuild'.known = rebuild.known
           /\ rebuild'.published = rebuild.published /\ rebuild'.was = rebuild.was
           /\ rebuild'.pc = "lookup" /\ rebuild'.of = p /\ rebuild'.todo = rebuild.todo \ {p}
           /\ rebuild'.read = rebuild.read
           /\ rebuild'.at = [rebuild.at EXCEPT ![p] = revision[p]]
           /\ rebuild'.delta = [rebuild.delta EXCEPT ![p] = DeltaAfter(p, rebuild.at[p])]
  <1>1. PICK e : e = rebuild
      BY Zenon
  <1>2. e \in Rebuild
      BY <1>1, Zenon DEF SourceTyped
  <1>3. PICK todo : todo = e.todo \ {p}
      BY Zenon
  <1>4. PICK at : at = [e.at EXCEPT ![p] = revision[p]]
      BY Zenon
  <1>5. PICK delta : delta = [e.delta EXCEPT ![p] = DeltaAfter(p, e.at[p])]
      BY Zenon
  <1>6. PICK f : f = [e EXCEPT !.pc = "lookup", !.of = p, !.todo = todo]
      BY Zenon
  <1>7. rebuild' = [f EXCEPT !.at = at, !.delta = delta]
      BY <1>1, <1>3, <1>4, <1>5, <1>6, Zenon DEF ReadDelta
  <1>8. todo \in SUBSET Providers /\ at \in [Providers -> Nat] /\ "lookup" \in RebuildPoints
      BY <1>2, <1>3, <1>4, Zenon DEF SourceTyped, Rebuild, RebuildPoints
  <1>9. delta \in [Providers -> Change]
    <2>1. history[p] \in Seq(Change)
        BY Zenon DEF SourceTyped
    <2>2. \A i \in 1..Len(history[p]) : history[p][i] \in Change
        BY <2>1
    <2>3. \A i \in 1..Len(history[p]) : history[p][i].upserts \subseteq Tags /\ history[p][i].removes \subseteq Tags
        BY <2>2, Zenon DEF Change
    <2>4. DeltaAfter(p, e.at[p]) \in Change
        BY <2>3, ZenonT(60) DEF DeltaAfter, Change
    <2>5. e.delta \in [Providers -> Change]
        BY <1>2, Zenon DEF Rebuild
    <2> QED BY <1>5, <2>4, <2>5, Zenon
  <1>10. f \in Rebuild
      BY <1>2, <1>6, <1>8, Zenon DEF Rebuild
  <1>11. rebuild' \in Rebuild
      BY <1>7, <1>8, <1>9, <1>10, Zenon DEF Rebuild
  <1>12. /\ f.by = e.by /\ f.known = e.known /\ f.published = e.published /\ f.was = e.was
         /\ f.pc = "lookup" /\ f.of = p /\ f.todo = todo /\ f.read = e.read
      BY <1>2, <1>6, Zenon DEF Rebuild
  <1>13. /\ rebuild'.by = f.by /\ rebuild'.known = f.known /\ rebuild'.published = f.published
         /\ rebuild'.was = f.was /\ rebuild'.pc = f.pc /\ rebuild'.of = f.of
         /\ rebuild'.todo = f.todo /\ rebuild'.read = f.read
         /\ rebuild'.at = at /\ rebuild'.delta = delta
      BY <1>7, <1>10, Zenon DEF Rebuild
  <1> QED BY <1>1, <1>3, <1>4, <1>5, <1>11, <1>12, <1>13, Zenon

(* Delta looks up the outbounds the change log names.                        *)
LEMMA LookUpFields ==
    ASSUME SourceTyped, LookUp, rebuild.of \in Providers,
           \A t \in rebuild.delta[rebuild.of].upserts : members[rebuild.of][t] # 0
    PROVE  /\ rebuild' \in Rebuild /\ rebuild'.by = rebuild.by /\ rebuild'.known = rebuild.known
           /\ rebuild'.published = rebuild.published /\ rebuild'.was = rebuild.was
           /\ rebuild'.todo = rebuild.todo /\ rebuild'.at = rebuild.at
           /\ rebuild'.delta = rebuild.delta
           /\ rebuild'.pc = (IF rebuild.todo = {} THEN "storeDelta" ELSE "delta")
           /\ rebuild'.read = [rebuild.read EXCEPT ![rebuild.of] =
                 [t \in Tags |-> IF t \in rebuild.delta[rebuild.of].upserts
                                 THEN members[rebuild.of][t] ELSE 0]]
  <1>1. PICK e : e = rebuild
      BY Zenon
  <1>2. e \in Rebuild
      BY <1>1, Zenon DEF SourceTyped
  <1>3. PICK found : found = [t \in Tags |-> IF t \in e.delta[e.of].upserts
                                             THEN members[e.of][t] ELSE 0]
      BY Zenon
  <1>4. PICK read : read = [e.read EXCEPT ![e.of] = found]
      BY Zenon
  <1>5. PICK pc : pc = IF e.todo = {} THEN "storeDelta" ELSE "delta"
      BY Zenon
  <1>6. rebuild' = [e EXCEPT !.pc = pc, !.of = Nobody, !.read = read]
      BY <1>1, <1>3, <1>4, <1>5, Zenon DEF LookUp
  <1>7. read \in [Providers -> Members]
    <2>1. members[e.of] \in Members /\ e.read \in [Providers -> Members]
        BY <1>1, <1>2, Zenon DEF SourceTyped, Rebuild
    <2>2. found \in Members
        BY <1>3, <2>1, Zenon DEF Members
    <2> QED BY <1>4, <2>1, <2>2, Zenon
  <1>8. pc \in RebuildPoints
      BY <1>5, Zenon DEF RebuildPoints
  <1>9. rebuild' \in Rebuild
      BY <1>2, <1>6, <1>7, <1>8, Zenon DEF Rebuild
  <1>10. /\ rebuild'.by = e.by /\ rebuild'.known = e.known /\ rebuild'.published = e.published
         /\ rebuild'.was = e.was /\ rebuild'.todo = e.todo /\ rebuild'.at = e.at
         /\ rebuild'.delta = e.delta /\ rebuild'.pc = pc /\ rebuild'.read = read
      BY <1>2, <1>6, Zenon DEF Rebuild
  <1> QED BY <1>1, <1>3, <1>4, <1>5, <1>9, <1>10, ZenonT(60)

(* The steps that only move the rebuild on.                                  *)
LEMMA StoredFields ==
    ASSUME SourceTyped, rebuild' = [rebuild EXCEPT !.pc = "stored"]
    PROVE  /\ rebuild' \in Rebuild /\ rebuild'.by = rebuild.by /\ rebuild'.pc = "stored"
           /\ rebuild'.published = rebuild.published
  <1>1. rebuild \in Rebuild /\ "stored" \in RebuildPoints
      BY Zenon DEF SourceTyped, RebuildPoints
  <1> QED BY <1>1, Zenon DEF Rebuild

LEMMA LookedFields ==
    ASSUME SourceTyped, LookPublished
    PROVE  /\ rebuild' \in Rebuild /\ rebuild'.by = rebuild.by /\ rebuild'.pc = "commit"
           /\ rebuild'.published = Published
  <1>1. PICK e : e = rebuild
      BY Zenon
  <1>2. PICK b : b = Published
      BY Zenon
  <1>3. rebuild' = [e EXCEPT !.pc = "commit", !.published = b]
      BY <1>1, <1>2, Zenon DEF LookPublished
  <1>4. e \in Rebuild /\ "commit" \in RebuildPoints
      BY <1>1, Zenon DEF SourceTyped, RebuildPoints
  <1>5. b \in BOOLEAN
      BY <1>2, Zenon DEF Published
  <1>6. rebuild' \in Rebuild
      BY <1>3, <1>4, <1>5, Zenon DEF Rebuild
  <1>7. rebuild'.by = e.by /\ rebuild'.pc = "commit" /\ rebuild'.published = b
      BY <1>3, <1>4, Zenon DEF Rebuild
  <1> QED BY <1>1, <1>2, <1>6, <1>7, Zenon

-----------------------------------------------------------------------------
(* Parts of the invariant that a step does not touch.                        *)

LEMMA ProvidersSame ==
    ASSUME ProvidersInv, UNCHANGED <<members, revision, history, change, cursor>>,
           \A p \in Providers : thread[p] = "record" => thread'[p] = "record"
    PROVE  ProvidersInv'
  <1> SUFFICES ASSUME NEW p \in Providers PROVE LogFits(p)'
      BY Zenon DEF ProvidersInv
  <1>1. LogFits(p)
      BY Zenon DEF ProvidersInv
  <1> QED BY <1>1, Zenon DEF LogFits, NoChange

LEMMA ReadingSame ==
    ASSUME ReadingInv, SourceTyped, UNCHANGED <<rebuild, members, revision, change>>,
           \A p \in Providers : thread[p] = "record" => thread'[p] = "record"
    PROVE  ReadingInv'
  <1>1. rebuild.known \subseteq Providers
      BY Zenon DEF SourceTyped, Rebuild
  <1> QED BY <1>1, ZenonT(60) DEF ReadingInv, Reading

LEMMA FollowingSame ==
    ASSUME FollowingInv, UNCHANGED <<rebuild, revision>>
    PROVE  FollowingInv'
  BY Zenon DEF FollowingInv, Following, NoChange

LEMMA DeltaSame ==
    ASSUME DeltaInv, Refreshing => Refreshing',
           UNCHANGED <<rebuild, known, cursor, baseline, members, change, history, revision>>
    PROVE  DeltaInv'
  <1>1. \A p, t : Becomes(p, t)' = Becomes(p, t)
      BY Zenon DEF Becomes
  <1>2. \A p, t, c : Touched(p, t, c)' = Touched(p, t, c)
      BY ZenonT(60) DEF Touched
  <1> QED BY <1>1, <1>2, Zenon DEF DeltaInv, Following

LEMMA BaselineSame ==
    ASSUME BaselineInv, Refreshing => Refreshing', \A p \in known : Noticed(p) => Noticed(p)',
           UNCHANGED <<rebuild, known, cursor, baseline, members, change, history, revision>>
    PROVE  BaselineInv'
  <1> SUFFICES ASSUME baseline # Nobody, ~Refreshing
               PROVE  /\ \A p \in Providers \ known : baseline[p] = NoMembers
                      /\ \A p \in known :
                           /\ \A t \in Tags :
                                 baseline[p][t] = members[p][t] \/ Touched(p, t, cursor[p])'
                           /\ (Reading \/ Reached(p) = revision[p] \/ Noticed(p))'
      BY Zenon DEF BaselineInv
  <1>1. \A p \in known : (Reading \/ Reached(p) = revision[p])' = (Reading \/ Reached(p) = revision[p])
      BY Zenon DEF Reading, Reached, Following
  <1>2. \A p \in known, t \in Tags : Touched(p, t, cursor[p])' = Touched(p, t, cursor[p])
      BY ZenonT(60) DEF Touched
  <1> QED BY <1>1, <1>2, Zenon DEF BaselineInv

(* Steps beside the providers' logs and the rebuild.                         *)
LEMMA AsideInv ==
    ASSUME SourceInv, SourceTyped', ControlInv', CatalogInv',
           UNCHANGED <<members, revision, history, change, known, baseline, cursor, rebuild, raced>>,
           \A p \in Providers : thread[p] = "record" => thread'[p] = "record",
           Refreshing => Refreshing', \A p \in known : Noticed(p) => Noticed(p)'
    PROVE  SourceInv'
  <1>1. ProvidersInv' /\ ReadingInv' /\ FollowingInv'
      BY ProvidersSame, ReadingSame, FollowingSame, Zenon DEF SourceInv
  <1>2. ~raced => DeltaInv' /\ BaselineInv'
      BY DeltaSame, BaselineSame, Zenon DEF SourceInv
  <1> QED BY <1>1, <1>2, Zenon DEF SourceInv

LEMMA Moves ==
    ASSUME SourceTyped, NEW th \in Threads, NEW point \in Points,
           thread' = [thread EXCEPT ![th] = point]
    PROVE  /\ thread' \in [Threads -> Points] /\ thread'[th] = point
           /\ \A u \in Threads : u # th => thread'[u] = thread[u]
  BY Zenon DEF SourceTyped

(* Who the goroutines are.                                                   *)
LEMMA ThreadsApart ==
    /\ Starter \in Threads /\ Poller \in Threads /\ Providers \subseteq Threads
    /\ Starter # Poller /\ Starter \notin Providers /\ Poller \notin Providers
    /\ Nobody \notin Threads
  BY SourceConstants, Zenon DEF Threads

-----------------------------------------------------------------------------
(* Initially.                                                                *)
LEMMA SourceStart == SourceInit => SourceInv
  <1> SUFFICES ASSUME SourceInit PROVE SourceInv
      BY Zenon
  <1>1. /\ rebuild \in Rebuild /\ rebuild.by = Nobody /\ rebuild.pc = "idle"
        /\ rebuild.published = FALSE
      BY IdleFields, Zenon DEF SourceInit
  <1>2. NoMembers \in Members /\ NoChange \in Change /\ <<>> \in Seq(Change)
      BY DEF NoMembers, Members, NoChange, Change
  <1>3. SourceTyped
    <2>1. /\ members \in [Providers -> Members] /\ change \in [Providers -> Change]
          /\ history \in [Providers -> Seq(Change)]
        BY <1>2, Zenon DEF SourceInit
    <2>2. thread \in [Threads -> Points]
        BY Zenon DEF SourceInit, Points
    <2> QED BY <1>1, <2>1, <2>2, Zenon DEF SourceInit, SourceTyped
  <1>4. ProvidersInv
    <2> SUFFICES ASSUME NEW p \in Providers PROVE LogFits(p)
        BY Zenon DEF ProvidersInv
    <2>1. /\ change[p] = NoChange /\ history[p] = <<>> /\ cursor[p] = 0 /\ revision[p] = 0
        BY Zenon DEF SourceInit
    <2>2. NoChange.removes = {} /\ 1..Len(<<>>) = {}
        BY DEF NoChange
    <2> QED BY <2>1, <2>2 DEF LogFits
  <1>5. ~Following /\ ~Reading /\ Unread
      BY <1>1, Zenon DEF Following, Reading, Unread
  <1>6. ControlInv /\ CatalogInv
      BY <1>1, <1>5, Zenon DEF ControlInv, CatalogInv, SourceInit, Threads
  <1> QED BY <1>3, <1>4, <1>5, <1>6, Zenon
          DEF SourceInv, ReadingInv, FollowingInv, DeltaInv, BaselineInv, SourceInit

-----------------------------------------------------------------------------
(* Callbacks, the list of providers and the publication.                     *)

LEMMA UpdateGroupsInv ==
    ASSUME SourceInv, NEW p \in Providers, UpdateGroups(p)
    PROVE  SourceInv'
  <1>0. PICK point : point = IF p \in known THEN "mark" ELSE "idle"
      BY Zenon
  <1>1. /\ thread' = [thread EXCEPT ![p] = point] /\ thread[p] = "notify"
        /\ UNCHANGED <<providerVars, runtimeVars, poolVars, rebuild, ghostVars, left>>
      BY <1>0, Zenon DEF UpdateGroups
  <1>2. UNCHANGED <<members, revision, history, change, listed, known, baseline, cursor, dirty,
                    force, phase, sourceDirty, publication, prepared, catalog, rebuild, raced,
                    behind>>
      BY <1>1, Zenon DEF providerVars, runtimeVars, poolVars, ghostVars
  <1>3. /\ thread' \in [Threads -> Points] /\ thread'[p] = point
        /\ \A u \in Threads : u # p => thread'[u] = thread[u]
    <2>1. p \in Threads /\ point \in Points
        BY <1>0, ThreadsApart, Zenon DEF Points
    <2> QED BY <1>1, <2>1, Moves, Zenon DEF SourceInv
  <1>4. SourceTyped'
      BY <1>2, <1>3, Zenon DEF SourceInv, SourceTyped
  <1>5. Coming => Coming'
      BY <1>1, <1>2, <1>3, Zenon DEF Coming
  <1>6. thread'[Starter] = thread[Starter] /\ thread'[Poller] = thread[Poller]
      BY <1>3, ThreadsApart, Zenon
  <1>7. rebuild.by # p \/ rebuild.pc = "idle"
      BY <1>1, Zenon DEF SourceInv, ControlInv
  <1>8. ControlInv' /\ CatalogInv'
    <2>1. ControlInv'
        BY <1>2, <1>3, <1>5, <1>7, Zenon DEF SourceInv, ControlInv, Following, Unread, Reading
    <2>2. CatalogInv'
        BY <1>2, <1>6, Zenon DEF SourceInv, CatalogInv, Unread
    <2> QED BY <2>1, <2>2, Zenon
  <1>9. \A q \in known : Noticed(q) => Noticed(q)'
    <2> SUFFICES ASSUME NEW q \in known, Noticed(q) PROVE Noticed(q)'
        BY Zenon
    <2>1. q \in Threads
        BY ThreadsApart, Zenon DEF SourceInv, SourceTyped
    <2>2. q = p => thread'[q] = "mark"
        BY <1>0, <1>3, Zenon
    <2> QED BY <1>2, <1>3, <1>5, <2>1, <2>2, Zenon DEF Noticed, Following
  <1>10. \A q \in Providers : thread[q] = "record" => thread'[q] = "record"
      BY <1>1, <1>3, ThreadsApart, Zenon
  <1>11. Refreshing => Refreshing'
      BY <1>2, <1>6, Zenon DEF Refreshing
  <1> QED BY <1>2, <1>4, <1>8, <1>9, <1>10, <1>11, AsideInv, Zenon

LEMMA MarkProviderInv ==
    ASSUME SourceInv, NEW p \in Providers, MarkProvider(p)
    PROVE  SourceInv'
  <1>1. /\ thread' = [thread EXCEPT ![p] = "updated"] /\ thread[p] = "mark"
        /\ dirty' = dirty \cup {p}
        /\ UNCHANGED <<members, revision, history, change, listed, known, baseline, cursor,
                       force, phase, sourceDirty, publication, prepared, catalog, rebuild, raced,
                       behind>>
      BY Zenon DEF MarkProvider, providerVars, poolVars, ghostVars
  <1>3. /\ thread' \in [Threads -> Points] /\ thread'[p] = "updated"
        /\ \A u \in Threads : u # p => thread'[u] = thread[u]
    <2>1. p \in Threads /\ "updated" \in Points
        BY ThreadsApart, Zenon DEF Points
    <2> QED BY <1>1, <2>1, Moves, Zenon DEF SourceInv
  <1>4. SourceTyped'
      BY <1>1, <1>3, Zenon DEF SourceInv, SourceTyped
  <1>6. thread'[Starter] = thread[Starter] /\ thread'[Poller] = thread[Poller]
      BY <1>3, ThreadsApart, Zenon
  <1>7. rebuild.by # p
    <2>1. CASE rebuild.pc = "idle"
        BY <2>1, ThreadsApart, Zenon DEF SourceInv, ControlInv
    <2>2. CASE rebuild.pc # "idle"
        BY <1>1, <2>2, Zenon DEF SourceInv, ControlInv
    <2> QED BY <2>1, <2>2, Zenon
  <1>5. Coming'
      BY <1>1, <1>3, <1>7, ThreadsApart, Zenon DEF Coming
  <1>8. ControlInv' /\ CatalogInv'
    <2>1. ControlInv'
        BY <1>1, <1>3, <1>5, <1>7, Zenon DEF SourceInv, ControlInv, Following, Unread, Reading
    <2>2. CatalogInv'
        BY <1>1, <1>6, Zenon DEF SourceInv, CatalogInv, Unread
    <2> QED BY <2>1, <2>2, Zenon
  <1>9. \A q \in known : Noticed(q) => Noticed(q)'
    <2> SUFFICES ASSUME NEW q \in known, Noticed(q) PROVE Noticed(q)'
        BY Zenon
    <2>1. q \in Threads
        BY ThreadsApart, Zenon DEF SourceInv, SourceTyped
    <2> QED BY <1>1, <1>3, <1>5, <2>1, Zenon DEF Noticed, Following
  <1>10. \A q \in Providers : thread[q] = "record" => thread'[q] = "record"
      BY <1>1, <1>3, ThreadsApart, Zenon
  <1>11. Refreshing => Refreshing'
      BY <1>1, <1>6, Zenon DEF Refreshing
  <1> QED BY <1>1, <1>4, <1>8, <1>9, <1>10, <1>11, AsideInv, Zenon

(* The goroutine of a rebuild is the one that is in rebuild.                 *)
LEMMA NotRebuilding ==
    ASSUME SourceInv, NEW th \in Threads, thread[th] # "rebuild"
    PROVE  rebuild.by # th
  <1>1. CASE rebuild.pc = "idle"
      BY <1>1, ThreadsApart, Zenon DEF SourceInv, ControlInv
  <1>2. CASE rebuild.pc # "idle"
      BY <1>2, Zenon DEF SourceInv, ControlInv
  <1> QED BY <1>1, <1>2, Zenon

(* What is noticed stays so while a rebuild stays on its way.                *)
LEMMA NoticedKept ==
    ASSUME SourceInv, Coming => Coming', UNCHANGED <<known, dirty, rebuild>>,
           \A q \in Providers : thread[q] \in {"notify", "mark"} => thread'[q] = thread[q]
    PROVE  \A q \in known : Noticed(q) => Noticed(q)'
  <1> SUFFICES ASSUME NEW q \in known, Noticed(q) PROVE Noticed(q)'
      BY Zenon
  <1>1. q \in Providers
      BY Zenon DEF SourceInv, SourceTyped
  <1> QED BY <1>1, Zenon DEF Noticed, Following

LEMMA OnSourceUpdatedInv ==
    ASSUME SourceInv, NEW th \in Threads, OnSourceUpdated(th)
    PROVE  SourceInv'
  <1>0. PICK point : point = IF phase \in {"prepared", "publishing"} THEN "idle" ELSE "rebuild"
      BY Zenon
  <1>1. /\ thread' = [thread EXCEPT ![th] = point] /\ thread[th] = "updated"
        /\ sourceDirty' = IF phase \in {"prepared", "publishing"} THEN TRUE ELSE sourceDirty
        /\ UNCHANGED <<members, revision, history, change, listed, known, baseline, cursor,
                       dirty, force, phase, publication, prepared, catalog, rebuild, raced,
                       behind>>
      BY <1>0, Zenon DEF OnSourceUpdated, providerVars, runtimeVars, ghostVars
  <1>2. /\ thread' \in [Threads -> Points] /\ thread'[th] = point
        /\ \A u \in Threads : u # th => thread'[u] = thread[u]
    <2>1. point \in Points
        BY <1>0, Zenon DEF Points
    <2> QED BY <1>1, <2>1, Moves, Zenon DEF SourceInv
  <1>3. rebuild.by # th
      BY <1>1, NotRebuilding, Zenon
  <1>4. Coming'
    <2>1. CASE phase \in {"prepared", "publishing"}
        BY <1>1, <2>1, Zenon DEF Coming
    <2>2. CASE phase \notin {"prepared", "publishing"}
        BY <1>0, <1>1, <1>2, <1>3, <2>2, Zenon DEF Coming
    <2> QED BY <2>1, <2>2, Zenon
  <1>5. SourceTyped'
    <2>1. sourceDirty' \in BOOLEAN
        BY <1>1, Zenon DEF SourceInv, SourceTyped
    <2> QED BY <1>1, <1>2, <2>1, Zenon DEF SourceInv, SourceTyped
  <1>6. ControlInv'
    <2>1. phase' = "active" => ~sourceDirty'
        BY <1>1, Zenon DEF SourceInv, ControlInv
    <2> QED BY <1>1, <1>2, <1>3, <1>4, <2>1, Zenon DEF SourceInv, ControlInv, Following, Unread, Reading
  <1>7. CatalogInv'
    <2>1. \/ thread'[Starter] = thread[Starter]
          \/ thread'[Starter] \in {"idle", "rebuild"}
        BY <1>0, <1>2, ThreadsApart, Zenon
    <2> QED BY <1>1, <2>1, Zenon DEF SourceInv, CatalogInv, Unread
  <1>8. \A q \in Providers : thread[q] \in {"notify", "mark", "record"} => thread'[q] = thread[q]
      BY <1>1, <1>2, ThreadsApart, Zenon
  <1>9. \A q \in known : Noticed(q) => Noticed(q)'
      BY <1>1, <1>4, <1>8, NoticedKept, Zenon
  <1>10. Refreshing => Refreshing'
      BY <1>1, <1>2, ThreadsApart, Zenon DEF Refreshing
  <1> QED BY <1>1, <1>5, <1>6, <1>7, <1>8, <1>9, <1>10, AsideInv, Zenon

LEMMA ChangeListingInv ==
    ASSUME SourceInv, NEW p \in Providers, ChangeListing(p)
    PROVE  SourceInv'
  <1>1. /\ listed' \subseteq Providers
        /\ UNCHANGED <<members, revision, history, change, known, baseline, cursor, dirty, force,
                       phase, sourceDirty, publication, prepared, catalog, thread, rebuild,
                       raced, behind>>
      BY Zenon DEF ChangeListing, SourceInv, SourceTyped, runtimeVars, poolVars, ghostVars
  <1>2. SourceTyped'
      BY <1>1, Zenon DEF SourceInv, SourceTyped
  <1>3. Coming' = Coming
      BY <1>1, Zenon DEF Coming
  <1>4. ControlInv' /\ CatalogInv'
      BY <1>1, <1>3, ZenonT(60) DEF SourceInv, ControlInv, CatalogInv, Following, Unread, Reading
  <1>5. \A q \in known : Noticed(q) => Noticed(q)'
      BY <1>1, <1>3, NoticedKept, Zenon
  <1>6. Refreshing => Refreshing'
      BY <1>1, Zenon DEF Refreshing
  <1> QED BY <1>1, <1>2, <1>4, <1>5, <1>6, AsideInv, Zenon

LEMMA ForceRefreshInv ==
    ASSUME SourceInv, ForceRefresh
    PROVE  SourceInv'
  <1>1. /\ thread' = [thread EXCEPT ![Poller] = "updated"] /\ thread[Poller] = "force"
        /\ force' = TRUE
        /\ UNCHANGED <<members, revision, history, change, listed, known, baseline, cursor,
                       dirty, phase, sourceDirty, publication, prepared, catalog, rebuild, raced,
                       behind>>
      BY Zenon DEF ForceRefresh, providerVars, poolVars, ghostVars
  <1>2. /\ thread' \in [Threads -> Points] /\ thread'[Poller] = "updated"
        /\ \A u \in Threads : u # Poller => thread'[u] = thread[u]
    <2>1. Poller \in Threads /\ "updated" \in Points
        BY ThreadsApart, Zenon DEF Points
    <2> QED BY <1>1, <2>1, Moves, Zenon DEF SourceInv
  <1>3. rebuild.by # Poller
      BY <1>1, NotRebuilding, ThreadsApart, Zenon
  <1>4. Coming'
      BY <1>1, <1>2, <1>3, ThreadsApart, Zenon DEF Coming
  <1>5. SourceTyped'
      BY <1>1, <1>2, Zenon DEF SourceInv, SourceTyped
  <1>6. ControlInv'
      BY <1>1, <1>2, <1>3, <1>4, Zenon DEF SourceInv, ControlInv, Following, Unread, Reading
  <1>7. CatalogInv'
    <2>1. thread'[Starter] = thread[Starter]
        BY <1>2, ThreadsApart, Zenon
    <2> QED BY <1>1, <2>1, Zenon DEF SourceInv, CatalogInv, Unread
  <1>8. \A q \in Providers : thread'[q] = thread[q]
      BY <1>2, ThreadsApart, Zenon
  <1>9. \A q \in known : Noticed(q) => Noticed(q)'
      BY <1>1, <1>4, <1>8, NoticedKept, Zenon
  <1>10. Refreshing => Refreshing'
      BY <1>1, Zenon DEF Refreshing
  <1> QED BY <1>1, <1>5, <1>6, <1>7, <1>8, <1>9, <1>10, AsideInv, Zenon

LEMMA BeginPublicationInv ==
    ASSUME SourceInv, BeginPublication
    PROVE  SourceInv'
  <1>1. /\ thread' = [thread EXCEPT ![Starter] = "publish"] /\ thread[Starter] = "idle"
        /\ phase = "prepared" /\ phase' = "publishing" /\ catalog = Nobody
        /\ UNCHANGED <<members, revision, history, change, listed, known, baseline, cursor,
                       dirty, force, sourceDirty, publication, prepared, catalog, rebuild, raced,
                       behind>>
      BY Zenon DEF BeginPublication, providerVars, runtimeVars, ghostVars
  <1>2. /\ thread' \in [Threads -> Points] /\ thread'[Starter] = "publish"
        /\ \A u \in Threads : u # Starter => thread'[u] = thread[u]
    <2>1. Starter \in Threads /\ "publish" \in Points
        BY ThreadsApart, Zenon DEF Points
    <2> QED BY <1>1, <2>1, Moves, Zenon DEF SourceInv
  <1>3. rebuild.by # Starter
      BY <1>1, NotRebuilding, ThreadsApart, Zenon
  <1>4. Coming => Coming'
      BY <1>1, <1>2, Zenon DEF Coming
  <1>5. SourceTyped'
      BY <1>1, <1>2, Zenon DEF SourceInv, SourceTyped
  <1>6. ControlInv'
      BY <1>1, <1>2, <1>3, <1>4, Zenon DEF SourceInv, ControlInv, Following, Unread, Reading
  <1>7. CatalogInv'
      BY <1>1, <1>2, Zenon DEF SourceInv, CatalogInv, Unread
  <1>8. \A q \in Providers \cup {Poller} : thread'[q] = thread[q]
      BY <1>2, ThreadsApart, Zenon
  <1>9. \A q \in known : Noticed(q) => Noticed(q)'
      BY <1>1, <1>4, <1>8, NoticedKept, Zenon
  <1>10. Refreshing => Refreshing'
      BY <1>1, <1>8, Zenon DEF Refreshing
  <1> QED BY <1>1, <1>5, <1>6, <1>7, <1>8, <1>9, <1>10, AsideInv, Zenon

LEMMA PublishInv ==
    ASSUME SourceInv, Publish
    PROVE  SourceInv'
  <1>0. PICK point : point = IF phase = "publishing" THEN "commit" ELSE "superseded"
      BY Zenon
  <1>1. /\ thread' = [thread EXCEPT ![Starter] = point] /\ thread[Starter] = "publish"
        /\ rebuild.pc = "idle"
        /\ catalog' = IF phase = "publishing" THEN prepared ELSE catalog
        /\ UNCHANGED <<members, revision, history, change, listed, known, baseline, cursor,
                       dirty, force, phase, sourceDirty, publication, prepared, rebuild, raced,
                       behind>>
      BY <1>0, Zenon DEF Publish, providerVars, runtimeVars, ghostVars
  <1>2. /\ thread' \in [Threads -> Points] /\ thread'[Starter] = point
        /\ \A u \in Threads : u # Starter => thread'[u] = thread[u]
    <2>1. Starter \in Threads /\ point \in Points
        BY <1>0, ThreadsApart, Zenon DEF Points
    <2> QED BY <1>1, <2>1, Moves, Zenon DEF SourceInv
  <1>3. rebuild.by # Starter
      BY <1>1, NotRebuilding, ThreadsApart, Zenon
  <1>4. Coming => Coming'
      BY <1>1, <1>2, Zenon DEF Coming
  <1>5. SourceTyped'
      BY <1>1, <1>2, Zenon DEF SourceInv, SourceTyped
  <1>6. ControlInv'
      BY <1>1, <1>2, <1>3, <1>4, Zenon DEF SourceInv, ControlInv, Following, Unread, Reading
  <1>7. CatalogInv'
    <2>1. /\ Unread /\ ~rebuild.published /\ catalog = Nobody
          /\ point \notin {"publish", "idle", "rebuild"}
        BY <1>0, <1>1, Zenon DEF SourceInv, CatalogInv, Unread
    <2>2. CASE phase = "publishing"
      <3>1. prepared = publication /\ catalog' = publication
          BY <1>1, <2>1, <2>2, Zenon DEF SourceInv, CatalogInv
      <3>2. phase' # "active" /\ thread'[Starter] = "commit"
          BY <1>0, <1>1, <1>2, <2>2, Zenon
      <3> QED BY <1>1, <2>1, <3>1, <3>2, Zenon DEF CatalogInv
    <2>3. CASE phase # "publishing"
      <3>1. thread'[Starter] = "superseded" /\ catalog' = catalog
          BY <1>0, <1>1, <1>2, <2>3, Zenon
      <3> QED BY <1>1, <2>1, <3>1, Zenon DEF SourceInv, CatalogInv, Unread
    <2> QED BY <2>2, <2>3, Zenon
  <1>8. \A q \in Providers \cup {Poller} : thread'[q] = thread[q]
      BY <1>2, ThreadsApart, Zenon
  <1>9. \A q \in known : Noticed(q) => Noticed(q)'
      BY <1>1, <1>4, <1>8, NoticedKept, Zenon
  <1>10. Refreshing => Refreshing'
      BY <1>1, <1>8, Zenon DEF Refreshing
  <1> QED BY <1>1, <1>5, <1>6, <1>7, <1>8, <1>9, <1>10, AsideInv, Zenon

LEMMA EndPublicationInv ==
    ASSUME SourceInv, EndPublication
    PROVE  SourceInv'
  <1>0. PICK point : point = IF phase = "publishing"
                             THEN IF sourceDirty THEN "rebuild" ELSE "idle"
                             ELSE "superseded"
      BY Zenon
  <1>1. /\ thread' = [thread EXCEPT ![Starter] = point] /\ thread[Starter] = "commit"
        /\ IF phase = "publishing" THEN phase' = "active" /\ sourceDirty' = FALSE
                                   ELSE UNCHANGED <<phase, sourceDirty>>
        /\ UNCHANGED <<members, revision, history, change, listed, known, baseline, cursor,
                       dirty, force, publication, prepared, catalog, rebuild, raced, behind>>
      BY <1>0, Zenon DEF EndPublication, providerVars, runtimeVars, ghostVars
  <1>2. /\ thread' \in [Threads -> Points] /\ thread'[Starter] = point
        /\ \A u \in Threads : u # Starter => thread'[u] = thread[u]
    <2>1. Starter \in Threads /\ point \in Points
        BY <1>0, ThreadsApart, Zenon DEF Points
    <2> QED BY <1>1, <2>1, Moves, Zenon DEF SourceInv
  <1>3. rebuild.by # Starter
      BY <1>1, NotRebuilding, ThreadsApart, Zenon
  <1>4. Coming => Coming'
    <2>1. CASE phase = "publishing" /\ sourceDirty
      <3>1. thread'[Starter] = "rebuild"
          BY <1>0, <1>2, <2>1, Zenon
      <3> QED BY <1>1, <1>3, <3>1, ThreadsApart, Zenon DEF Coming
    <2>2. CASE ~(phase = "publishing" /\ sourceDirty)
      <3>1. sourceDirty => sourceDirty'
          BY <1>1, <2>2, Zenon
      <3> QED BY <1>1, <1>2, <3>1, Zenon DEF Coming
    <2> QED BY <2>1, <2>2, Zenon
  <1>5. SourceTyped'
    <2>1. sourceDirty' \in BOOLEAN
        BY <1>1, Zenon DEF SourceInv, SourceTyped
    <2>2. phase' \in {"starting", "prepared", "publishing", "active"}
        BY <1>1, Zenon DEF SourceInv, SourceTyped
    <2> QED BY <1>1, <1>2, <2>1, <2>2, Zenon DEF SourceInv, SourceTyped
  <1>6. ControlInv'
    <2>1. (phase' # "starting" => phase # "starting") /\ (phase' = "active" => ~sourceDirty')
        BY <1>1, Zenon DEF SourceInv, ControlInv
    <2> QED BY <1>1, <1>2, <1>3, <1>4, <2>1, Zenon DEF SourceInv, ControlInv, Following, Unread, Reading
  <1>7. CatalogInv'
    <2>1. ~rebuild.published /\ point # "publish" /\ point # "commit"
        BY <1>0, <1>1, Zenon DEF SourceInv, CatalogInv
    <2>2. CASE phase = "publishing"
      <3>1. phase' = "active" /\ (Unread => catalog = publication)
          BY <1>1, <2>2, Zenon DEF SourceInv, CatalogInv
      <3> QED BY <1>1, <1>2, <2>1, <3>1, Zenon DEF CatalogInv, Unread
    <2>3. CASE phase # "publishing"
        BY <1>1, <1>2, <2>1, <2>3, Zenon DEF SourceInv, CatalogInv, Unread
    <2> QED BY <2>2, <2>3, Zenon
  <1>8. \A q \in Providers \cup {Poller} : thread'[q] = thread[q]
      BY <1>2, ThreadsApart, Zenon
  <1>9. \A q \in known : Noticed(q) => Noticed(q)'
      BY <1>1, <1>4, <1>8, NoticedKept, Zenon
  <1>10. Refreshing => Refreshing'
      BY <1>1, <1>8, Zenon DEF Refreshing
  <1> QED BY <1>1, <1>5, <1>6, <1>7, <1>8, <1>9, <1>10, AsideInv, Zenon

-----------------------------------------------------------------------------
(* The provider's own steps.                                                 *)

(* The log g is h and the change c, without its d oldest changes.            *)
Extends(h, c, g, d) ==
    /\ Len(g) = Len(h) + 1 - d /\ Len(g) \in Nat \ {0}
    /\ \A i \in 1..Len(g) : /\ i + d <= Len(h) => g[i] = h[i + d]
                            /\ i + d = Len(h) + 1 => g[i] = c

Logged(h, c) == IF Len(Append(h, c)) > HistoryLimit THEN Tail(Append(h, c)) ELSE Append(h, c)

(* recordOutboundDelta appends the change and drops at most the oldest one.  *)
LEMMA HistoryStep ==
    ASSUME NEW h \in Seq(Change), NEW c \in Change
    PROVE  /\ Logged(h, c) \in Seq(Change)
           /\ \E d \in {0, 1} : Extends(h, c, Logged(h, c), d)
  <1>0. PICK g : g = Logged(h, c)
      BY Zenon
  <1>1. PICK a : a = Append(h, c)
      BY Zenon
  <1>2. /\ a \in Seq(Change) /\ Len(a) = Len(h) + 1 /\ Len(h) \in Nat
        /\ \A i \in 1..Len(h) : a[i] = h[i]
        /\ a[Len(h) + 1] = c
      BY <1>1
  <1>3. CASE Len(a) > HistoryLimit
    <2>1. g = Tail(a) /\ Len(h) # 0
        BY <1>0, <1>1, <1>2, <1>3, SourceConstants DEF Logged
    <2>2. /\ g \in Seq(Change) /\ Len(g) = Len(h)
          /\ \A i \in 1..Len(h) : g[i] = a[i + 1]
        BY <1>2, <2>1
    <2>3. \A i \in 1..Len(g) : /\ i + 1 <= Len(h) => g[i] = h[i + 1]
                               /\ i + 1 = Len(h) + 1 => g[i] = c
      <3> SUFFICES ASSUME NEW i \in 1..Len(h)
                   PROVE  /\ i + 1 <= Len(h) => g[i] = h[i + 1]
                          /\ i + 1 = Len(h) + 1 => g[i] = c
          BY <2>2, Zenon
      <3>1. g[i] = a[i + 1]
          BY <2>2, Zenon
      <3>2. i + 1 <= Len(h) => a[i + 1] = h[i + 1]
          BY <1>2
      <3>3. i + 1 = Len(h) + 1 => a[i + 1] = c
          BY <1>2, Zenon
      <3> QED BY <3>1, <3>2, <3>3, Zenon
    <2>4. Len(g) = Len(h) + 1 - 1 /\ Len(g) \in Nat \ {0}
        BY <1>2, <2>1, <2>2
    <2> QED BY <1>0, <2>2, <2>3, <2>4, Zenon DEF Extends
  <1>4. CASE ~(Len(a) > HistoryLimit)
    <2>1. g = a
        BY <1>0, <1>1, <1>4, Zenon DEF Logged
    <2>2. \A i \in 1..Len(g) : /\ i + 0 <= Len(h) => g[i] = h[i + 0]
                               /\ i + 0 = Len(h) + 1 => g[i] = c
        BY <1>2, <2>1
    <2>3. Len(g) = Len(h) + 1 - 0 /\ Len(g) \in Nat \ {0}
        BY <1>2, <2>1
    <2> QED BY <1>0, <1>2, <2>1, <2>2, <2>3, Zenon DEF Extends
  <1> QED BY <1>3, <1>4, Zenon

(* A tag that may have changed after a revision stays so.                    *)
LEMMA RecordTouches ==
    ASSUME SourceInv, NEW p \in Providers, RecordDelta(p), NEW t \in Tags, NEW c \in Nat,
           c <= revision[p], Touched(p, t, c)
    PROVE  Touched(p, t, c)'
  <1>1. /\ history[p] \in Seq(Change) /\ change[p] \in Change /\ revision[p] \in Nat
        /\ revision'[p] = revision[p] + 1
      BY Zenon DEF SourceInv, SourceTyped, RecordDelta
  <1>2. history'[p] = Logged(history[p], change[p])
      BY Zenon DEF SourceInv, SourceTyped, RecordDelta, Logged
  <1>3. PICK h, g, ch : h = history[p] /\ g = history'[p] /\ ch = change[p]
      BY Zenon
  <1>4. PICK d \in {0, 1} :
           /\ Len(g) = Len(h) + 1 - d
           /\ \A i \in 1..Len(g) : /\ i + d <= Len(h) => g[i] = h[i + d]
                                   /\ i + d = Len(h) + 1 => g[i] = ch
           /\ Len(g) \in Nat \ {0}
    <2>1. h \in Seq(Change) /\ ch \in Change /\ g = Logged(h, ch)
        BY <1>1, <1>2, <1>3, Zenon
    <2>2. PICK d \in {0, 1} : Extends(h, ch, g, d)
        BY <2>1, HistoryStep, Zenon
    <2> QED BY <2>2, Zenon DEF Extends
  <1>5. Len(h) \in Nat
      BY <1>1, <1>3
  <1>6. CASE t \in ch.upserts \cup ch.removes
    <2>1. g[Len(g)] = ch /\ Len(g) \in 1..Len(g) /\ revision[p] + 1 + Len(g) > c + Len(g)
        BY <1>1, <1>4, <1>5, SMTT(60)
    <2> QED BY <1>1, <1>3, <1>6, <2>1, Zenon DEF Touched
  <1>7. CASE c + Len(h) < revision[p]
    <2>1. c + Len(g) < revision[p] + 1
        BY <1>1, <1>4, <1>5, <1>7
    <2> QED BY <1>1, <1>3, <2>1, Zenon DEF Touched
  <1>8. ASSUME NEW i \in 1..Len(h), revision[p] + i > c + Len(h),
               t \in h[i].upserts \cup h[i].removes
        PROVE  Touched(p, t, c)'
    <2>1. CASE i - d \in 1..Len(g)
      <3>1. g[i - d] = h[i] /\ revision[p] + 1 + (i - d) > c + Len(g)
        <4>1. (i - d) + d = i /\ i <= Len(h)
            BY <1>5
        <4>2. g[i - d] = h[i]
            BY <1>4, <2>1, <4>1, Zenon
        <4> QED BY <1>1, <1>4, <1>5, <1>8, <4>2, SMTT(60)
      <3> QED BY <1>1, <1>3, <1>8, <2>1, <3>1, Zenon DEF Touched
    <2>2. CASE i - d \notin 1..Len(g)
      <3>1. c + Len(g) < revision[p] + 1
          BY <1>1, <1>4, <1>5, <1>8, <2>2, SMTT(60)
      <3> QED BY <1>1, <1>3, <3>1, Zenon DEF Touched
    <2> QED BY <2>1, <2>2, Zenon
  <1> QED BY <1>3, <1>6, <1>7, <1>8, Zenon DEF Touched

(* A removed tag is gone unless it was upserted again.                       *)
LEMMA RecordFits ==
    ASSUME SourceInv, NEW p \in Providers, RecordDelta(p)
    PROVE  \A i \in 1..Len(history'[p]) : \A t \in history'[p][i].removes :
              \/ members[p][t] = 0
              \/ \E j \in i..Len(history'[p]) : t \in history'[p][j].upserts
  <1>1. /\ history[p] \in Seq(Change) /\ change[p] \in Change
        /\ history'[p] = Logged(history[p], change[p])
      BY Zenon DEF SourceInv, SourceTyped, RecordDelta, Logged
  <1>2. PICK h, g, ch : h = history[p] /\ g = history'[p] /\ ch = change[p]
      BY Zenon
  <1>3. PICK d \in {0, 1} :
           /\ Len(g) = Len(h) + 1 - d
           /\ \A i \in 1..Len(g) : /\ i + d <= Len(h) => g[i] = h[i + d]
                                   /\ i + d = Len(h) + 1 => g[i] = ch
           /\ Len(g) \in Nat \ {0}
    <2>1. h \in Seq(Change) /\ ch \in Change /\ g = Logged(h, ch)
        BY <1>1, <1>2, Zenon
    <2>2. PICK d \in {0, 1} : Extends(h, ch, g, d)
        BY <2>1, HistoryStep, Zenon
    <2> QED BY <2>2, Zenon DEF Extends
  <1>4. /\ \A t \in ch.removes : members[p][t] = 0
        /\ \A i \in 1..Len(h) : \A t \in h[i].removes :
              \/ members[p][t] = 0 \/ t \in ch.upserts
              \/ \E j \in i..Len(h) : t \in h[j].upserts
      BY <1>2, Zenon DEF SourceInv, ProvidersInv, LogFits
  <1>5. Len(h) \in Nat
      BY <1>1, <1>2
  <1> SUFFICES ASSUME NEW i \in 1..Len(g), NEW t \in g[i].removes
               PROVE  members[p][t] = 0 \/ \E j \in i..Len(g) : t \in g[j].upserts
      BY <1>2, Zenon
  <1>6. CASE i + d = Len(h) + 1
      BY <1>3, <1>4, <1>6, Zenon
  <1>7. CASE i + d <= Len(h)
    <2>1. g[i] = h[i + d] /\ i + d \in 1..Len(h)
        BY <1>3, <1>5, <1>7
    <2>2. CASE t \in ch.upserts
      <3>1. g[Len(g)] = ch /\ Len(g) \in i..Len(g)
          BY <1>3, <1>5
      <3> QED BY <2>2, <3>1, Zenon
    <2>3. ASSUME NEW j \in (i + d)..Len(h), t \in h[j].upserts
          PROVE  \E k \in i..Len(g) : t \in g[k].upserts
      <3>1. j - d \in i..Len(g) /\ j - d \in 1..Len(g) /\ (j - d) + d = j /\ j <= Len(h)
          BY <1>3, <1>5
      <3>2. g[j - d] = h[j]
          BY <1>3, <3>1, Zenon
      <3> QED BY <2>3, <3>1, <3>2, Zenon
    <2> QED BY <1>4, <2>1, <2>2, <2>3, Zenon
  <1> QED BY <1>3, <1>5, <1>6, <1>7, SMTT(60)

(* What a provider's own step keeps, if what it changes is Touched.          *)
LEMMA OwnStep ==
    ASSUME SourceInv, NEW p \in Providers,
           UNCHANGED <<known, baseline, cursor, dirty, force, phase, sourceDirty, publication,
                       prepared, catalog, rebuild, raced, behind>>,
           members' \in [Providers -> Members], revision' \in [Providers -> Nat],
           \A q \in Providers : revision[q] <= revision'[q],
           \A q \in Providers, t \in Tags, c \in Nat :
              c <= revision[q] /\ Touched(q, t, c) => Touched(q, t, c)',
           \A q \in Providers, t \in Tags, c \in Nat :
              c <= revision[q] => members'[q][t] = members[q][t] \/ Touched(q, t, c)',
           \A q \in Providers : revision'[q] = revision[q] \/ thread'[q] = "notify",
           \A q \in Providers : thread[q] \in {"notify", "mark"} => thread'[q] = thread[q],
           Refreshing => Refreshing', Coming => Coming'
    PROVE  FollowingInv' /\ (~raced => DeltaInv' /\ BaselineInv')
  <1>1. FollowingInv'
    <2>1. Following' = Following /\ (Following => \A q \in Providers : rebuild.at[q] <= revision[q])
        BY Zenon DEF Following, SourceInv, FollowingInv
    <2>2. Following => \A q \in Providers : rebuild.at[q] <= revision'[q]
      <3> SUFFICES ASSUME Following, NEW q \in Providers PROVE rebuild.at[q] <= revision'[q]
          BY Zenon
      <3>1. rebuild.at[q] \in Nat /\ revision[q] \in Nat /\ revision'[q] \in Nat
          BY Zenon DEF SourceInv, SourceTyped, Rebuild
      <3> QED BY <2>1, <3>1
    <2> QED BY <2>1, <2>2, Zenon DEF SourceInv, FollowingInv, NoChange
  <1>2. /\ known \subseteq Providers /\ rebuild.was \subseteq Providers
        /\ \A q \in Providers : rebuild.at[q] \in Nat /\ cursor[q] \in Nat /\ cursor[q] <= revision[q]
      BY Zenon DEF SourceInv, SourceTyped, Rebuild, ProvidersInv, LogFits
  <1>3. \A q, t : Becomes(q, t)' = Becomes(q, t)
      BY Zenon DEF Becomes
  <1>4. ASSUME ~raced PROVE DeltaInv'
    <2> SUFFICES ASSUME Following, ~Refreshing
                 PROVE  /\ rebuild.known = known
                        /\ \A q \in rebuild.todo : rebuild.at[q] = cursor[q]
                        /\ \A q \in rebuild.was \ rebuild.todo : \A t \in Tags :
                             \/ Becomes(q, t) = members'[q][t]
                             \/ Touched(q, t, rebuild.at[q])'
                             \/ rebuild.pc = "lookup" /\ rebuild.of = q
                                /\ t \in rebuild.delta[q].upserts
        BY <1>3, Zenon DEF DeltaInv, Following
    <2>1. DeltaInv
        BY <1>4, Zenon DEF SourceInv
    <2>2. ASSUME NEW q \in rebuild.was \ rebuild.todo, NEW t \in Tags
          PROVE  \/ Becomes(q, t) = members'[q][t]
                 \/ Touched(q, t, rebuild.at[q])'
                 \/ rebuild.pc = "lookup" /\ rebuild.of = q /\ t \in rebuild.delta[q].upserts
      <3>1. q \in Providers /\ rebuild.at[q] \in Nat /\ rebuild.at[q] <= revision[q]
          BY <1>2, Zenon DEF SourceInv, FollowingInv
      <3>2. members'[q][t] = members[q][t] \/ Touched(q, t, rebuild.at[q])'
          BY <3>1, Zenon
      <3>3. Touched(q, t, rebuild.at[q]) => Touched(q, t, rebuild.at[q])'
          BY <3>1, Zenon
      <3> QED BY <2>1, <3>2, <3>3, Zenon DEF DeltaInv
    <2> QED BY <2>1, <2>2, Zenon DEF DeltaInv
  <1>5. ASSUME ~raced PROVE BaselineInv'
    <2> SUFFICES ASSUME baseline # Nobody, ~Refreshing
                 PROVE  /\ \A q \in Providers \ known : baseline[q] = NoMembers
                        /\ \A q \in known :
                             /\ \A t \in Tags :
                                   baseline[q][t] = members'[q][t] \/ Touched(q, t, cursor[q])'
                             /\ (Reading \/ Reached(q) = revision[q] \/ Noticed(q))'
        BY Zenon DEF BaselineInv
    <2>1. BaselineInv
        BY <1>5, Zenon DEF SourceInv
    <2>2. ASSUME NEW q \in known, NEW t \in Tags
          PROVE  baseline[q][t] = members'[q][t] \/ Touched(q, t, cursor[q])'
      <3>1. q \in Providers /\ cursor[q] \in Nat /\ cursor[q] <= revision[q]
          BY <1>2, Zenon
      <3>2. members'[q][t] = members[q][t] \/ Touched(q, t, cursor[q])'
          BY <3>1, Zenon
      <3>3. Touched(q, t, cursor[q]) => Touched(q, t, cursor[q])'
          BY <3>1, Zenon
      <3> QED BY <2>1, <3>2, <3>3, Zenon DEF BaselineInv
    <2>3. ASSUME NEW q \in known PROVE (Reading \/ Reached(q) = revision[q] \/ Noticed(q))'
      <3>1. q \in Providers
          BY <1>2, Zenon
      <3>2. Noticed(q) => Noticed(q)'
          BY <3>1, Zenon DEF Noticed, Following
      <3>3. CASE thread'[q] = "notify"
          BY <3>3, Zenon DEF Noticed
      <3>4. CASE revision'[q] = revision[q]
          BY <2>1, <3>2, <3>4, Zenon DEF BaselineInv, Reading, Reached, Following
      <3> QED BY <3>1, <3>3, <3>4, Zenon
    <2> QED BY <2>1, <2>2, <2>3, Zenon DEF BaselineInv
  <1> QED BY <1>1, <1>4, <1>5, Zenon

LEMMA SetMembersInv ==
    ASSUME SourceInv, NEW p \in Providers, NEW U \in SUBSET Tags, NEW R \in SUBSET Tags,
           SetMembers(p, U, R)
    PROVE  SourceInv'
  <1>1. /\ thread[p] = "idle" /\ thread' = [thread EXCEPT ![p] = "record"]
        /\ U \cap R = {}
        /\ UNCHANGED <<revision, history, listed, known, baseline, cursor, dirty, force, phase,
                       sourceDirty, publication, prepared, catalog, rebuild, raced, behind>>
      BY Zenon DEF SetMembers, runtimeVars, poolVars, ghostVars
  <1>2. /\ thread' \in [Threads -> Points] /\ thread'[p] = "record"
        /\ \A u \in Threads : u # p => thread'[u] = thread[u]
    <2>1. p \in Threads /\ "record" \in Points
        BY ThreadsApart, Zenon DEF Points
    <2> QED BY <1>1, <2>1, Moves, Zenon DEF SourceInv
  <1>3. PICK m : m = [t \in Tags |-> IF t \in U THEN revision[p] + 1
                                     ELSE IF t \in R THEN 0 ELSE members[p][t]]
      BY Zenon
  <1>4. PICK ch : ch = [upserts |-> U, removes |-> R]
      BY Zenon
  <1>5. members' = [members EXCEPT ![p] = m] /\ change' = [change EXCEPT ![p] = ch]
      BY <1>3, <1>4, Zenon DEF SetMembers
  <1>6. m \in Members
    <2>1. members[p] \in [Tags -> Nat] /\ revision[p] + 1 \in Nat
        BY DEF SourceInv, SourceTyped, Members
    <2> QED BY <1>3, <2>1, Zenon DEF Members
  <1>7. ch \in Change /\ ch.upserts = U /\ ch.removes = R
      BY <1>4, Zenon DEF Change
  <1>8. /\ members' \in [Providers -> Members] /\ change' \in [Providers -> Change]
        /\ members'[p] = m /\ change'[p] = ch
        /\ \A q \in Providers : q # p => members'[q] = members[q] /\ change'[q] = change[q]
      BY <1>5, <1>6, <1>7, Zenon DEF SourceInv, SourceTyped
  <1>9. SourceTyped'
      BY <1>1, <1>2, <1>8, Zenon DEF SourceInv, SourceTyped
  <1>10. change[p] = NoChange
    <2>1. LogFits(p)
        BY Zenon DEF SourceInv, ProvidersInv
    <2> QED BY <1>1, <2>1, Zenon DEF LogFits
  <1>11. /\ \A t \in Tags : m[t] = members[p][t] \/ t \in U \cup R
         /\ \A t \in R : m[t] = 0
         /\ \A t \in Tags : members[p][t] = 0 => m[t] = 0 \/ t \in U
      BY <1>1, <1>3, Zenon
  <1>12. ProvidersInv'
    <2> SUFFICES ASSUME NEW q \in Providers PROVE LogFits(q)'
        BY Zenon DEF ProvidersInv
    <2>1. LogFits(q)
        BY Zenon DEF SourceInv, ProvidersInv
    <2>2. CASE q # p
      <3>1. thread'[q] = thread[q]
          BY <1>2, <2>2, ThreadsApart, Zenon
      <3>2. members'[q] = members[q] /\ change'[q] = change[q]
          BY <1>8, <2>2, Zenon
      <3> QED BY <1>1, <2>1, <3>1, <3>2, ZenonT(60) DEF LogFits, NoChange
    <2>3. CASE q = p
      <3>1. \A i \in 1..Len(history[p]) : history[p][i].removes \subseteq Tags
        <4>1. history[p] \in Seq(Change)
            BY Zenon DEF SourceInv, SourceTyped
        <4>2. \A i \in 1..Len(history[p]) : history[p][i] \in Change
            BY <4>1
        <4> QED BY <4>2, Zenon DEF Change
      <3>2. \A i \in 1..Len(history[p]) : \A t \in history[p][i].removes :
               \/ m[t] = 0 \/ t \in U \/ \E j \in i..Len(history[p]) : t \in history[p][j].upserts
        <4>1. NoChange.upserts = {}
            BY Zenon DEF NoChange
        <4> QED BY <1>10, <1>11, <2>1, <2>3, <3>1, <4>1, Zenon DEF LogFits
      <3>3. /\ thread'[q] = "record" /\ members'[q] = m /\ change'[q].upserts = U
            /\ change'[q].removes = R
          BY <1>2, <1>7, <1>8, <2>3, Zenon
      <3>4. history'[q] = history[p] /\ cursor'[q] <= revision'[q]
          BY <1>1, <2>1, <2>3, Zenon DEF LogFits
      <3> QED BY <1>11, <3>2, <3>3, <3>4, Zenon DEF LogFits
    <2> QED BY <2>2, <2>3, Zenon
  <1>13. /\ thread'[Starter] = thread[Starter] /\ thread'[Poller] = thread[Poller]
         /\ rebuild.by # p
      BY <1>1, <1>2, ThreadsApart, NotRebuilding, Zenon
  <1>14. Coming => Coming'
      BY <1>1, <1>2, Zenon DEF Coming
  <1>15. ControlInv'
      BY <1>1, <1>2, <1>13, <1>14, Zenon DEF SourceInv, ControlInv, Following, Unread, Reading
  <1>16. CatalogInv'
      BY <1>1, <1>13, Zenon DEF SourceInv, CatalogInv, Unread
  <1>17. \A q \in Providers, t \in Tags, c \in Nat : Touched(q, t, c) => Touched(q, t, c)'
    <2> SUFFICES ASSUME NEW q \in Providers, NEW t \in Tags, NEW c \in Nat, Touched(q, t, c)
                 PROVE  Touched(q, t, c)'
        BY Zenon
    <2>1. t \in change[q].upserts \cup change[q].removes
             => t \in change'[q].upserts \cup change'[q].removes
      <3>1. NoChange.upserts = {} /\ NoChange.removes = {}
          BY Zenon DEF NoChange
      <3> QED BY <1>8, <1>10, <3>1, Zenon
    <2> QED BY <1>1, <2>1, Zenon DEF Touched
  <1>18. \A q \in Providers, t \in Tags :
            members'[q][t] = members[q][t] \/ t \in change'[q].upserts \cup change'[q].removes
      BY <1>7, <1>8, <1>11, Zenon
  <1>19. FollowingInv' /\ (~raced => DeltaInv' /\ BaselineInv')
    <2>1. \A q \in Providers, t \in Tags, c \in Nat :
             members'[q][t] = members[q][t] \/ Touched(q, t, c)'
        BY <1>18, Zenon DEF Touched
    <2>2. \A q \in Providers : thread[q] \in {"notify", "mark"} => thread'[q] = thread[q]
        BY <1>1, <1>2, ThreadsApart, Zenon
    <2>3. revision' \in [Providers -> Nat] /\ \A q \in Providers : revision[q] <= revision'[q]
        BY <1>1 DEF SourceInv, SourceTyped
    <2>4. Refreshing => Refreshing'
        BY <1>1, <1>13, Zenon DEF Refreshing
    <2> QED BY <1>1, <1>8, <1>14, <1>17, <2>1, <2>2, <2>3, <2>4, OwnStep, Zenon
  <1>20. ReadingInv'
    <2> SUFFICES ASSUME Reading
                 PROVE  \A q \in rebuild.known \ rebuild.todo :
                          /\ rebuild.at[q] <= revision[q] + 1
                          /\ revision[q] < rebuild.at[q] =>
                                thread'[q] = "record" /\ rebuild.read[q] = members'[q]
                          /\ revision[q] = rebuild.at[q] =>
                                \A t \in Tags : \/ rebuild.read[q][t] = members'[q][t]
                                                \/ t \in change'[q].upserts \cup change'[q].removes
        BY <1>1, Zenon DEF SourceInv, ReadingInv, Reading
    <2> SUFFICES ASSUME NEW q \in rebuild.known \ rebuild.todo
                 PROVE  /\ rebuild.at[q] <= revision[q] + 1
                        /\ revision[q] < rebuild.at[q] =>
                                thread'[q] = "record" /\ rebuild.read[q] = members'[q]
                        /\ revision[q] = rebuild.at[q] =>
                              \A t \in Tags : \/ rebuild.read[q][t] = members'[q][t]
                                              \/ t \in change'[q].upserts \cup change'[q].removes
        BY Zenon
    <2>1. /\ rebuild.at[q] <= revision[q] + 1
          /\ revision[q] < rebuild.at[q] => thread[q] = "record" /\ rebuild.read[q] = members[q]
          /\ revision[q] = rebuild.at[q] =>
                \A t \in Tags : \/ rebuild.read[q][t] = members[q][t]
                                \/ t \in change[q].upserts \cup change[q].removes
        BY Zenon DEF SourceInv, ReadingInv
    <2>2. q \in Providers
        BY Zenon DEF SourceInv, SourceTyped, Rebuild
    <2>3. CASE q # p
        BY <1>2, <1>8, <2>1, <2>2, <2>3, ThreadsApart, Zenon
    <2>4. CASE q = p
      <3>1. ~(revision[q] < rebuild.at[q])
          BY <1>1, <2>1, <2>4, Zenon
      <3>2. NoChange.upserts = {} /\ NoChange.removes = {}
          BY Zenon DEF NoChange
      <3> QED BY <1>10, <1>18, <2>1, <2>4, <3>1, <3>2, Zenon
    <2> QED BY <2>3, <2>4, Zenon
  <1> QED BY <1>1, <1>9, <1>12, <1>15, <1>16, <1>19, <1>20, Zenon DEF SourceInv

LEMMA RecordDeltaInv ==
    ASSUME SourceInv, NEW p \in Providers, RecordDelta(p)
    PROVE  SourceInv'
  <1>1. /\ thread[p] = "record" /\ thread' = [thread EXCEPT ![p] = "notify"]
        /\ revision' = [revision EXCEPT ![p] = @ + 1]
        /\ history' = [history EXCEPT ![p] = Logged(history[p], change[p])]
        /\ change' = [change EXCEPT ![p] = NoChange]
        /\ UNCHANGED <<members, listed, known, baseline, cursor, dirty, force, phase,
                       sourceDirty, publication, prepared, catalog, rebuild, raced, behind>>
      BY Zenon DEF RecordDelta, Logged, runtimeVars, poolVars, ghostVars
  <1>2. /\ thread' \in [Threads -> Points] /\ thread'[p] = "notify"
        /\ \A u \in Threads : u # p => thread'[u] = thread[u]
    <2>1. p \in Threads /\ "notify" \in Points
        BY ThreadsApart, Zenon DEF Points
    <2> QED BY <1>1, <2>1, Moves, Zenon DEF SourceInv
  <1>3. /\ revision' \in [Providers -> Nat] /\ revision'[p] = revision[p] + 1
        /\ \A q \in Providers : q # p => revision'[q] = revision[q]
        /\ \A q \in Providers : revision[q] \in Nat
      BY <1>1 DEF SourceInv, SourceTyped
  <1>4. NoChange \in Change /\ NoChange.upserts = {} /\ NoChange.removes = {}
      BY Zenon DEF NoChange, Change
  <1>5. /\ history' \in [Providers -> Seq(Change)] /\ change' \in [Providers -> Change]
        /\ change'[p] = NoChange
        /\ \A q \in Providers : q # p => history'[q] = history[q] /\ change'[q] = change[q]
    <2>1. Logged(history[p], change[p]) \in Seq(Change)
        BY HistoryStep, Zenon DEF SourceInv, SourceTyped
    <2> QED BY <1>1, <1>4, <2>1, Zenon DEF SourceInv, SourceTyped
  <1>6. SourceTyped'
      BY <1>1, <1>2, <1>3, <1>5, Zenon DEF SourceInv, SourceTyped
  <1>7. ProvidersInv'
    <2> SUFFICES ASSUME NEW q \in Providers PROVE LogFits(q)'
        BY Zenon DEF ProvidersInv
    <2>1. LogFits(q)
        BY Zenon DEF SourceInv, ProvidersInv
    <2>2. CASE q # p
      <3>1. thread'[q] = thread[q]
          BY <1>2, <2>2, ThreadsApart, Zenon
      <3>2. history'[q] = history[q] /\ change'[q] = change[q] /\ revision'[q] = revision[q]
          BY <1>3, <1>5, <2>2, Zenon
      <3> QED BY <1>1, <2>1, <3>1, <3>2, Zenon DEF LogFits, NoChange
    <2>3. CASE q = p
      <3>1. cursor'[p] <= revision'[p]
        <4>1. cursor[p] \in Nat /\ cursor[p] <= revision[p]
            BY <2>1, <2>3, Zenon DEF LogFits, SourceInv, SourceTyped
        <4> QED BY <1>1, <1>3, <4>1
      <3>2. \A i \in 1..Len(history'[p]) : \A t \in history'[p][i].removes :
              \/ members'[p][t] = 0
              \/ \E j \in i..Len(history'[p]) : t \in history'[p][j].upserts
          BY <1>1, RecordFits, Zenon
      <3> QED BY <1>4, <1>5, <2>3, <3>1, <3>2, Zenon DEF LogFits, NoChange
    <2> QED BY <2>2, <2>3, Zenon
  <1>13. /\ thread'[Starter] = thread[Starter] /\ thread'[Poller] = thread[Poller]
         /\ rebuild.by # p
      BY <1>1, <1>2, ThreadsApart, NotRebuilding, Zenon
  <1>14. Coming => Coming'
      BY <1>1, <1>2, Zenon DEF Coming
  <1>15. ControlInv'
      BY <1>1, <1>2, <1>13, <1>14, Zenon DEF SourceInv, ControlInv, Following, Unread, Reading
  <1>16. CatalogInv'
      BY <1>1, <1>13, Zenon DEF SourceInv, CatalogInv, Unread
  <1>17. \A q \in Providers, t \in Tags, c \in Nat :
            c <= revision[q] /\ Touched(q, t, c) => Touched(q, t, c)'
    <2> SUFFICES ASSUME NEW q \in Providers, NEW t \in Tags, NEW c \in Nat, c <= revision[q],
                        Touched(q, t, c)
                 PROVE  Touched(q, t, c)'
        BY Zenon
    <2>1. CASE q = p
        BY <2>1, RecordTouches, Zenon
    <2>2. CASE q # p
      <3>1. history'[q] = history[q] /\ change'[q] = change[q] /\ revision'[q] = revision[q]
          BY <1>3, <1>5, <2>2, Zenon
      <3> QED BY <3>1, Zenon DEF Touched
    <2> QED BY <2>1, <2>2, Zenon
  <1>18. FollowingInv' /\ (~raced => DeltaInv' /\ BaselineInv')
    <2>1. members' \in [Providers -> Members]
        BY <1>6, Zenon DEF SourceTyped
    <2>2. \A q \in Providers : thread[q] \in {"notify", "mark"} => thread'[q] = thread[q]
        BY <1>1, <1>2, ThreadsApart, Zenon
    <2>3. \A q \in Providers : revision[q] <= revision'[q]
        BY <1>3
    <2>4. Refreshing => Refreshing'
        BY <1>1, <1>13, Zenon DEF Refreshing
    <2>5. \A q \in Providers : revision'[q] = revision[q] \/ thread'[q] = "notify"
        BY <1>2, <1>3, Zenon
    <2>6. \A q \in Providers, t \in Tags, c \in Nat :
             c <= revision[q] => members'[q][t] = members[q][t] \/ Touched(q, t, c)'
        BY <1>1, Zenon
    <2> QED BY <1>1, <1>3, <1>14, <1>17, <2>1, <2>2, <2>3, <2>4, <2>5, <2>6, OwnStep, Zenon
  <1>20. ReadingInv'
    <2>0. Reading' => /\ Reading /\ rebuild'.todo \subseteq rebuild'.known
                      /\ rebuild'.pc = "storeSnapshot" => rebuild'.todo = {}
                      /\ \A q \in Providers \ rebuild'.known : rebuild'.read[q] = NoMembers
        BY <1>1, Zenon DEF SourceInv, ReadingInv, Reading
    <2> SUFFICES ASSUME Reading
                 PROVE  \A q \in rebuild.known \ rebuild.todo :
                          /\ rebuild.at[q] <= revision'[q] + 1
                          /\ revision'[q] < rebuild.at[q] =>
                                thread'[q] = "record" /\ rebuild.read[q] = members'[q]
                          /\ revision'[q] = rebuild.at[q] =>
                                \A t \in Tags : \/ rebuild.read[q][t] = members'[q][t]
                                                \/ t \in change'[q].upserts \cup change'[q].removes
        BY <1>1, <2>0 DEF ReadingInv
    <2> SUFFICES ASSUME NEW q \in rebuild.known \ rebuild.todo
                 PROVE  /\ rebuild.at[q] <= revision'[q] + 1
                        /\ revision'[q] < rebuild.at[q] =>
                              thread'[q] = "record" /\ rebuild.read[q] = members'[q]
                        /\ revision'[q] = rebuild.at[q] =>
                              \A t \in Tags : \/ rebuild.read[q][t] = members'[q][t]
                                              \/ t \in change'[q].upserts \cup change'[q].removes
        BY Zenon
    <2>1. /\ rebuild.at[q] <= revision[q] + 1
          /\ revision[q] < rebuild.at[q] => thread[q] = "record" /\ rebuild.read[q] = members[q]
          /\ revision[q] = rebuild.at[q] =>
                \A t \in Tags : \/ rebuild.read[q][t] = members[q][t]
                                \/ t \in change[q].upserts \cup change[q].removes
        BY Zenon DEF SourceInv, ReadingInv
    <2>2. q \in Providers /\ rebuild.at[q] \in Nat
        BY Zenon DEF SourceInv, SourceTyped, Rebuild
    <2>3. CASE q # p
      <3>1. thread'[q] = thread[q] /\ change'[q] = change[q] /\ revision'[q] = revision[q]
          BY <1>2, <1>3, <1>5, <2>2, <2>3, ThreadsApart, Zenon
      <3> QED BY <1>1, <2>1, <3>1, Zenon
    <2>4. CASE q = p
      <3>1. /\ rebuild.at[q] <= revision'[q] + 1 /\ ~(revision'[q] < rebuild.at[q])
            /\ revision'[q] = rebuild.at[q] => revision[q] < rebuild.at[q]
          BY <1>3, <2>1, <2>2, <2>4
      <3> QED BY <1>1, <2>1, <3>1, Zenon
    <2> QED BY <2>3, <2>4, Zenon
  <1> QED BY <1>1, <1>6, <1>7, <1>15, <1>16, <1>18, <1>20, Zenon DEF SourceInv

-----------------------------------------------------------------------------
(* The rebuild.                                                              *)

LEMMA ReconcileInv ==
    ASSUME SourceInv, Reconcile
    PROVE  SourceInv'
  <1>1. /\ thread[Poller] = "idle" /\ thread' = [thread EXCEPT ![Poller] = "force"]
        /\ known' = listed
        /\ cursor' = [p \in Providers |->
             IF p \in listed \ known THEN revision[p] ELSE IF p \in listed THEN cursor[p] ELSE 0]
        /\ UNCHANGED <<members, revision, history, change, listed, baseline, dirty, force, phase,
                       sourceDirty, publication, prepared, catalog, rebuild, raced, behind>>
      BY Zenon DEF Reconcile, providerVars, poolVars, ghostVars
  <1>2. /\ thread' \in [Threads -> Points] /\ thread'[Poller] = "force"
        /\ \A u \in Threads : u # Poller => thread'[u] = thread[u]
    <2>1. Poller \in Threads /\ "force" \in Points
        BY ThreadsApart, Zenon DEF Points
    <2> QED BY <1>1, <2>1, Moves, Zenon DEF SourceInv
  <1>3. /\ cursor' \in [Providers -> Nat]
        /\ \A p \in Providers : cursor'[p] <= revision[p]
    <2>1. \A p \in Providers : /\ revision[p] \in Nat /\ cursor[p] \in Nat
                               /\ cursor[p] <= revision[p]
        BY Zenon DEF SourceInv, SourceTyped, ProvidersInv, LogFits
    <2> QED BY <1>1, <2>1
  <1>4. SourceTyped'
      BY <1>1, <1>2, <1>3, Zenon DEF SourceInv, SourceTyped
  <1>5. \A q \in Providers \cup {Starter} : thread'[q] = thread[q]
      BY <1>2, ThreadsApart, Zenon
  <1>6. ProvidersInv'
    <2> SUFFICES ASSUME NEW p \in Providers PROVE LogFits(p)'
        BY Zenon DEF ProvidersInv
    <2>1. LogFits(p)
        BY Zenon DEF SourceInv, ProvidersInv
    <2>2. thread'[p] = thread[p] /\ cursor'[p] <= revision[p]
        BY <1>3, <1>5, Zenon
    <2> QED BY <1>1, <2>1, <2>2, Zenon DEF LogFits, NoChange
  <1>7. rebuild.by # Poller
      BY <1>1, NotRebuilding, ThreadsApart, Zenon
  <1>8. Coming => Coming'
      BY <1>1, <1>2, Zenon DEF Coming
  <1>9. ControlInv'
      BY <1>1, <1>2, <1>7, <1>8, Zenon DEF SourceInv, ControlInv, Following, Unread, Reading
  <1>10. CatalogInv'
      BY <1>1, <1>5, Zenon DEF SourceInv, CatalogInv, Unread
  <1>11. ReadingInv' /\ FollowingInv'
    <2>1. \A p \in Providers : thread[p] = "record" => thread'[p] = "record"
        BY <1>5, Zenon
    <2> QED BY <1>1, <2>1, ReadingSame, FollowingSame, Zenon DEF SourceInv
  <1>12. Refreshing'
      BY <1>2, Zenon DEF Refreshing
  <1> QED BY <1>4, <1>6, <1>9, <1>10, <1>11, <1>12, Zenon DEF SourceInv, DeltaInv, BaselineInv

(* Steps of the rebuild alone.                                               *)
LEMMA RebuildStep ==
    ASSUME SourceInv, rebuild' \in Rebuild,
           UNCHANGED <<providerVars, runtimeVars, poolVars, thread, ghostVars, left>>
    PROVE  /\ SourceTyped' /\ ProvidersInv'
           /\ UNCHANGED <<members, revision, history, change, listed, known, baseline, cursor,
                          dirty, force, phase, sourceDirty, publication, prepared, catalog,
                          thread, raced, behind>>
           /\ Unread /\ rebuild'.published \in {FALSE, rebuild.published} => CatalogInv'
           /\ Refreshing' = Refreshing
           /\ \A p, t, c : Touched(p, t, c)' = Touched(p, t, c)
           /\ rebuild'.by = rebuild.by => Coming' = Coming
  <1>1. UNCHANGED <<members, revision, history, change, listed, known, baseline, cursor,
                    dirty, force, phase, sourceDirty, publication, prepared, catalog,
                    thread, raced, behind>>
      BY Zenon DEF providerVars, runtimeVars, poolVars, ghostVars
  <1>2. SourceTyped'
      BY <1>1, Zenon DEF SourceInv, SourceTyped
  <1>3. ProvidersInv'
      BY <1>1, ProvidersSame, Zenon DEF SourceInv
  <1>4. ASSUME Unread, rebuild'.published \in {FALSE, rebuild.published} PROVE CatalogInv'
      BY <1>1, <1>4, Zenon DEF SourceInv, CatalogInv
  <1>5. Refreshing' = Refreshing
      BY <1>1, Zenon DEF Refreshing
  <1>6. \A p, t, c : Touched(p, t, c)' = Touched(p, t, c)
      BY <1>1, ZenonT(60) DEF Touched
  <1>7. rebuild'.by = rebuild.by => Coming' = Coming
      BY <1>1, Zenon DEF Coming
  <1> QED BY <1>1, <1>2, <1>3, <1>4, <1>5, <1>6, <1>7, Zenon

(* A rebuild that starts a snapshot has everything to read.                  *)
LEMMA SnapshotInv ==
    ASSUME SourceInv, NEW th \in Threads, thread[th] = "rebuild", Unread,
           rebuild' = FullSnapshot(th),
           UNCHANGED <<providerVars, runtimeVars, poolVars, thread, ghostVars, left>>
    PROVE  SourceInv'
  <1>1. PICK r : r = FullSnapshot(th)
      BY Zenon
  <1>2. /\ rebuild' = r /\ r \in Rebuild /\ r.by = th /\ r.published = FALSE
        /\ r.pc \in {"snapshot", "storeSnapshot"} /\ (r.pc = "storeSnapshot" => known = {})
        /\ r.todo = known /\ r.known = known
        /\ \A p \in Providers : r.read[p] = NoMembers
    <2>1. SourceTyped
        BY Zenon DEF SourceInv
    <2>2. /\ r \in Rebuild /\ r.by = th /\ r.published = FALSE
          /\ r.pc \in {"snapshot", "storeSnapshot"} /\ (r.pc = "storeSnapshot" => known = {})
          /\ r.todo = known /\ r.known = known
          /\ \A p \in Providers : r.read[p] = NoMembers
      <3>1. AllToRead(r, th)
          BY <1>1, <2>1, SnapshotFields, Zenon
      <3> QED BY <3>1, Zenon DEF AllToRead
    <2>3. rebuild' = r
        BY <1>1, Zenon
    <2> QED BY <2>2, <2>3, Zenon
  <1>3. /\ SourceTyped' /\ ProvidersInv' /\ CatalogInv' /\ Refreshing' = Refreshing
        /\ UNCHANGED <<known, baseline, force, phase, sourceDirty, publication, thread, raced>>
        /\ UNCHANGED <<members, cursor>>
      BY <1>2, RebuildStep, Zenon
  <1>4. Reading' /\ ~Following' /\ Unread' /\ rebuild'.pc # "idle"
      BY <1>2, Zenon DEF Reading, Following, Unread
  <1>5. ControlInv'
      BY <1>2, <1>3, <1>4, Zenon DEF SourceInv, ControlInv
  <1>6. ReadingInv'
      BY <1>2, Zenon DEF ReadingInv
  <1>7. ~raced => BaselineInv'
    <2>1. \A p, t, c : Touched(p, t, c)' = Touched(p, t, c)
        BY <1>2, RebuildStep, Zenon
    <2> SUFFICES ASSUME BaselineInv, baseline # Nobody, ~Refreshing
                 PROVE  /\ \A p \in Providers \ known : baseline[p] = NoMembers
                        /\ \A p \in known :
                             /\ \A t \in Tags :
                                   baseline[p][t] = members[p][t] \/ Touched(p, t, cursor[p])
                             /\ (Reading \/ Reached(p) = revision[p] \/ Noticed(p))'
        BY <1>3, <2>1, Zenon DEF SourceInv, BaselineInv
    <2> QED BY <1>4, Zenon DEF BaselineInv
  <1> QED BY <1>3, <1>4, <1>5, <1>6, <1>7, Zenon DEF SourceInv, FollowingInv, DeltaInv

LEMMA BeginRebuildInv ==
    ASSUME SourceInv, NEW th \in Threads, BeginRebuild(th)
    PROVE  SourceInv'
  <1>1. /\ rebuild.pc = "idle" /\ thread[th] = "rebuild"
        /\ UNCHANGED <<providerVars, runtimeVars, poolVars, thread, ghostVars, left>>
      BY Zenon DEF BeginRebuild
  <1>2. Unread /\ ~Following /\ ~Reading
      BY <1>1, Zenon DEF Unread, Following, Reading
  <1>3. CASE ~(publication # Nobody /\ baseline # Nobody /\ ~force /\ dirty # {})
    <2>1. rebuild' = FullSnapshot(th)
        BY <1>3, Zenon DEF BeginRebuild
    <2> QED BY <1>1, <1>2, <2>1, SnapshotInv, Zenon
  <1>4. CASE publication # Nobody /\ baseline # Nobody /\ ~force /\ dirty # {}
    <2>1. PICK r : r = [NoRebuild EXCEPT !.by = th, !.pc = "delta", !.todo = dirty, !.was = dirty,
                                         !.at = cursor, !.known = known]
        BY Zenon
    <2>2. /\ rebuild' = r /\ r \in Rebuild /\ r.by = th /\ r.published = FALSE /\ r.pc = "delta"
          /\ r.todo = dirty /\ r.was = dirty /\ r.at = cursor /\ r.known = known
          /\ \A p \in Providers : r.delta[p] = NoChange
      <3>1. rebuild' = r
          BY <1>4, <2>1, Zenon DEF BeginRebuild
      <3>2. SourceTyped
          BY Zenon DEF SourceInv
      <3> QED BY <2>1, <3>1, <3>2, DeltaFields, ZenonT(60)
    <2>3. /\ SourceTyped' /\ ProvidersInv' /\ CatalogInv' /\ Refreshing' = Refreshing
          /\ UNCHANGED <<known, baseline, force, phase, sourceDirty, publication, thread, raced>>
          /\ UNCHANGED <<members, cursor, revision, dirty>>
        BY <1>1, <1>2, <2>2, RebuildStep, Zenon
    <2>4. ~Reading' /\ Following' /\ Unread' /\ rebuild'.pc # "idle"
        BY <2>2, Zenon DEF Reading, Following, Unread
    <2>5. ControlInv'
        BY <1>1, <1>4, <2>2, <2>3, <2>4, Zenon DEF SourceInv, ControlInv
    <2>6. FollowingInv'
      <3>1. \A p \in Providers : cursor[p] <= revision[p]
          BY Zenon DEF SourceInv, ProvidersInv, LogFits
      <3>2. rebuild'.was \ rebuild'.todo = {}
          BY <2>2, Zenon
      <3> QED BY <2>2, <2>3, <3>1, <3>2, Zenon DEF FollowingInv, NoChange
    <2>7. DeltaInv'
      <3>1. rebuild'.was \ rebuild'.todo = {}
          BY <2>2, Zenon
      <3> QED BY <2>2, <2>3, <3>1, Zenon DEF DeltaInv
    <2>8. ~raced => BaselineInv'
      <3>1. \A p, t, c : Touched(p, t, c)' = Touched(p, t, c)
          BY <1>1, <2>2, RebuildStep, Zenon
      <3> SUFFICES ASSUME BaselineInv, baseline # Nobody, ~Refreshing
                   PROVE  /\ \A p \in Providers \ known : baseline[p] = NoMembers
                          /\ \A p \in known :
                               /\ \A t \in Tags :
                                     baseline[p][t] = members[p][t] \/ Touched(p, t, cursor[p])
                               /\ (Reading \/ Reached(p) = revision[p] \/ Noticed(p))'
          BY <2>3, <3>1, Zenon DEF SourceInv, BaselineInv
      <3>2. ASSUME NEW p \in known PROVE (Reached(p) = revision[p] \/ Noticed(p))'
        <4>1. Reached(p) = revision[p] \/ Noticed(p)
            BY <1>2, Zenon DEF BaselineInv
        <4>2. CASE p \in dirty
            BY <2>2, <2>4, <4>2, Zenon DEF Noticed
        <4>3. CASE p \notin dirty
          <5>1. Reached(p) = cursor[p] /\ Reached(p)' = cursor[p]
              BY <1>2, <2>2, <2>3, <4>3, Zenon DEF Reached
          <5>2. Noticed(p) => Noticed(p)'
              BY <1>2, <2>3, <4>3, Zenon DEF Noticed
          <5> QED BY <2>3, <4>1, <5>1, <5>2, Zenon
        <4> QED BY <4>2, <4>3, Zenon
      <3> QED BY <3>2, Zenon DEF BaselineInv
    <2> QED BY <2>3, <2>4, <2>5, <2>6, <2>7, <2>8, Zenon DEF SourceInv, ReadingInv
  <1> QED BY <1>3, <1>4, Zenon

(* The log a delta reads: what it does not name has not changed since.       *)
LEMMA LogTells ==
    ASSUME SourceInv, NEW p \in Providers, NEW after \in Nat, Retained(p, after), NEW t \in Tags,
           t \notin DeltaAfter(p, after).upserts, NEW c \in Nat
    PROVE  /\ t \in DeltaAfter(p, after).removes => members[p][t] = 0 \/ Touched(p, t, c)
           /\ t \notin DeltaAfter(p, after).removes /\ Touched(p, t, after) => Touched(p, t, c)
  <1>1. PICK h : h = history[p]
      BY Zenon
  <1>2. Len(h) \in Nat /\ revision[p] \in Nat
      BY <1>1 DEF SourceInv, SourceTyped
  <1>3. /\ \A i \in 1..Len(h) : revision[p] + i > after + Len(h) => t \notin h[i].upserts
        /\ t \in DeltaAfter(p, after).removes =>
              \E i \in 1..Len(h) : revision[p] + i > after + Len(h) /\ t \in h[i].removes
        /\ t \notin DeltaAfter(p, after).removes =>
              \A i \in 1..Len(h) : revision[p] + i > after + Len(h) => t \notin h[i].removes
      BY <1>1, ZenonT(60) DEF DeltaAfter
  <1>4. ASSUME t \in DeltaAfter(p, after).removes
        PROVE  members[p][t] = 0 \/ Touched(p, t, c)
    <2>1. PICK i \in 1..Len(h) : revision[p] + i > after + Len(h) /\ t \in h[i].removes
        BY <1>3, <1>4, Zenon
    <2>2. ~ \E j \in i..Len(h) : t \in h[j].upserts
        BY <1>2, <1>3, <2>1, SMTT(60)
    <2>3. members[p][t] = 0 \/ t \in change[p].upserts
        BY <1>1, <2>1, <2>2, Zenon DEF SourceInv, ProvidersInv, LogFits
    <2> QED BY <2>3, Zenon DEF Touched
  <1>5. ASSUME t \notin DeltaAfter(p, after).removes, Touched(p, t, after)
        PROVE  Touched(p, t, c)
    <2>1. ~(after + Len(h) < revision[p])
        BY <1>1, <1>2 DEF Retained
    <2>2. ~ \E i \in 1..Len(h) : /\ revision[p] + i > after + Len(h)
                                 /\ t \in h[i].upserts \cup h[i].removes
        BY <1>3, <1>5, Zenon
    <2> QED BY <1>1, <1>5, <2>1, <2>2, Zenon DEF Touched
  <1> QED BY <1>4, <1>5, Zenon

LEMMA ReadDeltaInv ==
    ASSUME SourceInv, NEW p \in Providers, ReadDelta(p)
    PROVE  SourceInv'
  <1>1. /\ rebuild.pc = "delta" /\ p \in rebuild.todo
        /\ UNCHANGED <<providerVars, runtimeVars, poolVars, thread, ghostVars, left>>
      BY Zenon DEF ReadDelta
  <1>2. Unread /\ Following /\ ~Reading /\ rebuild.by \in Threads /\ thread[rebuild.by] = "rebuild"
        /\ baseline # Nobody
      BY <1>1, Zenon DEF Unread, Following, Reading, SourceInv, ControlInv
  <1>3. CASE ~(p \in rebuild.known /\ Retained(p, rebuild.at[p]))
    <2>1. rebuild' = FullSnapshot(rebuild.by)
        BY <1>3, Zenon DEF ReadDelta
    <2> QED BY <1>1, <1>2, <2>1, SnapshotInv, Zenon
  <1>4. CASE p \in rebuild.known /\ Retained(p, rebuild.at[p])
    <2>1. /\ rebuild' \in Rebuild /\ rebuild'.by = rebuild.by /\ rebuild'.known = rebuild.known
          /\ rebuild'.published = rebuild.published /\ rebuild'.was = rebuild.was
          /\ rebuild'.pc = "lookup" /\ rebuild'.of = p /\ rebuild'.todo = rebuild.todo \ {p}
          /\ rebuild'.read = rebuild.read
          /\ rebuild'.at = [rebuild.at EXCEPT ![p] = revision[p]]
          /\ rebuild'.delta = [rebuild.delta EXCEPT ![p] = DeltaAfter(p, rebuild.at[p])]
        BY <1>4, LogFields, Zenon DEF SourceInv
    <2>2. /\ SourceTyped' /\ ProvidersInv' /\ CatalogInv' /\ Refreshing' = Refreshing
          /\ UNCHANGED <<known, baseline, force, phase, sourceDirty, publication, thread, raced>>
          /\ UNCHANGED <<members, cursor, revision, dirty>> /\ Coming' = Coming
      <3>1. rebuild'.published \in {FALSE, rebuild.published}
          BY <2>1, Zenon
      <3> QED BY <1>1, <1>2, <2>1, <3>1, RebuildStep, Zenon
    <2>3. ~Reading' /\ Following' /\ Unread' /\ rebuild'.pc # "idle"
        BY <2>1, Zenon DEF Reading, Following, Unread
    <2>4. /\ rebuild.at \in [Providers -> Nat] /\ rebuild.delta \in [Providers -> Change]
          /\ rebuild.was \subseteq Providers
        BY Zenon DEF SourceInv, SourceTyped, Rebuild
    <2>5. /\ rebuild'.at[p] = revision[p] /\ rebuild'.delta[p] = DeltaAfter(p, rebuild.at[p])
          /\ \A q \in Providers : q # p => /\ rebuild'.at[q] = rebuild.at[q]
                                           /\ rebuild'.delta[q] = rebuild.delta[q]
        BY <2>1, <2>4, Zenon
    <2>6. ControlInv'
        BY <1>2, <2>1, <2>2, <2>3, Zenon DEF SourceInv, ControlInv
    <2>7. /\ rebuild.todo \subseteq rebuild.was /\ rebuild.was \ rebuild.todo \subseteq rebuild.known
          /\ \A q \in Providers : rebuild.at[q] <= revision[q]
          /\ \A q \in Providers \ rebuild.was : rebuild.delta[q] = NoChange
        BY <1>2, Zenon DEF SourceInv, FollowingInv
    <2>8. FollowingInv'
      <3>1. rebuild'.was \ rebuild'.todo = (rebuild.was \ rebuild.todo) \cup {p}
          BY <1>1, <2>1, <2>7, Zenon
      <3>2. \A q \in Providers : rebuild'.at[q] <= revision'[q]
        <4>1. revision[p] <= revision[p]
            BY DEF SourceInv, SourceTyped
        <4> QED BY <2>2, <2>5, <2>7, <4>1, Zenon
      <3>3. \A q \in Providers \ rebuild'.was : rebuild'.delta[q] = NoChange
          BY <1>1, <2>1, <2>5, <2>7, ZenonT(60)
      <3>4. rebuild'.todo \subseteq rebuild'.was
            /\ rebuild'.was \ rebuild'.todo \subseteq rebuild'.known
          BY <1>4, <2>1, <2>7, <3>1, Zenon
      <3> QED BY <2>1, <3>1, <3>2, <3>3, <3>4, Zenon DEF FollowingInv, NoChange
    <2>9. ASSUME ~raced, ~Refreshing PROVE DeltaInv' /\ BaselineInv'
      <3>1. /\ rebuild.known = known
            /\ \A q \in rebuild.todo : rebuild.at[q] = cursor[q]
            /\ \A q \in rebuild.was \ rebuild.todo : \A t \in Tags :
                 Becomes(q, t) = members[q][t] \/ Touched(q, t, rebuild.at[q])
          BY <1>1, <1>2, <2>9, Zenon DEF SourceInv, DeltaInv
      <3>2. /\ \A q \in Providers \ known : baseline[q] = NoMembers
            /\ \A q \in known : \A t \in Tags :
                  baseline[q][t] = members[q][t] \/ Touched(q, t, cursor[q])
            /\ \A q \in known : Reached(q) = revision[q] \/ Noticed(q)
          BY <1>2, <2>9, Zenon DEF SourceInv, BaselineInv
      <3>3. \A q, t, c : Touched(q, t, c)' = Touched(q, t, c)
          BY <1>1, <2>1, RebuildStep, Zenon
      <3>4. ASSUME NEW q \in rebuild'.was \ rebuild'.todo, NEW t \in Tags
            PROVE  \/ Becomes(q, t)' = members[q][t]
                   \/ Touched(q, t, rebuild'.at[q])
                   \/ q = p /\ t \in rebuild'.delta[q].upserts
        <4>1. CASE q # p
          <5>1. q \in rebuild.was \ rebuild.todo /\ q \in Providers
              BY <2>1, <2>4, <4>1, Zenon
          <5>2. Becomes(q, t)' = Becomes(q, t)
            <6>1. rebuild'.delta[q] = rebuild.delta[q] /\ rebuild'.read[q] = rebuild.read[q]
                BY <2>1, <2>5, <4>1, <5>1, Zenon
            <6> QED BY <2>2, <6>1, Zenon DEF Becomes
          <5>3. rebuild'.at[q] = rebuild.at[q]
              BY <2>5, <4>1, <5>1, Zenon
          <5> QED BY <3>1, <5>1, <5>2, <5>3, Zenon
        <4>2. CASE q = p /\ t \notin rebuild'.delta[q].upserts
          <5>1. /\ rebuild.at[p] \in Nat /\ revision[p] \in Nat /\ rebuild.at[p] = cursor[p]
                /\ p \in known
              BY <1>1, <1>4, <2>4, <3>1, Zenon DEF SourceInv, SourceTyped
          <5>2. /\ t \in DeltaAfter(p, rebuild.at[p]).removes =>
                      members[p][t] = 0 \/ Touched(p, t, revision[p])
                /\ t \notin DeltaAfter(p, rebuild.at[p]).removes /\ Touched(p, t, rebuild.at[p])
                      => Touched(p, t, revision[p])
              BY <1>4, <2>5, <4>2, <5>1, LogTells, Zenon
          <5>3. Becomes(q, t)' = IF t \in rebuild'.delta[p].removes THEN 0 ELSE baseline[p][t]
              BY <2>2, <4>2, Zenon DEF Becomes
          <5>4. baseline[p][t] = members[p][t] \/ Touched(p, t, rebuild.at[p])
              BY <3>2, <5>1, Zenon
          <5> QED BY <2>5, <4>2, <5>2, <5>3, <5>4, Zenon
        <4> QED BY <4>1, <4>2, Zenon
      <3>5. DeltaInv'
        <4>1. /\ rebuild'.known = known'
              /\ \A q \in rebuild'.todo : rebuild'.at[q] = cursor'[q]
          <5>1. \A q \in rebuild'.todo : q \in rebuild.todo /\ q # p /\ q \in Providers
              BY <2>1, <2>4, <2>7, Zenon
          <5> QED BY <2>1, <2>2, <2>5, <3>1, <5>1, ZenonT(60)
        <4> QED BY <2>1, <2>2, <3>3, <3>4, <4>1, Zenon DEF DeltaInv
      <3>6. \A q \in known : (Reached(q) = revision[q] \/ Noticed(q))'
        <4> SUFFICES ASSUME NEW q \in known PROVE (Reached(q) = revision[q] \/ Noticed(q))'
            BY <2>2, Zenon
        <4>1. CASE q = p
          <5>1. p \in rebuild.was
              BY <1>1, <2>7, Zenon
          <5> QED BY <2>1, <2>2, <2>3, <2>5, <4>1, <5>1, Zenon DEF Reached
        <4>2. CASE q # p
          <5>1. q \in Providers
              BY Zenon DEF SourceInv, SourceTyped
          <5>2. Reached(q)' = Reached(q)
              BY <1>2, <2>1, <2>2, <2>3, <2>5, <4>2, <5>1, Zenon DEF Reached
          <5>3. Noticed(q) => Noticed(q)'
              BY <2>1, <2>2, <2>3, <4>2, Zenon DEF Noticed
          <5> QED BY <2>2, <3>2, <5>2, <5>3, Zenon
        <4> QED BY <4>1, <4>2, Zenon
      <3> QED BY <2>2, <3>2, <3>3, <3>5, <3>6, Zenon DEF BaselineInv
    <2>10. Refreshing => DeltaInv' /\ BaselineInv'
        BY <2>2, Zenon DEF DeltaInv, BaselineInv
    <2> QED BY <2>2, <2>3, <2>6, <2>8, <2>9, <2>10, Zenon DEF SourceInv, ReadingInv
  <1> QED BY <1>3, <1>4, Zenon

LEMMA LookUpInv ==
    ASSUME SourceInv, LookUp
    PROVE  SourceInv'
  <1>1. /\ rebuild.pc = "lookup"
        /\ UNCHANGED <<providerVars, runtimeVars, poolVars, thread, ghostVars, left>>
      BY Zenon DEF LookUp
  <1>2. Unread /\ Following /\ ~Reading /\ rebuild.by \in Threads /\ thread[rebuild.by] = "rebuild"
        /\ baseline # Nobody
      BY <1>1, Zenon DEF Unread, Following, Reading, SourceInv, ControlInv
  <1>3. PICK p : p = rebuild.of
      BY Zenon
  <1>4. /\ rebuild.todo \subseteq rebuild.was /\ rebuild.was \ rebuild.todo \subseteq rebuild.known
        /\ \A q \in Providers : rebuild.at[q] <= revision[q]
        /\ \A q \in Providers \ rebuild.was : rebuild.delta[q] = NoChange
        /\ p \in rebuild.was \ rebuild.todo
      BY <1>1, <1>2, <1>3, Zenon DEF SourceInv, FollowingInv
  <1>5. /\ rebuild.was \subseteq Providers /\ rebuild.read \in [Providers -> Members]
        /\ p \in Providers
      BY <1>4, Zenon DEF SourceInv, SourceTyped, Rebuild
  <1>6. CASE \E t \in rebuild.delta[p].upserts : members[p][t] = 0
    <2>1. rebuild' = FullSnapshot(rebuild.by)
        BY <1>3, <1>6, Zenon DEF LookUp
    <2> QED BY <1>1, <1>2, <2>1, SnapshotInv, Zenon
  <1>7. CASE ~ \E t \in rebuild.delta[p].upserts : members[p][t] = 0
    <2>1. /\ rebuild' \in Rebuild /\ rebuild'.by = rebuild.by /\ rebuild'.known = rebuild.known
          /\ rebuild'.published = rebuild.published /\ rebuild'.was = rebuild.was
          /\ rebuild'.todo = rebuild.todo /\ rebuild'.at = rebuild.at
          /\ rebuild'.delta = rebuild.delta
          /\ rebuild'.pc = (IF rebuild.todo = {} THEN "storeDelta" ELSE "delta")
          /\ rebuild'.read = [rebuild.read EXCEPT ![p] =
                [t \in Tags |-> IF t \in rebuild.delta[p].upserts THEN members[p][t] ELSE 0]]
        BY <1>3, <1>5, <1>7, LookUpFields, Zenon DEF SourceInv
    <2>2. /\ SourceTyped' /\ ProvidersInv' /\ CatalogInv' /\ Refreshing' = Refreshing
          /\ UNCHANGED <<known, baseline, force, phase, sourceDirty, publication, thread, raced>>
          /\ UNCHANGED <<members, cursor, revision, dirty>> /\ Coming' = Coming
      <3>1. rebuild'.published \in {FALSE, rebuild.published}
          BY <2>1, Zenon
      <3> QED BY <1>1, <1>2, <2>1, <3>1, RebuildStep, Zenon
    <2>3. ~Reading' /\ Following' /\ Unread' /\ rebuild'.pc \notin {"idle", "lookup"}
          /\ (rebuild'.pc = "storeDelta" => rebuild'.todo = {})
        BY <2>1, Zenon DEF Reading, Following, Unread
    <2>4. ControlInv'
        BY <1>2, <2>1, <2>2, <2>3, Zenon DEF SourceInv, ControlInv
    <2>5. FollowingInv'
        BY <1>4, <2>1, <2>2, <2>3, Zenon DEF FollowingInv, NoChange
    <2>6. ASSUME ~raced, ~Refreshing PROVE DeltaInv' /\ BaselineInv'
      <3>1. /\ rebuild.known = known
            /\ \A q \in rebuild.todo : rebuild.at[q] = cursor[q]
            /\ \A q \in rebuild.was \ rebuild.todo : \A t \in Tags :
                 \/ Becomes(q, t) = members[q][t] \/ Touched(q, t, rebuild.at[q])
                 \/ p = q /\ t \in rebuild.delta[q].upserts
          BY <1>2, <1>3, <2>6, Zenon DEF SourceInv, DeltaInv
      <3>2. /\ \A q \in Providers \ known : baseline[q] = NoMembers
            /\ \A q \in known : \A t \in Tags :
                  baseline[q][t] = members[q][t] \/ Touched(q, t, cursor[q])
            /\ \A q \in known : Reached(q) = revision[q] \/ Noticed(q)
          BY <1>2, <2>6, Zenon DEF SourceInv, BaselineInv
      <3>3. \A q, t, c : Touched(q, t, c)' = Touched(q, t, c)
          BY <1>1, <2>1, RebuildStep, Zenon
      <3>4. ASSUME NEW q \in rebuild.was \ rebuild.todo, NEW t \in Tags
            PROVE  Becomes(q, t)' = members[q][t] \/ Touched(q, t, rebuild.at[q])
        <4>0. q \in Providers
            BY <1>5, Zenon
        <4>1. CASE p = q /\ t \in rebuild.delta[q].upserts
          <5>1. rebuild'.read[q][t] = members[q][t]
              BY <1>5, <2>1, <4>1, Zenon
          <5> QED BY <2>1, <4>1, <5>1, Zenon DEF Becomes
        <4>2. CASE ~(p = q /\ t \in rebuild.delta[q].upserts)
          <5>1. t \notin rebuild.delta[q].upserts \/ rebuild'.read[q] = rebuild.read[q]
              BY <1>5, <2>1, <4>0, <4>2, Zenon
          <5>2. Becomes(q, t)' = Becomes(q, t)
              BY <2>1, <2>2, <5>1, Zenon DEF Becomes
          <5> QED BY <3>1, <4>2, <5>2, Zenon
        <4> QED BY <4>1, <4>2, Zenon
      <3>5. DeltaInv'
          BY <2>1, <2>2, <3>1, <3>3, <3>4, Zenon DEF DeltaInv
      <3>6. \A q \in known : Reached(q)' = Reached(q) /\ (Noticed(q) => Noticed(q)')
          BY <1>2, <2>1, <2>2, <2>3, Zenon DEF Reached, Noticed
      <3> QED BY <2>2, <3>2, <3>3, <3>5, <3>6, Zenon DEF BaselineInv
    <2>7. Refreshing => DeltaInv' /\ BaselineInv'
        BY <2>2, Zenon DEF DeltaInv, BaselineInv
    <2> QED BY <2>2, <2>3, <2>4, <2>5, <2>6, <2>7, ZenonT(60) DEF SourceInv, ReadingInv
  <1> QED BY <1>6, <1>7, Zenon

(* ApplySourceDelta, member by member.                                       *)
LEMMA AppliedIs ==
    ASSUME SourceTyped, baseline # Nobody, NEW pub,
           pub = Applied(baseline, rebuild.delta, rebuild.read)
    PROVE  /\ pub \in [Providers -> Members]
           /\ \A p \in Providers, t \in Tags : pub[p][t] = Becomes(p, t)
           /\ \A p \in Providers :
                 rebuild.delta[p] = NoChange /\ baseline[p] = NoMembers => pub[p] = NoMembers
  <1>1. /\ baseline \in [Providers -> Members] /\ rebuild.read \in [Providers -> Members]
      BY Zenon DEF SourceTyped, Rebuild
  <1>2. \A p \in Providers : pub[p] = [t \in Tags |-> Becomes(p, t)]
      BY Zenon DEF Applied, Becomes
  <1>3. \A p \in Providers, t \in Tags : Becomes(p, t) \in Nat
    <2> SUFFICES ASSUME NEW p \in Providers, NEW t \in Tags PROVE Becomes(p, t) \in Nat
        BY Zenon
    <2>1. baseline[p][t] \in Nat /\ rebuild.read[p][t] \in Nat
        BY <1>1, Zenon DEF Members
    <2> QED BY <2>1, Zenon DEF Becomes
  <1>4. pub \in [Providers -> Members]
    <2>1. \A p \in Providers : pub[p] \in Members
        BY <1>2, <1>3, Zenon DEF Members
    <2>2. pub = [p \in Providers |-> pub[p]]
        BY Zenon DEF Applied
    <2> QED BY <2>1, <2>2, Zenon
  <1>5. \A p \in Providers, t \in Tags : pub[p][t] = Becomes(p, t)
      BY <1>2, ZenonT(60)
  <1>6. ASSUME NEW p \in Providers, rebuild.delta[p] = NoChange, baseline[p] = NoMembers
        PROVE  pub[p] = NoMembers
    <2>1. NoChange.upserts = {} /\ NoChange.removes = {}
        BY Zenon DEF NoChange
    <2>2. \A t \in Tags : Becomes(p, t) = 0
        BY <1>6, <2>1, Zenon DEF Becomes, NoMembers
    <2> QED BY <1>2, <2>2, Zenon DEF NoMembers
  <1> QED BY <1>4, <1>5, <1>6, Zenon

(* After the source was read, only the publication and the cursors matter.   *)
LEMMA StoredInv ==
    ASSUME SourceInv, rebuild.pc \in {"storeDelta", "storeSnapshot"},
           rebuild' = [rebuild EXCEPT !.pc = "stored"],
           UNCHANGED <<members, revision, history, change, listed, known, phase, sourceDirty,
                       prepared, catalog, thread, behind>>,
           baseline' \in [Providers -> Members], publication' = baseline',
           cursor' \in [Providers -> Nat], \A p \in Providers : cursor'[p] <= revision[p],
           dirty' \subseteq Providers, raced' \in BOOLEAN,
           force' \in BOOLEAN, force' => force /\ rebuild.pc = "storeDelta",
           ~raced' => BaselineInv'
    PROVE  SourceInv'
  <1>1. /\ rebuild' \in Rebuild /\ rebuild'.by = rebuild.by /\ rebuild'.pc = "stored"
        /\ rebuild'.published = rebuild.published
      BY StoredFields, Zenon DEF SourceInv
  <1>2. ~Following' /\ ~Reading' /\ ~Unread' /\ rebuild'.pc # "idle"
      BY <1>1, Zenon DEF Following, Reading, Unread
  <1>3. SourceTyped'
      BY <1>1, Zenon DEF SourceInv, SourceTyped
  <1>4. ProvidersInv'
    <2> SUFFICES ASSUME NEW p \in Providers PROVE LogFits(p)'
        BY Zenon DEF ProvidersInv
    <2>1. LogFits(p)
        BY Zenon DEF SourceInv, ProvidersInv
    <2> QED BY <2>1, Zenon DEF LogFits, NoChange
  <1>5. Coming' = Coming
      BY <1>1, Zenon DEF Coming
  <1>6. baseline' # Nobody
      BY SourceConstants, Zenon
  <1>7. rebuild.pc # "idle" /\ (rebuild.pc = "storeDelta" => ~Reading)
      BY Zenon DEF Reading
  <1>8. ControlInv'
    <2>1. force' => Coming'
        BY <1>5, <1>7, Zenon DEF SourceInv, ControlInv
    <2> QED BY <1>1, <1>2, <1>6, <1>7, <2>1, Zenon DEF SourceInv, ControlInv
  <1>9. CatalogInv'
      BY <1>1, <1>2, Zenon DEF SourceInv, CatalogInv
  <1> QED BY <1>2, <1>3, <1>4, <1>8, <1>9, Zenon
          DEF SourceInv, ReadingInv, FollowingInv, DeltaInv

LEMMA StoreDeltaInv ==
    ASSUME SourceInv, StoreDelta
    PROVE  SourceInv'
  <1>1. /\ rebuild.pc = "storeDelta" /\ rebuild' = [rebuild EXCEPT !.pc = "stored"]
        /\ baseline' = Applied(baseline, rebuild.delta, rebuild.read)
        /\ publication' = Applied(publication, rebuild.delta, rebuild.read)
        /\ cursor' = [p \in Providers |-> IF p \in rebuild.was THEN rebuild.at[p] ELSE cursor[p]]
        /\ dirty' = {p \in dirty :
                       ~(p \in rebuild.was /\ p \in known /\ rebuild.at[p] = revision[p])}
        /\ UNCHANGED <<members, revision, history, change, listed, known, force, phase,
                       sourceDirty, prepared, catalog, thread, raced, behind>>
      BY Zenon DEF StoreDelta, providerVars, ghostVars
  <1>2. Following /\ ~Reading /\ baseline # Nobody /\ baseline = publication
      BY <1>1, Zenon DEF Following, Reading, SourceInv, ControlInv
  <1>3. /\ baseline' \in [Providers -> Members]
        /\ \A p \in Providers, t \in Tags : baseline'[p][t] = Becomes(p, t)
        /\ \A p \in Providers :
              rebuild.delta[p] = NoChange /\ baseline[p] = NoMembers => baseline'[p] = NoMembers
      BY <1>1, <1>2, AppliedIs, Zenon DEF SourceInv
  <1>4. /\ rebuild.todo = {} /\ rebuild.was \subseteq rebuild.known
        /\ \A p \in Providers : rebuild.at[p] <= revision[p]
        /\ \A p \in Providers \ rebuild.was : rebuild.delta[p] = NoChange
      BY <1>1, <1>2, Zenon DEF SourceInv, FollowingInv
  <1>5. /\ rebuild.at \in [Providers -> Nat] /\ cursor \in [Providers -> Nat]
        /\ known \subseteq Providers /\ dirty \subseteq Providers /\ raced \in BOOLEAN
        /\ \A p \in Providers : cursor[p] <= revision[p]
      BY Zenon DEF SourceInv, SourceTyped, Rebuild, ProvidersInv, LogFits
  <1>6. /\ cursor' \in [Providers -> Nat] /\ \A p \in Providers : cursor'[p] <= revision[p]
        /\ \A p \in Providers : cursor'[p] = Reached(p)
      BY <1>1, <1>2, <1>4, <1>5, Zenon DEF Reached
  <1>7. rebuild'.pc = "stored" /\ rebuild'.by = rebuild.by /\ ~Following' /\ ~Reading'
    <2>1. rebuild'.pc = "stored" /\ rebuild'.by = rebuild.by
        BY <1>1, StoredFields, Zenon DEF SourceInv
    <2> QED BY <2>1, Zenon DEF Following, Reading
  <1>8. Coming' = Coming /\ Refreshing' = Refreshing
      BY <1>1, <1>7, Zenon DEF Coming, Refreshing
  <1>9. \A p, t, c : Touched(p, t, c)' = Touched(p, t, c)
      BY <1>1, ZenonT(60) DEF Touched
  <1>10. ASSUME ~raced PROVE BaselineInv'
    <2> SUFFICES ASSUME ~Refreshing PROVE BaselineInv'
        BY <1>8, Zenon DEF BaselineInv
    <2>1. /\ rebuild.known = known
          /\ \A p \in rebuild.was : \A t \in Tags :
               Becomes(p, t) = members[p][t] \/ Touched(p, t, rebuild.at[p])
        BY <1>1, <1>2, <1>4, <1>10, Zenon DEF SourceInv, DeltaInv
    <2>2. /\ \A p \in Providers \ known : baseline[p] = NoMembers
          /\ \A p \in known : \A t \in Tags :
                baseline[p][t] = members[p][t] \/ Touched(p, t, cursor[p])
          /\ \A p \in known : Reached(p) = revision[p] \/ Noticed(p)
        BY <1>2, <1>10, Zenon DEF SourceInv, BaselineInv
    <2>3. \A p \in Providers \ known : baseline'[p] = NoMembers
      <3>1. \A p \in Providers \ known : p \notin rebuild.was
          BY <1>4, <2>1, Zenon
      <3> QED BY <1>3, <1>4, <2>2, <3>1, Zenon
    <2>4. ASSUME NEW p \in known, NEW t \in Tags
          PROVE  baseline'[p][t] = members[p][t] \/ Touched(p, t, cursor'[p])
      <3>0. p \in Providers
          BY <1>5, Zenon
      <3>1. CASE p \in rebuild.was
        <4>1. cursor'[p] = rebuild.at[p] /\ baseline'[p][t] = Becomes(p, t)
            BY <1>1, <1>3, <3>0, <3>1, Zenon
        <4> QED BY <2>1, <3>1, <4>1, Zenon
      <3>2. CASE p \notin rebuild.was
        <4>1. cursor'[p] = cursor[p] /\ baseline'[p][t] = Becomes(p, t)
            BY <1>1, <1>3, <3>0, <3>2, Zenon
        <4>2. rebuild.delta[p].upserts = {} /\ rebuild.delta[p].removes = {}
            BY <1>4, <3>0, <3>2 DEF NoChange
        <4>3. Becomes(p, t) = baseline[p][t]
            BY <4>2, Zenon DEF Becomes
        <4> QED BY <2>2, <4>1, <4>3, Zenon
      <3> QED BY <3>1, <3>2, Zenon
    <2>5. ASSUME NEW p \in known PROVE (Reached(p) = revision[p] \/ Noticed(p))'
      <3>0. p \in Providers
          BY <1>5, Zenon
      <3>1. Reached(p)' = Reached(p)
          BY <1>6, <1>7, <3>0, Zenon DEF Reached
      <3>2. Noticed(p) => Reached(p) = revision[p] \/ Noticed(p)'
        <4>1. p \in dirty => p \in dirty' \/ Reached(p) = revision[p]
            BY <1>1, <1>2, Zenon DEF Reached
        <4> QED BY <1>1, <1>4, <1>8, <4>1, Zenon DEF Noticed
      <3> QED BY <1>1, <2>2, <3>1, <3>2, Zenon
    <2> QED BY <1>1, <1>9, <2>3, <2>4, <2>5, Zenon DEF BaselineInv
  <1>11. dirty' \subseteq Providers /\ publication' = baseline' /\ raced' \in BOOLEAN
      BY <1>1, <1>2, <1>5, Zenon
  <1>12. force' \in BOOLEAN /\ (force' => force /\ rebuild.pc = "storeDelta")
      BY <1>1, Zenon DEF SourceInv, SourceTyped
  <1> QED BY <1>1, <1>3, <1>6, <1>10, <1>11, <1>12, StoredInv, Zenon

LEMMA ReadMembersInv ==
    ASSUME SourceInv, NEW p \in Providers, ReadMembers(p)
    PROVE  SourceInv'
  <1>1. /\ rebuild.pc = "snapshot" /\ p \in rebuild.todo
        /\ UNCHANGED <<providerVars, runtimeVars, poolVars, thread, ghostVars, left>>
      BY Zenon DEF ReadMembers
  <1>2. Unread /\ ~Following /\ Reading /\ rebuild.by \in Threads /\ thread[rebuild.by] = "rebuild"
      BY <1>1, Zenon DEF Unread, Following, Reading, SourceInv, ControlInv
  <1>3. /\ rebuild' \in Rebuild /\ rebuild'.by = rebuild.by /\ rebuild'.known = rebuild.known
        /\ rebuild'.published = rebuild.published
        /\ rebuild'.pc = (IF rebuild.todo = {p} THEN "storeSnapshot" ELSE "snapshot")
        /\ rebuild'.todo = rebuild.todo \ {p}
        /\ rebuild'.read = [rebuild.read EXCEPT ![p] = members[p]]
        /\ rebuild'.at = [rebuild.at EXCEPT ![p] =
                             revision[p] + (IF thread[p] = "record" THEN 1 ELSE 0)]
      BY ReadFields, Zenon DEF SourceInv
  <1>4. /\ SourceTyped' /\ ProvidersInv' /\ CatalogInv' /\ Refreshing' = Refreshing
        /\ UNCHANGED <<known, baseline, force, phase, sourceDirty, publication, thread, raced>>
        /\ UNCHANGED <<members, cursor, revision, change>> /\ Coming' = Coming
    <2>1. rebuild'.published \in {FALSE, rebuild.published}
        BY <1>3, Zenon
    <2> QED BY <1>1, <1>2, <1>3, <2>1, RebuildStep, Zenon
  <1>5. Reading' /\ ~Following' /\ Unread' /\ rebuild'.pc # "idle"
      BY <1>3, Zenon DEF Reading, Following, Unread
  <1>6. ControlInv'
      BY <1>2, <1>3, <1>4, <1>5, Zenon DEF SourceInv, ControlInv
  <1>7. /\ rebuild.todo \subseteq rebuild.known
        /\ \A q \in Providers \ rebuild.known : rebuild.read[q] = NoMembers
        /\ \A q \in rebuild.known \ rebuild.todo :
             /\ rebuild.at[q] <= revision[q] + 1
             /\ revision[q] < rebuild.at[q] => thread[q] = "record" /\ rebuild.read[q] = members[q]
             /\ revision[q] = rebuild.at[q] =>
                   \A t \in Tags : \/ rebuild.read[q][t] = members[q][t]
                                   \/ t \in change[q].upserts \cup change[q].removes
      BY <1>2, Zenon DEF SourceInv, ReadingInv
  <1>8. /\ rebuild.read \in [Providers -> Members] /\ rebuild.at \in [Providers -> Nat]
        /\ rebuild.known \subseteq Providers /\ revision[p] \in Nat
      BY Zenon DEF SourceInv, SourceTyped, Rebuild
  <1>9. /\ rebuild'.read[p] = members[p]
        /\ rebuild'.at[p] = revision[p] + (IF thread[p] = "record" THEN 1 ELSE 0)
        /\ \A q \in Providers : q # p => /\ rebuild'.read[q] = rebuild.read[q]
                                         /\ rebuild'.at[q] = rebuild.at[q]
      BY <1>3, <1>8, Zenon
  <1>10. ReadingInv'
    <2>1. /\ rebuild'.todo \subseteq rebuild'.known
          /\ rebuild'.pc = "storeSnapshot" => rebuild'.todo = {}
        BY <1>3, <1>7, Zenon
    <2>2. \A q \in Providers \ rebuild'.known : rebuild'.read[q] = NoMembers
        BY <1>1, <1>3, <1>7, <1>9, ZenonT(60)
    <2>3. ASSUME NEW q \in rebuild'.known \ rebuild'.todo
          PROVE  /\ rebuild'.at[q] <= revision[q] + 1
                 /\ revision[q] < rebuild'.at[q] =>
                       thread[q] = "record" /\ rebuild'.read[q] = members[q]
                 /\ revision[q] = rebuild'.at[q] =>
                       \A t \in Tags : \/ rebuild'.read[q][t] = members[q][t]
                                       \/ t \in change[q].upserts \cup change[q].removes
      <3>1. CASE q = p
        <4>1. /\ rebuild'.at[p] <= revision[p] + 1
              /\ revision[p] < rebuild'.at[p] => thread[p] = "record"
            BY <1>8, <1>9
        <4> QED BY <1>9, <3>1, <4>1, Zenon
      <3>2. CASE q # p
        <4>1. q \in rebuild.known \ rebuild.todo /\ q \in Providers
            BY <1>3, <1>8, <3>2, Zenon
        <4>2. rebuild'.read[q] = rebuild.read[q] /\ rebuild'.at[q] = rebuild.at[q]
            BY <1>9, <3>2, <4>1, Zenon
        <4> QED BY <1>7, <4>1, <4>2, Zenon
      <3> QED BY <3>1, <3>2, Zenon
    <2>4. \A q \in rebuild'.known \ rebuild'.todo :
             /\ rebuild'.at[q] <= revision'[q] + 1
             /\ revision'[q] < rebuild'.at[q] =>
                   thread'[q] = "record" /\ rebuild'.read[q] = members'[q]
             /\ revision'[q] = rebuild'.at[q] =>
                   \A t \in Tags : \/ rebuild'.read[q][t] = members'[q][t]
                                   \/ t \in change'[q].upserts \cup change'[q].removes
        BY <1>4, <2>3, Zenon
    <2> QED BY <2>1, <2>2, <2>4, Zenon DEF ReadingInv
  <1>11. ~raced => BaselineInv'
    <2>1. \A q, t, c : Touched(q, t, c)' = Touched(q, t, c)
        BY <1>1, <1>3, RebuildStep, Zenon
    <2> QED BY <1>4, <1>5, <2>1, Zenon DEF SourceInv, BaselineInv
  <1> QED BY <1>4, <1>5, <1>6, <1>10, <1>11, Zenon DEF SourceInv, FollowingInv, DeltaInv

LEMMA StoreSnapshotInv ==
    ASSUME SourceInv, StoreSnapshot
    PROVE  SourceInv'
  <1>1. /\ rebuild.pc = "storeSnapshot" /\ rebuild' = [rebuild EXCEPT !.pc = "stored"]
        /\ baseline' = rebuild.read /\ publication' = rebuild.read
        /\ cursor' = [p \in Providers |-> IF p \in rebuild.known THEN revision[p] ELSE cursor[p]]
        /\ dirty' = {} /\ force' = FALSE
        /\ raced' = (raced \/ rebuild.known # known
                           \/ \E p \in rebuild.known : revision[p] > rebuild.at[p])
        /\ UNCHANGED <<members, revision, history, change, listed, known, phase, sourceDirty,
                       prepared, catalog, thread, behind>>
      BY Zenon DEF StoreSnapshot, providerVars
  <1>2. ~Following /\ Reading
      BY <1>1, Zenon DEF Following, Reading
  <1>3. /\ rebuild.read \in [Providers -> Members] /\ rebuild.at \in [Providers -> Nat]
        /\ rebuild.known \subseteq Providers /\ cursor \in [Providers -> Nat]
        /\ revision \in [Providers -> Nat] /\ known \subseteq Providers /\ raced \in BOOLEAN
        /\ \A p \in Providers : cursor[p] <= revision[p]
      BY Zenon DEF SourceInv, SourceTyped, Rebuild, ProvidersInv, LogFits
  <1>4. /\ cursor' \in [Providers -> Nat] /\ \A p \in Providers : cursor'[p] <= revision[p]
        /\ \A p \in rebuild.known : cursor'[p] = revision[p]
      BY <1>1, <1>3
  <1>5. raced' \in BOOLEAN
      BY <1>1, Zenon
  <1>6. rebuild'.pc = "stored" /\ ~Following'
    <2>1. rebuild'.pc = "stored"
        BY <1>1, StoredFields, Zenon DEF SourceInv
    <2> QED BY <2>1, Zenon DEF Following
  <1>7. ASSUME ~raced' PROVE BaselineInv'
    <2>1. rebuild.known = known /\ \A p \in known : ~(revision[p] > rebuild.at[p])
        BY <1>1, <1>7, Zenon
    <2>2. /\ rebuild.todo = {} /\ \A p \in Providers \ known : rebuild.read[p] = NoMembers
          /\ \A p \in known :
               /\ revision[p] < rebuild.at[p] => rebuild.read[p] = members[p]
               /\ revision[p] = rebuild.at[p] =>
                     \A t \in Tags : \/ rebuild.read[p][t] = members[p][t]
                                     \/ t \in change[p].upserts \cup change[p].removes
        BY <1>1, <1>2, <2>1, Zenon DEF SourceInv, ReadingInv
    <2>3. ASSUME NEW p \in known, NEW t \in Tags
          PROVE  baseline'[p][t] = members'[p][t] \/ Touched(p, t, cursor[p])'
      <3>1. revision[p] < rebuild.at[p] \/ revision[p] = rebuild.at[p]
          BY <1>3, <2>1
      <3>2. rebuild.read[p][t] = members[p][t] \/ t \in change[p].upserts \cup change[p].removes
          BY <2>2, <3>1, Zenon
      <3> QED BY <1>1, <3>2, Zenon DEF Touched
    <2>4. \A p \in known : Reached(p)' = revision'[p]
        BY <1>1, <1>4, <1>6, <2>1, Zenon DEF Reached
    <2> QED BY <1>1, <2>2, <2>3, <2>4, Zenon DEF BaselineInv
  <1>8. baseline' \in [Providers -> Members] /\ publication' = baseline' /\ dirty' \subseteq Providers
      BY <1>1, <1>3, Zenon
  <1>9. /\ rebuild.pc \in {"storeDelta", "storeSnapshot"}
        /\ force' \in BOOLEAN /\ (force' => force /\ rebuild.pc = "storeDelta")
      BY <1>1, Zenon
  <1>10. UNCHANGED <<members, revision, history, change, listed, known, phase, sourceDirty,
                     prepared, catalog, thread, behind>>
      BY <1>1, Zenon
  <1>11. rebuild' = [rebuild EXCEPT !.pc = "stored"]
      BY <1>1, Zenon
  <1> QED BY <1>4, <1>5, <1>7, <1>8, <1>9, <1>10, <1>11, StoredInv, Zenon

LEMMA LookPublishedInv ==
    ASSUME SourceInv, LookPublished
    PROVE  SourceInv'
  <1>1. /\ rebuild.pc = "stored"
        /\ UNCHANGED <<providerVars, runtimeVars, poolVars, thread, ghostVars, left>>
      BY Zenon DEF LookPublished
  <1>2. ~Unread /\ ~Following /\ ~Reading
      BY <1>1, Zenon DEF Unread, Following, Reading
  <1>3. /\ rebuild' \in Rebuild /\ rebuild'.by = rebuild.by /\ rebuild'.pc = "commit"
        /\ rebuild'.published = Published
      BY LookedFields, Zenon DEF SourceInv
  <1>4. /\ SourceTyped' /\ ProvidersInv' /\ Refreshing' = Refreshing
        /\ UNCHANGED <<known, baseline, force, phase, sourceDirty, publication, thread, raced>>
        /\ UNCHANGED <<members, cursor, revision, dirty, catalog, prepared, behind>>
        /\ Coming' = Coming /\ \A p, t, c : Touched(p, t, c)' = Touched(p, t, c)
      BY <1>1, <1>3, RebuildStep, Zenon
  <1>5. ~Unread' /\ ~Following' /\ ~Reading' /\ rebuild'.pc # "idle"
      BY <1>3, Zenon DEF Unread, Following, Reading
  <1>6. ControlInv'
      BY <1>1, <1>2, <1>3, <1>4, <1>5, Zenon DEF SourceInv, ControlInv
  <1>7. CatalogInv'
      BY <1>3, <1>4, <1>5, Zenon DEF SourceInv, CatalogInv, Published
  <1>8. ~raced => BaselineInv'
    <2>1. \A p \in known : Reached(p)' = Reached(p) /\ (Noticed(p) => Noticed(p)')
        BY <1>2, <1>4, <1>5, Zenon DEF Reached, Noticed
    <2> QED BY <1>2, <1>4, <2>1, Zenon DEF SourceInv, BaselineInv
  <1> QED BY <1>4, <1>5, <1>6, <1>7, <1>8, Zenon DEF SourceInv, ReadingInv, FollowingInv, DeltaInv

(* The goroutine leaves rebuild, with an error or without.                   *)
LEMMA LeavesInv ==
    ASSUME SourceInv, rebuild.pc = "commit", Leaves, CatalogInv',
           UNCHANGED <<members, revision, history, change, listed, known, baseline, cursor, dirty,
                       force, sourceDirty, publication, raced>>,
           behind' \in BOOLEAN, phase' = phase \/ phase' = "prepared"
    PROVE  SourceInv'
  <1>1. /\ rebuild.by \in Threads /\ thread[rebuild.by] = "rebuild" /\ baseline # Nobody
        /\ ~Following /\ ~Reading
      BY Zenon DEF SourceInv, ControlInv, Unread, Following, Reading
  <1>2. /\ rebuild' \in Rebuild /\ rebuild'.by = Nobody /\ rebuild'.pc = "idle"
      BY IdleFields, Zenon DEF Leaves
  <1>3. /\ thread' \in [Threads -> Points] /\ thread'[rebuild.by] = "idle"
        /\ \A u \in Threads : u # rebuild.by => thread'[u] = thread[u]
    <2>1. "idle" \in Points /\ thread' = [thread EXCEPT ![rebuild.by] = "idle"]
        BY Zenon DEF Points, Leaves
    <2> QED BY <1>1, <2>1, Moves, Zenon DEF SourceInv
  <1>4. SourceTyped'
    <2>1. phase' \in {"starting", "prepared", "publishing", "active"}
        BY Zenon DEF SourceInv, SourceTyped
    <2> QED BY <1>2, <1>3, <2>1, Zenon DEF SourceInv, SourceTyped
  <1>5. \A q \in Providers : thread[q] \in {"record", "notify", "mark"} => thread'[q] = thread[q]
      BY <1>1, <1>3, ThreadsApart, Zenon
  <1>6. ProvidersInv'
    <2>1. \A q \in Providers : thread[q] = "record" => thread'[q] = "record"
        BY <1>5, Zenon
    <2> QED BY <2>1, ProvidersSame, Zenon DEF SourceInv
  <1>7. Coming => Coming'
      BY <1>2, <1>3, ThreadsApart, Zenon DEF Coming
  <1>8. ~Following' /\ ~Reading' /\ Unread'
      BY <1>2, Zenon DEF Following, Reading, Unread
  <1>9. ControlInv'
    <2>1. phase' = "active" => phase = "active"
        BY Zenon
    <2> QED BY <1>1, <1>2, <1>7, <1>8, <2>1, Zenon DEF SourceInv, ControlInv
  <1>10. Refreshing => Refreshing'
      BY <1>1, <1>3, ThreadsApart, Zenon DEF Refreshing
  <1>11. ~raced => BaselineInv'
    <2>1. \A p, t, c : Touched(p, t, c)' = Touched(p, t, c)
        BY ZenonT(60) DEF Touched
    <2>2. \A p \in known : Reached(p)' = Reached(p) /\ (Noticed(p) => Noticed(p)')
      <3> SUFFICES ASSUME NEW p \in known
                   PROVE  Reached(p)' = Reached(p) /\ (Noticed(p) => Noticed(p)')
          BY Zenon
      <3>1. p \in Providers
          BY Zenon DEF SourceInv, SourceTyped
      <3> QED BY <1>1, <1>5, <1>7, <1>8, <3>1, Zenon DEF Reached, Noticed
    <2> QED BY <1>1, <1>10, <2>1, <2>2, Zenon DEF SourceInv, BaselineInv
  <1> QED BY <1>4, <1>6, <1>8, <1>9, <1>11, ZenonT(60) DEF SourceInv, ReadingInv, FollowingInv, DeltaInv

LEMMA CommitRebuildInv ==
    ASSUME SourceInv, CommitRebuild \/ FailRebuild
    PROVE  SourceInv'
  <1>1. /\ rebuild.pc = "commit" /\ Leaves
        /\ UNCHANGED <<members, revision, history, change, listed, known, baseline, cursor, dirty,
                       force, sourceDirty, publication, raced>>
        /\ behind' \in BOOLEAN /\ (phase' = phase \/ phase' = "prepared")
      BY Zenon DEF CommitRebuild, FailRebuild, providerVars, runtimeVars, poolVars
  <1>2. /\ rebuild.by \in Threads /\ thread[rebuild.by] = "rebuild" /\ publication # Nobody
      BY <1>1, Zenon DEF SourceInv, ControlInv, Unread
  <1>3. rebuild'.published = FALSE
      BY <1>1, IdleFields, Zenon DEF Leaves
  <1>4. thread'[Starter] = thread[Starter] \/ thread'[Starter] = "idle"
    <2>1. "idle" \in Points /\ thread' = [thread EXCEPT ![rebuild.by] = "idle"]
        BY <1>1, Zenon DEF Points, Leaves
    <2>2. Starter \in Threads /\ thread \in [Threads -> Points]
        BY ThreadsApart, Zenon DEF SourceInv, SourceTyped
    <2> QED BY <1>2, <2>1, <2>2, Zenon
  <1>5. CatalogInv'
    <2>1. CASE rebuild.published
      <3>1. thread'[Starter] \in {"idle", "rebuild"} /\ catalog # Nobody
          BY <1>4, <2>1, Zenon DEF SourceInv, CatalogInv
      <3>2. catalog' # Nobody /\ (catalog' = publication' \/ behind')
          BY <1>1, <1>2, <2>1, <3>1, Zenon DEF CommitRebuild, FailRebuild, poolVars
      <3> QED BY <1>3, <3>1, <3>2, Zenon DEF CatalogInv
    <2>2. CASE ~rebuild.published
      <3>1. prepared' = publication' /\ phase' = "prepared" /\ catalog' = catalog
          BY <2>2, Zenon DEF CommitRebuild, FailRebuild
      <3>2. thread'[Starter] = "publish" => catalog = Nobody
          BY <1>4, Zenon DEF SourceInv, CatalogInv
      <3> QED BY <1>3, <3>1, <3>2, Zenon DEF CatalogInv
    <2> QED BY <2>1, <2>2, Zenon
  <1> QED BY <1>1, <1>5, LeavesInv, Zenon

-----------------------------------------------------------------------------
(* Every step of the source, the pool and the publication keeps the          *)
(* invariant.                                                                *)
THEOREM SourceInvariant == SourceSpec => []SourceInv
  <1>1. ASSUME SourceInv, [SourceNext]_sourceVars PROVE SourceInv'
    <2>1. CASE UNCHANGED sourceVars
      <3>1. /\ UNCHANGED <<members, revision, history, change, listed, known, baseline, cursor,
                           dirty, force, phase, sourceDirty, publication, prepared, catalog,
                           thread, rebuild, raced, behind>>
          BY <2>1, Zenon DEF sourceVars, providerVars, runtimeVars, poolVars, ghostVars
      <3>2. SourceTyped'
          BY <1>1, <3>1, Zenon DEF SourceInv, SourceTyped
      <3>3. Coming' = Coming /\ Refreshing' = Refreshing
          BY <3>1, Zenon DEF Coming, Refreshing
      <3>4. ControlInv' /\ CatalogInv'
          BY <1>1, <3>1, <3>3, ZenonT(60) DEF SourceInv, ControlInv, CatalogInv, Following, Unread, Reading
      <3>5. \A q \in known : Noticed(q) => Noticed(q)'
          BY <1>1, <3>1, <3>3, NoticedKept, Zenon
      <3> QED BY <1>1, <3>1, <3>2, <3>3, <3>4, <3>5, AsideInv, Zenon
    <2>2. CASE SourceNext
      <3>1. ASSUME NEW p \in Providers,
                   \/ \E U, R \in SUBSET Tags : SetMembers(p, U, R)
                   \/ RecordDelta(p) \/ UpdateGroups(p) \/ MarkProvider(p)
                   \/ ChangeListing(p) \/ ReadDelta(p) \/ ReadMembers(p)
            PROVE  SourceInv'
          BY <1>1, <3>1, SetMembersInv, RecordDeltaInv, UpdateGroupsInv, MarkProviderInv,
             ChangeListingInv, ReadDeltaInv, ReadMembersInv, Zenon
      <3>2. ASSUME NEW th \in Threads, OnSourceUpdated(th) \/ BeginRebuild(th)
            PROVE  SourceInv'
          BY <1>1, <3>2, OnSourceUpdatedInv, BeginRebuildInv, Zenon
      <3>3. CASE Reconcile \/ ForceRefresh \/ LookUp \/ StoreDelta \/ StoreSnapshot
          BY <1>1, <3>3, ReconcileInv, ForceRefreshInv, LookUpInv, StoreDeltaInv,
             StoreSnapshotInv, Zenon
      <3>4. CASE LookPublished \/ CommitRebuild \/ FailRebuild
          BY <1>1, <3>4, LookPublishedInv, CommitRebuildInv, Zenon
      <3>5. CASE BeginPublication \/ Publish \/ EndPublication
          BY <1>1, <3>5, BeginPublicationInv, PublishInv, EndPublicationInv, Zenon
      <3> QED BY <2>2, <3>1, <3>2, <3>3, <3>4, <3>5, Zenon DEF SourceNext
    <2> QED BY <1>1, <2>1, <2>2, Zenon
  <1> QED BY <1>1, SourceStart, PTL DEF SourceSpec

(* When everything has settled, no snapshot overwrote what is newer and the  *)
(* last rebuild did not fail, the catalog has the members every known        *)
(* provider has (onSourceUpdated, rebuild, Delta and Snapshot).              *)
THEOREM ConvergesUnlessRacedTheorem == SourceSpec => []ConvergesUnlessRaced
  <1>1. ASSUME SourceInv PROVE ConvergesUnlessRaced
    <2> SUFFICES ASSUME Quiet, ~raced, ~behind PROVE UpToDate
        BY Zenon DEF ConvergesUnlessRaced
    <2>1. /\ \A th \in Threads : thread[th] = "idle"
          /\ rebuild.pc = "idle" /\ phase = "active"
        BY Zenon DEF Quiet
    <2>2. ~Coming /\ ~Refreshing /\ ~Following /\ ~Reading /\ Unread
      <3>1. ~Coming
          BY <1>1, <2>1, Zenon DEF Coming, SourceInv, ControlInv
      <3>2. ~Following /\ ~Reading /\ Unread
          BY <2>1, Zenon DEF Following, Reading, Unread
      <3>3. ~force
          BY <1>1, <3>1, <3>2, Zenon DEF SourceInv, ControlInv
      <3>4. thread[Poller] # "force"
          BY <2>1, ThreadsApart, Zenon
      <3> QED BY <3>1, <3>2, <3>3, <3>4, Zenon DEF Refreshing
    <2>3. baseline # Nobody /\ catalog = baseline /\ known \subseteq Providers
          /\ baseline \in [Providers -> Members]
        BY <1>1, <2>1, <2>2, Zenon DEF SourceInv, ControlInv, CatalogInv, SourceTyped
    <2>4. /\ \A p \in Providers \ known : baseline[p] = NoMembers
          /\ \A p \in known : \A t \in Tags :
                baseline[p][t] = members[p][t] \/ Touched(p, t, cursor[p])
          /\ \A p \in known : Reached(p) = revision[p] \/ Noticed(p)
        BY <1>1, <2>2, <2>3, Zenon DEF SourceInv, BaselineInv
    <2>5. ASSUME NEW p \in known PROVE baseline[p] = members[p]
      <3>1. p \in Providers /\ thread[p] = "idle"
          BY <2>1, <2>3, ThreadsApart, Zenon
      <3>2. ~Noticed(p)
          BY <2>2, <3>1, Zenon DEF Noticed
      <3>3. cursor[p] = revision[p]
          BY <2>2, <2>4, <3>2, Zenon DEF Reached
      <3>4. LogFits(p) /\ revision[p] \in Nat /\ history[p] \in Seq(Change)
          BY <1>1, <3>1, Zenon DEF SourceInv, ProvidersInv, SourceTyped
      <3>5. change[p] = NoChange /\ NoChange.upserts = {} /\ NoChange.removes = {}
          BY <3>1, <3>4, Zenon DEF LogFits, NoChange
      <3>6. \A t \in Tags : ~Touched(p, t, cursor[p])
          BY <3>3, <3>4, <3>5 DEF Touched
      <3>7. baseline[p] \in [Tags -> Nat] /\ members[p] \in [Tags -> Nat]
          BY <1>1, <2>3, <3>1, Zenon DEF SourceInv, SourceTyped, Members
      <3> QED BY <2>4, <3>6, <3>7
    <2>6. \A p \in Providers : baseline[p] = IF p \in known THEN members[p] ELSE NoMembers
        BY <2>4, <2>5, Zenon
    <2> QED BY <2>3, <2>6, Zenon DEF UpToDate
  <1> QED BY <1>1, SourceInvariant, PTL

(* Between rebuilds the runtime's lastPublication is the pool's              *)
(* sourcePublication, so deltas computed against the one fit the other.      *)
THEOREM BaselinesAgreeTheorem == SourceSpec => []BaselinesAgree
  <1>1. SourceInv => BaselinesAgree
      BY Zenon DEF SourceInv, ControlInv, BaselinesAgree
  <1> QED BY <1>1, SourceInvariant, PTL
=============================================================================
