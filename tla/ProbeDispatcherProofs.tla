----------------------- MODULE ProbeDispatcherProofs ------------------------
(***************************************************************************)
(* Proofs about the probe queue of one scheduler, for any keys, callers,   *)
(* tasks, queue size and number of workers.  DispatchInv is inductive: the *)
(* maps agree with the chosen probe and with the workers, and every open   *)
(* submission waits once, with the key of its task.                        *)
(***************************************************************************)
EXTENDS ProbeDispatcher, FiniteSetTheorems, TLAPS

Elems(s) == {s[i] : i \in 1..Len(s)}
Distinct(s) == \A i, j \in 1..Len(s) : s[i] = s[j] => i = j

Completed == Elems(done)

(* What the proof needs of the types; the order and the rotation only choose *)
(* among the probes that are ready.                                          *)
QueueTyped ==
    /\ pending \subseteq Keys /\ active \subseteq Keys /\ rerun \subseteq Keys /\ busy \subseteq Keys
    /\ entry \in [Keys -> Entry] /\ again \in [Keys -> Entry]
    /\ done \in Seq(Keys)
    /\ owner \in [ready : BOOLEAN, cancelled : BOOLEAN]
    /\ call \in [Callers -> Call]
    /\ queueSize \in Nat
    /\ IsFiniteSet(pending) /\ IsFiniteSet(rerun)

(* The maps, the chosen probe and the workers; a worker of a cancelled       *)
(* scheduler may lose its completion, so that then a run may be missing.     *)
MapsAgree ==
    /\ pending \cap active = {} /\ rerun \subseteq active
    /\ dispatch \in pending \cup {Absent}
    /\ Cardinality(pending) + Cardinality(rerun) <= queueSize
    /\ busy \cup Completed \subseteq active
    /\ ~owner.cancelled => active = busy \cup Completed
    /\ busy \cap Completed = {}
    /\ Distinct(done)

(* A waiter is found only with the key of its task and while its submission  *)
(* is open, and an open one is in one of the two places its key has.         *)
WaitersKept ==
    /\ \A c \in Callers : call[c].pc # "none" => call[c].task \in Task
    /\ \A k \in Keys : k \notin pending \cup active => entry[k].waiters = {}
    /\ \A k \in Keys : k \notin rerun => again[k].waiters = {}
    /\ \A k \in Keys : \A c \in entry[k].waiters : Open(c) /\ call[c].task.key = k
    /\ \A k \in Keys : \A c \in again[k].waiters :
           Open(c) /\ call[c].task.key = k /\ c \notin entry[k].waiters
    /\ \A c \in Callers : Open(c) =>
           c \in entry[call[c].task.key].waiters \cup again[call[c].task.key].waiters

DispatchInv == QueueTyped /\ MapsAgree /\ WaitersKept /\ FreshAnswer

LEMMA NoEntryFields ==
    /\ NoEntry \in Entry /\ NoEntry.waiters = {} /\ NoEntry.periodic = FALSE
    /\ NoCall \in Call /\ NoCall.pc = "none"
  BY DEF NoEntry, Entry, Priorities, NoCall, Call

(* mergeProbeTask and the entry of a first submission. *)
LEMMA EntryFields ==
    ASSUME NEW t \in Task, NEW c \in Callers
    PROVE  /\ NewEntry(t, c) \in Entry /\ NewEntry(t, c).waiters = {c}
           /\ \A e \in Entry : /\ Merged(e, t, c) \in Entry
                               /\ Merged(e, t, c).waiters = e.waiters \cup {c}
                               /\ e.periodic => Merged(e, t, c).periodic
  <1>1. /\ t.priority \in Priorities /\ t.periodic \in BOOLEAN /\ t.due \in BOOLEAN
      BY Zenon DEF Task
  <1>2. NewEntry(t, c) \in Entry /\ NewEntry(t, c).waiters = {c}
      BY <1>1, Zenon DEF NewEntry, Entry
  <1>3. ASSUME NEW e \in Entry
        PROVE  /\ Merged(e, t, c) \in Entry
               /\ Merged(e, t, c).waiters = e.waiters \cup {c}
               /\ e.periodic => Merged(e, t, c).periodic
    <2>1. /\ e.waiters \in SUBSET Callers /\ e.priority \in Priorities
          /\ e.periodic \in BOOLEAN /\ e.due \in BOOLEAN
        BY Zenon DEF Entry
    <2>2. PICK q : q = IF t.priority > e.priority THEN t.priority ELSE e.priority
        BY Zenon
    <2>3. q \in Priorities /\ e.waiters \cup {c} \in SUBSET Callers
        BY <2>1, <2>2, <1>1, Zenon
    <2>4. PICK b \in BOOLEAN : b = (e.periodic \/ t.periodic)
        BY <2>1, <1>1, Zenon
    <2>5. PICK f \in BOOLEAN : f = (e.due \/ t.due)
        BY <2>1, <1>1, Zenon
    <2>6. PICK w : w = e.waiters \cup {c}
        BY Zenon
    <2>7. PICK m : m = Merged(e, t, c)
        BY Zenon
    <2>8. m = [waiters |-> w, priority |-> q, periodic |-> b, due |-> f]
        BY <2>2, <2>4, <2>5, <2>6, <2>7, Zenon DEF Merged
    <2>9. m \in Entry
        BY <2>3, <2>4, <2>5, <2>6, <2>8, Zenon DEF Entry
    <2>10. m.waiters = w /\ m.periodic = b
        BY <2>8, Zenon
    <2> QED BY <2>4, <2>6, <2>7, <2>9, <2>10, Zenon
  <1> QED BY <1>2, <1>3, Zenon

LEMMA DispatchStart == ProbeInit => DispatchInv
  <1> SUFFICES ASSUME ProbeInit PROVE DispatchInv
      BY Zenon
  <1>1. QueueTyped
    <2>1. owner \in [ready : BOOLEAN, cancelled : BOOLEAN]
      <3>1. PICK r \in BOOLEAN : owner = [ready |-> r, cancelled |-> FALSE]
          BY Zenon DEF ProbeInit
      <3> QED BY <3>1, Zenon
    <2>2. done \in Seq(Keys) /\ queueSize \in Nat
        BY DispatcherConstants DEF ProbeInit
    <2>3. IsFiniteSet(pending) /\ IsFiniteSet(rerun)
        BY FS_EmptySet, Zenon DEF ProbeInit
    <2> QED BY <2>1, <2>2, <2>3, NoEntryFields, Zenon DEF ProbeInit, QueueTyped
  <1>2. Cardinality({}) = 0 /\ queueSize \in Nat /\ Len(done) = 0
      BY FS_EmptySet, DispatcherConstants, Zenon DEF ProbeInit
  <1>3. Completed = {} /\ Distinct(done)
      BY <1>2 DEF Completed, Elems, Distinct
  <1>4. MapsAgree
      BY <1>2, <1>3 DEF ProbeInit, MapsAgree
  <1>5. WaitersKept
      BY NoEntryFields, Zenon DEF ProbeInit, WaitersKept, Open
  <1>6. FreshAnswer
      BY Zenon DEF ProbeInit, FreshAnswer
  <1> QED BY <1>1, <1>4, <1>5, <1>6, Zenon DEF DispatchInv

(* The head of the loop chooses a queued probe, or none. *)
LEMMA Chooses ==
    ASSUME NEW d, d \in pending' \cup {Absent}, LoopHead(d)
    PROVE  dispatch' \in pending' \cup {Absent}
  BY Zenon DEF LoopHead, Ready

(* A step after which the submissions W are answered, wherever they waited,  *)
(* and the others wait as before, although perhaps at the other place.       *)
LEMMA WaitersStep ==
    ASSUME DispatchInv, QueueTyped', NEW W,
           \A c \in Callers : call'[c].pc # "none" => call'[c].task \in Task,
           \A k \in Keys : /\ k \notin pending' \cup active' => entry'[k].waiters = {}
                           /\ k \notin rerun' => again'[k].waiters = {}
                           /\ entry'[k].waiters \cap again'[k].waiters = {},
           \A c \in Callers : c \in W =>
               /\ ~Open(c)' /\ \A k \in Keys : c \notin entry'[k].waiters \cup again'[k].waiters,
           \A c \in Callers : c \notin W =>
               /\ Open(c)' <=> Open(c)
               /\ Open(c) => call'[c].task = call[c].task
               /\ \A k \in Keys : c \in entry'[k].waiters \cup again'[k].waiters <=>
                                  c \in entry[k].waiters \cup again[k].waiters
    PROVE  WaitersKept'
  <1>1. \A k \in Keys : /\ entry[k].waiters \subseteq Callers /\ again[k].waiters \subseteq Callers
                        /\ entry'[k].waiters \subseteq Callers /\ again'[k].waiters \subseteq Callers
      BY DEF DispatchInv, QueueTyped, Entry
  <1>2. \A k \in Keys : \A c \in entry'[k].waiters \cup again'[k].waiters :
            c \in Callers /\ Open(c)' /\ call'[c].task.key = k
      BY <1>1 DEF DispatchInv, WaitersKept
  <1>3. \A c \in Callers : Open(c) => call[c].task.key \in Keys
      BY ZenonT(60) DEF DispatchInv, WaitersKept, Open, Task
  <1>4. \A c \in Callers : Open(c)' =>
            c \in entry'[call'[c].task.key].waiters \cup again'[call'[c].task.key].waiters
      BY <1>3, SMTT(60) DEF DispatchInv, WaitersKept
  <1> QED BY <1>2, <1>4, ZenonT(60) DEF WaitersKept

(* A step that answers nobody. *)
LEMMA WaitersSame ==
    ASSUME DispatchInv, QueueTyped',
           \A c \in Callers : call'[c].pc # "none" => call'[c].task \in Task,
           \A k \in Keys : /\ k \notin pending' \cup active' => entry'[k].waiters = {}
                           /\ k \notin rerun' => again'[k].waiters = {}
                           /\ entry'[k].waiters \cap again'[k].waiters = {},
           \A c \in Callers :
               /\ Open(c)' <=> Open(c)
               /\ Open(c) => call'[c].task = call[c].task
               /\ \A k \in Keys : c \in entry'[k].waiters \cup again'[k].waiters <=>
                                  c \in entry[k].waiters \cup again[k].waiters
    PROVE  WaitersKept'
  <1>1. PICK W : W = {}
      BY Zenon
  <1>2. \A c \in Callers : c \in W =>
            /\ ~Open(c)' /\ \A k \in Keys : c \notin entry'[k].waiters \cup again'[k].waiters
      BY <1>1, Zenon
  <1> QED BY <1>2, WaitersStep, ZenonT(60)

(* A step after which everyone waits where it did. *)
LEMMA WaitersUntouched ==
    ASSUME DispatchInv, QueueTyped', UNCHANGED <<pending, active, rerun>>,
           \A k \in Keys : entry'[k].waiters = entry[k].waiters /\ again'[k].waiters = again[k].waiters,
           \A c \in Callers : call'[c].pc # "none" => call'[c].task \in Task,
           \A c \in Callers : /\ Open(c)' <=> Open(c)
                              /\ Open(c) => /\ call'[c].task = call[c].task
                                            /\ call'[c].covered = call[c].covered
    PROVE  WaitersKept' /\ FreshAnswer'
  <1>1. WaitersKept'
    <2>1. \A k \in Keys : /\ k \notin pending' \cup active' => entry'[k].waiters = {}
                          /\ k \notin rerun' => again'[k].waiters = {}
                          /\ entry'[k].waiters \cap again'[k].waiters = {}
        BY SMTT(60) DEF DispatchInv, WaitersKept
    <2> QED BY <2>1, WaitersSame, Zenon
  <1>2. FreshAnswer'
    <2>1. \A k \in active : k \in Keys /\ \A c \in entry[k].waiters : c \in Callers /\ Open(c)
        BY ZenonT(60) DEF DispatchInv, QueueTyped, WaitersKept, Entry
    <2> QED BY <2>1, Zenon DEF DispatchInv, FreshAnswer
  <1> QED BY <1>1, <1>2, Zenon

(* A step of a caller or of the clock: the queue keeps its keys and waiters. *)
LEMMA QueueSame ==
    ASSUME DispatchInv, UNCHANGED <<queueSize, pending, active, rerun, busy, done>>,
           dispatch' \in pending \cup {Absent},
           owner' \in [ready : BOOLEAN, cancelled : BOOLEAN], owner.cancelled => owner'.cancelled,
           entry' \in [Keys -> Entry], again' \in [Keys -> Entry], call' \in [Callers -> Call],
           \A k \in Keys : entry'[k].waiters = entry[k].waiters /\ again'[k].waiters = again[k].waiters,
           \A c \in Callers : call'[c].pc # "none" => call'[c].task \in Task,
           \A c \in Callers : /\ Open(c)' <=> Open(c)
                              /\ Open(c) => /\ call'[c].task = call[c].task
                                            /\ call'[c].covered = call[c].covered
    PROVE  DispatchInv'
  <1>1. QueueTyped'
      BY Zenon DEF DispatchInv, QueueTyped
  <1>2. MapsAgree'
      BY Zenon DEF DispatchInv, MapsAgree, Completed
  <1> QED BY <1>1, <1>2, WaitersUntouched, Zenon DEF DispatchInv

LEMMA CallerInv ==
    ASSUME DispatchInv, Fixed, NEW c \in Callers,
           (\E t \in Tasks[c] : Submit(c, t)) \/ Abort(c) \/ Cancel(c)
    PROVE  DispatchInv'
  <1>1. /\ UNCHANGED <<queueSize, pending, active, rerun, dispatch, busy, done, owner, entry, again>>
      BY Zenon DEF Submit, Abort, Cancel, Fixed
  <1>2. call[c] \in Call /\ call \in [Callers -> Call]
      BY Zenon DEF DispatchInv, QueueTyped
  <1>3. /\ call' \in [Callers -> Call] /\ \A d \in Callers : d # c => call'[d] = call[d]
        /\ call'[c].pc # "none" => call'[c].task \in Task
        /\ Open(c)' <=> Open(c)
        /\ Open(c) => call'[c].task = call[c].task /\ call'[c].covered = call[c].covered
    <2>1. ASSUME NEW t \in Tasks[c], Submit(c, t)
          PROVE  /\ call' \in [Callers -> Call] /\ \A d \in Callers : d # c => call'[d] = call[d]
                 /\ call'[c].pc = "sent" /\ call'[c].task = t /\ t \in Task /\ call[c].pc = "none"
        BY <2>1, <1>2, DispatcherConstants, ZenonT(60) DEF Submit, Call
    <2>2. ASSUME Cancel(c)
          PROVE  /\ call' \in [Callers -> Call] /\ \A d \in Callers : d # c => call'[d] = call[d]
                 /\ call'[c].pc = "cancelling" /\ call'[c].task = call[c].task
                 /\ call'[c].covered = call[c].covered /\ call[c].pc = "waiting"
        BY <2>2, <1>2, Zenon DEF Cancel, Call
    <2>3. ASSUME Abort(c)
          PROVE  /\ call' \in [Callers -> Call] /\ \A d \in Callers : d # c => call'[d] = call[d]
                 /\ \/ /\ call'[c].pc = "cancelled" /\ call'[c].task = call[c].task
                       /\ call'[c].covered = call[c].covered /\ call[c].pc = "cancelling"
                    \/ call'[c].pc = "none" /\ call[c].pc \in {"sent", "late"}
      <3>1. CASE call[c].pc = "cancelling"
        <4>1. call' = [call EXCEPT ![c] = [call[c] EXCEPT !.pc = "cancelled"]]
            BY <2>3, <3>1, Zenon DEF Abort
        <4> QED BY <4>1, <3>1, <1>2, Zenon DEF Call
      <3>2. CASE call[c].pc # "cancelling"
        <4>1. call' = [call EXCEPT ![c] = NoCall] /\ call[c].pc \in {"sent", "late"}
            BY <2>3, <3>2, Zenon DEF Abort
        <4> QED BY <4>1, <1>2, NoEntryFields, Zenon
      <3> QED BY <3>1, <3>2, Zenon
    <2> QED BY <2>1, <2>2, <2>3, SMTT(60) DEF Open, DispatchInv, WaitersKept
  <1>4. \A d \in Callers : /\ call'[d].pc # "none" => call'[d].task \in Task
                           /\ Open(d)' <=> Open(d)
                           /\ Open(d) => /\ call'[d].task = call[d].task
                                         /\ call'[d].covered = call[d].covered
      BY <1>3, SMTT(60) DEF Open, DispatchInv, WaitersKept
  <1> QED BY <1>1, <1>3, <1>4, QueueSame, Zenon DEF DispatchInv, QueueTyped, MapsAgree

(* The clock, the timer, the token and the end of the scheduler's context. *)
LEMMA BecomesDueInv ==
    ASSUME DispatchInv, Fixed, NEW k \in Keys, BecomesDue(k)
    PROVE  DispatchInv'
  <1>1. UNCHANGED <<queueSize, pending, active, rerun, dispatch, busy, done, owner, call>>
      BY Zenon DEF BecomesDue, Fixed
  <1>2. entry \in [Keys -> Entry] /\ again \in [Keys -> Entry]
      BY Zenon DEF DispatchInv, QueueTyped
  <1>3. \A e \in [Keys -> Entry] :
           /\ [e EXCEPT ![k].due = TRUE] \in [Keys -> Entry]
           /\ \A j \in Keys : [e EXCEPT ![k].due = TRUE][j].waiters = e[j].waiters
      BY ZenonT(60) DEF Entry
  <1>4. /\ entry' \in [Keys -> Entry] /\ again' \in [Keys -> Entry]
        /\ \A j \in Keys : entry'[j].waiters = entry[j].waiters /\ again'[j].waiters = again[j].waiters
      BY <1>2, <1>3, ZenonT(60) DEF BecomesDue
  <1>5. \A c \in Callers : /\ call'[c].pc # "none" => call'[c].task \in Task
                           /\ Open(c)' <=> Open(c)
      BY <1>1, Zenon DEF Open, DispatchInv, WaitersKept
  <1> QED BY <1>1, <1>4, <1>5, QueueSame, Zenon DEF DispatchInv, QueueTyped, MapsAgree

LEMMA LoopInv ==
    ASSUME DispatchInv, Fixed, TimerFires \/ ProbeOwnerReady \/ CancelScheduler
    PROVE  DispatchInv'
  <1>1. UNCHANGED <<queueSize, pending, active, rerun, busy, done, entry, again, call>>
      BY Zenon DEF TimerFires, ProbeOwnerReady, CancelScheduler, Fixed
  <1>2. dispatch \in pending \cup {Absent} /\ owner \in [ready : BOOLEAN, cancelled : BOOLEAN]
      BY Zenon DEF DispatchInv, MapsAgree, QueueTyped
  <1>3. dispatch' \in pending \cup {Absent}
    <2>1. CASE LoopHead(dispatch)
        BY <1>1, <1>2, <2>1, Chooses, Zenon
    <2>2. CASE CancelScheduler
        BY <1>2, <2>2, Zenon DEF CancelScheduler
    <2> QED BY <2>1, <2>2, Zenon DEF TimerFires, ProbeOwnerReady
  <1>4. owner' \in [ready : BOOLEAN, cancelled : BOOLEAN] /\ (owner.cancelled => owner'.cancelled)
      BY <1>2, Zenon DEF TimerFires, ProbeOwnerReady, CancelScheduler
  <1>5. \A c \in Callers : /\ call'[c].pc # "none" => call'[c].task \in Task
                           /\ Open(c)' <=> Open(c)
      BY <1>1, Zenon DEF Open, DispatchInv, WaitersKept
  <1> QED BY <1>1, <1>3, <1>4, <1>5, QueueSame, Zenon DEF DispatchInv, QueueTyped

(* The completions at one end and the other of their channel. *)
LEMMA CompletedAppend ==
    ASSUME NEW k \in Keys, NEW s \in Seq(Keys), k \notin Elems(s), Distinct(s),
           NEW t, t = Append(s, k)
    PROVE  t \in Seq(Keys) /\ Elems(t) = Elems(s) \cup {k} /\ Distinct(t)
  <1>1. /\ t \in Seq(Keys) /\ Len(t) = Len(s) + 1 /\ t[Len(s) + 1] = k
        /\ \A i \in 1..Len(s) : t[i] = s[i]
      OBVIOUS
  <1>2. Len(s) \in Nat
      OBVIOUS
  <1>3. {t[i] : i \in 1..Len(t)} = {s[i] : i \in 1..Len(s)} \cup {k}
      BY <1>1, <1>2
  <1>4. \A i, j \in 1..Len(t) : t[i] = t[j] => i = j
      BY <1>1, <1>2 DEF Elems, Distinct
  <1> QED BY <1>1, <1>3, <1>4, Zenon DEF Elems, Distinct

LEMMA CompletedTail ==
    ASSUME NEW s \in Seq(Keys), s # <<>>, NEW t, t = Tail(s), NEW h, h = Head(s), Distinct(s)
    PROVE  /\ h \in Keys /\ t \in Seq(Keys)
           /\ Elems(t) = Elems(s) \ {h} /\ h \in Elems(s) /\ Distinct(t)
  <1>2. /\ t \in Seq(Keys) /\ Len(t) = Len(s) - 1 /\ h = s[1] /\ h \in Keys
        /\ \A i \in 1..Len(t) : t[i] = s[i + 1]
      OBVIOUS
  <1>3. Len(s) \in Nat /\ Len(s) # 0
      OBVIOUS
  <1>4. {t[i] : i \in 1..Len(t)} = {s[i] : i \in 1..Len(s)} \ {h}
    <2>1. ASSUME NEW x \in {s[i] : i \in 1..Len(s)} \ {h} PROVE x \in {t[i] : i \in 1..Len(t)}
      <3>1. PICK i \in 1..Len(s) : x = s[i]
          BY <2>1, Zenon
      <3>2. i - 1 \in 1..Len(t) /\ t[i - 1] = x
          BY <1>2, <1>3, <2>1, <3>1, SMTT(60) DEF Distinct
      <3> QED BY <3>2, Zenon
    <2>2. ASSUME NEW i \in 1..Len(t) PROVE t[i] \in {s[j] : j \in 1..Len(s)} \ {h}
        BY <1>2, <1>3 DEF Distinct
    <2>3. \A x \in {t[i] : i \in 1..Len(t)} : x \in {s[j] : j \in 1..Len(s)} \ {h}
        BY <2>2, Zenon
    <2>4. \A x \in {s[j] : j \in 1..Len(s)} \ {h} : x \in {t[i] : i \in 1..Len(t)}
        BY <2>1, Zenon
    <2> QED BY <2>3, <2>4, Zenon
  <1>5. \A i, j \in 1..Len(t) : t[i] = t[j] => i = j
      BY <1>2, <1>3, SMTT(60) DEF Distinct
  <1>6. h \in {s[i] : i \in 1..Len(s)}
      BY <1>2, <1>3
  <1> QED BY <1>2, <1>4, <1>5, <1>6, Zenon DEF Elems, Distinct

LEMMA ProbeReturnsInv ==
    ASSUME DispatchInv, Fixed, NEW k \in Keys, ProbeReturns(k)
    PROVE  DispatchInv'
  <1>1. /\ UNCHANGED <<queueSize, pending, active, rerun, dispatch, owner, entry, again, call>>
        /\ k \in busy /\ busy' = busy \ {k}
        /\ done' = Append(done, k) \/ (owner.cancelled /\ done' = done)
      BY Zenon DEF ProbeReturns, Fixed
  <1>2. done \in Seq(Keys) /\ k \notin Completed /\ Distinct(done)
      BY <1>1, Zenon DEF DispatchInv, QueueTyped, MapsAgree
  <1>3. \/ Completed' = Completed \cup {k} /\ done' \in Seq(Keys) /\ Distinct(done')
        \/ owner.cancelled /\ done' = done /\ Completed' = Completed
    <2>1. CASE done' = Append(done, k)
        BY <2>1, <1>2, CompletedAppend, Zenon DEF Completed
    <2>2. CASE owner.cancelled /\ done' = done
        BY <2>2, Zenon DEF Completed
    <2> QED BY <1>1, <2>1, <2>2, Zenon
  <1>4. QueueTyped'
      BY <1>1, <1>3, Zenon DEF DispatchInv, QueueTyped
  <1>5. MapsAgree'
      BY <1>1, <1>2, <1>3, Zenon DEF DispatchInv, MapsAgree
  <1>6. \A c \in Callers : /\ call'[c].pc # "none" => call'[c].task \in Task
                           /\ Open(c)' <=> Open(c)
      BY <1>1, Zenon DEF Open, DispatchInv, WaitersKept
  <1> QED BY <1>1, <1>4, <1>5, <1>6, WaitersUntouched, ZenonT(60) DEF DispatchInv

(* A worker takes the chosen probe, and with it all who wait for it. *)
LEMMA HandOffInv ==
    ASSUME DispatchInv, Fixed, HandOff
    PROVE  DispatchInv'
  <1>1. /\ UNCHANGED <<queueSize, rerun, entry, again, done, owner>>
        /\ dispatch # Absent /\ pending' = pending \ {dispatch}
        /\ active' = active \cup {dispatch} /\ busy' = busy \cup {dispatch}
        /\ LoopHead(Absent)
      BY Zenon DEF HandOff, Fixed
  <1>2. dispatch \in pending /\ dispatch \in Keys /\ dispatch \notin active
      BY <1>1, Zenon DEF DispatchInv, MapsAgree, QueueTyped
  <1>3. call \in [Callers -> Call] /\ entry[dispatch] \in Entry
      BY <1>2, Zenon DEF DispatchInv, QueueTyped
  <1>4. ASSUME NEW c \in Callers
        PROVE  /\ call'[c] \in Call /\ call'[c].pc = call[c].pc /\ call'[c].task = call[c].task
               /\ c \in entry[dispatch].waiters => call'[c].covered
               /\ c \notin entry[dispatch].waiters => call'[c].covered = call[c].covered
    <2>1. CASE c \in entry[dispatch].waiters
      <3>1. call'[c] = [call[c] EXCEPT !.covered = TRUE]
          BY <2>1, Zenon DEF HandOff
      <3> QED BY <2>1, <3>1, <1>3, ZenonT(60) DEF Call
    <2>2. CASE c \notin entry[dispatch].waiters
      <3>1. call'[c] = call[c]
          BY <2>2, Zenon DEF HandOff
      <3> QED BY <2>2, <3>1, <1>3, Zenon
    <2> QED BY <2>1, <2>2, Zenon
  <1>5. call' \in [Callers -> Call]
    <2>1. call' = [c \in Callers |-> call'[c]]
        BY Zenon DEF HandOff
    <2> QED BY <2>1, <1>4, Zenon
  <1>6. /\ IsFiniteSet(pending') /\ Cardinality(pending') = Cardinality(pending) - 1
        /\ Cardinality(pending) \in Nat /\ Cardinality(rerun) \in Nat
      BY <1>1, <1>2, FS_RemoveElement, FS_CardinalityType, Zenon DEF DispatchInv, QueueTyped
  <1>7. QueueTyped'
      BY <1>1, <1>2, <1>5, <1>6, Zenon DEF DispatchInv, QueueTyped
  <1>8. MapsAgree'
    <2>1. dispatch' \in pending' \cup {Absent}
        BY <1>1, Chooses, Zenon
    <2>2. Completed' = Completed
        BY <1>1, Zenon DEF Completed
    <2>3. Cardinality(pending') + Cardinality(rerun') <= queueSize'
        BY <1>1, <1>6, SMTT(60) DEF DispatchInv, MapsAgree, QueueTyped
    <2> QED BY <1>1, <1>2, <2>1, <2>2, <2>3, Zenon DEF DispatchInv, MapsAgree
  <1>9. \A c \in Callers : /\ call'[c].pc # "none" => call'[c].task \in Task
                           /\ Open(c)' <=> Open(c)
      BY <1>4, SMTT(60) DEF Open, DispatchInv, WaitersKept
  <1>10. WaitersKept'
    <2>1. \A k \in Keys : /\ k \notin pending' \cup active' => entry'[k].waiters = {}
                          /\ k \notin rerun' => again'[k].waiters = {}
                          /\ entry'[k].waiters \cap again'[k].waiters = {}
        BY <1>1, SMTT(60) DEF DispatchInv, WaitersKept
    <2> QED BY <1>1, <1>4, <1>7, <1>9, <2>1, WaitersSame, ZenonT(60)
  <1>11. FreshAnswer'
    <2>1. \A k \in active : k \in Keys /\ \A c \in entry[k].waiters : c \in Callers /\ Open(c)
                            /\ call[c].task.key = k
        BY SMTT(60) DEF DispatchInv, QueueTyped, WaitersKept, Entry
    <2>2. \A c \in entry[dispatch].waiters : c \in Callers /\ call[c].task.key = dispatch
        BY <1>2, <1>3, ZenonT(60) DEF DispatchInv, WaitersKept, Entry
    <2>3. ASSUME NEW k \in active', NEW c \in entry'[k].waiters, call'[c].task.fresh
          PROVE  call'[c].covered
      <3>1. CASE k = dispatch
          BY <3>1, <2>2, <1>1, <1>4, Zenon
      <3>2. CASE k \in active /\ k # dispatch
        <4>1. c \in Callers /\ c \notin entry[dispatch].waiters /\ c \in entry[k].waiters
            BY <3>2, <2>1, <2>2, <1>1, SMTT(60)
        <4>2. call[c].covered
            BY <2>3, <3>2, <4>1, <1>4, Zenon DEF DispatchInv, FreshAnswer
        <4> QED BY <4>1, <4>2, <1>4, Zenon
      <3> QED BY <1>1, <3>1, <3>2, Zenon
    <2> QED BY <2>3, Zenon DEF FreshAnswer
  <1> QED BY <1>7, <1>8, <1>10, <1>11, Zenon DEF DispatchInv

(* finish, for the waiters W. *)
LEMMA AnsweredFields ==
    ASSUME DispatchInv, NEW W, call' = Answered(W)
    PROVE  /\ call' \in [Callers -> Call]
           /\ \A c \in Callers : c \notin W => call'[c] = call[c]
           /\ \A c \in Callers : c \in W =>
                  ~Open(c)' /\ (call'[c].pc # "none" => call'[c].task \in Task)
  <1>1. call \in [Callers -> Call]
      BY Zenon DEF DispatchInv, QueueTyped
  <1>2. ASSUME NEW c \in Callers
        PROVE  /\ call'[c] \in Call
               /\ c \notin W => call'[c] = call[c]
               /\ c \in W => ~Open(c)' /\ (call'[c].pc # "none" => call'[c].task \in Task)
    <2>1. CASE c \notin W
      <3>1. call'[c] = call[c]
          BY <2>1, Zenon DEF Answered
      <3> QED BY <2>1, <3>1, <1>1, Zenon
    <2>2. CASE c \in W /\ call[c].pc = "cancelling"
      <3>1. PICK r : r = [NoCall EXCEPT !.pc = "late", !.task = call[c].task]
          BY Zenon
      <3>2. call'[c] = r
          BY <2>2, <3>1, Zenon DEF Answered
      <3>3. call[c].task \in Task
          BY <2>2, Zenon DEF DispatchInv, WaitersKept
      <3>4. r = [pc |-> "late", task |-> call[c].task, covered |-> FALSE]
          BY <3>1, Zenon DEF NoCall
      <3> QED BY <2>2, <3>2, <3>3, <3>4, SMTT(60) DEF Call, Open
    <2>3. CASE c \in W /\ call[c].pc # "cancelling"
      <3>1. call'[c] = NoCall
          BY <2>3, Zenon DEF Answered
      <3> QED BY <2>3, <3>1, NoEntryFields, Zenon DEF Open
    <2> QED BY <2>1, <2>2, <2>3, Zenon
  <1>3. call' = [c \in Callers |-> call'[c]]
      BY Zenon DEF Answered
  <1>4. call' \in [Callers -> Call]
      BY <1>2, <1>3, Zenon
  <1> QED BY <1>2, <1>4, Zenon

(* A step that answers W, and takes them from where they waited. *)
LEMMA AnswerStep ==
    ASSUME DispatchInv, QueueTyped', NEW W,
           \A c \in Callers : c \notin W => call'[c] = call[c],
           \A c \in Callers : c \in W =>
               ~Open(c)' /\ (call'[c].pc # "none" => call'[c].task \in Task),
           \A k \in Keys : /\ k \notin pending' \cup active' => entry'[k].waiters = {}
                           /\ k \notin rerun' => again'[k].waiters = {}
                           /\ entry'[k].waiters \cap again'[k].waiters = {},
           \A k \in Keys : entry'[k].waiters \cup again'[k].waiters =
                           (entry[k].waiters \cup again[k].waiters) \ W,
           active' \subseteq active,
           \A k \in active' : entry'[k].waiters \subseteq entry[k].waiters
    PROVE  WaitersKept' /\ FreshAnswer'
  <1>1. WaitersKept'
    <2>1. \A c \in Callers : call'[c].pc # "none" => call'[c].task \in Task
        BY Zenon DEF DispatchInv, WaitersKept
    <2>2. \A c \in Callers : c \in W =>
               /\ ~Open(c)' /\ \A k \in Keys : c \notin entry'[k].waiters \cup again'[k].waiters
        BY Zenon
    <2>3. \A c \in Callers : c \notin W =>
               /\ Open(c)' <=> Open(c)
               /\ Open(c) => call'[c].task = call[c].task
               /\ \A k \in Keys : c \in entry'[k].waiters \cup again'[k].waiters <=>
                                  c \in entry[k].waiters \cup again[k].waiters
        BY ZenonT(60) DEF Open
    <2> QED BY <2>1, <2>2, <2>3, WaitersStep, ZenonT(60)
  <1>2. FreshAnswer'
    <2>1. ASSUME NEW k \in active', NEW c \in entry'[k].waiters, call'[c].task.fresh
          PROVE  call'[c].covered
      <3>1. k \in active /\ k \in Keys /\ c \in entry[k].waiters /\ c \notin W
          BY <2>1, ZenonT(60) DEF DispatchInv, QueueTyped
      <3>2. c \in Callers
          BY <3>1, Zenon DEF DispatchInv, QueueTyped, Entry
      <3> QED BY <2>1, <3>1, <3>2, Zenon DEF DispatchInv, FreshAnswer
    <2> QED BY <2>1, Zenon DEF FreshAnswer
  <1> QED BY <1>1, <1>2, Zenon

(* What a completed key goes on as. *)
LEMMA NextEntryFields ==
    ASSUME QueueTyped, NEW k \in Keys
    PROVE  /\ NextEntry(k) \in Entry
           /\ NextEntry(k).waiters = IF k \in rerun THEN again[k].waiters ELSE {}
           /\ entry[k].periodic => NextEntry(k).periodic
           /\ k \in rerun /\ again[k].periodic => NextEntry(k).periodic
  <1>1. entry[k] \in Entry /\ again[k] \in Entry
      BY Zenon DEF QueueTyped
  <1>2. CASE k \in rerun
    <2>1. PICK b \in BOOLEAN : b = (again[k].periodic \/ entry[k].periodic)
        BY <1>1, Zenon DEF Entry
    <2>2. PICK n : n = NextEntry(k)
        BY Zenon
    <2>3. n = [again[k] EXCEPT !.periodic = b]
        BY <1>2, <2>1, <2>2, Zenon DEF NextEntry
    <2>4. n \in Entry /\ n.waiters = again[k].waiters /\ n.periodic = b
        BY <1>1, <2>3, Zenon DEF Entry
    <2> QED BY <1>2, <2>1, <2>2, <2>4, Zenon
  <1>3. CASE k \notin rerun
    <2>1. PICK n : n = NextEntry(k)
        BY Zenon
    <2>2. n = [entry[k] EXCEPT !.waiters = {}, !.due = FALSE]
        BY <1>3, <2>1, Zenon DEF NextEntry
    <2>3. n \in Entry /\ n.waiters = {} /\ n.periodic = entry[k].periodic
        BY <1>1, <2>2, Zenon DEF Entry
    <2> QED BY <1>3, <2>1, <2>3, Zenon
  <1> QED BY <1>2, <1>3, Zenon

(* A probe completes: its waiters are answered, and the rerun or the next    *)
(* round takes its place if there is room.                                   *)
LEMMA CompleteInv ==
    ASSUME DispatchInv, Fixed, Complete
    PROVE  DispatchInv'
  <1>1. PICK k, n : k = Head(done) /\ n = NextEntry(k)
      BY Zenon
  <1>2. /\ UNCHANGED <<queueSize, busy, owner>> /\ done # <<>> /\ done' = Tail(done)
        /\ active' = active \ {k} /\ rerun' = rerun \ {k}
        /\ again' = [again EXCEPT ![k] = NoEntry] /\ LoopHead(dispatch)
      BY <1>1, Zenon DEF Complete, Fixed
  <1>3. \/ /\ ~QueueFull(pending, rerun \ {k})
           /\ pending' = pending \cup {k} /\ entry' = [entry EXCEPT ![k] = n]
           /\ call' = Answered(entry[k].waiters)
        \/ /\ pending' = pending /\ entry' = [entry EXCEPT ![k] = NoEntry]
           /\ call' = Answered(entry[k].waiters \cup again[k].waiters)
      BY <1>1, Zenon DEF Complete
  <1>4. /\ k \in Keys /\ done' \in Seq(Keys) /\ Completed' = Completed \ {k} /\ k \in Completed
        /\ Distinct(done')
      BY <1>1, <1>2, CompletedTail, Zenon DEF DispatchInv, QueueTyped, MapsAgree, Completed
  <1>5. k \in active /\ k \notin pending /\ k \notin busy
      BY <1>4, Zenon DEF DispatchInv, MapsAgree
  <1>6. /\ n \in Entry
        /\ n.waiters = IF k \in rerun THEN again[k].waiters ELSE {}
      BY <1>1, <1>4, NextEntryFields, Zenon DEF DispatchInv
  <1>7. /\ entry \in [Keys -> Entry] /\ again \in [Keys -> Entry]
        /\ IsFiniteSet(pending) /\ IsFiniteSet(rerun) /\ queueSize \in Nat
      BY Zenon DEF DispatchInv, QueueTyped
  <1>8. PICK W : /\ call' = Answered(W)
                 /\ \/ /\ pending' = pending \cup {k} /\ entry' = [entry EXCEPT ![k] = n]
                       /\ W = entry[k].waiters
                    \/ /\ pending' = pending /\ entry' = [entry EXCEPT ![k] = NoEntry]
                       /\ W = entry[k].waiters \cup again[k].waiters
      BY <1>3, Zenon
  <1>9. /\ call' \in [Callers -> Call]
        /\ \A c \in Callers : c \notin W => call'[c] = call[c]
        /\ \A c \in Callers : c \in W =>
               ~Open(c)' /\ (call'[c].pc # "none" => call'[c].task \in Task)
      BY <1>8, AnsweredFields, Zenon
  <1>10. /\ IsFiniteSet(pending') /\ IsFiniteSet(rerun')
         /\ Cardinality(pending') + Cardinality(rerun') <= queueSize
    <2>1. /\ IsFiniteSet(rerun \ {k}) /\ Cardinality(rerun \ {k}) <= Cardinality(rerun)
          /\ Cardinality(rerun \ {k}) \in Nat /\ Cardinality(rerun) \in Nat
          /\ Cardinality(pending) \in Nat
        BY <1>7, FS_Subset, FS_CardinalityType, Zenon
    <2>2. IsFiniteSet(pending \cup {k}) /\ Cardinality(pending \cup {k}) = Cardinality(pending) + 1
        BY <1>5, <1>7, FS_AddElement, Zenon
    <2>3. Cardinality(pending) + Cardinality(rerun) <= queueSize
        BY Zenon DEF DispatchInv, MapsAgree
    <2>4. CASE pending' = pending
        BY <1>2, <1>7, <2>1, <2>3, <2>4, SMTT(60)
    <2>5. CASE ~QueueFull(pending, rerun \ {k}) /\ pending' = pending \cup {k}
      <3>1. ~(Cardinality(pending) + Cardinality(rerun \ {k}) >= queueSize)
          BY <2>5, Zenon DEF QueueFull
      <3> QED BY <1>2, <1>7, <2>1, <2>2, <2>5, <3>1, SMTT(60)
    <2> QED BY <1>3, <2>4, <2>5, Zenon
  <1>11. QueueTyped'
    <2>1. entry' \in [Keys -> Entry] /\ again' \in [Keys -> Entry]
        BY <1>2, <1>4, <1>6, <1>7, <1>8, NoEntryFields, ZenonT(60)
    <2> QED BY <1>2, <1>4, <1>8, <1>9, <1>10, <2>1, ZenonT(60) DEF DispatchInv, QueueTyped
  <1>12. MapsAgree'
    <2>1. dispatch' \in pending' \cup {Absent}
      <3>1. dispatch \in pending' \cup {Absent}
          BY <1>8, Zenon DEF DispatchInv, MapsAgree
      <3> QED BY <1>2, <3>1, Chooses, Zenon
    <2>2. pending' \subseteq pending \cup {k}
        BY <1>8, Zenon
    <2>3. pending' \cap active' = {} /\ rerun' \subseteq active'
        BY <1>2, <1>5, <2>2, Zenon DEF DispatchInv, MapsAgree
    <2>4. /\ busy' \cup Completed' \subseteq active' /\ busy' \cap Completed' = {}
          /\ ~owner'.cancelled => active' = busy' \cup Completed'
        BY <1>2, <1>4, <1>5, ZenonT(60) DEF DispatchInv, MapsAgree
    <2> QED BY <1>2, <1>4, <1>10, <2>1, <2>3, <2>4, ZenonT(60) DEF MapsAgree
  <1>13. \A j \in Keys : j # k => entry'[j] = entry[j] /\ again'[j] = again[j]
      BY <1>2, <1>7, <1>8, ZenonT(60)
  <1>14. /\ again'[k].waiters = {}
         /\ entry'[k].waiters = (entry[k].waiters \cup again[k].waiters) \ W
         /\ k \notin pending' => entry'[k].waiters = {}
      BY <1>2, <1>4, <1>5, <1>6, <1>7, <1>8, NoEntryFields, SMTT(60) DEF DispatchInv, WaitersKept
  <1>15. \A c \in Callers : c \in W => call[c].task.key = k
      BY <1>4, <1>8, SMTT(60) DEF DispatchInv, WaitersKept
  <1>16. \A j \in Keys : /\ j \notin pending' \cup active' => entry'[j].waiters = {}
                         /\ j \notin rerun' => again'[j].waiters = {}
                         /\ entry'[j].waiters \cap again'[j].waiters = {}
      BY <1>2, <1>8, <1>13, <1>14, SMTT(60) DEF DispatchInv, WaitersKept
  <1>17. \A j \in Keys : entry'[j].waiters \cup again'[j].waiters =
                         (entry[j].waiters \cup again[j].waiters) \ W
    <2>1. ASSUME NEW j \in Keys, j # k
          PROVE  (entry[j].waiters \cup again[j].waiters) \cap W = {}
      <3>1. \A c \in entry[j].waiters \cup again[j].waiters : c \in Callers /\ call[c].task.key = j
          BY <1>7, ZenonT(60) DEF DispatchInv, WaitersKept, Entry
      <3> QED BY <1>15, <2>1, <3>1, SMTT(60)
    <2> QED BY <1>13, <1>14, <2>1, Zenon
  <1>18. active' \subseteq active /\ \A j \in active' : entry'[j].waiters \subseteq entry[j].waiters
      BY <1>2, <1>13, Zenon DEF DispatchInv, QueueTyped
  <1>19. WaitersKept' /\ FreshAnswer'
      BY <1>9, <1>11, <1>16, <1>17, <1>18, AnswerStep, ZenonT(60)
  <1> QED BY <1>11, <1>12, <1>19, Zenon DEF DispatchInv

LEMMA DroppedFields ==
    ASSUME NEW e \in [Keys -> Entry], NEW K
    PROVE  /\ Dropped(e, K) \in [Keys -> Entry]
           /\ \A k \in Keys : /\ k \in K => Dropped(e, K)[k].waiters = {}
                              /\ k \notin K => Dropped(e, K)[k] = e[k]
  BY NoEntryFields, Zenon DEF Dropped

(* removeProbes: who waits for a queued run of a removed key is answered. *)
LEMMA RemoveInv ==
    ASSUME DispatchInv, Fixed, NEW K \in Removals, Remove(K)
    PROVE  DispatchInv'
  <1>1. PICK W : W = Waiting(entry, pending \cap K) \cup Waiting(again, rerun \cap K)
      BY Zenon
  <1>2. /\ UNCHANGED <<queueSize, active, busy, done, owner>>
        /\ call' = Answered(W) /\ pending' = pending \ K /\ rerun' = rerun \ K
        /\ entry' = Dropped(entry, pending \cap K) /\ again' = Dropped(again, K)
        /\ LoopHead(StillChosen)
      BY <1>1, Zenon DEF Remove, Fixed
  <1>3. /\ entry \in [Keys -> Entry] /\ again \in [Keys -> Entry]
        /\ IsFiniteSet(pending) /\ IsFiniteSet(rerun) /\ queueSize \in Nat
      BY Zenon DEF DispatchInv, QueueTyped
  <1>4. /\ call' \in [Callers -> Call]
        /\ \A c \in Callers : c \notin W => call'[c] = call[c]
        /\ \A c \in Callers : c \in W =>
               ~Open(c)' /\ (call'[c].pc # "none" => call'[c].task \in Task)
      BY <1>2, AnsweredFields, Zenon
  <1>5. /\ entry' \in [Keys -> Entry] /\ again' \in [Keys -> Entry]
        /\ \A k \in Keys : /\ k \in pending \cap K => entry'[k].waiters = {}
                           /\ k \notin pending \cap K => entry'[k] = entry[k]
                           /\ k \in K => again'[k].waiters = {}
                           /\ k \notin K => again'[k] = again[k]
    <2>1. /\ entry' \in [Keys -> Entry]
          /\ \A k \in Keys : /\ k \in pending \cap K => entry'[k].waiters = {}
                             /\ k \notin pending \cap K => entry'[k] = entry[k]
        BY <1>2, <1>3, DroppedFields, SMTT(60)
    <2>2. /\ again' \in [Keys -> Entry]
          /\ \A k \in Keys : /\ k \in K => again'[k].waiters = {}
                             /\ k \notin K => again'[k] = again[k]
        BY <1>2, <1>3, DroppedFields, SMTT(60)
    <2> QED BY <2>1, <2>2, Zenon
  <1>6. /\ IsFiniteSet(pending') /\ IsFiniteSet(rerun')
        /\ Cardinality(pending') + Cardinality(rerun') <= queueSize
    <2>1. /\ IsFiniteSet(rerun') /\ Cardinality(rerun') <= Cardinality(rerun)
          /\ IsFiniteSet(pending') /\ Cardinality(pending') <= Cardinality(pending)
        BY <1>2, <1>3, FS_Subset, Zenon
    <2>2. /\ Cardinality(rerun') \in Nat /\ Cardinality(rerun) \in Nat
          /\ Cardinality(pending') \in Nat /\ Cardinality(pending) \in Nat
        BY <1>3, <2>1, FS_CardinalityType, Zenon
    <2>3. Cardinality(pending) + Cardinality(rerun) <= queueSize
        BY Zenon DEF DispatchInv, MapsAgree
    <2> QED BY <1>3, <2>1, <2>2, <2>3, SMTT(60)
  <1>7. QueueTyped'
      BY <1>2, <1>4, <1>5, <1>6, Zenon DEF DispatchInv, QueueTyped
  <1>8. MapsAgree'
    <2>1. dispatch' \in pending' \cup {Absent}
        BY <1>2, Chooses, Zenon DEF StillChosen
    <2>2. Completed' = Completed
        BY <1>2, Zenon DEF Completed
    <2> QED BY <1>2, <1>6, <2>1, <2>2, Zenon DEF DispatchInv, MapsAgree
  <1>9. \A k \in Keys : /\ k \notin pending' \cup active' => entry'[k].waiters = {}
                        /\ k \notin rerun' => again'[k].waiters = {}
                        /\ entry'[k].waiters \cap again'[k].waiters = {}
    <2>1. \A k \in Keys : /\ k \notin pending \cup active => entry[k].waiters = {}
                          /\ k \notin rerun => again[k].waiters = {}
                          /\ entry[k].waiters \cap again[k].waiters = {}
        BY Zenon DEF DispatchInv, WaitersKept
    <2>2. \A k \in Keys : /\ entry'[k].waiters = {} \/ entry'[k].waiters = entry[k].waiters
                          /\ again'[k].waiters = {} \/ again'[k].waiters = again[k].waiters
        BY <1>5, Zenon
    <2>3. \A k \in Keys : /\ k \notin pending' \cup active' => entry'[k].waiters = {}
                          /\ k \notin rerun' => again'[k].waiters = {}
        BY <1>2, <1>5, <2>1, Zenon
    <2> QED BY <2>1, <2>2, <2>3, Zenon
  <1>10. ASSUME NEW k \in Keys
         PROVE  /\ entry'[k].waiters = entry[k].waiters \ W
                /\ again'[k].waiters = again[k].waiters \ W
    <2>1. \A c \in W : \E j \in K \cap Keys :
             (j \in pending /\ c \in entry[j].waiters) \/ (j \in rerun /\ c \in again[j].waiters)
        BY <1>1, DispatcherConstants, SMTT(60) DEF Waiting
    <2>2. /\ k \in pending \cap K => entry[k].waiters \subseteq W
          /\ k \in rerun \cap K => again[k].waiters \subseteq W
        BY <1>1, Zenon DEF Waiting
    <2>3. entry'[k].waiters = entry[k].waiters \ W
      <3>1. CASE k \in pending \cap K
          BY <1>5, <2>2, <3>1, Zenon
      <3>2. CASE k \notin pending \cap K
        <4>1. entry[k].waiters \cap W = {}
            BY <2>1, <3>2, SMTT(60) DEF DispatchInv, WaitersKept
        <4> QED BY <1>5, <3>2, <4>1, Zenon
      <3> QED BY <3>1, <3>2, Zenon
    <2>4. again'[k].waiters = again[k].waiters \ W
      <3>1. CASE k \in K
        <4>1. again[k].waiters \subseteq W
            BY <2>2, <3>1, Zenon DEF DispatchInv, WaitersKept
        <4> QED BY <1>5, <3>1, <4>1, Zenon
      <3>2. CASE k \notin K
        <4>1. again[k].waiters \cap W = {}
            BY <2>1, <3>2, SMTT(60) DEF DispatchInv, WaitersKept
        <4> QED BY <1>5, <3>2, <4>1, Zenon
      <3> QED BY <3>1, <3>2, Zenon
    <2> QED BY <2>3, <2>4, Zenon
  <1>11. \A k \in Keys : entry'[k].waiters \cup again'[k].waiters =
                         (entry[k].waiters \cup again[k].waiters) \ W
      BY <1>10, Zenon
  <1>12. active' \subseteq active /\ \A k \in active' : entry'[k].waiters \subseteq entry[k].waiters
      BY <1>2, <1>10, Zenon DEF DispatchInv, QueueTyped
  <1>13. WaitersKept' /\ FreshAnswer'
      BY <1>4, <1>7, <1>9, <1>11, <1>12, AnswerStep, ZenonT(60)
  <1> QED BY <1>7, <1>8, <1>13, Zenon DEF DispatchInv

(* The deferred function of the loop answers everyone. *)
LEMMA StopInv ==
    ASSUME DispatchInv, Fixed, Stop
    PROVE  DispatchInv'
  <1>1. PICK W : W = Waiting(entry, pending \cup active) \cup Waiting(again, rerun)
      BY Zenon
  <1>2. /\ UNCHANGED <<queueSize, owner>> /\ owner.cancelled
        /\ call' = Answered(W) /\ pending' = {} /\ active' = {} /\ rerun' = {}
        /\ entry' = Dropped(entry, Keys) /\ again' = Dropped(again, Keys)
        /\ dispatch' = Absent /\ busy' = {} /\ done' = <<>>
      BY <1>1, Zenon DEF Stop, Fixed
  <1>3. entry \in [Keys -> Entry] /\ again \in [Keys -> Entry] /\ queueSize \in Nat
      BY Zenon DEF DispatchInv, QueueTyped
  <1>4. /\ call' \in [Callers -> Call]
        /\ \A c \in Callers : c \notin W => call'[c] = call[c]
        /\ \A c \in Callers : c \in W =>
               ~Open(c)' /\ (call'[c].pc # "none" => call'[c].task \in Task)
      BY <1>2, AnsweredFields, Zenon
  <1>5. /\ entry' \in [Keys -> Entry] /\ again' \in [Keys -> Entry]
        /\ \A k \in Keys : entry'[k].waiters = {} /\ again'[k].waiters = {}
      BY <1>2, <1>3, DroppedFields, Zenon
  <1>6. /\ IsFiniteSet({}) /\ Cardinality({}) = 0
        /\ done' \in Seq(Keys) /\ Len(done') = 0
      BY <1>2, FS_EmptySet
  <1>7. QueueTyped'
    <2>1. owner' \in [ready : BOOLEAN, cancelled : BOOLEAN]
        BY <1>2, Zenon DEF DispatchInv, QueueTyped
    <2> QED BY <1>2, <1>3, <1>4, <1>5, <1>6, <2>1, Zenon DEF QueueTyped
  <1>8. MapsAgree'
    <2>1. Completed' = {} /\ Distinct(done')
        BY <1>6 DEF Completed, Elems, Distinct
    <2> QED BY <1>2, <1>3, <1>6, <2>1, SMTT(60) DEF MapsAgree
  <1>9. \A k \in Keys : entry[k].waiters \cup again[k].waiters \subseteq W
    <2>1. \A k \in Keys : /\ k \in pending \cup active => entry[k].waiters \subseteq W
                          /\ k \in rerun => again[k].waiters \subseteq W
        BY <1>1, Zenon DEF Waiting
    <2> QED BY <2>1, Zenon DEF DispatchInv, WaitersKept
  <1>10. \A k \in Keys : entry'[k].waiters \cup again'[k].waiters =
                         (entry[k].waiters \cup again[k].waiters) \ W
      BY <1>5, <1>9, Zenon
  <1>11. \A k \in Keys : /\ k \notin pending' \cup active' => entry'[k].waiters = {}
                         /\ k \notin rerun' => again'[k].waiters = {}
                         /\ entry'[k].waiters \cap again'[k].waiters = {}
      BY <1>5, Zenon
  <1>12. active' \subseteq active /\ \A k \in active' : entry'[k].waiters \subseteq entry[k].waiters
      BY <1>2, Zenon
  <1>13. WaitersKept' /\ FreshAnswer'
      BY <1>4, <1>7, <1>10, <1>11, <1>12, AnswerStep, Zenon
  <1> QED BY <1>7, <1>8, <1>13, Zenon DEF DispatchInv

LEMMA ForgetFields ==
    ASSUME NEW e \in [Keys -> Entry], NEW k \in Keys, NEW c
    PROVE  /\ Forget(e, k, c) \in [Keys -> Entry]
           /\ \A j \in Keys : j # k => Forget(e, k, c)[j] = e[j]
           /\ Forget(e, k, c)[k].waiters = e[k].waiters \ {c}
           /\ Forget(e, k, c)[k].periodic = e[k].periodic
  <1>1. PICK w : w = e[k].waiters \ {c}
      BY Zenon
  <1>2. PICK r : r = [e[k] EXCEPT !.waiters = w]
      BY Zenon
  <1>3. e[k] \in Entry /\ w \subseteq Callers
      BY <1>1, Zenon DEF Entry
  <1>4. r \in Entry /\ r.waiters = w /\ r.periodic = e[k].periodic
      BY <1>2, <1>3, Zenon DEF Entry
  <1>5. Forget(e, k, c) = [e EXCEPT ![k] = r]
      BY <1>1, <1>2, Zenon DEF Forget
  <1> QED BY <1>1, <1>4, <1>5, Zenon

(* cancelProbeWaiter: the waiter is not found, found in the rerun, or found  *)
(* in the queued or running entry; the last waiter takes a queued entry that *)
(* does not recur with it.                                                   *)
LEMMA CancelOutcomes ==
    ASSUME DispatchInv, NEW c \in Callers, CancelWaiter(c), NEW k \in Keys, call[c].task.key = k
    PROVE  \/ /\ UNCHANGED <<pending, rerun, entry, again>>
              /\ \/ call[c].pc = "late" /\ call' = [call EXCEPT ![c] = NoCall]
                 \/ /\ call[c].pc = "cancelling"
                    /\ call' = [call EXCEPT ![c] = [call[c] EXCEPT !.pc = "cancelled"]]
           \/ /\ call' = [call EXCEPT ![c] = NoCall] /\ k \in rerun /\ c \in again[k].waiters
              /\ UNCHANGED <<pending, entry>>
              /\ \/ again' = Forget(again, k, c) /\ rerun' = rerun
                 \/ /\ again' = [again EXCEPT ![k] = NoEntry] /\ rerun' = rerun \ {k}
                    /\ again[k].waiters = {c} /\ ~again[k].periodic
           \/ /\ call' = [call EXCEPT ![c] = NoCall] /\ k \in (pending \cup active) \ rerun
              /\ c \in entry[k].waiters /\ UNCHANGED <<rerun, again>>
              /\ \/ entry' = Forget(entry, k, c) /\ pending' = pending
                 \/ /\ entry' = [entry EXCEPT ![k] = NoEntry] /\ pending' = pending \ {k}
                    /\ k \in pending /\ entry[k].waiters = {c} /\ ~entry[k].periodic
  <1>1. PICK here : here = IF k \in pending \cup (active \ rerun) THEN entry ELSE again
      BY Zenon
  <1>2. PICK found \in BOOLEAN : found <=> k \in pending \cup active /\ c \in here[k].waiters
      BY Zenon
  <1>3. PICK left \in BOOLEAN : left <=> found /\ here[k].waiters = {c} /\ ~here[k].periodic
      BY Zenon
  <1>4. /\ call[c].pc \in {"cancelling", "late"}
        /\ call' = [call EXCEPT ![c] = IF found \/ call[c].pc = "late" THEN NoCall
                                       ELSE [call[c] EXCEPT !.pc = "cancelled"]]
        /\ pending' = IF left THEN pending \ {k} ELSE pending
        /\ rerun' = IF left THEN rerun \ {k} ELSE rerun
        /\ entry' = IF ~found \/ k \in rerun THEN entry
                    ELSE IF left /\ k \in pending THEN [entry EXCEPT ![k] = NoEntry]
                    ELSE Forget(entry, k, c)
        /\ again' = IF ~found \/ k \notin rerun THEN again
                    ELSE IF left THEN [again EXCEPT ![k] = NoEntry] ELSE Forget(again, k, c)
      BY <1>1, <1>2, <1>3, Zenon DEF CancelWaiter, Deserted
  <1>5. k \in rerun => k \in active /\ k \notin pending
      BY Zenon DEF DispatchInv, MapsAgree
  <1>6. k \in active => k \notin pending
      BY Zenon DEF DispatchInv, MapsAgree
  <1>7. CASE ~found
    <2>1. UNCHANGED <<pending, rerun, entry, again>>
        BY <1>3, <1>4, <1>7, Zenon
    <2> QED BY <1>4, <1>7, <2>1, Zenon
  <1>8. CASE found /\ k \in rerun
    <2>1. here = again /\ c \in again[k].waiters
        BY <1>1, <1>2, <1>5, <1>8, ZenonT(60)
    <2>2. UNCHANGED <<pending, entry>> /\ call' = [call EXCEPT ![c] = NoCall]
      <3>1. pending \ {k} = pending
          BY <1>5, <1>8, Zenon
      <3> QED BY <1>4, <1>8, <3>1, Zenon
    <2>3. CASE left
        BY <1>3, <1>4, <1>8, <2>1, <2>2, <2>3, ZenonT(60)
    <2>4. CASE ~left
        BY <1>4, <1>8, <2>1, <2>2, <2>4, ZenonT(60)
    <2> QED BY <2>3, <2>4, Zenon
  <1>9. CASE found /\ k \notin rerun
    <2>1. here = entry /\ c \in entry[k].waiters /\ k \in (pending \cup active) \ rerun
        BY <1>1, <1>2, <1>9, Zenon
    <2>2. UNCHANGED <<rerun, again>> /\ call' = [call EXCEPT ![c] = NoCall]
      <3>1. rerun \ {k} = rerun
          BY <1>9, Zenon
      <3> QED BY <1>4, <1>9, <3>1, Zenon
    <2>3. CASE left /\ k \in pending
        BY <1>3, <1>4, <1>9, <2>1, <2>2, <2>3, ZenonT(60)
    <2>4. CASE ~(left /\ k \in pending)
      <3>1. pending' = pending
          BY <1>4, <2>4, Zenon
      <3> QED BY <1>4, <1>9, <2>1, <2>2, <2>4, <3>1, ZenonT(60)
    <2> QED BY <2>3, <2>4, Zenon
  <1> QED BY <1>7, <1>8, <1>9, Zenon

LEMMA CancelWaiterInv ==
    ASSUME DispatchInv, Fixed, NEW c \in Callers, CancelWaiter(c)
    PROVE  DispatchInv'
  <1>1. /\ UNCHANGED <<queueSize, active, busy, done, owner>>
        /\ call[c].pc \in {"cancelling", "late"} /\ LoopHead(StillChosen)
      BY Zenon DEF CancelWaiter, Fixed
  <1>2. PICK k \in Keys : call[c].task.key = k
      BY <1>1, Zenon DEF DispatchInv, WaitersKept, Task
  <1>3. /\ entry \in [Keys -> Entry] /\ again \in [Keys -> Entry] /\ call \in [Callers -> Call]
        /\ IsFiniteSet(pending) /\ IsFiniteSet(rerun) /\ queueSize \in Nat
        /\ owner \in [ready : BOOLEAN, cancelled : BOOLEAN]
      BY Zenon DEF DispatchInv, QueueTyped
  <1>4. dispatch' \in pending' \cup {Absent}
      BY <1>1, Chooses, Zenon DEF StillChosen
  <1>5. CASE UNCHANGED <<pending, rerun, entry, again>> /\
             \/ call[c].pc = "late" /\ call' = [call EXCEPT ![c] = NoCall]
             \/ /\ call[c].pc = "cancelling"
                /\ call' = [call EXCEPT ![c] = [call[c] EXCEPT !.pc = "cancelled"]]
    <2>1. /\ call' \in [Callers -> Call] /\ \A d \in Callers : d # c => call'[d] = call[d]
          /\ \/ call[c].pc = "late" /\ call'[c].pc = "none"
             \/ /\ call[c].pc = "cancelling" /\ call'[c].pc = "cancelled"
                /\ call'[c].task = call[c].task /\ call'[c].covered = call[c].covered
      <3>1. CASE call[c].pc = "late" /\ call' = [call EXCEPT ![c] = NoCall]
          BY <3>1, <1>3, NoEntryFields, Zenon
      <3>2. CASE /\ call[c].pc = "cancelling"
                 /\ call' = [call EXCEPT ![c] = [call[c] EXCEPT !.pc = "cancelled"]]
          BY <3>2, <1>3, ZenonT(60) DEF Call
      <3> QED BY <1>5, <3>1, <3>2, Zenon
    <2>2. \A d \in Callers : /\ call'[d].pc # "none" => call'[d].task \in Task
                             /\ Open(d)' <=> Open(d)
                             /\ Open(d) => /\ call'[d].task = call[d].task
                                           /\ call'[d].covered = call[d].covered
        BY <2>1, SMTT(60) DEF Open, DispatchInv, WaitersKept
    <2> QED BY <1>1, <1>3, <1>4, <1>5, <2>1, <2>2, QueueSame, ZenonT(60)
  <1>6. CASE /\ call' = [call EXCEPT ![c] = NoCall]
             /\ entry' \in [Keys -> Entry] /\ again' \in [Keys -> Entry]
             /\ pending' \subseteq pending /\ rerun' \subseteq rerun
             /\ \A j \in Keys : /\ entry'[j].waiters = entry[j].waiters \ {c}
                                /\ again'[j].waiters = again[j].waiters \ {c}
                                /\ j \in pending \ pending' => entry'[j].waiters = {}
                                /\ j \in rerun \ rerun' => again'[j].waiters = {}
    <2>1. /\ call' \in [Callers -> Call] /\ \A d \in Callers : d \notin {c} => call'[d] = call[d]
          /\ \A d \in Callers : d \in {c} =>
                 ~Open(d)' /\ (call'[d].pc # "none" => call'[d].task \in Task)
        BY <1>3, <1>6, NoEntryFields, ZenonT(60) DEF Open
    <2>2. /\ IsFiniteSet(pending') /\ IsFiniteSet(rerun')
          /\ Cardinality(pending') + Cardinality(rerun') <= queueSize
      <3>1. /\ IsFiniteSet(rerun') /\ Cardinality(rerun') <= Cardinality(rerun)
            /\ IsFiniteSet(pending') /\ Cardinality(pending') <= Cardinality(pending)
          BY <1>3, <1>6, FS_Subset, Zenon
      <3>2. /\ Cardinality(rerun') \in Nat /\ Cardinality(rerun) \in Nat
            /\ Cardinality(pending') \in Nat /\ Cardinality(pending) \in Nat
          BY <1>3, <3>1, FS_CardinalityType, ZenonT(60)
      <3>3. Cardinality(pending) + Cardinality(rerun) <= queueSize
          BY Zenon DEF DispatchInv, MapsAgree
      <3> QED BY <1>3, <3>1, <3>2, <3>3, SMTT(60)
    <2>3. QueueTyped'
        BY <1>1, <1>6, <2>1, <2>2, ZenonT(60) DEF DispatchInv, QueueTyped
    <2>4. MapsAgree'
      <3>1. Completed' = Completed
          BY <1>1, ZenonT(60) DEF Completed
      <3> QED BY <1>1, <1>4, <1>6, <2>2, <3>1, ZenonT(60) DEF DispatchInv, MapsAgree
    <2>5. \A j \in Keys : /\ j \notin pending' \cup active' => entry'[j].waiters = {}
                          /\ j \notin rerun' => again'[j].waiters = {}
                          /\ entry'[j].waiters \cap again'[j].waiters = {}
        BY <1>1, <1>6, SMTT(30) DEF DispatchInv, WaitersKept
    <2>6. \A j \in Keys : entry'[j].waiters \cup again'[j].waiters =
                          (entry[j].waiters \cup again[j].waiters) \ {c}
        BY <1>6, SMTT(60)
    <2>7. active' \subseteq active /\ \A j \in active' : entry'[j].waiters \subseteq entry[j].waiters
        BY <1>1, <1>6, Zenon DEF DispatchInv, QueueTyped
    <2>8. WaitersKept' /\ FreshAnswer'
        BY <2>1, <2>3, <2>5, <2>6, <2>7, AnswerStep, ZenonT(60)
    <2> QED BY <2>3, <2>4, <2>8, ZenonT(60) DEF DispatchInv
  <1>7. \A j \in Keys : /\ j # k => c \notin entry[j].waiters \cup again[j].waiters
                        /\ c \in again[k].waiters => c \notin entry[k].waiters
                        /\ k \notin rerun => again[k].waiters = {}
      BY <1>2, ZenonT(60) DEF DispatchInv, WaitersKept
  <1>8. CASE /\ call' = [call EXCEPT ![c] = NoCall] /\ k \in rerun /\ c \in again[k].waiters
             /\ UNCHANGED <<pending, entry>>
             /\ \/ again' = Forget(again, k, c) /\ rerun' = rerun
                \/ /\ again' = [again EXCEPT ![k] = NoEntry] /\ rerun' = rerun \ {k}
                   /\ again[k].waiters = {c} /\ ~again[k].periodic
    <2>1. /\ again' \in [Keys -> Entry] /\ \A j \in Keys : j # k => again'[j] = again[j]
          /\ again'[k].waiters = again[k].waiters \ {c}
          /\ rerun' = rerun \/ (rerun' = rerun \ {k} /\ again'[k].waiters = {})
      <3>1. CASE again' = Forget(again, k, c) /\ rerun' = rerun
          BY <3>1, <1>3, ForgetFields, SMTT(60)
      <3>2. CASE /\ again' = [again EXCEPT ![k] = NoEntry] /\ rerun' = rerun \ {k}
                 /\ again[k].waiters = {c} /\ ~again[k].periodic
          BY <3>2, <1>3, NoEntryFields, Zenon
      <3> QED BY <1>8, <3>1, <3>2, ZenonT(60)
    <2>2. \A j \in Keys : entry'[j].waiters = entry[j].waiters \ {c}
        BY <1>7, <1>8, Zenon
    <2>3. \A j \in Keys : again'[j].waiters = again[j].waiters \ {c}
        BY <1>7, <2>1, Zenon
    <2> QED BY <1>3, <1>6, <1>8, <2>1, <2>2, <2>3, Zenon
  <1>9. CASE /\ call' = [call EXCEPT ![c] = NoCall] /\ k \in (pending \cup active) \ rerun
             /\ c \in entry[k].waiters /\ UNCHANGED <<rerun, again>>
             /\ \/ entry' = Forget(entry, k, c) /\ pending' = pending
                \/ /\ entry' = [entry EXCEPT ![k] = NoEntry] /\ pending' = pending \ {k}
                   /\ k \in pending /\ entry[k].waiters = {c} /\ ~entry[k].periodic
    <2>1. /\ entry' \in [Keys -> Entry] /\ \A j \in Keys : j # k => entry'[j] = entry[j]
          /\ entry'[k].waiters = entry[k].waiters \ {c}
          /\ pending' = pending \/ (pending' = pending \ {k} /\ entry'[k].waiters = {})
      <3>1. CASE entry' = Forget(entry, k, c) /\ pending' = pending
          BY <3>1, <1>3, ForgetFields, SMTT(60)
      <3>2. CASE /\ entry' = [entry EXCEPT ![k] = NoEntry] /\ pending' = pending \ {k}
                 /\ k \in pending /\ entry[k].waiters = {c} /\ ~entry[k].periodic
          BY <3>2, <1>3, NoEntryFields, Zenon
      <3> QED BY <1>9, <3>1, <3>2, ZenonT(60)
    <2>2. \A j \in Keys : again'[j].waiters = again[j].waiters \ {c}
        BY <1>7, <1>9, Zenon
    <2>3. \A j \in Keys : entry'[j].waiters = entry[j].waiters \ {c}
        BY <1>7, <2>1, Zenon
    <2> QED BY <1>3, <1>6, <1>9, <2>1, <2>2, <2>3, ZenonT(60)
  <1> QED BY <1>2, <1>5, <1>8, <1>9, CancelOutcomes, ZenonT(60)

(* acceptSubmission where c joins those who wait for k: E is {c} if it joins *)
(* the entry of k, A if it joins the rerun.                                  *)
Joins(c, k, E, A) ==
    /\ UNCHANGED <<queueSize, active, busy, done, owner>>
    /\ call[c].pc = "sent" /\ call' = [call EXCEPT ![c].pc = "waiting"] /\ call[c].task.key = k
    /\ dispatch' \in pending' \cup {Absent}
    /\ entry' \in [Keys -> Entry] /\ again' \in [Keys -> Entry]
    /\ pending \subseteq pending' /\ pending' \subseteq Keys /\ pending' \cap active = {}
    /\ rerun \subseteq rerun' /\ rerun' \subseteq active
    /\ IsFiniteSet(pending') /\ IsFiniteSet(rerun')
    /\ Cardinality(pending') + Cardinality(rerun') <= queueSize
    /\ \A j \in Keys : j # k => /\ entry'[j].waiters = entry[j].waiters
                                /\ again'[j].waiters = again[j].waiters
    /\ (E = {c} /\ A = {}) \/ (E = {} /\ A = {c})
    /\ entry'[k].waiters = entry[k].waiters \cup E
    /\ again'[k].waiters = again[k].waiters \cup A
    /\ k \in pending' \cup active
    /\ A = {c} => k \in rerun'
    /\ E = {c} /\ k \in active => ~call[c].task.fresh

LEMMA JoinStep ==
    ASSUME DispatchInv, NEW c \in Callers, NEW k \in Keys, NEW E, NEW A, Joins(c, k, E, A)
    PROVE  DispatchInv'
  <1> USE DEF Joins
  <1>1. call \in [Callers -> Call] /\ call[c] \in Call
      BY Zenon DEF DispatchInv, QueueTyped
  <1>2. /\ call' \in [Callers -> Call] /\ \A d \in Callers : d # c => call'[d] = call[d]
        /\ call'[c].pc = "waiting" /\ call'[c].task = call[c].task
      BY <1>1, Zenon DEF Call
  <1>3. QueueTyped'
      BY <1>2, Zenon DEF DispatchInv, QueueTyped
  <1>4. MapsAgree'
    <2>1. Completed' = Completed
        BY Zenon DEF Completed
    <2> QED BY <2>1, Zenon DEF DispatchInv, MapsAgree
  <1>5. \A j \in Keys : /\ j \notin pending' \cup active' => entry'[j].waiters = {}
                        /\ j \notin rerun' => again'[j].waiters = {}
      BY DEF DispatchInv, WaitersKept
  <1>6. WaitersKept'
    <2>1. /\ ~Open(c) /\ Open(c)' /\ call'[c].task = call[c].task /\ call'[c].task \in Task
          /\ \A d \in Callers : d # c => call'[d] = call[d]
        BY <1>2, Zenon DEF DispatchInv, QueueTyped, WaitersKept, Open, Call
    <2>2. \A d \in Callers : d # c => (Open(d)' <=> Open(d))
        BY <2>1, ZenonT(60) DEF Open
    <2>3. \A j \in Keys : /\ entry[j].waiters \subseteq Callers /\ again[j].waiters \subseteq Callers
                          /\ c \notin entry[j].waiters \cup again[j].waiters
        BY <2>1 DEF DispatchInv, QueueTyped, Entry, WaitersKept
    <2>4. \A d \in Callers : Open(d) => call[d].task.key \in Keys
        BY Zenon DEF DispatchInv, WaitersKept, Open, Task
    <2>5. \A d \in Callers : call'[d].pc # "none" => call'[d].task \in Task
        BY <2>1, SMTT(60) DEF DispatchInv, WaitersKept
    <2>6. \A j \in Keys : \A d \in entry'[j].waiters : Open(d)' /\ call'[d].task.key = j
        BY <2>1, <2>2, <2>3, SMTT(60) DEF DispatchInv, WaitersKept
    <2>7. \A j \in Keys : \A d \in again'[j].waiters :
              Open(d)' /\ call'[d].task.key = j /\ d \notin entry'[j].waiters
        BY <2>1, <2>2, <2>3, SMTT(60) DEF DispatchInv, WaitersKept
    <2>8. \A d \in Callers : Open(d)' =>
              d \in entry'[call'[d].task.key].waiters \cup again'[call'[d].task.key].waiters
        BY <2>1, <2>2, <2>4, SMTT(60) DEF DispatchInv, WaitersKept
    <2> QED BY <1>5, <2>5, <2>6, <2>7, <2>8, ZenonT(60) DEF WaitersKept
  <1>7. FreshAnswer'
    <2>1. ASSUME NEW j \in active', NEW d \in entry'[j].waiters, call'[d].task.fresh
          PROVE  call'[d].covered
      <3>1. j \in active /\ j \in Keys
          BY Zenon DEF DispatchInv, QueueTyped
      <3>2. d \in Callers
          BY <3>1, Zenon DEF Entry
      <3>3. CASE d = c
        <4>1. d \notin entry[j].waiters
            BY <3>1, <3>3, Zenon DEF DispatchInv, WaitersKept, Open
        <4>2. j = k /\ E = {c}
            BY <2>1, <3>1, <3>3, <4>1, ZenonT(60)
        <4> QED BY <1>2, <2>1, <3>1, <3>3, <4>2, ZenonT(60)
      <3>4. CASE d # c
        <4>1. call'[d] = call[d]
            BY <1>2, <3>2, <3>4, Zenon
        <4>2. d \in entry[j].waiters
            BY <2>1, <3>1, <3>4, SMTT(60)
        <4> QED BY <2>1, <3>1, <4>1, <4>2, ZenonT(60) DEF DispatchInv, FreshAnswer
      <3> QED BY <3>3, <3>4, Zenon
    <2> QED BY <2>1, Zenon DEF FreshAnswer
  <1> QED BY <1>3, <1>4, <1>6, <1>7, ZenonT(60) DEF DispatchInv

(* An active entry takes a waiter and keeps the rest. *)
Attached(e, k, c) == [e EXCEPT ![k].waiters = @ \cup {c}]

LEMMA AttachFields ==
    ASSUME NEW e \in [Keys -> Entry], NEW k \in Keys, NEW c \in Callers
    PROVE  /\ Attached(e, k, c) \in [Keys -> Entry]
           /\ \A j \in Keys : j # k => Attached(e, k, c)[j] = e[j]
           /\ Attached(e, k, c)[k].waiters = e[k].waiters \cup {c}
           /\ Attached(e, k, c)[k].periodic = e[k].periodic
  <1>1. PICK w : w = e[k].waiters \cup {c}
      BY Zenon
  <1>2. PICK r : r = [e[k] EXCEPT !.waiters = w]
      BY Zenon
  <1>3. e[k] \in Entry /\ w \subseteq Callers
      BY <1>1, Zenon DEF Entry
  <1>4. r \in Entry /\ r.waiters = w /\ r.periodic = e[k].periodic
      BY <1>2, <1>3, Zenon DEF Entry
  <1>5. Attached(e, k, c) = [e EXCEPT ![k] = r]
      BY <1>1, <1>2, Zenon DEF Attached
  <1> QED BY <1>1, <1>4, <1>5, Zenon

(* Room for one more in the queue. *)
LEMMA OneMore ==
    ASSUME DispatchInv, NEW k \in Keys, ~QueueFull(pending, rerun)
    PROVE  /\ IsFiniteSet(pending) /\ IsFiniteSet(rerun)
           /\ IsFiniteSet(pending \cup {k}) /\ IsFiniteSet(rerun \cup {k})
           /\ k \notin pending => Cardinality(pending \cup {k}) + Cardinality(rerun) <= queueSize
           /\ k \notin rerun => Cardinality(pending) + Cardinality(rerun \cup {k}) <= queueSize
  <1>1. /\ IsFiniteSet(pending) /\ IsFiniteSet(rerun) /\ queueSize \in Nat
        /\ Cardinality(pending) \in Nat /\ Cardinality(rerun) \in Nat
      BY FS_CardinalityType, Zenon DEF DispatchInv, QueueTyped
  <1>2. ~(Cardinality(pending) + Cardinality(rerun) >= queueSize)
      BY Zenon DEF QueueFull
  <1>3. /\ IsFiniteSet(pending \cup {k})
        /\ k \notin pending => Cardinality(pending \cup {k}) = Cardinality(pending) + 1
      BY <1>1, FS_AddElement, Zenon
  <1>4. /\ IsFiniteSet(rerun \cup {k})
        /\ k \notin rerun => Cardinality(rerun \cup {k}) = Cardinality(rerun) + 1
      BY <1>1, FS_AddElement, Zenon
  <1> QED BY <1>1, <1>2, <1>3, <1>4, SMTT(60)

LEMMA AcceptInv ==
    ASSUME DispatchInv, Fixed, NEW c \in Callers, Accept(c)
    PROVE  DispatchInv'
  <1>1. PICK t : t = call[c].task
      BY Zenon
  <1>2. /\ UNCHANGED <<queueSize, active, busy, done, owner>> /\ call[c].pc = "sent"
        /\ LoopHead(dispatch)
      BY Zenon DEF Accept, Fixed
  <1>3. t \in Task
      BY <1>1, <1>2, Zenon DEF DispatchInv, WaitersKept
  <1>4. PICK k \in Keys : t.key = k
      BY <1>3, Zenon DEF Task
  <1>5. /\ entry \in [Keys -> Entry] /\ again \in [Keys -> Entry] /\ call \in [Callers -> Call]
        /\ pending \subseteq Keys /\ rerun \subseteq Keys
        /\ IsFiniteSet(pending) /\ IsFiniteSet(rerun) /\ queueSize \in Nat
        /\ owner \in [ready : BOOLEAN, cancelled : BOOLEAN]
        /\ pending \cap active = {} /\ rerun \subseteq active
        /\ dispatch \in pending \cup {Absent}
        /\ Cardinality(pending) + Cardinality(rerun) <= queueSize
      BY Zenon DEF DispatchInv, QueueTyped, MapsAgree
  <1>6. pending \subseteq pending' => dispatch' \in pending' \cup {Absent}
      BY <1>2, <1>5, Chooses, Zenon
  <1>7. /\ k \notin pending \cup active => entry[k].waiters = {}
        /\ k \notin rerun => again[k].waiters = {}
      BY Zenon DEF DispatchInv, WaitersKept
  <1>8. CASE /\ k \in pending
             /\ entry' = [entry EXCEPT ![k] = Merged(entry[k], t, c)]
             /\ call' = [call EXCEPT ![c].pc = "waiting"]
             /\ UNCHANGED <<pending, rerun, again>>
    <2>1. PICK m : m = Merged(entry[k], t, c)
        BY Zenon
    <2>2. m \in Entry /\ m.waiters = entry[k].waiters \cup {c}
        BY <1>3, <1>5, <2>1, EntryFields, SMTT(60)
    <2>3. /\ entry' \in [Keys -> Entry] /\ \A j \in Keys : j # k => entry'[j] = entry[j]
          /\ entry'[k].waiters = entry[k].waiters \cup {c}
        BY <1>5, <1>8, <2>1, <2>2, Zenon
    <2>4. Joins(c, k, {c}, {})
        BY <1>1, <1>2, <1>4, <1>5, <1>6, <1>8, <2>3, ZenonT(60) DEF Joins
    <2> QED BY <2>4, JoinStep, Zenon
  <1>9. CASE /\ k \in active /\ ~t.fresh
             /\ Attach(c, t)
             /\ UNCHANGED <<pending, rerun, again>>
    <2>1. /\ entry' \in [Keys -> Entry] /\ \A j \in Keys : j # k => entry'[j] = entry[j]
          /\ entry'[k].waiters = entry[k].waiters \cup {c}
      <3>1. entry' = Attached(entry, k, c)
          BY <1>4, <1>9, Zenon DEF Attach, Attached
      <3> QED BY <1>5, <3>1, AttachFields, SMTT(60)
    <2>2. call' = [call EXCEPT ![c].pc = "waiting"]
        BY <1>9, Zenon DEF Attach
    <2>3. Joins(c, k, {c}, {})
        BY <1>1, <1>2, <1>4, <1>5, <1>6, <1>9, <2>1, <2>2, Zenon DEF Joins
    <2> QED BY <2>3, JoinStep, Zenon
  <1>10. CASE /\ k \in active /\ k \in rerun
              /\ again' = [again EXCEPT ![k] = Merged(again[k], t, c)]
              /\ call' = [call EXCEPT ![c].pc = "waiting"]
              /\ UNCHANGED <<pending, rerun, entry>>
    <2>1. PICK m : m = Merged(again[k], t, c)
        BY Zenon
    <2>2. m \in Entry /\ m.waiters = again[k].waiters \cup {c}
        BY <1>3, <1>5, <2>1, EntryFields, SMTT(60)
    <2>3. /\ again' \in [Keys -> Entry] /\ \A j \in Keys : j # k => again'[j] = again[j]
          /\ again'[k].waiters = again[k].waiters \cup {c}
        BY <1>5, <1>10, <2>1, <2>2, Zenon
    <2>4. Joins(c, k, {}, {c})
        BY <1>1, <1>2, <1>4, <1>5, <1>6, <1>10, <2>3, ZenonT(60) DEF Joins
    <2> QED BY <2>4, JoinStep, ZenonT(60)
  <1>11. CASE /\ k \in active /\ k \notin rerun /\ ~QueueFull(pending, rerun)
              /\ rerun' = rerun \cup {k} /\ again' = [again EXCEPT ![k] = NewEntry(t, c)]
              /\ call' = [call EXCEPT ![c].pc = "waiting"]
              /\ UNCHANGED <<pending, entry>>
    <2>1. PICK m : m = NewEntry(t, c)
        BY Zenon
    <2>2. m \in Entry /\ m.waiters = {c}
        BY <1>3, <2>1, EntryFields, Zenon
    <2>3. /\ again' \in [Keys -> Entry] /\ \A j \in Keys : j # k => again'[j] = again[j]
          /\ again'[k].waiters = again[k].waiters \cup {c}
        BY <1>5, <1>7, <1>11, <2>1, <2>2, ZenonT(60)
    <2>4. /\ IsFiniteSet(pending') /\ IsFiniteSet(rerun')
          /\ Cardinality(pending') + Cardinality(rerun') <= queueSize
        BY <1>11, OneMore, Zenon
    <2>5. Joins(c, k, {}, {c})
        BY <1>1, <1>2, <1>4, <1>5, <1>6, <1>11, <2>3, <2>4, ZenonT(60) DEF Joins
    <2> QED BY <2>5, JoinStep, Zenon
  <1>12. CASE /\ k \notin pending \cup active /\ ~QueueFull(pending, rerun)
              /\ pending' = pending \cup {k} /\ entry' = [entry EXCEPT ![k] = NewEntry(t, c)]
              /\ call' = [call EXCEPT ![c].pc = "waiting"]
              /\ UNCHANGED <<rerun, again>>
    <2>1. PICK m : m = NewEntry(t, c)
        BY Zenon
    <2>2. m \in Entry /\ m.waiters = {c}
        BY <1>3, <2>1, EntryFields, Zenon
    <2>3. /\ entry' \in [Keys -> Entry] /\ \A j \in Keys : j # k => entry'[j] = entry[j]
          /\ entry'[k].waiters = entry[k].waiters \cup {c}
        BY <1>5, <1>7, <1>12, <2>1, <2>2, ZenonT(60)
    <2>4. /\ IsFiniteSet(pending') /\ IsFiniteSet(rerun')
          /\ Cardinality(pending') + Cardinality(rerun') <= queueSize
        BY <1>12, OneMore, Zenon
    <2>5. Joins(c, k, {c}, {})
        BY <1>1, <1>2, <1>4, <1>5, <1>6, <1>12, <2>3, <2>4, SMTT(60) DEF Joins
    <2> QED BY <2>5, JoinStep, Zenon
  <1>13. CASE call' = [call EXCEPT ![c] = NoCall] /\ UNCHANGED <<pending, rerun, entry, again>>
    <2>1. /\ call' \in [Callers -> Call] /\ \A d \in Callers : d # c => call'[d] = call[d]
          /\ call'[c].pc = "none"
        BY <1>5, <1>13, NoEntryFields, Zenon
    <2>2. \A d \in Callers : /\ call'[d].pc # "none" => call'[d].task \in Task
                             /\ Open(d)' <=> Open(d)
                             /\ Open(d) => /\ call'[d].task = call[d].task
                                           /\ call'[d].covered = call[d].covered
        BY <1>2, <2>1, ZenonT(60) DEF Open, DispatchInv, WaitersKept
    <2> QED BY <1>2, <1>5, <1>6, <1>13, <2>1, <2>2, QueueSame, ZenonT(60)
  <1> QED
    <2>1. \/ /\ k \in pending
             /\ entry' = [entry EXCEPT ![k] = Merged(entry[k], t, c)]
             /\ call' = [call EXCEPT ![c].pc = "waiting"]
             /\ UNCHANGED <<pending, rerun, again>>
          \/ k \in active /\ ~t.fresh /\ Attach(c, t) /\ UNCHANGED <<pending, rerun, again>>
          \/ k \in active /\ AcceptRerun(c, t) /\ UNCHANGED <<pending, entry>>
          \/ k \notin pending \cup active /\ AcceptNew(c, t) /\ UNCHANGED <<rerun, again>>
        BY <1>1, <1>4, Zenon DEF Accept
    <2>2. CASE k \in active /\ AcceptRerun(c, t) /\ UNCHANGED <<pending, entry>>
        BY <1>4, <1>10, <1>11, <1>13, <2>2, ZenonT(60) DEF AcceptRerun
    <2>3. CASE k \notin pending \cup active /\ AcceptNew(c, t) /\ UNCHANGED <<rerun, again>>
        BY <1>4, <1>12, <1>13, <2>3, Zenon DEF AcceptNew
    <2> QED BY <1>8, <1>9, <2>1, <2>2, <2>3, ZenonT(60)

LEMMA DispatchNext == DispatchInv /\ [ProbeNext]_probeVars => DispatchInv'
  <1> SUFFICES ASSUME DispatchInv, [ProbeNext]_probeVars PROVE DispatchInv'
      BY Zenon
  <1>1. CASE UNCHANGED probeVars
    <2>1. UNCHANGED <<queueSize, pending, active, rerun, busy, done, dispatch, owner, entry, again, call>>
        BY <1>1, Zenon DEF probeVars
    <2>2. \A c \in Callers : /\ call'[c].pc # "none" => call'[c].task \in Task
                             /\ Open(c)' <=> Open(c)
        BY <2>1, Zenon DEF Open, DispatchInv, WaitersKept
    <2> QED BY <2>1, <2>2, QueueSame, Zenon DEF DispatchInv, QueueTyped, MapsAgree
  <1>2. CASE ProbeNext
    <2>1. ProbeStep /\ Fixed
        BY <1>2, Zenon DEF ProbeNext
    <2>2. CASE TimerFires \/ ProbeOwnerReady \/ CancelScheduler
        BY <2>1, <2>2, LoopInv, Zenon
    <2>3. CASE HandOff
        BY <2>1, <2>3, HandOffInv, Zenon
    <2>4. CASE Complete
        BY <2>1, <2>4, CompleteInv, ZenonT(60)
    <2>5. CASE Stop
        BY <2>1, <2>5, StopInv, Zenon
    <2>6. ASSUME NEW k \in Keys, BecomesDue(k) \/ ProbeReturns(k) PROVE DispatchInv'
        BY <2>1, <2>6, BecomesDueInv, ProbeReturnsInv, Zenon
    <2>7. ASSUME NEW c \in Callers, (\E t \in Tasks[c] : Submit(c, t)) \/ Abort(c) \/ Cancel(c)
          PROVE  DispatchInv'
        BY <2>1, <2>7, CallerInv, Zenon
    <2>8. ASSUME NEW c \in Callers, Accept(c) \/ CancelWaiter(c) PROVE DispatchInv'
        BY <2>1, <2>8, AcceptInv, CancelWaiterInv, Zenon
    <2>9. ASSUME NEW K \in Removals, Remove(K) PROVE DispatchInv'
        BY <2>1, <2>9, RemoveInv, Zenon
    <2> QED BY <2>1, <2>2, <2>3, <2>4, <2>5, <2>6, <2>7, <2>8, <2>9, ZenonT(60) DEF ProbeStep
  <1> QED BY <1>1, <1>2, Zenon

(* What the dispatcher loop keeps in every reachable state: its maps agree   *)
(* with each other, with the chosen probe and with the workers, and every    *)
(* submission it holds waits with the key of its task.                       *)
THEOREM DispatchInvariant == ProbeSpec => []DispatchInv
  BY DispatchStart, DispatchNext, PTL DEF ProbeSpec

(* scheduler.go's dispatcher: pending, active and rerun stay consistent with  *)
(* the chosen job, the workers and the completions, within the queue's size. *)
THEOREM QueueConsistentTheorem == ProbeSpec => []QueueConsistent
  <1>1. DispatchInv => QueueConsistent
      BY SMTT(60) DEF DispatchInv, MapsAgree, QueueConsistent, Completed, Elems, Distinct
  <1> QED BY <1>1, DispatchInvariant, PTL

(* FreshAfterCurrent: no caller that asked for a fresh run is answered with  *)
(* a run that was under way when it asked.                                   *)
THEOREM FreshAnswerTheorem == ProbeSpec => []FreshAnswer
  <1>1. DispatchInv => FreshAnswer
      BY Zenon DEF DispatchInv
  <1> QED BY <1>1, DispatchInvariant, PTL

(* Every submission that was taken and is not answered waits in exactly one  *)
(* place, so it is answered once: finish never sends on a closed channel.    *)
THEOREM AnsweredOnceTheorem == ProbeSpec => []AnsweredOnce
  <1>1. ASSUME DispatchInv, NEW c \in Callers
        PROVE  Cardinality(InEntry(c)) + Cardinality(InRerun(c)) = IF Open(c) THEN 1 ELSE 0
    <2>1. \A k \in pending \cup active \cup rerun : k \in Keys
        BY <1>1, Zenon DEF DispatchInv, QueueTyped
    <2>2. CASE ~Open(c)
      <3>1. InEntry(c) = {} /\ InRerun(c) = {}
          BY <1>1, <2>1, <2>2, Zenon DEF InEntry, InRerun, DispatchInv, WaitersKept
      <3> QED BY <2>2, <3>1, FS_EmptySet, SMTT(60)
    <2>3. CASE Open(c)
      <3>1. PICK k \in Keys : call[c].task.key = k
          BY <1>1, <2>3, Zenon DEF DispatchInv, WaitersKept, Open, Task
      <3>2. Cardinality({k}) = 1 /\ Cardinality({}) = 0
          BY FS_EmptySet, FS_Singleton, Zenon
      <3>3. c \in entry[k].waiters \cup again[k].waiters
          BY <1>1, <2>3, <3>1, Zenon DEF DispatchInv, WaitersKept
      <3>4. CASE c \in entry[k].waiters
        <4>1. InEntry(c) = {k} /\ InRerun(c) = {}
            BY <1>1, <2>1, <3>1, <3>4, SMTT(60) DEF InEntry, InRerun, DispatchInv, WaitersKept
        <4> QED BY <2>3, <3>2, <4>1, SMTT(60)
      <3>5. CASE c \notin entry[k].waiters
        <4>1. InEntry(c) = {} /\ InRerun(c) = {k}
            BY <1>1, <2>1, <3>1, <3>3, <3>5, SMTT(60) DEF InEntry, InRerun, DispatchInv, WaitersKept
        <4> QED BY <2>3, <3>2, <4>1, SMTT(60)
      <3> QED BY <3>4, <3>5, Zenon
    <2> QED BY <2>2, <2>3, Zenon
  <1>2. DispatchInv => AnsweredOnce
      BY <1>1, Zenon DEF AnsweredOnce
  <1> QED BY <1>2, DispatchInvariant, PTL

LEMMA RecurStep ==
    ASSUME DispatchInv, ProbeStep, NEW k \in Keys, Recurs(k), ~Stop,
           ~QueueFull(pending, rerun \ {k}), ~\E K \in Removals : k \in K /\ Remove(K)
    PROVE  Recurs(k)'
  <1> DEFINE Kept == /\ k \in pending \cup active /\ entry[k].periodic =>
                            k \in pending' \cup active' /\ entry'[k].periodic
                     /\ k \in rerun /\ again[k].periodic => k \in rerun' /\ again'[k].periodic
  <1>1. Kept => Recurs(k)'
      BY Zenon DEF Recurs
  <1>2. /\ entry \in [Keys -> Entry] /\ again \in [Keys -> Entry]
        /\ pending \cap active = {} /\ rerun \subseteq active
      BY Zenon DEF DispatchInv, QueueTyped, MapsAgree
  <1>3. CASE UNCHANGED <<pending, active, rerun, entry, again>>
      BY <1>1, <1>3, Zenon
  <1>4. CASE HandOff
    <2>1. /\ UNCHANGED <<rerun, entry, again>> /\ pending' = pending \ {dispatch}
          /\ active' = active \cup {dispatch}
        BY <1>4, Zenon DEF HandOff
    <2> QED BY <1>1, <2>1, Zenon
  <1>5. ASSUME NEW j \in Keys, BecomesDue(j) PROVE Recurs(k)'
    <2>1. \A e \in [Keys -> Entry] : [e EXCEPT ![j].due = TRUE][k].periodic = e[k].periodic
        BY Zenon DEF Entry
    <2>2. UNCHANGED <<pending, active, rerun>>
        BY <1>5, Zenon DEF BecomesDue
    <2>3. entry'[k].periodic = entry[k].periodic /\ again'[k].periodic = again[k].periodic
        BY <1>2, <1>5, <2>1, Zenon DEF BecomesDue
    <2> QED BY <1>1, <2>2, <2>3, Zenon
  <1>6. CASE Complete
    <2>1. PICK h, n : h = Head(done) /\ n = NextEntry(h)
        BY Zenon
    <2>2. PICK recurs \in BOOLEAN : recurs <=> h \in rerun \/ entry[h].periodic
        BY Zenon
    <2>3. /\ active' = active \ {h} /\ rerun' = rerun \ {h} /\ again' = [again EXCEPT ![h] = NoEntry]
          /\ \/ /\ pending' = pending \cup {h} /\ entry' = [entry EXCEPT ![h] = n]
             \/ /\ ~(recurs /\ ~QueueFull(pending, rerun \ {h}))
                /\ pending' = pending /\ entry' = [entry EXCEPT ![h] = NoEntry]
        BY <1>6, <2>1, <2>2, Zenon DEF Complete
    <2>4. CASE k # h
      <3>1. entry'[k] = entry[k] /\ again'[k] = again[k]
          BY <1>2, <2>3, <2>4, Zenon
      <3> QED BY <1>1, <2>3, <2>4, <3>1, Zenon
    <2>5. CASE k = h
      <3>1. recurs
          BY <2>2, <2>5, Zenon DEF Recurs
      <3>2. pending' = pending \cup {h} /\ entry' = [entry EXCEPT ![h] = n]
          BY <2>3, <2>5, <3>1, Zenon
      <3>3. n.periodic
          BY <2>1, <2>5, NextEntryFields, Zenon DEF Recurs, DispatchInv
      <3>4. entry'[k].periodic /\ k \in pending'
          BY <1>2, <2>5, <3>2, <3>3, Zenon
      <3> QED BY <3>4, Zenon DEF Recurs
    <2> QED BY <2>4, <2>5, Zenon
  <1>7. ASSUME NEW K \in Removals, Remove(K) PROVE Recurs(k)'
    <2>1. k \notin K
        BY <1>7, Zenon
    <2>2. /\ active' = active /\ pending' = pending \ K /\ rerun' = rerun \ K
          /\ entry' = Dropped(entry, pending \cap K) /\ again' = Dropped(again, K)
        BY <1>7, Zenon DEF Remove
    <2>3. entry'[k] = entry[k] /\ again'[k] = again[k]
        BY <2>1, <2>2, Zenon DEF Dropped
    <2> QED BY <1>1, <2>1, <2>2, <2>3, Zenon
  <1>8. ASSUME NEW c \in Callers, CancelWaiter(c) PROVE Recurs(k)'
    <2>1. active' = active /\ call[c].pc \in {"cancelling", "late"}
        BY <1>8, Zenon DEF CancelWaiter
    <2>2. PICK j \in Keys : call[c].task.key = j
        BY <2>1, Zenon DEF DispatchInv, WaitersKept, Task
    <2>3. CASE UNCHANGED <<pending, rerun, entry, again>>
        BY <1>3, <2>1, <2>3, Zenon
    <2>4. CASE UNCHANGED <<pending, entry>> /\ again' = Forget(again, j, c) /\ rerun' = rerun
      <3>1. again'[k].periodic = again[k].periodic
          BY <1>2, <2>4, ForgetFields, SMTT(60)
      <3> QED BY <1>1, <2>1, <2>4, <3>1, ZenonT(60)
    <2>5. CASE /\ UNCHANGED <<pending, entry>> /\ again' = [again EXCEPT ![j] = NoEntry]
               /\ rerun' = rerun \ {j} /\ ~again[j].periodic
        BY <1>1, <1>2, <2>1, <2>5, Zenon
    <2>6. CASE UNCHANGED <<rerun, again>> /\ entry' = Forget(entry, j, c) /\ pending' = pending
      <3>1. entry'[k].periodic = entry[k].periodic
          BY <1>2, <2>6, ForgetFields, SMTT(60)
      <3> QED BY <1>1, <2>1, <2>6, <3>1, ZenonT(60)
    <2>7. CASE /\ UNCHANGED <<rerun, again>> /\ entry' = [entry EXCEPT ![j] = NoEntry]
               /\ pending' = pending \ {j} /\ ~entry[j].periodic
        BY <1>1, <1>2, <2>1, <2>7, Zenon
    <2> QED BY <1>8, <2>2, <2>3, <2>4, <2>5, <2>6, <2>7, CancelOutcomes, ZenonT(60)
  <1>9. ASSUME NEW c \in Callers, Accept(c) PROVE Recurs(k)'
    <2>1. PICK t : t = call[c].task
        BY Zenon
    <2>2. active' = active /\ call[c].pc = "sent"
        BY <1>9, Zenon DEF Accept
    <2>3. t \in Task
        BY <2>1, <2>2, Zenon DEF DispatchInv, WaitersKept
    <2>4. PICK j \in Keys : t.key = j
        BY <2>3, Zenon DEF Task
    <2>5. CASE UNCHANGED <<pending, rerun, entry, again>>
        BY <1>3, <2>2, <2>5, Zenon
    <2>6. ASSUME NEW m, m \in Entry, entry[j].periodic => m.periodic,
                 entry' = [entry EXCEPT ![j] = m], UNCHANGED <<pending, rerun, again>>
          PROVE  Recurs(k)'
        BY <1>1, <1>2, <2>2, <2>6, Zenon
    <2>7. ASSUME NEW m, m \in Entry, again[j].periodic => m.periodic,
                 again' = [again EXCEPT ![j] = m], UNCHANGED <<pending, rerun, entry>>
          PROVE  Recurs(k)'
        BY <1>1, <1>2, <2>2, <2>7, Zenon
    <2>8. ASSUME NEW m, j \notin rerun, again' = [again EXCEPT ![j] = m],
                 rerun' = rerun \cup {j}, UNCHANGED <<pending, entry>>
          PROVE  Recurs(k)'
        BY <1>1, <1>2, <2>2, <2>8, Zenon
    <2>9. ASSUME NEW m, j \notin pending \cup active, entry' = [entry EXCEPT ![j] = m],
                 pending' = pending \cup {j}, UNCHANGED <<rerun, again>>
          PROVE  Recurs(k)'
        BY <1>1, <1>2, <2>2, <2>9, Zenon
    <2>10. CASE UNCHANGED <<pending, rerun, again>> /\ Attach(c, t)
      <3>1. entry' = Attached(entry, j, c)
          BY <2>4, <2>10, Zenon DEF Attach, Attached
      <3>2. entry'[k].periodic = entry[k].periodic
        <4>1. PICK f : f = Attached(entry, j, c)
            BY Zenon
        <4>2. /\ \A i \in Keys : i # j => f[i] = entry[i]
              /\ f[j].periodic = entry[j].periodic
            BY <1>2, <4>1, AttachFields, SMTT(60)
        <4>3. entry' = f
            BY <3>1, <4>1, Zenon
        <4> QED BY <4>2, <4>3, Zenon
      <3> QED BY <1>1, <2>2, <2>10, <3>2, ZenonT(60)
    <2>11. CASE /\ entry' = [entry EXCEPT ![j] = Merged(entry[j], t, c)]
                /\ UNCHANGED <<pending, rerun, again>>
      <3>1. PICK m : m = Merged(entry[j], t, c)
          BY Zenon
      <3>2. m \in Entry /\ (entry[j].periodic => m.periodic)
          BY <1>2, <2>3, <3>1, EntryFields, ZenonT(60)
      <3> QED BY <2>6, <2>11, <3>1, <3>2, ZenonT(60)
    <2>12. CASE /\ again' = [again EXCEPT ![j] = Merged(again[j], t, c)]
                /\ UNCHANGED <<pending, rerun, entry>>
      <3>1. PICK m : m = Merged(again[j], t, c)
          BY Zenon
      <3>2. m \in Entry /\ (again[j].periodic => m.periodic)
          BY <1>2, <2>3, <3>1, EntryFields, Zenon
      <3> QED BY <2>7, <2>12, <3>1, <3>2, Zenon
    <2>13. \/ /\ entry' = [entry EXCEPT ![j] = Merged(entry[j], t, c)]
              /\ UNCHANGED <<pending, rerun, again>>
           \/ Attach(c, t) /\ UNCHANGED <<pending, rerun, again>>
           \/ AcceptRerun(c, t) /\ UNCHANGED <<pending, entry>>
           \/ j \notin pending \cup active /\ AcceptNew(c, t) /\ UNCHANGED <<rerun, again>>
        BY <1>9, <2>1, <2>4, Zenon DEF Accept
    <2>14. CASE AcceptRerun(c, t) /\ UNCHANGED <<pending, entry>>
        BY <2>4, <2>5, <2>8, <2>12, <2>14, ZenonT(60) DEF AcceptRerun
    <2>15. CASE j \notin pending \cup active /\ AcceptNew(c, t) /\ UNCHANGED <<rerun, again>>
        BY <2>4, <2>5, <2>9, <2>15, Zenon DEF AcceptNew
    <2> QED BY <2>10, <2>11, <2>13, <2>14, <2>15, ZenonT(60)
  <1>10. \/ UNCHANGED <<pending, active, rerun, entry, again>>
         \/ HandOff \/ Complete \/ \E j \in Keys : BecomesDue(j)
         \/ \E c \in Callers : Accept(c) \/ CancelWaiter(c)
         \/ \E K \in Removals : Remove(K)
      BY Zenon DEF ProbeStep, TimerFires, ProbeOwnerReady, CancelScheduler, ProbeReturns, Submit, Abort, Cancel
  <1> QED BY <1>3, <1>4, <1>5, <1>6, <1>7, <1>8, <1>9, <1>10, ZenonT(60)

(* A periodic probe stays scheduled through every merge, rerun, cancellation *)
(* and completion of its key, unless it is removed, the scheduler stops, or  *)
(* the queue is full when its run completes.                                 *)
THEOREM RecurringKeptTheorem == ProbeSpec => RecurringKept
  <1>1. DispatchInv /\ [ProbeNext]_probeVars =>
          [\A k \in Keys : Recurs(k) =>
             \/ Recurs(k)' \/ Stop \/ QueueFull(pending, rerun \ {k})
             \/ \E K \in Removals : k \in K /\ Remove(K)]_probeVars
      BY RecurStep, Zenon DEF ProbeNext
  <1> QED BY <1>1, DispatchInvariant, PTL DEF ProbeSpec, RecurringKept
=============================================================================
