--------------------------- MODULE ServiceProofs ----------------------------
(***************************************************************************)
(* Proofs about two services behind the groups: the writer of the state    *)
(* file (StateWriter), for any number of callers, changes, failures and    *)
(* crashes and a file with one writer (with two writers on one path the    *)
(* first theorem does not hold); and the DNS multiplexer (DnsMux), for any *)
(* number of packets, questions and lanes and any limits.                  *)
(***************************************************************************)
EXTENDS StateWriter, DnsMux, FiniteSetTheorems, TLAPS

-----------------------------------------------------------------------------
(* The writer of the state file. *)

OneWriterOnly == \A u, w \in Writers : u = w

Writing(w) == writer[w].pc \in {"snapshot", "rename", "sync"}

(* What is on disk or may be after a crash is between what was reported as   *)
(* durable and what is in memory, and so is the snapshot being written.      *)
DiskInv ==
    /\ file \in survivors
    /\ \A v \in survivors : acked <= v /\ v <= memory
    /\ \A c \in Savers : saver[c].version <= memory
    /\ \A w \in Writers :
          /\ writer[w].pc \in {"rename", "sync"} =>
                acked <= writer[w].snap /\ writer[w].snap <= memory
          /\ writer[w].pc = "rename" => file <= writer[w].snap
          /\ writer[w].pc = "sync" => file = writer[w].snap

(* The caller whose Flush is served waits, and the snapshot has its change.  *)
JobInv ==
    \A w \in Writers : Writing(w) /\ writer[w].job \in Savers =>
        /\ saver[writer[w].job].pc = "waiting"
        /\ writer[w].pc # "snapshot" => saver[writer[w].job].version <= writer[w].snap

(* Where the latest change that was submitted in time may be.                *)
Kept(w) ==
    \/ promised[w] <= file
    \/ writer[w].queued
    \/ writer[w].dirty
    \/ writer[w].pc = "snapshot"
    \/ writer[w].pc = "rename" /\ promised[w] <= writer[w].snap

CloseInv ==
    \A w \in Writers :
        /\ promised[w] <= memory
        /\ writer[w].pc = "done" \/ (Writing(w) /\ writer[w].job = "stop") => writer[w].stop
        /\ failures = 0 =>
              /\ writer[w].pc # "done" => Kept(w)
              /\ writer[w].pc = "done" => promised[w] <= file
              /\ writer[w].pc = "rename" /\ writer[w].job = "stop" => promised[w] <= writer[w].snap
              /\ writer[w].pc = "sync" /\ writer[w].job = "stop" => promised[w] <= file

WriterInv == OneWriterOnly /\ WriterTypeOK /\ DiskInv /\ JobInv /\ CloseInv

-----------------------------------------------------------------------------
LEMMA Turn ==
  ASSUME WriterInv, NEW w \in Writers, NEW n \in WriterState,
         writer' = [writer EXCEPT ![w] = n]
  PROVE  /\ writer' \in [Writers -> WriterState]
         /\ \A u \in Writers : u = w /\ writer'[u] = n
  BY Zenon DEF WriterInv, OneWriterOnly, WriterTypeOK

LEMMA Numbers ==
  ASSUME WriterInv
  PROVE  /\ memory \in Nat /\ file \in Nat /\ acked \in Nat /\ failures \in Nat
         /\ \A v \in survivors : v \in Nat
         /\ \A c \in Savers : saver[c].version \in Nat
         /\ \A w \in Writers : promised[w] \in Nat /\ writer[w].snap \in Nat
  BY WriterConstants DEF WriterInv, WriterTypeOK, Versions, SaverState, WriterState

LEMMA MarkDirtyStep ==
  ASSUME WriterInv, NEW w \in Writers, MarkDirty(w)
  PROVE  WriterInv'
  <1>1. PICK n : n = [writer[w] EXCEPT !.queued = FALSE, !.dirty = TRUE, !.armed = TRUE]
    BY Zenon
  <1>2. writer[w] \in WriterState
    BY Zenon DEF WriterInv, WriterTypeOK
  <1>3. n \in WriterState
    BY <1>1, <1>2, Zenon DEF WriterState
  <1>4. /\ n.pc = writer[w].pc /\ n.dirty = TRUE /\ n.stop = writer[w].stop
        /\ n.job = writer[w].job /\ n.snap = writer[w].snap
    BY <1>1, <1>2, Zenon DEF WriterState
  <1>5. /\ writer' \in [Writers -> WriterState]
        /\ \A u \in Writers : u = w /\ writer'[u] = n
    <2>1. writer' = [writer EXCEPT ![w] = n]
      BY <1>1, Zenon DEF MarkDirty
    <2> QED
      BY <1>3, <2>1, Turn, Zenon
  <1>6. /\ UNCHANGED <<memory, saver, file, survivors, acked, promised, failures, crashes>>
        /\ writer[w].pc = "select"
    BY Zenon DEF MarkDirty
  <1>7. WriterTypeOK'
    BY <1>5, <1>6, Zenon DEF WriterInv, WriterTypeOK
  <1>8. DiskInv'
    BY <1>4, <1>5, <1>6, Zenon DEF WriterInv, DiskInv
  <1>9. JobInv'
    BY <1>4, <1>5, <1>6, Zenon DEF WriterInv, JobInv, Writing
  <1>10. CloseInv'
    BY <1>4, <1>5, <1>6, Zenon DEF WriterInv, CloseInv, Writing, Kept
  <1> QED
    BY <1>7, <1>8, <1>9, <1>10, Zenon DEF WriterInv, OneWriterOnly
(* A caller that is not being served moves on; the state may have changed.   *)
LEMMA CallerMoves ==
  ASSUME WriterInv, NEW c \in Savers, saver[c].pc # "waiting",
         NEW t \in SaverState, t.version <= memory',
         saver' = [saver EXCEPT ![c] = t], memory' \in Versions, memory <= memory',
         UNCHANGED <<writer, file, survivors, acked, promised, failures, crashes>>
  PROVE  WriterInv'
  <1>1. /\ saver \in [Savers -> SaverState] /\ saver'[c] = t
        /\ \A d \in Savers \ {c} : saver'[d] = saver[d]
    BY Zenon DEF WriterInv, WriterTypeOK
  <1>2. memory' \in Nat
    BY WriterConstants DEF Versions
  <1>3. WriterTypeOK'
    BY Zenon DEF WriterInv, WriterTypeOK
  <1>4. DiskInv'
    BY <1>1, <1>2, Numbers DEF WriterInv, DiskInv
  <1>5. JobInv'
    BY <1>1, Zenon DEF WriterInv, JobInv, Writing
  <1>6. CloseInv'
    <2>1. \A w \in Writers : promised[w] <= memory'
      BY <1>2, Numbers DEF WriterInv, CloseInv
    <2> QED
      BY <2>1, Zenon DEF WriterInv, CloseInv, Writing, Kept
  <1> QED
    BY <1>3, <1>4, <1>5, <1>6, Zenon DEF WriterInv, OneWriterOnly

LEMMA ChangeStep == ASSUME WriterInv, NEW c \in Savers, Change(c) PROVE WriterInv'
  <1> DEFINE t == [pc |-> "changed", version |-> memory + 1]
  <1>1. /\ saver[c].pc = "none" /\ memory < MaxChanges /\ memory' = memory + 1
        /\ saver' = [saver EXCEPT ![c] = t]
        /\ UNCHANGED <<writer, file, survivors, acked, promised, failures, crashes>>
    BY Zenon DEF Change
  <1>2. memory' \in Versions /\ memory <= memory' /\ t.version <= memory'
    BY <1>1, Numbers, WriterConstants DEF Versions
  <1>3. t \in SaverState
    BY <1>1, <1>2, Zenon DEF SaverState
  <1>4. saver[c].pc # "waiting"
    BY <1>1, Zenon
  <1> HIDE DEF t
  <1> QED
    BY <1>1, <1>2, <1>3, <1>4, CallerMoves, Zenon

LEMMA AskFlushStep == ASSUME WriterInv, NEW c \in Savers, AskFlush(c) PROVE WriterInv'
  <1>1. PICK t : t = [saver[c] EXCEPT !.pc = "asking"]
    BY Zenon
  <1>2. saver[c] \in SaverState /\ memory \in Versions /\ memory <= memory
    BY Numbers DEF WriterInv, WriterTypeOK
  <1>3. t \in SaverState /\ t.version = saver[c].version
    BY <1>1, <1>2, Zenon DEF SaverState
  <1>4. /\ saver[c].pc # "waiting" /\ memory' = memory /\ saver' = [saver EXCEPT ![c] = t]
        /\ UNCHANGED <<writer, file, survivors, acked, promised, failures, crashes>>
    BY <1>1, Zenon DEF AskFlush
  <1>5. memory' \in Versions /\ memory <= memory' /\ t.version <= memory'
    BY <1>2, <1>3, <1>4, Zenon DEF WriterInv, DiskInv
  <1> QED
    BY <1>3, <1>4, <1>5, CallerMoves, Zenon

LEMMA IdleIsSaver == IdleSaver \in SaverState /\ IdleSaver.version = 0 /\ IdleSaver.pc = "none"
  BY WriterConstants DEF IdleSaver, SaverState, Versions

LEMMA FlushClosedStep == ASSUME WriterInv, NEW c \in Savers, FlushClosed(c) PROVE WriterInv'
  <1>1. /\ saver[c].pc # "waiting" /\ memory' = memory /\ saver' = [saver EXCEPT ![c] = IdleSaver]
        /\ UNCHANGED <<writer, file, survivors, acked, promised, failures, crashes>>
    BY Zenon DEF FlushClosed
  <1>2. memory' \in Versions /\ memory <= memory' /\ IdleSaver.version <= memory'
    BY <1>1, IdleIsSaver, Numbers DEF WriterInv, WriterTypeOK
  <1> QED
    BY <1>1, <1>2, IdleIsSaver, CallerMoves, Zenon

LEMMA SubmitStep == ASSUME WriterInv, NEW c \in Savers, SubmitSave(c) PROVE WriterInv'
  <1> DEFINE w == WriterOf[c]
             p == IF writer[w].stop \/ saver[c].version < promised[w]
                  THEN promised[w] ELSE saver[c].version
  <1>1. PICK n : n = [writer[w] EXCEPT !.queued = TRUE]
    BY Zenon
  <1>2. w \in Writers /\ writer[w] \in WriterState
    BY WriterConstants, Zenon DEF WriterInv, WriterTypeOK
  <1>3. n \in WriterState
    BY <1>1, <1>2, Zenon DEF WriterState
  <1>4. /\ n.pc = writer[w].pc /\ n.queued = TRUE /\ n.stop = writer[w].stop
        /\ n.job = writer[w].job /\ n.snap = writer[w].snap
    BY <1>1, <1>2, Zenon DEF WriterState
  <1>5. /\ writer' = [writer EXCEPT ![w] = n]
        /\ promised' = [promised EXCEPT ![w] = p]
        /\ saver[c].pc = "changed" /\ saver' = [saver EXCEPT ![c] = IdleSaver]
        /\ UNCHANGED <<memory, file, survivors, acked, failures, crashes>>
    BY <1>1, Zenon DEF SubmitSave
  <1>6. /\ p \in Versions /\ p <= memory
        /\ writer[w].stop => p = promised[w]
    BY <1>2, Numbers, Zenon DEF WriterInv, WriterTypeOK, DiskInv, CloseInv, SaverState
  <1> HIDE DEF w, p
  <1>7. /\ writer' \in [Writers -> WriterState]
        /\ \A u \in Writers : u = w /\ writer'[u] = n
    BY <1>2, <1>3, <1>5, Turn, Zenon
  <1>8. promised' \in [Writers -> Versions] /\ promised'[w] = p
    BY <1>2, <1>5, <1>6, Zenon DEF WriterInv, WriterTypeOK
  <1>9. /\ saver' \in [Savers -> SaverState] /\ saver'[c] = IdleSaver
        /\ \A d \in Savers \ {c} : saver'[d] = saver[d]
    BY <1>5, IdleIsSaver, Zenon DEF WriterInv, WriterTypeOK
  <1>10. WriterTypeOK'
    BY <1>5, <1>7, <1>8, <1>9, Zenon DEF WriterInv, WriterTypeOK
  <1>11. DiskInv'
    BY <1>4, <1>5, <1>7, <1>9, IdleIsSaver, Numbers, SMTT(60) DEF WriterInv, DiskInv
  <1>12. JobInv'
    BY <1>4, <1>5, <1>7, <1>9, SMTT(60) DEF WriterInv, JobInv, Writing
  <1>13. CloseInv'
    BY <1>2, <1>4, <1>5, <1>6, <1>7, <1>8, SMTT(60) DEF WriterInv, CloseInv, Writing, Kept
  <1> QED
    BY <1>10, <1>11, <1>12, <1>13, Zenon DEF WriterInv, OneWriterOnly

LEMMA CloseWriterStep == ASSUME WriterInv, NEW w \in Writers, CloseWriter(w) PROVE WriterInv'
  <1>1. PICK n : n = [writer[w] EXCEPT !.stop = TRUE]
    BY Zenon
  <1>2. writer[w] \in WriterState
    BY Zenon DEF WriterInv, WriterTypeOK
  <1>3. n \in WriterState
    BY <1>1, <1>2, Zenon DEF WriterState
  <1>4. /\ n.pc = writer[w].pc /\ n.stop = TRUE /\ n.queued = writer[w].queued
        /\ n.dirty = writer[w].dirty
        /\ n.job = writer[w].job /\ n.snap = writer[w].snap
    BY <1>1, <1>2, Zenon DEF WriterState
  <1>5. /\ writer' = [writer EXCEPT ![w] = n]
        /\ UNCHANGED <<memory, saver, file, survivors, acked, promised, failures, crashes>>
    BY <1>1, Zenon DEF CloseWriter
  <1>6. /\ writer' \in [Writers -> WriterState]
        /\ \A u \in Writers : u = w /\ writer'[u] = n
    BY <1>3, <1>5, Turn, Zenon
  <1>7. WriterTypeOK'
    BY <1>5, <1>6, Zenon DEF WriterInv, WriterTypeOK
  <1>8. DiskInv'
    BY <1>4, <1>5, <1>6, ZenonT(60) DEF WriterInv, DiskInv
  <1>9. JobInv'
    BY <1>4, <1>5, <1>6, ZenonT(60) DEF WriterInv, JobInv, Writing
  <1>10. CloseInv'
    BY <1>4, <1>5, <1>6 DEF WriterInv, CloseInv, Writing, Kept
  <1> QED
    BY <1>7, <1>8, <1>9, <1>10, Zenon DEF WriterInv, OneWriterOnly
LEMMA StartWriteFields ==
  ASSUME NEW r \in WriterState, NEW why \in Savers \cup {"timer", "stop"}
  PROVE  LET n == StartWrite(r, why)
         IN  /\ n \in WriterState /\ n.pc = "snapshot" /\ n.job = why
             /\ n.queued = r.queued /\ n.stop = r.stop /\ n.snap = r.snap
  <1>1. PICK n : n = [r EXCEPT !.pc = "snapshot", !.dirty = FALSE, !.job = why]
    BY Zenon
  <1>2. n \in WriterState
    BY <1>1, Zenon DEF WriterState
  <1>3. /\ n.pc = "snapshot" /\ n.job = why
        /\ n.queued = r.queued /\ n.stop = r.stop /\ n.snap = r.snap
    BY <1>1, Zenon DEF WriterState
  <1> QED
    BY <1>1, <1>2, <1>3, Zenon DEF StartWrite

LEMMA Unarmed ==
  ASSUME NEW r \in WriterState
  PROVE  LET n == [r EXCEPT !.armed = FALSE]
         IN  /\ n \in WriterState /\ n.pc = r.pc /\ n.job = r.job /\ n.dirty = r.dirty
             /\ n.queued = r.queued /\ n.stop = r.stop /\ n.snap = r.snap
  <1>1. [r EXCEPT !.armed = FALSE] \in WriterState
    BY Zenon DEF WriterState
  <1> QED
    BY <1>1, Zenon DEF WriterState

LEMMA DelayOverStep == ASSUME WriterInv, NEW w \in Writers, DelayOver(w) PROVE WriterInv'
  <1> DEFINE off == [writer[w] EXCEPT !.armed = FALSE]
             n == IF off.dirty THEN StartWrite(off, "timer") ELSE off
  <1>1. writer[w] \in WriterState
    BY Zenon DEF WriterInv, WriterTypeOK
  <1>2. /\ off \in WriterState /\ off.pc = writer[w].pc /\ off.job = writer[w].job
        /\ off.dirty = writer[w].dirty /\ off.queued = writer[w].queued
        /\ off.stop = writer[w].stop /\ off.snap = writer[w].snap
    BY <1>1, Unarmed, Zenon
  <1>3. /\ writer[w].pc = "select" /\ writer' = [writer EXCEPT ![w] = n]
        /\ UNCHANGED <<memory, saver, file, survivors, acked, promised, failures, crashes>>
    BY Zenon DEF DelayOver
  <1> HIDE DEF off
  <1>4. /\ n \in WriterState /\ n.pc \in {"select", "snapshot"} /\ n.queued = writer[w].queued
        /\ n.job \notin {"stop"} \cup Savers \/ n.pc = "select"
        /\ n.pc = "snapshot" \/ n.dirty = writer[w].dirty
    <2>1. CASE off.dirty
      BY <1>2, <2>1, StartWriteFields, WriterConstants, ZenonT(60)
    <2>2. CASE ~off.dirty
      BY <1>2, <1>3, <2>2, Zenon
    <2> QED
      BY <2>1, <2>2, Zenon
  <1> HIDE DEF n
  <1>5. /\ writer' \in [Writers -> WriterState]
        /\ \A u \in Writers : u = w /\ writer'[u] = n
    BY <1>3, <1>4, Turn, Zenon
  <1>6. WriterTypeOK'
    BY <1>3, <1>5, Zenon DEF WriterInv, WriterTypeOK
  <1>7. DiskInv'
    BY <1>3, <1>4, <1>5, Zenon DEF WriterInv, DiskInv
  <1>8. JobInv'
    BY <1>3, <1>4, <1>5, Zenon DEF WriterInv, JobInv, Writing
  <1>9. CloseInv'
    BY <1>3, <1>4, <1>5, Zenon DEF WriterInv, CloseInv, Writing, Kept
  <1> QED
    BY <1>6, <1>7, <1>8, <1>9, Zenon DEF WriterInv, OneWriterOnly

LEMMA TakeFlushStep ==
  ASSUME WriterInv, NEW w \in Writers, NEW c \in Savers, TakeFlush(w, c)
  PROVE  WriterInv'
  <1> DEFINE off == [writer[w] EXCEPT !.armed = FALSE]
             n == StartWrite(off, c)
  <1>1. writer[w] \in WriterState /\ saver[c] \in SaverState
    BY Zenon DEF WriterInv, WriterTypeOK
  <1>2. off \in WriterState
    BY <1>1, Unarmed, Zenon
  <1>3. PICK t : t = [saver[c] EXCEPT !.pc = "waiting"]
    BY Zenon
  <1>4. /\ writer' = [writer EXCEPT ![w] = n] /\ saver' = [saver EXCEPT ![c] = t]
        /\ UNCHANGED <<memory, file, survivors, acked, promised, failures, crashes>>
    BY <1>3, Zenon DEF TakeFlush
  <1> HIDE DEF off
  <1>5. n \in WriterState /\ n.pc = "snapshot" /\ n.job = c
    BY <1>2, StartWriteFields, ZenonT(60)
  <1>6. t \in SaverState /\ t.pc = "waiting" /\ t.version = saver[c].version
    BY <1>1, <1>3, Zenon DEF SaverState
  <1> HIDE DEF n
  <1>7. /\ writer' \in [Writers -> WriterState]
        /\ \A u \in Writers : u = w /\ writer'[u] = n
    BY <1>4, <1>5, Turn, Zenon
  <1>8. /\ saver' \in [Savers -> SaverState] /\ saver'[c] = t
        /\ \A d \in Savers \ {c} : saver'[d] = saver[d]
    BY <1>4, <1>6, Zenon DEF WriterInv, WriterTypeOK
  <1>9. WriterTypeOK'
    BY <1>4, <1>7, <1>8, Zenon DEF WriterInv, WriterTypeOK
  <1>10. DiskInv'
    BY <1>4, <1>5, <1>6, <1>7, <1>8, Zenon DEF WriterInv, DiskInv
  <1>11. JobInv'
    BY <1>5, <1>6, <1>7, <1>8, Zenon DEF JobInv, Writing
  <1>12. CloseInv'
    BY <1>4, <1>5, <1>7, WriterConstants, Zenon DEF WriterInv, CloseInv, Writing, Kept
  <1> QED
    BY <1>9, <1>10, <1>11, <1>12, Zenon DEF WriterInv, OneWriterOnly

LEMMA LastWriteStep == ASSUME WriterInv, NEW w \in Writers, LastWrite(w) PROVE WriterInv'
  <1>1. writer[w] \in WriterState
    BY Zenon DEF WriterInv, WriterTypeOK
  <1> DEFINE drained == [writer[w] EXCEPT !.dirty = @ \/ writer[w].queued,
                                          !.queued = FALSE, !.armed = FALSE]
             n == IF drained.dirty THEN StartWrite(drained, "stop")
                  ELSE [drained EXCEPT !.pc = "done"]
  <1>2. /\ writer[w].pc = "select" /\ writer[w].stop
        /\ writer' = [writer EXCEPT ![w] = n]
        /\ UNCHANGED <<memory, saver, file, survivors, acked, promised, failures, crashes>>
    BY Zenon DEF LastWrite
  <1>3. drained \in WriterState
    <2>1. (writer[w].dirty \/ writer[w].queued) \in BOOLEAN
      BY Zenon
    <2> QED
      BY <1>1, <2>1, Zenon DEF WriterState
  <1>4. drained.dirty = (writer[w].dirty \/ writer[w].queued) /\ drained.stop = writer[w].stop
    BY <1>1, Zenon DEF WriterState
  <1> HIDE DEF drained
  <1>5. /\ n \in WriterState /\ n.stop = writer[w].stop
        /\ \/ n.pc = "snapshot" /\ n.job = "stop"
           \/ n.pc = "done" /\ ~writer[w].dirty /\ ~writer[w].queued
    <2>1. CASE drained.dirty
      <3>1. n = StartWrite(drained, "stop")
        BY <2>1, Zenon
      <3> HIDE DEF n
      <3>2. n \in WriterState /\ n.pc = "snapshot" /\ n.job = "stop" /\ n.stop = drained.stop
        BY <1>3, <3>1, StartWriteFields, Zenon
      <3> QED
        BY <1>4, <3>2, Zenon
    <2>2. CASE ~drained.dirty
      <3>1. n = [drained EXCEPT !.pc = "done"]
        BY <2>2, Zenon
      <3>2. n \in WriterState
        BY <1>3, <3>1, ZenonT(60) DEF WriterState
      <3>3. n.pc = "done" /\ n.stop = drained.stop
        BY <1>3, <3>1, ZenonT(60) DEF WriterState
      <3>4. ~writer[w].dirty /\ ~writer[w].queued
        BY <1>4, <2>2, Zenon
      <3> QED
        BY <1>4, <3>2, <3>3, <3>4, Zenon
    <2> QED
      BY <2>1, <2>2, Zenon
  <1> HIDE DEF n
  <1>6. /\ writer' \in [Writers -> WriterState]
        /\ \A u \in Writers : u = w /\ writer'[u] = n
    BY <1>2, <1>5, Turn, Zenon
  <1>7. WriterTypeOK'
    BY <1>2, <1>6, Zenon DEF WriterInv, WriterTypeOK
  <1>8. DiskInv'
    BY <1>2, <1>5, <1>6, Zenon DEF WriterInv, DiskInv
  <1>9. JobInv'
    BY <1>2, <1>5, <1>6, WriterConstants, Zenon DEF WriterInv, JobInv, Writing
  <1>10. CloseInv'
    BY <1>2, <1>5, <1>6, Zenon DEF WriterInv, CloseInv, Writing, Kept
  <1> QED
    BY <1>7, <1>8, <1>9, <1>10, Zenon DEF WriterInv, OneWriterOnly
LEMMA SnapshotStep == ASSUME WriterInv, NEW w \in Writers, Snapshot(w) PROVE WriterInv'
  <1>1. PICK n : n = [writer[w] EXCEPT !.pc = "rename", !.snap = memory]
    BY Zenon
  <1>2. writer[w] \in WriterState /\ memory \in Versions
    BY Zenon DEF WriterInv, WriterTypeOK
  <1>3. n \in WriterState
    BY <1>1, <1>2, Zenon DEF WriterState
  <1>4. /\ n.pc = "rename" /\ n.snap = memory /\ n.job = writer[w].job
        /\ n.stop = writer[w].stop
    BY <1>1, <1>2, Zenon DEF WriterState
  <1>5. /\ writer[w].pc = "snapshot" /\ writer' = [writer EXCEPT ![w] = n]
        /\ UNCHANGED <<memory, saver, file, survivors, acked, promised, failures, crashes>>
    BY <1>1, Zenon DEF Snapshot
  <1>6. /\ writer' \in [Writers -> WriterState]
        /\ \A u \in Writers : u = w /\ writer'[u] = n
    BY <1>3, <1>5, Turn, Zenon
  <1>7. WriterTypeOK'
    BY <1>5, <1>6, Zenon DEF WriterInv, WriterTypeOK
  <1>8. DiskInv'
    BY <1>4, <1>5, <1>6, Numbers, SMTT(60) DEF WriterInv, DiskInv
  <1>9. JobInv'
    BY <1>4, <1>5, <1>6, Zenon DEF WriterInv, JobInv, DiskInv, Writing
  <1>10. CloseInv'
    BY <1>4, <1>5, <1>6, Zenon DEF WriterInv, CloseInv, Writing, Kept
  <1> QED
    BY <1>7, <1>8, <1>9, <1>10, Zenon DEF WriterInv, OneWriterOnly

LEMMA RenameStep == ASSUME WriterInv, NEW w \in Writers, Rename(w) PROVE WriterInv'
  <1>1. PICK n : n = [writer[w] EXCEPT !.pc = "sync"]
    BY Zenon
  <1>2. writer[w] \in WriterState /\ writer[w].snap \in Versions
    BY Zenon DEF WriterInv, WriterTypeOK, WriterState
  <1>3. n \in WriterState
    BY <1>1, <1>2, Zenon DEF WriterState
  <1>4. /\ n.pc = "sync" /\ n.snap = writer[w].snap /\ n.job = writer[w].job
        /\ n.stop = writer[w].stop /\ n.queued = writer[w].queued /\ n.dirty = writer[w].dirty
    BY <1>1, <1>2, Zenon DEF WriterState
  <1>5. /\ writer[w].pc = "rename" /\ writer' = [writer EXCEPT ![w] = n]
        /\ file' = writer[w].snap /\ survivors' = survivors \cup {writer[w].snap}
        /\ UNCHANGED <<memory, saver, acked, promised, failures, crashes>>
    BY <1>1, Zenon DEF Rename
  <1>6. /\ writer' \in [Writers -> WriterState]
        /\ \A u \in Writers : u = w /\ writer'[u] = n
    BY <1>3, <1>5, Turn, Zenon
  <1>7. WriterTypeOK'
    BY <1>2, <1>5, <1>6, Zenon DEF WriterInv, WriterTypeOK
  <1>8. DiskInv'
    BY <1>4, <1>5, <1>6, Zenon DEF WriterInv, DiskInv
  <1>9. JobInv'
    BY <1>4, <1>5, <1>6, ZenonT(60) DEF WriterInv, JobInv, Writing
  <1>10. CloseInv'
    <2>1. file <= writer[w].snap
      BY <1>5, Zenon DEF WriterInv, DiskInv
    <2>2. \A p \in Nat : p <= file => p <= writer[w].snap
      BY <2>1, Numbers
    <2> QED
      BY <1>4, <1>5, <1>6, <2>2, Numbers, SMTT(60) DEF WriterInv, CloseInv, Writing, Kept
  <1> QED
    BY <1>7, <1>8, <1>9, <1>10, Zenon DEF WriterInv, OneWriterOnly

(* The end of a write, which succeeded with the snapshot on disk, or failed. *)
LEMMA ReturnStep ==
  ASSUME WriterInv, NEW w \in Writers, NEW ok \in BOOLEAN, WriteReturns(w, ok),
         writer[w].pc \in {"rename", "sync"},
         ok => writer[w].pc = "sync" /\ survivors' = {file} /\ failures' = failures,
         ~ok => survivors' = survivors /\ failures' = failures + 1 /\ failures < MaxFailures,
         UNCHANGED <<memory, file, promised, crashes>>
  PROVE  WriterInv'
  <1> DEFINE why == writer[w].job
             pc == IF why = "stop" THEN "done" ELSE "select"
             b == IF ok /\ why \in Savers /\ saver[why].version > acked
                  THEN saver[why].version ELSE acked
  <1>1. PICK n : n = [writer[w] EXCEPT !.job = "timer", !.pc = pc]
    BY Zenon
  <1>2. writer[w] \in WriterState
    BY Zenon DEF WriterInv, WriterTypeOK
  <1>3. n \in WriterState
    <2>1. pc \in {"select", "snapshot", "rename", "sync", "done"}
      BY Zenon
    <2> HIDE DEF pc
    <2> QED
      BY <1>1, <1>2, <2>1, Zenon DEF WriterState
  <1>4. /\ n.pc = pc /\ n.job = "timer" /\ n.stop = writer[w].stop
        /\ n.queued = writer[w].queued /\ n.dirty = writer[w].dirty
    BY <1>1, <1>2, Zenon DEF WriterState
  <1>5. /\ writer' = [writer EXCEPT ![w] = n]
        /\ saver' = [c \in Savers |-> IF c = why THEN IdleSaver ELSE saver[c]]
        /\ acked' = b
    BY <1>1, Zenon DEF WriteReturns
  <1>6. /\ writer' \in [Writers -> WriterState]
        /\ \A u \in Writers : u = w /\ writer'[u] = n
    BY <1>3, <1>5, Turn, Zenon
  <1>7. b \in Versions /\ b \in Nat /\ (~ok => b = acked) /\ (ok => b <= file)
    <2>1. acked \in Versions /\ \A c \in Savers : saver[c].version \in Versions
      BY Zenon DEF WriterInv, WriterTypeOK, SaverState
    <2>2. acked <= file
      BY Zenon DEF WriterInv, DiskInv
    <2>3. ok /\ why \in Savers => saver[why].version <= file
      BY Zenon DEF WriterInv, JobInv, DiskInv, Writing
    <2>4. b \in Versions
      BY <2>1, Zenon
    <2>5. b \in Nat
      BY <2>4, WriterConstants, SMTT(60) DEF Versions
    <2> QED
      BY <2>2, <2>3, <2>4, <2>5, Zenon
  <1>8. /\ saver' \in [Savers -> SaverState]
        /\ \A c \in Savers : saver'[c].version <= memory
    BY <1>5, IdleIsSaver, Numbers, SMTT(60) DEF WriterInv, WriterTypeOK, DiskInv
  <1>9. WriterTypeOK'
    <2>1. failures' \in 0..MaxFailures
      BY Numbers, WriterConstants DEF WriterInv, WriterTypeOK
    <2>2. survivors' \subseteq Versions /\ survivors' # {} /\ file \in Versions
      BY Zenon DEF WriterInv, WriterTypeOK
    <2> QED
      BY <1>5, <1>6, <1>7, <1>8, <2>1, <2>2, Zenon DEF WriterInv, WriterTypeOK
  <1>10. pc \in {"done", "select"} /\ (pc = "done" <=> why = "stop")
    BY Zenon
  <1> HIDE DEF pc, b
  <1>11. DiskInv'
    <2>1. file' \in survivors' /\ \A v \in survivors' : acked' <= v /\ v <= memory'
      BY <1>5, <1>7, Zenon DEF WriterInv, DiskInv
    <2> QED
      BY <1>4, <1>6, <1>8, <1>10, <2>1, Zenon DEF DiskInv
  <1>12. JobInv'
    BY <1>4, <1>6, <1>10, Zenon DEF JobInv, Writing
  <1>13. CloseInv'
    <2>1. ~ok => failures' # 0
      BY Numbers, SMTT(60)
    <2>2. ok => file = writer[w].snap
      BY Zenon DEF WriterInv, DiskInv
    <2>3. ok => failures' = failures
      BY Zenon
    <2>4. why = "stop" => writer[w].stop
      BY Zenon DEF WriterInv, CloseInv, Writing
    <2>5. \A u \in Writers : promised'[u] <= memory'
      BY Zenon DEF WriterInv, CloseInv
    <2>6. ASSUME failures' = 0
          PROVE  /\ pc = "select" => \/ promised[w] <= file
                                     \/ writer[w].queued \/ writer[w].dirty
                 /\ pc = "done" => promised[w] <= file
      BY <1>10, <2>1, <2>3, <2>6, Zenon DEF WriterInv, CloseInv, Kept
    <2> QED
      BY <1>4, <1>6, <1>10, <2>4, <2>5, <2>6, Zenon DEF CloseInv, Writing, Kept
  <1> QED
    BY <1>9, <1>11, <1>12, <1>13, Zenon DEF WriterInv, OneWriterOnly

LEMMA SyncStep == ASSUME WriterInv, NEW w \in Writers, SyncDirectory(w) PROVE WriterInv'
  <1>1. /\ writer[w].pc = "sync" /\ survivors' = {file} /\ failures' = failures
        /\ WriteReturns(w, TRUE) /\ UNCHANGED <<memory, file, promised, crashes>>
    BY Zenon DEF SyncDirectory
  <1> QED
    BY <1>1, ReturnStep, Zenon

LEMMA FailStep == ASSUME WriterInv, NEW w \in Writers, WriteFails(w) PROVE WriterInv'
  <1>1. /\ writer[w].pc \in {"rename", "sync"} /\ survivors' = survivors
        /\ failures' = failures + 1 /\ failures < MaxFailures
        /\ WriteReturns(w, FALSE) /\ UNCHANGED <<memory, file, promised, crashes>>
    BY Zenon DEF WriteFails
  <1> QED
    BY <1>1, ReturnStep, Zenon

LEMMA NewIsWriter ==
  /\ NewWriter \in WriterState /\ NewWriter.pc = "select"
  /\ 0 \in Versions /\ 0 \in Nat
  BY WriterConstants DEF NewWriter, WriterState, Versions

LEMMA CrashStep == ASSUME WriterInv, Crash PROVE WriterInv'
  <1>1. PICK v \in survivors : memory' = v /\ file' = v /\ survivors' = {v}
    BY Zenon DEF Crash
  <1>2. /\ writer' = [w \in Writers |-> NewWriter] /\ saver' = [c \in Savers |-> IdleSaver]
        /\ promised' = [w \in Writers |-> 0] /\ acked' = acked /\ failures' = failures
        /\ crashes' = crashes + 1 /\ crashes < MaxCrashes
    BY Zenon DEF Crash
  <1>3. v \in Versions /\ v \in Nat /\ acked <= v
    BY WriterConstants DEF WriterInv, WriterTypeOK, DiskInv, Versions
  <1>4. WriterTypeOK'
    <2>1. crashes' \in 0..MaxCrashes
      BY <1>2, WriterConstants DEF WriterInv, WriterTypeOK
    <2> QED
      BY <1>1, <1>2, <1>3, <2>1, NewIsWriter, IdleIsSaver, Zenon DEF WriterInv, WriterTypeOK
  <1>5. \A w \in Writers : writer'[w].pc = "select" /\ promised'[w] = 0
    BY <1>2, NewIsWriter, Zenon
  <1>6. DiskInv'
    BY <1>1, <1>2, <1>3, <1>5, IdleIsSaver, SMTT(60) DEF DiskInv
  <1>7. JobInv'
    BY <1>5, Zenon DEF JobInv, Writing
  <1>8. CloseInv'
    BY <1>1, <1>3, <1>5, SMTT(60) DEF CloseInv, Writing, Kept
  <1> QED
    BY <1>4, <1>6, <1>7, <1>8, Zenon DEF WriterInv, OneWriterOnly

-----------------------------------------------------------------------------
(* The inductive invariant of run and writeAdaptiveState with one writer.    *)
THEOREM WriterInvariant == OneWriterOnly /\ WriterSpec => []WriterInv
  <1>1. OneWriterOnly /\ WriterInit => WriterInv
    <2> SUFFICES ASSUME OneWriterOnly, WriterInit PROVE WriterInv
      BY Zenon
    <2>1. WriterTypeOK
      BY NewIsWriter, IdleIsSaver, WriterConstants DEF WriterInit, WriterTypeOK
    <2>2. \A w \in Writers : writer[w].pc = "select" /\ promised[w] = 0
      BY NewIsWriter, Zenon DEF WriterInit
    <2>3. DiskInv
      BY <2>2, IdleIsSaver, NewIsWriter, SMTT(60) DEF WriterInit, DiskInv
    <2>4. JobInv /\ CloseInv
      BY <2>2 DEF WriterInit, JobInv, CloseInv, Writing, Kept
    <2> QED
      BY <2>1, <2>3, <2>4, Zenon DEF WriterInv
  <1>2. WriterInv /\ [WriterNext]_writerVars => WriterInv'
    <2> SUFFICES ASSUME WriterInv, [WriterNext]_writerVars PROVE WriterInv'
      BY Zenon
    <2>1. CASE UNCHANGED writerVars
      BY <2>1, ZenonT(60) DEF writerVars, WriterInv, OneWriterOnly, WriterTypeOK, DiskInv, JobInv, CloseInv,
                  Writing, Kept
    <2>2. ASSUME NEW w \in Writers, WriterStep(w) PROVE WriterInv'
      BY <2>2, MarkDirtyStep, DelayOverStep, LastWriteStep, TakeFlushStep, SnapshotStep,
         RenameStep, SyncStep, Zenon DEF WriterStep
    <2>3. ASSUME NEW w \in Writers, WriteFails(w) \/ CloseWriter(w) PROVE WriterInv'
      BY <2>3, FailStep, CloseWriterStep, Zenon
    <2>4. ASSUME NEW c \in Savers,
                 Change(c) \/ SubmitSave(c) \/ AskFlush(c) \/ FlushClosed(c)
          PROVE  WriterInv'
      BY <2>4, ChangeStep, SubmitStep, AskFlushStep, FlushClosedStep, Zenon
    <2>5. CASE Crash
      BY <2>5, CrashStep, Zenon
    <2> QED
      BY <2>1, <2>2, <2>3, <2>4, <2>5, Zenon DEF WriterNext
  <1> QED
    BY <1>1, <1>2, PTL DEF WriterSpec

(* persistStateDurable: whatever it has reported as durable is in every file *)
(* that a crash may leave, for any number of callers, failures and crashes.  *)
THEOREM AckedDurableTheorem == OneWriterOnly /\ WriterSpec => []AckedDurable
  <1>1. WriterInv => AckedDurable
    BY Numbers, Zenon DEF WriterInv, DiskInv, AckedDurable
  <1> QED
    BY <1>1, WriterInvariant, PTL

(* Close: when the writer's goroutine has ended and no write failed, the     *)
(* file has every change that was submitted before Close.                    *)
THEOREM CloseSavesTheorem == OneWriterOnly /\ WriterSpec => []CloseSaves
  <1>1. WriterInv => CloseSaves
    BY Numbers, Zenon DEF WriterInv, CloseInv, CloseSaves
  <1> QED
    BY <1>1, WriterInvariant, PTL

-----------------------------------------------------------------------------
(* The DNS multiplexer. *)

(* Where a packet, its writer and its transaction stand. *)
MuxShape ==
    /\ MuxTypeOK
    /\ \A q \in Queries :
          /\ packet[q] \in {"prepared", "accepted"} => question[q] \in Questions
          /\ tracker[q] # "none" => packet[q] = "accepted"
          /\ tracker[q] # "open" => transactions[q] = {}
          /\ tracker[q] # "done" => batch[q] = {}

(* A responder is in one list at most: that of a transaction, of the writer  *)
(* that took one, or of whoever expired one.                                 *)
OneList ==
    \A q \in Queries :
        /\ \A t, u \in Queries : q \in transactions[t] /\ q \in transactions[u] => t = u
        /\ \A t, u \in Queries : q \in batch[t] /\ q \in batch[u] => t = u
        /\ \A e, f \in Expirers : q \in leftover[e] /\ q \in leftover[f] => e = f
        /\ \A t, u \in Queries : ~(q \in transactions[t] /\ q \in batch[u])
        /\ \A t \in Queries, e \in Expirers : ~(q \in transactions[t] /\ q \in leftover[e])
        /\ \A t \in Queries, e \in Expirers : ~(q \in batch[t] /\ q \in leftover[e])

Held(q) ==
    \/ \E t \in Queries : q \in transactions[t]
    \/ \E t \in Queries : q \in batch[t]
    \/ \E e \in Expirers : q \in leftover[e]

(* It is in a list exactly from its admission until its onClose is called.   *)
ClosedWhenLeft ==
    \A q \in Queries :
        /\ packet[q] = "accepted" => closes[q] = IF Held(q) THEN 0 ELSE 1
        /\ packet[q] \in {"new", "prepared"} => closes[q] = 0 /\ ~Held(q)
        /\ packet[q] = "rejected" => closes[q] \in {0, 1} /\ ~Held(q)

MuxInv == MuxShape /\ OneList /\ ClosedWhenLeft /\ TablesAgree

LEMMA MuxStart == MuxInit => MuxInv
  <1> SUFFICES ASSUME MuxInit PROVE MuxInv
      BY Zenon
  <1>1. Live = {} /\ Cardinality({}) = 0
      BY FS_EmptySet, Zenon DEF MuxInit, Live
  <1>2. MuxShape
      BY Zenon DEF MuxInit, MuxShape, MuxTypeOK, Expirers
  <1>3. OneList
      BY Zenon DEF MuxInit, OneList
  <1>4. ClosedWhenLeft
      BY Zenon DEF MuxInit, ClosedWhenLeft, Held
  <1>5. TablesAgree
      BY <1>1, MuxConstants DEF MuxInit, TablesAgree
  <1> QED BY <1>2, <1>3, <1>4, <1>5, Zenon DEF MuxInv

(* A finite set without a part of it. *)
LEMMA CardinalityWithout ==
    ASSUME NEW A, IsFiniteSet(A), NEW B \in SUBSET A
    PROVE  /\ IsFiniteSet(A \ B) /\ IsFiniteSet(B)
           /\ Cardinality(B) \in Nat /\ Cardinality(A) \in Nat
           /\ Cardinality(A \ B) = Cardinality(A) - Cardinality(B)
           /\ Cardinality(B) <= Cardinality(A)
  <1>1. IsFiniteSet(B) /\ IsFiniteSet(A \ B) /\ Cardinality(B) <= Cardinality(A)
      BY FS_Subset, Zenon
  <1>2. Cardinality((A \ B) \cup B) = Cardinality(A \ B) + Cardinality(B) - Cardinality((A \ B) \cap B)
      BY <1>1, FS_Union, Zenon
  <1>3. (A \ B) \cup B = A /\ (A \ B) \cap B = {}
      BY Zenon
  <1>4. /\ Cardinality(A) \in Nat /\ Cardinality(B) \in Nat /\ Cardinality(A \ B) \in Nat
        /\ Cardinality({}) = 0
      BY <1>1, FS_CardinalityType, FS_EmptySet, Zenon
  <1>5. Cardinality(A) = Cardinality(A \ B) + Cardinality(B) - 0
      BY <1>2, <1>3, <1>4, Zenon
  <1>6. Cardinality(A \ B) = Cardinality(A) - Cardinality(B)
      BY <1>4, <1>5
  <1> QED BY <1>1, <1>4, <1>6, Zenon

(* The transactions of a lane; and a transaction that is in the table. *)
LEMMA LiveFacts ==
    ASSUME MuxShape
    PROVE  /\ IsFiniteSet(Live) /\ Cardinality(Live) \in Nat
           /\ \A t \in Live : /\ t \in Queries /\ transactions[t] # {} /\ tracker[t] = "open"
                              /\ packet[t] = "accepted" /\ question[t] \in Questions
                              /\ Lane(t) \in Lanes
           /\ \A S \in SUBSET Live : IsFiniteSet(S) /\ Cardinality(S) \in Nat
  <1>1. IsFiniteSet(Live)
      BY FS_Subset, MuxConstants, Zenon DEF Live
  <1>2. \A S \in SUBSET Live : IsFiniteSet(S) /\ Cardinality(S) \in Nat
      BY <1>1, FS_Subset, FS_CardinalityType, Zenon
  <1>3. \A t \in Live : /\ t \in Queries /\ transactions[t] # {} /\ tracker[t] = "open"
                        /\ packet[t] = "accepted" /\ question[t] \in Questions
      BY Zenon DEF Live, MuxShape
  <1>4. \A t \in Live : Lane(t) \in Lanes
      BY <1>3, MuxConstants, Zenon DEF Lane
  <1> QED BY <1>1, <1>2, <1>3, <1>4, Zenon

(* A step that leaves the tables alone. *)
LEMMA TablesSame ==
    ASSUME MuxShape, TablesAgree, Live' = Live, UNCHANGED <<inflight, lanes>>,
           \A t \in Live : question'[t] = question[t],
           mux' = "purged" => mux = "purged"
    PROVE  TablesAgree'
  <1>1. \A t \in Live : Lane(t)' = Lane(t)
      BY Zenon DEF Lane
  <1>2. \A l \in Lanes : {t \in Live : Lane(t) = l}' = {t \in Live : Lane(t) = l}
      BY <1>1, Zenon
  <1> QED BY <1>1, <1>2, SMTT(60) DEF TablesAgree

(* A step that takes the transactions T out of the tables. *)
LEMMA TablesDrop ==
    ASSUME MuxShape, TablesAgree, NEW T \in SUBSET Live, DropTransactions(T),
           UNCHANGED question,
           \A l \in Lanes : \/ lanes'[l] = LanesWithout(T)[l]
                            \/ lanes'[l] = Nobody /\ LanesWithout(T)[l] = 0,
           mux' = "purged" => mux = "purged" \/ T = Live
    PROVE  /\ TablesAgree'
           /\ \A l \in Lanes : lanes'[l] \in Nat \cup {Nobody}
           /\ Live' = Live \ T
  <1>1. Live' = Live \ T
      BY Zenon DEF DropTransactions, Live
  <1>2. \A t \in Live : Lane(t)' = Lane(t)
      BY Zenon DEF Lane
  <1>3. ASSUME NEW l \in Lanes, LanesWithout(T)[l] # Nobody
        PROVE  /\ lanes[l] # Nobody /\ LanesWithout(T)[l] \in Nat
               /\ LanesWithout(T)[l] = Cardinality({t \in Live : Lane(t) = l}')
               /\ LanesWithout(T)[l] = 0 => {t \in Live : Lane(t) = l}' = {}
    <2> DEFINE A == {t \in Live : Lane(t) = l}
               B == {t \in T : Lane(t) = l}
    <2>1. IsFiniteSet(A) /\ B \in SUBSET A
        BY LiveFacts, Zenon
    <2>2. A' = A \ B
        BY <1>1, <1>2, Zenon
    <2>3. lanes[l] # Nobody /\ LanesWithout(T)[l] = lanes[l] - Cardinality(B)
        BY <1>3, Zenon DEF LanesWithout
    <2>4. lanes[l] = Cardinality(A)
        BY <2>3, Zenon DEF TablesAgree
    <2>5. /\ IsFiniteSet(A \ B) /\ Cardinality(A \ B) = Cardinality(A) - Cardinality(B)
          /\ Cardinality(A \ B) \in Nat
        BY <2>1, CardinalityWithout, FS_CardinalityType, Zenon
    <2>6. LanesWithout(T)[l] = Cardinality(A') /\ LanesWithout(T)[l] \in Nat
        BY <2>2, <2>3, <2>4, <2>5, Zenon
    <2>7. LanesWithout(T)[l] = 0 => A' = {}
        BY <2>2, <2>5, <2>6, FS_EmptySet, Zenon
    <2> QED BY <2>3, <2>6, <2>7, Zenon
  <1>4. \A d \in Questions : inflight'[d] # Nobody =>
            inflight'[d] \in Live' /\ question'[inflight'[d]] = d
      BY <1>1, Zenon DEF DropTransactions, TablesAgree
  <1>5. \A t \in Live' : inflight'[question'[t]] = t /\ lanes'[Lane(t)'] # Nobody
    <2> SUFFICES ASSUME NEW t \in Live'
                 PROVE  inflight'[question'[t]] = t /\ lanes'[Lane(t)'] # Nobody
        BY Zenon
    <2>1. t \in Live /\ t \notin T /\ Lane(t) \in Lanes /\ question[t] \in Questions
        BY <1>1, LiveFacts, Zenon
    <2>2. inflight'[question'[t]] = t
        BY <2>1, Zenon DEF DropTransactions, TablesAgree
    <2>3. LanesWithout(T)[Lane(t)] # Nobody
      <3>1. lanes[Lane(t)] # Nobody /\ lanes[Lane(t)] = Cardinality({u \in Live : Lane(u) = Lane(t)})
          BY <2>1, Zenon DEF TablesAgree
      <3>2. {u \in Live : Lane(u) = Lane(t)} \in SUBSET Live /\ {u \in T : Lane(u) = Lane(t)} \in SUBSET Live
          BY Zenon
      <3>3. lanes[Lane(t)] \in Nat /\ Cardinality({u \in T : Lane(u) = Lane(t)}) \in Nat
          BY <3>1, <3>2, LiveFacts, Zenon
      <3>4. Cardinality({u \in T : Lane(u) = Lane(t)}) <= Cardinality({u \in Live : Lane(u) = Lane(t)})
          BY <3>2, LiveFacts, CardinalityWithout, Zenon
      <3> QED BY <2>1, <3>1, <3>3, <3>4, MuxConstants, SMTT(60) DEF LanesWithout
    <2>4. LanesWithout(T)[Lane(t)] # 0
        BY <1>3, <2>1, <2>3, <1>2, Zenon
    <2> QED BY <2>1, <2>2, <2>3, <2>4, <1>2, Zenon
  <1>6. \A l \in Lanes : lanes'[l] # Nobody => lanes'[l] = Cardinality({t \in Live : Lane(t) = l}')
      BY <1>3, Zenon
  <1>7. Cardinality(Live') <= MaxTransactions
    <2>1. Live \ T \in SUBSET Live /\ IsFiniteSet(Live)
        BY LiveFacts, Zenon
    <2>2. /\ Cardinality(Live \ T) <= Cardinality(Live) /\ Cardinality(Live \ T) \in Nat
          /\ Cardinality(Live) \in Nat
        BY <2>1, CardinalityWithout, Zenon
    <2>3. Cardinality(Live') = Cardinality(Live \ T) /\ Cardinality(Live) <= MaxTransactions
        BY <1>1, Zenon DEF TablesAgree
    <2> QED BY <2>2, <2>3, MuxConstants, SMTT(60)
  <1>8. mux' = "purged" => Live' = {}
      BY <1>1, Zenon DEF TablesAgree
  <1>9. \A l \in Lanes : lanes'[l] \in Nat \cup {Nobody}
      BY <1>3, Zenon
  <1> QED BY <1>1, <1>4, <1>5, <1>6, <1>7, <1>8, <1>9, Zenon DEF TablesAgree

(* A packet comes; no list changes. *)
LEMMA PrepareInv ==
    ASSUME MuxInv, NEW q \in Queries, NEW d \in Asks[q], PreparePacket(q, d)
    PROVE  MuxInv'
  <1>1. /\ UNCHANGED <<transactions, inflight, lanes, tracker, batch, leftover, overdue, idle, mux>>
        /\ packet[q] \in {"new", "prepared"} /\ d \in Questions
        /\ \A r \in Queries : r # q => question'[r] = question[r]
      BY MuxConstants, SMTT(60) DEF PreparePacket, MuxInv, MuxShape, MuxTypeOK
  <1>2. Live' = Live /\ q \notin Live
      BY <1>1, LiveFacts, Zenon DEF Live, MuxInv
  <1>3. MuxShape'
      BY <1>1, SMTT(60) DEF MuxInv, MuxShape, MuxTypeOK, PreparePacket
  <1>4. OneList'
      BY <1>1, Zenon DEF MuxInv, OneList
  <1>5. ClosedWhenLeft'
    <2>1. \A r \in Queries : Held(r)' = Held(r)
        BY <1>1, Zenon DEF Held
    <2> QED BY <2>1, <1>1, SMTT(60) DEF MuxInv, MuxShape, MuxTypeOK, ClosedWhenLeft, PreparePacket
  <1>6. TablesAgree'
      BY <1>1, <1>2, TablesSame, LiveFacts, Zenon DEF MuxInv
  <1> QED BY <1>3, <1>4, <1>5, <1>6, ZenonT(60) DEF MuxInv

(* A packet is admitted: it enters the list of one transaction. *)
LEMMA EnterLists ==
    ASSUME MuxInv, NEW q \in Queries, NEW t \in Queries, packet[q] = "prepared",
           transactions' = [transactions EXCEPT ![t] = @ \cup {q}],
           packet' = [packet EXCEPT ![q] = "accepted"],
           UNCHANGED <<batch, leftover, closes>>
    PROVE  OneList' /\ ClosedWhenLeft'
  <1>1. ~Held(q) /\ closes[q] = 0
      BY Zenon DEF MuxInv, ClosedWhenLeft
  <1>2. \A r, u \in Queries : r \in transactions'[u] <=> r \in transactions[u] \/ (r = q /\ u = t)
      BY Zenon DEF MuxInv, MuxShape, MuxTypeOK
  <1>3. OneList'
      BY <1>1, <1>2, SMTT(60) DEF OneList, MuxInv, Held
  <1>4. \A r \in Queries : Held(r)' <=> Held(r) \/ r = q
      BY <1>2, Zenon DEF Held
  <1>5. ClosedWhenLeft'
      BY <1>1, <1>4, ZenonT(60) DEF ClosedWhenLeft, MuxInv, MuxShape, MuxTypeOK
  <1> QED BY <1>3, <1>5, Zenon

LEMMA FollowInv ==
    ASSUME MuxInv, NEW q \in Queries, Follow(q)
    PROVE  MuxInv'
  <1>1. PICK t : t = Existing(q)
      BY Zenon
  <1>2. question[q] \in Questions /\ t \in Queries /\ transactions[t] # {}
      BY <1>1, SMTT(60) DEF Follow, Coalesces, Existing, MuxInv, MuxShape, MuxTypeOK
  <1>3. /\ transactions' = [transactions EXCEPT ![t] = @ \cup {q}]
        /\ packet[q] = "prepared" /\ packet' = [packet EXCEPT ![q] = "accepted"]
        /\ UNCHANGED <<question, inflight, lanes, tracker, batch, leftover, closes, overdue, idle, mux>>
      BY <1>1, Zenon DEF Follow
  <1>4. Live' = Live
      BY <1>2, <1>3, Zenon DEF Live, MuxInv, MuxShape, MuxTypeOK
  <1>5. MuxShape'
      BY <1>2, <1>3, SMTT(60) DEF MuxInv, MuxShape, MuxTypeOK
  <1>6. TablesAgree'
      BY <1>3, <1>4, TablesSame, Zenon DEF MuxInv
  <1> QED BY <1>2, <1>3, <1>5, <1>6, EnterLists, Zenon DEF MuxInv

LEMMA AdmitInv ==
    ASSUME MuxInv, NEW q \in Queries, Admit(q)
    PROVE  MuxInv'
  <1>1. /\ packet[q] = "prepared" /\ question[q] \in Questions /\ tracker[q] = "none"
        /\ transactions[q] = {} /\ Lane(q) \in Lanes /\ q \notin Live
      BY MuxConstants, Zenon DEF Admit, MuxInv, MuxShape, Live, Lane
  <1>2. MuxShape'
    <2>1. lanes' \in [Lanes -> Nat \cup {Nobody}]
      <3>1. PICK n : n = IF lanes[Lane(q)] = Nobody THEN 1 ELSE lanes[Lane(q)] + 1
          BY Zenon
      <3>2. n \in Nat /\ lanes \in [Lanes -> Nat \cup {Nobody}]
          BY <3>1, <1>1 DEF MuxInv, MuxShape, MuxTypeOK
      <3>3. lanes' = [lanes EXCEPT ![Lane(q)] = n]
          BY <3>1, Zenon DEF Admit
      <3> QED BY <3>2, <3>3, Zenon
    <2> QED BY <1>1, <2>1, SMTT(60) DEF Admit, MuxInv, MuxShape, MuxTypeOK
  <1>3. transactions' = [transactions EXCEPT ![q] = @ \cup {q}]
      BY <1>1, ZenonT(60) DEF Admit, MuxInv, MuxShape, MuxTypeOK
  <1>4. OneList' /\ ClosedWhenLeft'
      BY <1>1, <1>3, EnterLists, Zenon DEF Admit
  <1>5. TablesAgree'
    <2>1. Live' = Live \cup {q}
      <3>1. \A u \in Queries : transactions'[u] = IF u = q THEN {q} ELSE transactions[u]
          BY Zenon DEF Admit, MuxInv, MuxShape, MuxTypeOK
      <3> QED BY <3>1, Zenon DEF Live
    <2>2. \A t \in Queries : Lane(t)' = Lane(t)
        BY Zenon DEF Admit, Lane
    <2>3. inflight[question[q]] = Nobody
        BY <1>1, Zenon DEF Admit, Coalesces, Existing, MuxInv, TablesAgree, Live
    <2>4. \A t \in Live : t \in Queries /\ question[t] \in Questions /\ question[t] # question[q]
        BY <2>3, LiveFacts, MuxConstants, SMTT(30) DEF MuxInv, TablesAgree
    <2>5. \A d \in Questions : inflight'[d] # Nobody =>
              inflight'[d] \in Live' /\ question'[inflight'[d]] = d
        BY <2>1, <1>1, SMTT(60) DEF Admit, MuxInv, MuxShape, MuxTypeOK, TablesAgree
    <2>6. \A t \in Live' : inflight'[question'[t]] = t /\ lanes'[Lane(t)'] # Nobody
      <3>1. \A t \in Live' : inflight'[question'[t]] = t
          BY <2>1, <2>4, <1>1, SMTT(60) DEF Admit, MuxInv, MuxShape, MuxTypeOK, TablesAgree
      <3>2. \A t \in Live : lanes[Lane(t)] # Nobody /\ Lane(t) \in Lanes
          BY LiveFacts, Zenon DEF MuxInv, TablesAgree
      <3>3. \A t \in Live' : lanes'[Lane(t)] # Nobody
          BY <3>2, <2>1, <1>1, MuxConstants, SMTT(60) DEF Admit, MuxInv, MuxShape, MuxTypeOK
      <3> QED BY <3>1, <3>3, <2>1, <2>2, <2>4, SMTT(60)
    <2>7. ASSUME NEW l \in Lanes, lanes'[l] # Nobody
          PROVE  lanes'[l] = Cardinality({t \in Live : Lane(t) = l}')
      <3> DEFINE A == {t \in Live : Lane(t) = l}
      <3>1. A' = IF l = Lane(q) THEN A \cup {q} ELSE A
          BY <2>1, <2>2, <2>4, Zenon
      <3>2. IsFiniteSet(A) /\ q \notin A
          BY <1>1, LiveFacts, Zenon DEF MuxInv
      <3>3. Cardinality(A \cup {q}) = Cardinality(A) + 1
          BY <3>2, FS_AddElement, Zenon
      <3>4. lanes[l] # Nobody => lanes[l] = Cardinality(A)
          BY Zenon DEF MuxInv, TablesAgree
      <3>5. lanes[l] = Nobody => A = {}
          BY SMTT(60) DEF MuxInv, TablesAgree
      <3>6. lanes'[l] = IF l = Lane(q) THEN IF lanes[l] = Nobody THEN 1 ELSE lanes[l] + 1
                        ELSE lanes[l]
          BY <1>1, ZenonT(60) DEF Admit, MuxInv, MuxShape, MuxTypeOK
      <3>7. CASE l # Lane(q)
          BY <2>7, <3>1, <3>4, <3>6, <3>7, Zenon
      <3>8. CASE l = Lane(q) /\ lanes[l] # Nobody
          BY <3>1, <3>3, <3>4, <3>6, <3>8, Zenon
      <3>9. CASE l = Lane(q) /\ lanes[l] = Nobody
        <4>1. Cardinality(A) = 0
            BY <3>5, <3>9, FS_EmptySet, Zenon
        <4>2. Cardinality(A \cup {q}) = 1
            BY <4>1, <3>3
        <4> QED BY <4>2, <3>1, <3>6, <3>9, Zenon
      <3> QED BY <3>7, <3>8, <3>9, Zenon
    <2>8. Cardinality(Live') <= MaxTransactions /\ mux' # "purged"
      <3>1. mux = "open" /\ mux' = mux /\ ~(Cardinality(Live) >= MaxTransactions)
          BY Zenon DEF Admit, Refused
      <3>2. Cardinality(Live \cup {q}) = Cardinality(Live) + 1 /\ Cardinality(Live) \in Nat
          BY <1>1, LiveFacts, FS_AddElement, Zenon DEF MuxInv
      <3> QED BY <3>1, <3>2, <2>1, MuxConstants
    <2> QED BY <2>5, <2>6, <2>7, <2>8, Zenon DEF TablesAgree
  <1> QED BY <1>2, <1>4, <1>5, Zenon DEF MuxInv

LEMMA TakeInv ==
    ASSUME MuxInv, NEW t \in Queries, Take(t)
    PROVE  MuxInv'
  <1>1. batch[t] = {} /\ tracker[t] = "open"
      BY Zenon DEF Take, MuxInv, MuxShape
  <1>2. \A u \in Queries : transactions'[u] = IF u = t THEN {} ELSE transactions[u]
      BY Zenon DEF Take, DropTransactions, Live
  <1>3. \A u \in Queries : batch'[u] = IF u = t THEN transactions[t] ELSE batch[u]
      BY Zenon DEF Take, MuxInv, MuxShape, MuxTypeOK
  <1>4. UNCHANGED <<question, packet, leftover, closes, mux>>
      BY Zenon DEF Take
  <1>5. TablesAgree' /\ \A l \in Lanes : lanes'[l] \in Nat \cup {Nobody}
    <2>1. /\ {t} \cap Live \in SUBSET Live /\ DropTransactions({t} \cap Live)
          /\ lanes' = LanesWithout({t} \cap Live)
        BY Zenon DEF Take
    <2> QED BY <2>1, <1>4, TablesDrop, Zenon DEF MuxInv
  <1>6. MuxShape'
    <2>1. lanes' \in [Lanes -> Nat \cup {Nobody}]
        BY <1>5, Zenon DEF Take, LanesWithout
    <2> QED BY <2>1, <1>1, <1>2, <1>4, ZenonT(60) DEF Take, DropTransactions, MuxInv, MuxShape, MuxTypeOK
  <1>7. OneList'
      BY <1>1, <1>2, <1>3, <1>4, SMTT(60) DEF MuxInv, OneList
  <1>8. \A q \in Queries : Held(q)' <=> Held(q)
      BY <1>1, <1>2, <1>3, <1>4, Zenon DEF Held
  <1>9. ClosedWhenLeft'
      BY <1>4, <1>8, Zenon DEF MuxInv, ClosedWhenLeft
  <1> QED BY <1>5, <1>6, <1>7, <1>9, Zenon DEF MuxInv

(* Expire moves the responders of the transactions that it takes out. *)
LEMMA ExpireInv ==
    ASSUME MuxInv, NEW e \in Expirers, NEW all \in BOOLEAN, Expire(e, all),
           mux' \in {"open", "closed", "purged"},
           mux' = "purged" => mux = "purged" \/ all
    PROVE  MuxInv'
  <1>1. PICK expired : expired = IF all THEN Live ELSE Live \cap overdue
      BY Zenon
  <1>2. PICK gone : gone = {l \in Lanes : LanesWithout(expired)[l] = 0 /\ (all \/ l \in idle)}
      BY Zenon
  <1>3. /\ leftover[e] = {}
        /\ leftover' = [leftover EXCEPT ![e] = UNION {transactions[t] : t \in expired}]
        /\ DropTransactions(expired)
        /\ lanes' = [l \in Lanes |-> IF l \in gone THEN Nobody ELSE LanesWithout(expired)[l]]
        /\ idle' = idle \ gone
        /\ UNCHANGED <<question, packet, tracker, batch, closes>>
      BY <1>1, <1>2, Zenon DEF Expire
  <1>4. expired \in SUBSET Live /\ (all => expired = Live)
      BY <1>1, Zenon
  <1>5. \A u \in Queries : transactions'[u] = IF u \in expired THEN {} ELSE transactions[u]
      BY <1>3, Zenon DEF DropTransactions
  <1>6. /\ \A f \in Expirers : f # e => leftover'[f] = leftover[f]
        /\ \A q \in Queries : q \in leftover'[e] <=> \E t \in expired : q \in transactions[t]
      BY <1>3, SMTT(60) DEF MuxInv, MuxShape, MuxTypeOK
  <1>7. TablesAgree' /\ \A l \in Lanes : lanes'[l] \in Nat \cup {Nobody}
    <2>1. \A l \in Lanes : \/ lanes'[l] = LanesWithout(expired)[l]
                           \/ lanes'[l] = Nobody /\ LanesWithout(expired)[l] = 0
        BY <1>2, <1>3, Zenon
    <2> QED BY <2>1, <1>3, <1>4, TablesDrop, Zenon DEF MuxInv
  <1>8. MuxShape'
    <2>1. lanes' \in [Lanes -> Nat \cup {Nobody}]
        BY <1>3, <1>7, Zenon
    <2>2. leftover' \in [Expirers -> SUBSET Queries]
        BY <1>3, <1>4, SMTT(60) DEF MuxInv, MuxShape, MuxTypeOK, Live
    <2>3. /\ transactions' \in [Queries -> SUBSET Queries]
          /\ inflight' \in [Questions -> Queries \cup {Nobody}] /\ overdue' \subseteq Queries
        BY <1>3, Zenon DEF DropTransactions, MuxInv, MuxShape, MuxTypeOK
    <2> QED BY <2>1, <2>2, <2>3, <1>3, <1>5, Zenon DEF MuxInv, MuxShape, MuxTypeOK
  <1>9. OneList'
    <2>0. expired \in SUBSET Queries
        BY <1>4, Zenon DEF Live
    <2>1. \A q, t, u \in Queries : q \in transactions'[t] /\ q \in transactions'[u] => t = u
        BY <1>5, Zenon DEF MuxInv, OneList
    <2>2. \A q, t, u \in Queries : q \in batch'[t] /\ q \in batch'[u] => t = u
        BY <1>3, Zenon DEF MuxInv, OneList
    <2>3. \A q \in Queries : \A f, g \in Expirers : q \in leftover'[f] /\ q \in leftover'[g] => f = g
        BY <1>6, <2>0, SMTT(60) DEF MuxInv, OneList
    <2>4. \A q, t, u \in Queries : ~(q \in transactions'[t] /\ q \in batch'[u])
        BY <1>3, <1>5, Zenon DEF MuxInv, OneList
    <2>5. \A q, t \in Queries, f \in Expirers : ~(q \in transactions'[t] /\ q \in leftover'[f])
        BY <1>5, <1>6, <2>0, ZenonT(60) DEF MuxInv, OneList
    <2>6. \A q, t \in Queries, f \in Expirers : ~(q \in batch'[t] /\ q \in leftover'[f])
        BY <1>3, <1>6, <2>0, SMTT(30) DEF MuxInv, OneList
    <2> QED BY <2>1, <2>2, <2>3, <2>4, <2>5, <2>6, Zenon DEF OneList
  <1>10. \A q \in Queries : Held(q)' <=> Held(q)
    <2>0. expired \in SUBSET Queries
        BY <1>4, Zenon DEF Live
    <2> SUFFICES ASSUME NEW q \in Queries PROVE Held(q)' <=> Held(q)
        BY Zenon
    <2>1. ASSUME Held(q) PROVE Held(q)'
        BY <2>1, <1>3, <1>5, <1>6, Zenon DEF Held
    <2>2. ASSUME Held(q)' PROVE Held(q)
        BY <2>0, <2>2, <1>3, <1>5, <1>6, Zenon DEF Held
    <2> QED BY <2>1, <2>2, Zenon
  <1>11. ClosedWhenLeft'
      BY <1>3, <1>10, Zenon DEF MuxInv, ClosedWhenLeft
  <1> QED BY <1>7, <1>8, <1>9, <1>11, Zenon DEF MuxInv

(* The onClose of every responder of a list is called, and the list is gone. *)
LEMMA CloseListInv ==
    ASSUME MuxInv, NEW Q \in SUBSET Queries, closes' = Closed(Q),
           \A q \in Q : Held(q),
           batch' \in [Queries -> SUBSET Queries], leftover' \in [Expirers -> SUBSET Queries],
           \A t \in Queries : batch'[t] \subseteq batch[t],
           \A e \in Expirers : leftover'[e] \subseteq leftover[e],
           \A q \in Queries : Held(q)' <=> Held(q) /\ q \notin Q,
           UNCHANGED <<question, packet, transactions, inflight, lanes, tracker, overdue, idle, mux>>
    PROVE  MuxInv'
  <1>1. Live' = Live
      BY Zenon DEF Live
  <1>2. TablesAgree'
      BY <1>1, TablesSame, ZenonT(60) DEF MuxInv
  <1>3. MuxShape'
      BY SMTT(60) DEF MuxInv, MuxShape, MuxTypeOK, Closed
  <1>4. OneList'
      BY ZenonT(60) DEF MuxInv, OneList
  <1>5. ClosedWhenLeft'
      BY SMTT(60) DEF MuxInv, MuxShape, MuxTypeOK, ClosedWhenLeft, Closed
  <1> QED BY <1>2, <1>3, <1>4, <1>5, Zenon DEF MuxInv

LEMMA MuxStep == MuxInv /\ [MuxNext]_muxVars => MuxInv'
  <1> SUFFICES ASSUME MuxInv, [MuxNext]_muxVars PROVE MuxInv'
      BY Zenon
  <1>1. ASSUME NEW q \in Queries, NEW d \in Asks[q], PreparePacket(q, d) PROVE MuxInv'
      BY <1>1, PrepareInv, Zenon
  <1>2. ASSUME NEW q \in Queries, Refuse(q) PROVE MuxInv'
    <2>1. /\ UNCHANGED <<question, transactions, inflight, lanes, tracker, batch, leftover, overdue, idle, mux>>
          /\ packet[q] = "prepared"
        BY <1>2, Zenon DEF Refuse
    <2>2. MuxShape'
        BY <2>1, <1>2, SMTT(60) DEF MuxInv, MuxShape, MuxTypeOK, Refuse
    <2>3. OneList'
        BY <2>1, ZenonT(60) DEF MuxInv, OneList
    <2>4. \A r \in Queries : Held(r)' = Held(r)
        BY <2>1, Zenon DEF Held
    <2>5. ClosedWhenLeft'
        BY <2>1, <2>4, <1>2, SMTT(60) DEF MuxInv, MuxShape, MuxTypeOK, ClosedWhenLeft, Refuse
    <2>6. TablesAgree'
        BY <2>1, TablesSame, Zenon DEF MuxInv, Live
    <2> QED BY <2>2, <2>3, <2>5, <2>6, Zenon DEF MuxInv
  <1>3. ASSUME NEW q \in Queries, Follow(q) \/ Admit(q) PROVE MuxInv'
      BY <1>3, FollowInv, AdmitInv, Zenon
  <1>4. ASSUME NEW t \in Queries, Take(t) PROVE MuxInv'
      BY <1>4, TakeInv, Zenon
  <1>5. ASSUME NEW t \in Queries, AnswerResponders(t) PROVE MuxInv'
    <2>1. PICK Q : Q = batch[t]
        BY Zenon
    <2>2. /\ closes' = Closed(Q) /\ batch' = [batch EXCEPT ![t] = {}]
          /\ UNCHANGED <<question, packet, transactions, inflight, lanes, tracker, leftover,
                         overdue, idle, mux>>
        BY <2>1, <1>5, Zenon DEF AnswerResponders
    <2>3. /\ batch \in [Queries -> SUBSET Queries] /\ leftover \in [Expirers -> SUBSET Queries]
          /\ Q \in SUBSET Queries
        BY <2>1, Zenon DEF MuxInv, MuxShape, MuxTypeOK
    <2>4. \A q \in Q : Held(q)
        BY <2>1, Zenon DEF Held
    <2>5. /\ batch' \in [Queries -> SUBSET Queries]
          /\ \A u \in Queries : batch'[u] = IF u = t THEN {} ELSE batch[u]
        BY <2>2, <2>3, Zenon
    <2>6. \A q \in Queries : Held(q)' <=> Held(q) /\ q \notin Q
        BY <2>1, <2>2, <2>5, Zenon DEF Held, MuxInv, OneList
    <2>7. /\ \A u \in Queries : batch'[u] \subseteq batch[u]
          /\ \A e \in Expirers : leftover'[e] \subseteq leftover[e]
          /\ leftover' \in [Expirers -> SUBSET Queries]
        BY <2>2, <2>3, <2>5, Zenon
    <2> QED BY <2>2, <2>3, <2>4, <2>5, <2>6, <2>7, CloseListInv, Zenon
  <1>6. ASSUME NEW e \in Expirers, CloseExpired(e) PROVE MuxInv'
    <2>1. PICK Q : Q = leftover[e]
        BY Zenon
    <2>2. /\ closes' = Closed(Q) /\ leftover' = [leftover EXCEPT ![e] = {}]
          /\ UNCHANGED <<question, packet, transactions, inflight, lanes, tracker, batch,
                         overdue, idle, mux>>
        BY <2>1, <1>6, Zenon DEF CloseExpired
    <2>3. /\ batch \in [Queries -> SUBSET Queries] /\ leftover \in [Expirers -> SUBSET Queries]
          /\ Q \in SUBSET Queries
        BY <2>1, Zenon DEF MuxInv, MuxShape, MuxTypeOK
    <2>4. \A q \in Q : Held(q)
        BY <2>1, Zenon DEF Held
    <2>5. /\ leftover' \in [Expirers -> SUBSET Queries]
          /\ \A f \in Expirers : leftover'[f] = IF f = e THEN {} ELSE leftover[f]
        BY <2>2, <2>3, Zenon
    <2>6. \A q \in Queries : Held(q)' <=> Held(q) /\ q \notin Q
        BY <2>1, <2>2, <2>5, ZenonT(60) DEF Held, MuxInv, OneList
    <2>7. /\ \A u \in Queries : batch'[u] \subseteq batch[u]
          /\ \A f \in Expirers : leftover'[f] \subseteq leftover[f]
          /\ batch' \in [Queries -> SUBSET Queries]
        BY <2>2, <2>3, <2>5, Zenon
    <2> QED BY <2>2, <2>3, <2>4, <2>5, <2>6, <2>7, CloseListInv, ZenonT(60)
  <1>7. CASE Reap \/ PurgeOnUpdate \/ PurgeOnClose
    <2>1. "reaper" \in Expirers /\ "update" \in Expirers /\ "close" \in Expirers
        BY Zenon DEF Expirers
    <2>2. mux \in {"open", "closed", "purged"}
        BY Zenon DEF MuxInv, MuxShape, MuxTypeOK
    <2> QED BY <2>1, <2>2, <1>7, ExpireInv, Zenon DEF Reap, PurgeOnUpdate, PurgeOnClose
  <1>8. CASE CloseMux \/ Elapse \/ UNCHANGED muxVars
    <2>1. /\ UNCHANGED <<question, packet, transactions, inflight, lanes, tracker, batch, leftover, closes>>
          /\ mux' = "purged" => mux = "purged"
        BY <1>8, Zenon DEF CloseMux, Elapse, muxVars
    <2>2. overdue' \subseteq Queries /\ idle' \subseteq Lanes /\ mux' \in {"open", "closed", "purged"}
        BY <1>8, Zenon DEF CloseMux, Elapse, muxVars, MuxInv, MuxShape, MuxTypeOK, Live
    <2>3. MuxShape' /\ OneList'
        BY <2>1, <2>2, Zenon DEF MuxInv, MuxShape, MuxTypeOK, OneList
    <2>4. ClosedWhenLeft'
        BY <2>1, Zenon DEF MuxInv, ClosedWhenLeft, Held
    <2>5. TablesAgree'
        BY <2>1, TablesSame, Zenon DEF MuxInv, Live
    <2> QED BY <2>3, <2>4, <2>5, Zenon DEF MuxInv
  <1> QED BY <1>1, <1>2, <1>3, <1>4, <1>5, <1>6, <1>7, <1>8, Zenon DEF MuxNext

(* The tables of the multiplexer, the lists of responders and the calls of   *)
(* onClose agree in every reachable state.                                   *)
THEOREM MuxInvariant == MuxSpec => []MuxInv
  BY MuxStart, MuxStep, PTL DEF MuxSpec

(* The onClose of an accepted packet is called once, however its transaction *)
(* ends (take, expire, Purge and Close of service.go).                       *)
THEOREM ClosedOnceTheorem == MuxSpec => []ClosedOnce
  <1>1. MuxInv => ClosedOnce
    <2> SUFFICES ASSUME MuxInv, NEW q \in Queries
                 PROVE  /\ Held(q) => \E c \in ClosersOf(q) : ClosersOf(q) = {c}
                        /\ ~Held(q) => ClosersOf(q) = {}
        BY Zenon DEF MuxInv, ClosedWhenLeft, ClosedOnce
    <2>1. ~Held(q) => ClosersOf(q) = {}
        BY Zenon DEF Held, ClosersOf
    <2>2. ASSUME NEW t \in Queries, q \in transactions[t] PROVE ClosersOf(q) = {<<"table", t>>}
        BY <2>2, Zenon DEF MuxInv, OneList, ClosersOf
    <2>3. ASSUME NEW t \in Queries, q \in batch[t] PROVE ClosersOf(q) = {<<"writer", t>>}
        BY <2>3, Zenon DEF MuxInv, OneList, ClosersOf
    <2>4. ASSUME NEW e \in Expirers, q \in leftover[e] PROVE ClosersOf(q) = {<<"expire", e>>}
        BY <2>4, Zenon DEF MuxInv, OneList, ClosersOf
    <2> QED BY <2>1, <2>2, <2>3, <2>4, Zenon DEF Held
  <1> QED BY <1>1, MuxInvariant, PTL

(* The maps of the multiplexer agree, its limits hold, and nothing enters    *)
(* after the final purge (NewPacket, take, expire and Close).                *)
THEOREM TablesAgreeTheorem == MuxSpec => []TablesAgree
  <1>1. MuxInv => TablesAgree
      BY Zenon DEF MuxInv
  <1> QED BY <1>1, MuxInvariant, PTL
=============================================================================
