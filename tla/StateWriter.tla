----------------------------- MODULE StateWriter -----------------------------
(***************************************************************************)
(* The state file of an adaptive group (state_persistence.go): the writer  *)
(* goroutine of each pool, which saves after a delay, at once for Flush,   *)
(* and a last time at Close; and the pool's callers, which change the      *)
(* shared identity and control state and then persist it.                  *)
(*                                                                         *)
(* The state in memory is a version that every change increases.  It is    *)
(* shared by the pools of a group (runtime manager, control state), and so *)
(* is the path.  writeAdaptiveState is three steps: the snapshot is taken, *)
(* the synced temporary file is renamed to the path, the directory is      *)
(* synced.  A crash between the last two leaves the old or the new file.   *)
(***************************************************************************)
EXTENDS Naturals

CONSTANTS
    Writers,     \* the pools of the group that have a writer
    Savers,      \* callers of persistState and persistStateDurable
    WriterOf,    \* the writer of each caller's pool
    MaxChanges,  \* bound: the version in memory
    MaxFailures, \* bound: writes that fail
    MaxCrashes   \* bound: crashes of the process

ASSUME WriterConstants ==
    /\ WriterOf \in [Savers -> Writers]
    /\ MaxChanges \in Nat /\ MaxFailures \in Nat /\ MaxCrashes \in Nat
    /\ \A c \in Savers : c \notin {"timer", "stop"}

VARIABLES
    memory,    \* version of the identity and control state
    writer,    \* each writer's goroutine and channels
    saver,     \* each caller: progress and the version it has to persist
    file,      \* version of the file at the path
    survivors, \* versions the file may have after a crash
    acked,     \* the highest version a Flush has reported as durable
    promised,  \* per writer: highest version submitted before Close
    failures,  \* failed writes, and crashes
    crashes

writerVars == <<memory, writer, saver, file, survivors, acked, promised, failures, crashes>>

Versions == 0..MaxChanges

(* queued: the channel w.dirty holds an item; dirty: the local variable of   *)
(* run; armed: timerChannel is not nil; stop: the channel w.stop is closed.  *)
(* job: why the goroutine writes.                                            *)
WriterState ==
    [pc : {"select", "snapshot", "rename", "sync", "done"},
     queued : BOOLEAN, dirty : BOOLEAN, armed : BOOLEAN, stop : BOOLEAN,
     job : Savers \cup {"timer", "stop"}, snap : Versions]
NewWriter ==
    [pc |-> "select", queued |-> FALSE, dirty |-> FALSE, armed |-> FALSE, stop |-> FALSE,
     job |-> "timer", snap |-> 0]

SaverState == [pc : {"none", "changed", "asking", "waiting"}, version : Versions]
IdleSaver == [pc |-> "none", version |-> 0]

WriterInit ==
    /\ memory = 0 /\ file = 0 /\ survivors = {0} /\ acked = 0
    /\ writer = [w \in Writers |-> NewWriter]
    /\ saver = [c \in Savers |-> IdleSaver]
    /\ promised = [w \in Writers |-> 0]
    /\ failures = 0 /\ crashes = 0

-----------------------------------------------------------------------------
(* The callers.  A change is made under the locks of its owner and then      *)
(* persisted: a control change by persistState, which only marks the writer, *)
(* an identity by persistStateDurable, which waits for the write.            *)
Change(c) ==
    /\ saver[c].pc = "none" /\ memory < MaxChanges
    /\ memory' = memory + 1
    /\ saver' = [saver EXCEPT ![c] = [pc |-> "changed", version |-> memory + 1]]
    /\ UNCHANGED <<writer, file, survivors, acked, promised, failures, crashes>>

(* Submit: an item in the channel stands for any number of changes.          *)
SubmitSave(c) ==
    /\ saver[c].pc = "changed"
    /\ LET w == WriterOf[c] IN
       /\ writer' = [writer EXCEPT ![w] = [@ EXCEPT !.queued = TRUE]]
       /\ promised' = [promised EXCEPT ![w] =
                           IF writer[w].stop \/ saver[c].version < promised[w]
                           THEN promised[w] ELSE saver[c].version]
    /\ saver' = [saver EXCEPT ![c] = IdleSaver]
    /\ UNCHANGED <<memory, file, survivors, acked, failures, crashes>>

(* Flush, until the writer takes the request or is found closed.             *)
AskFlush(c) ==
    /\ saver[c].pc = "changed"
    /\ saver' = [saver EXCEPT ![c] = [@ EXCEPT !.pc = "asking"]]
    /\ UNCHANGED <<memory, writer, file, survivors, acked, promised, failures, crashes>>

(* A plausible bug: Flush does not look at w.done.                           *)
FlushClosedUnseen(c) ==
    /\ saver[c].pc = "asking" /\ writer[WriterOf[c]].pc = "done"
    /\ UNCHANGED writerVars

FlushClosed(c) ==
    /\ saver[c].pc = "asking" /\ writer[WriterOf[c]].pc = "done"
    /\ saver' = [saver EXCEPT ![c] = IdleSaver]
    /\ UNCHANGED <<memory, writer, file, survivors, acked, promised, failures, crashes>>

(* Close of the writer, at the end of AdaptivePool.Close.                    *)
CloseWriter(w) ==
    /\ ~writer[w].stop
    /\ writer' = [writer EXCEPT ![w] = [@ EXCEPT !.stop = TRUE]]
    /\ UNCHANGED <<memory, saver, file, survivors, acked, promised, failures, crashes>>

-----------------------------------------------------------------------------
(* run: the cases of the select.                                             *)

(* A plausible bug: the timer is armed only the first time.                  *)
MarkDirtyUnarmed(w) ==
    /\ writer[w].pc = "select" /\ writer[w].queued
    /\ writer' = [writer EXCEPT ![w] = [@ EXCEPT !.queued = FALSE, !.dirty = TRUE,
                        !.armed = writer[w].armed \/ writer[w].snap = 0]]
    /\ UNCHANGED <<memory, saver, file, survivors, acked, promised, failures, crashes>>

(* case <-w.dirty: the timer is armed unless it already runs.                *)
MarkDirty(w) ==
    /\ writer[w].pc = "select" /\ writer[w].queued
    /\ writer' = [writer EXCEPT ![w] = [@ EXCEPT !.queued = FALSE, !.dirty = TRUE,
                                               !.armed = TRUE]]
    /\ UNCHANGED <<memory, saver, file, survivors, acked, promised, failures, crashes>>

(* flush, called for a job: dirty is cleared before the write.               *)
StartWrite(r, why) == [r EXCEPT !.pc = "snapshot", !.dirty = FALSE, !.job = why]

(* case <-timerChannel                                                       *)
DelayOver(w) ==
    /\ writer[w].pc = "select" /\ writer[w].armed
    /\ LET off == [writer[w] EXCEPT !.armed = FALSE] IN
       writer' = [writer EXCEPT ![w] = IF off.dirty THEN StartWrite(off, "timer") ELSE off]
    /\ UNCHANGED <<memory, saver, file, survivors, acked, promised, failures, crashes>>

(* case reply := <-w.flush: the pending delay is given up, the write forced. *)
TakeFlush(w, c) ==
    /\ writer[w].pc = "select" /\ saver[c].pc = "asking" /\ WriterOf[c] = w
    /\ writer' = [writer EXCEPT ![w] = StartWrite([writer[w] EXCEPT !.armed = FALSE], c)]
    /\ saver' = [saver EXCEPT ![c] = [@ EXCEPT !.pc = "waiting"]]
    /\ UNCHANGED <<memory, file, survivors, acked, promised, failures, crashes>>

(* A plausible bug: the channel is not drained before the last write.        *)
LastWriteUndrained(w) ==
    /\ writer[w].pc = "select" /\ writer[w].stop
    /\ writer' = [writer EXCEPT ![w] = IF writer[w].dirty THEN StartWrite(writer[w], "stop")
                                       ELSE [writer[w] EXCEPT !.pc = "done"]]
    /\ UNCHANGED <<memory, saver, file, survivors, acked, promised, failures, crashes>>

(* case <-w.stop: what is in the channel is drained, then the last write.    *)
LastWrite(w) ==
    /\ writer[w].pc = "select" /\ writer[w].stop
    /\ LET drained == [writer[w] EXCEPT !.dirty = @ \/ writer[w].queued,
                                        !.queued = FALSE, !.armed = FALSE]
       IN  writer' = [writer EXCEPT ![w] = IF drained.dirty THEN StartWrite(drained, "stop")
                                           ELSE [drained EXCEPT !.pc = "done"]]
    /\ UNCHANGED <<memory, saver, file, survivors, acked, promised, failures, crashes>>

-----------------------------------------------------------------------------
(* writeAdaptiveState.                                                       *)

(* persistenceSnapshot.                                                      *)
Snapshot(w) ==
    /\ writer[w].pc = "snapshot"
    /\ writer' = [writer EXCEPT ![w] = [@ EXCEPT !.pc = "rename", !.snap = memory]]
    /\ UNCHANGED <<memory, saver, file, survivors, acked, promised, failures, crashes>>

(* The write is over: the caller of Flush has its answer, Close is done.     *)
WriteReturns(w, ok) ==
    LET why == writer[w].job IN
    /\ writer' = [writer EXCEPT ![w] = [@ EXCEPT !.job = "timer",
                        !.pc = IF why = "stop" THEN "done" ELSE "select"]]
    /\ saver' = [c \in Savers |-> IF c = why THEN IdleSaver ELSE saver[c]]
    /\ acked' = IF ok /\ why \in Savers /\ saver[why].version > acked
                THEN saver[why].version ELSE acked

(* A plausible bug: the rename is reported as durable without the sync.      *)
RenameReturns(w) ==
    /\ writer[w].pc = "rename"
    /\ WriteReturns(w, TRUE)
    /\ file' = writer[w].snap
    /\ survivors' = survivors \cup {writer[w].snap}
    /\ UNCHANGED <<memory, promised, failures, crashes>>

(* os.Rename of the synced temporary file.                                   *)
Rename(w) ==
    /\ writer[w].pc = "rename"
    /\ writer' = [writer EXCEPT ![w] = [@ EXCEPT !.pc = "sync"]]
    /\ file' = writer[w].snap
    /\ survivors' = survivors \cup {writer[w].snap}
    /\ UNCHANGED <<memory, saver, acked, promised, failures, crashes>>

(* directory.Sync: what is at the path now survives.                         *)
SyncDirectory(w) ==
    /\ writer[w].pc = "sync"
    /\ survivors' = {file}
    /\ WriteReturns(w, TRUE)
    /\ UNCHANGED <<memory, file, promised, failures, crashes>>

(* A failed write is counted and, but for Flush, reported to nobody.         *)
WriteFails(w) ==
    /\ writer[w].pc \in {"rename", "sync"} /\ failures < MaxFailures
    /\ failures' = failures + 1
    /\ WriteReturns(w, FALSE)
    /\ UNCHANGED <<memory, file, survivors, promised, crashes>>

-----------------------------------------------------------------------------
(* The process ends at any moment; the next one reads what the disk kept     *)
(* (loadPersistentState) and starts a writer.                                *)
Crash ==
    /\ crashes < MaxCrashes
    /\ crashes' = crashes + 1
    /\ \E v \in survivors : memory' = v /\ file' = v /\ survivors' = {v}
    /\ writer' = [w \in Writers |-> NewWriter]
    /\ saver' = [c \in Savers |-> IdleSaver]
    /\ promised' = [w \in Writers |-> 0]
    /\ UNCHANGED <<acked, failures>>

WriterStep(w) ==
    \/ MarkDirty(w) \/ DelayOver(w) \/ LastWrite(w) \/ \E c \in Savers : TakeFlush(w, c)
    \/ Snapshot(w) \/ Rename(w) \/ SyncDirectory(w)

WriterNext ==
    \/ \E w \in Writers : WriterStep(w) \/ WriteFails(w) \/ CloseWriter(w)
    \/ \E c \in Savers : Change(c) \/ SubmitSave(c) \/ AskFlush(c) \/ FlushClosed(c)
    \/ Crash

WriterSpec == WriterInit /\ [][WriterNext]_writerVars

(* The goroutine runs, its select leaves no ready case out for ever, and the *)
(* file system answers.                                                      *)
WriterFairness ==
    /\ \A w \in Writers :
          /\ WF_writerVars(MarkDirty(w)) /\ WF_writerVars(DelayOver(w))
          /\ WF_writerVars(LastWrite(w)) /\ WF_writerVars(\E c \in Savers : TakeFlush(w, c))
          /\ WF_writerVars(Snapshot(w)) /\ WF_writerVars(Rename(w) \/ WriteFails(w))
          /\ WF_writerVars(SyncDirectory(w) \/ WriteFails(w))
    /\ \A c \in Savers : WF_writerVars(FlushClosed(c))

-----------------------------------------------------------------------------
(* Types.                                                                    *)
WriterTypeOK ==
    /\ memory \in Versions /\ file \in Versions /\ survivors \subseteq Versions
    /\ survivors # {} /\ acked \in Versions
    /\ writer \in [Writers -> WriterState] /\ saver \in [Savers -> SaverState]
    /\ promised \in [Writers -> Versions]
    /\ failures \in 0..MaxFailures /\ crashes \in 0..MaxCrashes

(* persistStateDurable: what it has reported as durable survives a crash at  *)
(* any later moment, through delayed writes, failed writes, Close and        *)
(* earlier crashes.  The catalog of a revision is committed on its word.     *)
(* It holds while the path has one writer.                                   *)
AckedDurable == \A v \in survivors : v >= acked

(* Close: a change that was submitted before the writer was closed is in the *)
(* file when its goroutine ends, wherever it was between the channel, the    *)
(* local flag and the timer, unless a write failed.                          *)
CloseSaves ==
    failures = 0 => \A w \in Writers : writer[w].pc = "done" => file >= promised[w]

(* Every submitted change is in the file after a while, if no write fails    *)
(* and the process does not crash: each item of the channel leads to a write *)
(* that takes its snapshot after it.                                         *)
ChangesSaved ==
    \A w \in Writers, v \in 1..MaxChanges :
        promised[w] >= v ~> file >= v \/ failures > 0 \/ crashes > 0

(* Flush returns, also when the writer is closed at the same time.           *)
FlushReturns == \A c \in Savers : saver[c].pc \in {"asking", "waiting"} ~> saver[c].pc = "none"
=============================================================================
