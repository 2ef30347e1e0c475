-------------------------- MODULE MCAttemptRunner --------------------------
(***************************************************************************)
(* AttemptRunner, StateWriter and DnsMux on small instances: what callers  *)
(* wait for.  The three do not share state; a behaviour is one of the      *)
(* dial, of the writer or of the multiplexer.                              *)
(***************************************************************************)
EXTENDS AttemptRunner, StateWriter, DnsMux, TLC

CONSTANTS q1, q2, q3, s1, s2, l1

VARIABLE part

(* Every caller belongs to the one pool that has a writer. *)
OneWriter == [c \in Savers |-> CHOOSE w \in Writers : TRUE]

(* Two packets ask the same, the third the same or something else. *)
MCAsks == q1 :> {s1} @@ q2 :> {s1} @@ q3 :> {s1, s2}
OneLane == [s \in Questions |-> l1]

InDial(A) == part = "dial" /\ A /\ UNCHANGED <<writerVars, muxVars, part>>
InWriter(A) == part = "writer" /\ A /\ UNCHANGED <<vars, muxVars, part>>
InMux(A) == part = "mux" /\ A /\ UNCHANGED <<vars, writerVars, part>>
all == <<vars, writerVars, muxVars, part>>

(* A dial that was cancelled before its attempt began. *)
DialOver ==
    /\ PubInit
    /\ ctx = TRUE /\ hedge = FALSE /\ results = <<>>
    /\ run = [returned |-> TRUE, started |-> 1, active |-> 0, timer |-> FALSE, winner |-> None]
    /\ attempt = [i \in Attempts |-> IF i = 1 THEN [NoAttempt EXCEPT !.pc = "gone", !.outcome = "cancelled"]
                                     ELSE NoAttempt]
    /\ bindings = [refs |-> 0, retiring |-> FALSE, freed |-> FALSE]

MCInit == /\ WriterInit /\ MuxInit
          /\ \/ part = "dial" /\ Init
             \/ part \in {"writer", "mux"} /\ DialOver

(* The caller leaves or the revision is retired, not both in one dial. *)
OneDisturbance == ~(ctx /\ bindings.retiring)

MCNext == InDial(Next /\ OneDisturbance') \/ InWriter(WriterNext) \/ InMux(MuxNext)

(* FairSpec, WriterFairness and MuxFairness, each in its part. *)
MCFairSpec ==
    /\ MCInit /\ [][MCNext]_all
    /\ \A i \in Attempts : WF_all(InDial(AttemptStep(i)))
    /\ WF_all(InDial(DialStep))
    /\ \A w \in Writers :
          /\ WF_all(InWriter(MarkDirty(w))) /\ WF_all(InWriter(DelayOver(w)))
          /\ WF_all(InWriter(LastWrite(w)))
          /\ WF_all(InWriter(\E c \in Savers : TakeFlush(w, c)))
          /\ WF_all(InWriter(Snapshot(w)))
          /\ WF_all(InWriter(Rename(w) \/ WriteFails(w)))
          /\ WF_all(InWriter(SyncDirectory(w) \/ WriteFails(w)))
    /\ \A c \in Savers : WF_all(InWriter(FlushClosed(c)))
    /\ WF_all(InMux(\E q \in Queries : Refuse(q) \/ Follow(q) \/ Admit(q)))
    /\ WF_all(InMux(\E t \in Queries : AnswerResponders(t)))
    /\ WF_all(InMux(\E e \in Expirers : CloseExpired(e)))
    /\ WF_all(InMux(mux = "open" /\ Reap))
    /\ WF_all(InMux(PurgeOnClose)) /\ WF_all(InMux(Elapse))
=============================================================================
