------------------------------- MODULE DnsMux -------------------------------
(***************************************************************************)
(* The DNS multiplexer (common/dnsmux/service.go).  Packets that ask the   *)
(* same question on one lane share a transaction; the writer that the      *)
(* handler is given, the reaper and Purge take transactions out of the     *)
(* table and call onClose once for every responder.  The handler is        *)
(* external: it may answer, fail, or never use its writer.                 *)
(*                                                                         *)
(* A transaction is named by the packet that created it (nextID is never   *)
(* used twice).  A dedupe key begins with its lane.  Payloads, query IDs   *)
(* and the counters of RuntimeStats are left out; times are kept as "older *)
(* than Timeout".                                                          *)
(***************************************************************************)
EXTENDS Naturals, FiniteSets

CONSTANTS Queries,                \* the packets that arrive
          Questions,              \* the dedupe keys
          Lanes,
          Asks,                   \* the dedupe keys each packet may have
          LaneOf,                 \* the lane of each dedupe key
          MaxTransactions,
          MaxCoalescedResponders,
          Nobody

ASSUME MuxConstants ==
    /\ Asks \in [Queries -> SUBSET Questions]
    /\ LaneOf \in [Questions -> Lanes]
    /\ MaxTransactions \in Nat \ {0} /\ MaxCoalescedResponders \in Nat \ {0}
    /\ IsFiniteSet(Queries)
    /\ Nobody \notin Queries \cup Questions \cup Nat

VARIABLES
    packet,       \* where the NewPacket call of each packet is
    question,     \* and its dedupe key
    transactions, \* the responders of each live transaction, {} if there is none
    inflight,     \* the transaction of each dedupe key
    lanes,        \* the transaction count of each lane, Nobody if it is absent
    tracker,      \* the trackingWriter of each transaction
    batch,        \* responders whose onClose is still to be called, by the
                  \* writer of a transaction
    leftover,     \* the same by the expire of the reaper, of Purge on an
                  \* interface update, or of Close
    closes,       \* how often onClose was called
    overdue,      \* transactions older than Timeout
    idle,         \* lanes last active more than Timeout ago
    mux           \* "open"; "closed" (Close has closed s.closed); "purged"

muxVars == <<packet, question, transactions, inflight, lanes, tracker, batch, leftover,
             closes, overdue, idle, mux>>

Expirers == {"reaper", "update", "close"}
Live == {t \in Queries : transactions[t] # {}}
Lane(t) == LaneOf[question[t]]

MuxTypeOK ==
    /\ packet \in [Queries -> {"new", "prepared", "accepted", "rejected"}]
    /\ question \in [Queries -> Questions \cup {Nobody}]
    /\ transactions \in [Queries -> SUBSET Queries]
    /\ inflight \in [Questions -> Queries \cup {Nobody}]
    /\ lanes \in [Lanes -> Nat \cup {Nobody}]
    /\ tracker \in [Queries -> {"none", "open", "done"}]
    /\ batch \in [Queries -> SUBSET Queries]
    /\ leftover \in [Expirers -> SUBSET Queries]
    /\ closes \in [Queries -> Nat]
    /\ overdue \subseteq Queries
    /\ idle \subseteq Lanes
    /\ mux \in {"open", "closed", "purged"}

MuxInit ==
    /\ packet = [q \in Queries |-> "new"]
    /\ question = [q \in Queries |-> Nobody]
    /\ transactions = [t \in Queries |-> {}]
    /\ inflight = [d \in Questions |-> Nobody]
    /\ lanes = [l \in Lanes |-> Nobody]
    /\ tracker = [t \in Queries |-> "none"]
    /\ batch = [t \in Queries |-> {}]
    /\ leftover = [e \in Expirers |-> {}]
    /\ closes = [q \in Queries |-> 0]
    /\ overdue = {} /\ idle = {}
    /\ mux = "open"

-----------------------------------------------------------------------------
(* NewPacket *)

(* The check of s.closed, the length check and Prepare, which may give no    *)
(* writer.                                                                   *)
PreparePacket(q, d) ==
    /\ packet[q] = "new"
    /\ \/ packet' = [packet EXCEPT ![q] = "rejected"] /\ UNCHANGED question
       \/ /\ mux = "open"
          /\ packet' = [packet EXCEPT ![q] = "prepared"]
          /\ question' = [question EXCEPT ![q] = d]
    /\ UNCHANGED <<transactions, inflight, lanes, tracker, batch, leftover,
                   closes, overdue, idle, mux>>

(* The transaction that already carries the question of q. *)
Existing(q) == inflight[question[q]]
Coalesces(q) == Existing(q) # Nobody /\ transactions[Existing(q)] # {}

(* A faulty admission: Close is not looked for again under the lock. *)
RefusedWhileOpen(q) ==
    IF Coalesces(q) THEN Cardinality(transactions[Existing(q)]) >= MaxCoalescedResponders
    ELSE Cardinality(Live) >= MaxTransactions

Refused(q) ==
    \/ mux # "open"
    \/ IF Coalesces(q) THEN Cardinality(transactions[Existing(q)]) >= MaxCoalescedResponders
       ELSE Cardinality(Live) >= MaxTransactions

Refuse(q) ==
    /\ packet[q] = "prepared" /\ Refused(q)
    /\ packet' = [packet EXCEPT ![q] = "rejected"]
    /\ closes' = [closes EXCEPT ![q] = @ + 1]
    /\ UNCHANGED <<question, transactions, inflight, lanes, tracker, batch, leftover,
                   overdue, idle, mux>>

Follow(q) ==
    /\ packet[q] = "prepared" /\ ~Refused(q) /\ Coalesces(q)
    /\ transactions' = [transactions EXCEPT ![Existing(q)] = @ \cup {q}]
    /\ packet' = [packet EXCEPT ![q] = "accepted"]
    /\ UNCHANGED <<question, inflight, lanes, tracker, batch, leftover, closes, overdue,
                   idle, mux>>

(* A new transaction, whose writer options.Handle is given after the lock    *)
(* was released; the handler may use it at once, later or never.             *)
Admit(q) ==
    /\ packet[q] = "prepared" /\ ~Refused(q) /\ ~Coalesces(q)
    /\ transactions' = [transactions EXCEPT ![q] = {q}]
    /\ inflight' = [inflight EXCEPT ![question[q]] = q]
    /\ lanes' = [lanes EXCEPT ![Lane(q)] = IF @ = Nobody THEN 1 ELSE @ + 1]
    /\ idle' = idle \ {Lane(q)}
    /\ packet' = [packet EXCEPT ![q] = "accepted"]
    /\ tracker' = [tracker EXCEPT ![q] = "open"]
    /\ UNCHANGED <<question, batch, leftover, closes, overdue, mux>>

-----------------------------------------------------------------------------
(* trackingWriter: WritePacket and Close. *)

(* The maps and the lane counts without the transactions T. *)
DropTransactions(T) ==
    /\ transactions' = [t \in Queries |-> IF t \in T THEN {} ELSE transactions[t]]
    /\ inflight' = [d \in Questions |-> IF inflight[d] \in T THEN Nobody ELSE inflight[d]]
    /\ overdue' = overdue \ T

LanesWithout(T) ==
    [l \in Lanes |-> IF lanes[l] = Nobody THEN Nobody
                     ELSE lanes[l] - Cardinality({t \in T : Lane(t) = l})]

(* A faulty take: the transaction is read and stays in the table. *)
TakeNothing(t) ==
    /\ tracker[t] = "open"
    /\ tracker' = [tracker EXCEPT ![t] = "done"]
    /\ batch' = [batch EXCEPT ![t] = transactions[t]]
    /\ UNCHANGED <<question, packet, transactions, inflight, lanes, leftover, closes,
                   overdue, idle, mux>>

(* take: the first use of the writer sets done and removes the transaction,  *)
(* if it is still there; only other uses of the writer look at done, and     *)
(* they change nothing.  Who takes a transaction out answers its responders. *)
Take(t) ==
    /\ tracker[t] = "open"
    /\ tracker' = [tracker EXCEPT ![t] = "done"]
    /\ batch' = [batch EXCEPT ![t] = transactions[t]]
    /\ DropTransactions({t} \cap Live)
    /\ lanes' = LanesWithout({t} \cap Live)
    /\ idle' = IF t \in Live THEN idle \ {Lane(t)} ELSE idle
    /\ UNCHANGED <<question, packet, leftover, closes, mux>>

Closed(Q) == [q \in Queries |-> IF q \in Q THEN closes[q] + 1 ELSE closes[q]]

(* The loop over the responders: each is written to, if there is a reply,    *)
(* and closed.  Nobody else sees the list, so that the loop is one step.     *)
AnswerResponders(t) ==
    /\ batch[t] # {}
    /\ batch' = [batch EXCEPT ![t] = {}]
    /\ closes' = Closed(batch[t])
    /\ UNCHANGED <<question, packet, transactions, inflight, lanes, tracker, leftover,
                   overdue, idle, mux>>

-----------------------------------------------------------------------------
(* expire, reapLoop, Purge and Close *)

Expire(e, all) ==
    LET expired == IF all THEN Live ELSE Live \cap overdue
        counts == LanesWithout(expired)
        gone == {l \in Lanes : counts[l] = 0 /\ (all \/ l \in idle)} IN
    /\ leftover[e] = {}
    /\ leftover' = [leftover EXCEPT ![e] = UNION {transactions[t] : t \in expired}]
    /\ DropTransactions(expired)
    /\ lanes' = [l \in Lanes |-> IF l \in gone THEN Nobody ELSE counts[l]]
    /\ idle' = idle \ gone
    /\ UNCHANGED <<question, packet, tracker, batch, closes>>

(* The reaper ends when it sees s.closed; its select may take a tick first.  *)
Reap == Expire("reaper", FALSE) /\ UNCHANGED mux

PurgeOnUpdate == Expire("update", TRUE) /\ UNCHANGED mux

CloseMux ==
    /\ mux = "open" /\ mux' = "closed"
    /\ UNCHANGED <<question, packet, transactions, inflight, lanes, tracker, batch, leftover,
                   closes, overdue, idle>>

(* A faulty Close that expires what is overdue, as the reaper does. *)
ReapOnClose == mux = "closed" /\ mux' = "purged" /\ Expire("close", FALSE)

PurgeOnClose == mux = "closed" /\ mux' = "purged" /\ Expire("close", TRUE)

CloseExpired(e) ==
    /\ leftover[e] # {}
    /\ leftover' = [leftover EXCEPT ![e] = {}]
    /\ closes' = Closed(leftover[e])
    /\ UNCHANGED <<question, packet, transactions, inflight, lanes, tracker, batch, overdue,
                   idle, mux>>

(* Timeout passes. *)
Elapse ==
    /\ overdue' = Live
    /\ idle' = {l \in Lanes : lanes[l] # Nobody}
    /\ <<overdue, idle>>' # <<overdue, idle>>
    /\ UNCHANGED <<question, packet, transactions, inflight, lanes, tracker, batch, leftover,
                   closes, mux>>

MuxNext ==
    \/ \E q \in Queries : \E d \in Asks[q] : PreparePacket(q, d)
    \/ \E q \in Queries : Refuse(q) \/ Follow(q) \/ Admit(q)
    \/ \E t \in Queries : Take(t) \/ AnswerResponders(t)
    \/ \E e \in Expirers : CloseExpired(e)
    \/ Reap \/ PurgeOnUpdate \/ CloseMux \/ PurgeOnClose \/ Elapse

MuxSpec == MuxInit /\ [][MuxNext]_muxVars

(* Calls that began go on; the ticker ticks and the clock advances.  Nothing *)
(* makes the handler use its writer, a packet arrive or the inbound close.   *)
MuxFairness ==
    /\ WF_muxVars(\E q \in Queries : Refuse(q) \/ Follow(q) \/ Admit(q))
    /\ WF_muxVars(\E t \in Queries : AnswerResponders(t))
    /\ WF_muxVars(\E e \in Expirers : CloseExpired(e))
    /\ WF_muxVars(mux = "open" /\ Reap) /\ WF_muxVars(PurgeOnClose) /\ WF_muxVars(Elapse)

MuxFairSpec == MuxSpec /\ MuxFairness

-----------------------------------------------------------------------------
(* Who will call onClose for q. *)
ClosersOf(q) ==
    {<<"table", t>> : t \in {u \in Queries : q \in transactions[u]}}
        \cup {<<"writer", t>> : t \in {u \in Queries : q \in batch[u]}}
        \cup {<<"expire", e>> : e \in {f \in Expirers : q \in leftover[f]}}

(* However its transaction ends (a reply, a failure, the reaper, an          *)
(* interface update or Close, in any order and at once), the onClose of an   *)
(* accepted packet is called once: until then exactly one owner will call    *)
(* it, and a packet that was refused after Prepare was closed on the spot.   *)
ClosedOnce ==
    \A q \in Queries :
        /\ packet[q] = "accepted" =>
               \/ closes[q] = 0 /\ \E c \in ClosersOf(q) : ClosersOf(q) = {c}
               \/ closes[q] = 1 /\ ClosersOf(q) = {}
        /\ packet[q] \in {"new", "prepared"} => closes[q] = 0 /\ ClosersOf(q) = {}
        /\ packet[q] = "rejected" => closes[q] \in {0, 1} /\ ClosersOf(q) = {}

(* The three maps agree, so that no later packet waits on a question that    *)
(* nobody works on and no lane is kept or dropped by a wrong count; the      *)
(* table keeps its limits; and "no transaction can be inserted after the     *)
(* final purge" (service.go:153-154).                                        *)
TablesAgree ==
    /\ \A d \in Questions : inflight[d] # Nobody => inflight[d] \in Live /\ question[inflight[d]] = d
    /\ \A t \in Live : inflight[question[t]] = t /\ lanes[Lane(t)] # Nobody
    /\ \A l \in Lanes : lanes[l] # Nobody => lanes[l] = Cardinality({t \in Live : Lane(t) = l})
    /\ Cardinality(Live) <= MaxTransactions
    /\ mux = "purged" => Live = {}

(* Every packet that was prepared is closed in the end, although the handler *)
(* may never use its writer and Close stops the reaper.                      *)
QueriesClosed == \A q \in Queries : packet[q] = "prepared" ~> closes[q] = 1
=============================================================================
