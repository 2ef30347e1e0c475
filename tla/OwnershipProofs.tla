-------------------------- MODULE OwnershipProofs ---------------------------
(***************************************************************************)
(* Proofs about the two places where one owner works and others wait for   *)
(* it: the schedulers of one group (SchedulerOwnership), for any number of *)
(* pools, coordinators and workers; and the reservations of session leases *)
(* (SessionLease), for every number of dials and keys, every capacity and  *)
(* any number of clears.                                                   *)
(***************************************************************************)
EXTENDS SchedulerOwnership, SessionLease, TLAPS

-----------------------------------------------------------------------------
(* The ownership of probing.  OwnershipInv is inductive: the tokens of a     *)
(* coordinator are numbered without gaps, and a ready token has only drained *)
(* predecessors.                                                             *)


(* The invariant gives exclusion: of two tokens of one coordinator the       *)
(* earlier has drained before the later is ready, and a drained token's      *)
(* workers have returned.                                                    *)
LEMMA InvExcludes == OwnershipInv => OneProber
  <1> SUFFICES ASSUME OwnershipInv, NEW p \in Pools, NEW q \in Pools,
                      p # q, token[p].of = token[q].of,
                      scheduler[p].busy > 0, scheduler[q].busy > 0
               PROVE  FALSE
      BY DEF OneProber, OwnershipInv, TypeOK, Scheduler
  <1>1. token[p].ready /\ token[q].ready
      BY Zenon DEF OwnershipInv, Barrier
  <1>2. Claims(p) /\ Claims(q)
      BY <1>1 DEF OwnershipInv, ClaimOnce, NoToken, Claims
  <1>3. token[p].generation # token[q].generation
      BY <1>2, Zenon DEF OwnershipInv, Numbered
  <1>4. ~token[p].drained /\ ~token[q].drained
      BY OwnershipConstants DEF OwnershipInv, Barrier, Stopped, TypeOK, Scheduler
  <1>5. token[p].generation \in Nat /\ token[q].generation \in Nat
      BY Zenon DEF OwnershipInv, TypeOK, Token
  <1> QED
      BY <1>1, <1>2, <1>3, <1>4, <1>5 DEF OwnershipInv, Barrier, Claims

LEMMA OwnershipInitInv == Init => OwnershipInv
  <1> SUFFICES ASSUME Init PROVE OwnershipInv
      BY Zenon
  <1>1. TypeOK
      BY OwnershipConstants DEF Init, TypeOK, Coordinator, NoCoordinator, Token, NoToken,
         Scheduler, NoScheduler, PoolState, NoPool, AttemptState, NoDial
  <1>2. ClaimOnce
      BY OwnershipConstants, Zenon DEF Init, ClaimOnce, NoPool, At, Claims, NoToken, NoScheduler
  <1>3. Numbered
      BY Zenon DEF Init, Numbered, NoCoordinator, Claims, NoToken
  <1>4. Barrier
      BY OwnershipConstants DEF Init, Barrier, NoToken, NoScheduler, Claims
  <1> QED BY <1>1, <1>2, <1>3, <1>4, Zenon DEF OwnershipInv
-----------------------------------------------------------------------------
(* Steps that number no token keep the numbering.                            *)
SameNumbers ==
    /\ \A q \in Pools :
        /\ token'[q].of = token[q].of /\ token'[q].generation = token[q].generation
        /\ token'[q].previous = token[q].previous
    /\ \A c \in Coordinators :
        /\ coordinator'[c].drain = coordinator[c].drain
        /\ coordinator'[c].generation = coordinator[c].generation
        /\ coordinator'[c].owner \in {coordinator[c].owner, Nobody}

LEMMA NumberedFrame ==
    ASSUME OwnershipInv, SameNumbers
    PROVE  Numbered'
  <1>1. ASSUME NEW c \in Coordinators
        PROVE  (LET last == coordinator[c].drain IN
                /\ coordinator[c].owner \in {Nobody, last}
                /\ IF last = Nobody THEN coordinator[c].generation = 0
                   ELSE token[last].of = c /\ token[last].generation = coordinator[c].generation)'
      <2>1. coordinator[c].drain \in Pools \cup {Nobody}
          BY Zenon DEF OwnershipInv, TypeOK, Coordinator
      <2> QED BY <2>1 DEF OwnershipInv, Numbered, SameNumbers
  <1>2. ASSUME NEW q \in Pools, Claims(q)'
        PROVE  (/\ token[q].generation \in 1..coordinator[token[q].of].generation
                /\ LET before == token[q].previous IN
                   IF before = Nobody THEN token[q].generation = 1
                   ELSE /\ token[before].of = token[q].of
                        /\ token[before].generation + 1 = token[q].generation)'
      <2>1. Claims(q) /\ token[q].of \in Coordinators /\ token[q].previous \in Pools \cup {Nobody}
          BY <1>2, Zenon DEF OwnershipInv, TypeOK, Token, Claims, SameNumbers
      <2> QED BY <2>1 DEF OwnershipInv, Numbered, SameNumbers
  <1>3. ASSUME NEW q \in Pools, NEW r \in Pools, q # r, Claims(q)', token'[q].of = token'[r].of
        PROVE  token'[q].generation # token'[r].generation
      BY <1>3 DEF OwnershipInv, Numbered, SameNumbers, Claims
  <1> QED BY <1>1, <1>2, <1>3, ZenonT(60) DEF Numbered

(* Steps that, moreover, touch the progress of no token and no scheduler     *)
(* keep the barrier.                                                         *)
SameTokens ==
    /\ SameNumbers
    /\ \A q \in Pools :
        /\ token'[q].ready = token[q].ready
        /\ token'[q].done = token[q].done /\ token'[q].drained = token[q].drained
        /\ scheduler'[q].dispatcher = scheduler[q].dispatcher
        /\ scheduler'[q].busy = scheduler[q].busy /\ scheduler'[q].exited = scheduler[q].exited

LEMMA FrameInv ==
    ASSUME OwnershipInv, TypeOK', ClaimOnce', SameTokens
    PROVE  OwnershipInv'
  <1>1. Numbered'
      BY NumberedFrame, Zenon DEF SameTokens
  <1>2. Barrier'
      BY DEF OwnershipInv, Barrier, Claims, Stopped, SameTokens, SameNumbers
  <1> QED BY <1>1, <1>2, Zenon DEF OwnershipInv

(* Cleanup under schedulerAccess keeps the types: a coordinator that is not  *)
(* idle has a token to wait for.                                             *)
LEMMA TryDeleteType ==
    ASSUME OwnershipInv, TryDelete
    PROVE  /\ schedulers' \in Coordinators \cup {Nobody}
           /\ waiter' \in Coordinators \cup {Nobody}
           /\ waiting' \subseteq [of : Coordinators, on : Pools]
  <1>1. CASE schedulers = Nobody \/ (~Idle(schedulers) /\ waiter = schedulers)
      BY <1>1, Zenon DEF TryDelete, OwnershipInv, TypeOK
  <1>2. CASE schedulers # Nobody /\ Idle(schedulers)
      BY <1>2, Zenon DEF TryDelete, OwnershipInv, TypeOK
  <1>3. CASE schedulers # Nobody /\ ~Idle(schedulers) /\ waiter # schedulers
      <2>1. schedulers \in Coordinators
          BY <1>3, Zenon DEF OwnershipInv, TypeOK
      <2>2. coordinator[schedulers].drain \in Pools
          BY <1>3, <2>1 DEF Idle, OwnershipInv, Numbered, TypeOK, Coordinator
      <2> QED BY <1>3, <2>1, <2>2 DEF TryDelete, OwnershipInv, TypeOK
  <1> QED BY <1>1, <1>2, <1>3, Zenon

(* Every step of a pool but the claim.                                       *)
LEMMA PoolStepInv ==
    ASSUME OwnershipInv, NEW p \in Pools, PoolStep(p), ~StartScheduler(p)
    PROVE  OwnershipInv'
  <1>1. CASE RegisterGroup(p)
      <2>1. TypeOK'
          BY <1>1, ZenonT(60) DEF OwnershipInv, TypeOK, RegisterGroup, Go, PoolState
      <2>2. ClaimOnce'
          BY <1>1, ZenonT(60) DEF OwnershipInv, TypeOK, ClaimOnce, RegisterGroup, Go, At, Claims, PoolState
      <2> QED BY <1>1, <2>1, <2>2, FrameInv, Zenon DEF SameTokens, SameNumbers, RegisterGroup
  <1>2. CASE \E c \in Coordinators : Lookup(p, c)
      <2> PICK c \in Coordinators : Lookup(p, c)
          BY <1>2, Zenon
      <2>1. /\ coordinator' \in [Coordinators -> Coordinator]
            /\ \A d \in Coordinators :
                  /\ coordinator'[d].drain = coordinator[d].drain
                  /\ coordinator'[d].generation = coordinator[d].generation
                  /\ coordinator'[d].owner = coordinator[d].owner
          <3>1. CASE coordinator' = coordinator
              BY <3>1, Zenon DEF OwnershipInv, TypeOK
          <3>2. CASE coordinator' = [coordinator EXCEPT ![c].made = TRUE]
              BY <3>2, ZenonT(60) DEF OwnershipInv, TypeOK, Coordinator
          <3> QED BY <3>1, <3>2, Zenon DEF Lookup
      <2>2. TypeOK'
          BY <2>1, Zenon DEF OwnershipInv, TypeOK, Lookup, PoolState
      <2>3. ClaimOnce'
          BY Zenon DEF OwnershipInv, TypeOK, ClaimOnce, Lookup, At, Claims, PoolState
      <2> QED BY <2>1, <2>2, <2>3, FrameInv, Zenon DEF SameTokens, SameNumbers, Lookup
  <1>3. CASE Publish(p)
      <2>1. TypeOK'
          BY <1>3, ZenonT(60) DEF OwnershipInv, TypeOK, Publish, Go, PoolState
      <2>2. pool[p].of \in Coordinators
          BY <1>3, Zenon DEF OwnershipInv, ClaimOnce, Publish, At
      <2>3. ClaimOnce'
          BY <1>3, <2>2, ZenonT(60) DEF OwnershipInv, TypeOK, ClaimOnce, Publish, Go, At, Claims, PoolState
      <2> QED BY <1>3, <2>1, <2>3, FrameInv, Zenon DEF SameTokens, SameNumbers, Publish
  <1>4. CASE RetireEpoch(p)
      <2>1. TypeOK'
          BY <1>4, ZenonT(60) DEF OwnershipInv, TypeOK, RetireEpoch, Go, PoolState
      <2>2. ClaimOnce'
          BY <1>4, ZenonT(60) DEF OwnershipInv, TypeOK, ClaimOnce, RetireEpoch, Go, At, Claims, PoolState
      <2> QED BY <1>4, <2>1, <2>2, FrameInv, Zenon DEF SameTokens, SameNumbers, RetireEpoch
  <1>5. CASE Abandon(p)
      <2>1. TypeOK'
          BY <1>5, ZenonT(60) DEF OwnershipInv, TypeOK, Abandon, Go, PoolState
      <2>2. ClaimOnce'
          BY <1>5, ZenonT(60) DEF OwnershipInv, TypeOK, ClaimOnce, Abandon, Go, At, Claims, PoolState
      <2> QED BY <1>5, <2>1, <2>2, FrameInv, Zenon DEF SameTokens, SameNumbers, Abandon
  <1>6. CASE UnregisterGroup(p)
      <2>1. TypeOK'
          BY <1>6 DEF OwnershipInv, TypeOK, UnregisterGroup, Go, PoolState
      <2>2. ClaimOnce'
          BY <1>6, ZenonT(60) DEF OwnershipInv, TypeOK, ClaimOnce, UnregisterGroup, Go, At, Claims, PoolState
      <2> QED BY <1>6, <2>1, <2>2, FrameInv, Zenon DEF SameTokens, SameNumbers, UnregisterGroup
  <1>7. CASE CheckUnused(p)
      <2>1. TypeOK'
          BY <1>7, ZenonT(60) DEF OwnershipInv, TypeOK, CheckUnused, Go, PoolState
      <2>2. ClaimOnce'
          BY <1>7, ZenonT(60) DEF OwnershipInv, TypeOK, ClaimOnce, CheckUnused, Go, At, Claims, PoolState
      <2> QED BY <1>7, <2>1, <2>2, FrameInv, Zenon DEF SameTokens, SameNumbers, CheckUnused
  <1>8. CASE Cleanup(p)
      <2>1. TypeOK'
          BY <1>8, TryDeleteType, ZenonT(60) DEF OwnershipInv, TypeOK, Cleanup, Go, PoolState
      <2>2. ClaimOnce'
          BY <1>8, ZenonT(60) DEF OwnershipInv, TypeOK, ClaimOnce, Cleanup, Go, At, Claims, PoolState
      <2> QED BY <1>8, <2>1, <2>2, FrameInv, Zenon DEF SameTokens, SameNumbers, Cleanup
  <1>9. CASE Release(p)
      <2>1. /\ coordinator' \in [Coordinators -> Coordinator]
            /\ \A c \in Coordinators :
                  /\ coordinator'[c].drain = coordinator[c].drain
                  /\ coordinator'[c].generation = coordinator[c].generation
                  /\ coordinator'[c].owner \in {coordinator[c].owner, Nobody}
          BY <1>9, SMTT(60) DEF OwnershipInv, TypeOK, Release, Coordinator
      <2>2. /\ token' \in [Pools -> Token]
            /\ \A q \in Pools :
                  /\ token'[q].of = token[q].of /\ token'[q].generation = token[q].generation
                  /\ token'[q].previous = token[q].previous /\ token'[q].ready = token[q].ready
                  /\ token'[q].done = token[q].done /\ token'[q].drained = token[q].drained
                  /\ q # p => token'[q] = token[q]
          <3>1. CASE token' = token
              BY <3>1, Zenon DEF OwnershipInv, TypeOK
          <3>2. CASE token' = [token EXCEPT ![p].revoked = TRUE]
              <4>1. token \in [Pools -> Token]
                  BY Zenon DEF OwnershipInv, TypeOK
              <4>2. token' \in [Pools -> Token]
                  BY <3>2, <4>1, ZenonT(30) DEF Token
              <4>3. \A q \in Pools : q # p => token'[q] = token[q]
                  BY <3>2, <4>1, Zenon
              <4>4. token'[p] = [token[p] EXCEPT !.revoked = TRUE]
                  BY <3>2, <4>1, Zenon
              <4>5. /\ token'[p].of = token[p].of /\ token'[p].generation = token[p].generation
                    /\ token'[p].previous = token[p].previous /\ token'[p].ready = token[p].ready
                    /\ token'[p].done = token[p].done /\ token'[p].drained = token[p].drained
                  BY <4>1, <4>4, Zenon DEF Token
              <4> QED BY <4>2, <4>3, <4>5, Zenon
          <3> QED BY <1>9, <3>1, <3>2, Zenon DEF Release
      <2>3. TypeOK'
          <3>1. pool' \in [Pools -> PoolState]
              BY <1>9, ZenonT(60) DEF OwnershipInv, TypeOK, Release, Go, PoolState
          <3> QED BY <1>9, <2>1, <2>2, <3>1, Zenon DEF OwnershipInv, TypeOK, Release
      <2>4. ~Claims(p) => token'[p] = token[p]
          BY <1>9, Zenon DEF Release, Claims
      <2>5. ClaimOnce'
          <3>1. pool'[p].pc = "released"
              BY <1>9, Zenon DEF Release, Go, OwnershipInv, TypeOK, PoolState
          <3>2. \A q \in Pools : q # p => pool'[q] = pool[q]
              BY <1>9, Zenon DEF Release, Go, OwnershipInv, TypeOK, PoolState
          <3>3. scheduler' = scheduler
              BY <1>9, Zenon DEF Release
          <3> QED BY <2>2, <2>4, <3>1, <3>2, <3>3 DEF ClaimOnce, OwnershipInv, Claims
      <2>6. SameTokens
          BY <1>9, <2>1, <2>2, Zenon DEF SameTokens, SameNumbers, Release
      <2> QED BY <2>3, <2>5, <2>6, FrameInv, Zenon
  <1>10. CASE CloseScheduler(p)
      <2>1. /\ scheduler' \in [Pools -> Scheduler]
            /\ \A q \in Pools :
                  /\ scheduler'[q].dispatcher = scheduler[q].dispatcher
                  /\ scheduler'[q].busy = scheduler[q].busy
                  /\ scheduler'[q].exited = scheduler[q].exited
                  /\ q # p => scheduler'[q] = scheduler[q]
          BY <1>10, ZenonT(30) DEF OwnershipInv, TypeOK, CloseScheduler, Scheduler
      <2>2. TypeOK'
          BY <1>10, <2>1 DEF OwnershipInv, TypeOK, CloseScheduler, Go, PoolState
      <2>3. ClaimOnce'
          <3>1. /\ pool'[p].pc = "closing" /\ \A q \in Pools : q # p => pool'[q] = pool[q]
                /\ token' = token
              BY <1>10, Zenon DEF CloseScheduler, Go, OwnershipInv, TypeOK, PoolState
          <3> QED BY <2>1, <3>1, ZenonT(60) DEF ClaimOnce, OwnershipInv, Claims
      <2>4. SameTokens
          BY <1>10, <2>1, Zenon DEF SameTokens, SameNumbers, CloseScheduler
      <2> QED BY <2>2, <2>3, <2>4, FrameInv, Zenon
  <1> QED BY <1>1, <1>2, <1>3, <1>4, <1>5, <1>6, <1>7, <1>8, <1>9, <1>10, Zenon DEF PoolStep
(* An attempt that leases or releases an epoch, or cleans up after it.       *)
LEMMA DialStepInv ==
    ASSUME OwnershipInv, NEW d \in Attempts, DialStep(d)
    PROVE  OwnershipInv'
  <1>1. /\ attempt' \in [Attempts -> AttemptState] /\ epochs' \subseteq Pools
        /\ schedulers' \in Coordinators \cup {Nobody} /\ waiter' \in Coordinators \cup {Nobody}
        /\ waiting' \subseteq [of : Coordinators, on : Pools]
        /\ UNCHANGED <<registered, coordinator, token, scheduler, pool>>
    <2>1. CASE \E p \in Pools : AcquireEpoch(d, p)
        BY <2>1 DEF OwnershipInv, TypeOK, AcquireEpoch, AttemptState
    <2>2. CASE ReleaseEpoch(d)
        BY <2>2, Zenon DEF OwnershipInv, TypeOK, ReleaseEpoch, AttemptState
    <2>3. CASE DialChecksUnused(d)
        BY <2>3 DEF OwnershipInv, TypeOK, DialChecksUnused, AttemptState
    <2>4. CASE DialCleanup(d)
        <3>1. attempt' \in [Attempts -> AttemptState]
            BY <2>4, ZenonT(60) DEF OwnershipInv, TypeOK, DialCleanup, AttemptState
        <3> QED BY <2>4, <3>1, TryDeleteType, Zenon DEF OwnershipInv, TypeOK, DialCleanup
    <2> QED BY <2>1, <2>2, <2>3, <2>4, Zenon DEF DialStep
  <1>2. TypeOK'
      BY <1>1, Zenon DEF OwnershipInv, TypeOK
  <1>3. ClaimOnce'
      BY <1>1, Zenon DEF OwnershipInv, ClaimOnce, At, Claims
  <1> QED BY <1>1, <1>2, <1>3, FrameInv, Zenon DEF SameTokens, SameNumbers

LEMMA DrainWaiterInv ==
    ASSUME OwnershipInv, NEW w \in waiting, DrainWaiter(w)
    PROVE  OwnershipInv'
  <1>1. TypeOK'
      BY Zenon DEF OwnershipInv, TypeOK, DrainWaiter
  <1>2. ClaimOnce'
      BY Zenon DEF OwnershipInv, ClaimOnce, At, Claims, DrainWaiter
  <1> QED BY <1>1, <1>2, FrameInv, Zenon DEF SameTokens, SameNumbers, DrainWaiter
-----------------------------------------------------------------------------
(* Steps of a token: only a flag of its own rises.                           *)
LEMMA TokenStepInv ==
    ASSUME OwnershipInv, NEW p \in Pools, TokenStep(p)
    PROVE  OwnershipInv'
  <1>0. /\ token \in [Pools -> Token]
        /\ UNCHANGED <<registered, epochs, schedulers, waiter, waiting, coordinator, scheduler, pool, attempt>>
      BY Zenon DEF OwnershipInv, TypeOK, TokenStep, TokenReady, TokenDrained, MarkDone
  <1>1. /\ token' \in [Pools -> Token]
        /\ \A q \in Pools : q # p => token'[q] = token[q]
        /\ token'[p].of = token[p].of /\ token'[p].generation = token[p].generation
        /\ token'[p].previous = token[p].previous
    <2>1. CASE TokenReady(p)
        BY <1>0, <2>1, ZenonT(60) DEF TokenReady, Token
    <2>2. CASE TokenDrained(p)
        BY <1>0, <2>2, ZenonT(30) DEF TokenDrained, Token
    <2>3. CASE MarkDone(p)
        BY <1>0, <2>3, ZenonT(30) DEF MarkDone, Token
    <2> QED BY <2>1, <2>2, <2>3, Zenon DEF TokenStep
  <1>2. TypeOK'
      BY <1>0, <1>1, Zenon DEF OwnershipInv, TypeOK
  <1>3. Claims(p) /\ pool[p].pc \notin {"none", "registered", "prepared", "active"}
    <2>1. Claims(p)
        BY DEF TokenStep, TokenReady, TokenDrained, MarkDone, Stopped, NoToken, OwnershipInv, ClaimOnce
    <2> QED BY <2>1 DEF OwnershipInv, ClaimOnce, Claims, NoToken
  <1>4. ClaimOnce'
      BY <1>0, <1>1, <1>3, Zenon DEF OwnershipInv, ClaimOnce, Claims, At
  <1>5. Numbered'
      BY <1>0, <1>1, NumberedFrame, Zenon DEF SameNumbers
  <1>6. CASE TokenReady(p)
    <2>1. /\ token'[p].ready /\ token'[p].done = token[p].done /\ token'[p].drained = token[p].drained
          /\ token[p].previous # Nobody /\ token[token[p].previous].drained
        BY <1>0, <1>6, Zenon DEF TokenReady, Token
    <2>2. ASSUME NEW q \in Pools, Claims(q), token[q].of = token[p].of,
                 token[q].generation < token[p].generation
          PROVE  token[q].drained
        <3> DEFINE before == token[p].previous
        <3>1. /\ before \in Pools /\ token[before].of = token[p].of
              /\ token[before].generation + 1 = token[p].generation
            BY <1>0, <1>3, <2>1, Zenon DEF OwnershipInv, Numbered, Token
        <3>2. token[before].ready
            BY <2>1, <3>1, Zenon DEF OwnershipInv, Barrier
        <3>3. /\ token[q].generation \in Nat /\ token[before].generation \in Nat
              /\ token[p].generation \in Nat
            BY <1>0, <3>1, ZenonT(60) DEF Token
        <3>4. CASE token[q].generation = token[before].generation
            BY <2>1, <2>2, <3>1, <3>4, SMTT(60) DEF OwnershipInv, Numbered
        <3>5. CASE token[q].generation < token[before].generation
            BY <2>2, <3>1, <3>2, <3>5, Zenon DEF OwnershipInv, Barrier
        <3> QED BY <2>2, <3>1, <3>3, <3>4, <3>5, SMTT(60)
    <2>3. ASSUME NEW q \in Pools, NEW r \in Pools, Claims(q)', token'[q].of = token'[r].of,
                 token'[q].generation < token'[r].generation, token'[r].ready
          PROVE  token'[q].drained
        <3>1. Claims(q) /\ token[q].of = token[r].of /\ token[q].generation < token[r].generation
            BY <1>1, <2>3, Zenon DEF Claims
        <3>2. token[q].drained
            BY <1>1, <2>2, <2>3, <3>1, Zenon DEF OwnershipInv, Barrier
        <3> QED BY <1>1, <2>1, <3>2, Zenon
    <2>4. ASSUME NEW q \in Pools
          PROVE  (/\ token[q].drained => token[q].ready /\ token[q].done
                  /\ token[q].done => Stopped(q)
                  /\ scheduler[q].dispatcher = "ready" \/ scheduler[q].busy > 0 => token[q].ready
                  /\ scheduler[q].busy + scheduler[q].exited <= Workers)'
        BY <1>0, <1>1, <2>1, ZenonT(60) DEF OwnershipInv, Barrier, Stopped
    <2>5. Barrier'
        BY <2>3, <2>4, Zenon DEF Barrier
    <2> QED BY <1>2, <1>4, <1>5, <2>5, Zenon DEF OwnershipInv
  <1>7. CASE TokenDrained(p)
    <2>1. token'[p].ready = token[p].ready /\ token'[p].done = token[p].done /\ token'[p].drained
          /\ token[p].ready /\ token[p].done
        BY <1>0, <1>7, ZenonT(30) DEF TokenDrained, Token
    <2>2. Barrier'
        BY <1>0, <1>1, <2>1, ZenonT(60) DEF OwnershipInv, Barrier, Stopped, Claims
    <2> QED BY <1>2, <1>4, <1>5, <2>2, Zenon DEF OwnershipInv
  <1>8. CASE MarkDone(p)
    <2>1. token'[p].ready = token[p].ready /\ token'[p].drained = token[p].drained /\ Stopped(p)
          /\ token'[p].done
        BY <1>0, <1>8, Zenon DEF MarkDone, Token
    <2>2. Barrier'
        BY <1>0, <1>1, <2>1 DEF OwnershipInv, Barrier, Stopped, Claims
    <2> QED BY <1>2, <1>4, <1>5, <2>2, Zenon DEF OwnershipInv
  <1> QED BY <1>6, <1>7, <1>8, Zenon DEF TokenStep
(* Steps of a scheduler: a probe starts only on a ready token, and nothing   *)
(* moves once the dispatcher and all workers have returned.                  *)
LEMMA SchedulerStepInv ==
    ASSUME OwnershipInv, NEW p \in Pools, SchedulerStep(p)
    PROVE  OwnershipInv'
  <1> USE OwnershipConstants
  <1>0. /\ scheduler \in [Pools -> Scheduler]
        /\ UNCHANGED <<registered, epochs, schedulers, waiter, waiting, coordinator, token, pool, attempt>>
      BY Zenon DEF OwnershipInv, TypeOK, SchedulerStep, RevokeSeen, OwnerReady, Dispatch, FinishProbe,
         WorkerExits, DispatcherExits
  <1>1. /\ scheduler[p].busy \in 0..Workers /\ scheduler[p].exited \in 0..Workers
        /\ scheduler[p].busy + scheduler[p].exited <= Workers
        /\ token[p].done => Stopped(p)
        /\ scheduler[p].dispatcher = "ready" \/ scheduler[p].busy > 0 => token[p].ready
      BY <1>0, Zenon DEF Scheduler, OwnershipInv, Barrier
  <1>2. /\ scheduler' \in [Pools -> Scheduler]
        /\ \A q \in Pools : q # p => scheduler'[q] = scheduler[q]
        /\ scheduler'[p].busy + scheduler'[p].exited <= Workers
        /\ scheduler'[p].dispatcher = "ready" \/ scheduler'[p].busy > 0 => token[p].ready
        /\ token[p].done => scheduler'[p].dispatcher = "closed" /\ scheduler'[p].exited = Workers
        /\ scheduler[p].dispatcher = "none" => scheduler'[p].dispatcher = "none"
    <2>1. CASE RevokeSeen(p)
        <3>1. scheduler' = [scheduler EXCEPT ![p].cancelled = TRUE]
            BY <2>1, Zenon DEF RevokeSeen
        <3>2. /\ scheduler' \in [Pools -> Scheduler]
              /\ \A q \in Pools : q # p => scheduler'[q] = scheduler[q]
            BY <1>0, <3>1, ZenonT(30) DEF Scheduler
        <3>3. /\ scheduler'[p].dispatcher = scheduler[p].dispatcher
              /\ scheduler'[p].busy = scheduler[p].busy /\ scheduler'[p].exited = scheduler[p].exited
            BY <1>0, <3>1, Zenon DEF Scheduler
        <3> QED BY <1>1, <3>2, <3>3, Zenon DEF Stopped
    <2>2. CASE OwnerReady(p)
        <3>1. /\ scheduler' = [scheduler EXCEPT ![p].dispatcher = "ready"]
              /\ scheduler[p].dispatcher = "waiting" /\ token[p].ready
            BY <2>2, Zenon DEF OwnerReady
        <3>2. /\ scheduler' \in [Pools -> Scheduler]
              /\ \A q \in Pools : q # p => scheduler'[q] = scheduler[q]
            BY <1>0, <3>1, ZenonT(60) DEF Scheduler
        <3>3. scheduler'[p].busy = scheduler[p].busy /\ scheduler'[p].exited = scheduler[p].exited
            BY <1>0, <3>1, Zenon DEF Scheduler
        <3> QED BY <1>1, <3>1, <3>2, <3>3, Zenon DEF Stopped
    <2>3. CASE Dispatch(p)
        <3>1. /\ scheduler' = [scheduler EXCEPT ![p].busy = scheduler[p].busy + 1]
              /\ scheduler[p].dispatcher = "ready"
              /\ scheduler[p].busy + scheduler[p].exited < Workers
            BY <1>0, <2>3, Zenon DEF Dispatch
        <3>2. scheduler[p].busy + 1 \in 0..Workers
            BY <1>1, <3>1
        <3>3. /\ scheduler' \in [Pools -> Scheduler]
              /\ \A q \in Pools : q # p => scheduler'[q] = scheduler[q]
            BY <1>0, <3>1, <3>2, ZenonT(60) DEF Scheduler
        <3>4. /\ scheduler'[p].dispatcher = scheduler[p].dispatcher
              /\ scheduler'[p].busy = scheduler[p].busy + 1
              /\ scheduler'[p].exited = scheduler[p].exited
            BY <1>0, <3>1, Zenon DEF Scheduler
        <3> QED BY <1>1, <3>1, <3>3, <3>4 DEF Stopped
    <2>4. CASE FinishProbe(p)
        <3>1. scheduler[p].busy > 0 /\ token[p].ready /\ ~token[p].done
            BY <1>1, <2>4, SMTT(60) DEF FinishProbe, Stopped
        <3>2. scheduler[p].busy - 1 \in 0..Workers /\ scheduler[p].exited + 1 \in 0..Workers
            BY <1>1, <3>1, SMTT(60)
        <3>3. CASE scheduler' = [scheduler EXCEPT ![p].busy = scheduler[p].busy - 1]
            <4>1. /\ scheduler' \in [Pools -> Scheduler]
                  /\ \A q \in Pools : q # p => scheduler'[q] = scheduler[q]
                BY <1>0, <3>2, <3>3, ZenonT(60) DEF Scheduler
            <4>2. /\ scheduler'[p].dispatcher = scheduler[p].dispatcher
                  /\ scheduler'[p].busy = scheduler[p].busy - 1
                  /\ scheduler'[p].exited = scheduler[p].exited
                BY <1>0, <3>3, Zenon DEF Scheduler
            <4> QED BY <1>1, <3>1, <4>1, <4>2
        <3>4. CASE scheduler' = [scheduler EXCEPT ![p].busy = scheduler[p].busy - 1,
                                                  ![p].exited = scheduler[p].exited + 1]
            <4>1. /\ scheduler' \in [Pools -> Scheduler]
                  /\ \A q \in Pools : q # p => scheduler'[q] = scheduler[q]
                BY <1>0, <3>2, <3>4 DEF Scheduler
            <4>2. /\ scheduler'[p].dispatcher = scheduler[p].dispatcher
                  /\ scheduler'[p].busy = scheduler[p].busy - 1
                  /\ scheduler'[p].exited = scheduler[p].exited + 1
                BY <1>0, <3>4, Zenon DEF Scheduler
            <4> QED BY <1>1, <3>1, <4>1, <4>2, SMTT(60)
        <3> QED BY <1>0, <2>4, <3>3, <3>4, Zenon DEF FinishProbe
    <2>5. CASE WorkerExits(p)
        <3>1. /\ scheduler' = [scheduler EXCEPT ![p].exited = scheduler[p].exited + 1]
              /\ scheduler[p].busy + scheduler[p].exited < Workers
            BY <1>0, <2>5, Zenon DEF WorkerExits
        <3>2. scheduler[p].exited + 1 \in 0..Workers
            BY <1>1, <3>1
        <3>3. /\ scheduler' \in [Pools -> Scheduler]
              /\ \A q \in Pools : q # p => scheduler'[q] = scheduler[q]
            BY <1>0, <3>1, <3>2, ZenonT(60) DEF Scheduler
        <3>4. /\ scheduler'[p].dispatcher = scheduler[p].dispatcher
              /\ scheduler'[p].busy = scheduler[p].busy
              /\ scheduler'[p].exited = scheduler[p].exited + 1
            BY <1>0, <3>1, Zenon DEF Scheduler
        <3>5. ~token[p].done
            BY <1>1, <3>1 DEF Stopped
        <3> QED BY <1>1, <3>1, <3>3, <3>4, <3>5, SMTT(60)
    <2>6. CASE DispatcherExits(p)
        <3>1. scheduler' = [scheduler EXCEPT ![p].dispatcher = "closed"] /\ Alive(p)
            BY <2>6, Zenon DEF DispatcherExits
        <3>2. /\ scheduler' \in [Pools -> Scheduler]
              /\ \A q \in Pools : q # p => scheduler'[q] = scheduler[q]
            BY <1>0, <3>1, ZenonT(60) DEF Scheduler
        <3>3. /\ scheduler'[p].dispatcher = "closed"
              /\ scheduler'[p].busy = scheduler[p].busy /\ scheduler'[p].exited = scheduler[p].exited
            BY <1>0, <3>1, Zenon DEF Scheduler
        <3> QED BY <1>1, <3>1, <3>2, <3>3, Zenon DEF Stopped, Alive
    <2> QED BY <2>1, <2>2, <2>3, <2>4, <2>5, <2>6, Zenon DEF SchedulerStep
  <1>3. TypeOK'
      BY <1>0, <1>2, Zenon DEF OwnershipInv, TypeOK
  <1>4. pool[p].pc \notin {"none", "registered", "prepared", "active"}
      BY DEF SchedulerStep, RevokeSeen, OwnerReady, Dispatch, FinishProbe, WorkerExits,
         DispatcherExits, Alive, OwnershipInv, ClaimOnce, NoScheduler
  <1>5. ClaimOnce'
      BY <1>0, <1>2, <1>4, ZenonT(60) DEF OwnershipInv, ClaimOnce, Claims
  <1>6. Numbered'
      BY <1>0, NumberedFrame, Zenon DEF SameNumbers
  <1>7. Barrier'
      BY <1>0, <1>2, ZenonT(60) DEF OwnershipInv, Barrier, Stopped, Claims
  <1> QED BY <1>3, <1>5, <1>6, <1>7, Zenon DEF OwnershipInv
-----------------------------------------------------------------------------
(* Arithmetic that the claim of the next number needs.                       *)
LEMMA NextNumber ==
    ASSUME NEW G \in Nat
    PROVE  /\ G + 1 \in Nat /\ G <= G + 1 /\ G + 1 \in 1..(G + 1) /\ G <= G
           /\ G = 0 => G + 1 = 1
  OBVIOUS

LEMMA WiderRange ==
    ASSUME NEW a \in Nat, NEW b \in Nat, a <= b, NEW x \in 1..a
    PROVE  x \in 1..b
  OBVIOUS

(* The claim: the new token takes the next number and is ready at once only  *)
(* when the coordinator has no earlier token.                                *)
LEMMA StartSchedulerInv ==
    ASSUME OwnershipInv, NEW p \in Pools, StartScheduler(p)
    PROVE  OwnershipInv'
  <1>a. PICK c : c = pool[p].of
      BY Zenon
  <1>b. PICK G : G = coordinator[c].generation
      BY Zenon
  <1>c. PICK last : last = coordinator[c].drain
      BY Zenon
  <1>0. /\ token \in [Pools -> Token] /\ scheduler \in [Pools -> Scheduler]
        /\ coordinator \in [Coordinators -> Coordinator] /\ pool \in [Pools -> PoolState]
      BY Zenon DEF OwnershipInv, TypeOK
  <1>z. NoToken.of = Nobody
      BY Zenon DEF NoToken
  <1>1. /\ c \in Coordinators /\ c # Nobody /\ token[p] = NoToken /\ scheduler[p] = NoScheduler
        /\ ~Claims(p)
      <2>1. pool[p].pc = "active"
          BY Zenon DEF StartScheduler, At
      <2>2. c \in Coordinators /\ token[p] = NoToken /\ scheduler[p] = NoScheduler
          BY <1>a, <2>1, Zenon DEF OwnershipInv, ClaimOnce
      <2> QED BY <1>z, <2>2, OwnershipConstants, Zenon DEF Claims
  <1>2. /\ G \in Nat /\ last \in Pools \cup {Nobody} /\ last # p
        /\ (last = Nobody) => G = 0
        /\ (last # Nobody) => token[last].of = c /\ token[last].generation = G
        /\ coordinator[c].owner \in {Nobody, last}
      <2>1. G \in Nat /\ last \in Pools \cup {Nobody}
          BY <1>b, <1>c, <1>0, <1>1, Zenon DEF Coordinator
      <2>2. /\ coordinator[c].owner \in {Nobody, last}
            /\ IF last = Nobody THEN G = 0 ELSE token[last].of = c /\ token[last].generation = G
          BY <1>b, <1>c, <1>1, Zenon DEF OwnershipInv, Numbered
      <2>3. last # p
          BY <1>1, <2>1, <2>2, OwnershipConstants, Zenon DEF Claims
      <2> QED BY <2>1, <2>2, <2>3, Zenon
  <1>3. /\ token' = Claimed(p, c)
        /\ coordinator' = [coordinator EXCEPT
               ![c] = [made |-> TRUE, owner |-> p, generation |-> G + 1, drain |-> p]]
        /\ scheduler' = [scheduler EXCEPT ![p].dispatcher = "waiting"]
        /\ pool' = [pool EXCEPT ![p].pc = "running"]
        /\ UNCHANGED <<registered, epochs, schedulers, waiter, waiting, attempt>>
      BY <1>a, <1>b, <1>0, <1>1, Zenon DEF StartScheduler, Go
  <1>n. /\ G + 1 \in Nat /\ G <= G + 1 /\ G + 1 \in 1..(G + 1)
        /\ G = 0 => G + 1 = 1
      BY <1>2, NextNumber, Zenon
  <1>4. /\ coordinator' \in [Coordinators -> Coordinator]
        /\ coordinator'[c].generation = G + 1
        /\ coordinator'[c].drain = p /\ coordinator'[c].owner = p
        /\ \A d \in Coordinators : d # c => coordinator'[d] = coordinator[d]
      <2>1. PICK n : n = [made |-> TRUE, owner |-> p, generation |-> G + 1, drain |-> p]
          BY Zenon
      <2>2. n \in Coordinator /\ n.generation = G + 1 /\ n.drain = p /\ n.owner = p
          BY <1>n, <2>1 DEF Coordinator
      <2>3. coordinator' = [coordinator EXCEPT ![c] = n]
          BY <1>3, <2>1, Zenon
      <2> QED BY <1>0, <1>1, <2>2, <2>3, Zenon
  <1>5. /\ scheduler' \in [Pools -> Scheduler]
        /\ scheduler'[p].dispatcher = "waiting"
        /\ scheduler'[p].busy = 0 /\ scheduler'[p].exited = 0
        /\ \A q \in Pools : q # p => scheduler'[q] = scheduler[q]
      <2>1. /\ scheduler' \in [Pools -> Scheduler]
            /\ \A q \in Pools : q # p => scheduler'[q] = scheduler[q]
          BY <1>0, <1>3, Zenon DEF Scheduler
      <2>2. scheduler'[p] = [scheduler[p] EXCEPT !.dispatcher = "waiting"]
          BY <1>0, <1>3, Zenon
      <2>3. /\ scheduler'[p].dispatcher = "waiting"
            /\ scheduler'[p].busy = 0 /\ scheduler'[p].exited = 0
          BY <1>1, <2>2 DEF NoScheduler
      <2> QED BY <2>1, <2>3, Zenon
  <1>6. token'[p] = [of |-> c, generation |-> G + 1, previous |-> last, revoked |-> FALSE,
                     ready |-> (last = Nobody), done |-> FALSE, drained |-> FALSE]
      BY <1>b, <1>c, <1>3, Zenon DEF Claimed
  <1>7. /\ token'[p] \in Token /\ token'[p].of = c /\ token'[p].generation = G + 1
        /\ token'[p].previous = last /\ token'[p].ready = (last = Nobody)
        /\ ~token'[p].done /\ ~token'[p].drained
      <2>1. PICK first \in BOOLEAN : first = (last = Nobody)
          BY Zenon
      <2>2. PICK number \in Nat : number = G + 1
          BY <1>n, Zenon
      <2>3. PICK t : t = token'[p]
          BY Zenon
      <2>4. t = [of |-> c, generation |-> number, previous |-> last, revoked |-> FALSE,
                 ready |-> first, done |-> FALSE, drained |-> FALSE]
          BY <1>6, <2>1, <2>2, <2>3, Zenon
      <2>5. c \in Coordinators /\ last \in Pools \cup {Nobody}
          BY <1>1, <1>2, Zenon
      <2>6. /\ t.of = c /\ t.generation = number /\ t.previous = last
            /\ t.ready = first /\ ~t.done /\ ~t.drained
          BY <2>4, Zenon
      <2>7. t \in Token
          BY <2>4, <2>5, Zenon DEF Token
      <2> QED BY <2>1, <2>2, <2>3, <2>6, <2>7, Zenon
  <1>8. ASSUME NEW q \in Pools, q # p
        PROVE  /\ token'[q] \in Token
               /\ token'[q].of = token[q].of /\ token'[q].generation = token[q].generation
               /\ token'[q].previous = token[q].previous /\ token'[q].ready = token[q].ready
               /\ token'[q].done = token[q].done /\ token'[q].drained = token[q].drained
               /\ ~Claims(q) => token'[q] = token[q]
      <2>1. token[q] \in Token
          BY <1>0, Zenon
      <2>2. CASE q = coordinator[c].owner
          <3>1. Claims(q)
              BY <1>1, <1>2, <2>2, OwnershipConstants, Zenon DEF Claims
          <3>2. token'[q] = [token[q] EXCEPT !.revoked = TRUE]
              BY <1>3, <1>8, <2>2, Zenon DEF Claimed
          <3> QED BY <2>1, <3>1, <3>2, ZenonT(30) DEF Token
      <2>3. CASE q # coordinator[c].owner
          BY <1>3, <1>8, <2>1, <2>3, Zenon DEF Claimed
      <2> QED BY <2>2, <2>3, Zenon
  <1>9. TypeOK'
      <2>1. token' \in [Pools -> Token]
          BY <1>3, <1>7, <1>8, ZenonT(30) DEF Claimed
      <2>2. pool' \in [Pools -> PoolState]
          BY <1>0, <1>3, ZenonT(60) DEF PoolState
      <2> QED BY <1>3, <1>4, <1>5, <2>1, <2>2, Zenon DEF OwnershipInv, TypeOK
  <1>10. ClaimOnce'
      <2>1. pool'[p].pc = "running" /\ \A q \in Pools : q # p => pool'[q] = pool[q]
          BY <1>0, <1>3, Zenon DEF PoolState
      <2>2. Claims(p)'
          BY <1>1, <1>7, Zenon DEF Claims
      <2>3. ASSUME NEW q \in Pools, q # p
            PROVE  /\ pool'[q] = pool[q] /\ scheduler'[q] = scheduler[q] /\ Claims(q)' = Claims(q)
                   /\ ~Claims(q) => token'[q] = token[q]
          BY <1>5, <1>8, <2>1, <2>3, Zenon DEF Claims
      <2>4. \A q \in Pools : token[q] = NoToken => ~Claims(q)
          BY <1>z, Zenon DEF Claims
      <2>5. ASSUME NEW q \in Pools, q # p
            PROVE  (/\ pool[q].pc \in {"none", "registered", "prepared", "active"} =>
                           token[q] = NoToken /\ scheduler[q] = NoScheduler
                    /\ pool[q].pc \in {"prepared", "active"} => pool[q].of \in Coordinators
                    /\ ~Claims(q) => token[q] = NoToken /\ scheduler[q].dispatcher = "none")'
          BY <2>3, <2>4, <2>5, Zenon DEF OwnershipInv, ClaimOnce
      <2> QED BY <2>1, <2>2, <2>5, Zenon DEF ClaimOnce
  <1>11. Numbered'
      <2>1. ASSUME NEW d \in Coordinators
            PROVE  (LET final == coordinator[d].drain IN
                    /\ coordinator[d].owner \in {Nobody, final}
                    /\ IF final = Nobody THEN coordinator[d].generation = 0
                       ELSE token[final].of = d /\ token[final].generation = coordinator[d].generation)'
          <3>1. CASE d = c
              BY <1>4, <1>7, <3>1, OwnershipConstants, Zenon
          <3>2. CASE d # c
              <4>1. PICK f : f = coordinator[d].drain
                  BY Zenon
              <4>2. coordinator'[d] = coordinator[d] /\ f \in Pools \cup {Nobody}
                  BY <1>0, <1>4, <3>2, <4>1, Zenon DEF Coordinator
              <4>3. /\ coordinator[d].owner \in {Nobody, f}
                    /\ IF f = Nobody THEN coordinator[d].generation = 0
                       ELSE token[f].of = d /\ token[f].generation = coordinator[d].generation
                  BY <4>1, Zenon DEF OwnershipInv, Numbered
              <4>4. f # Nobody => f \in Pools /\ f # p
                  BY <1>1, <4>2, <4>3, OwnershipConstants, Zenon DEF Claims
              <4>5. f # Nobody => token'[f].of = d /\ token'[f].generation = coordinator[d].generation
                  BY <1>8, <4>3, <4>4, Zenon
              <4> QED BY <4>1, <4>2, <4>3, <4>5, Zenon
          <3> QED BY <3>1, <3>2, Zenon
      <2>2. ASSUME NEW q \in Pools, Claims(q)'
            PROVE  (/\ token[q].generation \in 1..coordinator[token[q].of].generation
                    /\ LET before == token[q].previous IN
                       IF before = Nobody THEN token[q].generation = 1
                       ELSE /\ token[before].of = token[q].of
                            /\ token[before].generation + 1 = token[q].generation)'
          <3>1. CASE q = p
              <4>1. token'[q].generation \in 1..coordinator'[token'[q].of].generation
                  <5>1. coordinator'[token'[q].of].generation = G + 1
                      BY <1>4, <1>7, <3>1, Zenon
                  <5> QED BY <1>7, <1>n, <3>1, <5>1, Zenon
              <4>2. CASE last = Nobody
                  <5>1. token'[q].previous = Nobody /\ token'[q].generation = 1
                      BY <1>2, <1>7, <1>n, <3>1, <4>2, Zenon
                  <5> QED BY <4>1, <5>1, Zenon
              <4>3. CASE last # Nobody
                  <5>1. token'[last].of = c /\ token'[last].generation = G
                      BY <1>2, <1>8, <4>3, Zenon
                  <5> QED BY <1>7, <3>1, <4>1, <4>3, <5>1, Zenon
              <4> QED BY <4>2, <4>3, Zenon
          <3>2. CASE q # p
              <4>1. Claims(q) /\ token[q].of \in Coordinators /\ token[q].previous \in Pools \cup {Nobody}
                  BY <1>0, <1>8, <2>2, <3>2, Zenon DEF Claims, Token
              <4>2. PICK b : b = token[q].previous
                  BY Zenon
              <4>3. /\ token[q].generation \in 1..coordinator[token[q].of].generation
                    /\ IF b = Nobody THEN token[q].generation = 1
                       ELSE token[b].of = token[q].of /\ token[b].generation + 1 = token[q].generation
                  BY <4>1, <4>2, Zenon DEF OwnershipInv, Numbered
              <4>4. /\ coordinator'[token[q].of].generation \in Nat
                    /\ coordinator[token[q].of].generation \in Nat
                    /\ coordinator[token[q].of].generation <= coordinator'[token[q].of].generation
                  <5>1. CASE token[q].of = c
                      <6>1. coordinator[token[q].of].generation = G
                            /\ coordinator'[token[q].of].generation = G + 1
                          BY <1>b, <1>4, <5>1, Zenon
                      <6> QED BY <1>2, <1>n, <6>1, Zenon
                  <5>2. CASE token[q].of # c
                      <6>1. coordinator'[token[q].of] = coordinator[token[q].of]
                            /\ coordinator[token[q].of].generation \in Nat
                          BY <1>0, <1>4, <4>1, <5>2, Zenon DEF Coordinator
                      <6> QED BY <6>1, NextNumber, Zenon
                  <5> QED BY <5>1, <5>2, Zenon
              <4>5. token[q].generation \in 1..coordinator'[token[q].of].generation
                  <5>1. PICK old : old = coordinator[token[q].of].generation
                      BY Zenon
                  <5>2. PICK new : new = coordinator'[token[q].of].generation
                      BY Zenon
                  <5>3. old \in Nat /\ new \in Nat /\ old <= new /\ token[q].generation \in 1..old
                      BY <4>3, <4>4, <5>1, <5>2, Zenon
                  <5>4. token[q].generation \in 1..new
                      BY <5>3, WiderRange, Zenon
                  <5> QED BY <5>2, <5>4, Zenon
              <4>6. b # Nobody => b \in Pools /\ b # p
                  BY <1>1, <4>1, <4>2, <4>3, Zenon DEF Claims
              <4>7. b # Nobody => token'[b].of = token[b].of /\ token'[b].generation = token[b].generation
                  BY <1>8, <4>6, Zenon
              <4>8. /\ token'[q].of = token[q].of /\ token'[q].generation = token[q].generation
                    /\ token'[q].previous = b
                  BY <1>8, <3>2, <4>2, Zenon
              <4> QED BY <4>3, <4>5, <4>7, <4>8, Zenon
          <3> QED BY <3>1, <3>2, Zenon
      <2>3. ASSUME NEW q \in Pools, Claims(q), token[q].of = c
            PROVE  token[q].generation \in Nat /\ token[q].generation < G + 1
          <3>1. token[q].generation \in 1..G
              BY <1>b, <2>3, Zenon DEF OwnershipInv, Numbered
          <3> QED BY <1>2, <3>1
      <2>4. ASSUME NEW q \in Pools, q # p, token'[q].of = c
            PROVE  token'[q].generation # G + 1
          <3>1. Claims(q) /\ token[q].of = c /\ token'[q].generation = token[q].generation
              BY <1>1, <1>8, <2>4, Zenon DEF Claims
          <3>2. token[q].generation \in Nat /\ token[q].generation < G + 1
              BY <2>3, <3>1, Zenon
          <3> QED BY <1>2, <3>1, <3>2
      <2>5. ASSUME NEW q \in Pools, NEW r \in Pools, q # r, Claims(q)', token'[q].of = token'[r].of
            PROVE  token'[q].generation # token'[r].generation
          <3>1. CASE q # p /\ r # p
              <4>1. Claims(q) /\ token[q].of = token[r].of
                  BY <1>8, <2>5, <3>1, Zenon DEF Claims
              <4>2. token[q].generation # token[r].generation
                  BY <2>5, <4>1, ZenonT(60) DEF OwnershipInv, Numbered
              <4> QED BY <1>8, <3>1, <4>2, Zenon
          <3>2. CASE q = p
              BY <1>7, <2>4, <2>5, <3>2, Zenon
          <3>3. CASE r = p
              BY <1>7, <2>4, <2>5, <3>3, Zenon
          <3> QED BY <3>1, <3>2, <3>3, Zenon
      <2> QED BY <2>1, <2>2, <2>5, ZenonT(60) DEF Numbered
  <1>12. Barrier'
      <2>1. ASSUME NEW q \in Pools, NEW r \in Pools, Claims(q)', token'[q].of = token'[r].of,
                   token'[q].generation < token'[r].generation, token'[r].ready
            PROVE  token'[q].drained
          <3>1. CASE q # p /\ r # p
              <4>1. Claims(q) /\ token[q].of = token[r].of
                    /\ token[q].generation < token[r].generation /\ token[r].ready
                  BY <1>8, <2>1, <3>1, Zenon DEF Claims
              <4>2. token[q].drained
                  BY <4>1, Zenon DEF OwnershipInv, Barrier
              <4> QED BY <1>8, <3>1, <4>2, Zenon
          <3>2. CASE r = p
              <4>1. last = Nobody /\ G = 0
                  BY <1>2, <1>7, <2>1, <3>2, Zenon
              <4>2. CASE q = p
                  <5>1. G + 1 < G + 1
                      BY <1>7, <2>1, <3>2, <4>2, Zenon
                  <5> QED BY <1>2, <5>1
              <4>3. CASE q # p
                  <5>1. Claims(q) /\ token[q].of = c
                      BY <1>7, <1>8, <2>1, <3>2, <4>3, ZenonT(60) DEF Claims
                  <5>2. token[q].generation \in 1..0
                      BY <1>b, <4>1, <5>1, ZenonT(60) DEF OwnershipInv, Numbered
                  <5> QED BY <5>2
              <4> QED BY <4>2, <4>3, Zenon
          <3>3. CASE q = p /\ r # p
              <4>1. Claims(r) /\ token[r].of = c /\ G + 1 < token[r].generation
                  BY <1>1, <1>7, <1>8, <2>1, <3>3, Zenon DEF Claims
              <4>2. token[r].generation \in 1..G
                  BY <1>b, <4>1, Zenon DEF OwnershipInv, Numbered
              <4> QED BY <1>2, <4>1, <4>2
          <3> QED BY <3>1, <3>2, <3>3, Zenon
      <2>2. ASSUME NEW q \in Pools
            PROVE  (/\ token[q].drained => token[q].ready /\ token[q].done
                    /\ token[q].done => Stopped(q)
                    /\ scheduler[q].dispatcher = "ready" \/ scheduler[q].busy > 0 => token[q].ready
                    /\ scheduler[q].busy + scheduler[q].exited <= Workers)'
          <3>1. CASE q = p
              <4>1. ~(0 > 0) /\ 0 + 0 <= Workers
                  BY OwnershipConstants
              <4> QED BY <1>5, <1>7, <3>1, <4>1, Zenon
          <3>2. CASE q # p
              <4>1. /\ token[q].drained => token[q].ready /\ token[q].done
                    /\ token[q].done => Stopped(q)
                    /\ scheduler[q].dispatcher = "ready" \/ scheduler[q].busy > 0 => token[q].ready
                    /\ scheduler[q].busy + scheduler[q].exited <= Workers
                  BY Zenon DEF OwnershipInv, Barrier
              <4>2. scheduler'[q] = scheduler[q] /\ token'[q].ready = token[q].ready
                    /\ token'[q].done = token[q].done /\ token'[q].drained = token[q].drained
                  BY <1>5, <1>8, <3>2, Zenon
              <4> QED BY <4>1, <4>2, Zenon DEF Stopped
          <3> QED BY <3>1, <3>2, Zenon
      <2> QED BY <2>1, <2>2, Zenon DEF Barrier
  <1> QED BY <1>9, <1>10, <1>11, <1>12, Zenon DEF OwnershipInv
-----------------------------------------------------------------------------
LEMMA OwnershipNextInv == OwnershipInv /\ [Next]_vars => OwnershipInv'
  <1> SUFFICES ASSUME OwnershipInv, [Next]_vars PROVE OwnershipInv'
      BY Zenon
  <1>1. ASSUME NEW p \in Pools, PoolStep(p) PROVE OwnershipInv'
      BY <1>1, PoolStepInv, StartSchedulerInv, Zenon
  <1>2. ASSUME NEW p \in Pools, TokenStep(p) PROVE OwnershipInv'
      BY <1>2, TokenStepInv, Zenon
  <1>3. ASSUME NEW p \in Pools, SchedulerStep(p) PROVE OwnershipInv'
      BY <1>3, SchedulerStepInv, Zenon
  <1>4. ASSUME NEW d \in Attempts, DialStep(d) PROVE OwnershipInv'
      BY <1>4, DialStepInv, Zenon
  <1>5. ASSUME NEW w \in waiting, DrainWaiter(w) PROVE OwnershipInv'
      BY <1>5, DrainWaiterInv, Zenon
  <1>6. CASE UNCHANGED vars
      BY <1>6, ZenonT(60) DEF vars, OwnershipInv, TypeOK, ClaimOnce, Numbered, Barrier, Claims, Stopped
  <1> QED BY <1>1, <1>2, <1>3, <1>4, <1>5, <1>6, Zenon DEF Next

(* The inductive invariant holds throughout: tokens are numbered without     *)
(* gaps and a ready token of Claim has only drained predecessors.            *)
THEOREM OwnershipInvTheorem == Spec => []OwnershipInv
  BY OwnershipInitInv, OwnershipNextInv, PTL DEF Spec

(* Probes of two schedulers of one coordinator never overlap, whatever the   *)
(* number of pools that hand the ownership over and of workers that still    *)
(* run when their scheduler is revoked.                                      *)
THEOREM OneProberTheorem == Spec => []OneProber
  BY OwnershipInvTheorem, InvExcludes, PTL

(* A step that changes the set of drain waiters drops the coordinator only   *)
(* when no pool is registered.                                               *)
LEMMA WaiterStep ==
    ASSUME [Next]_vars, waiting' # waiting, NEW p \in registered PROVE schedulers' = schedulers
  <1>1. ASSUME TryDelete PROVE schedulers' = schedulers
      BY <1>1, Zenon DEF TryDelete
  <1>2. ASSUME NEW w \in waiting, DrainWaiter(w) PROVE schedulers' = schedulers
      BY <1>2, Zenon DEF DrainWaiter, Unused
  <1>3. ASSUME NEW q \in Pools, PoolStep(q) PROVE schedulers' = schedulers
      BY <1>1, <1>3, Zenon DEF PoolStep, RegisterGroup, Lookup, Publish, StartScheduler, RetireEpoch,
         Abandon, Release, CloseScheduler, UnregisterGroup, CheckUnused, Cleanup
  <1>4. ASSUME NEW q \in Pools, TokenStep(q) \/ SchedulerStep(q) PROVE schedulers' = schedulers
      BY <1>4, Zenon DEF TokenStep, TokenReady, TokenDrained, MarkDone, SchedulerStep, RevokeSeen,
         OwnerReady, Dispatch, FinishProbe, WorkerExits, DispatcherExits
  <1>5. ASSUME NEW d \in Attempts, DialStep(d) PROVE schedulers' = schedulers
      BY <1>1, <1>5, Zenon DEF DialStep, AcquireEpoch, ReleaseEpoch, DialChecksUnused, DialCleanup
  <1> QED BY <1>2, <1>3, <1>4, <1>5, Zenon DEF Next, vars

(* A drain waiter never takes the coordinator from a registered pool         *)
(* (the goroutine of tryCleanupScheduler looks at the group again).          *)
THEOREM WaiterKeepsCoordinatorTheorem == Spec => WaiterKeepsCoordinator
  <1>1. [Next]_vars =>
          [\A p \in registered :
             (waiting' # waiting /\ schedulers # Nobody /\ schedulers = pool[p].of)
                 => schedulers' = schedulers]_vars
      BY WaiterStep, ZenonT(60)
  <1> QED BY <1>1, PTL DEF Spec, WaiterKeepsCoordinator

-----------------------------------------------------------------------------
(* The reservations of session leases. *)

(* The initial state satisfies the inductive invariant. *)
LEMMA LeaseInitInv == LeaseInit => LeaseInv
BY NoneIsFresh DEF LeaseInit, LeaseInv, StateTypeOK, TokensIdentifyReservations,
   LiveReservationIsPending, WaitersShareKey, NoAbandonedReservation,
   PendingExcludesLease, IdleDial, LeaseDial, Lease, Pending, Handle

(* Returning a live lease keeps the invariant. *)
LEMMA HitInv ==
    ASSUME LeaseInv, NEW d \in Dials, NEW k \in Keys, NEW at \in Nat, Hit(d, k, at),
           dial[d].pc \in {"idle", "waiting"}
    PROVE  LeaseInv'
<1> USE NoneIsFresh DEF LeaseInv, Hit, reservations, Live
<1>1. StateTypeOK'
  BY SMTT(60) DEF StateTypeOK, LeaseDial, Lease
<1>2. TokensIdentifyReservations'
  BY DEF StateTypeOK, TokensIdentifyReservations, LeaseDial
<1>3. LiveReservationIsPending'
  BY Zenon DEF StateTypeOK, LiveReservationIsPending, PendingOwnedBy, LeaseDial
<1>4. WaitersShareKey'
  BY Zenon DEF StateTypeOK, WaitersShareKey, LeaseDial
<1>5. NoAbandonedReservation'
  <2> SUFFICES ASSUME NEW j \in Keys, pending[j] # None
               PROVE  \E e \in Dials : (Holds(e, j) /\ PendingOwnedBy(e))'
    BY Zenon DEF NoAbandonedReservation
  <2>1. PICK e \in Dials : Holds(e, j) /\ PendingOwnedBy(e)
    BY Zenon DEF NoAbandonedReservation
  <2>2. e # d
    BY <2>1, Zenon DEF Holds
  <2>3. (Holds(e, j) /\ PendingOwnedBy(e))'
    BY <2>1, <2>2, Zenon DEF StateTypeOK, Holds, PendingOwnedBy, LeaseDial
  <2> QED BY <2>3, Zenon
<1>6. PendingExcludesLease'
  BY Zenon DEF PendingExcludesLease
<1> QED BY <1>1, <1>2, <1>3, <1>4, <1>5, <1>6, ZenonT(60)

(* Going to sleep on another call's reservation keeps the invariant. *)
LEMMA JoinInv ==
    ASSUME LeaseInv, NEW d \in Dials, NEW k \in Keys, NEW at \in Nat, Join(d, k, at),
           dial[d].pc \in {"idle", "waiting"}
    PROVE  LeaseInv'
<1> USE NoneIsFresh DEF LeaseInv, Join, reservations, RemoveLocked
<1>1. StateTypeOK'
  BY ZenonT(60) DEF StateTypeOK, LeaseDial, Pending
<1>2. TokensIdentifyReservations'
  BY DEF StateTypeOK, TokensIdentifyReservations, LeaseDial
<1>3. LiveReservationIsPending'
  BY Zenon DEF StateTypeOK, LiveReservationIsPending, PendingOwnedBy, LeaseDial
<1>4. WaitersShareKey'
  BY Zenon DEF StateTypeOK, WaitersShareKey, LeaseDial
<1>5. NoAbandonedReservation'
  <2> SUFFICES ASSUME NEW j \in Keys, pending[j] # None
               PROVE  \E e \in Dials : (Holds(e, j) /\ PendingOwnedBy(e))'
    BY Zenon DEF NoAbandonedReservation
  <2>1. PICK e \in Dials : Holds(e, j) /\ PendingOwnedBy(e)
    BY Zenon DEF NoAbandonedReservation
  <2>2. e # d
    BY <2>1, Zenon DEF Holds
  <2>3. (Holds(e, j) /\ PendingOwnedBy(e))'
    BY <2>1, <2>2, Zenon DEF StateTypeOK, Holds, PendingOwnedBy, LeaseDial
  <2> QED BY <2>3, Zenon
<1>6. PendingExcludesLease'
  BY Zenon DEF PendingExcludesLease, StateTypeOK
<1> QED BY <1>1, <1>2, <1>3, <1>4, <1>5, <1>6, Zenon

(* Becoming the leader of a key keeps the invariant: the token is fresh. *)
LEMMA LeadInv ==
    ASSUME LeaseInv, NEW d \in Dials, NEW k \in Keys, NEW at \in Nat, Lead(d, k, at),
           dial[d].pc \in {"idle", "waiting"}
    PROVE  LeaseInv'
<1> USE NoneIsFresh DEF LeaseInv, Lead, RemoveLocked
<1>1. StateTypeOK'
  BY DEF StateTypeOK, LeaseDial, Pending
<1>2. TokensIdentifyReservations'
  <2>1. \A j \in Keys : pending'[j] # None =>
          pending'[j].gen = generation' /\ pending'[j].token <= nextToken'
    BY SMTT(60) DEF StateTypeOK, TokensIdentifyReservations, Pending
  <2>2. \A i, j \in Keys :
          (pending'[i] # None /\ pending'[j] # None /\ pending'[i].token = pending'[j].token) => i = j
    BY SMTT(60) DEF StateTypeOK, TokensIdentifyReservations, Pending
  <2>3. \A e \in Dials : dial'[e].pc \in {"waiting", "reserved"} => dial'[e].token <= nextToken'
    BY SMTT(60) DEF StateTypeOK, TokensIdentifyReservations, LeaseDial
  <2>6. \A e \in Dials : dial'[e].pc = "reserved" => dial'[e].gen <= generation'
    BY SMTT(60) DEF StateTypeOK, TokensIdentifyReservations, LeaseDial
  <2>4. \A e, f \in Dials :
          (dial'[e].pc = "reserved" /\ dial'[f].pc = "reserved" /\ dial'[e].token = dial'[f].token) => e = f
    BY SMTT(60) DEF StateTypeOK, TokensIdentifyReservations, LeaseDial
  <2>5. \A t \in open' : \E j \in Keys : pending'[j] # None /\ pending'[j].token = t
    BY SMTT(60) DEF StateTypeOK, TokensIdentifyReservations, Pending
  <2> QED BY <2>1, <2>2, <2>3, <2>4, <2>5, <2>6, ZenonT(60) DEF TokensIdentifyReservations
<1>3. LiveReservationIsPending'
  BY SMTT(60) DEF StateTypeOK, LiveReservationIsPending, PendingOwnedBy, LeaseDial, Pending
<1>4. WaitersShareKey'
  BY SMTT(60) DEF StateTypeOK, WaitersShareKey, TokensIdentifyReservations, LeaseDial
<1>5. NoAbandonedReservation'
  <2> SUFFICES ASSUME NEW j \in Keys, pending'[j] # None
               PROVE  \E e \in Dials : (Holds(e, j) /\ PendingOwnedBy(e))'
    BY Zenon DEF NoAbandonedReservation
  <2>1. CASE j = k
    <3>1. (Holds(d, j) /\ PendingOwnedBy(d))'
      BY <2>1, Zenon DEF StateTypeOK, Holds, PendingOwnedBy, LeaseDial
    <3> QED BY <3>1, Zenon
  <2>2. CASE j # k
    <3>1. PICK e \in Dials : Holds(e, j) /\ PendingOwnedBy(e)
      BY <2>2, Zenon DEF NoAbandonedReservation, StateTypeOK
    <3>2. (Holds(e, j) /\ PendingOwnedBy(e))'
      BY <2>2, <3>1, Zenon DEF StateTypeOK, Holds, PendingOwnedBy, LeaseDial
    <3> QED BY <3>2, Zenon
  <2> QED BY <2>1, <2>2, Zenon
<1>6. PendingExcludesLease'
  BY Zenon DEF PendingExcludesLease, StateTypeOK
<1> QED BY <1>1, <1>2, <1>3, <1>4, <1>5, <1>6, ZenonT(60)

(* Ending a call that holds a reservation keeps the invariant, whatever it   *)
(* writes to the table, as long as only a key whose reservation it owned may *)
(* become leased.                                                            *)
LEMMA FinishReservedInv ==
    ASSUME LeaseInv, NEW d \in Dials, dial[d].pc = "reserved",
           FinishPending(d), dial' = Finished(d),
           UNCHANGED <<now, generation, nextToken>>,
           leases' \in [Keys -> Lease \cup {None}],
           \A k \in Keys : leases'[k] # None =>
               leases[k] # None \/ (k = dial[d].key /\ PendingOwnedBy(d))
    PROVE  LeaseInv'
<1> DEFINE k == dial[d].key
<1> USE NoneIsFresh DEF LeaseInv, Finished, IdleDial
<1>0. k \in Keys /\ dial[d].gen \in Nat /\ dial[d].token \in Nat
  BY Zenon DEF StateTypeOK, LeaseDial
<1>a. \A e \in Dials : e # d => dial'[e] = dial[e]
  BY Zenon DEF StateTypeOK
<1>b. dial'[d].pc = "done"
  BY Zenon DEF StateTypeOK, LeaseDial
<1>c. CASE PendingOwnedBy(d)
  <2>0. /\ pending' = [pending EXCEPT ![k] = None]
        /\ open' = open \ {dial[d].token}
        /\ pending[k] = [gen |-> dial[d].gen, token |-> dial[d].token]
        /\ pending[k] # None
    BY <1>c, <1>0 DEF FinishPending, PendingOwnedBy, Pending
  <2>1. StateTypeOK'
    BY <2>0, <1>0, Zenon DEF StateTypeOK, LeaseDial
  <2>2. TokensIdentifyReservations'
    BY <2>0, <1>0, <1>a, <1>b DEF StateTypeOK, TokensIdentifyReservations, Pending
  <2>3. LiveReservationIsPending'
    <3> SUFFICES ASSUME NEW e \in Dials, e # d, dial[e].pc = "reserved", dial[e].gen = generation
                 PROVE  PendingOwnedBy(e)'
      BY <1>a, <1>b, Zenon DEF LiveReservationIsPending
    <3>1. PendingOwnedBy(e) /\ dial[e].key \in Keys
      BY Zenon DEF LiveReservationIsPending, StateTypeOK, LeaseDial
    <3>2. dial[e].key # k
      BY <3>1, <2>0 DEF PendingOwnedBy, TokensIdentifyReservations, StateTypeOK
    <3> QED BY <3>1, <3>2, <2>0, <1>a, Zenon DEF PendingOwnedBy, StateTypeOK
  <2>4. WaitersShareKey'
    <3> SUFFICES ASSUME NEW e \in Dials, e # d, dial[e].pc = "waiting", dial[e].token \in open'
                 PROVE  pending'[dial[e].key] # None /\ pending'[dial[e].key].token = dial[e].token
      BY <1>a, <1>b DEF WaitersShareKey
    <3> QED BY <2>0, <1>0 DEF WaitersShareKey, StateTypeOK, LeaseDial
  <2>5. NoAbandonedReservation'
    <3> SUFFICES ASSUME NEW j \in Keys, pending'[j] # None
                 PROVE  \E e \in Dials : (Holds(e, j) /\ PendingOwnedBy(e))'
      BY Zenon DEF NoAbandonedReservation
    <3>1. j # k /\ pending'[j] = pending[j]
      BY <2>0, Zenon DEF StateTypeOK
    <3>2. PICK e \in Dials : Holds(e, j) /\ PendingOwnedBy(e)
      BY <3>1, Zenon DEF NoAbandonedReservation
    <3>3. (Holds(e, j) /\ PendingOwnedBy(e))'
      BY <3>1, <3>2, <1>a, Zenon DEF Holds, PendingOwnedBy
    <3> QED BY <3>3, Zenon
  <2>6. PendingExcludesLease'
    BY <2>0, <1>0, Zenon DEF PendingExcludesLease, StateTypeOK
  <2> QED BY <2>1, <2>2, <2>3, <2>4, <2>5, <2>6, Zenon
<1>d. CASE ~PendingOwnedBy(d)
  <2>0. UNCHANGED <<pending, open>>
    BY <1>d, Zenon DEF FinishPending
  <2>1. StateTypeOK'
    BY <2>0, <1>0, Zenon DEF StateTypeOK, LeaseDial
  <2>2. TokensIdentifyReservations'
    BY <2>0, <1>a, <1>b DEF TokensIdentifyReservations
  <2>3. LiveReservationIsPending'
    BY <2>0, <1>a, <1>b DEF LiveReservationIsPending, PendingOwnedBy
  <2>4. WaitersShareKey'
    BY <2>0, <1>a, <1>b DEF WaitersShareKey
  <2>5. NoAbandonedReservation'
    <3> SUFFICES ASSUME NEW j \in Keys, pending[j] # None
                 PROVE  \E e \in Dials : (Holds(e, j) /\ PendingOwnedBy(e))'
      BY <2>0, Zenon DEF NoAbandonedReservation
    <3>1. PICK e \in Dials : Holds(e, j) /\ PendingOwnedBy(e)
      BY Zenon DEF NoAbandonedReservation
    <3>2. e # d
      BY <3>1, <1>d, Zenon
    <3>3. (Holds(e, j) /\ PendingOwnedBy(e))'
      BY <3>1, <3>2, <2>0, <1>a, Zenon DEF Holds, PendingOwnedBy
    <3> QED BY <3>3, Zenon
  <2>6. PendingExcludesLease'
    BY <2>0, <1>d, Zenon DEF PendingExcludesLease
  <2> QED BY <2>1, <2>2, <2>3, <2>4, <2>5, <2>6, Zenon
<1> QED BY <1>c, <1>d, Zenon

(* Every step that leaves the reservations alone and makes no free key       *)
(* leased keeps the invariant; so does the end of a call that holds none.    *)
LEMMA TableStepInv ==
    ASSUME LeaseInv, UNCHANGED <<reservations, generation>>,
           now' \in Nat, leases' \in [Keys -> Lease \cup {None}],
           \A k \in Keys : leases'[k] # None => leases[k] # None,
           \/ dial' = dial
           \/ \E d \in Dials : dial[d].pc # "reserved" /\ dial' = Finished(d)
    PROVE  LeaseInv'
<1> USE NoneIsFresh DEF LeaseInv, Finished, IdleDial, reservations
<1>0. PICK d : \/ dial' = dial
               \/ d \in Dials /\ dial[d].pc # "reserved" /\ dial' = Finished(d)
  BY Zenon
<1>a. \A e \in Dials : \/ dial'[e] = dial[e]
                       \/ dial[e].pc # "reserved" /\ dial'[e].pc = "done"
  BY <1>0 DEF StateTypeOK, LeaseDial
<1>1. StateTypeOK'
  BY <1>0, SMTT(60) DEF StateTypeOK, LeaseDial
<1>2. TokensIdentifyReservations'
  BY <1>a DEF TokensIdentifyReservations
<1>3. LiveReservationIsPending'
  BY <1>a, Zenon DEF LiveReservationIsPending, PendingOwnedBy
<1>4. WaitersShareKey'
  BY <1>a, Zenon DEF WaitersShareKey
<1>5. NoAbandonedReservation'
  <2> SUFFICES ASSUME NEW j \in Keys, pending[j] # None
               PROVE  \E e \in Dials : (Holds(e, j) /\ PendingOwnedBy(e))'
    BY Zenon DEF NoAbandonedReservation
  <2>1. PICK e \in Dials : Holds(e, j) /\ PendingOwnedBy(e)
    BY Zenon DEF NoAbandonedReservation
  <2>2. (Holds(e, j) /\ PendingOwnedBy(e))'
    BY <2>1, <1>a, Zenon DEF Holds, PendingOwnedBy
  <2> QED BY <2>2, Zenon
<1>6. PendingExcludesLease'
  BY Zenon DEF PendingExcludesLease
<1> QED BY <1>1, <1>2, <1>3, <1>4, <1>5, <1>6, Zenon

(* Clear keeps the invariant: no reservation of the old generation is left.  *)
LEMMA ClearInv == LeaseInv /\ Clear => LeaseInv'
<1> SUFFICES ASSUME LeaseInv, Clear PROVE LeaseInv'
  BY Zenon
<1> USE NoneIsFresh DEF LeaseInv
<1>0. open' = {}
  <2> SUFFICES ASSUME NEW t \in open PROVE t \notin open'
    BY Zenon DEF Clear
  <2>1. PICK k \in Keys : pending[k] # None /\ pending[k].token = t
    BY Zenon DEF TokensIdentifyReservations
  <2> QED BY <2>1, Zenon DEF Clear
<1>a. /\ generation' = generation + 1
      /\ leases' = [k \in Keys |-> None]
      /\ pending' = [k \in Keys |-> None]
      /\ UNCHANGED <<now, nextToken, dial>>
  BY Zenon DEF Clear
<1>b. \A d \in Dials : dial[d].pc = "reserved" => dial[d].gen <= generation
  BY Zenon DEF TokensIdentifyReservations
<1>1. StateTypeOK'
  BY <1>0, <1>a, SMTT(60) DEF StateTypeOK
<1>2. TokensIdentifyReservations'
  BY <1>0, <1>a, SMTT(60) DEF StateTypeOK, LeaseDial, TokensIdentifyReservations
<1>3. LiveReservationIsPending'
  BY <1>a, <1>b DEF LiveReservationIsPending, StateTypeOK, LeaseDial
<1>4. WaitersShareKey'
  BY <1>0, Zenon DEF WaitersShareKey
<1>5. NoAbandonedReservation'
  BY <1>a, Zenon DEF NoAbandonedReservation
<1>6. PendingExcludesLease'
  BY <1>a, Zenon DEF PendingExcludesLease
<1> QED BY <1>1, <1>2, <1>3, <1>4, <1>5, <1>6, Zenon

(* Every step keeps the invariant. *)
LEMMA LeaseNextInv == LeaseInv /\ [LeaseNext]_leaseVars => LeaseInv'
<1> SUFFICES ASSUME LeaseInv, [LeaseNext]_leaseVars PROVE LeaseInv'
  BY Zenon
<1> USE NoneIsFresh, LeaseConstants
<1>0. StateTypeOK
  BY Zenon DEF LeaseInv
<1>1. ASSUME NEW d \in Dials, NEW k \in Keys, Reserve(d, k) PROVE LeaseInv'
  BY <1>1, <1>0, HitInv, JoinInv, LeadInv, Zenon DEF Reserve, TryReserve, StateTypeOK
<1>2. ASSUME NEW d \in Dials, Wake(d) PROVE LeaseInv'
  <2>1. dial[d].key \in Keys /\ dial[d].at \in Nat
    BY <1>2, <1>0, Zenon DEF Wake, StateTypeOK, LeaseDial
  <2> QED BY <1>2, <2>1, HitInv, JoinInv, LeadInv, Zenon DEF Wake, TryReserve
<1>3. ASSUME NEW d \in Dials, Cancel(d) PROVE LeaseInv'
  BY <1>3, <1>0, TableStepInv, Zenon DEF Cancel, table, StateTypeOK
<1>4. ASSUME NEW d \in Dials, NEW h \in Handle, CommitHandle(d, h) PROVE LeaseInv'
  <2>1. dial[d].pc = "reserved" /\ dial' = Finished(d) /\ UNCHANGED <<now, generation, nextToken>>
    BY <1>4, Zenon DEF CommitHandle
  <2>2. CASE dial[d].gen = generation /\ PendingOwnedBy(d)
    <3>1. FinishPending(d) /\ Insert(dial[d].key, [handle |-> h, expires |-> now + TTL])
      BY <1>4, <2>2, Zenon DEF CommitHandle
    <3>2. [handle |-> h, expires |-> now + TTL] \in Lease
      BY <1>0 DEF StateTypeOK, Lease
    <3>3. leases' \in [Keys -> Lease \cup {None}]
      BY <1>0, <3>1, <3>2, ZenonT(30) DEF StateTypeOK, Insert
    <3>4. \A k \in Keys : leases'[k] # None => leases[k] # None \/ k = dial[d].key
      BY <1>0, <3>1, Zenon DEF StateTypeOK, Insert
    <3> QED BY <2>1, <2>2, <3>1, <3>3, <3>4, FinishReservedInv, Zenon
  <2>3. CASE ~(dial[d].gen = generation /\ PendingOwnedBy(d))
    <3>1. UNCHANGED <<table, pending, open>>
      BY <1>4, <2>3, Zenon DEF CommitHandle
    <3>2. ~PendingOwnedBy(d)
      <4> SUFFICES ASSUME PendingOwnedBy(d) PROVE dial[d].gen = generation
        BY <2>3, Zenon
      <4>1. dial[d].key \in Keys /\ dial[d].gen \in Nat /\ dial[d].token \in Nat
        BY <2>1, <1>0, ZenonT(60) DEF StateTypeOK, LeaseDial
      <4>2. pending[dial[d].key] # None /\ pending[dial[d].key].gen = dial[d].gen
        BY <4>1 DEF PendingOwnedBy, Pending
      <4> QED BY <4>1, <4>2, Zenon DEF LeaseInv, TokensIdentifyReservations
    <3>3. FinishPending(d)
      BY <3>1, <3>2, Zenon DEF FinishPending
    <3> QED BY <2>1, <3>1, <3>3, <1>0, FinishReservedInv, Zenon DEF table, StateTypeOK
  <2> QED BY <2>2, <2>3, Zenon
<1>5. ASSUME NEW d \in Dials, Abort(d) PROVE LeaseInv'
  BY <1>5, <1>0, FinishReservedInv, Zenon DEF Abort, table, StateTypeOK
<1>6. ASSUME NEW d \in Dials, NEW h \in Handle, ReplaceHandle(d, h) PROVE LeaseInv'
  <2>1. leases' \in [Keys -> Lease \cup {None}]
    BY <1>6, <1>0 DEF ReplaceHandle, table, StateTypeOK, Lease
  <2>2. \A k \in Keys : leases'[k] # None => leases[k] # None
    BY <1>6, <1>0, Zenon DEF ReplaceHandle, table, StateTypeOK
  <2> QED BY <1>6, <1>0, <2>1, <2>2, TableStepInv, Zenon DEF ReplaceHandle, StateTypeOK
<1>7. ASSUME NEW d \in Dials, RenewHandle(d) PROVE LeaseInv'
  <2>1. leases' \in [Keys -> Lease \cup {None}]
    BY <1>7, <1>0 DEF RenewHandle, table, StateTypeOK, Lease
  <2>2. \A k \in Keys : leases'[k] # None => leases[k] # None
    BY <1>7, <1>0, Zenon DEF RenewHandle, table, StateTypeOK
  <2> QED BY <1>7, <1>0, <2>1, <2>2, TableStepInv, Zenon DEF RenewHandle, StateTypeOK
<1>8. ASSUME NEW d \in Dials, FailLeased(d) PROVE LeaseInv'
  BY <1>8, <1>0, TableStepInv, Zenon DEF FailLeased, table, StateTypeOK
<1>9. ASSUME NEW k \in Keys, NEW n \in Nodes, Invalidate(k, n) PROVE LeaseInv'
  BY <1>9, <1>0, TableStepInv, Zenon DEF Invalidate, RemoveLocked, StateTypeOK
<1>10. ASSUME NEW h \in Handle, RetireNodeHandle(h) PROVE LeaseInv'
  BY <1>10, <1>0, TableStepInv, Zenon DEF RetireNodeHandle, RemoveLocked, StateTypeOK
<1>11. CASE Clear
  BY <1>11, ClearInv, Zenon
<1>12. CASE Tick
  BY <1>12, <1>0, TableStepInv DEF Tick, table, StateTypeOK
<1>13. CASE UNCHANGED leaseVars
  BY <1>13, <1>0, TableStepInv, Zenon DEF leaseVars, reservations, StateTypeOK
<1> QED
  BY <1>1, <1>2, <1>3, <1>4, <1>5, <1>6, <1>7, <1>8, <1>9, <1>10, <1>11, <1>12, <1>13, Zenon
  DEF LeaseNext, Finish, AllDone

(* The reservation protocol of lease.go keeps its inductive invariant for    *)
(* every number of dials, keys and entries.                                  *)
THEOREM LeaseInvariant == LeaseSpec => []LeaseInv
<1>1. LeaseInit => LeaseInv
  BY LeaseInitInv, Zenon
<1>2. LeaseInv /\ [LeaseNext]_leaseVars => LeaseInv'
  BY LeaseNextInv, Zenon
<1> QED BY <1>1, <1>2, PTL DEF LeaseSpec

(* Reserve elects at most one leader per session (lease.go Reserve). *)
THEOREM SingleLeaderTheorem == LeaseSpec => []SingleLeader
<1>1. LeaseInv => SingleLeader
  <2> SUFFICES ASSUME LeaseInv, NEW k \in Keys, NEW d \in Dials, NEW e \in Dials,
                      Holds(d, k), Holds(e, k), dial[d].gen = generation, dial[e].gen = generation
               PROVE  d = e
    BY Zenon DEF SingleLeader
  <2>1. PendingOwnedBy(d) /\ PendingOwnedBy(e)
    BY Zenon DEF LeaseInv, LiveReservationIsPending, Holds
  <2>2. dial[d].token = dial[e].token
    BY <2>1, SMTT(60) DEF PendingOwnedBy, Holds
  <2> QED BY <2>2, Zenon DEF LeaseInv, TokensIdentifyReservations, Holds
<1> QED BY <1>1, LeaseInvariant, PTL

(* A call asleep in Reserve always has a leader that will wake it. *)
THEOREM WaitersHaveLeaderTheorem == LeaseSpec => []WaitersHaveLeader
<1>1. LeaseInv => WaitersHaveLeader
  <2> SUFFICES ASSUME LeaseInv, NEW d \in Dials, dial[d].pc = "waiting", dial[d].token \in open
               PROVE  \E e \in Dials : /\ Holds(e, dial[d].key)
                                        /\ dial[e].token = dial[d].token
                                        /\ PendingOwnedBy(e)
    BY Zenon DEF WaitersHaveLeader
  <2>1. dial[d].key \in Keys
    BY Zenon DEF LeaseInv, StateTypeOK, LeaseDial
  <2>2. pending[dial[d].key] # None /\ pending[dial[d].key].token = dial[d].token
    BY Zenon DEF LeaseInv, WaitersShareKey
  <2>3. PICK e \in Dials : Holds(e, dial[d].key) /\ PendingOwnedBy(e)
    BY <2>1, <2>2, Zenon DEF LeaseInv, NoAbandonedReservation
  <2>4. dial[e].token = dial[d].token
    BY <2>2, <2>3, SMTT(60) DEF Holds, PendingOwnedBy
  <2> QED BY <2>3, <2>4, Zenon
<1> QED BY <1>1, LeaseInvariant, PTL

(* A commit never inserts over a live lease, so no list element is orphaned. *)
THEOREM PendingExcludesLeaseTheorem == LeaseSpec => []PendingExcludesLease
<1>1. LeaseInv => PendingExcludesLease
  BY Zenon DEF LeaseInv
<1> QED BY <1>1, LeaseInvariant, PTL

(* What a step may write to the table, on which both action properties of    *)
(* the lease table rest: the entry of a key stays, goes, is inserted by the  *)
(* commit of a live reservation of the key, is renewed, or is moved by a     *)
(* dial that was given the handle it replaces.                               *)
Inserts(d, k) ==
    /\ leases[k] = None /\ Holds(d, k) /\ dial[d].gen = generation /\ dial'[d].pc = "done"

Moves(d, k) ==
    /\ dial[d].pc = "leased" /\ dial[d].key = k
    /\ dial[d].seen = leases[k].handle /\ dial'[d].pc = "done"

TableWrite(k) ==
    \/ leases'[k] \in {leases[k], None}
    \/ \E d \in Dials : Inserts(d, k)
    \/ leases[k] # None /\ leases'[k].handle = leases[k].handle
    \/ leases[k] # None /\ \E d \in Dials : Moves(d, k)

LEMMA TableWrites ==
    ASSUME LeaseInv, [LeaseNext]_leaseVars, NEW k \in Keys
    PROVE  TableWrite(k)
<1> USE NoneIsFresh
<1>0. StateTypeOK
  BY Zenon DEF LeaseInv
<1>1. ASSUME UNCHANGED leases PROVE TableWrite(k)
  BY <1>1, Zenon DEF TableWrite
<1>2. ASSUME NEW K, RemoveLocked(K) PROVE TableWrite(k)
  BY <1>2, Zenon DEF RemoveLocked, TableWrite
<1>3. ASSUME NEW d \in Dials, NEW j, NEW at, TryReserve(d, j, at) PROVE TableWrite(k)
  BY <1>1, <1>2, <1>3, Zenon DEF TryReserve, Hit, Join, Lead
<1>4. ASSUME NEW d \in Dials, NEW h \in Handle, CommitHandle(d, h) PROVE TableWrite(k)
  <2>1. CASE dial[d].gen = generation /\ PendingOwnedBy(d)
    <3> DEFINE lease == [handle |-> h, expires |-> now + TTL]
    <3>1. /\ Insert(dial[d].key, lease) /\ dial[d].pc = "reserved" /\ dial' = Finished(d)
          /\ dial[d].key \in Keys /\ dial[d].gen \in Nat /\ dial[d].token \in Nat
      BY <1>4, <2>1, <1>0, Zenon DEF CommitHandle, StateTypeOK, LeaseDial
    <3>2. CASE k = dial[d].key
      <4>1. pending[k] # None
        BY <2>1, <3>1, <3>2, SMTT(60) DEF PendingOwnedBy, Pending
      <4>2. leases[k] = None
        BY <4>1, Zenon DEF LeaseInv, PendingExcludesLease
      <4>3. dial'[d].pc = "done"
        BY <3>1, <1>0, Zenon DEF Finished, IdleDial, StateTypeOK
      <4>4. Inserts(d, k)
        BY <4>2, <4>3, <3>1, <3>2, <2>1, Zenon DEF Inserts, Holds
      <4> QED BY <4>4, ZenonT(60) DEF TableWrite
    <3>3. CASE k # dial[d].key
      <4> HIDE DEF lease
      <4>1. leases'[k] \in {leases[k], None}
        BY <3>1, <3>3, <1>0, Zenon DEF Insert, StateTypeOK
      <4> QED BY <4>1, Zenon DEF TableWrite
    <3> QED BY <3>2, <3>3, Zenon
  <2>2. CASE ~(dial[d].gen = generation /\ PendingOwnedBy(d))
    BY <1>1, <1>4, <2>2, Zenon DEF CommitHandle, table
  <2> QED BY <2>1, <2>2, Zenon
<1>5. ASSUME NEW d \in Dials, NEW h \in Handle, ReplaceHandle(d, h) PROVE TableWrite(k)
  <2>1. CASE UNCHANGED leases
    BY <1>1, <2>1, Zenon
  <2>2. CASE leases[dial[d].key] # None /\ leases[dial[d].key].handle = dial[d].seen
    <3>1. dial'[d].pc = "done"
      BY <1>5, <1>0, Zenon DEF ReplaceHandle, Finished, IdleDial, StateTypeOK
    <3>2. CASE k = dial[d].key
      <4>1. Moves(d, k) /\ leases[k] # None
        BY <1>5, <2>2, <3>1, <3>2, Zenon DEF ReplaceHandle, Moves
      <4> QED BY <4>1, Zenon DEF TableWrite
    <3>3. CASE k # dial[d].key
      <4>1. leases'[k] = leases[k]
        BY <1>5, <3>3, <1>0, Zenon DEF ReplaceHandle, table, StateTypeOK
      <4> QED BY <4>1, Zenon DEF TableWrite
    <3> QED BY <3>2, <3>3, Zenon
  <2> QED BY <1>5, <2>1, <2>2, Zenon DEF ReplaceHandle, table
<1>6. ASSUME NEW d \in Dials, RenewHandle(d) PROVE TableWrite(k)
  <2>1. \/ leases'[k] = leases[k]
        \/ leases[k] # None /\ leases'[k].handle = leases[k].handle
    BY <1>6, <1>0 DEF RenewHandle, table, StateTypeOK, Lease, LeaseDial
  <2> QED BY <2>1, Zenon DEF TableWrite
<1>7. CASE Clear
  BY <1>7, Zenon DEF Clear, TableWrite
<1>8. ASSUME NEW d \in Dials, Cancel(d) \/ Finish(d) PROVE TableWrite(k)
  BY <1>1, <1>4, <1>5, <1>6, <1>8, Zenon DEF Cancel, Finish, Abort, FailLeased, table
<1>9. CASE Tick \/ AllDone \/ UNCHANGED leaseVars
  BY <1>1, <1>9, Zenon DEF Tick, AllDone, leaseVars, table
<1>10. ASSUME NEW d \in Dials, Wake(d) \/ \E j \in Keys : Reserve(d, j) PROVE TableWrite(k)
  BY <1>3, <1>10, Zenon DEF Wake, Reserve
<1>11. ASSUME NEW j \in Keys, NEW n \in Nodes, Invalidate(j, n) PROVE TableWrite(k)
  BY <1>2, <1>11, Zenon DEF Invalidate
<1>12. ASSUME NEW h \in Handle, RetireNodeHandle(h) PROVE TableWrite(k)
  BY <1>2, <1>12, Zenon DEF RetireNodeHandle
<1> QED BY <1>7, <1>8, <1>9, <1>10, <1>11, <1>12, Zenon DEF LeaseNext

(* Clear is a fence (lease.go Clear, CommitHandle): a key becomes leased     *)
(* only by the commit of a reservation made after the last control change.   *)
THEOREM ClearFenceTheorem == LeaseSpec => ClearFence
<1>1. LeaseInv /\ [LeaseNext]_leaseVars =>
        [\A k \in Keys : (leases[k] = None /\ leases'[k] # None) =>
            \E d \in Dials : Holds(d, k) /\ dial[d].gen = generation /\ dial'[d].pc = "done"]_leaseVars
  BY TableWrites, Zenon DEF TableWrite, Inserts
<1> QED BY <1>1, LeaseInvariant, PTL DEF LeaseSpec, ClearFence

(* No lost update (lease.go ReplaceHandle): a lease is moved only by a dial  *)
(* that was given the handle it replaces.                                    *)
THEOREM NoLostUpdateTheorem == LeaseSpec => NoLostUpdate
<1>1. LeaseInv /\ [LeaseNext]_leaseVars =>
        [\A k \in Keys :
            (leases[k] # None /\ leases'[k] # None /\ leases'[k].handle # leases[k].handle) =>
            \E d \in Dials : /\ dial[d].pc = "leased" /\ dial[d].key = k
                             /\ dial[d].seen = leases[k].handle /\ dial'[d].pc = "done"]_leaseVars
  BY TableWrites, Zenon DEF TableWrite, Inserts, Moves
<1> QED BY <1>1, LeaseInvariant, PTL DEF LeaseSpec, NoLostUpdate
=============================================================================
