------------------------ MODULE AttemptRunnerProofs ------------------------
(***************************************************************************)
(* DialInv is inductive for a plan of any length, and implies what Dial    *)
(* promises its caller and its candidates.                                 *)
(***************************************************************************)
EXTENDS AttemptRunner, FiniteSetTheorems, SequenceTheorems, TLAPS

LEMMA AttemptsFinite == IsFiniteSet(Attempts) /\ Cardinality(Attempts) = N
<1>1. 1 \in Int /\ N \in Int /\ 1 <= N
  BY RunnerConstants
<1>2. IsFiniteSet(1..N) /\ Cardinality(1..N) = IF 1 > N THEN 0 ELSE N - 1 + 1
  BY <1>1, FS_Interval, Zenon
<1> QED
  BY <1>1, <1>2, SMTT(60) DEF Attempts

LEMMA SubsetsFinite ==
  ASSUME NEW S, S \subseteq Attempts
  PROVE  IsFiniteSet(S) /\ Cardinality(S) \in 0..N
<1>1. IsFiniteSet(S) /\ Cardinality(S) <= Cardinality(Attempts)
  BY AttemptsFinite, FS_Subset, Zenon
<1>2. Cardinality(S) \in Nat
  BY <1>1, FS_CardinalityType, Zenon
<1> QED
  BY <1>1, <1>2, AttemptsFinite, RunnerConstants

LEMMA AppendFacts ==
  ASSUME NEW S, NEW s \in Seq(S), NEW e \in S
  PROVE  /\ Append(s, e) \in Seq(S)
         /\ DOMAIN Append(s, e) = 1..(Len(s) + 1)
         /\ Append(s, e)[Len(s) + 1] = e
         /\ \A n \in DOMAIN s : Append(s, e)[n] = s[n]
         /\ \A n \in DOMAIN Append(s, e) : n \in DOMAIN s \/ n = Len(s) + 1
         /\ \A n \in DOMAIN s : n \in DOMAIN Append(s, e)
         /\ Len(s) + 1 \in DOMAIN Append(s, e)
<1>1. Len(s) \in Nat /\ DOMAIN s = 1..Len(s)
  OBVIOUS
<1>2. Append(s, e) \in Seq(S) /\ Len(Append(s, e)) = Len(s) + 1
  BY AppendProperties, Zenon
<1>3. DOMAIN Append(s, e) = 1..(Len(s) + 1)
  BY <1>2
<1>4. Append(s, e)[Len(s) + 1] = e /\ \A n \in DOMAIN s : Append(s, e)[n] = s[n]
  BY <1>1, AppendProperties
<1> QED
  BY <1>1, <1>2, <1>3, <1>4

LEMMA TailFacts ==
  ASSUME NEW S, NEW s \in Seq(S), s # <<>>
  PROVE  /\ Tail(s) \in Seq(S) /\ Head(s) \in S /\ Head(s) = s[1] /\ 1 \in DOMAIN s
         /\ \A n \in DOMAIN Tail(s) : n \in Nat \ {0} /\ n + 1 \in DOMAIN s /\ Tail(s)[n] = s[n + 1]
         /\ \A n \in DOMAIN s : n # 1 => n - 1 \in DOMAIN Tail(s) /\ Tail(s)[n - 1] = s[n]
  BY SMTT(60)

(* A step of the goroutine of attempt i, seen from the loop: nobody else's   *)
(* state changes, and i is in the channel exactly when it ends with a result.*)
LEMMA LocalStep ==
  ASSUME DialInv, NEW i \in Attempts, UNCHANGED <<ctx, hedge, run>>,
         attempt' \in [Attempts -> Attempt],
         \A j \in Attempts : j # i => attempt'[j] = attempt[j],
         calls' \in [Publishers -> Call],
         \A j \in Attempts : j # i => calls'[j] = calls[j],
         ~At(i, "none"), attempt'[i].pc # "none",
         \/ ~Ended(i) /\ ~Ended(i)' /\ results' = results
         \/ ~Ended(i) /\ Ended(i)' /\ attempt'[i].send # None /\ results' = Append(results, i)
         \/ ~Ended(i) /\ Ended(i)' /\ attempt'[i].send = None /\ results' = results
         \/ Ended(i) /\ Ended(i)' /\ attempt'[i].send = attempt[i].send /\ results' = results,
         bindings' \in [refs : 0..N, retiring : BOOLEAN, freed : BOOLEAN],
         HoldsByPhase(i)', ReportsByPhase(i)', BindingsCounted'
  PROVE  DialInv'
<1>0. /\ results \in Seq(Attempts) /\ results' \in Seq(Attempts)
      /\ DOMAIN results = 1..Len(results) /\ Len(results) \in Nat
  <2>1. results \in Seq(Attempts)
    BY Zenon DEF DialInv, TypeOK
  <2>2. Append(results, i) \in Seq(Attempts)
    BY <2>1
  <2>3. results' \in {results, Append(results, i)}
    BY Zenon
  <2> QED BY <2>1, <2>2, <2>3
<1>a. results' = Append(results, i) =>
        /\ DOMAIN results' = 1..(Len(results) + 1)
        /\ results'[Len(results) + 1] = i
        /\ \A n \in DOMAIN results : results'[n] = results[n]
        /\ \A n \in DOMAIN results' : n \in DOMAIN results \/ n = Len(results) + 1
        /\ \A n \in DOMAIN results : n \in DOMAIN results'
        /\ Len(results) + 1 \in DOMAIN results'
  <2>1. results \in Seq(Attempts)
    BY <1>0, Zenon
  <2> HIDE DEF Attempts
  <2> QED BY <2>1, AppendFacts
<1>1. TypeOK'
  BY <1>0, Zenon DEF DialInv, TypeOK
<1>2. \A j \in Attempts : HoldsByPhase(j)' /\ ReportsByPhase(j)'
  <2> SUFFICES ASSUME NEW j \in Attempts, j # i PROVE HoldsByPhase(j)' /\ ReportsByPhase(j)'
    BY Zenon
  <2>1. attempt'[j] = attempt[j] /\ calls'[j] = calls[j] /\ HoldsByPhase(j) /\ ReportsByPhase(j)
    BY ZenonT(60) DEF DialInv
  <2>2. HoldsByPhase(j)'
    BY <2>1, SMTT(60) DEF HoldsByPhase, At, Ended
  <2>3. ReportsByPhase(j)'
    BY <2>1 DEF ReportsByPhase, At, Ended, Cancelled
  <2> QED BY <2>2, <2>3, Zenon
<1>3. \A j \in Attempts : j # i => (Ended(j)' <=> Ended(j)) /\ (InChannel(j)' <=> InChannel(j))
  <2> SUFFICES ASSUME NEW j \in Attempts, j # i
               PROVE  (Ended(j)' <=> Ended(j)) /\ (InChannel(j)' <=> InChannel(j))
    BY Zenon
  <2>1. Ended(j)' <=> Ended(j)
    BY Zenon DEF Ended
  <2>2. CASE results' = results
    BY <2>1, <2>2, Zenon DEF InChannel
  <2>3. CASE results' = Append(results, i)
    <3>1. ASSUME InChannel(j) PROVE InChannel(j)'
      <4>1. PICK n \in DOMAIN results : results[n] = j
        BY <3>1, Zenon DEF InChannel
      <4>2. n \in DOMAIN results' /\ results'[n] = j
        BY <1>a, <2>3, <4>1, Zenon
      <4> QED BY <4>2, Zenon DEF InChannel
    <3>2. ASSUME InChannel(j)' PROVE InChannel(j)
      <4>1. PICK n \in DOMAIN results' : results'[n] = j
        BY <3>2, Zenon DEF InChannel
      <4>2. n # Len(results) + 1
        <5>1. results'[Len(results) + 1] = i
          BY <1>a, <2>3, Zenon
        <5> QED BY <4>1, <5>1, Zenon
      <4>3. n \in DOMAIN results
        BY <1>a, <2>3, <4>2, Zenon
      <4>4. results[n] = j
        BY <1>a, <2>3, <4>1, <4>3, ZenonT(60)
      <4> QED BY <4>3, <4>4, Zenon DEF InChannel
    <3> QED BY <2>1, <3>1, <3>2, ZenonT(60)
  <2> QED BY <2>2, <2>3, Zenon
<1>4. ~Ended(i) => ~InChannel(i)
  BY Zenon DEF DialInv, LoopCounts, InChannel
<1>5. Outstanding' = Outstanding
  <2>1. \A j \in Attempts : j # i => (j \in Outstanding' <=> j \in Outstanding)
    BY <1>3, Zenon DEF Outstanding
  <2>2. i \in Outstanding' <=> i \in Outstanding
    <3>1. CASE ~Ended(i) /\ ~Ended(i)'
      BY <3>1, Zenon DEF Outstanding
    <3>2. CASE ~Ended(i) /\ Ended(i)' /\ attempt'[i].send # None /\ results' = Append(results, i)
      <4>1. InChannel(i)'
        BY <1>0, <1>a, <3>2, ZenonT(30) DEF InChannel
      <4> QED BY <3>2, <4>1, Zenon DEF Outstanding
    <3>3. CASE ~Ended(i) /\ Ended(i)' /\ attempt'[i].send = None
      BY <3>3, Zenon DEF Outstanding
    <3>4. CASE Ended(i) /\ Ended(i)' /\ attempt'[i].send = attempt[i].send /\ results' = results
      BY <3>4, Zenon DEF Outstanding, InChannel
    <3> QED BY <3>1, <3>2, <3>3, <3>4, Zenon
  <2>3. Outstanding \subseteq Attempts /\ Outstanding' \subseteq Attempts
    BY Zenon DEF Outstanding, Attempts
  <2>4. \A x : x \in Outstanding' <=> x \in Outstanding
    BY <2>1, <2>2, <2>3, SMTT(30)
  <2> QED BY <2>4, ZenonT(30)
<1>6. LoopCounts'
  <2>1. \A j \in Attempts : At(j, "none")' <=> j > run'.started
    <3> SUFFICES ASSUME NEW j \in Attempts PROVE attempt'[j].pc = "none" <=> j > run.started
      BY Zenon DEF At
    <3>1. attempt[j].pc = "none" <=> j > run.started
      BY Zenon DEF DialInv, LoopCounts, At
    <3>2. attempt[i].pc # "none" /\ attempt'[i].pc # "none"
      BY Zenon DEF At
    <3> QED BY <3>1, <3>2, Zenon
  <2>2. \A n \in DOMAIN results : /\ results[n] \in Attempts
                                  /\ attempt'[results[n]].pc \in {"sent", "gone"}
                                  /\ attempt'[results[n]].send # None
    <3> SUFFICES ASSUME NEW n \in DOMAIN results
                 PROVE  /\ results[n] \in Attempts
                        /\ attempt'[results[n]].pc \in {"sent", "gone"}
                        /\ attempt'[results[n]].send # None
      BY Zenon
    <3>1. results[n] \in Attempts /\ Ended(results[n]) /\ attempt[results[n]].send # None
      BY <1>0 DEF DialInv, LoopCounts
    <3>2. CASE results[n] = i
      BY <3>1, <3>2, Zenon DEF Ended
    <3>3. CASE results[n] # i
      BY <3>1, <3>3, Zenon DEF Ended
    <3> QED BY <3>2, <3>3, Zenon
  <2>a. \A n, m \in DOMAIN results : results[n] = results[m] => n = m
    BY Zenon DEF DialInv, LoopCounts
  <2>b. /\ \A n \in DOMAIN results' : /\ attempt'[results'[n]].pc \in {"sent", "gone"}
                                      /\ attempt'[results'[n]].send # None
        /\ \A n, m \in DOMAIN results' : results'[n] = results'[m] => n = m
    <3>1. CASE results' = results
      BY <3>1, <2>2, <2>a, Zenon
    <3>2. CASE ~Ended(i) /\ Ended(i)' /\ attempt'[i].send # None /\ results' = Append(results, i)
      <4>1. \A n \in DOMAIN results : results[n] # i
        BY <1>4, <3>2, Zenon DEF InChannel
      <4>2. attempt'[i].pc \in {"sent", "gone"} /\ attempt'[i].send # None
        BY <3>2, Zenon DEF Ended
      <4>3. \A n \in DOMAIN results' : /\ attempt'[results'[n]].pc \in {"sent", "gone"}
                                       /\ attempt'[results'[n]].send # None
        BY <2>2, <4>2, <1>a, <3>2, SMTT(30)
      <4>4. \A n, m \in DOMAIN results' : results'[n] = results'[m] => n = m
        BY <4>1, <2>a, <1>a, <3>2, SMTT(60)
      <4> QED BY <4>3, <4>4, Zenon
    <3> QED BY <3>1, <3>2, Zenon
  <2>3. run'.winner = None => \A j \in Attempts :
          j <= run'.started /\ j \notin Outstanding' => attempt'[j].send \in {"error", "deferred"}
    <3> SUFFICES ASSUME run.winner = None, NEW j \in Attempts, j <= run.started, j \notin Outstanding
                 PROVE  attempt'[j].send \in {"error", "deferred"}
      BY <1>5, Zenon
    <3>1. attempt[j].send \in {"error", "deferred"}
      BY Zenon DEF DialInv, LoopCounts
    <3>2. Ended(j)
      BY Zenon DEF Outstanding
    <3>3. CASE j = i
      BY <3>1, <3>2, <3>3, Zenon
    <3>4. CASE j # i
      BY <3>1, <3>4, SMTT(30)
    <3> QED BY <3>3, <3>4, Zenon
  <2>4. run'.winner = None => run'.active = Cardinality(Outstanding')
    BY <1>5, Zenon DEF DialInv, LoopCounts
  <2>5. run' = run /\ LoopCounts
    BY Zenon DEF DialInv
  <2> QED BY <2>1, <2>b, <2>3, <2>4, <2>5, SMTT(30) DEF LoopCounts, Ended
<1>7. OneAtATime'
  <2> SUFFICES ASSUME ~hedge, NEW j \in Attempts, j < run.started PROVE Ended(j)' /\ ~InChannel(j)'
    BY Zenon DEF DialInv, OneAtATime
  <2>1. Ended(j) /\ ~InChannel(j)
    BY Zenon DEF DialInv, OneAtATime
  <2>2. CASE j # i
    BY <2>1, <2>2, <1>3, Zenon
  <2>3. CASE j = i
    BY <2>1, <2>3, Zenon DEF InChannel
  <2> QED BY <2>2, <2>3, Zenon
<1> QED BY <1>1, <1>2, <1>6, <1>7, Zenon DEF DialInv

(* What an action that leaves the bindings and the execution leases alone    *)
(* owes them: nothing.                                                       *)
LEMMA BindingsFrame ==
  ASSUME DialInv, bindings' = bindings, \A j \in Attempts : attempt'[j].exec = attempt[j].exec
  PROVE  /\ bindings' \in [refs : 0..N, retiring : BOOLEAN, freed : BOOLEAN]
         /\ BindingsCounted'
<1>1. Executing' = Executing
  BY Zenon DEF Executing
<1> QED
  BY <1>1, Zenon DEF DialInv, TypeOK, BindingsCounted

(* The types of one attempt and of its publication.                          *)
LEMMA AttemptTypes ==
  ASSUME DialInv, NEW i \in Attempts
  PROVE  /\ attempt \in [Attempts -> Attempt] /\ attempt[i] \in Attempt
         /\ calls \in [Publishers -> Call] /\ calls[i] \in Call
         /\ Publishers = Attempts /\ HoldsByPhase(i) /\ ReportsByPhase(i)
  BY RunnerConstants, Zenon DEF DialInv, TypeOK, Attempts

LEMMA ReportFacts ==
  ASSUME DialInv, NEW i \in Attempts, NEW e \in Evidence, Report(i, e)
  PROVE  /\ calls' \in [Publishers -> Call] /\ \A j \in Attempts : j # i => calls'[j] = calls[j]
         /\ calls'[i].pc = "begun" /\ calls'[i].evidence = e /\ calls'[i].permit = "held"
  BY AttemptTypes, Zenon DEF Report, Publish, Call

LEMMA ReturnFacts ==
  ASSUME DialInv, NEW i \in Attempts, At(i, "completing"), Return(i)
  PROVE  /\ calls' \in [Publishers -> Call] /\ \A j \in Attempts : j # i => calls'[j] = calls[j]
         /\ calls'[i].pc = "done" /\ calls'[i].evidence = calls[i].evidence /\ calls'[i].permit # "held"
         /\ calls'[i].permit = "completed" => calls'[i].evidence = "eligible"
<1>0. /\ attempt \in [Attempts -> Attempt] /\ attempt[i] \in Attempt
      /\ calls \in [Publishers -> Call] /\ calls[i] \in Call
      /\ Publishers = Attempts /\ HoldsByPhase(i) /\ ReportsByPhase(i)
  BY AttemptTypes, Zenon
<1>1. PICK permit \in {"none", "completed", "released"} :
        /\ permit = "completed" => calls[i].evidence = "eligible"
        /\ calls' = [calls EXCEPT ![i] =
              [pc |-> "done", evidence |-> calls[i].evidence, permit |-> permit]]
  BY ZenonT(30) DEF Return
<1>2. PICK c : c = [pc |-> "done", evidence |-> calls[i].evidence, permit |-> permit]
  BY Zenon
<1>3. /\ c \in Call /\ c.pc = "done" /\ c.evidence = calls[i].evidence /\ c.permit = permit
  BY <1>0, <1>2, Zenon DEF Call
<1>4. calls' = [calls EXCEPT ![i] = c]
  BY <1>1, <1>2, Zenon
<1> QED
  BY <1>0, <1>1, <1>3, <1>4, ZenonT(60)

(* An execution lease is taken.                                              *)
LEMMA TakeExecution ==
  ASSUME DialInv, NEW i \in Attempts, ~attempt[i].exec, attempt'[i].exec, ~bindings.retiring,
         \A j \in Attempts : j # i => attempt'[j] = attempt[j],
         bindings' = [bindings EXCEPT !.refs = @ + 1]
  PROVE  /\ bindings' \in [refs : 0..N, retiring : BOOLEAN, freed : BOOLEAN]
         /\ BindingsCounted'
<1>1. /\ bindings \in [refs : 0..N, retiring : BOOLEAN, freed : BOOLEAN]
      /\ bindings.refs = Cardinality(Executing) /\ ~bindings.freed
  BY Zenon DEF DialInv, TypeOK, BindingsCounted
<1>2. Executing' = Executing \cup {i} /\ i \notin Executing
  BY Zenon DEF Executing
<1>3. IsFiniteSet(Executing) /\ Cardinality(Executing') \in 0..N
  BY SubsetsFinite, Zenon DEF Executing
<1>4. Cardinality(Executing') = Cardinality(Executing) + 1
  BY <1>2, <1>3, FS_AddElement, ZenonT(30)
<1>5. /\ bindings'.refs = Cardinality(Executing') /\ bindings'.retiring = bindings.retiring
      /\ bindings'.freed = bindings.freed
  BY <1>1, <1>4, Zenon
<1>6. bindings' \in [refs : 0..N, retiring : BOOLEAN, freed : BOOLEAN]
  BY <1>1, <1>3, <1>5, Zenon
<1> QED
  BY <1>1, <1>5, <1>6, Zenon DEF BindingsCounted

(* An execution lease is released; the last one of a retired set frees it.   *)
LEMMA ReleaseExecution ==
  ASSUME DialInv, NEW i \in Attempts, attempt[i].exec, ~attempt'[i].exec, Unref,
         \A j \in Attempts : j # i => attempt'[j] = attempt[j]
  PROVE  /\ bindings' \in [refs : 0..N, retiring : BOOLEAN, freed : BOOLEAN]
         /\ BindingsCounted'
<1>1. /\ bindings \in [refs : 0..N, retiring : BOOLEAN, freed : BOOLEAN]
      /\ bindings.refs = Cardinality(Executing)
      /\ bindings.freed <=> bindings.retiring /\ bindings.refs = 0
  BY Zenon DEF DialInv, TypeOK, BindingsCounted
<1>2. Executing' = Executing \ {i} /\ i \in Executing
  BY Zenon DEF Executing
<1>3. IsFiniteSet(Executing) /\ Cardinality(Executing) \in 0..N /\ Cardinality(Executing') \in 0..N
  BY SubsetsFinite, Zenon DEF Executing
<1>4. Cardinality(Executing') = Cardinality(Executing) - 1
  BY <1>2, <1>3, FS_RemoveElement, ZenonT(30)
<1>5. bindings.refs > 0 /\ ~bindings.freed
  BY <1>1, <1>3, <1>4, SMTT(60)
<1>6. bindings' = [bindings EXCEPT !.refs = bindings.refs - 1,
                     !.freed = bindings.freed \/ (bindings.retiring /\ bindings.refs - 1 = 0)]
  BY <1>5, ZenonT(30) DEF Unref
<1>7. /\ bindings'.refs = Cardinality(Executing') /\ bindings'.retiring = bindings.retiring
      /\ bindings'.freed = (bindings.freed \/ (bindings.retiring /\ bindings.refs - 1 = 0))
  BY <1>1, <1>4, <1>6, Zenon
<1>8. bindings' \in [refs : 0..N, retiring : BOOLEAN, freed : BOOLEAN]
  BY <1>1, <1>3, <1>6, <1>7, ZenonT(30)
<1> QED
  BY <1>1, <1>4, <1>5, <1>7, <1>8, Zenon DEF BindingsCounted

LEMMA DeferredInv == ASSUME DialInv, NEW i \in Attempts, Deferred(i) PROVE DialInv'
<1>0. /\ attempt \in [Attempts -> Attempt] /\ attempt[i] \in Attempt
      /\ calls \in [Publishers -> Call] /\ calls[i] \in Call
      /\ Publishers = Attempts /\ HoldsByPhase(i) /\ ReportsByPhase(i)
  BY AttemptTypes, Zenon
<1>1. /\ attempt[i].pc = "started" /\ attempt' = [attempt EXCEPT ![i].pc = "sent", ![i].send = "deferred"]
      /\ results' = Append(results, i) /\ UNCHANGED <<ctx, hedge, run>> /\ bindings' = bindings /\ calls' = calls
  BY Zenon DEF Deferred, At
<1>2. attempt' \in [Attempts -> Attempt] /\ \A j \in Attempts : j # i => attempt'[j] = attempt[j]
  BY <1>0, <1>1, ZenonT(30) DEF Attempt, Result, Outcome
<1>3. /\ attempt'[i].pc = "sent" /\ attempt'[i].outcome = attempt[i].outcome /\ attempt'[i].lease = attempt[i].lease
      /\ attempt'[i].exec = attempt[i].exec /\ attempt'[i].send = "deferred"
  BY <1>0, <1>1, Zenon DEF Attempt
<1>4. HoldsByPhase(i)'
  BY <1>0, <1>1, <1>3, Zenon DEF HoldsByPhase, ReportsByPhase, At, Ended
<1>5. ReportsByPhase(i)'
  BY <1>0, <1>1, <1>3, RunnerConstants, Zenon DEF HoldsByPhase, ReportsByPhase, At, Ended, Cancelled
<1>6. bindings' \in [refs : 0..N, retiring : BOOLEAN, freed : BOOLEAN] /\ BindingsCounted'
  BY <1>0, <1>1, <1>2, <1>3, BindingsFrame, SMTT(30)
<1> QED
  BY <1>0, <1>1, <1>2, <1>3, <1>4, <1>5, <1>6, LocalStep, RunnerConstants, ZenonT(60) DEF Ended, At

LEMMA BeginAttemptInv == ASSUME DialInv, NEW i \in Attempts, BeginAttempt(i) PROVE DialInv'
<1>0. /\ attempt \in [Attempts -> Attempt] /\ attempt[i] \in Attempt
      /\ calls \in [Publishers -> Call] /\ calls[i] \in Call
      /\ Publishers = Attempts /\ HoldsByPhase(i) /\ ReportsByPhase(i)
  BY AttemptTypes, Zenon
<1>1. /\ attempt[i].pc = "started" /\ attempt' = [attempt EXCEPT ![i].pc = "begun", ![i].lease = TRUE]
      /\ results' = results /\ UNCHANGED <<ctx, hedge, run>> /\ bindings' = bindings /\ calls' = calls
  BY Zenon DEF BeginAttempt, At
<1>2. attempt' \in [Attempts -> Attempt] /\ \A j \in Attempts : j # i => attempt'[j] = attempt[j]
  BY <1>0, <1>1, ZenonT(30) DEF Attempt, Result, Outcome
<1>3. /\ attempt'[i].pc = "begun" /\ attempt'[i].outcome = attempt[i].outcome /\ attempt'[i].lease = TRUE
      /\ attempt'[i].exec = attempt[i].exec /\ attempt'[i].send = attempt[i].send
  BY <1>0, <1>1, Zenon DEF Attempt
<1>4. HoldsByPhase(i)'
  BY <1>0, <1>1, <1>3, Zenon DEF HoldsByPhase, ReportsByPhase, At, Ended
<1>5. ReportsByPhase(i)'
  BY <1>0, <1>1, <1>3, RunnerConstants, ZenonT(60) DEF HoldsByPhase, ReportsByPhase, At, Ended, Cancelled
<1>6. bindings' \in [refs : 0..N, retiring : BOOLEAN, freed : BOOLEAN] /\ BindingsCounted'
  BY <1>0, <1>1, <1>2, <1>3, BindingsFrame, ZenonT(60)
<1> QED
  BY <1>0, <1>1, <1>2, <1>3, <1>4, <1>5, <1>6, LocalStep, RunnerConstants, SMTT(30) DEF Ended, At

LEMMA ResolveInv == ASSUME DialInv, NEW i \in Attempts, Resolve(i) PROVE DialInv'
<1>0. /\ attempt \in [Attempts -> Attempt] /\ attempt[i] \in Attempt
      /\ calls \in [Publishers -> Call] /\ calls[i] \in Call
      /\ Publishers = Attempts /\ HoldsByPhase(i) /\ ReportsByPhase(i)
  BY AttemptTypes, Zenon
<1>1. attempt[i].pc = "begun" /\ results' = results /\ UNCHANGED <<ctx, hedge, run>>
  BY Zenon DEF Resolve, At
<1>2. CASE bindings.retiring
  <2>1. attempt' = [attempt EXCEPT ![i].pc = "completing", ![i].outcome = "unbound", ![i].send = "error"] /\ Report(i, "eligible") /\ bindings' = bindings
    BY <1>2, Zenon DEF Resolve
  <2>a. /\ calls' \in [Publishers -> Call] /\ \A j \in Attempts : j # i => calls'[j] = calls[j]
        /\ calls'[i].pc = "begun" /\ calls'[i].evidence = "eligible" /\ calls'[i].permit = "held"
    BY <2>1, ReportFacts, Zenon DEF Evidence
  <2>2. attempt' \in [Attempts -> Attempt] /\ \A j \in Attempts : j # i => attempt'[j] = attempt[j]
    BY <1>0, <1>1, <2>1, ZenonT(30) DEF Attempt, Result, Outcome
  <2>3. /\ attempt'[i].pc = "completing" /\ attempt'[i].outcome = "unbound" /\ attempt'[i].lease = attempt[i].lease
        /\ attempt'[i].exec = attempt[i].exec /\ attempt'[i].send = "error"
    BY <1>0, <1>1, <2>1, ZenonT(60) DEF Attempt
  <2>4. HoldsByPhase(i)'
    BY <1>0, <1>1, <2>1, <2>3, <2>a, ZenonT(60) DEF HoldsByPhase, ReportsByPhase, At, Ended
  <2>5. ReportsByPhase(i)'
    BY <1>0, <1>1, <2>1, <2>3, <2>a, RunnerConstants, ZenonT(60) DEF HoldsByPhase, ReportsByPhase, At, Ended, Cancelled
  <2>6. bindings' \in [refs : 0..N, retiring : BOOLEAN, freed : BOOLEAN] /\ BindingsCounted'
    BY <1>0, <1>1, <2>1, <2>2, <2>3, BindingsFrame, SMTT(30)
  <2> QED
    BY <1>0, <1>1, <2>1, <2>2, <2>3, <2>4, <2>5, <2>6, <2>a, LocalStep, RunnerConstants, ZenonT(30) DEF Ended, At
<1>3. CASE ~bindings.retiring
  <2>1. attempt' = [attempt EXCEPT ![i].pc = "bound", ![i].exec = TRUE] /\ calls' = calls /\ bindings' = [bindings EXCEPT !.refs = @ + 1]
    BY <1>3, Zenon DEF Resolve
  <2>2. attempt' \in [Attempts -> Attempt] /\ \A j \in Attempts : j # i => attempt'[j] = attempt[j]
    BY <1>0, <1>1, <1>3, <2>1, ZenonT(30) DEF Attempt, Result, Outcome
  <2>3. /\ attempt'[i].pc = "bound" /\ attempt'[i].outcome = attempt[i].outcome /\ attempt'[i].lease = attempt[i].lease
        /\ attempt'[i].exec = TRUE /\ attempt'[i].send = attempt[i].send
    BY <1>0, <1>1, <1>3, <2>1, Zenon DEF Attempt
  <2>4. HoldsByPhase(i)'
    BY <1>0, <1>1, <1>3, <2>1, <2>3, ZenonT(60) DEF HoldsByPhase, ReportsByPhase, At, Ended
  <2>5. ReportsByPhase(i)'
    BY <1>0, <1>1, <1>3, <2>1, <2>3, RunnerConstants, SMTT(30) DEF HoldsByPhase, ReportsByPhase, At, Ended, Cancelled
  <2>6. bindings' \in [refs : 0..N, retiring : BOOLEAN, freed : BOOLEAN] /\ BindingsCounted'
    BY <1>0, <1>1, <1>3, <2>1, <2>2, <2>3, TakeExecution, SMTT(30) DEF HoldsByPhase
  <2> QED
    BY <1>0, <1>1, <1>3, <2>1, <2>2, <2>3, <2>4, <2>5, <2>6, LocalStep, RunnerConstants, ZenonT(30) DEF Ended, At
<1> QED BY <1>2, <1>3, ZenonT(60)

LEMMA DialedInv == ASSUME DialInv, NEW i \in Attempts, NEW o \in Outcome, Dialed(i, o) PROVE DialInv'
<1>0. /\ attempt \in [Attempts -> Attempt] /\ attempt[i] \in Attempt
      /\ calls \in [Publishers -> Call] /\ calls[i] \in Call
      /\ Publishers = Attempts /\ HoldsByPhase(i) /\ ReportsByPhase(i)
  BY AttemptTypes, Zenon
<1>1. /\ attempt[i].pc = "bound" /\ attempt' = [attempt EXCEPT ![i].pc = "dialed", ![i].outcome = o]
      /\ o \in {"ok", "error", "timeout"} \/ (o = "cancelled" /\ Cancelled)
      /\ results' = results /\ UNCHANGED <<ctx, hedge, run>> /\ bindings' = bindings /\ calls' = calls
  BY Zenon DEF Dialed, At
<1>2. attempt' \in [Attempts -> Attempt] /\ \A j \in Attempts : j # i => attempt'[j] = attempt[j]
  BY <1>0, <1>1, ZenonT(30) DEF Attempt, Result, Outcome
<1>3. /\ attempt'[i].pc = "dialed" /\ attempt'[i].outcome = o /\ attempt'[i].lease = attempt[i].lease
      /\ attempt'[i].exec = attempt[i].exec /\ attempt'[i].send = attempt[i].send
  BY <1>0, <1>1, Zenon DEF Attempt
<1>4. HoldsByPhase(i)'
  BY <1>0, <1>1, <1>3, Zenon DEF HoldsByPhase, ReportsByPhase, At, Ended
<1>5. ReportsByPhase(i)'
  BY <1>0, <1>1, <1>3, RunnerConstants, ZenonT(60) DEF HoldsByPhase, ReportsByPhase, At, Ended, Cancelled
<1>6. bindings' \in [refs : 0..N, retiring : BOOLEAN, freed : BOOLEAN] /\ BindingsCounted'
  BY <1>0, <1>1, <1>2, <1>3, BindingsFrame, SMTT(30)
<1> QED
  BY <1>0, <1>1, <1>2, <1>3, <1>4, <1>5, <1>6, LocalStep, RunnerConstants, SMTT(30) DEF Ended, At

LEMMA PanicsInv == ASSUME DialInv, NEW i \in Attempts, Panics(i) PROVE DialInv'
<1>0. /\ attempt \in [Attempts -> Attempt] /\ attempt[i] \in Attempt
      /\ calls \in [Publishers -> Call] /\ calls[i] \in Call
      /\ Publishers = Attempts /\ HoldsByPhase(i) /\ ReportsByPhase(i)
  BY AttemptTypes, Zenon
<1>1. /\ attempt[i].pc = "bound" /\ attempt' = [attempt EXCEPT ![i].pc = "completing", ![i].outcome = "panic", ![i].exec = FALSE, ![i].send = "error"]
      /\ Unref /\ Report(i, "eligible") /\ results' = results /\ UNCHANGED <<ctx, hedge, run>>
  BY Zenon DEF Panics, At
<1>a. /\ calls' \in [Publishers -> Call] /\ \A j \in Attempts : j # i => calls'[j] = calls[j]
      /\ calls'[i].pc = "begun" /\ calls'[i].evidence = "eligible" /\ calls'[i].permit = "held"
  BY <1>1, ReportFacts, Zenon DEF Evidence
<1>2. attempt' \in [Attempts -> Attempt] /\ \A j \in Attempts : j # i => attempt'[j] = attempt[j]
  BY <1>0, <1>1, ZenonT(30) DEF Attempt, Result, Outcome
<1>3. /\ attempt'[i].pc = "completing" /\ attempt'[i].outcome = "panic" /\ attempt'[i].lease = attempt[i].lease
      /\ attempt'[i].exec = FALSE /\ attempt'[i].send = "error"
  BY <1>0, <1>1, Zenon DEF Attempt
<1>4. HoldsByPhase(i)'
  BY <1>0, <1>1, <1>3, <1>a, ZenonT(60) DEF HoldsByPhase, ReportsByPhase, At, Ended
<1>5. ReportsByPhase(i)'
  BY <1>0, <1>1, <1>3, <1>a, RunnerConstants, ZenonT(60) DEF HoldsByPhase, ReportsByPhase, At, Ended, Cancelled
<1>6. bindings' \in [refs : 0..N, retiring : BOOLEAN, freed : BOOLEAN] /\ BindingsCounted'
  BY <1>0, <1>1, <1>2, <1>3, ReleaseExecution, Zenon DEF HoldsByPhase
<1> QED
  BY <1>0, <1>1, <1>2, <1>3, <1>4, <1>5, <1>6, <1>a, LocalStep, RunnerConstants, ZenonT(30) DEF Ended, At

LEMMA CheckConnectedInv == ASSUME DialInv, NEW i \in Attempts, CheckConnected(i) PROVE DialInv'
<1>0. /\ attempt \in [Attempts -> Attempt] /\ attempt[i] \in Attempt
      /\ calls \in [Publishers -> Call] /\ calls[i] \in Call
      /\ Publishers = Attempts /\ HoldsByPhase(i) /\ ReportsByPhase(i)
  BY AttemptTypes, Zenon
<1>1. attempt[i].pc = "dialed" /\ results' = results /\ UNCHANGED <<ctx, hedge, run>> /\ bindings' = bindings
  BY Zenon DEF CheckConnected, At
<1>2. CASE attempt[i].outcome = "ok" /\ Cancelled
  <2>1. attempt' = [attempt EXCEPT ![i].pc = "completing"] /\ Report(i, "deferred")
    BY <1>2, Zenon DEF CheckConnected
  <2>a. /\ calls' \in [Publishers -> Call] /\ \A j \in Attempts : j # i => calls'[j] = calls[j]
        /\ calls'[i].pc = "begun" /\ calls'[i].evidence = "deferred" /\ calls'[i].permit = "held"
    BY <2>1, ReportFacts, Zenon DEF Evidence
  <2>2. attempt' \in [Attempts -> Attempt] /\ \A j \in Attempts : j # i => attempt'[j] = attempt[j]
    BY <1>0, <1>1, <1>2, <2>1, Zenon DEF Attempt, Result, Outcome
  <2>3. /\ attempt'[i].pc = "completing" /\ attempt'[i].outcome = attempt[i].outcome /\ attempt'[i].lease = attempt[i].lease
        /\ attempt'[i].exec = attempt[i].exec /\ attempt'[i].send = attempt[i].send
    BY <1>0, <1>1, <1>2, <2>1, Zenon DEF Attempt
  <2>4. HoldsByPhase(i)'
    BY <1>0, <1>1, <1>2, <2>1, <2>3, <2>a, SMTT(30) DEF HoldsByPhase, ReportsByPhase, At, Ended
  <2>5. ReportsByPhase(i)'
    BY <1>0, <1>1, <1>2, <2>1, <2>3, <2>a, RunnerConstants, SMTT(30) DEF HoldsByPhase, ReportsByPhase, At, Ended, Cancelled
  <2>6. bindings' \in [refs : 0..N, retiring : BOOLEAN, freed : BOOLEAN] /\ BindingsCounted'
    BY <1>0, <1>1, <1>2, <2>1, <2>2, <2>3, BindingsFrame, SMTT(30)
  <2> QED
    BY <1>0, <1>1, <1>2, <2>1, <2>2, <2>3, <2>4, <2>5, <2>6, <2>a, LocalStep, RunnerConstants, ZenonT(30) DEF Ended, At
<1>3. CASE ~(attempt[i].outcome = "ok" /\ Cancelled)
  <2>1. attempt' = [attempt EXCEPT ![i].pc = "checked"] /\ calls' = calls
    BY <1>3, Zenon DEF CheckConnected
  <2>2. attempt' \in [Attempts -> Attempt] /\ \A j \in Attempts : j # i => attempt'[j] = attempt[j]
    BY <1>0, <1>1, <2>1, Zenon DEF Attempt, Result, Outcome
  <2>3. /\ attempt'[i].pc = "checked" /\ attempt'[i].outcome = attempt[i].outcome /\ attempt'[i].lease = attempt[i].lease
        /\ attempt'[i].exec = attempt[i].exec /\ attempt'[i].send = attempt[i].send
    BY <1>0, <1>1, <2>1, Zenon DEF Attempt
  <2>4. HoldsByPhase(i)'
    BY <1>0, <1>1, <2>1, <2>3, Zenon DEF HoldsByPhase, ReportsByPhase, At, Ended
  <2>5. ReportsByPhase(i)'
    BY <1>0, <1>1, <2>1, <2>3, RunnerConstants, ZenonT(60) DEF HoldsByPhase, ReportsByPhase, At, Ended, Cancelled
  <2>6. bindings' \in [refs : 0..N, retiring : BOOLEAN, freed : BOOLEAN] /\ BindingsCounted'
    BY <1>0, <1>1, <2>1, <2>2, <2>3, BindingsFrame, Zenon
  <2> QED
    BY <1>0, <1>1, <2>1, <2>2, <2>3, <2>4, <2>5, <2>6, LocalStep, RunnerConstants, ZenonT(30) DEF Ended, At
<1> QED BY <1>2, <1>3, Zenon

LEMMA CheckCancelledInv == ASSUME DialInv, NEW i \in Attempts, CheckCancelled(i) PROVE DialInv'
<1>0. /\ attempt \in [Attempts -> Attempt] /\ attempt[i] \in Attempt
      /\ calls \in [Publishers -> Call] /\ calls[i] \in Call
      /\ Publishers = Attempts /\ HoldsByPhase(i) /\ ReportsByPhase(i)
  BY AttemptTypes, Zenon
<1>1. attempt[i].pc = "checked" /\ results' = results /\ UNCHANGED <<ctx, hedge, run>> /\ bindings' = bindings
  BY Zenon DEF CheckCancelled, At
<1>2. CASE Cancelled
  <2>1. attempt' = [attempt EXCEPT ![i].pc = "completing", ![i].send = "deferred"] /\ Report(i, "deferred")
    BY <1>2, Zenon DEF CheckCancelled
  <2>a. /\ calls' \in [Publishers -> Call] /\ \A j \in Attempts : j # i => calls'[j] = calls[j]
        /\ calls'[i].pc = "begun" /\ calls'[i].evidence = "deferred" /\ calls'[i].permit = "held"
    BY <2>1, ReportFacts, Zenon DEF Evidence
  <2>2. attempt' \in [Attempts -> Attempt] /\ \A j \in Attempts : j # i => attempt'[j] = attempt[j]
    BY <1>0, <1>1, <1>2, <2>1, ZenonT(30) DEF Attempt, Result, Outcome
  <2>3. /\ attempt'[i].pc = "completing" /\ attempt'[i].outcome = attempt[i].outcome /\ attempt'[i].lease = attempt[i].lease
        /\ attempt'[i].exec = attempt[i].exec /\ attempt'[i].send = "deferred"
    BY <1>0, <1>1, <1>2, <2>1, Zenon DEF Attempt
  <2>4. HoldsByPhase(i)'
    BY <1>0, <1>1, <1>2, <2>1, <2>3, <2>a, ZenonT(60) DEF HoldsByPhase, ReportsByPhase, At, Ended
  <2>5. ReportsByPhase(i)'
    BY <1>0, <1>1, <1>2, <2>1, <2>3, <2>a, RunnerConstants, SMTT(30) DEF HoldsByPhase, ReportsByPhase, At, Ended, Cancelled
  <2>6. bindings' \in [refs : 0..N, retiring : BOOLEAN, freed : BOOLEAN] /\ BindingsCounted'
    BY <1>0, <1>1, <1>2, <2>1, <2>2, <2>3, BindingsFrame, SMTT(30)
  <2> QED
    BY <1>0, <1>1, <1>2, <2>1, <2>2, <2>3, <2>4, <2>5, <2>6, <2>a, LocalStep, RunnerConstants, ZenonT(30) DEF Ended, At
<1>3. CASE ~Cancelled
  <2>0. PICK m \in {"ok", "error"}, e \in {"quality", "eligible"} :
          /\ attempt' = [attempt EXCEPT ![i].pc = "completing", ![i].send = m] /\ Report(i, e)
          /\ m = "ok" => attempt[i].outcome = "ok" /\ e = "eligible"
    BY <1>3, Zenon DEF CheckCancelled
  <2>1. /\ attempt' = [attempt EXCEPT ![i].pc = "completing", ![i].send = m] /\ Report(i, e) /\ ~Cancelled
        /\ m = "ok" => attempt[i].outcome = "ok" /\ e = "eligible"
    BY <1>3, <2>0, Zenon
  <2>a. /\ calls' \in [Publishers -> Call] /\ \A j \in Attempts : j # i => calls'[j] = calls[j]
        /\ calls'[i].pc = "begun" /\ calls'[i].evidence = e /\ calls'[i].permit = "held"
    BY <2>1, ReportFacts, Zenon DEF Evidence
  <2>2. attempt' \in [Attempts -> Attempt] /\ \A j \in Attempts : j # i => attempt'[j] = attempt[j]
    BY <1>0, <1>1, <2>1, ZenonT(30) DEF Attempt, Result, Outcome
  <2>3. /\ attempt'[i].pc = "completing" /\ attempt'[i].outcome = attempt[i].outcome /\ attempt'[i].lease = attempt[i].lease
        /\ attempt'[i].exec = attempt[i].exec /\ attempt'[i].send = m
    BY <1>0, <1>1, <2>1, Zenon DEF Attempt
  <2>4. HoldsByPhase(i)'
    BY <1>0, <1>1, <2>1, <2>3, <2>a, ZenonT(60) DEF HoldsByPhase, ReportsByPhase, At, Ended
  <2>5. ReportsByPhase(i)'
    BY <1>0, <1>1, <2>1, <2>3, <2>a, RunnerConstants, SMTT(60) DEF HoldsByPhase, ReportsByPhase, At, Ended, Cancelled
  <2>6. bindings' \in [refs : 0..N, retiring : BOOLEAN, freed : BOOLEAN] /\ BindingsCounted'
    BY <1>0, <1>1, <2>1, <2>2, <2>3, BindingsFrame, SMTT(30)
  <2> QED
    BY <1>0, <1>1, <2>1, <2>2, <2>3, <2>4, <2>5, <2>6, <2>a, LocalStep, RunnerConstants, ZenonT(30) DEF Ended, At
<1> QED BY <1>2, <1>3, Zenon

LEMMA CompletedInv == ASSUME DialInv, NEW i \in Attempts, Completed(i) PROVE DialInv'
<1>0. /\ attempt \in [Attempts -> Attempt] /\ attempt[i] \in Attempt
      /\ calls \in [Publishers -> Call] /\ calls[i] \in Call
      /\ Publishers = Attempts /\ HoldsByPhase(i) /\ ReportsByPhase(i)
  BY AttemptTypes, Zenon
<1>1. /\ attempt[i].pc = "completing" /\ Return(i) /\ attempt' = [attempt EXCEPT ![i].pc = "sent", ![i].lease = FALSE]
      /\ results' = (IF attempt[i].send = None THEN results ELSE Append(results, i))
      /\ UNCHANGED <<ctx, hedge, run>> /\ bindings' = bindings
  BY Zenon DEF Completed, At
<1>a. /\ calls' \in [Publishers -> Call] /\ \A j \in Attempts : j # i => calls'[j] = calls[j]
      /\ calls'[i].pc = "done" /\ calls'[i].evidence = calls[i].evidence /\ calls'[i].permit # "held"
      /\ calls'[i].permit = "completed" => calls'[i].evidence = "eligible"
  BY <1>1, ReturnFacts, Zenon DEF At
<1>2. attempt' \in [Attempts -> Attempt] /\ \A j \in Attempts : j # i => attempt'[j] = attempt[j]
  BY <1>0, <1>1, ZenonT(30) DEF Attempt, Result, Outcome
<1>3. /\ attempt'[i].pc = "sent" /\ attempt'[i].outcome = attempt[i].outcome /\ attempt'[i].lease = FALSE
      /\ attempt'[i].exec = attempt[i].exec /\ attempt'[i].send = attempt[i].send
  BY <1>0, <1>1, Zenon DEF Attempt
<1>4. HoldsByPhase(i)'
  BY <1>0, <1>1, <1>3, <1>a, Zenon DEF HoldsByPhase, ReportsByPhase, At, Ended
<1>5. ReportsByPhase(i)'
  BY <1>0, <1>1, <1>3, <1>a, RunnerConstants, ZenonT(60) DEF HoldsByPhase, ReportsByPhase, At, Ended, Cancelled
<1>6. bindings' \in [refs : 0..N, retiring : BOOLEAN, freed : BOOLEAN] /\ BindingsCounted'
  BY <1>0, <1>1, <1>2, <1>3, BindingsFrame, Zenon
<1> QED
  BY <1>0, <1>1, <1>2, <1>3, <1>4, <1>5, <1>6, <1>a, LocalStep, RunnerConstants, ZenonT(30) DEF Ended, At

LEMMA ExitInv == ASSUME DialInv, NEW i \in Attempts, Exit(i) PROVE DialInv'
<1>0. /\ attempt \in [Attempts -> Attempt] /\ attempt[i] \in Attempt
      /\ calls \in [Publishers -> Call] /\ calls[i] \in Call
      /\ Publishers = Attempts /\ HoldsByPhase(i) /\ ReportsByPhase(i)
  BY AttemptTypes, Zenon
<1>1. attempt[i].pc = "sent" /\ attempt' = [attempt EXCEPT ![i].pc = "gone", ![i].exec = FALSE] /\ results' = results /\ UNCHANGED <<ctx, hedge, run>> /\ calls' = calls
  BY Zenon DEF Exit, At
<1>2. CASE attempt[i].exec
  <2>1. Unref
    BY <1>2, Zenon DEF Exit
  <2>2. attempt' \in [Attempts -> Attempt] /\ \A j \in Attempts : j # i => attempt'[j] = attempt[j]
    BY <1>0, <1>1, <1>2, <2>1, Zenon DEF Attempt, Result, Outcome
  <2>3. /\ attempt'[i].pc = "gone" /\ attempt'[i].outcome = attempt[i].outcome /\ attempt'[i].lease = attempt[i].lease
        /\ attempt'[i].exec = FALSE /\ attempt'[i].send = attempt[i].send
    BY <1>0, <1>1, <1>2, <2>1, Zenon DEF Attempt
  <2>4. HoldsByPhase(i)'
    BY <1>0, <1>1, <1>2, <2>1, <2>3, ZenonT(60) DEF HoldsByPhase, ReportsByPhase, At, Ended
  <2>5. ReportsByPhase(i)'
    BY <1>0, <1>1, <1>2, <2>1, <2>3, RunnerConstants, SMTT(30) DEF HoldsByPhase, ReportsByPhase, At, Ended, Cancelled
  <2>6. bindings' \in [refs : 0..N, retiring : BOOLEAN, freed : BOOLEAN] /\ BindingsCounted'
    BY <1>0, <1>1, <1>2, <2>1, <2>2, <2>3, ReleaseExecution, SMTT(30) DEF HoldsByPhase
  <2> QED
    BY <1>0, <1>1, <1>2, <2>1, <2>2, <2>3, <2>4, <2>5, <2>6, LocalStep, RunnerConstants, SMTT(30) DEF Ended, At
<1>3. CASE ~attempt[i].exec
  <2>1. bindings' = bindings /\ attempt[i].exec = FALSE
    BY <1>0, <1>3, Zenon DEF Exit, Attempt
  <2>2. attempt' \in [Attempts -> Attempt] /\ \A j \in Attempts : j # i => attempt'[j] = attempt[j]
    BY <1>0, <1>1, <1>3, <2>1, ZenonT(30) DEF Attempt, Result, Outcome
  <2>3. /\ attempt'[i].pc = "gone" /\ attempt'[i].outcome = attempt[i].outcome /\ attempt'[i].lease = attempt[i].lease
        /\ attempt'[i].exec = FALSE /\ attempt'[i].send = attempt[i].send
    BY <1>0, <1>1, <1>3, <2>1, Zenon DEF Attempt
  <2>4. HoldsByPhase(i)'
    BY <1>0, <1>1, <1>3, <2>1, <2>3, Zenon DEF HoldsByPhase, ReportsByPhase, At, Ended
  <2>5. ReportsByPhase(i)'
    BY <1>0, <1>1, <1>3, <2>1, <2>3, RunnerConstants, ZenonT(60) DEF HoldsByPhase, ReportsByPhase, At, Ended, Cancelled
  <2>6. bindings' \in [refs : 0..N, retiring : BOOLEAN, freed : BOOLEAN] /\ BindingsCounted'
    BY <1>0, <1>1, <1>3, <2>1, <2>2, <2>3, BindingsFrame, ZenonT(30)
  <2> QED
    BY <1>0, <1>1, <1>3, <2>1, <2>2, <2>3, <2>4, <2>5, <2>6, LocalStep, RunnerConstants, SMTT(30) DEF Ended, At
<1> QED BY <1>2, <1>3, Zenon

-----------------------------------------------------------------------------
(* The loop of Dial.  Receiving takes the first result out of the channel    *)
(* and leaves the others, each of them once.                                 *)
LEMMA ChannelTail ==
  ASSUME DialInv, results # <<>>, results' = Tail(results), NEW h, h = Head(results)
  PROVE  /\ results' \in Seq(Attempts)
         /\ h \in Attempts /\ InChannel(h) /\ ~InChannel(h)'
         /\ \A j \in Attempts : j # h => (InChannel(j)' <=> InChannel(j))
         /\ \A n \in DOMAIN results' : \E m \in DOMAIN results : results'[n] = results[m]
         /\ \A n, m \in DOMAIN results' : results'[n] = results'[m] => n = m
<1>1. results \in Seq(Attempts) /\ \A n, m \in DOMAIN results : results[n] = results[m] => n = m
  BY Zenon DEF DialInv, TypeOK, LoopCounts
<1>2. /\ results' \in Seq(Attempts) /\ h \in Attempts /\ h = results[1] /\ 1 \in DOMAIN results
      /\ \A n \in DOMAIN results' :
            n \in Nat \ {0} /\ n + 1 \in DOMAIN results /\ results'[n] = results[n + 1]
      /\ \A n \in DOMAIN results : n # 1 => n - 1 \in DOMAIN results' /\ results'[n - 1] = results[n]
  BY <1>1, TailFacts
<1>3. \A n \in DOMAIN results' : results'[n] # h
  BY <1>1, <1>2, SMTT(60)
<1>4. \A n, m \in DOMAIN results' : results'[n] = results'[m] => n = m
  <2> SUFFICES ASSUME NEW n \in DOMAIN results', NEW m \in DOMAIN results', results'[n] = results'[m]
               PROVE  n = m
    BY Zenon
  <2>1. n + 1 = m + 1
    BY <1>1, <1>2
  <2> QED BY <1>2, <2>1, SMTT(60)
<1>5. \A j \in Attempts : j # h => (InChannel(j)' <=> InChannel(j))
  <2> SUFFICES ASSUME NEW j \in Attempts, j # h PROVE InChannel(j)' <=> InChannel(j)
    BY Zenon
  <2>1. ASSUME InChannel(j)' PROVE InChannel(j)
    <3>1. PICK n \in DOMAIN results' : results'[n] = j
      BY <2>1, Zenon DEF InChannel
    <3>2. n + 1 \in DOMAIN results /\ results[n + 1] = j
      BY <1>2, <3>1, Zenon
    <3> QED BY <3>2, Zenon DEF InChannel
  <2>2. ASSUME InChannel(j) PROVE InChannel(j)'
    <3>1. PICK n \in DOMAIN results : results[n] = j
      BY <2>2, Zenon DEF InChannel
    <3>2. n - 1 \in DOMAIN results' /\ results'[n - 1] = j
      BY <1>2, <3>1, Zenon
    <3> QED BY <3>2, Zenon DEF InChannel
  <2> QED BY <2>1, <2>2, Zenon
<1>6. InChannel(h) /\ ~InChannel(h)'
  BY <1>2, <1>3, Zenon DEF InChannel
<1>7. \A n \in DOMAIN results' : \E m \in DOMAIN results : results'[n] = results[m]
  BY <1>2, Zenon
<1> QED
  BY <1>2, <1>4, <1>5, <1>6, <1>7, ZenonT(60)

(* What a step that only moves the counters of the loop owes the attempts.   *)
LEMMA AttemptsFrame ==
  ASSUME DialInv, attempt' = attempt, calls' = calls, Cancelled => Cancelled'
  PROVE  \A j \in Attempts : HoldsByPhase(j)' /\ ReportsByPhase(j)'
<1> SUFFICES ASSUME NEW j \in Attempts PROVE HoldsByPhase(j)' /\ ReportsByPhase(j)'
  BY Zenon
<1>1. HoldsByPhase(j) /\ ReportsByPhase(j)
  BY Zenon DEF DialInv
<1>2. HoldsByPhase(j)'
  BY <1>1, Zenon DEF HoldsByPhase, At, Ended
<1>3. ReportsByPhase(j)'
  BY <1>1, Zenon DEF ReportsByPhase, At, Ended
<1> QED BY <1>2, <1>3, Zenon

LEMMA CallerDoneInv == ASSUME DialInv, CallerDone PROVE DialInv'
<1>1. /\ run' = [run EXCEPT !.returned = TRUE] /\ ctx /\ run \in [returned : BOOLEAN, started : 1..N,
            active : 0..N, timer : BOOLEAN, winner : Attempts \cup {None}]
      /\ ctx' = ctx /\ hedge' = hedge /\ results' = results /\ attempt' = attempt
      /\ bindings' = bindings /\ calls' = calls
  BY Zenon DEF CallerDone, DialInv, TypeOK
<1>2. /\ run'.returned /\ run'.started = run.started /\ run'.active = run.active
      /\ run'.timer = run.timer /\ run'.winner = run.winner
  BY <1>1, Zenon
<1>3. TypeOK'
  BY <1>1, ZenonT(30) DEF DialInv, TypeOK
<1>4. \A j \in Attempts : HoldsByPhase(j)' /\ ReportsByPhase(j)'
  BY <1>1, <1>2, AttemptsFrame, ZenonT(60) DEF Cancelled
<1>5. LoopCounts'
  BY <1>1, <1>2, SMTT(60) DEF DialInv, LoopCounts, Outstanding, Ended, InChannel, At
<1>6. OneAtATime' /\ BindingsCounted'
  BY <1>1, <1>2, ZenonT(60) DEF DialInv, OneAtATime, BindingsCounted, Executing, Ended, InChannel
<1> QED BY <1>3, <1>4, <1>5, <1>6, ZenonT(60) DEF DialInv

LEMMA ExhaustedInv == ASSUME DialInv, Exhausted PROVE DialInv'
<1>1. /\ run' = [run EXCEPT !.returned = TRUE] /\ run.active = 0 /\ run \in [returned : BOOLEAN,
            started : 1..N, active : 0..N, timer : BOOLEAN, winner : Attempts \cup {None}]
      /\ ctx' = ctx /\ hedge' = hedge /\ results' = results /\ attempt' = attempt
      /\ bindings' = bindings /\ calls' = calls
  BY Zenon DEF Exhausted, DialInv, TypeOK
<1>2. /\ run'.returned /\ run'.started = run.started /\ run'.active = run.active
      /\ run'.timer = run.timer /\ run'.winner = run.winner
  BY <1>1, Zenon
<1>3. TypeOK'
  BY <1>1, ZenonT(30) DEF DialInv, TypeOK
<1>4. \A j \in Attempts : HoldsByPhase(j)' /\ ReportsByPhase(j)'
  BY <1>1, <1>2, AttemptsFrame, ZenonT(60) DEF Cancelled
<1>5. LoopCounts'
  BY <1>1, <1>2, SMTT(60) DEF DialInv, LoopCounts, Outstanding, Ended, InChannel, At
<1>6. OneAtATime' /\ BindingsCounted'
  BY <1>1, <1>2, ZenonT(60) DEF DialInv, OneAtATime, BindingsCounted, Executing, Ended, InChannel
<1> QED BY <1>3, <1>4, <1>5, <1>6, Zenon DEF DialInv

LEMMA CallerCancelsInv == ASSUME DialInv, CallerCancels PROVE DialInv'
<1>1. /\ ctx' = TRUE /\ run' = run /\ hedge' = hedge /\ results' = results /\ attempt' = attempt
      /\ bindings' = bindings /\ calls' = calls
  BY Zenon DEF CallerCancels
<1>2. TypeOK'
  BY <1>1, Zenon DEF DialInv, TypeOK
<1>3. \A j \in Attempts : HoldsByPhase(j)' /\ ReportsByPhase(j)'
  BY <1>1, AttemptsFrame, SMTT(30) DEF Cancelled
<1>4. LoopCounts'
  BY <1>1, SMTT(30) DEF DialInv, LoopCounts, Outstanding, Ended, InChannel, At
<1>5. OneAtATime' /\ BindingsCounted'
  BY <1>1, Zenon DEF DialInv, OneAtATime, BindingsCounted, Executing, Ended, InChannel
<1> QED BY <1>2, <1>3, <1>4, <1>5, Zenon DEF DialInv

LEMMA RetireBindingsInv == ASSUME DialInv, RetireBindings PROVE DialInv'
<1>1. /\ bindings' = [bindings EXCEPT !.retiring = TRUE, !.freed = (bindings.refs = 0)]
      /\ bindings \in [refs : 0..N, retiring : BOOLEAN, freed : BOOLEAN]
      /\ ctx' = ctx /\ run' = run /\ hedge' = hedge /\ results' = results /\ attempt' = attempt
      /\ calls' = calls
  BY Zenon DEF RetireBindings, DialInv, TypeOK
<1>2. /\ bindings'.refs = bindings.refs /\ bindings'.retiring = TRUE
      /\ bindings'.freed = (bindings.refs = 0)
  BY <1>1, Zenon
<1>3. bindings' \in [refs : 0..N, retiring : BOOLEAN, freed : BOOLEAN]
  BY <1>1, ZenonT(30)
<1>4. TypeOK'
  BY <1>1, <1>3, Zenon DEF DialInv, TypeOK
<1>5. \A j \in Attempts : HoldsByPhase(j)' /\ ReportsByPhase(j)'
  BY <1>1, AttemptsFrame, ZenonT(60) DEF Cancelled
<1>6. LoopCounts' /\ OneAtATime'
  BY <1>1, SMTT(60) DEF DialInv, LoopCounts, OneAtATime, Outstanding, Ended, InChannel, At
<1>7. BindingsCounted'
  BY <1>1, <1>2, ZenonT(30) DEF DialInv, BindingsCounted, Executing
<1> QED BY <1>4, <1>5, <1>6, <1>7, Zenon DEF DialInv

(* The loop starts the next candidate, or has none left, because the hedge   *)
(* timer fired (taken = 0) or because h brought no connection (taken = 1).   *)
LEMMA NextStartedInv ==
  ASSUME DialInv, Running, NEW taken \in {0, 1}, NextStarted(taken), NEW h,
         UNCHANGED <<ctx, hedge, bindings, calls>>,
         \/ taken = 0 /\ results' = results /\ run.timer
         \/ /\ taken = 1 /\ results # <<>> /\ results' = Tail(results) /\ h = Head(results)
            /\ attempt[h].send # "ok"
  PROVE  DialInv'
<1> DEFINE R == IF taken = 0 THEN {} ELSE {h}
           S == IF run.started < N THEN {run.started + 1} ELSE {}
<1>0. /\ run \in [returned : BOOLEAN, started : 1..N, active : 0..N, timer : BOOLEAN,
                  winner : Attempts \cup {None}]
      /\ attempt \in [Attempts -> Attempt] /\ results \in Seq(Attempts) /\ N \in Nat
      /\ ~run.returned /\ run.active > 0 /\ run.winner = None
  BY RunnerConstants, ZenonT(60) DEF DialInv, TypeOK, LoopCounts, Running
<1>1. /\ results' \in Seq(Attempts)
      /\ \A j \in Attempts : InChannel(j)' <=> InChannel(j) /\ j \notin R
      /\ \A j \in R : j \in Attempts /\ InChannel(j)
      /\ \A n \in DOMAIN results' : \E m \in DOMAIN results : results'[n] = results[m]
      /\ \A n, m \in DOMAIN results' : results'[n] = results'[m] => n = m
  <2>1. CASE taken = 0
    BY <1>0, <2>1, SMTT(30) DEF DialInv, LoopCounts, InChannel
  <2>2. CASE taken = 1
    BY <2>2, ChannelTail
  <2> QED BY <2>1, <2>2, SMTT(30)
<1>2. /\ run'.started = IF run.started < N THEN run.started + 1 ELSE run.started
      /\ run'.active = IF run.started < N THEN run.active - taken + 1 ELSE run.active - taken
      /\ run'.timer \in BOOLEAN /\ (taken = 1 => run'.timer = run.timer)
      /\ run'.returned = run.returned /\ run'.winner = run.winner
  <2>1. CASE run.started < N
    <3>1. /\ run'.started = run.started + 1 /\ run'.active = run.active - taken + 1
          /\ run'.returned = run.returned /\ run'.winner = run.winner
      BY <1>0, <2>1, ZenonT(30) DEF NextStarted
    <3>2. taken = 0 => run'.timer = (run.started + 1 < N)
      BY <1>0, <2>1, ZenonT(30) DEF NextStarted
    <3>3. taken = 1 => run'.timer = run.timer
      <4> SUFFICES ASSUME taken = 1 PROVE run'.timer = run.timer
        BY Zenon
      <4>1. run' = [run EXCEPT !.started = run.started + 1, !.active = run.active - taken + 1,
                               !.timer = run.timer]
        BY <2>1 DEF NextStarted
      <4> QED BY <1>0, <4>1, Zenon
    <3>4. run'.timer \in BOOLEAN
      BY <1>0, <3>2, <3>3, SMTT(60)
    <3> QED BY <2>1, <3>1, <3>3, <3>4, Zenon
  <2>2. CASE ~(run.started < N)
    <3>1. /\ run'.started = run.started /\ run'.active = run.active - taken
          /\ run'.returned = run.returned /\ run'.winner = run.winner
      BY <1>0, <2>2, ZenonT(30) DEF NextStarted
    <3>2. taken = 0 => run'.timer = FALSE
      BY <1>0, <2>2, ZenonT(30) DEF NextStarted
    <3>3. taken = 1 => run'.timer = run.timer
      <4> SUFFICES ASSUME taken = 1 PROVE run'.timer = run.timer
        BY Zenon
      <4>1. run' = [run EXCEPT !.active = run.active - taken, !.timer = run.timer]
        BY <2>2 DEF NextStarted
      <4> QED BY <1>0, <4>1, Zenon
    <3>4. run'.timer \in BOOLEAN
      BY <1>0, <3>2, <3>3, ZenonT(30)
    <3> QED BY <2>2, <3>1, <3>3, <3>4, Zenon
  <2> QED BY <2>1, <2>2, Zenon
<1>3. /\ attempt' \in [Attempts -> Attempt]
      /\ \A j \in Attempts : j \notin S => attempt'[j] = attempt[j]
      /\ \A j \in S : /\ j \in Attempts /\ attempt'[j].pc = "started"
                      /\ attempt'[j].outcome = attempt[j].outcome /\ attempt'[j].lease = attempt[j].lease
                      /\ attempt'[j].exec = attempt[j].exec /\ attempt'[j].send = attempt[j].send
  <2>1. CASE run.started < N
    <3>1. PICK k \in Attempts : k = run.started + 1
      BY <1>0, <2>1 DEF Attempts
    <3>2. attempt' = [attempt EXCEPT ![k].pc = "started"] /\ S = {k}
      BY <2>1, <3>1, Zenon DEF NextStarted
    <3>3. /\ attempt'[k].pc = "started" /\ attempt'[k].outcome = attempt[k].outcome
          /\ attempt'[k].lease = attempt[k].lease /\ attempt'[k].exec = attempt[k].exec
          /\ attempt'[k].send = attempt[k].send
      BY <1>0, <3>2 DEF Attempt
    <3>4. \A j \in Attempts : j # k => attempt'[j] = attempt[j]
      BY <1>0, <3>2, Zenon
    <3>5. attempt' \in [Attempts -> Attempt]
      <4>1. attempt[k] \in Attempt
        BY <1>0, Zenon
      <4>2. [attempt[k] EXCEPT !.pc = "started"] \in Attempt
        BY <4>1, Zenon DEF Attempt
      <4> QED BY <1>0, <3>2, <4>2, Zenon
    <3> HIDE DEF S
    <3> QED BY <3>2, <3>3, <3>4, <3>5, ZenonT(60)
  <2>2. CASE ~(run.started < N)
    BY <1>0, <2>2, Zenon DEF NextStarted
  <2> QED BY <2>1, <2>2, Zenon
<1>4. \A j \in Attempts : At(j, "none") <=> j > run.started
  BY Zenon DEF DialInv, LoopCounts
<1>5. \A j \in S : j = run.started + 1 /\ j > run.started /\ attempt[j].pc = "none"
  BY <1>0, <1>3, <1>4, SMTT(60) DEF At
<1>6. \A j \in Attempts : (Ended(j)' <=> Ended(j)) /\ attempt'[j].send = attempt[j].send
                          /\ attempt'[j].exec = attempt[j].exec
  BY <1>3, <1>5, ZenonT(30) DEF Ended
<1> HIDE DEF R, S
<1>7. \A j \in Attempts : HoldsByPhase(j)' /\ ReportsByPhase(j)'
  <2> SUFFICES ASSUME NEW j \in Attempts PROVE HoldsByPhase(j)' /\ ReportsByPhase(j)'
    BY Zenon
  <2>1. HoldsByPhase(j) /\ ReportsByPhase(j) /\ calls' = calls
    BY Zenon DEF DialInv
  <2>2. CASE j \in S
    <3>1. HoldsByPhase(j)'
      BY <1>3, <1>5, <2>1, <2>2, ZenonT(60) DEF HoldsByPhase, At, Ended
    <3>2. ReportsByPhase(j)'
      BY <1>2, <1>3, <1>5, <2>1, <2>2, SMTT(30) DEF ReportsByPhase, At, Ended, Cancelled
    <3> QED BY <3>1, <3>2, Zenon
  <2>3. CASE j \notin S
    <3>1. attempt'[j] = attempt[j]
      BY <1>3, <2>3, SMTT(30)
    <3>2. HoldsByPhase(j)'
      BY <2>1, <3>1, SMTT(30) DEF HoldsByPhase, At, Ended
    <3>3. ReportsByPhase(j)'
      BY <1>2, <2>1, <3>1, Zenon DEF ReportsByPhase, At, Ended, Cancelled
    <3> QED BY <3>2, <3>3, Zenon
  <2> QED BY <2>2, <2>3, Zenon
<1>8. \A j \in R : j <= run.started /\ Ended(j) /\ attempt[j].send \in {"error", "deferred"}
  <2> SUFFICES ASSUME NEW j \in R
               PROVE  j <= run.started /\ Ended(j) /\ attempt[j].send \in {"error", "deferred"}
    BY Zenon
  <2>1. j \in Attempts /\ InChannel(j) /\ j = h /\ attempt[h].send # "ok"
    BY <1>1, Zenon DEF R
  <2>2. Ended(j) /\ attempt[j].send # None
    BY <2>1, ZenonT(60) DEF DialInv, LoopCounts, InChannel
  <2>3. j <= run.started
    BY <1>0, <1>4, <2>1, <2>2, SMTT(60) DEF At, Ended, Attempts
  <2>4. attempt[j].send \in {"ok", "error", "deferred", None}
    BY <1>0, <2>1, Zenon DEF Attempt, Result
  <2> QED BY <2>1, <2>2, <2>3, <2>4, Zenon
<1>9. \A j \in Attempts : j <= run'.started <=> j <= run.started \/ j \in S
  BY <1>0, <1>2, SMTT(60) DEF S, Attempts
<1>10. Outstanding' = (Outstanding \ R) \cup S
  <2>1. \A j \in Attempts : j \in Outstanding' <=> j \in (Outstanding \ R) \cup S
    <3> SUFFICES ASSUME NEW j \in Attempts
                 PROVE  j \in Outstanding' <=> j \in (Outstanding \ R) \cup S
      BY Zenon
    <3>1. CASE j \in S
      BY <1>3, <1>9, <3>1, Zenon DEF Outstanding, Ended
    <3>2. CASE j \notin S /\ j \in R
      <4>1. Ended(j)' /\ attempt'[j].send # None /\ ~InChannel(j)'
        BY <1>1, <1>6, <1>8, <3>2, RunnerConstants, SMTT(30)
      <4> QED BY <3>2, <4>1, ZenonT(60) DEF Outstanding
    <3>3. CASE j \notin S /\ j \notin R
      BY <1>1, <1>6, <1>9, <3>3, SMTT(30) DEF Outstanding
    <3> QED BY <3>1, <3>2, <3>3, Zenon
  <2>2. Outstanding \subseteq Attempts /\ Outstanding' \subseteq Attempts /\ S \subseteq Attempts
    BY <1>3, Zenon DEF Outstanding, Attempts
  <2>3. \A x : x \in Outstanding' <=> x \in (Outstanding \ R) \cup S
    BY <2>1, <2>2, Zenon
  <2> QED BY <2>3, Zenon
<1>11. /\ run'.active = Cardinality(Outstanding') /\ run'.active \in 0..N
       /\ run'.active = 0 => run'.started = N
  <2>1. run.active = Cardinality(Outstanding) /\ Outstanding \subseteq Attempts
    BY <1>0, ZenonT(60) DEF DialInv, LoopCounts, Outstanding
  <2>2. IsFiniteSet(Outstanding) /\ run.active \in 0..N
    BY <2>1, SubsetsFinite, Zenon
  <2>3. IsFiniteSet(Outstanding \ R) /\ Cardinality(Outstanding \ R) = run.active - taken
    <3>1. CASE taken = 0
      <4>1. Outstanding \ R = Outstanding
        BY <3>1, Zenon DEF R
      <4> QED BY <2>1, <2>2, <3>1, <4>1, SMTT(60)
    <3>2. CASE taken = 1
      <4>1. R = {h} /\ h \in Attempts /\ InChannel(h) /\ h <= run.started
        BY <1>1, <1>8, <3>2, SMTT(60) DEF R
      <4>2. h \in Outstanding
        BY <4>1, Zenon DEF Outstanding
      <4> QED BY <2>1, <2>2, <3>2, <4>1, <4>2, FS_RemoveElement, SMTT(30)
    <3> QED BY <3>1, <3>2, Zenon
  <2>4. Cardinality(Outstanding') = run'.active
    <3>1. CASE run.started < N
      <4>1. S = {run.started + 1} /\ run'.active = run.active - taken + 1
        BY <1>2, <3>1, Zenon DEF S
      <4>2. run.started + 1 \notin Outstanding \ R
        BY <1>0 DEF Outstanding
      <4>3. Cardinality((Outstanding \ R) \cup {run.started + 1}) = Cardinality(Outstanding \ R) + 1
        BY <2>3, <4>2, FS_AddElement, ZenonT(30)
      <4> QED BY <1>10, <2>3, <4>1, <4>3, Zenon
    <3>2. CASE ~(run.started < N)
      <4>1. S = {} /\ run'.active = run.active - taken
        BY <1>2, <3>2, Zenon DEF S
      <4>2. Outstanding' = Outstanding \ R
        BY <1>10, <4>1, Zenon
      <4> QED BY <2>3, <4>1, <4>2, Zenon
    <3> QED BY <3>1, <3>2, Zenon
  <2>5. Outstanding' \subseteq Attempts
    BY Zenon DEF Outstanding, Attempts
  <2>6. Cardinality(Outstanding') \in 0..N
    BY <2>5, SubsetsFinite, Zenon
  <2>7. run'.active = 0 => run'.started = N
    BY <1>0, <1>2, <2>2, SMTT(30)
  <2> QED BY <2>4, <2>6, <2>7, SMTT(30)
<1>12. TypeOK'
  <2>1. run'.started \in 1..N
    BY <1>0, <1>2
  <2>2. run' = [returned |-> run'.returned, started |-> run'.started, active |-> run'.active,
                timer |-> run'.timer, winner |-> run'.winner]
    <3>1. CASE run.started < N
      BY <1>0, <3>1, Zenon DEF NextStarted
    <3>2. CASE ~(run.started < N)
      BY <1>0, <3>2, Zenon DEF NextStarted
    <3> QED BY <3>1, <3>2, Zenon
  <2>3. run' \in [returned : BOOLEAN, started : 1..N, active : 0..N, timer : BOOLEAN,
                  winner : Attempts \cup {None}]
    <3>1. /\ run'.returned \in BOOLEAN /\ run'.timer \in BOOLEAN
          /\ run'.winner \in Attempts \cup {None} /\ run'.active \in 0..N
      BY <1>0, <1>2, <1>11, SMTT(30)
    <3> QED BY <2>1, <2>2, <3>1, Zenon
  <2> QED BY <1>1, <1>3, <2>3, SMTT(30) DEF DialInv, TypeOK, Attempts
<1>13. LoopCounts'
  <2>1. \A j \in Attempts : At(j, "none")' <=> j > run'.started
    <3> SUFFICES ASSUME NEW j \in Attempts PROVE attempt'[j].pc = "none" <=> j > run'.started
      BY Zenon DEF At
    <3>1. j > run'.started <=> j > run.started /\ j \notin S
      BY <1>0, <1>2, <1>9, SMTT(30) DEF Attempts
    <3>2. attempt'[j].pc = "none" <=> attempt[j].pc = "none" /\ j \notin S
      BY <1>3, <1>5, SMTT(30)
    <3> QED BY <1>4, <3>1, <3>2, Zenon DEF At
  <2>2. \A n \in DOMAIN results' : Ended(results[n])' /\ attempt'[results'[n]].send # None
    <3> SUFFICES ASSUME NEW n \in DOMAIN results'
                 PROVE  Ended(results[n])' /\ attempt'[results'[n]].send # None
      BY Zenon
    <3>1. PICK m \in DOMAIN results : results'[n] = results[m]
      BY <1>1, Zenon
    <3>2. PICK j \in Attempts : j = results[m]
      BY <1>0, SMTT(30)
    <3>3. Ended(j) /\ attempt[j].send # None
      BY <3>2, SMTT(30) DEF DialInv, LoopCounts
    <3>4. Ended(j)' /\ attempt'[j].send # None
      BY <1>6, <3>3, Zenon
    <3> QED BY <3>1, <3>2, <3>4, SMTT(30) DEF Ended
  <2>3. \A j \in Attempts : j <= run'.started /\ j \notin Outstanding' => attempt'[j].send \in {"error", "deferred"}
    <3> SUFFICES ASSUME NEW j \in Attempts, j <= run'.started, j \notin Outstanding'
                 PROVE  attempt'[j].send \in {"error", "deferred"}
      BY Zenon
    <3>1. j <= run.started /\ (j \in R \/ j \notin Outstanding) /\ attempt'[j].send = attempt[j].send
      BY <1>6, <1>9, <1>10, SMTT(30)
    <3>2. j \notin Outstanding => attempt[j].send \in {"error", "deferred"}
      BY <1>0, <3>1, SMTT(30) DEF DialInv, LoopCounts
    <3> QED BY <1>8, <3>1, <3>2, Zenon
  <2> QED BY <1>0, <1>1, <1>2, <1>11, <2>1, <2>2, <2>3, SMTT(30) DEF LoopCounts
<1>14. OneAtATime'
  <2> SUFFICES ASSUME ~hedge
               PROVE  ~run'.timer /\ \A j \in Attempts : j < run'.started => Ended(j)' /\ ~InChannel(j)'
    BY Zenon DEF OneAtATime
  <2>1. ~run.timer /\ \A j \in Attempts : j < run.started => Ended(j) /\ ~InChannel(j)
    BY Zenon DEF DialInv, OneAtATime
  <2>2. taken = 1 /\ R = {h}
    BY <2>1 DEF R
  <2>3. h = run.started /\ h \in Attempts /\ Ended(h)
    BY <1>0, <1>1, <1>8, <2>1, <2>2, SMTT(30) DEF Attempts
  <2>4. \A j \in Attempts : j < run'.started => j < run.started \/ j = h
    BY <1>0, <1>2, <2>3, SMTT(60) DEF Attempts
  <2> QED BY <1>1, <1>2, <1>6, <2>1, <2>2, <2>3, <2>4, SMTT(30)
<1>15. BindingsCounted'
  <2>1. Executing' = Executing
    BY <1>6, Zenon DEF Executing, Attempts
  <2> QED BY <2>1, Zenon DEF DialInv, BindingsCounted
<1> QED
  BY <1>7, <1>12, <1>13, <1>14, <1>15, ZenonT(60) DEF DialInv

LEMMA HedgeTimerInv == ASSUME DialInv, HedgeTimer PROVE DialInv'
  BY NextStartedInv, Zenon DEF HedgeTimer

LEMMA ReceiveInv == ASSUME DialInv, Receive PROVE DialInv'
<1>1. PICK h : h = Head(results)
  BY Zenon
<1>2. CASE attempt[h].send # "ok"
  <2>1. /\ Running /\ NextStarted(1) /\ results # <<>> /\ results' = Tail(results)
        /\ UNCHANGED <<ctx, hedge, bindings, calls>>
    BY <1>1, <1>2, SMTT(30) DEF Receive
  <2> QED BY <1>1, <1>2, <2>1, NextStartedInv, Zenon
<1>3. CASE attempt[h].send = "ok"
  <2>1. /\ run' = [run EXCEPT !.returned = TRUE, !.winner = h, !.active = @ - 1]
        /\ run \in [returned : BOOLEAN, started : 1..N, active : 0..N, timer : BOOLEAN,
                    winner : Attempts \cup {None}]
        /\ run.active > 0 /\ results # <<>> /\ results' = Tail(results)
        /\ attempt' = attempt /\ ctx' = ctx /\ hedge' = hedge /\ bindings' = bindings /\ calls' = calls
    BY <1>1, <1>3, Zenon DEF Receive, Running, DialInv, TypeOK
  <2>2. /\ results' \in Seq(Attempts) /\ h \in Attempts
        /\ \A j \in Attempts : InChannel(j)' => InChannel(j)
        /\ \A n \in DOMAIN results' : \E m \in DOMAIN results : results'[n] = results[m]
        /\ \A n, m \in DOMAIN results' : results'[n] = results'[m] => n = m
    BY <1>1, <2>1, ChannelTail, Zenon
  <2>3. /\ run'.returned /\ run'.winner = h /\ run'.started = run.started /\ run'.timer = run.timer
        /\ h # None
    BY <2>1, <2>2, RunnerConstants, Zenon DEF Attempts
  <2>4. TypeOK'
    <3>1. run.active - 1 \in 0..N
      BY <2>1, RunnerConstants
    <3>2. run' \in [returned : BOOLEAN, started : 1..N, active : 0..N, timer : BOOLEAN,
                   winner : Attempts \cup {None}]
      BY <2>1, <2>2, <3>1, ZenonT(30)
    <3> QED BY <2>1, <2>2, <3>2, ZenonT(60) DEF DialInv, TypeOK
  <2>5. \A j \in Attempts : HoldsByPhase(j)' /\ ReportsByPhase(j)'
    BY <2>1, <2>3, AttemptsFrame, Zenon DEF Cancelled
  <2>6. LoopCounts'
    <3>1. \A j \in Attempts : At(j, "none")' <=> j > run'.started
      BY <2>1, <2>3, SMTT(30) DEF DialInv, LoopCounts, At
    <3>2. \A n \in DOMAIN results' : Ended(results[n])' /\ attempt'[results'[n]].send # None
      BY <2>1, <2>2, SMTT(30) DEF DialInv, LoopCounts, Ended
    <3> QED BY <2>2, <2>3, <3>1, <3>2, ZenonT(60) DEF LoopCounts
  <2>7. OneAtATime' /\ BindingsCounted'
    BY <2>1, <2>2, <2>3, SMTT(30) DEF DialInv, OneAtATime, BindingsCounted, Executing, Ended
  <2> QED BY <2>4, <2>5, <2>6, <2>7, Zenon DEF DialInv
<1> QED BY <1>2, <1>3, Zenon
-----------------------------------------------------------------------------
LEMMA InitInv == Init => DialInv
<1> SUFFICES ASSUME Init PROVE DialInv
  BY Zenon
<1>0. N \in Nat \ {0} /\ Publishers = Attempts /\ 1 \in Attempts
  BY RunnerConstants DEF Attempts
<1>1. /\ ctx = FALSE /\ hedge \in BOOLEAN /\ results = <<>>
      /\ attempt = [i \in Attempts |-> IF i = 1 THEN [NoAttempt EXCEPT !.pc = "started"] ELSE NoAttempt]
      /\ bindings = [refs |-> 0, retiring |-> FALSE, freed |-> FALSE]
      /\ calls = [p \in Publishers |-> NoCall]
      /\ run.returned = FALSE /\ run.started = 1 /\ run.active = 1 /\ run.winner = None
      /\ run.timer = (hedge /\ N > 1)
  BY Zenon DEF Init, RunnerInit, PubInit
<1>2. \A i \in Attempts : /\ attempt[i].pc = (IF i = 1 THEN "started" ELSE "none")
                          /\ attempt[i].outcome = "none" /\ attempt[i].lease = FALSE
                          /\ attempt[i].exec = FALSE /\ attempt[i].send = None
  BY <1>1, Zenon DEF NoAttempt
<1>3. TypeOK
  <2>1. run \in [returned : BOOLEAN, started : 1..N, active : 0..N, timer : BOOLEAN,
                 winner : Attempts \cup {None}]
    BY <1>0 DEF Init, RunnerInit
  <2>2. attempt \in [Attempts -> Attempt]
    BY <1>1, ZenonT(30) DEF NoAttempt, Attempt, Outcome
  <2>3. bindings \in [refs : 0..N, retiring : BOOLEAN, freed : BOOLEAN]
    BY <1>0, <1>1
  <2>4. calls \in [Publishers -> Call]
    BY <1>1, Zenon DEF NoCall, Call, Evidence
  <2>5. ctx \in BOOLEAN /\ hedge \in BOOLEAN
    <3>1. ctx = FALSE /\ hedge \in BOOLEAN
      BY <1>1, Zenon
    <3> QED BY <3>1, ZenonT(30)
  <2>6. results \in Seq(Attempts)
    <3>1. results = <<>>
      BY <1>1, Zenon
    <3> QED BY <3>1
  <2> QED BY <2>1, <2>2, <2>3, <2>4, <2>5, <2>6, ZenonT(60) DEF TypeOK
<1>4. \A i \in Attempts : HoldsByPhase(i) /\ ReportsByPhase(i)
  BY <1>0, <1>1, <1>2, RunnerConstants, SMTT(60) DEF HoldsByPhase, ReportsByPhase, NoCall, At, Ended
<1>5. Outstanding = {1}
  BY <1>0, <1>1, <1>2, SMTT(60) DEF Outstanding, Ended, Attempts
<1>6. LoopCounts
  <2>1. Cardinality(Outstanding) = 1
    BY <1>5, FS_Singleton, Zenon
  <2>2. DOMAIN results = {}
    BY <1>1
  <2>3. \A i \in Attempts : (At(i, "none") <=> i > run.started) /\ (i <= run.started => i \in Outstanding)
    BY <1>1, <1>2, <1>5, SMTT(60) DEF At, Attempts
  <2> QED BY <1>1, <2>1, <2>2, <2>3, SMTT(60) DEF LoopCounts
<1>7. OneAtATime
  BY <1>1 DEF OneAtATime, Attempts
<1>8. BindingsCounted
  <2>1. Executing = {}
    BY <1>2, Zenon DEF Executing
  <2> QED BY <1>1, <2>1, FS_EmptySet, Zenon DEF BindingsCounted
<1> QED
  BY <1>3, <1>4, <1>6, <1>7, <1>8, SMTT(30) DEF DialInv

LEMMA NextInv == DialInv /\ [Next]_vars => DialInv'
<1> SUFFICES ASSUME DialInv, [Next]_vars PROVE DialInv'
  BY Zenon
<1>1. CASE \E i \in Attempts : AttemptStep(i)
  BY <1>1, DeferredInv, BeginAttemptInv, ResolveInv, DialedInv, PanicsInv, CheckConnectedInv,
     CheckCancelledInv, CompletedInv, ExitInv, SMTT(30) DEF AttemptStep
<1>2. CASE DialStep
  BY <1>2, HedgeTimerInv, ReceiveInv, CallerDoneInv, ExhaustedInv, Zenon DEF DialStep
<1>3. CASE CallerCancels \/ RetireBindings
  BY <1>3, CallerCancelsInv, RetireBindingsInv, Zenon
<1>4. CASE UNCHANGED vars
  <2>1. /\ ctx' = ctx /\ hedge' = hedge /\ run' = run /\ results' = results
        /\ attempt' = attempt /\ bindings' = bindings /\ calls' = calls
    BY <1>4, Zenon DEF vars, runnerVars
  <2>2. TypeOK'
    BY <2>1, Zenon DEF DialInv, TypeOK
  <2>3. \A i \in Attempts : HoldsByPhase(i)' /\ ReportsByPhase(i)'
    BY <2>1, AttemptsFrame, SMTT(30) DEF Cancelled
  <2>4. LoopCounts' /\ OneAtATime'
    BY <2>1, SMTT(30) DEF DialInv, LoopCounts, OneAtATime, Outstanding, Ended, InChannel, At
  <2>5. BindingsCounted'
    BY <2>1, Zenon DEF DialInv, BindingsCounted, Executing
  <2> QED BY <2>2, <2>3, <2>4, <2>5, Zenon DEF DialInv
<1> QED
  BY <1>1, <1>2, <1>3, <1>4, Zenon DEF Next

(* At every point of Dial the goroutines hold and have reported what their   *)
(* program point says, and the loop's counters agree with them.              *)
THEOREM DialInvariant == Spec => []DialInv
<1> QED BY InitInv, NextInv, PTL DEF Spec

(* Dial reports failure only when every candidate was tried and none of them *)
(* brought a connection: no result is lost between the channel and the loop. *)
THEOREM FailsOnlyWhenAllFailedTheorem == Spec => []FailsOnlyWhenAllFailed
<1>1. DialInv => FailsOnlyWhenAllFailed
  <2> SUFFICES ASSUME DialInv, run.returned, run.winner = None, ~ctx, NEW i \in Attempts
               PROVE  attempt[i].pc \in {"sent", "gone"} /\ attempt[i].send \in {"error", "deferred"}
    BY Zenon DEF FailsOnlyWhenAllFailed
  <2>1. run.active = 0 /\ run.started = N /\ Cardinality(Outstanding) = 0
    BY Zenon DEF DialInv, LoopCounts
  <2>2. Outstanding = {}
    <3>1. IsFiniteSet(Outstanding)
      BY SubsetsFinite, Zenon DEF Outstanding
    <3> QED BY <2>1, <3>1, FS_EmptySet, Zenon
  <2>3. i <= run.started
    BY <2>1, RunnerConstants DEF Attempts
  <2>4. Ended(i)
    BY <2>2, <2>3, SMTT(30) DEF Outstanding
  <2>5. attempt[i].send \in {"error", "deferred"}
    BY <2>2, <2>3, SMTT(30) DEF DialInv, LoopCounts
  <2> QED BY <2>4, <2>5, Zenon DEF Ended
<1> QED BY <1>1, DialInvariant, PTL

(* Without a hedge the attempts of a plan never overlap.                     *)
THEOREM NoSpeculationTheorem == Spec => []NoSpeculation
<1>1. DialInv => NoSpeculation
  <2> SUFFICES ASSUME DialInv, ~hedge, NEW i \in Attempts, NEW j \in Attempts, i < j, ~At(j, "none")
               PROVE  attempt[i].pc \in {"sent", "gone"} /\ calls[i].pc \in {"idle", "done"}
    BY SMTT(30) DEF NoSpeculation
  <2>1. j <= run.started /\ run.started \in Nat /\ i < run.started
    BY RunnerConstants, SMTT(60) DEF DialInv, TypeOK, LoopCounts, Attempts
  <2>2. Ended(i)
    BY <2>1, SMTT(30) DEF DialInv, OneAtATime
  <2>3. calls[i].pc \in {"idle", "begun", "done"} /\ calls[i].pc # "begun"
    BY <2>2, RunnerConstants, ZenonT(30) DEF DialInv, TypeOK, HoldsByPhase, Ended, At, Attempts, Call
  <2> QED BY <2>2, <2>3, Zenon DEF Ended
<1> QED BY <1>1, DialInvariant, PTL

(* A retired revision keeps its outbounds exactly as long as an attempt uses *)
(* them.                                                                     *)
THEOREM BindingsHeldTheorem == Spec => []BindingsHeld
<1>1. DialInv => BindingsHeld
  <2> SUFFICES ASSUME DialInv PROVE BindingsHeld
    BY Zenon
  <2>1. IsFiniteSet(Executing)
    BY SubsetsFinite, Zenon DEF Executing
  <2>2. bindings.refs = 0 <=> Executing = {}
    BY <2>1, FS_EmptySet, Zenon DEF DialInv, BindingsCounted
  <2>3. Executing = {} <=> \A i \in Attempts : ~attempt[i].exec
    BY Zenon DEF Executing
  <2>4. bindings.freed <=> bindings.retiring /\ bindings.refs = 0
    BY Zenon DEF DialInv, BindingsCounted
  <2> QED BY <2>2, <2>3, <2>4, Zenon DEF BindingsHeld
<1> QED BY <1>1, DialInvariant, PTL

(* A goroutine of Dial that has ended left nothing behind.                   *)
THEOREM NothingHeldTheorem == Spec => []NothingHeld
<1>1. DialInv => NothingHeld
  <2> SUFFICES ASSUME DialInv, NEW i \in Attempts, At(i, "gone")
               PROVE  /\ ~attempt[i].lease /\ ~attempt[i].exec
                      /\ calls[i].pc \in {"idle", "done"} /\ calls[i].permit # "held"
    BY Zenon DEF NothingHeld
  <2>1. HoldsByPhase(i) /\ attempt[i].pc = "gone" /\ calls[i].pc \in {"idle", "begun", "done"}
    BY RunnerConstants, ZenonT(60) DEF DialInv, TypeOK, At, Attempts, Call
  <2> QED BY <2>1, Zenon DEF HoldsByPhase, At
<1> QED BY <1>1, DialInvariant, PTL

(* An attempt that lost the race, or whose caller left, moves no breaker.    *)
THEOREM LoserNotPenalizedTheorem == Spec => []LoserNotPenalized
<1>1. DialInv => LoserNotPenalized
  <2> SUFFICES ASSUME DialInv, NEW i \in Attempts, attempt[i].outcome = "cancelled"
               PROVE  calls[i].permit # "completed"
    BY Zenon DEF LoserNotPenalized
  <2>1. HoldsByPhase(i) /\ ReportsByPhase(i)
    BY Zenon DEF DialInv
  <2>2. calls[i].pc # "idle" => calls[i].evidence = "deferred"
    BY <2>1, Zenon DEF ReportsByPhase
  <2>3. calls[i].permit = "completed" => calls[i].evidence = "eligible"
    BY <2>1, Zenon DEF HoldsByPhase
  <2>4. calls[i].pc = "idle" => calls[i].permit = "none"
    BY <2>1, Zenon DEF HoldsByPhase
  <2> QED BY <2>2, <2>3, <2>4, Zenon
<1> QED BY <1>1, DialInvariant, PTL
=============================================================================
