---------------------------- MODULE Broker_proof ----------------------------
(***************************************************************************)
(* What guards a call of the broker: the circuit breaker, the bulkhead and *)
(* the budget, each proved for every set of callers and every value of its *)
(* limits. The three share no state; their proofs share the facts about    *)
(* finite sets and sums.                                                   *)
(***************************************************************************)
EXTENDS CircuitBreaker, Bulkhead, Budget, SumTheorems, FiniteSetTheorems, TLAPS

-----------------------------------------------------------------------------
(***************************************************************************)
(* The circuit breaker, for every choice of the thresholds the constructor *)
(* accepts.                                                                *)
(***************************************************************************)
\* The strengthening that makes the invariants inductive: a call is a probe only
\* inside the window that admitted it.
ProbesBelongToWindow == cb.state # "half-open" => Probes = {}

BreakerInv == BreakerTypeOK /\ ProbesBelongToWindow /\ ProbeAccounting /\ TripCountIsFresh

LEMMA ProbesFinite == IsFiniteSet(Probes) /\ Cardinality(Probes) \in Nat
  <1>1. IsFiniteSet(Calls) BY CallsAssumption
  <1>2. Probes \subseteq Calls BY DEF Probes
  <1>3. IsFiniteSet(Probes) BY <1>1, <1>2, FS_Subset
  <1> QED BY <1>3, FS_CardinalityType

\* Recording a result gives a well-formed breaker; which states it can lead to,
\* and with which counters.
LEMMA RecordShape ==
  ASSUME BreakerTypeOK, ProbeAccounting, TripCountIsFresh,
         NEW o \in {"success", "failure", "neutral"}
  PROVE  LET b == Record(cb, o) IN
    /\ b \in [state : {"closed", "open", "half-open"}, failures : Nat,
              successes : Nat, halfOpenUsed : Nat, age : 0 .. OpenTimeout]
    /\ o = "neutral" => b = cb
    /\ b.state = "half-open" =>
         /\ cb.state = "half-open"
         /\ b.halfOpenUsed = cb.halfOpenUsed
         /\ b.successes < SuccessThreshold
         /\ o # "failure"
         /\ b.successes = cb.successes + (IF o = "success" THEN 1 ELSE 0)
    /\ b.state = "closed" /\ cb.state = "half-open" => b.failures = 0
    /\ b.state = "closed" /\ cb.state = "closed" =>
         /\ o = "success" => b.failures = 0
         /\ o = "failure" => b.failures = cb.failures + 1
         /\ b.failures < FailureThreshold
    /\ cb.state = "closed" /\ b.state = "open" =>
         o = "failure" /\ cb.failures + 1 >= FailureThreshold
    /\ cb.state = "half-open" /\ b.state = "open" => o = "failure"
    /\ cb.state = "half-open" /\ b.state = "closed" =>
         o = "success" /\ cb.successes + 1 >= SuccessThreshold
    /\ cb.state = "closed" => b.state # "half-open"
    /\ cb.state = "open" => b.state = "open"
  <1> USE ThresholdAssumption
  <1>1. CASE o = "neutral"
    BY <1>1 DEF Record, BreakerTypeOK, ProbeAccounting, TripCountIsFresh
  <1>2. CASE o = "success"
    <2>1. CASE cb.state # "half-open"
      BY <1>2, <2>1 DEF Record, RecordClosed, BreakerTypeOK
    <2>2. CASE cb.state = "half-open" /\ cb.successes + 1 >= SuccessThreshold
      <3>1. Record(cb, o) = Close(cb)
        BY <1>2, <2>2 DEF Record, RecordHalfOpen
      <3> QED BY <1>2, <2>2, <3>1 DEF Close, BreakerTypeOK
    <2>3. CASE cb.state = "half-open" /\ ~(cb.successes + 1 >= SuccessThreshold)
      <3>1. Record(cb, o) = [cb EXCEPT !.successes = @ + 1]
        BY <1>2, <2>3 DEF Record, RecordHalfOpen
      <3> QED BY <1>2, <2>3, <3>1 DEF BreakerTypeOK
    <2> QED BY <2>1, <2>2, <2>3
  <1>3. CASE o = "failure"
    <2>1. CASE cb.state = "half-open"
      <3>1. Record(cb, o) = Trip(cb)
        BY <1>3, <2>1 DEF Record, RecordHalfOpen
      <3> QED BY <1>3, <2>1, <3>1 DEF Trip, BreakerTypeOK
    <2>2. CASE cb.state # "half-open" /\ cb.failures + 1 >= FailureThreshold
      <3>1. Record(cb, o) = Trip(cb)
        BY <1>3, <2>2 DEF Record, RecordClosed
      <3> QED BY <1>3, <2>2, <3>1 DEF Trip, BreakerTypeOK
    <2>3. CASE cb.state # "half-open" /\ ~(cb.failures + 1 >= FailureThreshold)
      <3>1. Record(cb, o) = [cb EXCEPT !.failures = @ + 1]
        BY <1>3, <2>3 DEF Record, RecordClosed
      <3> QED BY <1>3, <2>3, <3>1 DEF BreakerTypeOK
    <2> QED BY <2>1, <2>2, <2>3
  <1> QED BY <1>1, <1>2, <1>3

LEMMA MaybeHalfOpenShape ==
  ASSUME BreakerTypeOK
  PROVE  LET b == MaybeHalfOpen(cb) IN
    /\ b \in [state : {"closed", "open", "half-open"}, failures : Nat,
              successes : Nat, halfOpenUsed : Nat, age : 0 .. OpenTimeout]
    /\ cb.state # "open" => b = cb
    /\ b.state = "open" => b = cb
    /\ b.failures = cb.failures
    /\ cb.state = "open" /\ b.state # "open" =>
         /\ b.state = "half-open" /\ cb.age >= OpenTimeout
         /\ b.successes = 0 /\ b.halfOpenUsed = 0
  BY DEF MaybeHalfOpen, BreakerTypeOK

\* A step that admits nobody (Refuse, State) may still open a window.
LEMMA PromotionKeepsInv ==
  ASSUME BreakerInv, cb' = MaybeHalfOpen(cb), Window(MaybeHalfOpen(cb)),
         UNCHANGED <<call, sick, streak>>
  PROVE  BreakerInv'
  <1> DEFINE b == MaybeHalfOpen(cb)
  <1>1. BreakerTypeOK' BY MaybeHalfOpenShape DEF BreakerInv, BreakerTypeOK, Window
  <1>2. Probes' = Probes BY DEF Probes
  <1>3. CASE b = cb
    BY <1>1, <1>2, <1>3
       DEF BreakerInv, Window, ProbesBelongToWindow, ProbeAccounting, TripCountIsFresh
  <1>4. CASE b # cb
    <2>1. cb.state = "open" /\ b.state = "half-open" /\ b.successes = 0
          /\ b.halfOpenUsed = 0
      BY <1>4, MaybeHalfOpenShape DEF BreakerInv, BreakerTypeOK
    <2>2. Probes' = {} BY <1>2, <2>1 DEF BreakerInv, ProbesBelongToWindow
    <2>3. won' = 0 /\ lost' = 0 /\ late' = 0 BY <2>1 DEF Window
    <2>4. Cardinality(Probes') = 0 BY <2>2, FS_EmptySet
    <2> QED BY <1>1, <2>1, <2>2, <2>3, <2>4, ThresholdAssumption
            DEF BreakerInv, ProbesBelongToWindow, ProbeAccounting, TripCountIsFresh
  <1> QED BY <1>3, <1>4

LEMMA AdmitKeepsInv ==
  ASSUME BreakerInv, NEW c \in Calls, Admit(c)
  PROVE  BreakerInv'
  <1> DEFINE b == MaybeHalfOpen(cb)
  <1>t. BreakerTypeOK /\ ProbesBelongToWindow /\ ProbeAccounting /\ TripCountIsFresh
    BY DEF BreakerInv
  <1>1. CASE b.state = "half-open"
    <2>1. /\ cb' = [b EXCEPT !.halfOpenUsed = @ + 1]
          /\ call' = [call EXCEPT ![c] = "probe"]
          /\ b.halfOpenUsed < HalfOpenMaxCalls
          /\ call[c] = "idle"
          /\ UNCHANGED <<sick, streak>>
      BY <1>1 DEF Admit, Admits
    <2>2. /\ b.halfOpenUsed = Cardinality(Probes) + won' + lost'
          /\ won' \in Nat /\ lost' \in Nat /\ late' \in Nat
          /\ b.successes = won' + late' /\ b.successes < SuccessThreshold
      <3>1. CASE cb.state = "half-open"
        BY <1>t, <1>1, <3>1, MaybeHalfOpenShape
           DEF Admit, Window, BreakerTypeOK, ProbeAccounting
      <3>2. CASE cb.state # "half-open"
        <4>1. b.successes = 0 /\ b.halfOpenUsed = 0
          BY <1>t, <1>1, <3>2, MaybeHalfOpenShape
        <4>2. won' = 0 /\ lost' = 0 /\ late' = 0 BY <1>1, <3>2 DEF Admit, Window
        <4>3. Cardinality(Probes) = 0
          BY <1>t, <3>2, FS_EmptySet DEF ProbesBelongToWindow
        <4> QED BY <4>1, <4>2, <4>3, ThresholdAssumption
      <3> QED BY <3>1, <3>2
    <2>3. Probes' = Probes \cup {c} /\ c \notin Probes
      BY <2>1, <1>t DEF Probes, BreakerTypeOK
    <2>4. Cardinality(Probes') = Cardinality(Probes) + 1
      BY <2>3, ProbesFinite, FS_AddElement
    <2>5. b \in [state : {"closed", "open", "half-open"}, failures : Nat,
                 successes : Nat, halfOpenUsed : Nat, age : 0 .. OpenTimeout]
      BY <1>t, MaybeHalfOpenShape
    <2>6. /\ cb'.state = "half-open" /\ cb'.halfOpenUsed = b.halfOpenUsed + 1
          /\ cb'.successes = b.successes
      BY <1>1, <2>1, <2>5
    <2>7. BreakerTypeOK' BY <1>t, <2>1, <2>2, <2>5 DEF BreakerTypeOK
    <2>8. ProbeAccounting'
      BY <2>1, <2>2, <2>4, <2>5, <2>6, ProbesFinite, ThresholdAssumption
         DEF ProbeAccounting
    <2> QED BY <2>6, <2>7, <2>8
            DEF BreakerInv, ProbesBelongToWindow, TripCountIsFresh
  <1>2. CASE b.state # "half-open"
    <2>1. b.state = "closed" /\ b = cb
      BY <1>2, <1>t, MaybeHalfOpenShape DEF Admit, Admits
    <2>2. cb' = cb /\ call' = [call EXCEPT ![c] = "normal"] /\ call[c] = "idle"
          /\ UNCHANGED <<sick, won, lost, late, streak>>
      BY <1>2, <2>1 DEF Admit, Window
    <2>3. Probes' = Probes BY <2>2, <1>t DEF Probes, BreakerTypeOK
    <2> QED BY <1>t, <2>1, <2>2, <2>3
            DEF BreakerInv, BreakerTypeOK, ProbesBelongToWindow, ProbeAccounting,
                TripCountIsFresh
  <1> QED BY <1>1, <1>2

LEMMA FinishKeepsInv ==
  ASSUME BreakerInv, NEW c \in Calls, NEW o \in {"success", "failure", "neutral"},
         Finish(c, o)
  PROVE  BreakerInv'
  <1> DEFINE b == Record(cb, o)
  <1>t. BreakerTypeOK /\ ProbesBelongToWindow /\ ProbeAccounting /\ TripCountIsFresh
    BY DEF BreakerInv
  <1>f. /\ cb' = b /\ call' = Restamp(c, b) /\ streak' = Streak(b, o)
        /\ call[c] # "idle" /\ sick' = sick
    BY DEF Finish
  <1>b. b \in [state : {"closed", "open", "half-open"}, failures : Nat,
               successes : Nat, halfOpenUsed : Nat, age : 0 .. OpenTimeout]
    BY <1>t, RecordShape
  <1>1. BreakerTypeOK'
    <2>1. won' \in Nat /\ lost' \in Nat /\ late' \in Nat
      BY <1>t DEF Finish, Window, BreakerTypeOK
    <2>2. streak' \in Nat BY <1>t, <1>f DEF Streak, BreakerTypeOK
    <2>3. call' \in [Calls -> {"idle", "normal", "probe"}]
      BY <1>t, <1>f DEF Restamp, BreakerTypeOK
    <2> QED BY <1>t, <1>b, <1>f, <2>1, <2>2, <2>3 DEF BreakerTypeOK
  <1>2. TripCountIsFresh'
    <2> SUFFICES ASSUME b.state = "closed"
                 PROVE  b.failures = streak' /\ streak' < FailureThreshold
      BY <1>f DEF TripCountIsFresh
    <2>1. CASE cb.state = "closed"
      <3>1. cb.failures = streak /\ streak < FailureThreshold
        BY <1>t, <2>1 DEF TripCountIsFresh
      <3>2. CASE o = "success"
        BY <1>t, <1>f, <2>1, <3>2, RecordShape, ThresholdAssumption DEF Streak
      <3>3. CASE o = "failure"
        BY <1>t, <1>f, <2>1, <3>1, <3>3, RecordShape DEF Streak
      <3>4. CASE o = "neutral"
        BY <1>t, <1>f, <2>1, <3>1, <3>4, RecordShape DEF Streak
      <3> QED BY <3>2, <3>3, <3>4
    <2>2. CASE cb.state # "closed"
      <3>1. b.failures = 0 BY <1>t, <2>2, RecordShape DEF BreakerTypeOK
      <3> QED BY <1>f, <2>2, <3>1, ThresholdAssumption DEF Streak
    <2> QED BY <2>1, <2>2
  <1>3. CASE b.state # "half-open"
    <2>1. Probes' = {} BY <1>3, <1>f DEF Probes, Restamp
    <2> QED BY <1>1, <1>2, <1>3, <1>f, <2>1
            DEF BreakerInv, ProbesBelongToWindow, ProbeAccounting
  <1>4. CASE b.state = "half-open"
    <2>1. /\ cb.state = "half-open" /\ b.halfOpenUsed = cb.halfOpenUsed
          /\ b.successes < SuccessThreshold /\ o # "failure"
          /\ b.successes = cb.successes + (IF o = "success" THEN 1 ELSE 0)
      BY <1>t, <1>4, RecordShape
    <2>2. /\ cb.halfOpenUsed = Cardinality(Probes) + won + lost
          /\ cb.halfOpenUsed <= HalfOpenMaxCalls /\ cb.successes = won + late
      BY <1>t, <2>1 DEF ProbeAccounting
    <2>3. Probes' = Probes \ {c} BY <1>4, <1>f DEF Probes, Restamp
    <2>4. won \in Nat /\ lost \in Nat /\ late \in Nat BY <1>t DEF BreakerTypeOK
    <2>5. CASE call[c] = "probe"
      <3>1. c \in Probes BY <2>5 DEF Probes
      <3>2. Cardinality(Probes') = Cardinality(Probes) - 1
        BY <2>3, <3>1, ProbesFinite, FS_RemoveElement
      <3>3. /\ won' = won + (IF o = "success" THEN 1 ELSE 0)
            /\ lost' = lost + (IF o = "neutral" THEN 1 ELSE 0)
            /\ late' = late
        BY <1>4, <2>4, <2>5 DEF Finish
      <3>4. cb'.halfOpenUsed = Cardinality(Probes') + won' + lost'
        BY <1>f, <2>1, <2>2, <2>4, <3>2, <3>3, ProbesFinite
      <3>5. cb'.successes = won' + late' BY <1>f, <2>1, <2>2, <2>4, <3>3
      <3> QED BY <1>1, <1>2, <1>4, <1>f, <2>1, <2>2, <3>4, <3>5
              DEF BreakerInv, ProbesBelongToWindow, ProbeAccounting
    <2>6. CASE call[c] # "probe"
      <3>1. Probes' = Probes BY <2>3, <2>6 DEF Probes
      <3>2. /\ won' = won /\ lost' = lost
            /\ late' = late + (IF o = "success" THEN 1 ELSE 0)
        BY <1>4, <2>4, <2>6 DEF Finish
      <3>3. cb'.successes = won' + late' BY <1>f, <2>1, <2>2, <2>4, <3>2
      <3> QED BY <1>1, <1>2, <1>4, <1>f, <2>1, <2>2, <3>1, <3>2, <3>3
              DEF BreakerInv, ProbesBelongToWindow, ProbeAccounting
    <2> QED BY <2>5, <2>6
  <1> QED BY <1>3, <1>4

\* BreakerInv is an inductive invariant of the breaker.
THEOREM BreakerInvariance == BreakerSpec => []BreakerInv
  <1>1. BreakerInit => BreakerInv
    <2> SUFFICES ASSUME BreakerInit PROVE BreakerInv
      OBVIOUS
    <2>1. BreakerTypeOK
      <3>1. 0 \in 0 .. OpenTimeout BY ThresholdAssumption
      <3>2. call \in [Calls -> {"idle", "normal", "probe"}] BY DEF BreakerInit
      <3> QED BY <3>1, <3>2 DEF BreakerInit, BreakerTypeOK, NewBreaker
    <2>2. Probes = {} BY DEF BreakerInit, Probes
    <2>3. cb.state = "closed" /\ cb.failures = 0 /\ streak = 0
      BY DEF BreakerInit, NewBreaker
    <2> QED BY <2>1, <2>2, <2>3, ThresholdAssumption
            DEF BreakerInv, ProbesBelongToWindow, ProbeAccounting, TripCountIsFresh
  <1>2. BreakerInv /\ [BreakerNext]_cbVars => BreakerInv'
    <2> SUFFICES ASSUME BreakerInv, [BreakerNext]_cbVars PROVE BreakerInv'
      OBVIOUS
    <2>1. ASSUME NEW c \in Calls, Admit(c) PROVE BreakerInv'
      BY <2>1, AdmitKeepsInv
    <2>2. ASSUME NEW c \in Calls, Refuse(c) PROVE BreakerInv'
      BY <2>2, PromotionKeepsInv DEF Refuse
    <2>3. ASSUME NEW c \in Calls, NEW o \in {"success", "failure", "neutral"},
                 Finish(c, o)
          PROVE  BreakerInv'
      BY <2>3, FinishKeepsInv
    <2>4. CASE ReadState BY <2>4, PromotionKeepsInv DEF ReadState
    <2>5. CASE Tick
      <3>1. BreakerTypeOK' BY <2>5, ThresholdAssumption DEF Tick, BreakerInv, BreakerTypeOK
      <3>2. cb'.state = "open" /\ Probes' = Probes
        BY <2>5 DEF Tick, BreakerInv, BreakerTypeOK, Probes
      <3> QED BY <2>5, <3>1, <3>2
              DEF Tick, BreakerInv, ProbesBelongToWindow, ProbeAccounting,
                  TripCountIsFresh
    <2>6. CASE ProviderTurns
      BY <2>6 DEF ProviderTurns, BreakerInv, BreakerTypeOK, ProbesBelongToWindow, Probes,
                  ProbeAccounting, TripCountIsFresh
    <2>7. CASE UNCHANGED cbVars
      BY <2>7 DEF cbVars, BreakerInv, BreakerTypeOK, ProbesBelongToWindow, Probes,
                  ProbeAccounting, TripCountIsFresh
    <2> QED BY <2>1, <2>2, <2>3, <2>4, <2>5, <2>6, <2>7 DEF BreakerNext
  <1> QED BY <1>1, <1>2, PTL DEF BreakerSpec

\* The breaker's fields and histories keep their shapes.
THEOREM BreakerTyped == BreakerSpec => []BreakerTypeOK
  BY BreakerInvariance, PTL DEF BreakerInv

\* admitHalfOpen never hands out more than HalfOpenMaxCalls probes per window,
\* and every one is out, or succeeded, or ended neutral.
THEOREM ProbesAccounted == BreakerSpec => []ProbeAccounting
  BY BreakerInvariance, PTL DEF BreakerInv

\* The trip counter holds exactly the failures since the breaker last closed.
THEOREM FreshTripCount == BreakerSpec => []TripCountIsFresh
  BY BreakerInvariance, PTL DEF BreakerInv

\* A half-open breaker refuses a call only while a probe is out, or because so
\* many ended neutral that the slots left could not have closed it.
THEOREM RefusalExplained == BreakerSpec => []RefusalIsExplained
  <1>1. BreakerInv => RefusalIsExplained
    <2> SUFFICES ASSUME BreakerInv, cb.state = "half-open", ~Admits(cb), Probes = {}
                 PROVE  lost + SuccessThreshold > HalfOpenMaxCalls
      BY DEF RefusalIsExplained
    <2>1. Cardinality(Probes) = 0 BY FS_EmptySet
    <2>2. cb.halfOpenUsed = won + lost
      BY <2>1 DEF BreakerInv, BreakerTypeOK, ProbeAccounting
    <2>3. cb.successes = won + late /\ cb.successes < SuccessThreshold
      BY DEF BreakerInv, ProbeAccounting
    <2>4. cb.halfOpenUsed >= HalfOpenMaxCalls
      BY ThresholdAssumption DEF Admits, BreakerInv, BreakerTypeOK
    <2> QED BY <2>2, <2>3, <2>4, ThresholdAssumption DEF BreakerInv, BreakerTypeOK
  <1> QED BY <1>1, BreakerInvariance, PTL

\* The three together, whatever order the results arrive in.
THEOREM AlwaysExact == BreakerSpec => []BreakerIsExact
  BY ProbesAccounted, FreshTripCount, RefusalExplained, PTL DEF BreakerIsExact

\* The breaker leaves closed, open and half-open only as its header draws it, and
\* half-open for closed on exactly the success that its window still lacked.
THEOREM MovesAsDrawn == BreakerSpec => StateOnlyMovesAsDrawn
  <1> DEFINE Moves ==
        /\ (cb.state = "closed" /\ cb'.state # "closed")
             => cb'.state = "open" /\ ResultArrives /\ sick /\ streak + 1 = FailureThreshold
        /\ (cb.state = "open" /\ cb'.state # "open")
             => cb'.state = "half-open" /\ cb.age = OpenTimeout
        /\ (cb.state = "half-open" /\ cb'.state # "half-open")
             => /\ ResultArrives
                /\ \/ cb'.state = "open" /\ sick
                   \/ cb'.state = "closed" /\ won + late + 1 = SuccessThreshold
  <1>1. BreakerInv /\ [BreakerNext]_cbVars => [Moves]_cbVars
    <2> SUFFICES ASSUME BreakerInv, BreakerNext PROVE Moves
      OBVIOUS
    <2>1. CASE cb'.state = MaybeHalfOpen(cb).state
      BY <2>1, MaybeHalfOpenShape, ThresholdAssumption DEF BreakerInv, BreakerTypeOK
    <2>2. ASSUME NEW c \in Calls, Admit(c) PROVE Moves
      <3>1. cb'.state = MaybeHalfOpen(cb).state
        BY <2>2, MaybeHalfOpenShape DEF Admit, BreakerInv
      <3> QED BY <2>1, <3>1
    <2>3. ASSUME NEW c \in Calls, NEW o \in {"success", "failure", "neutral"},
                 Finish(c, o)
          PROVE  Moves
      <3>1. BreakerTypeOK /\ ProbeAccounting /\ TripCountIsFresh BY DEF BreakerInv
      <3>2. cb' = Record(cb, o) /\ call[c] # "idle" /\ call'[c] = "idle"
        BY <2>3 DEF Finish, Restamp
      <3>3. ResultArrives BY <3>2 DEF ResultArrives
      <3>4. o = "failure" => sick BY <2>3 DEF Finish, Outcomes
      <3>5. CASE cb.state = "closed"
        <4>1. cb.failures = streak /\ streak < FailureThreshold /\ streak \in Nat
          BY <3>1, <3>5 DEF TripCountIsFresh, BreakerTypeOK
        <4>2. cb'.state # "closed"
                => cb'.state = "open" /\ o = "failure" /\ cb.failures + 1 >= FailureThreshold
          BY <3>1, <3>2, <3>5, RecordShape
        <4> QED BY <3>3, <3>4, <3>5, <4>1, <4>2, ThresholdAssumption
      <3>6. CASE cb.state = "half-open"
        <4>1. cb.successes = won + late /\ cb.successes < SuccessThreshold
              /\ won \in Nat /\ late \in Nat
          BY <3>1, <3>6 DEF ProbeAccounting, BreakerTypeOK
        <4>2. cb'.state # "half-open"
                => \/ cb'.state = "open" /\ o = "failure"
                   \/ cb'.state = "closed" /\ cb.successes + 1 >= SuccessThreshold
          BY <3>1, <3>2, <3>6, RecordShape
        <4> QED BY <3>3, <3>4, <3>6, <4>1, <4>2, ThresholdAssumption
      <3>7. CASE cb.state = "open"
        BY <3>1, <3>2, <3>7, RecordShape
      <3> QED BY <3>1, <3>5, <3>6, <3>7 DEF BreakerTypeOK
    <2>4. CASE Tick BY <2>4 DEF Tick, BreakerInv, BreakerTypeOK
    <2>5. CASE ProviderTurns BY <2>5 DEF ProviderTurns
    <2> QED BY <2>1, <2>2, <2>3, <2>4, <2>5 DEF BreakerNext, Refuse, ReadState
  <1> QED BY <1>1, BreakerInvariance, PTL DEF BreakerSpec, StateOnlyMovesAsDrawn

-----------------------------------------------------------------------------
(***************************************************************************)
(* The bulkhead never runs more calls than it has slots, never lets more   *)
(* callers wait than its limit, counts both exactly and leaves no slot     *)
(* idle beside a queue, for any number of callers, slots and waiters. Each *)
(* counter follows the set of callers it counts, so every step is one      *)
(* caller moving between sets (Moved). Handing a slot over moves two       *)
(* callers, which is sound because the queue holds exactly the blocked     *)
(* callers, each once (QueueBlocked).                                      *)
(***************************************************************************)
Held == Those(Holding)
Flying == Those(InFlightPCs)
Counted == Those(WaitingPCs)
Blocked == Those({"queued"})
Parked == Those({"selecting", "queued"})

QueueBlocked ==
    /\ \A i \in DOMAIN queue : queue[i] \in Callers /\ At(queue[i], "queued")
    /\ \A i, j \in DOMAIN queue : queue[i] = queue[j] => i = j
    /\ \A c \in Callers : At(c, "queued") => \E i \in DOMAIN queue : queue[i] = c

(***************************************************************************)
(* The inductive invariant: the limits need the exact counts (a caller     *)
(* starts to wait when the counter says there is room), and these need     *)
(* QueueBlocked (the caller that is handed a slot had none).               *)
(***************************************************************************)
Counts ==
    /\ slots = Cardinality(Held)
    /\ inFlight = Cardinality(Flying)
    /\ waiting = Cardinality(Counted)
    /\ Len(queue) = Cardinality(Blocked)

WaitersBounded == Cardinality(Parked) <= maxWaiting

\* Nobody is blocked beside a free slot.
NoIdleSlot == queue # <<>> => slots = MaxConcurrent

BulkheadInv == BulkheadTypeOK /\ Counts /\ QueueBlocked /\ WaitersBounded /\ NoIdleSlot

-----------------------------------------------------------------------------
(***************************************************************************)
(* Two sets of callers that differ at most in c.                           *)
(***************************************************************************)
Step1(c, T, U) == T \in SUBSET Callers /\ U \in SUBSET Callers /\ T \ {c} = U \ {c}

LEMMA CardStep ==
    ASSUME NEW c \in Callers, NEW T, NEW U, Step1(c, T, U)
    PROVE  /\ Cardinality(T) \in Nat
           /\ Cardinality(U) \in Nat
           /\ (c \in T <=> c \in U) => Cardinality(U) = Cardinality(T)
           /\ c \notin T /\ c \in U => Cardinality(U) = Cardinality(T) + 1
           /\ c \in T /\ c \notin U => Cardinality(U) = Cardinality(T) - 1
<1>1. IsFiniteSet(T) /\ IsFiniteSet(U)
  BY CallersAssumption, FS_Subset DEF Step1
<1>2. Cardinality(T) \in Nat /\ Cardinality(U) \in Nat
  BY <1>1, FS_CardinalityType
<1>3. (c \in T <=> c \in U) => U = T
  BY DEF Step1
<1>4. ASSUME c \notin T, c \in U PROVE Cardinality(U) = Cardinality(T) + 1
  <2>1. U = T \cup {c}
    BY <1>4 DEF Step1
  <2>2. QED
    BY <1>1, <1>4, <2>1, FS_AddElement
<1>5. ASSUME c \in T, c \notin U PROVE Cardinality(U) = Cardinality(T) - 1
  <2>1. U = T \ {c}
    BY <1>5 DEF Step1
  <2>2. QED
    BY <1>1, <1>5, <2>1, FS_RemoveElement
<1>6. QED
  BY <1>2, <1>3, <1>4, <1>5

LEMMA CardsNat ==
    /\ Cardinality(Held) \in Nat /\ Cardinality(Held') \in Nat
    /\ Cardinality(Flying) \in Nat /\ Cardinality(Flying') \in Nat
    /\ Cardinality(Counted) \in Nat /\ Cardinality(Counted') \in Nat
    /\ Cardinality(Blocked) \in Nat /\ Cardinality(Blocked') \in Nat
    /\ Cardinality(Parked) \in Nat /\ Cardinality(Parked') \in Nat
<1>1. \A T \in SUBSET Callers : Cardinality(T) \in Nat
  BY CallersAssumption, FS_Subset, FS_CardinalityType
<1>2. /\ Held \in SUBSET Callers /\ Held' \in SUBSET Callers
      /\ Flying \in SUBSET Callers /\ Flying' \in SUBSET Callers
      /\ Counted \in SUBSET Callers /\ Counted' \in SUBSET Callers
      /\ Blocked \in SUBSET Callers /\ Blocked' \in SUBSET Callers
      /\ Parked \in SUBSET Callers /\ Parked' \in SUBSET Callers
  BY DEF Held, Flying, Counted, Blocked, Parked, Those
<1>3. QED
  BY <1>1, <1>2

(***************************************************************************)
(* The set of callers in S changes by the caller that moves.               *)
(***************************************************************************)
Gain(from, to, S) ==
    IF to \in S /\ from \notin S THEN 1 ELSE IF from \in S /\ to \notin S THEN -1 ELSE 0

LEMMA Moved ==
    ASSUME BulkheadTypeOK, NEW c \in Callers, NEW p, pc' = [pc EXCEPT ![c] = p]
    PROVE  /\ Cardinality(Held') = Cardinality(Held) + Gain(pc[c], p, Holding)
           /\ Cardinality(Flying') = Cardinality(Flying) + Gain(pc[c], p, InFlightPCs)
           /\ Cardinality(Counted') = Cardinality(Counted) + Gain(pc[c], p, WaitingPCs)
           /\ Cardinality(Blocked') = Cardinality(Blocked) + Gain(pc[c], p, {"queued"})
           /\ Cardinality(Parked') = Cardinality(Parked) + Gain(pc[c], p, {"selecting", "queued"})
<1>1. Cardinality(Held') = Cardinality(Held) + Gain(pc[c], p, Holding)
  <2>1. Step1(c, Held, Held') /\ (c \in Held <=> pc[c] \in Holding) /\ (c \in Held' <=> p \in Holding)
    BY DEF BulkheadTypeOK, Step1, Held, Those
  <2>2. QED
    BY <2>1, CardStep DEF Gain
<1>2. Cardinality(Flying') = Cardinality(Flying) + Gain(pc[c], p, InFlightPCs)
  <2>1. Step1(c, Flying, Flying') /\ (c \in Flying <=> pc[c] \in InFlightPCs) /\ (c \in Flying' <=> p \in InFlightPCs)
    BY DEF BulkheadTypeOK, Step1, Flying, Those
  <2>2. QED
    BY <2>1, CardStep DEF Gain
<1>3. Cardinality(Counted') = Cardinality(Counted) + Gain(pc[c], p, WaitingPCs)
  <2>1. Step1(c, Counted, Counted') /\ (c \in Counted <=> pc[c] \in WaitingPCs) /\ (c \in Counted' <=> p \in WaitingPCs)
    BY DEF BulkheadTypeOK, Step1, Counted, Those
  <2>2. QED
    BY <2>1, CardStep DEF Gain
<1>4. Cardinality(Blocked') = Cardinality(Blocked) + Gain(pc[c], p, {"queued"})
  <2>1. Step1(c, Blocked, Blocked') /\ (c \in Blocked <=> pc[c] \in {"queued"}) /\ (c \in Blocked' <=> p \in {"queued"})
    BY DEF BulkheadTypeOK, Step1, Blocked, Those
  <2>2. QED
    BY <2>1, CardStep DEF Gain
<1>5. Cardinality(Parked') = Cardinality(Parked) + Gain(pc[c], p, {"selecting", "queued"})
  <2>1. Step1(c, Parked, Parked') /\ (c \in Parked <=> pc[c] \in {"selecting", "queued"}) /\ (c \in Parked' <=> p \in {"selecting", "queued"})
    BY DEF BulkheadTypeOK, Step1, Parked, Those
  <2>2. QED
    BY <2>1, CardStep DEF Gain
<1>6. QED
  BY <1>1, <1>2, <1>3, <1>4, <1>5

(***************************************************************************)
(* A caller that neither was nor becomes blocked leaves the queue alone.   *)
(***************************************************************************)
LEMMA QueueKept ==
    ASSUME BulkheadTypeOK, QueueBlocked, NEW c \in Callers, NEW p,
           pc' = [pc EXCEPT ![c] = p], queue' = queue, pc[c] # "queued", p # "queued"
    PROVE  QueueBlocked'
BY DEF BulkheadTypeOK, QueueBlocked, At

LEMMA MaxNat == maxWaiting \in Nat
BY MaxConcurrentAssumption, WaitersAssumption DEF maxWaiting

(***************************************************************************)
(* At most maxWaiting callers wait if the counter stays within the limit.  *)
(***************************************************************************)
LEMMA ParkedCounted == Cardinality(Parked') <= Cardinality(Counted')
<1>1. Parked' \in SUBSET Counted' /\ Counted' \in SUBSET Callers
  BY DEF Parked, Counted, Those, WaitingPCs
<1>2. IsFiniteSet(Counted')
  BY <1>1, CallersAssumption, FS_Subset
<1>3. QED
  BY <1>1, <1>2, FS_Subset

LEMMA BulkheadInitInv == BulkheadInit => BulkheadInv
<1> SUFFICES ASSUME BulkheadInit PROVE BulkheadInv
  OBVIOUS
<1>1. BulkheadTypeOK
  BY MaxConcurrentAssumption DEF BulkheadInit, BulkheadTypeOK, PCs
<1>2. Held = {} /\ Flying = {} /\ Counted = {} /\ Blocked = {} /\ Parked = {}
  BY DEF BulkheadInit, Held, Flying, Counted, Blocked, Parked, Those, Holding, InFlightPCs, WaitingPCs
<1>3. Cardinality({}) = 0
  BY FS_EmptySet
<1>4. Counts
  BY <1>2, <1>3 DEF BulkheadInit, Counts
<1>5. QueueBlocked
  BY DEF BulkheadInit, QueueBlocked, At
<1>6. WaitersBounded
  BY <1>2, <1>3, MaxNat DEF WaitersBounded, Parked
<1>7. NoIdleSlot
  BY DEF BulkheadInit, NoIdleSlot
<1>8. QED
  BY <1>1, <1>4, <1>5, <1>6, <1>7 DEF BulkheadInv

-----------------------------------------------------------------------------
(***************************************************************************)
(* A step that moves one caller, not to or from the queue, and leaves the  *)
(* counters exact, the limits kept and the queue where it was.             *)
(***************************************************************************)
Moves(c, p) == pc' = [pc EXCEPT ![c] = p] /\ pc[c] # "queued" /\ p # "queued" /\ p \in PCs

Keeps(from, to, ds, di, dw) ==
    /\ gone' \subseteq Callers /\ queue' = queue
    /\ ds = Gain(from, to, Holding) /\ slots' = slots + ds
    /\ di = Gain(from, to, InFlightPCs) /\ inFlight' = inFlight + di
    /\ dw = Gain(from, to, WaitingPCs) /\ waiting' = waiting + dw

LEMMA PlainMove ==
    ASSUME BulkheadInv, NEW c \in Callers, NEW p, Moves(c, p),
           NEW ds \in Int, NEW di \in Int, NEW dw \in Int, Keeps(pc[c], p, ds, di, dw),
           slots' <= MaxConcurrent, queue # <<>> => slots' = MaxConcurrent,
           \/ Gain(pc[c], p, {"selecting", "queued"}) \in {0, -1}
           \/ waiting' <= maxWaiting
    PROVE  BulkheadInv'
<1>1. BulkheadTypeOK /\ Counts /\ QueueBlocked /\ WaitersBounded /\ NoIdleSlot
  BY DEF BulkheadInv
<1>2. /\ slots' = Cardinality(Held') /\ inFlight' = Cardinality(Flying')
      /\ waiting' = Cardinality(Counted')
  BY <1>1, Moved DEF Moves, Keeps, Counts
<1>3. Len(queue') = Cardinality(Blocked')
  <2>1. Gain(pc[c], p, {"queued"}) = 0
    <3>1. pc[c] \notin {"queued"} /\ p \notin {"queued"}
      BY DEF Moves
    <3>2. QED
      BY <3>1 DEF Gain
  <2>2. Cardinality(Blocked') = Cardinality(Blocked) + Gain(pc[c], p, {"queued"})
    BY <1>1, Moved DEF Moves
  <2>3. Cardinality(Blocked') = Cardinality(Blocked)
    BY <2>1, <2>2, CardsNat
  <2>4. QED
    BY <1>1, <2>3 DEF Keeps, Counts
<1>4. BulkheadTypeOK'
  <2>1. pc' \in [Callers -> PCs]
    BY <1>1 DEF BulkheadTypeOK, Moves
  <2>2. slots' \in 0..MaxConcurrent /\ inFlight' \in Nat /\ waiting' \in Nat
    BY <1>2, CardsNat, MaxConcurrentAssumption
  <2>3. gone' \subseteq Callers /\ queue' \in Seq(Callers)
    BY <1>1 DEF BulkheadTypeOK, Keeps
  <2>4. QED
    BY <2>1, <2>2, <2>3 DEF BulkheadTypeOK
<1>5. QueueBlocked'
  BY <1>1, QueueKept DEF Moves, Keeps
<1>6. Cardinality(Parked') <= maxWaiting
  <2>1. CASE Gain(pc[c], p, {"selecting", "queued"}) \in {0, -1}
    <3>1. Cardinality(Parked') = Cardinality(Parked) + Gain(pc[c], p, {"selecting", "queued"})
      BY <1>1, Moved DEF Moves
    <3>2. Cardinality(Parked) <= maxWaiting
      BY <1>1 DEF WaitersBounded, Parked
    <3>3. QED
      BY <2>1, <3>1, <3>2, CardsNat, MaxNat
  <2>2. CASE waiting' <= maxWaiting
    BY <1>2, <2>2, ParkedCounted, CardsNat, MaxNat
  <2>3. QED
    BY <2>1, <2>2
<1>7. WaitersBounded' /\ NoIdleSlot'
  BY <1>6 DEF WaitersBounded, Parked, NoIdleSlot, maxWaiting, Keeps
<1>8. QED
  BY <1>2, <1>3, <1>4, <1>5, <1>7 DEF BulkheadInv, Counts

LEMMA EnterInv ==
    ASSUME BulkheadInv, NEW c \in Callers, Enter(c)
    PROVE  BulkheadInv'
<1>1. pc[c] = "out" /\ Moves(c, "asking")
  BY DEF BulkheadInv, BulkheadTypeOK, Moves, PCs, Holding, WaitingPCs, At, Goto, Enter
<1>2. Keeps(pc[c], "asking", 0, 0, 0)
  BY <1>1 DEF BulkheadInv, BulkheadTypeOK, Keeps, Gain, Holding, InFlightPCs, WaitingPCs, At, Goto, Enter
<1>3. slots' <= MaxConcurrent /\ (queue # <<>> => slots' = MaxConcurrent)
  BY <1>2, MaxConcurrentAssumption DEF BulkheadInv, BulkheadTypeOK, NoIdleSlot, Keeps
<1>4. Gain(pc[c], "asking", {"selecting", "queued"}) \in {0, -1}
  BY <1>1 DEF Gain
<1>5. QED
  BY <1>1, <1>2, <1>3, <1>4, PlainMove

LEMMA TakeAtOnceInv ==
    ASSUME BulkheadInv, NEW c \in Callers, TakeAtOnce(c)
    PROVE  BulkheadInv'
<1>1. CASE slots < MaxConcurrent /\ slots' = slots + 1 /\ Goto(c, "taken")
  <2>1. pc[c] = "asking" /\ Moves(c, "taken")
    BY <1>1 DEF BulkheadInv, BulkheadTypeOK, Moves, PCs, Holding, WaitingPCs, At, Goto, TakeAtOnce
  <2>2. Keeps(pc[c], "taken", 1, 0, 0)
    BY <1>1, <2>1 DEF BulkheadInv, BulkheadTypeOK, Keeps, Gain, Holding, InFlightPCs, WaitingPCs, At, Goto, TakeAtOnce
  <2>3. slots' <= MaxConcurrent /\ (queue # <<>> => slots' = MaxConcurrent)
    BY <1>1, <2>2, MaxConcurrentAssumption DEF BulkheadInv, BulkheadTypeOK, NoIdleSlot, Keeps, At, Goto, TakeAtOnce
  <2>4. Gain(pc[c], "taken", {"selecting", "queued"}) \in {0, -1}
    BY <1>1, <2>1 DEF Gain
  <2>5. QED
    BY <2>1, <2>2, <2>3, <2>4, PlainMove
<1>2. CASE slots = MaxConcurrent /\ UNCHANGED slots /\ Goto(c, "joining")
  <2>1. pc[c] = "asking" /\ Moves(c, "joining")
    BY <1>2 DEF BulkheadInv, BulkheadTypeOK, Moves, PCs, Holding, WaitingPCs, At, Goto, TakeAtOnce
  <2>2. Keeps(pc[c], "joining", 0, 0, 0)
    BY <1>2, <2>1 DEF BulkheadInv, BulkheadTypeOK, Keeps, Gain, Holding, InFlightPCs, WaitingPCs, At, Goto, TakeAtOnce
  <2>3. slots' <= MaxConcurrent /\ (queue # <<>> => slots' = MaxConcurrent)
    BY <1>2, <2>2, MaxConcurrentAssumption DEF BulkheadInv, BulkheadTypeOK, NoIdleSlot, Keeps, At, Goto, TakeAtOnce
  <2>4. Gain(pc[c], "joining", {"selecting", "queued"}) \in {0, -1}
    BY <1>2, <2>1 DEF Gain
  <2>5. QED
    BY <2>1, <2>2, <2>3, <2>4, PlainMove
<1>3. QED
  BY <1>1, <1>2 DEF At, Goto, TakeAtOnce

LEMMA JoinInv ==
    ASSUME BulkheadInv, NEW c \in Callers, Join(c)
    PROVE  BulkheadInv'
<1>1. CASE Overfull(waiting + 1)
  <2>1. pc[c] = "joining" /\ Moves(c, "shedding")
    BY <1>1 DEF BulkheadInv, BulkheadTypeOK, Moves, PCs, Holding, WaitingPCs, At, Goto, Join
  <2>2. Keeps(pc[c], "shedding", 0, 0, 1)
    BY <1>1, <2>1 DEF BulkheadInv, BulkheadTypeOK, Keeps, Gain, Holding, InFlightPCs, WaitingPCs, At, Goto, Join
  <2>3. slots' <= MaxConcurrent /\ (queue # <<>> => slots' = MaxConcurrent)
    BY <1>1, <2>2, MaxConcurrentAssumption DEF BulkheadInv, BulkheadTypeOK, NoIdleSlot, Keeps
  <2>4. Gain(pc[c], "shedding", {"selecting", "queued"}) \in {0, -1}
    BY <1>1, <2>1 DEF Gain
  <2>5. QED
    BY <2>1, <2>2, <2>3, <2>4, PlainMove
<1>2. CASE ~Overfull(waiting + 1)
  <2>1. pc[c] = "joining" /\ Moves(c, "selecting")
    BY <1>2 DEF BulkheadInv, BulkheadTypeOK, Moves, PCs, Holding, WaitingPCs, At, Goto, Join
  <2>2. Keeps(pc[c], "selecting", 0, 0, 1)
    BY <1>2, <2>1 DEF BulkheadInv, BulkheadTypeOK, Keeps, Gain, Holding, InFlightPCs, WaitingPCs, At, Goto, Join
  <2>3. slots' <= MaxConcurrent /\ (queue # <<>> => slots' = MaxConcurrent)
    BY <1>2, <2>2, MaxConcurrentAssumption DEF BulkheadInv, BulkheadTypeOK, NoIdleSlot, Keeps
  <2>4. waiting' <= maxWaiting
    BY <1>2, <2>1, <2>2, MaxNat DEF BulkheadInv, BulkheadTypeOK, Keeps, Overfull
  <2>5. QED
    BY <2>1, <2>2, <2>3, <2>4, PlainMove
<1>3. QED
  BY <1>1, <1>2 DEF At, Goto, Join

LEMMA ShedInv ==
    ASSUME BulkheadInv, NEW c \in Callers, Shed(c)
    PROVE  BulkheadInv'
<1>1. pc[c] = "shedding" /\ Moves(c, "out")
  BY DEF BulkheadInv, BulkheadTypeOK, Moves, PCs, Holding, WaitingPCs, At, Goto, Return, Shed
<1>2. Keeps(pc[c], "out", 0, 0, -1)
  BY <1>1 DEF BulkheadInv, BulkheadTypeOK, Keeps, Gain, Holding, InFlightPCs, WaitingPCs, At, Goto, Return, Shed
<1>3. slots' <= MaxConcurrent /\ (queue # <<>> => slots' = MaxConcurrent)
  BY <1>2, MaxConcurrentAssumption DEF BulkheadInv, BulkheadTypeOK, NoIdleSlot, Keeps
<1>4. Gain(pc[c], "out", {"selecting", "queued"}) \in {0, -1}
  BY <1>1 DEF Gain
<1>5. QED
  BY <1>1, <1>2, <1>3, <1>4, PlainMove

LEMMA SelectTakesInv ==
    ASSUME BulkheadInv, NEW c \in Callers, SelectTakes(c)
    PROVE  BulkheadInv'
<1>1. pc[c] = "selecting" /\ Moves(c, "handed")
  BY DEF BulkheadInv, BulkheadTypeOK, Moves, PCs, Holding, WaitingPCs, At, Goto, SelectTakes
<1>2. Keeps(pc[c], "handed", 1, 0, 0)
  BY <1>1 DEF BulkheadInv, BulkheadTypeOK, Keeps, Gain, Holding, InFlightPCs, WaitingPCs, At, Goto, SelectTakes
<1>3. slots' <= MaxConcurrent /\ (queue # <<>> => slots' = MaxConcurrent)
  BY <1>2, MaxConcurrentAssumption DEF BulkheadInv, BulkheadTypeOK, NoIdleSlot, Keeps, At, Goto, SelectTakes
<1>4. Gain(pc[c], "handed", {"selecting", "queued"}) \in {0, -1}
  BY <1>1 DEF Gain
<1>5. QED
  BY <1>1, <1>2, <1>3, <1>4, PlainMove

LEMMA SelectLeavesInv ==
    ASSUME BulkheadInv, NEW c \in Callers, SelectLeaves(c)
    PROVE  BulkheadInv'
<1>1. CASE c \in gone /\ Goto(c, "leaving")
  <2>1. pc[c] = "selecting" /\ Moves(c, "leaving")
    BY <1>1 DEF BulkheadInv, BulkheadTypeOK, Moves, PCs, Holding, WaitingPCs, At, Goto, SelectLeaves
  <2>2. Keeps(pc[c], "leaving", 0, 0, 0)
    BY <1>1, <2>1 DEF BulkheadInv, BulkheadTypeOK, Keeps, Gain, Holding, InFlightPCs, WaitingPCs, At, Goto, SelectLeaves
  <2>3. slots' <= MaxConcurrent /\ (queue # <<>> => slots' = MaxConcurrent)
    BY <1>1, <2>2, MaxConcurrentAssumption DEF BulkheadInv, BulkheadTypeOK, NoIdleSlot, Keeps
  <2>4. Gain(pc[c], "leaving", {"selecting", "queued"}) \in {0, -1}
    BY <1>1, <2>1 DEF Gain
  <2>5. QED
    BY <2>1, <2>2, <2>3, <2>4, PlainMove
<1>2. CASE Waits /\ Goto(c, "expiring")
  <2>1. pc[c] = "selecting" /\ Moves(c, "expiring")
    BY <1>2 DEF BulkheadInv, BulkheadTypeOK, Moves, PCs, Holding, WaitingPCs, At, Goto, SelectLeaves
  <2>2. Keeps(pc[c], "expiring", 0, 0, 0)
    BY <1>2, <2>1 DEF BulkheadInv, BulkheadTypeOK, Keeps, Gain, Holding, InFlightPCs, WaitingPCs, At, Goto, SelectLeaves
  <2>3. slots' <= MaxConcurrent /\ (queue # <<>> => slots' = MaxConcurrent)
    BY <1>2, <2>2, MaxConcurrentAssumption DEF BulkheadInv, BulkheadTypeOK, NoIdleSlot, Keeps
  <2>4. Gain(pc[c], "expiring", {"selecting", "queued"}) \in {0, -1}
    BY <1>2, <2>1 DEF Gain
  <2>5. QED
    BY <2>1, <2>2, <2>3, <2>4, PlainMove
<1>3. QED
  BY <1>1, <1>2 DEF At, Goto, SelectLeaves

LEMMA StopWaitingInv ==
    ASSUME BulkheadInv, NEW c \in Callers, StopWaiting(c)
    PROVE  BulkheadInv'
<1>1. CASE At(c, "leaving")
  <2>1. pc[c] = "leaving" /\ Moves(c, "out")
    BY <1>1 DEF BulkheadInv, BulkheadTypeOK, Moves, PCs, Holding, WaitingPCs, At, Goto, Return, StopWaiting
  <2>2. Keeps(pc[c], "out", 0, 0, -1)
    BY <1>1, <2>1 DEF BulkheadInv, BulkheadTypeOK, Keeps, Gain, Holding, InFlightPCs, WaitingPCs, At, Goto, Return, StopWaiting
  <2>3. slots' <= MaxConcurrent /\ (queue # <<>> => slots' = MaxConcurrent)
    BY <1>1, <2>2, MaxConcurrentAssumption DEF BulkheadInv, BulkheadTypeOK, NoIdleSlot, Keeps
  <2>4. Gain(pc[c], "out", {"selecting", "queued"}) \in {0, -1}
    BY <1>1, <2>1 DEF Gain
  <2>5. QED
    BY <2>1, <2>2, <2>3, <2>4, PlainMove
<1>2. CASE At(c, "expiring")
  <2>1. pc[c] = "expiring" /\ Moves(c, "out")
    BY <1>2 DEF BulkheadInv, BulkheadTypeOK, Moves, PCs, Holding, WaitingPCs, At, Goto, Return, StopWaiting
  <2>2. Keeps(pc[c], "out", 0, 0, -1)
    BY <1>2, <2>1 DEF BulkheadInv, BulkheadTypeOK, Keeps, Gain, Holding, InFlightPCs, WaitingPCs, At, Goto, Return, StopWaiting
  <2>3. slots' <= MaxConcurrent /\ (queue # <<>> => slots' = MaxConcurrent)
    BY <1>2, <2>2, MaxConcurrentAssumption DEF BulkheadInv, BulkheadTypeOK, NoIdleSlot, Keeps
  <2>4. Gain(pc[c], "out", {"selecting", "queued"}) \in {0, -1}
    BY <1>2, <2>1 DEF Gain
  <2>5. QED
    BY <2>1, <2>2, <2>3, <2>4, PlainMove
<1>3. QED
  BY <1>1, <1>2 DEF At, Goto, Return, StopWaiting

LEMMA CountInInv ==
    ASSUME BulkheadInv, NEW c \in Callers, CountIn(c)
    PROVE  BulkheadInv'
<1>1. CASE At(c, "taken")
  <2>1. pc[c] = "taken" /\ Moves(c, "admitted")
    BY <1>1 DEF BulkheadInv, BulkheadTypeOK, Moves, PCs, Holding, WaitingPCs, At, Goto, CountIn
  <2>2. Keeps(pc[c], "admitted", 0, 1, 0)
    BY <1>1, <2>1 DEF BulkheadInv, BulkheadTypeOK, Keeps, Gain, Holding, InFlightPCs, WaitingPCs, At, Goto, CountIn
  <2>3. slots' <= MaxConcurrent /\ (queue # <<>> => slots' = MaxConcurrent)
    BY <1>1, <2>2, MaxConcurrentAssumption DEF BulkheadInv, BulkheadTypeOK, NoIdleSlot, Keeps
  <2>4. Gain(pc[c], "admitted", {"selecting", "queued"}) \in {0, -1}
    BY <1>1, <2>1 DEF Gain
  <2>5. QED
    BY <2>1, <2>2, <2>3, <2>4, PlainMove
<1>2. CASE At(c, "handed")
  <2>1. pc[c] = "handed" /\ Moves(c, "counted")
    BY <1>2 DEF BulkheadInv, BulkheadTypeOK, Moves, PCs, Holding, WaitingPCs, At, Goto, CountIn
  <2>2. Keeps(pc[c], "counted", 0, 1, 0)
    BY <1>2, <2>1 DEF BulkheadInv, BulkheadTypeOK, Keeps, Gain, Holding, InFlightPCs, WaitingPCs, At, Goto, CountIn
  <2>3. slots' <= MaxConcurrent /\ (queue # <<>> => slots' = MaxConcurrent)
    BY <1>2, <2>2, MaxConcurrentAssumption DEF BulkheadInv, BulkheadTypeOK, NoIdleSlot, Keeps
  <2>4. Gain(pc[c], "counted", {"selecting", "queued"}) \in {0, -1}
    BY <1>2, <2>1 DEF Gain
  <2>5. QED
    BY <2>1, <2>2, <2>3, <2>4, PlainMove
<1>3. QED
  BY <1>1, <1>2 DEF At, Goto, CountIn

LEMMA UnwaitInv ==
    ASSUME BulkheadInv, NEW c \in Callers, Unwait(c)
    PROVE  BulkheadInv'
<1>1. pc[c] = "counted" /\ Moves(c, "admitted")
  BY DEF BulkheadInv, BulkheadTypeOK, Moves, PCs, Holding, WaitingPCs, At, Goto, Unwait
<1>2. Keeps(pc[c], "admitted", 0, 0, -1)
  BY <1>1 DEF BulkheadInv, BulkheadTypeOK, Keeps, Gain, Holding, InFlightPCs, WaitingPCs, At, Goto, Unwait
<1>3. slots' <= MaxConcurrent /\ (queue # <<>> => slots' = MaxConcurrent)
  BY <1>2, MaxConcurrentAssumption DEF BulkheadInv, BulkheadTypeOK, NoIdleSlot, Keeps
<1>4. Gain(pc[c], "admitted", {"selecting", "queued"}) \in {0, -1}
  BY <1>1 DEF Gain
<1>5. QED
  BY <1>1, <1>2, <1>3, <1>4, PlainMove

LEMMA AcquireInv ==
    ASSUME BulkheadInv, NEW c \in Callers, Acquire(c)
    PROVE  BulkheadInv'
<1>1. CASE c \in gone
  <2>1. pc[c] = "admitted" /\ Moves(c, "releasing")
    BY <1>1 DEF BulkheadInv, BulkheadTypeOK, Moves, PCs, Holding, WaitingPCs, At, Goto, Acquire
  <2>2. Keeps(pc[c], "releasing", 0, 0, 0)
    BY <1>1, <2>1 DEF BulkheadInv, BulkheadTypeOK, Keeps, Gain, Holding, InFlightPCs, WaitingPCs, At, Goto, Acquire
  <2>3. slots' <= MaxConcurrent /\ (queue # <<>> => slots' = MaxConcurrent)
    BY <1>1, <2>2, MaxConcurrentAssumption DEF BulkheadInv, BulkheadTypeOK, NoIdleSlot, Keeps
  <2>4. Gain(pc[c], "releasing", {"selecting", "queued"}) \in {0, -1}
    BY <1>1, <2>1 DEF Gain
  <2>5. QED
    BY <2>1, <2>2, <2>3, <2>4, PlainMove
<1>2. CASE c \notin gone
  <2>1. pc[c] = "admitted" /\ Moves(c, "running")
    BY <1>2 DEF BulkheadInv, BulkheadTypeOK, Moves, PCs, Holding, WaitingPCs, At, Goto, Acquire
  <2>2. Keeps(pc[c], "running", 0, 0, 0)
    BY <1>2, <2>1 DEF BulkheadInv, BulkheadTypeOK, Keeps, Gain, Holding, InFlightPCs, WaitingPCs, At, Goto, Acquire
  <2>3. slots' <= MaxConcurrent /\ (queue # <<>> => slots' = MaxConcurrent)
    BY <1>2, <2>2, MaxConcurrentAssumption DEF BulkheadInv, BulkheadTypeOK, NoIdleSlot, Keeps
  <2>4. Gain(pc[c], "running", {"selecting", "queued"}) \in {0, -1}
    BY <1>2, <2>1 DEF Gain
  <2>5. QED
    BY <2>1, <2>2, <2>3, <2>4, PlainMove
<1>3. QED
  BY <1>1, <1>2 DEF At, Goto, Acquire

LEMMA CallReturnsInv ==
    ASSUME BulkheadInv, NEW c \in Callers, CallReturns(c)
    PROVE  BulkheadInv'
<1>1. pc[c] = "running" /\ Moves(c, "releasing")
  BY DEF BulkheadInv, BulkheadTypeOK, Moves, PCs, Holding, WaitingPCs, At, Goto, CallReturns
<1>2. Keeps(pc[c], "releasing", 0, 0, 0)
  BY <1>1 DEF BulkheadInv, BulkheadTypeOK, Keeps, Gain, Holding, InFlightPCs, WaitingPCs, At, Goto, CallReturns
<1>3. slots' <= MaxConcurrent /\ (queue # <<>> => slots' = MaxConcurrent)
  BY <1>2, MaxConcurrentAssumption DEF BulkheadInv, BulkheadTypeOK, NoIdleSlot, Keeps
<1>4. Gain(pc[c], "releasing", {"selecting", "queued"}) \in {0, -1}
  BY <1>1 DEF Gain
<1>5. QED
  BY <1>1, <1>2, <1>3, <1>4, PlainMove

LEMMA UncountInv ==
    ASSUME BulkheadInv, NEW c \in Callers, Uncount(c)
    PROVE  BulkheadInv'
<1>1. pc[c] = "releasing" /\ Moves(c, "freeing")
  BY DEF BulkheadInv, BulkheadTypeOK, Moves, PCs, Holding, WaitingPCs, At, Goto, Uncount
<1>2. Keeps(pc[c], "freeing", 0, -1, 0)
  BY <1>1 DEF BulkheadInv, BulkheadTypeOK, Keeps, Gain, Holding, InFlightPCs, WaitingPCs, At, Goto, Uncount
<1>3. slots' <= MaxConcurrent /\ (queue # <<>> => slots' = MaxConcurrent)
  BY <1>2, MaxConcurrentAssumption DEF BulkheadInv, BulkheadTypeOK, NoIdleSlot, Keeps
<1>4. Gain(pc[c], "freeing", {"selecting", "queued"}) \in {0, -1}
  BY <1>1 DEF Gain
<1>5. QED
  BY <1>1, <1>2, <1>3, <1>4, PlainMove

LEMMA ContextEndsInv ==
    ASSUME BulkheadInv, NEW c \in Callers, ContextEnds(c)
    PROVE  BulkheadInv'
<1>1. UNCHANGED <<pc, slots, queue, inFlight, waiting>> /\ gone' \subseteq Callers
  BY DEF BulkheadInv, BulkheadTypeOK, ContextEnds
<1>2. QED
  BY <1>1 DEF BulkheadInv, BulkheadTypeOK, Counts, Held, Flying, Counted, Blocked, Parked, QueueBlocked, At,
              WaitersBounded, NoIdleSlot, Those, maxWaiting

-----------------------------------------------------------------------------
(***************************************************************************)
(* The three steps that change the queue.                                  *)
(***************************************************************************)
LEMMA SelectBlocksInv ==
    ASSUME BulkheadInv, NEW c \in Callers, SelectBlocks(c)
    PROVE  BulkheadInv'
<1>1. /\ pc[c] = "selecting" /\ pc' = [pc EXCEPT ![c] = "queued"]
      /\ slots = MaxConcurrent /\ queue' = Append(queue, c)
      /\ UNCHANGED <<gone, slots, inFlight, waiting>>
  BY DEF SelectBlocks, At, Goto
<1>2. BulkheadTypeOK /\ Counts /\ QueueBlocked /\ WaitersBounded
  BY DEF BulkheadInv
<1>3. BulkheadTypeOK'
  BY <1>1, <1>2 DEF BulkheadTypeOK, PCs, WaitingPCs
<1>4. /\ Cardinality(Held') = Cardinality(Held)
      /\ Cardinality(Flying') = Cardinality(Flying)
      /\ Cardinality(Counted') = Cardinality(Counted)
      /\ Cardinality(Blocked') = Cardinality(Blocked) + 1
      /\ Cardinality(Parked') = Cardinality(Parked)
  <2>1. /\ Gain("selecting", "queued", Holding) = 0
        /\ Gain("selecting", "queued", InFlightPCs) = 0
        /\ Gain("selecting", "queued", WaitingPCs) = 0
        /\ Gain("selecting", "queued", {"queued"}) = 1
        /\ Gain("selecting", "queued", {"selecting", "queued"}) = 0
    BY DEF Gain, Holding, InFlightPCs, WaitingPCs
  <2>2. /\ Cardinality(Held') = Cardinality(Held) + Gain(pc[c], "queued", Holding)
        /\ Cardinality(Flying') = Cardinality(Flying) + Gain(pc[c], "queued", InFlightPCs)
        /\ Cardinality(Counted') = Cardinality(Counted) + Gain(pc[c], "queued", WaitingPCs)
        /\ Cardinality(Blocked') = Cardinality(Blocked) + Gain(pc[c], "queued", {"queued"})
        /\ Cardinality(Parked') = Cardinality(Parked) + Gain(pc[c], "queued", {"selecting", "queued"})
    BY <1>1, <1>2, Moved
  <2>3. QED
    BY <1>1, <2>1, <2>2, CardsNat
<1>5. Len(queue') = Len(queue) + 1
  BY <1>1, <1>2 DEF BulkheadTypeOK
<1>6. Counts'
  BY <1>1, <1>2, <1>4, <1>5 DEF Counts
<1>7. QueueBlocked'
  <2>1. Len(queue) \in Nat /\ DOMAIN queue = 1..Len(queue) /\ DOMAIN queue' = 1..(Len(queue) + 1)
    BY <1>1, <1>2 DEF BulkheadTypeOK
  <2>2. queue'[Len(queue) + 1] = c /\ \A i \in DOMAIN queue : queue'[i] = queue[i]
    BY <1>1, <1>2 DEF BulkheadTypeOK
  <2>3. \A i \in DOMAIN queue : queue[i] \in Callers /\ queue[i] # c
    BY <1>1, <1>2 DEF QueueBlocked, At
  <2>4. pc'[c] = "queued" /\ \A d \in Callers : d # c => pc'[d] = pc[d]
    BY <1>1, <1>2 DEF BulkheadTypeOK
  <2>5. \A i \in DOMAIN queue' : queue'[i] \in Callers /\ pc'[queue'[i]] = "queued"
    BY <1>2, <2>1, <2>2, <2>3, <2>4 DEF QueueBlocked, At
  <2>6. \A i, j \in DOMAIN queue' : queue'[i] = queue'[j] => i = j
    BY <1>2, <2>1, <2>2, <2>3 DEF QueueBlocked
  <2>7. \A d \in Callers : pc'[d] = "queued" => \E i \in DOMAIN queue' : queue'[i] = d
    BY <1>2, <2>1, <2>2, <2>4 DEF QueueBlocked, At
  <2>8. QED
    BY <2>5, <2>6, <2>7 DEF QueueBlocked, At
<1>8. WaitersBounded' /\ NoIdleSlot'
  BY <1>1, <1>2, <1>4 DEF WaitersBounded, Parked, NoIdleSlot, maxWaiting
<1>9. QED
  BY <1>3, <1>6, <1>7, <1>8 DEF BulkheadInv

(***************************************************************************)
(* Without(c) is the queue without its one place of c, in the old order.   *)
(***************************************************************************)
LEMMA WithoutQueue ==
    ASSUME BulkheadTypeOK, QueueBlocked, NEW c \in Callers, At(c, "queued")
    PROVE  /\ Without(c) \in Seq(Callers)
           /\ Len(Without(c)) = Len(queue) - 1
           /\ \A i \in DOMAIN Without(c) : Without(c)[i] # c /\ \E j \in DOMAIN queue : Without(c)[i] = queue[j]
           /\ \A i, j \in DOMAIN Without(c) : Without(c)[i] = Without(c)[j] => i = j
           /\ \A j \in DOMAIN queue : queue[j] # c => \E i \in DOMAIN Without(c) : Without(c)[i] = queue[j]
<1> DEFINE k == CHOOSE i \in DOMAIN queue : queue[i] = c
           w == [j \in 1..(Len(queue) - 1) |-> IF j < k THEN queue[j] ELSE queue[j + 1]]
<1>1. k \in DOMAIN queue /\ queue[k] = c
  BY DEF QueueBlocked, At
<1>2. /\ Len(queue) \in Nat /\ DOMAIN queue = 1..Len(queue)
      /\ \A i \in DOMAIN queue : queue[i] \in Callers
      /\ \A i, j \in DOMAIN queue : queue[i] = queue[j] => i = j
  BY DEF BulkheadTypeOK, QueueBlocked
<1>3. Without(c) = w
  BY DEF Without
<1> HIDE DEF k
<1>4. DOMAIN w = 1..(Len(queue) - 1) /\ Len(queue) - 1 \in Nat
  BY <1>1, <1>2
<1>5. \A j \in 1..(Len(queue) - 1) : w[j] = IF j < k THEN queue[j] ELSE queue[j + 1]
  OBVIOUS
<1>6. \A j \in 1..(Len(queue) - 1) : w[j] \in Callers
  BY <1>1, <1>2, <1>5
<1> HIDE DEF w
<1>7. w \in Seq(Callers) /\ Len(w) = Len(queue) - 1
  BY <1>4, <1>6, <1>3 DEF w
<1>8. \A i \in DOMAIN w : w[i] # c /\ \E j \in DOMAIN queue : w[i] = queue[j]
  BY <1>1, <1>2, <1>4, <1>5
<1>9. \A i, j \in DOMAIN w : w[i] = w[j] => i = j
  BY <1>1, <1>2, <1>4, <1>5, SMTT(30)
<1>10. \A j \in DOMAIN queue : queue[j] # c => \E i \in DOMAIN w : w[i] = queue[j]
  <2> SUFFICES ASSUME NEW j \in DOMAIN queue, queue[j] # c PROVE \E i \in DOMAIN w : w[i] = queue[j]
    OBVIOUS
  <2>1. CASE j < k
    <3>1. j \in DOMAIN w /\ w[j] = queue[j]
      BY <1>1, <1>2, <1>4, <1>5, <2>1
    <3>2. QED
      BY <3>1
  <2>2. CASE j > k
    <3>1. j - 1 \in DOMAIN w /\ w[j - 1] = queue[j]
      BY <1>1, <1>2, <1>4, <1>5, <2>2
    <3>2. QED
      BY <3>1
  <2>3. j # k /\ j \in Nat /\ k \in Nat
    BY <1>1, <1>2
  <2>4. QED
    BY <2>1, <2>2, <2>3
<1>11. QED
  BY <1>3, <1>7, <1>8, <1>9, <1>10

LEMMA QueuedLeavesInv ==
    ASSUME BulkheadInv, NEW c \in Callers, QueuedLeaves(c)
    PROVE  BulkheadInv'
<1>1. BulkheadTypeOK /\ Counts /\ QueueBlocked /\ WaitersBounded /\ NoIdleSlot
  BY DEF BulkheadInv
<1>2. PICK p \in {"leaving", "expiring"} :
      /\ pc[c] = "queued" /\ pc' = [pc EXCEPT ![c] = p]
      /\ queue' = Without(c)
      /\ UNCHANGED <<gone, slots, inFlight, waiting>>
  BY DEF QueuedLeaves, At, Goto
<1>3. At(c, "queued")
  BY <1>2 DEF At
<1>4. /\ queue' \in Seq(Callers)
      /\ Len(queue') = Len(queue) - 1
      /\ \A i \in DOMAIN queue' : queue'[i] # c /\ \E j \in DOMAIN queue : queue'[i] = queue[j]
      /\ \A i, j \in DOMAIN queue' : queue'[i] = queue'[j] => i = j
      /\ \A j \in DOMAIN queue : queue[j] # c => \E i \in DOMAIN queue' : queue'[i] = queue[j]
  BY <1>1, <1>2, <1>3, WithoutQueue
<1>5. BulkheadTypeOK'
  BY <1>1, <1>2, <1>4 DEF BulkheadTypeOK, PCs, WaitingPCs
<1>6. /\ Cardinality(Held') = Cardinality(Held)
      /\ Cardinality(Flying') = Cardinality(Flying)
      /\ Cardinality(Counted') = Cardinality(Counted)
      /\ Cardinality(Blocked') = Cardinality(Blocked) - 1
      /\ Cardinality(Parked') = Cardinality(Parked) - 1
  <2>1. /\ Gain("queued", p, Holding) = 0
        /\ Gain("queued", p, InFlightPCs) = 0
        /\ Gain("queued", p, WaitingPCs) = 0
        /\ Gain("queued", p, {"queued"}) = -1
        /\ Gain("queued", p, {"selecting", "queued"}) = -1
    BY DEF Gain, Holding, InFlightPCs, WaitingPCs
  <2>2. /\ Cardinality(Held') = Cardinality(Held) + Gain(pc[c], p, Holding)
        /\ Cardinality(Flying') = Cardinality(Flying) + Gain(pc[c], p, InFlightPCs)
        /\ Cardinality(Counted') = Cardinality(Counted) + Gain(pc[c], p, WaitingPCs)
        /\ Cardinality(Blocked') = Cardinality(Blocked) + Gain(pc[c], p, {"queued"})
        /\ Cardinality(Parked') = Cardinality(Parked) + Gain(pc[c], p, {"selecting", "queued"})
    BY <1>1, <1>2, Moved
  <2>3. QED
    BY <1>2, <2>1, <2>2, CardsNat
<1>7. Counts'
  BY <1>1, <1>2, <1>4, <1>6 DEF Counts
<1>8. QueueBlocked'
  <2>1. pc'[c] # "queued" /\ \A d \in Callers : d # c => pc'[d] = pc[d]
    BY <1>1, <1>2 DEF BulkheadTypeOK
  <2>2. \A i \in DOMAIN queue' : queue'[i] \in Callers /\ pc'[queue'[i]] = "queued"
    BY <1>1, <1>4, <2>1 DEF QueueBlocked, At
  <2>3. \A d \in Callers : pc'[d] = "queued" => \E i \in DOMAIN queue' : queue'[i] = d
    BY <1>1, <1>4, <2>1 DEF QueueBlocked, At
  <2>4. QED
    BY <1>4, <2>2, <2>3 DEF QueueBlocked, At
<1>9. WaitersBounded'
  BY <1>1, <1>6, CardsNat, MaxNat DEF WaitersBounded, Parked, maxWaiting
<1>10. NoIdleSlot'
  <2>1. queue # <<>>
    BY <1>1, <1>3 DEF QueueBlocked
  <2>2. QED
    BY <1>1, <1>2, <2>1 DEF NoIdleSlot
<1>11. QED
  BY <1>5, <1>7, <1>8, <1>9, <1>10 DEF BulkheadInv

(***************************************************************************)
(* The slot goes to the oldest waiter, or back to the channel.             *)
(***************************************************************************)
LEMMA HandOver ==
    ASSUME BulkheadTypeOK, NEW c \in Callers, NEW d \in Callers,
           pc[c] = "freeing", pc[d] = "queued",
           pc' = [pc EXCEPT ![c] = "out", ![d] = "handed"]
    PROVE  /\ Cardinality(Held') = Cardinality(Held)
           /\ Cardinality(Flying') = Cardinality(Flying)
           /\ Cardinality(Counted') = Cardinality(Counted)
           /\ Cardinality(Blocked') = Cardinality(Blocked) - 1
           /\ Cardinality(Parked') = Cardinality(Parked) - 1
<1>1. c # d /\ pc'[c] = "out" /\ pc'[d] = "handed" /\ \A x \in Callers \ {c, d} : pc'[x] = pc[x]
  BY DEF BulkheadTypeOK
<1>2. Cardinality(Held') = Cardinality(Held)
  <2>1. Step1(c, Held, Held \ {c}) /\ c \in Held
    BY DEF Step1, Held, Those, Holding
  <2>2. Step1(d, Held \ {c}, Held') /\ d \notin Held /\ d \in Held'
    BY <1>1 DEF Step1, Held, Those, Holding
  <2>3. Cardinality(Held \ {c}) = Cardinality(Held) - 1 /\ Cardinality(Held) \in Nat
    BY <2>1, CardStep
  <2>4. Cardinality(Held') = Cardinality(Held \ {c}) + 1
    BY <2>2, CardStep
  <2>5. QED
    BY <2>3, <2>4
<1>3. Flying' = Flying /\ Counted' = Counted
  BY <1>1 DEF Flying, Counted, Those, InFlightPCs, WaitingPCs
<1>4. Step1(d, Blocked, Blocked') /\ d \in Blocked /\ d \notin Blocked'
  BY <1>1 DEF Step1, Blocked, Those
<1>5. Step1(d, Parked, Parked') /\ d \in Parked /\ d \notin Parked'
  BY <1>1 DEF Step1, Parked, Those
<1>6. Cardinality(Blocked') = Cardinality(Blocked) - 1
  BY <1>4, CardStep
<1>7. Cardinality(Parked') = Cardinality(Parked) - 1
  BY <1>5, CardStep
<1>8. QED
  BY <1>2, <1>3, <1>6, <1>7

LEMMA FreeSlotInv ==
    ASSUME BulkheadInv, NEW c \in Callers, FreeSlot(c)
    PROVE  BulkheadInv'
<1>1. BulkheadTypeOK /\ Counts /\ QueueBlocked /\ WaitersBounded /\ NoIdleSlot
  BY DEF BulkheadInv
<1>2. CASE queue = <<>>
  <2>1. pc[c] = "freeing" /\ Moves(c, "out")
    BY <1>2 DEF FreeSlot, At, Moves, PCs
  <2>2. Keeps(pc[c], "out", -1, 0, 0)
    BY <1>1, <1>2, <2>1 DEF BulkheadTypeOK, Keeps, Gain, Holding, InFlightPCs, WaitingPCs, FreeSlot
  <2>3. slots' <= MaxConcurrent
    BY <1>1, <2>2, MaxConcurrentAssumption DEF BulkheadTypeOK, Keeps
  <2>4. Gain(pc[c], "out", {"selecting", "queued"}) \in {0, -1}
    BY <2>1 DEF Gain
  <2>5. QED
    BY <1>2, <2>1, <2>2, <2>3, <2>4, PlainMove
<1>3. CASE queue # <<>>
  <2> DEFINE d == Head(queue)
  <2>1. /\ Len(queue) \in Nat /\ DOMAIN queue = 1..Len(queue) /\ 1 \in DOMAIN queue /\ d = queue[1]
        /\ queue' \in Seq(Callers) /\ Len(queue') = Len(queue) - 1
        /\ DOMAIN queue' = 1..(Len(queue) - 1)
        /\ \A i \in DOMAIN queue' : queue'[i] = queue[i + 1]
    <3>1. queue \in Seq(Callers) /\ queue # <<>> /\ queue' = Tail(queue)
      BY <1>1, <1>3 DEF BulkheadTypeOK, FreeSlot
    <3>2. Len(queue) \in Nat \ {0} /\ DOMAIN queue = 1..Len(queue) /\ d = queue[1]
      BY <3>1
    <3>3. queue' \in Seq(Callers) /\ Len(queue') = Len(queue) - 1
      BY <3>1
    <3>4. \A i \in 1..(Len(queue) - 1) : queue'[i] = queue[i + 1]
      BY <3>1
    <3>5. DOMAIN queue' = 1..(Len(queue) - 1)
      BY <3>3
    <3>6. QED
      BY <3>2, <3>3, <3>4, <3>5
  <2>2. /\ d \in Callers /\ pc[d] = "queued" /\ pc[c] = "freeing"
        /\ pc' = [pc EXCEPT ![c] = "out", ![d] = "handed"]
        /\ UNCHANGED <<slots, inFlight, waiting>> /\ gone' \subseteq Callers
    BY <1>1, <1>3, <2>1 DEF FreeSlot, QueueBlocked, At, BulkheadTypeOK
  <2> HIDE DEF d
  <2>3. BulkheadTypeOK'
    BY <1>1, <2>1, <2>2 DEF BulkheadTypeOK, PCs, Holding
  <2>4. /\ Cardinality(Held') = Cardinality(Held)
        /\ Cardinality(Flying') = Cardinality(Flying)
        /\ Cardinality(Counted') = Cardinality(Counted)
        /\ Cardinality(Blocked') = Cardinality(Blocked) - 1
        /\ Cardinality(Parked') = Cardinality(Parked) - 1
    BY <1>1, <2>2, HandOver
  <2>5. Counts'
    BY <1>1, <2>1, <2>2, <2>4 DEF Counts
  <2>6. QueueBlocked'
    <3>1. /\ c # d /\ pc'[c] # "queued" /\ pc'[d] # "queued"
          /\ \A x \in Callers : x # c /\ x # d => pc'[x] = pc[x]
      BY <1>1, <2>2 DEF BulkheadTypeOK
    <3>2. \A i \in DOMAIN queue' : i + 1 \in DOMAIN queue /\ i + 1 # 1
      BY <2>1
    <3>3. \A i \in DOMAIN queue' : queue'[i] \in Callers /\ pc'[queue'[i]] = "queued"
      <4> SUFFICES ASSUME NEW i \in DOMAIN queue'
                   PROVE  queue'[i] \in Callers /\ pc'[queue'[i]] = "queued"
        OBVIOUS
      <4>1. queue'[i] = queue[i + 1] /\ queue'[i] \in Callers /\ pc[queue'[i]] = "queued"
        BY <1>1, <2>1, <3>2 DEF QueueBlocked, At
      <4>2. queue'[i] # d /\ queue'[i] # c
        BY <1>1, <2>1, <2>2, <3>2, <4>1 DEF QueueBlocked
      <4>3. QED
        BY <3>1, <4>1, <4>2
    <3>4. \A i, j \in DOMAIN queue' : queue'[i] = queue'[j] => i = j
      BY <1>1, <2>1, <3>2 DEF QueueBlocked
    <3>5. \A x \in Callers : pc'[x] = "queued" => \E i \in DOMAIN queue' : queue'[i] = x
      <4> SUFFICES ASSUME NEW x \in Callers, pc'[x] = "queued" PROVE \E i \in DOMAIN queue' : queue'[i] = x
        OBVIOUS
      <4>1. x # c /\ x # d /\ pc[x] = "queued"
        BY <3>1
      <4>2. PICK j \in DOMAIN queue : queue[j] = x
        BY <1>1, <4>1 DEF QueueBlocked, At
      <4>3. j - 1 \in DOMAIN queue' /\ queue'[j - 1] = x
        BY <2>1, <4>1, <4>2
      <4>4. QED
        BY <4>3
    <3>6. QED
      BY <3>3, <3>4, <3>5 DEF QueueBlocked, At
  <2>7. WaitersBounded'
    BY <1>1, <2>4, CardsNat, MaxNat DEF WaitersBounded, Parked, maxWaiting
  <2>8. NoIdleSlot'
    BY <1>1, <1>3, <2>2 DEF NoIdleSlot
  <2>9. QED
    BY <2>3, <2>5, <2>6, <2>7, <2>8 DEF BulkheadInv
<1>4. QED
  BY <1>2, <1>3

-----------------------------------------------------------------------------
LEMMA BulkheadNextInv == BulkheadInv /\ [BulkheadNext]_vars => BulkheadInv'
<1> SUFFICES ASSUME BulkheadInv, [BulkheadNext]_vars PROVE BulkheadInv'
  OBVIOUS
<1>1. CASE UNCHANGED vars
  BY <1>1 DEF vars, BulkheadInv, BulkheadTypeOK, Counts, Held, Flying, Counted, Blocked, Parked, QueueBlocked, At,
              WaitersBounded, NoIdleSlot, Those, maxWaiting
<1>2. ASSUME NEW c \in Callers, Enter(c) \/ Step(c) \/ QueuedLeaves(c) \/ ContextEnds(c)
      PROVE  BulkheadInv'
  BY <1>2, EnterInv, TakeAtOnceInv, JoinInv, ShedInv, SelectTakesInv, SelectLeavesInv,
     SelectBlocksInv, QueuedLeavesInv, StopWaitingInv, CountInInv, UnwaitInv, AcquireInv,
     CallReturnsInv, UncountInv, FreeSlotInv, ContextEndsInv DEF Step
<1>3. QED
  BY <1>1, <1>2 DEF BulkheadNext

LEMMA BulkheadInvariance == BulkheadSpec => []BulkheadInv
BY BulkheadInitInv, BulkheadNextInv, PTL DEF BulkheadSpec

(***************************************************************************)
(* Every field keeps its type: the counters never go below zero, the slots *)
(* channel never holds more than it can.                                   *)
(***************************************************************************)
THEOREM BulkheadTyped == BulkheadSpec => []BulkheadTypeOK
<1>1. BulkheadInv => BulkheadTypeOK
  BY DEF BulkheadInv
<1>2. QED
  BY <1>1, BulkheadInvariance, PTL

(***************************************************************************)
(* The slots channel, InFlight and the admission counter hold exactly the  *)
(* callers they stand for, wherever each of them left Execute, and the     *)
(* queue exactly the blocked ones.                                         *)
(***************************************************************************)
THEOREM CountersAlwaysExact == BulkheadSpec => []CountersExact
<1>1. BulkheadInv => CountersExact
  <2> SUFFICES ASSUME BulkheadInv PROVE CountersExact
    OBVIOUS
  <2>1. {queue[i] : i \in DOMAIN queue} = Those({"queued"})
    BY DEF BulkheadInv, QueueBlocked, Those, At
  <2>2. QED
    BY <2>1 DEF BulkheadInv, Counts, Held, Flying, Counted, Blocked, CountersExact
<1>2. QED
  BY <1>1, BulkheadInvariance, PTL

(***************************************************************************)
(* Never more calls inside fn than MaxConcurrent, and never more callers   *)
(* waiting than waitersPerSlot * MaxConcurrent.                            *)
(***************************************************************************)
THEOREM LimitsAlwaysHeld == BulkheadSpec => []LimitsHeld
<1>1. BulkheadInv => LimitsHeld
  <2> SUFFICES ASSUME BulkheadInv PROVE LimitsHeld
    OBVIOUS
  <2>1. Those({"running"}) \in SUBSET Held /\ Held \in SUBSET Callers
    BY DEF Held, Those, Holding
  <2>2. IsFiniteSet(Held)
    BY <2>1, CallersAssumption, FS_Subset
  <2>3. Cardinality(Those({"running"})) <= Cardinality(Held) /\ Cardinality(Those({"running"})) \in Nat
    BY <2>1, <2>2, FS_Subset, FS_CardinalityType
  <2>4. Cardinality(Held) <= MaxConcurrent /\ Cardinality(Held) \in Nat
    BY MaxConcurrentAssumption DEF BulkheadInv, Counts, BulkheadTypeOK
  <2>5. Cardinality(Those({"running"})) <= MaxConcurrent
    BY <2>3, <2>4, MaxConcurrentAssumption
  <2>6. QED
    BY <2>5 DEF LimitsHeld, BulkheadInv, WaitersBounded, Parked
<1>2. QED
  BY <1>1, BulkheadInvariance, PTL

(***************************************************************************)
(* The two together: the bookkeeping of Execute is exact and within its    *)
(* limits, whichever way each caller leaves.                               *)
(***************************************************************************)
THEOREM SlotsAlwaysAccounted == BulkheadSpec => []SlotsAccounted
  BY CountersAlwaysExact, LimitsAlwaysHeld, PTL DEF SlotsAccounted

(***************************************************************************)
(* No caller is blocked while a slot is free.                              *)
(***************************************************************************)
THEOREM NeverIdle == BulkheadSpec => []NoIdleSlot
<1>1. BulkheadInv => NoIdleSlot
  BY DEF BulkheadInv
<1>2. QED
  BY <1>1, BulkheadInvariance, PTL

(***************************************************************************)
(* A slot is taken at once only while nobody is blocked (NoIdleSlot), and  *)
(* a slot that is given up goes to the head of the queue, which is before  *)
(* everybody who stays blocked.                                            *)
(***************************************************************************)
LEMMA TakersPassNobody ==
    ASSUME BulkheadInv, NEW c \in Callers, NEW d \in Callers,
           slots < MaxConcurrent, At(d, "queued")
    PROVE  FALSE
<1>1. PICK i \in DOMAIN queue : queue[i] = d
  BY DEF BulkheadInv, QueueBlocked
<1>2. queue # <<>>
  BY <1>1 DEF BulkheadInv, BulkheadTypeOK
<1>3. QED
  BY <1>2, MaxConcurrentAssumption DEF BulkheadInv, NoIdleSlot

LEMMA HandedInOrder ==
    ASSUME BulkheadInv, NEW e \in Callers, FreeSlot(e), NEW c \in Callers, NEW d \in Callers,
           pc[c] \notin Holding, pc'[c] \in Holding,
           At(d, "queued"), pc'[d] = "queued"
    PROVE  Before(c, d)
<1>1. PICK j \in DOMAIN queue : queue[j] = d
  BY DEF BulkheadInv, QueueBlocked
<1>2. queue \in Seq(Callers) /\ queue # <<>>
  BY <1>1 DEF BulkheadInv, BulkheadTypeOK
<1>3. /\ 1 \in DOMAIN queue /\ Head(queue) = queue[1]
      /\ \A i \in DOMAIN queue : i \in Nat /\ (i = 1 \/ 1 < i)
  BY <1>2
<1>4. pc' = [pc EXCEPT ![e] = "out", ![Head(queue)] = "handed"] /\ pc \in [Callers -> PCs]
  BY <1>2 DEF FreeSlot, BulkheadInv, BulkheadTypeOK
<1>5. Head(queue) = c
  BY <1>4 DEF Holding
<1>6. pc'[c] = "handed"
  BY <1>4, <1>5
<1>7. j # 1
  BY <1>1, <1>3, <1>5, <1>6
<1>8. QED
  BY <1>1, <1>3, <1>5, <1>7 DEF Before

(***************************************************************************)
(* Waiters are admitted in arrival order: nobody who gets a slot, be it a  *)
(* newcomer or a waiter, passes a caller that was blocked before it.       *)
(***************************************************************************)
THEOREM ArrivalOrder == BulkheadSpec => NoOvertaking
<1> DEFINE Passes(c, d) ==
              /\ pc[c] \notin Holding /\ pc'[c] \in Holding
              /\ At(d, "queued") /\ pc'[d] = "queued"
           InOrder == \A c, d \in Callers : Passes(c, d) => Before(c, d)
<1>1. BulkheadInv /\ [BulkheadNext]_vars => [InOrder]_vars
  <2> SUFFICES ASSUME BulkheadInv, BulkheadNext, NEW c \in Callers, NEW d \in Callers, Passes(c, d)
               PROVE  Before(c, d)
    OBVIOUS
  <2>1. PICK e \in Callers : Enter(e) \/ Step(e) \/ QueuedLeaves(e) \/ ContextEnds(e)
    BY DEF BulkheadNext
  <2>2. pc \in [Callers -> PCs]
    BY DEF BulkheadInv, BulkheadTypeOK
  <2>3. CASE TakeAtOnce(e)
    BY <2>2, <2>3, TakersPassNobody DEF TakeAtOnce, Goto, Holding
  <2>4. CASE SelectTakes(e)
    BY <2>4, TakersPassNobody DEF SelectTakes
  <2>5. CASE FreeSlot(e)
    BY <2>5, HandedInOrder
  <2>6. CASE CountIn(e) \/ Unwait(e) \/ Acquire(e) \/ CallReturns(e) \/ Uncount(e)
    BY <2>2, <2>6 DEF CountIn, Unwait, Acquire, CallReturns, Uncount, Goto, At, Holding
  <2>7. CASE \/ Enter(e) \/ Join(e) \/ Shed(e) \/ SelectLeaves(e) \/ SelectBlocks(e)
             \/ StopWaiting(e) \/ QueuedLeaves(e) \/ ContextEnds(e)
    BY <2>2, <2>7 DEF Enter, Join, Shed, SelectLeaves, SelectBlocks, StopWaiting, QueuedLeaves,
                      ContextEnds, Goto, Return, Holding
  <2>8. QED
    BY <2>1, <2>3, <2>4, <2>5, <2>6, <2>7 DEF Step
<1>2. QED
  BY <1>1, BulkheadInvariance, PTL DEF BulkheadSpec, NoOvertaking

-----------------------------------------------------------------------------
(***************************************************************************)
(* The budget, for every set of requests and attempts and any number of    *)
(* shards: a call in progress keeps the reservation it was granted, and    *)
(* the books balance: what is reserved on a shard is what its leases hold, *)
(* what is spent is what the ledger says, and the two together stay under  *)
(* the cap.                                                                *)
(***************************************************************************)
Busy(a) == att[a].pc \in {"calling", "answered", "failed"}

\* The strengthening of CallIsCovered: the lease behind a call is fresh, so the
\* sweeper passes it by, and it names the one attempt that may settle it.
Covered ==
  ~outlived =>
    \A a \in Attempts : Busy(a) =>
      /\ lease[att[a].req] # NoLease
      /\ lease[att[a].req].by = a
      /\ lease[att[a].req].reserved = att[a].est
      /\ ~lease[att[a].req].expired

BudgetInv == LeasesOK /\ AttemptsOK /\ Covered

\* Two calls in progress never share a request id.
LEMMA DistinctRequests ==
  ASSUME BudgetInv, ~outlived, NEW a \in Attempts, NEW b \in Attempts,
         Busy(a), Busy(b), att[a].req = att[b].req
  PROVE  a = b
  BY DEF BudgetInv, Covered

LEMMA BusyHasRequest ==
  ASSUME AttemptsOK, NEW a \in Attempts, Busy(a)
  PROVE  att[a].req \in Requests /\ att[a].est \in Estimates
  BY DEF AttemptsOK, AttemptState, Busy

\* A step that ends an attempt and leaves the leases alone.
LEMMA AbandonKeepsInv ==
  ASSUME BudgetInv, NEW a \in Attempts, att' = [att EXCEPT ![a] = IdleAttempt],
         lease' = lease, outlived' = outlived
  PROVE  BudgetInv'
  <1>1. LeasesOK' BY DEF BudgetInv, LeasesOK
  <1>2. AttemptsOK' BY DEF BudgetInv, AttemptsOK, AttemptState, IdleAttempt
  <1>3. ASSUME NEW b \in Attempts, Busy(b)' PROVE b # a /\ att'[b] = att[b]
    BY <1>3 DEF BudgetInv, AttemptsOK, IdleAttempt, Busy
  <1>4. Covered' BY <1>3 DEF BudgetInv, Covered, Busy
  <1> QED BY <1>1, <1>2, <1>4 DEF BudgetInv

\* A step that ends an attempt and deletes its own lease, if any.
LEMMA SettleKeepsInv ==
  ASSUME BudgetInv, NEW a \in Attempts, Busy(a), att' = [att EXCEPT ![a] = IdleAttempt],
         NEW rs \in SUBSET {att[a].req}, lease' = Drop(rs),
         outlived' = outlived
  PROVE  BudgetInv'
  <1>1. LeasesOK' BY DEF BudgetInv, LeasesOK, Drop
  <1>2. AttemptsOK' BY DEF BudgetInv, AttemptsOK, AttemptState, IdleAttempt
  <1>3. ASSUME NEW b \in Attempts, Busy(b)', ~outlived
        PROVE  /\ b # a /\ att'[b] = att[b] /\ Busy(b)
               /\ lease'[att[b].req] = lease[att[b].req]
    <2>1. b # a /\ att'[b] = att[b] /\ Busy(b)
      BY <1>3 DEF BudgetInv, AttemptsOK, IdleAttempt, Busy
    <2>2. att[b].req # att[a].req BY <1>3, <2>1, DistinctRequests
    <2>3. att[b].req \in Requests BY <2>1, BusyHasRequest DEF BudgetInv
    <2> QED BY <2>1, <2>2, <2>3 DEF Drop
  <1>4. Covered' BY <1>3 DEF BudgetInv, Covered, Busy
  <1> QED BY <1>1, <1>2, <1>4 DEF BudgetInv

LEMMA ReserveWinsKeepsInv ==
  ASSUME BudgetInv, NEW a \in Attempts, ReserveWins(a)
  PROVE  BudgetInv'
  <1> DEFINE r == att[a].req
             row == [shard |-> Trying(a), reserved |-> att[a].est,
                     expired |-> FALSE, by |-> a]
  <1>1. /\ att[a].pc = "reserving" /\ lease[r] = NoLease
        /\ lease' = [lease EXCEPT ![r] = row] /\ outlived' = outlived
        /\ att' = [att EXCEPT ![a] =
                     [pc |-> "calling", req |-> r, est |-> att[a].est]]
    BY DEF ReserveWins, histories
  <1>2. /\ r \in Requests /\ att[a].est \in Estimates
        /\ att[a].first \in Shards /\ att[a].tried \in Nat
    BY <1>1 DEF BudgetInv, AttemptsOK, AttemptState
  <1>3. Trying(a) \in Shards
    BY <1>2, BudgetAssumption DEF Trying, Shards
  <1>4. row \in LeaseRow BY <1>2, <1>3 DEF LeaseRow
  <1>5. LeasesOK' BY <1>1, <1>4 DEF BudgetInv, LeasesOK
  <1>6. AttemptsOK' BY <1>1, <1>2 DEF BudgetInv, AttemptsOK, AttemptState
  <1>7. lease'[r] = row /\ row # NoLease
    BY <1>1, <1>2, <1>4, NoLeaseAssumption DEF BudgetInv, LeasesOK
  <1>8. att'[a].req = r /\ att'[a].est = att[a].est
    BY <1>1 DEF BudgetInv, AttemptsOK
  <1>9. ASSUME NEW b \in Attempts, b # a, Busy(b)', ~outlived
        PROVE  /\ att'[b] = att[b] /\ Busy(b)
               /\ lease'[att[b].req] = lease[att[b].req]
    <2>1. att'[b] = att[b] /\ Busy(b)
      BY <1>1, <1>9 DEF BudgetInv, AttemptsOK, Busy
    <2>2. att[b].req # r
      BY <1>1, <1>9, <2>1 DEF BudgetInv, Covered
    <2> QED BY <1>1, <2>1, <2>2, BusyHasRequest DEF BudgetInv, LeasesOK
  <1>10. Covered'
    <2> SUFFICES ASSUME ~outlived', NEW b \in Attempts, Busy(b)'
                 PROVE  (/\ lease[att[b].req] # NoLease
                         /\ lease[att[b].req].by = b
                         /\ lease[att[b].req].reserved = att[b].est
                         /\ ~lease[att[b].req].expired)'
      BY DEF Covered
    <2>0. ~outlived BY <1>1
    <2>1. CASE b = a BY <2>1, <1>7, <1>8
    <2>2. CASE b # a
      <3>1. /\ att'[b] = att[b] /\ Busy(b)
            /\ lease'[att[b].req] = lease[att[b].req]
        BY <2>0, <2>2, <1>9
      <3> QED BY <2>0, <3>1 DEF BudgetInv, Covered
    <2> QED BY <2>1, <2>2
  <1> QED BY <1>5, <1>6, <1>10 DEF BudgetInv

\* An attempt moves on without touching the leases.
LEMMA AttemptMovesKeepsInv ==
  ASSUME BudgetInv, NEW a \in Attempts, lease' = lease, outlived' = outlived,
         NEW s \in AttemptState, att' = [att EXCEPT ![a] = s],
         \/ s.pc = "reserving"
         \/ /\ Busy(a) /\ s.req = att[a].req /\ s.est = att[a].est
  PROVE  BudgetInv'
  <1>1. LeasesOK' BY DEF BudgetInv, LeasesOK
  <1>2. AttemptsOK' BY DEF BudgetInv, AttemptsOK
  <1>3. ASSUME NEW b \in Attempts, Busy(b)'
        PROVE  Busy(b) /\ att'[b].req = att[b].req /\ att'[b].est = att[b].est
    BY <1>3 DEF BudgetInv, AttemptsOK, Busy
  <1>4. Covered' BY <1>3 DEF BudgetInv, Covered
  <1> QED BY <1>1, <1>2, <1>4 DEF BudgetInv

LEMMA AttemptStepKeepsInv ==
  ASSUME BudgetInv, NEW a \in Attempts, AttemptStep(a)
  PROVE  BudgetInv'
  <1>1. CASE ReserveWins(a) BY <1>1, ReserveWinsKeepsInv
  <1>2. CASE ReserveConflicts(a) BY <1>2, AbandonKeepsInv DEF ReserveConflicts, histories
  <1>3. CASE ReserveLoses(a)
    <2> DEFINE s == [att[a] EXCEPT !.tried = @ + 1]
    <2>1. s \in AttemptState /\ s.pc = "reserving"
      BY <1>3 DEF ReserveLoses, BudgetInv, AttemptsOK, AttemptState
    <2>2. att' = [att EXCEPT ![a] = s] /\ lease' = lease
          /\ outlived' = outlived
      BY <1>3 DEF ReserveLoses, histories
    <2> HIDE DEF s
    <2> QED BY <2>1, <2>2, AttemptMovesKeepsInv
  <1>4. CASE ReserveFails(a) BY <1>4, AbandonKeepsInv DEF ReserveFails, histories
  <1>5. ASSUME NEW cost \in Costs, CallAnswers(a, cost) PROVE BudgetInv'
    <2> DEFINE s == [pc |-> "answered", req |-> att[a].req,
                     est |-> att[a].est, cost |-> cost]
    <2>1. Busy(a) BY <1>5 DEF CallAnswers, Busy
    <2>2. s \in AttemptState
      BY <2>1, BusyHasRequest DEF AttemptState, BudgetInv
    <2>3. /\ att' = [att EXCEPT ![a] = s] /\ lease' = lease
          /\ outlived' = outlived
          /\ s.req = att[a].req /\ s.est = att[a].est
      BY <1>5 DEF CallAnswers
    <2> HIDE DEF s
    <2> QED BY <2>1, <2>2, <2>3, AttemptMovesKeepsInv
  <1>6. CASE CallFails(a)
    <2> DEFINE s == [att[a] EXCEPT !.pc = "failed"]
    <2>1. Busy(a) BY <1>6 DEF CallFails, Busy
    <2>2. s \in AttemptState /\ s.req = att[a].req /\ s.est = att[a].est
      BY <1>6 DEF CallFails, BudgetInv, AttemptsOK, AttemptState
    <2>3. att' = [att EXCEPT ![a] = s] /\ lease' = lease
          /\ outlived' = outlived
      BY <1>6 DEF CallFails, histories
    <2> HIDE DEF s
    <2> QED BY <2>1, <2>2, <2>3, AttemptMovesKeepsInv
  <1>7. CASE Reconcile(a)
    <2>1. Busy(a) /\ att' = [att EXCEPT ![a] = IdleAttempt] /\ outlived' = outlived
      BY <1>7 DEF Reconcile, Busy, histories
    <2>2. CASE ledger[att[a].req] = NoRow
      <3>1. lease' = [lease EXCEPT ![att[a].req] = NoLease]
        BY <1>7, <2>2 DEF Reconcile
      <3>2. lease' = Drop({att[a].req})
        BY <3>1 DEF Drop, BudgetInv, LeasesOK
      <3> QED BY <2>1, <3>2, SettleKeepsInv
    <2>3. CASE ledger[att[a].req] # NoRow
      BY <1>7, <2>1, <2>3, AbandonKeepsInv DEF Reconcile, histories
    <2> QED BY <2>2, <2>3
  <1>8. CASE ReconcileFails(a) BY <1>8, AbandonKeepsInv DEF ReconcileFails, histories
  <1>9. CASE Release(a)
    <2>1. /\ Busy(a) /\ att' = [att EXCEPT ![a] = IdleAttempt]
          /\ lease' = Drop(Unledgered({att[a].req})) /\ outlived' = outlived
      BY <1>9 DEF Release, Busy, histories
    <2>2. Unledgered({att[a].req}) \in SUBSET {att[a].req}
      BY DEF Unledgered
    <2> QED BY <2>1, <2>2, SettleKeepsInv
  <1>10. CASE ReleaseFails(a) BY <1>10, AbandonKeepsInv DEF ReleaseFails, histories
  <1> QED BY <1>1, <1>2, <1>3, <1>4, <1>5, <1>6, <1>7, <1>8, <1>9, <1>10
          DEF AttemptStep

LEMMA StartKeepsInv ==
  ASSUME BudgetInv, NEW a \in Attempts, NEW r \in Requests, NEW first \in Shards,
         Start(a, r, first)
  PROVE  BudgetInv'
  <1> DEFINE s == [pc |-> "reserving", req |-> r,
                   est |-> Estimate[r], first |-> first, tried |-> 0]
  <1>1. s \in AttemptState /\ s.pc = "reserving" BY DEF AttemptState, Estimates
  <1>2. att' = [att EXCEPT ![a] = s] /\ lease' = lease /\ outlived' = outlived
    BY DEF Start, histories
  <1> HIDE DEF s
  <1> QED BY <1>1, <1>2, AttemptMovesKeepsInv

LEMMA ExpireKeepsInv ==
  ASSUME BudgetInv, NEW r \in Requests, Expire(r)
  PROVE  BudgetInv'
  <1>1. /\ lease[r] \in LeaseRow
        /\ lease' = [lease EXCEPT ![r] = [lease[r] EXCEPT !.expired = TRUE]]
        /\ att' = att /\ outlived' = (outlived \/ InFlight(r))
    BY DEF BudgetInv, LeasesOK, Expire
  <1>2. LeasesOK' BY <1>1 DEF BudgetInv, LeasesOK, LeaseRow
  <1>3. ASSUME ~outlived', NEW a \in Attempts, Busy(a)
        PROVE  att[a].req # r /\ ~outlived
    BY <1>1, <1>3 DEF InFlight, Owns, BudgetInv, Covered, Busy
  <1>4. ASSUME ~outlived', NEW a \in Attempts, Busy(a)
        PROVE  lease'[att[a].req] = lease[att[a].req]
    BY <1>1, <1>3, <1>4, BusyHasRequest DEF BudgetInv, LeasesOK
  <1>5. Covered'
    <2> SUFFICES ASSUME ~outlived', NEW a \in Attempts, Busy(a)'
                 PROVE  (/\ lease[att[a].req] # NoLease
                         /\ lease[att[a].req].by = a
                         /\ lease[att[a].req].reserved = att[a].est
                         /\ ~lease[att[a].req].expired)'
      BY DEF Covered
    <2>1. Busy(a) /\ att'[a] = att[a] BY <1>1 DEF Busy
    <2>2. ~outlived /\ lease'[att[a].req] = lease[att[a].req]
      BY <1>3, <1>4, <2>1
    <2> QED BY <2>1, <2>2 DEF BudgetInv, Covered
  <1>6. AttemptsOK' BY <1>1 DEF BudgetInv, AttemptsOK
  <1> QED BY <1>2, <1>5, <1>6 DEF BudgetInv

LEMMA SweepKeepsInv ==
  ASSUME BudgetInv, Sweep
  PROVE  BudgetInv'
  <1>1. lease' = Drop(Victims) /\ att' = att /\ outlived' = outlived
    BY DEF Sweep, histories
  <1>2. LeasesOK' BY <1>1 DEF BudgetInv, LeasesOK, Drop
  <1>3. ASSUME ~outlived, NEW a \in Attempts, Busy(a)
        PROVE  lease'[att[a].req] = lease[att[a].req]
    <2>1. att[a].req \notin Victims
      BY <1>3 DEF BudgetInv, Covered, Victims, Unledgered
    <2> QED BY <1>1, <1>3, <2>1, BusyHasRequest DEF Drop, BudgetInv
  <1>4. Covered' BY <1>1, <1>3 DEF BudgetInv, Covered, Busy
  <1>5. AttemptsOK' BY <1>1 DEF BudgetInv, AttemptsOK
  <1> QED BY <1>2, <1>4, <1>5 DEF BudgetInv

THEOREM BudgetInvariance == BudgetSpec => []BudgetInv
  <1>1. BudgetInit => BudgetInv
    BY DEF BudgetInit, IdleAttempt, BudgetInv, LeasesOK, AttemptsOK, AttemptState, Covered, Busy
  <1>2. BudgetInv /\ [BudgetNext]_budgetVars => BudgetInv'
    <2> SUFFICES ASSUME BudgetInv, [BudgetNext]_budgetVars PROVE BudgetInv'
      OBVIOUS
    <2>1. ASSUME NEW a \in Attempts, AttemptStep(a) PROVE BudgetInv'
      BY <2>1, AttemptStepKeepsInv
    <2>2. ASSUME NEW a \in Attempts, NEW r \in Requests, NEW first \in Shards,
                 Start(a, r, first)
          PROVE  BudgetInv'
      BY <2>2, StartKeepsInv
    <2>3. ASSUME NEW r \in Requests, Expire(r) PROVE BudgetInv'
      BY <2>3, ExpireKeepsInv
    <2>4. CASE Sweep BY <2>4, SweepKeepsInv
    <2>5. CASE Crash
      BY <2>5 DEF Crash, histories, IdleAttempt, BudgetInv, LeasesOK, AttemptsOK, AttemptState,
                  Covered, Busy
    <2>6. CASE UNCHANGED budgetVars
      BY <2>6 DEF budgetVars, histories, BudgetInv, LeasesOK, AttemptsOK, Covered, Busy
    <2> QED BY <2>1, <2>2, <2>3, <2>4, <2>5, <2>6 DEF BudgetNext
  <1> QED BY <1>1, <1>2, PTL DEF BudgetSpec

\* While leases outlive their requests, every call in progress has its own
\* reservation behind it, whoever else reconciles, releases, sweeps or retries.
THEOREM EveryCallIsCovered == BudgetSpec => []CallIsCovered
  <1>1. BudgetInv => CallIsCovered
    BY DEF BudgetInv, Covered, CallIsCovered, Owns, Busy
  <1> QED BY <1>1, BudgetInvariance, PTL

-----------------------------------------------------------------------------
(***************************************************************************)
(* The books.  ReservedIsLeases and SpentIsLedger are inductive with the   *)
(* types; CapHeld needs that a call's lease still holds its estimate       *)
(* (Covered) and that what it turned out to cost is no more.               *)
(***************************************************************************)
Accounts ==
  /\ shard \in [Shards -> [reserved : Nat, spent : Nat]]
  /\ ledger \in [Requests -> {NoRow} \cup Costs]
  /\ ReservedIsLeases
  /\ SpentIsLedger

CostsCovered ==
  ~overran => \A a \in Attempts :
                att[a].pc = "answered" => att[a].cost <= att[a].est

Books ==
  /\ Accounts
  /\ overran \in BOOLEAN /\ outlived \in BOOLEAN
  /\ CostsCovered
  /\ CapHeld

\* What the leases of a set of requests hold is a finite sum.
LEMMA LeaseFacts ==
  ASSUME LeasesOK
  PROVE  /\ IsFiniteSet(Leased) /\ Leased \subseteq Requests
         /\ \A r \in Leased : /\ lease[r] \in LeaseRow /\ lease[r].shard \in Shards
                              /\ Reserved[r] = lease[r].reserved
                              /\ Reserved[r] \in Nat
         /\ \A s \in Shards, rs \in SUBSET Leased :
              /\ IsFiniteSet(On(s, rs)) /\ On(s, rs) \subseteq Leased
              /\ SumFunctionOnSet(Reserved, On(s, rs)) \in Nat
  <1>1. Leased \subseteq Requests /\ IsFiniteSet(Leased)
    <2>1. Leased \subseteq Requests BY DEF Leased
    <2> QED BY <2>1, FS_Subset, BudgetAssumption
  <1>2. ASSUME NEW r \in Leased
        PROVE  /\ lease[r] \in LeaseRow /\ lease[r].shard \in Shards
               /\ Reserved[r] = lease[r].reserved /\ Reserved[r] \in Nat
    <2>1. lease[r] \in LeaseRow BY DEF LeasesOK, Leased
    <2>2. Reserved[r] = lease[r].reserved BY DEF Reserved
    <2>3. lease[r].reserved \in Nat
      BY <2>1, BudgetAssumption DEF LeaseRow, Estimates
    <2>4. lease[r].shard \in Shards BY <2>1 DEF LeaseRow
    <2> QED BY <2>1, <2>2, <2>3, <2>4
  <1>3. ASSUME NEW s \in Shards, NEW rs \in SUBSET Leased
        PROVE  /\ IsFiniteSet(On(s, rs)) /\ On(s, rs) \subseteq Leased
               /\ SumFunctionOnSet(Reserved, On(s, rs)) \in Nat
    <2>1. On(s, rs) \subseteq Leased BY DEF On
    <2>2. IsFiniteSet(On(s, rs)) BY <1>1, <2>1, FS_Subset
    <2>3. \A r \in On(s, rs) : Reserved[r] \in Nat BY <1>2, <2>1
    <2> QED BY <2>1, <2>2, <2>3, SumType
  <1> QED BY <1>1, <1>2, <1>3

LEMMA ShardFacts == IsFiniteSet(Shards) /\ 0 \in Shards
  <1>1. ShardCount - 1 \in Int /\ 0 \in Int /\ 0 <= ShardCount - 1
    BY BudgetAssumption
  <1> QED BY <1>1, FS_Interval DEF Shards

\* What is spent on each shard, and what the ledger holds, are finite sums too.
LEMMA SpentFacts ==
  ASSUME Accounts
  PROVE  /\ \A s \in Shards : shard[s].spent \in Nat /\ shard[s].reserved \in Nat
         /\ IsFiniteSet(Charged)
         /\ \A r \in Charged : ledger[r] \in Nat
  <1>1. Charged \subseteq Requests BY DEF Charged
  <1>2. IsFiniteSet(Charged) BY <1>1, FS_Subset, BudgetAssumption
  <1>3. \A r \in Charged : ledger[r] \in Nat
    BY BudgetAssumption DEF Accounts, Charged
  <1>4. \A s \in Shards : shard[s].spent \in Nat /\ shard[s].reserved \in Nat
    BY DEF Accounts
  <1> QED BY <1>2, <1>3, <1>4

\* A step that moves no money leaves the books alone.
LEMMA SameBooks ==
  ASSUME LeasesOK, Accounts, shard' = shard, ledger' = ledger, Leased' = Leased,
         \A r \in Leased : /\ lease'[r].shard = lease[r].shard
                           /\ lease'[r].reserved = lease[r].reserved
  PROVE  Accounts'
  <1>1. ASSUME NEW s \in Shards PROVE ReservedOn(s)' = ReservedOn(s)
    <2>1. On(s, Leased)' = On(s, Leased) BY DEF On
    <2>2. IsFiniteSet(On(s, Leased)) /\ On(s, Leased) \subseteq Leased
      BY LeaseFacts
    <2>3. \A r \in On(s, Leased) : Reserved[r] \in Nat /\ Reserved'[r] = Reserved[r]
      BY <2>2, LeaseFacts DEF Reserved
    <2>4. SumFunctionOnSet(Reserved', On(s, Leased)) =
          SumFunctionOnSet(Reserved, On(s, Leased))
      BY <2>2, <2>3, SumSame
    <2>5. ReservedOn(s)' = SumFunctionOnSet(Reserved', On(s, Leased)')
      BY Zenon DEF ReservedOn
    <2> QED BY <2>1, <2>4, <2>5, Zenon DEF ReservedOn
  <1>2. ReservedIsLeases' BY <1>1 DEF Accounts, ReservedIsLeases
  <1>3. SpentIsLedger' BY DEF Accounts, SpentIsLedger, Charged
  <1> QED BY <1>2, <1>3 DEF Accounts

\* What is left on a shard when some of its leases are dropped.
LEMMA ReservedAfterDrop ==
  ASSUME LeasesOK, NEW rs \in SUBSET Leased, lease' = Drop(rs), NEW s \in Shards
  PROVE  /\ ReservedOn(s) = ReservedOn(s)' + SumFunctionOnSet(Reserved, On(s, rs))
         /\ ReservedOn(s)' \in Nat
  <1> DEFINE dropped == On(s, rs)
             rest == On(s, Leased \ rs)
  <1>1. /\ IsFiniteSet(dropped) /\ IsFiniteSet(rest)
        /\ dropped \subseteq Leased /\ rest \subseteq Leased
        /\ SumFunctionOnSet(Reserved, dropped) \in Nat
        /\ SumFunctionOnSet(Reserved, rest) \in Nat
    BY LeaseFacts
  <1>2. On(s, Leased) = rest \cup dropped /\ rest \cap dropped = {} BY DEF On
  <1>3. Leased' = Leased \ rs /\ \A r \in Leased \ rs : lease'[r] = lease[r]
    BY DEF Leased, Drop
  <1>4. On(s, Leased)' = rest BY <1>3 DEF On
  <1>5. \A r \in rest : Reserved[r] \in Nat /\ Reserved'[r] = Reserved[r]
    <2>1. \A r \in rest : r \in Leased \ rs BY DEF On
    <2> QED BY <2>1, <1>3, LeaseFacts DEF Reserved
  <1>6. \A r \in rest \cup dropped : Reserved[r] \in Nat BY <1>1, LeaseFacts
  <1> HIDE DEF dropped, rest
  <1>7. SumFunctionOnSet(Reserved, rest \cup dropped) =
        SumFunctionOnSet(Reserved, rest) + SumFunctionOnSet(Reserved, dropped)
    BY <1>1, <1>2, <1>6, SumUnion
  <1>8. SumFunctionOnSet(Reserved', rest) = SumFunctionOnSet(Reserved, rest)
    BY <1>1, <1>5, SumSame
  <1>9. ReservedOn(s) = SumFunctionOnSet(Reserved, rest \cup dropped)
    BY <1>2, Zenon DEF ReservedOn
  <1>10. ReservedOn(s)' = SumFunctionOnSet(Reserved', On(s, Leased)')
    BY Zenon DEF ReservedOn
  <1>11. ReservedOn(s)' = SumFunctionOnSet(Reserved, rest)
    BY <1>4, <1>8, <1>10, Zenon
  <1> QED BY <1>1, <1>7, <1>9, <1>11, Zenon DEF dropped

\* Leases that are dropped give back exactly what they held.
LEMMA HandBackBalances ==
  ASSUME LeasesOK, LeasesOK', Accounts, NEW rs \in SUBSET Leased,
         lease' = Drop(rs), shard' = HandBack(rs), ledger' = ledger
  PROVE  /\ Accounts'
         /\ \A s \in Shards : shard'[s].spent = shard[s].spent
                              /\ shard'[s].reserved <= shard[s].reserved
  <1>1. ASSUME NEW s \in Shards
        PROVE  /\ shard'[s] \in [reserved : Nat, spent : Nat]
               /\ shard'[s].reserved = ReservedOn(s)'
               /\ shard'[s].spent = shard[s].spent
               /\ shard'[s].reserved <= shard[s].reserved
    <2> DEFINE back == SumFunctionOnSet(Reserved, On(s, rs))
    <2>1. back \in Nat BY LeaseFacts
    <2>2. ReservedOn(s)' \in Nat BY ReservedAfterDrop
    <2>3. ReservedOn(s) = ReservedOn(s)' + back BY ReservedAfterDrop
    <2>4. shard[s].reserved = ReservedOn(s)
      BY DEF Accounts, ReservedIsLeases
    <2>5. shard[s] \in [reserved : Nat, spent : Nat] BY DEF Accounts
    <2>6. shard'[s] = [shard[s] EXCEPT !.reserved = @ - back]
      BY DEF HandBack
    <2> HIDE DEF back
    <2>7. shard'[s] = [reserved |-> shard[s].reserved - back, spent |-> shard[s].spent]
      BY <2>5, <2>6
    <2>8. \A x, y, z \in Nat : x = y + z => x - z = y /\ y <= x OBVIOUS
    <2>9. shard[s].reserved - back = ReservedOn(s)' /\ ReservedOn(s)' <= shard[s].reserved
      BY <2>1, <2>2, <2>3, <2>4, <2>5, <2>8
    <2>10. shard'[s] = [reserved |-> ReservedOn(s)', spent |-> shard[s].spent]
      BY <2>7, <2>9
    <2> QED BY <2>2, <2>5, <2>9, <2>10
  <1>2. shard' \in [Shards -> [reserved : Nat, spent : Nat]]
    <2>1. shard' = [s \in Shards |-> shard'[s]] BY DEF HandBack
    <2>2. \A s \in Shards : shard'[s] \in [reserved : Nat, spent : Nat]
      BY <1>1
    <2> QED BY <2>1, <2>2
  <1>3. ReservedIsLeases' BY <1>1, Zenon DEF ReservedIsLeases
  <1>4. SpentIsLedger'
    <2>1. [s \in Shards |-> shard'[s].spent] = [s \in Shards |-> shard[s].spent]
      BY <1>1
    <2>2. Charged' = Charged BY DEF Charged
    <2> QED BY <2>1, <2>2 DEF Accounts, SpentIsLedger
  <1>5. ledger' \in [Requests -> {NoRow} \cup Costs] BY DEF Accounts
  <1> QED BY <1>1, <1>2, <1>3, <1>4, <1>5 DEF Accounts

\* A granted reservation is on its shard and on its lease.
LEMMA ReserveBalances ==
  ASSUME BudgetInv, Accounts, NEW a \in Attempts, ReserveWins(a)
  PROVE  /\ Accounts'
         /\ \A s \in Shards :
              /\ shard'[s].spent = shard[s].spent
              /\ shard'[s].reserved = IF s = Trying(a)
                                      THEN shard[s].reserved + att[a].est
                                      ELSE shard[s].reserved
  <1> DEFINE r == att[a].req
             t == Trying(a)
             est == att[a].est
  <1>1. /\ att[a].pc = "reserving" /\ lease[r] = NoLease /\ ledger' = ledger
        /\ lease' = [lease EXCEPT ![r] = [shard |-> t, reserved |-> est,
                                          expired |-> FALSE, by |-> a]]
        /\ shard' = [shard EXCEPT ![t].reserved = @ + est]
    BY DEF ReserveWins
  <1>2. /\ r \in Requests /\ est \in Estimates
        /\ att[a].first \in Shards /\ att[a].tried \in Nat
    BY <1>1 DEF BudgetInv, AttemptsOK, AttemptState
  <1>3. t \in Shards /\ est \in Nat
    BY <1>2, BudgetAssumption DEF Trying, Shards, Estimates
  <1>4. LeasesOK /\ LeasesOK' /\ lease \in [Requests -> {NoLease} \cup LeaseRow]
    BY ReserveWinsKeepsInv DEF BudgetInv, LeasesOK
  <1>5. r \notin Leased /\ Leased' = Leased \cup {r}
    <2>1. [shard |-> t, reserved |-> est, expired |-> FALSE, by |-> a] \in LeaseRow
      BY <1>2, <1>3 DEF LeaseRow
    <2>2. [shard |-> t, reserved |-> est, expired |-> FALSE, by |-> a] # NoLease
      BY <2>1, NoLeaseAssumption
    <2> HIDE DEF r, t, est
    <2> QED BY <1>1, <1>2, <1>4, <2>2 DEF Leased
  <1>6. /\ lease'[r].shard = t /\ lease'[r].reserved = est
        /\ \A q \in Leased : lease'[q] = lease[q] /\ q # r
    BY <1>1, <1>2, <1>4, <1>5 DEF Leased
  <1>7. \A s \in Shards :
          /\ shard[s] \in [reserved : Nat, spent : Nat]
          /\ s = t => shard'[s] = [reserved |-> shard[s].reserved + est,
                                  spent |-> shard[s].spent]
          /\ s # t => shard'[s] = shard[s]
    BY <1>1, <1>3 DEF Accounts
  <1> HIDE DEF r, t, est
  <1>8. ASSUME NEW s \in Shards
        PROVE  ReservedOn(s)' = IF s = t THEN ReservedOn(s) + est ELSE ReservedOn(s)
    <2> DEFINE old == On(s, Leased)
    <2>1. /\ IsFiniteSet(old) /\ old \subseteq Leased /\ ReservedOn(s) \in Nat
          /\ \A q \in old : Reserved[q] \in Nat
      BY <1>4, LeaseFacts DEF ReservedOn
    <2>2. \A q \in old : Reserved'[q] = Reserved[q]
      BY <2>1, <1>5, <1>6 DEF Reserved
    <2>3. SumFunctionOnSet(Reserved', old) = ReservedOn(s)
      <3>1. SumFunctionOnSet(Reserved', old) = SumFunctionOnSet(Reserved, old)
        BY <2>1, <2>2, SumSame
      <3> QED BY <3>1, Zenon DEF ReservedOn
    <2>4. ReservedOn(s)' = SumFunctionOnSet(Reserved', On(s, Leased)')
      BY Zenon DEF ReservedOn
    <2>5. CASE s = t
      <3>1. On(s, Leased)' = old \cup {r} /\ r \notin old
        BY <2>5, <1>5, <1>6 DEF On
      <3>2. Reserved'[r] = est BY <1>5, <1>6 DEF Reserved
      <3> HIDE DEF old
      <3>3. /\ IsFiniteSet(old \cup {r}) /\ (old \cup {r}) \ {r} = old
            /\ \A q \in old \cup {r} : Reserved'[q] \in Nat
        BY <2>1, <2>2, <3>1, <3>2, <1>3, FS_AddElement
      <3>4. SumFunctionOnSet(Reserved', old \cup {r}) =
            Reserved'[r] + SumFunctionOnSet(Reserved', (old \cup {r}) \ {r})
        BY <3>3, SumRemove
      <3>5. ReservedOn(s)' = est + ReservedOn(s)
        BY <3>1, <3>2, <3>3, <3>4, <2>3, <2>4, Zenon
      <3> QED BY <3>5, <2>1, <2>5, <1>3
    <2>6. CASE s # t
      <3>1. On(s, Leased)' = old BY <2>6, <1>5, <1>6 DEF On
      <3> QED BY <3>1, <2>3, <2>4, <2>6, Zenon
    <2> QED BY <2>5, <2>6
  <1>9. \A s \in Shards :
          /\ shard'[s].spent = shard[s].spent
          /\ shard'[s].reserved = IF s = t THEN shard[s].reserved + est
                                  ELSE shard[s].reserved
    <2> SUFFICES ASSUME NEW s \in Shards
                 PROVE  /\ shard'[s].spent = shard[s].spent
                        /\ s = t => shard'[s].reserved = shard[s].reserved + est
                        /\ s # t => shard'[s].reserved = shard[s].reserved
      OBVIOUS
    <2>1. CASE s = t
      <3>1. shard'[s] = [reserved |-> shard[s].reserved + est,
                         spent |-> shard[s].spent]
        BY <2>1, <1>7, Zenon
      <3> QED BY <2>1, <3>1
    <2>2. CASE s # t BY <2>2, <1>7
    <2> QED BY <2>1, <2>2
  <1>10. shard' \in [Shards -> [reserved : Nat, spent : Nat]]
    <2>1. shard' = [s \in Shards |-> shard'[s]] BY <1>1 DEF Accounts
    <2>2. ASSUME NEW s \in Shards PROVE shard'[s] \in [reserved : Nat, spent : Nat]
      <3>1. CASE s = t
        <4>1. shard'[s] = [reserved |-> shard[s].reserved + est,
                           spent |-> shard[s].spent]
          BY <3>1, <1>7, Zenon
        <4>2. shard[s] \in [reserved : Nat, spent : Nat] BY <1>7
        <4> QED BY <4>1, <4>2, <1>3
      <3>2. CASE s # t BY <3>2, <1>7
      <3> QED BY <3>1, <3>2
    <2> QED BY <2>1, <2>2
  <1>11. ReservedIsLeases' BY <1>8, <1>9 DEF Accounts, ReservedIsLeases
  <1>12. SpentIsLedger'
    <2>1. [s \in Shards |-> shard'[s].spent] = [s \in Shards |-> shard[s].spent]
      BY <1>9
    <2>2. Charged' = Charged BY <1>1 DEF Charged
    <2> QED BY <2>1, <2>2, <1>1 DEF Accounts, SpentIsLedger
  <1>13. ledger' \in [Requests -> {NoRow} \cup Costs] BY <1>1 DEF Accounts
  <1> QED BY <1>9, <1>10, <1>11, <1>12, <1>13 DEF Accounts, t, est

\* A cost booked on one shard and in the ledger keeps the two sums equal.
LEMMA SpendingBalances ==
  ASSUME Accounts, NEW t \in Shards, NEW r \in Requests, NEW cost \in Costs,
         ledger[r] = NoRow, ledger' = [ledger EXCEPT ![r] = cost],
         \A s \in Shards :
           shard'[s].spent = IF s = t THEN shard[s].spent + cost ELSE shard[s].spent
  PROVE  SpentIsLedger'
  <1> DEFINE w == [s \in Shards |-> shard[s].spent]
             v == [s \in Shards |-> shard'[s].spent]
  <1>0. cost \in Nat /\ cost # NoRow BY BudgetAssumption, NoRowAssumption
  <1>1. /\ IsFiniteSet(Shards)
        /\ \A s \in Shards : w[s] \in Nat /\ v[s] \in Nat
        /\ \A s \in Shards \ {t} : v[s] = w[s]
        /\ v[t] = w[t] + cost
    BY <1>0, SpentFacts, ShardFacts
  <1>2. SumFunctionOnSet(v, Shards) + w[t] = SumFunctionOnSet(w, Shards) + v[t]
    <2> HIDE DEF w, v
    <2> QED BY <1>1, SumChange
  <1>3. SumFunctionOnSet(w, Shards) \in Nat /\ SumFunctionOnSet(v, Shards) \in Nat
    <2> HIDE DEF w, v
    <2> QED BY <1>1, SumType
  <1>4. SumFunctionOnSet(v, Shards) = SumFunctionOnSet(w, Shards) + cost
    <2> HIDE DEF w, v
    <2>1. w[t] \in Nat BY <1>1
    <2>2. \A x, y, z, c \in Nat : x + z = y + (z + c) => x = y + c OBVIOUS
    <2> QED BY <1>0, <1>1, <1>2, <1>3, <2>1, <2>2
  <1>5. /\ IsFiniteSet(Charged) /\ r \notin Charged
        /\ \A q \in Charged : ledger[q] \in Nat /\ ledger'[q] = ledger[q]
    BY SpentFacts DEF Charged, Accounts
  <1>6. Charged' = Charged \cup {r} /\ ledger'[r] = cost
    BY <1>0 DEF Charged, Accounts
  <1>7. /\ IsFiniteSet(Charged \cup {r}) /\ (Charged \cup {r}) \ {r} = Charged
        /\ \A q \in Charged \cup {r} : ledger'[q] \in Nat
    BY <1>0, <1>5, <1>6, FS_AddElement
  <1>8. SumFunctionOnSet(ledger', Charged \cup {r}) =
        ledger'[r] + SumFunctionOnSet(ledger', (Charged \cup {r}) \ {r})
    BY <1>7, SumRemove, ZenonT(60)
  <1>9. SumFunctionOnSet(ledger', Charged) = SumFunctionOnSet(ledger, Charged)
    BY <1>5, SumSame
  <1>10. SumFunctionOnSet(w, Shards) = SumFunctionOnSet(ledger, Charged)
    BY Zenon DEF Accounts, SpentIsLedger
  <1> HIDE DEF w, v
  <1>11. SumFunctionOnSet(ledger', Charged') = cost + SumFunctionOnSet(w, Shards)
    BY <1>6, <1>7, <1>8, <1>9, <1>10, Zenon
  <1>12. SumFunctionOnSet(v, Shards) = SumFunctionOnSet(ledger', Charged')
    BY <1>0, <1>3, <1>4, <1>11
  <1> QED BY <1>12, Zenon DEF SpentIsLedger, v

\* A Reconcile turns the reservation of its lease, if any, into the cost.
LEMMA ChargeBalances ==
  ASSUME BudgetInv, Accounts, NEW a \in Attempts, Reconcile(a), ledger[att[a].req] = NoRow
  PROVE  LET r == att[a].req
             t == IF lease[r] = NoLease THEN 0 ELSE lease[r].shard
             held == IF lease[r] = NoLease THEN 0 ELSE lease[r].reserved
         IN  /\ Accounts'
             /\ held \in Nat /\ att[a].cost \in Nat /\ t \in Shards
             /\ \A s \in Shards :
                  /\ s = t => /\ shard'[s].reserved + held = shard[s].reserved
                              /\ shard'[s].spent = shard[s].spent + att[a].cost
                  /\ s # t => /\ shard'[s].reserved = shard[s].reserved
                              /\ shard'[s].spent = shard[s].spent
  <1> DEFINE r == att[a].req
             cost == att[a].cost
             t == IF lease[r] = NoLease THEN 0 ELSE lease[r].shard
             held == IF lease[r] = NoLease THEN 0 ELSE lease[r].reserved
             dropped == {r} \cap Leased
  <1>1. /\ att[a].pc = "answered" /\ ledger[r] = NoRow
        /\ ledger' = [ledger EXCEPT ![r] = cost]
        /\ shard' = ChargeSpent(r, cost)
        /\ lease' = [lease EXCEPT ![r] = NoLease]
    BY DEF Reconcile
  <1>2. /\ r \in Requests /\ cost \in Costs /\ cost \in Nat
        /\ LeasesOK /\ lease \in [Requests -> {NoLease} \cup LeaseRow]
    BY <1>1, BudgetAssumption DEF BudgetInv, AttemptsOK, AttemptState, LeasesOK
  <1>3. t \in Shards /\ held \in Nat
    BY <1>2, LeaseFacts, ShardFacts DEF Leased, Reserved
  <1>4. dropped \in SUBSET Leased /\ lease' = Drop(dropped)
    BY <1>1, <1>2 DEF Leased, Drop
  <1>5. ASSUME NEW s \in Shards
        PROVE  SumFunctionOnSet(Reserved, On(s, dropped)) = IF s = t THEN held ELSE 0
    <2>1. CASE lease[r] = NoLease
      <3>1. On(s, dropped) = {} /\ held = 0 BY <2>1 DEF On, Leased
      <3> HIDE DEF dropped, t, held
      <3> QED BY <3>1, SumEmpty
    <2>2. CASE lease[r] # NoLease /\ s # t
      <3>1. On(s, dropped) = {} BY <2>2 DEF On
      <3> HIDE DEF dropped, t, held
      <3> QED BY <2>2, <3>1, SumEmpty
    <2>3. CASE lease[r] # NoLease /\ s = t
      <3>1. On(s, dropped) = {r} /\ r \in Leased BY <2>3, <1>2 DEF On, Leased
      <3>2. Reserved[r] = held /\ Reserved[r] \in Nat
        BY <2>3, <3>1, <1>2, LeaseFacts
      <3> HIDE DEF dropped, t, held, r
      <3>3. IsFiniteSet({r}) /\ {r} \ {r} = {} /\ \A q \in {r} : Reserved[q] \in Nat
        BY <3>2, FS_Singleton
      <3>4. SumFunctionOnSet(Reserved, {r}) =
            Reserved[r] + SumFunctionOnSet(Reserved, {r} \ {r})
        BY <3>3, SumRemove
      <3>5. SumFunctionOnSet(Reserved, {r}) = held + 0
        BY <3>2, <3>3, <3>4, SumEmpty, Zenon
      <3> QED BY <2>3, <3>1, <3>5, <1>3
    <2> QED BY <2>1, <2>2, <2>3
  <1> HIDE DEF dropped
  <1>6. ASSUME NEW s \in Shards
        PROVE  /\ ReservedOn(s) = ReservedOn(s)' + IF s = t THEN held ELSE 0
               /\ ReservedOn(s)' \in Nat /\ shard[s].reserved = ReservedOn(s)
               /\ shard[s] \in [reserved : Nat, spent : Nat]
    <2>1. ReservedOn(s) = ReservedOn(s)' + SumFunctionOnSet(Reserved, On(s, dropped))
          /\ ReservedOn(s)' \in Nat
      BY <1>2, <1>4, ReservedAfterDrop
    <2>2. shard[s].reserved = ReservedOn(s) BY DEF Accounts, ReservedIsLeases
    <2>3. shard[s] \in [reserved : Nat, spent : Nat] BY DEF Accounts
    <2> HIDE DEF t, held
    <2> QED BY <2>1, <2>2, <2>3, <1>5
  <1>7. /\ \A s \in Shards : s # t => shard'[s] = shard[s]
        /\ shard'[t] = [reserved |-> shard[t].reserved - held,
                        spent |-> shard[t].spent + cost]
        /\ shard' = [s \in Shards |-> shard'[s]]
    <2>1. shard = [s \in Shards |-> shard[s]] /\ shard[t] \in [reserved : Nat, spent : Nat]
      BY <1>3 DEF Accounts
    <2>2. CASE lease[r] = NoLease
      <3>1. shard' = [shard EXCEPT ![0].spent = @ + cost] /\ t = 0 /\ held = 0
        BY <1>1, <2>2 DEF ChargeSpent
      <3>2. shard[0].reserved - 0 = shard[0].reserved /\ 0 \in Shards
        BY <2>1, <3>1, ShardFacts
      <3> QED BY <2>1, <3>1, <3>2
    <2>3. CASE lease[r] # NoLease
      <3>1. /\ shard' = [shard EXCEPT ![t] = [reserved |-> @.reserved - held,
                                              spent |-> @.spent + cost]]
        BY <1>1, <2>3 DEF ChargeSpent
      <3> HIDE DEF t, held, cost
      <3> QED BY <2>1, <3>1, <1>3
    <2> QED BY <2>2, <2>3
  <1> HIDE DEF t, held, cost, r
  <1>8. ASSUME NEW s \in Shards
        PROVE  /\ shard'[s] \in [reserved : Nat, spent : Nat]
               /\ shard'[s].reserved = ReservedOn(s)'
               /\ s = t => /\ shard'[s].reserved + held = shard[s].reserved
                           /\ shard'[s].spent = shard[s].spent + cost
               /\ s # t => /\ shard'[s].reserved = shard[s].reserved
                           /\ shard'[s].spent = shard[s].spent
    <2>1. CASE s = t
      <3>1. \A x, y, h \in Nat : x = y + h => x - h = y OBVIOUS
      <3>2. shard[s].reserved \in Nat /\ shard[s].spent \in Nat BY <1>6
      <3>3. shard[s].reserved - held = ReservedOn(s)'
        BY <2>1, <3>1, <3>2, <1>3, <1>6
      <3>4. shard'[s] = [reserved |-> ReservedOn(s)', spent |-> shard[s].spent + cost]
        BY <2>1, <3>3, <1>7, Zenon
      <3> QED BY <2>1, <3>2, <3>4, <1>2, <1>3, <1>6
    <2>2. CASE s # t
      <3>1. shard'[s] = shard[s] BY <2>2, <1>7
      <3>2. ReservedOn(s) = ReservedOn(s)' BY <2>2, <1>6
      <3> QED BY <2>2, <3>1, <3>2, <1>6
    <2> QED BY <2>1, <2>2
  <1>9. shard' \in [Shards -> [reserved : Nat, spent : Nat]] BY <1>7, <1>8
  <1>10. ReservedIsLeases' BY <1>8, Zenon DEF ReservedIsLeases
  <1>11. SpentIsLedger'
    <2>1. \A s \in Shards :
            shard'[s].spent = IF s = t THEN shard[s].spent + cost ELSE shard[s].spent
      BY <1>8
    <2> QED BY <2>1, <1>1, <1>2, <1>3, SpendingBalances
  <1>12. ledger' \in [Requests -> {NoRow} \cup Costs]
    BY <1>1, <1>2 DEF Accounts
  <1>13. Accounts' BY <1>9, <1>10, <1>11, <1>12 DEF Accounts
  <1> QED BY <1>2, <1>3, <1>8, <1>13 DEF t, held, cost, r

-----------------------------------------------------------------------------
(***************************************************************************)
(* The steps on the books.                                                 *)
(***************************************************************************)

\* An attempt that is given up, or moves on short of an answer, costs nothing.
LEMMA NoCostKeepsBooks ==
  ASSUME BudgetInv, Books, NEW a \in Attempts, NEW s, s.pc # "answered",
         att' = [att EXCEPT ![a] = s],
         shard' = shard, lease' = lease, ledger' = ledger,
         overran' = overran, outlived' = outlived
  PROVE  Books'
  <1>1. Accounts' BY SameBooks DEF BudgetInv, Books, Leased
  <1>2. CostsCovered' BY DEF Books, CostsCovered, BudgetInv, AttemptsOK
  <1>3. CapHeld' BY DEF Books, CapHeld
  <1> QED BY <1>1, <1>2, <1>3 DEF Books

LEMMA ReserveKeepsBooks ==
  ASSUME BudgetInv, Books, NEW a \in Attempts, ReserveWins(a)
  PROVE  Books'
  <1>1. /\ Accounts'
        /\ \A s \in Shards :
              /\ shard'[s].spent = shard[s].spent
              /\ shard'[s].reserved = IF s = Trying(a)
                                      THEN shard[s].reserved + att[a].est
                                      ELSE shard[s].reserved
    BY ReserveBalances DEF Books
  <1>2. /\ Fits(Trying(a), att[a].est) /\ overran' = overran /\ outlived' = outlived
        /\ att' = [att EXCEPT ![a] = [pc |-> "calling", req |-> att[a].req,
                                      est |-> att[a].est]]
        /\ att[a].est \in Nat
    BY BudgetAssumption DEF ReserveWins, histories, BudgetInv, AttemptsOK, AttemptState,
                            Estimates
  <1>3. CapHeld'
    <2> SUFFICES ASSUME ~overran', ~outlived', NEW s \in Shards
                 PROVE  shard'[s].reserved + shard'[s].spent <= Cap
      BY DEF CapHeld
    <2>1. shard[s].reserved + shard[s].spent <= Cap
          /\ shard[s].reserved \in Nat /\ shard[s].spent \in Nat
      BY <1>2, SpentFacts DEF Books, CapHeld
    <2>2. CASE s = Trying(a)
      <3>1. shard[s].reserved + shard[s].spent + att[a].est <= Cap
        BY <2>2, <1>2 DEF Fits
      <3>2. shard'[s].reserved = shard[s].reserved + att[a].est
        BY <2>2, <1>1
      <3>3. Cap \in Nat BY BudgetAssumption
      <3> QED BY <1>1, <1>2, <2>1, <3>1, <3>2, <3>3
    <2>3. CASE s # Trying(a) BY <1>1, <2>1, <2>3
    <2> QED BY <2>2, <2>3
  <1>4. CostsCovered'
    BY <1>2 DEF Books, CostsCovered, BudgetInv, AttemptsOK
  <1> QED BY <1>1, <1>2, <1>3, <1>4 DEF Books

\* Handing leases back only makes room.
LEMMA HandBackKeepsBooks ==
  ASSUME BudgetInv, BudgetInv', Books, NEW rs \in SUBSET Leased,
         lease' = Drop(rs), shard' = HandBack(rs), ledger' = ledger,
         overran' = overran, outlived' = outlived,
         \A a \in Attempts : att'[a] = att[a] \/ att'[a] = IdleAttempt
  PROVE  Books'
  <1>1. /\ Accounts'
        /\ \A s \in Shards : shard'[s].spent = shard[s].spent
                             /\ shard'[s].reserved <= shard[s].reserved
    BY HandBackBalances DEF BudgetInv, Books
  <1>2. CapHeld'
    <2> SUFFICES ASSUME ~overran', ~outlived', NEW s \in Shards
                 PROVE  shard'[s].reserved + shard'[s].spent <= Cap
      BY DEF CapHeld
    <2>1. shard[s].reserved + shard[s].spent <= Cap
          /\ shard[s].reserved \in Nat /\ shard[s].spent \in Nat
      BY SpentFacts DEF Books, CapHeld
    <2>2. shard'[s].reserved \in Nat BY <1>1 DEF Accounts
    <2>3. Cap \in Nat BY BudgetAssumption
    <2> QED BY <1>1, <2>1, <2>2, <2>3
  <1>3. CostsCovered' BY DEF Books, CostsCovered, IdleAttempt
  <1> QED BY <1>1, <1>2, <1>3 DEF Books

\* What a Reconcile charges is no more than what it takes off the reservation.
LEMMA ReconcileKeepsBooks ==
  ASSUME BudgetInv, Books, NEW a \in Attempts, Reconcile(a)
  PROVE  Books'
  <1>1. /\ att[a].pc = "answered" /\ att' = [att EXCEPT ![a] = IdleAttempt]
        /\ overran' = overran /\ outlived' = outlived
    BY DEF Reconcile, histories
  <1>2. CASE ledger[att[a].req] # NoRow
    <2>1. shard' = shard /\ lease' = lease /\ ledger' = ledger
      BY <1>2 DEF Reconcile
    <2> QED BY <1>1, <2>1, NoCostKeepsBooks DEF IdleAttempt
  <1>3. CASE ledger[att[a].req] = NoRow
    <2> DEFINE r == att[a].req
               t == IF lease[r] = NoLease THEN 0 ELSE lease[r].shard
               held == IF lease[r] = NoLease THEN 0 ELSE lease[r].reserved
    <2>1. /\ Accounts'
          /\ held \in Nat /\ att[a].cost \in Nat /\ t \in Shards
          /\ \A s \in Shards :
               /\ s = t => /\ shard'[s].reserved + held = shard[s].reserved
                           /\ shard'[s].spent = shard[s].spent + att[a].cost
               /\ s # t => /\ shard'[s].reserved = shard[s].reserved
                           /\ shard'[s].spent = shard[s].spent
      BY <1>3, ChargeBalances DEF Books
    <2>2. ASSUME ~overran, ~outlived PROVE att[a].cost <= held
      <3>1. lease[r] # NoLease /\ lease[r].reserved = att[a].est
        BY <1>1, <2>2 DEF BudgetInv, Covered, Busy
      <3> QED BY <1>1, <2>2, <3>1 DEF Books, CostsCovered
    <2> HIDE DEF t, held
    <2>3. CapHeld'
      <3> SUFFICES ASSUME ~overran', ~outlived', NEW s \in Shards
                   PROVE  shard'[s].reserved + shard'[s].spent <= Cap
        BY DEF CapHeld
      <3>1. /\ shard[s].reserved + shard[s].spent <= Cap /\ Cap \in Nat
            /\ shard[s].reserved \in Nat /\ shard[s].spent \in Nat
            /\ shard'[s].reserved \in Nat
        BY <1>1, <2>1, SpentFacts, BudgetAssumption DEF Books, CapHeld, Accounts
      <3>2. att[a].cost <= held BY <1>1, <2>2
      <3>3. CASE s = t BY <2>1, <3>1, <3>2, <3>3
      <3>4. CASE s # t BY <2>1, <3>1, <3>4
      <3> QED BY <3>3, <3>4
    <2>4. CostsCovered' BY <1>1 DEF Books, CostsCovered, BudgetInv, AttemptsOK, IdleAttempt
    <2> QED BY <1>1, <2>1, <2>3, <2>4 DEF Books
  <1> QED BY <1>2, <1>3

LEMMA AttemptStepKeepsBooks ==
  ASSUME BudgetInv, Books, NEW a \in Attempts, AttemptStep(a)
  PROVE  Books'
  <1>0. BudgetInv' BY AttemptStepKeepsInv
  <1>1. CASE ReserveWins(a) BY <1>1, ReserveKeepsBooks
  <1>2. CASE ReserveConflicts(a)
    BY <1>2, NoCostKeepsBooks DEF ReserveConflicts, histories, IdleAttempt
  <1>3. CASE ReserveLoses(a)
    <2> DEFINE s == [att[a] EXCEPT !.tried = @ + 1]
    <2>1. /\ s.pc # "answered" /\ att' = [att EXCEPT ![a] = s]
          /\ shard' = shard /\ lease' = lease /\ ledger' = ledger
          /\ overran' = overran /\ outlived' = outlived
      BY <1>3 DEF ReserveLoses, histories, BudgetInv, AttemptsOK, AttemptState
    <2> HIDE DEF s
    <2> QED BY <2>1, NoCostKeepsBooks
  <1>4. CASE ReserveFails(a)
    BY <1>4, NoCostKeepsBooks DEF ReserveFails, histories, IdleAttempt
  <1>5. ASSUME NEW cost \in Costs, CallAnswers(a, cost) PROVE Books'
    <2>1. /\ shard' = shard /\ lease' = lease /\ ledger' = ledger
          /\ outlived' = outlived /\ overran' = (overran \/ cost > att[a].est)
          /\ att' = [att EXCEPT ![a] = [pc |-> "answered", req |-> att[a].req,
                                        est |-> att[a].est, cost |-> cost]]
      BY <1>5 DEF CallAnswers
    <2>2. Accounts' BY <2>1, SameBooks DEF BudgetInv, Books, Leased
    <2>3. CapHeld' BY <2>1 DEF Books, CapHeld
    <2>4. CostsCovered'
      <3> SUFFICES ASSUME ~overran', NEW b \in Attempts, att'[b].pc = "answered"
                   PROVE  att'[b].cost <= att'[b].est
        BY DEF CostsCovered
      <3>1. CASE b = a
        <4>1. ~(cost > att[a].est) BY <2>1
        <4>2. att[a].est \in Nat /\ cost \in Nat
          BY <1>5, BudgetAssumption DEF CallAnswers, BudgetInv, AttemptsOK, AttemptState,
                                        Estimates
        <4>3. att'[b].cost = cost /\ att'[b].est = att[a].est
          BY <2>1, <3>1 DEF BudgetInv, AttemptsOK
        <4> QED BY <4>1, <4>2, <4>3
      <3>2. CASE b # a
        <4>1. att'[b] = att[b] /\ ~overran BY <2>1, <3>2 DEF BudgetInv, AttemptsOK
        <4> QED BY <4>1 DEF Books, CostsCovered
      <3> QED BY <3>1, <3>2
    <2>5. overran' \in BOOLEAN /\ outlived' \in BOOLEAN BY <2>1 DEF Books
    <2> QED BY <2>2, <2>3, <2>4, <2>5 DEF Books
  <1>6. CASE CallFails(a)
    <2> DEFINE s == [att[a] EXCEPT !.pc = "failed"]
    <2>1. /\ s.pc # "answered" /\ att' = [att EXCEPT ![a] = s]
          /\ shard' = shard /\ lease' = lease /\ ledger' = ledger
          /\ overran' = overran /\ outlived' = outlived
      BY <1>6 DEF CallFails, histories, BudgetInv, AttemptsOK, AttemptState
    <2> HIDE DEF s
    <2> QED BY <2>1, NoCostKeepsBooks
  <1>7. CASE Reconcile(a) BY <1>7, ReconcileKeepsBooks
  <1>8. CASE ReconcileFails(a)
    BY <1>8, NoCostKeepsBooks DEF ReconcileFails, histories, IdleAttempt
  <1>9. CASE Release(a)
    <2> DEFINE rs == Unledgered({att[a].req})
    <2>1. /\ att' = [att EXCEPT ![a] = IdleAttempt] /\ ledger' = ledger
          /\ lease' = Drop(rs) /\ shard' = HandBack(rs)
          /\ overran' = overran /\ outlived' = outlived
      BY <1>9 DEF Release, histories
    <2>2. rs \in SUBSET Leased
      <3>1. att[a].req \in Requests
        BY <1>9 DEF Release, BudgetInv, AttemptsOK, AttemptState
      <3> QED BY <3>1 DEF Unledgered, Leased
    <2>3. \A b \in Attempts : att'[b] = att[b] \/ att'[b] = IdleAttempt
      BY <2>1 DEF BudgetInv, AttemptsOK
    <2> HIDE DEF rs
    <2> QED BY <1>0, <2>1, <2>2, <2>3, HandBackKeepsBooks
  <1>10. CASE ReleaseFails(a)
    BY <1>10, NoCostKeepsBooks DEF ReleaseFails, histories, IdleAttempt
  <1> QED BY <1>1, <1>2, <1>3, <1>4, <1>5, <1>6, <1>7, <1>8, <1>9, <1>10
          DEF AttemptStep

LEMMA StepKeepsBooks ==
  ASSUME BudgetInv, BudgetInv', Books, [BudgetNext]_budgetVars
  PROVE  Books'
  <1>1. ASSUME NEW a \in Attempts, AttemptStep(a) PROVE Books'
    BY <1>1, AttemptStepKeepsBooks
  <1>2. ASSUME NEW a \in Attempts, NEW r \in Requests, NEW first \in Shards,
               Start(a, r, first)
        PROVE  Books'
    <2> DEFINE s == [pc |-> "reserving", req |-> r,
                     est |-> Estimate[r], first |-> first, tried |-> 0]
    <2>1. /\ s.pc # "answered" /\ att' = [att EXCEPT ![a] = s]
          /\ shard' = shard /\ lease' = lease /\ ledger' = ledger
          /\ overran' = overran /\ outlived' = outlived
      BY <1>2 DEF Start, histories
    <2> HIDE DEF s
    <2> QED BY <2>1, NoCostKeepsBooks
  <1>3. ASSUME NEW r \in Requests, Expire(r) PROVE Books'
    <2>1. /\ lease[r] \in LeaseRow /\ lease[r] # NoLease
          /\ lease' = [lease EXCEPT ![r] = [lease[r] EXCEPT !.expired = TRUE]]
          /\ shard' = shard /\ ledger' = ledger /\ att' = att
          /\ overran' = overran /\ outlived' = (outlived \/ InFlight(r))
      BY <1>3 DEF BudgetInv, LeasesOK, Expire
    <2>2. /\ lease'[r] \in LeaseRow
          /\ lease'[r].shard = lease[r].shard /\ lease'[r].reserved = lease[r].reserved
          /\ \A q \in Requests \ {r} : lease'[q] = lease[q]
      BY <2>1 DEF BudgetInv, LeasesOK, LeaseRow
    <2>3. lease'[r] # NoLease BY <2>2, NoLeaseAssumption
    <2>4. Leased' = Leased BY <2>1, <2>2, <2>3 DEF Leased
    <2>5. \A q \in Leased : /\ lease'[q].shard = lease[q].shard
                            /\ lease'[q].reserved = lease[q].reserved
      BY <2>2 DEF Leased
    <2>6. Accounts' BY <2>1, <2>4, <2>5, SameBooks DEF BudgetInv, Books
    <2>7. CapHeld' BY <2>1 DEF Books, CapHeld
    <2>8. CostsCovered' BY <2>1 DEF Books, CostsCovered
    <2>9. overran' \in BOOLEAN /\ outlived' \in BOOLEAN BY <2>1 DEF Books, InFlight
    <2> QED BY <2>6, <2>7, <2>8, <2>9 DEF Books
  <1>4. CASE Sweep
    <2>1. Victims \in SUBSET Leased BY DEF Victims, Unledgered, Leased
    <2>2. /\ lease' = Drop(Victims) /\ shard' = HandBack(Victims) /\ ledger' = ledger
          /\ overran' = overran /\ outlived' = outlived /\ att' = att
      BY <1>4 DEF Sweep, histories
    <2> QED BY <2>1, <2>2, HandBackKeepsBooks
  <1>5. CASE Crash
    <2>1. /\ shard' = shard /\ lease' = lease /\ ledger' = ledger
          /\ overran' = overran /\ outlived' = outlived
          /\ \A a \in Attempts : att'[a] = IdleAttempt
      BY <1>5 DEF Crash, histories
    <2>2. Accounts' BY <2>1, SameBooks DEF BudgetInv, Books, Leased
    <2>3. CostsCovered' BY <2>1 DEF CostsCovered, IdleAttempt
    <2>4. CapHeld' BY <2>1 DEF Books, CapHeld
    <2> QED BY <2>1, <2>2, <2>3, <2>4 DEF Books
  <1>6. CASE UNCHANGED budgetVars
    <2>1. UNCHANGED <<shard, lease, ledger, att, overran, outlived>>
      BY <1>6 DEF budgetVars
    <2>2. Accounts' BY <2>1, SameBooks DEF BudgetInv, Books, Leased
    <2> QED BY <2>1, <2>2 DEF Books, CostsCovered, CapHeld
  <1> QED BY <1>1, <1>2, <1>3, <1>4, <1>5, <1>6 DEF BudgetNext

LEMMA InitBooks ==
  ASSUME BudgetInit
  PROVE  Books
  <1>1. Leased = {} /\ Charged = {} BY DEF BudgetInit, Leased, Charged
  <1>2. \A s \in Shards : shard[s].reserved = 0 /\ shard[s].spent = 0 BY DEF BudgetInit
  <1>3. ReservedIsLeases
    <2>1. \A s \in Shards : On(s, Leased) = {} BY <1>1 DEF On
    <2>2. \A s \in Shards : ReservedOn(s) = 0
      BY <2>1, SumEmpty DEF ReservedOn
    <2> QED BY <1>2, <2>2 DEF ReservedIsLeases
  <1>4. SpentIsLedger
    <2> DEFINE w == [s \in Shards |-> shard[s].spent]
    <2>1. \A s \in Shards : w[s] = 0 BY <1>2
    <2> HIDE DEF w
    <2>2. SumFunctionOnSet(w, Shards) = 0 BY <2>1, ShardFacts, SumZero
    <2>3. SumFunctionOnSet(ledger, Charged) = 0 BY <1>1, SumEmpty
    <2> QED BY <2>2, <2>3, Zenon DEF SpentIsLedger, w
  <1>5. /\ shard \in [Shards -> [reserved : Nat, spent : Nat]]
        /\ ledger \in [Requests -> {NoRow} \cup Costs]
        /\ overran \in BOOLEAN /\ outlived \in BOOLEAN
    BY DEF BudgetInit
  <1>6. CostsCovered BY DEF BudgetInit, IdleAttempt, CostsCovered
  <1>7. CapHeld BY <1>2, BudgetAssumption DEF CapHeld
  <1> QED BY <1>3, <1>4, <1>5, <1>6, <1>7 DEF Books, Accounts

\* What is reserved is leased, what is spent is in the ledger and, as long as
\* estimates cover the costs and leases outlive their requests, no shard goes
\* over its cap: through every reservation, conflict, charge, release, sweep,
\* failed statement and crash.
THEOREM BooksBalance == BudgetSpec => []BooksExact
  <1>1. BudgetInit => Books BY InitBooks
  <1>2. BudgetInv /\ BudgetInv' /\ Books /\ [BudgetNext]_budgetVars => Books'
    BY StepKeepsBooks
  <1>3. Books => BooksExact BY DEF Books, Accounts, BooksExact
  <1> QED BY <1>1, <1>2, <1>3, BudgetInvariance, PTL DEF BudgetSpec

\* Types of the store; in particular no counter of a shard goes negative.
THEOREM BudgetTyped == BudgetSpec => []BudgetTypeOK
  <1>1. BudgetInit => Books BY InitBooks
  <1>2. BudgetInv /\ BudgetInv' /\ Books /\ [BudgetNext]_budgetVars => Books'
    BY StepKeepsBooks
  <1>3. BudgetInv /\ Books => BudgetTypeOK BY DEF BudgetInv, Books, Accounts, BudgetTypeOK
  <1> QED BY <1>1, <1>2, <1>3, BudgetInvariance, PTL DEF BudgetSpec
=============================================================================
