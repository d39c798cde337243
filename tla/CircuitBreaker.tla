--------------------------- MODULE CircuitBreaker ---------------------------
(***************************************************************************)
(* The per-(provider, model) circuit breaker of the LLM broker             *)
(* (internal/broker/resilience/circuitbreaker.go).                         *)
(*                                                                         *)
(* The breaker's mutex covers Execute's admission and the recording of its *)
(* result, but not the call in between: a result is recorded into whatever *)
(* state the breaker has reached by then.  Each element of Calls is one    *)
(* goroutine that may enter Execute over and over.                         *)
(*                                                                         *)
(* The operators on a breaker record bear the names of the Go methods.     *)
(* Time is the age of the current opening, counted up to OpenTimeout: the  *)
(* code only ever compares the two.                                        *)
(***************************************************************************)
EXTENDS Integers, FiniteSets

CONSTANTS Calls,             \* goroutines that call Execute
          FailureThreshold,  \* consecutive failures that open the breaker
          SuccessThreshold,  \* half-open successes that close it
          HalfOpenMaxCalls,  \* probes admitted per half-open window
          OpenTimeout        \* clock ticks before an open breaker probes

ASSUME CallsAssumption == IsFiniteSet(Calls)
\* newCircuitBreaker replaces every non-positive threshold by a default.
ASSUME ThresholdAssumption ==
  /\ FailureThreshold \in Nat \ {0}
  /\ SuccessThreshold \in Nat \ {0}
  /\ HalfOpenMaxCalls \in Nat \ {0}
  /\ OpenTimeout \in Nat \ {0}

VARIABLES
  cb,      \* the breaker's fields
  call,    \* each goroutine's call: how it was admitted, or "idle"
  sick,    \* the provider is failing calls
  won,     \* history: this window's probes that succeeded ...
  lost,    \*   ... those that ended neutral, and the successes of calls
  late,    \*   admitted earlier that were recorded in it
  streak   \* history: consecutive failures recorded since the breaker closed

cbVars == <<cb, call, sick, won, lost, late, streak>>

-----------------------------------------------------------------------------
(* The breaker's methods, each a function of its fields.                    *)

NewBreaker ==
  [state |-> "closed", failures |-> 0, successes |-> 0, halfOpenUsed |-> 0,
   age |-> 0]

Trip(b) ==
  [state |-> "open", failures |-> 0, successes |-> 0, halfOpenUsed |-> 0,
   age |-> 0]

Close_KeepsFailures(b) ==
  [b EXCEPT !.state = "closed", !.successes = 0, !.halfOpenUsed = 0]
Close(b) ==
  [state |-> "closed", failures |-> 0, successes |-> 0, halfOpenUsed |-> 0,
   age |-> b.age]

MaybeHalfOpen_Never(b) == b
MaybeHalfOpen(b) ==
  IF b.state = "open" /\ b.age >= OpenTimeout
    THEN [b EXCEPT !.state = "half-open", !.successes = 0, !.halfOpenUsed = 0]
    ELSE b

RecordClosed(b, ok) ==
  IF ok THEN [b EXCEPT !.failures = 0]
  ELSE IF b.failures + 1 >= FailureThreshold THEN Trip(b)
  ELSE [b EXCEPT !.failures = @ + 1]

RecordHalfOpen_NeverCloses(b, ok) ==
  IF ~ok THEN Trip(b)
  ELSE [b EXCEPT !.successes =
          IF @ + 1 < SuccessThreshold THEN @ + 1 ELSE @]
RecordHalfOpen(b, ok) ==
  IF ~ok THEN Trip(b)
  ELSE IF b.successes + 1 >= SuccessThreshold THEN Close(b)
  ELSE [b EXCEPT !.successes = @ + 1]

\* A neutral result (a client fault, a cancelled caller, the broker's own call
\* deadline) leaves the breaker exactly as it is.
Record(b, outcome) ==
  IF outcome = "neutral" THEN b
  ELSE IF b.state = "half-open" THEN RecordHalfOpen(b, outcome = "success")
  ELSE RecordClosed(b, outcome = "success")

\* Whether admit lets a call through, once MaybeHalfOpen has been applied.
Admits_OneTooMany(b) ==
  \/ b.state = "closed"
  \/ b.state = "half-open" /\ b.halfOpenUsed <= HalfOpenMaxCalls
Admits(b) ==
  \/ b.state = "closed"
  \/ b.state = "half-open" /\ b.halfOpenUsed < HalfOpenMaxCalls

-----------------------------------------------------------------------------
Idle    == {c \in Calls : call[c] = "idle"}
Probes  == {c \in Calls : call[c] = "probe"}

BreakerInit ==
  /\ cb = NewBreaker
  /\ call = [c \in Calls |-> "idle"]
  /\ sick = FALSE
  /\ won = 0 /\ lost = 0 /\ late = 0 /\ streak = 0

\* Opening a half-open window starts its histories afresh.
Window(b) ==
  IF b.state = cb.state THEN UNCHANGED <<won, lost, late>>
  ELSE won' = 0 /\ lost' = 0 /\ late' = 0

\* Execute's first critical section, for a call it lets through.
Admit(c) ==
  LET b == MaybeHalfOpen(cb) IN
  /\ call[c] = "idle"
  /\ Admits(b)
  /\ IF b.state = "half-open"
       THEN /\ cb' = [b EXCEPT !.halfOpenUsed = @ + 1]
            /\ call' = [call EXCEPT ![c] = "probe"]
       ELSE /\ cb' = b
            /\ call' = [call EXCEPT ![c] = "normal"]
  /\ Window(b)
  /\ UNCHANGED <<sick, streak>>

\* Execute's first critical section, for a call it refuses (ErrCircuitOpen).
Refuse(c) ==
  LET b == MaybeHalfOpen(cb) IN
  /\ call[c] = "idle"
  /\ ~Admits(b)
  /\ cb' = b
  /\ Window(b)
  /\ UNCHANGED <<call, sick, streak>>

\* State(): a reader also promotes an open breaker that is due.
ReadState ==
  LET b == MaybeHalfOpen(cb) IN
  /\ cb' = b
  /\ Window(b)
  /\ UNCHANGED <<call, sick, streak>>

\* What a call can come back with: only a sick provider fails one.
Outcomes ==
  {"success", "neutral"} \cup (IF sick THEN {"failure"} ELSE {})

\* When the breaker leaves half-open, the probes still out belong to a window
\* that is over: their results will be recorded like anybody else's.
Restamp(c, b) ==
  [d \in Calls |->
     IF d = c THEN "idle"
     ELSE IF call[d] = "probe" /\ b.state # "half-open" THEN "normal"
     ELSE call[d]]

Streak(b, outcome) ==
  IF b.state # "closed" THEN 0
  ELSE IF cb.state # "closed" \/ outcome = "success" THEN 0
  ELSE IF outcome = "failure" THEN streak + 1
  ELSE streak

\* Execute's second critical section: the call's result is recorded.
Finish(c, outcome) ==
  LET b == Record(cb, outcome) IN
  /\ call[c] # "idle"
  /\ outcome \in Outcomes
  /\ cb' = b
  /\ call' = Restamp(c, b)
  /\ streak' = Streak(b, outcome)
  /\ IF b.state = "half-open"
       THEN LET one(probe, o) ==
                  IF (call[c] = "probe") = probe /\ outcome = o THEN 1 ELSE 0
            IN  /\ won' = won + one(TRUE, "success")
                /\ lost' = lost + one(TRUE, "neutral")
                /\ late' = late + one(FALSE, "success")
       ELSE Window(b)
  /\ UNCHANGED sick

\* Time passes: only an opening that has not run its course notices.
Tick ==
  /\ cb.state = "open" /\ cb.age < OpenTimeout
  /\ cb' = [cb EXCEPT !.age = @ + 1]
  /\ UNCHANGED <<call, sick, won, lost, late, streak>>

\* The provider falls ill, or gets well.
ProviderTurns ==
  /\ sick' = ~sick
  /\ UNCHANGED <<cb, call, won, lost, late, streak>>

BreakerNext ==
  \/ \E c \in Calls : Admit(c) \/ Refuse(c)
  \/ \E c \in Calls, outcome \in {"success", "failure", "neutral"} :
       Finish(c, outcome)
  \/ ReadState
  \/ Tick
  \/ ProviderTurns

BreakerSpec == BreakerInit /\ [][BreakerNext]_cbVars

\* Time passes, every call returns (each has a deadline), and agents keep
\* asking: a breaker that lets one through is eventually asked to.
BreakerFairness ==
  /\ WF_cbVars(Tick)
  /\ \A c \in Calls :
       WF_cbVars(\E outcome \in {"success", "failure", "neutral"} :
                   Finish(c, outcome))
  /\ WF_cbVars(\E c \in Calls : Admit(c))

BreakerLiveSpec == BreakerSpec /\ BreakerFairness

-----------------------------------------------------------------------------
\* The shape of the breaker's fields and of the histories.
BreakerTypeOK ==
  /\ cb \in [state : {"closed", "open", "half-open"}, failures : Nat,
             successes : Nat, halfOpenUsed : Nat, age : 0 .. OpenTimeout]
  /\ call \in [Calls -> {"idle", "normal", "probe"}]
  /\ sick \in BOOLEAN
  /\ won \in Nat /\ lost \in Nat /\ late \in Nat /\ streak \in Nat

\* What the probe slots of a half-open window went to: every one is a probe
\* still out, or one that succeeded, or one that ended neutral.  At most
\* HalfOpenMaxCalls are ever handed out (admitHalfOpen, record).  The recovery
\* counter holds the window's own successes and the late ones, and no others.
ProbeAccounting ==
  cb.state = "half-open" =>
    /\ cb.halfOpenUsed = Cardinality(Probes) + won + lost
    /\ cb.halfOpenUsed <= HalfOpenMaxCalls
    /\ cb.successes = won + late
    /\ cb.successes < SuccessThreshold

\* A half-open breaker refuses calls only while a probe is out -- unless so many
\* ended neutral that the slots left could not have closed it.  Success and
\* failure alone never leave it stuck when the thresholds fit (serve.go's do:
\* one probe and one success, so there a single neutral result is enough).
RefusalIsExplained ==
  cb.state = "half-open" /\ ~Admits(cb)
    => Probes # {} \/ lost + SuccessThreshold > HalfOpenMaxCalls

\* The trip counter counts failures since the breaker last closed: nothing left
\* over from an earlier opening, or recorded while it was open, brings the next
\* trip forward (recordClosed, trip, close).
TripCountIsFresh ==
  cb.state = "closed" =>
    /\ cb.failures = streak
    /\ streak < FailureThreshold

\* What the breaker counts is what happened: in the half-open window, since it
\* last closed, and when it refuses.
BreakerIsExact == ProbeAccounting /\ TripCountIsFresh /\ RefusalIsExplained

\* The header of circuitBreaker, made exact about results that arrive late:
\*  - closed is left only for open, on the FailureThreshold-th failure in a row;
\*  - open is left only for half-open, when OpenTimeout has passed;
\*  - half-open is left only when a call returns: for open on a failure, for
\*    closed on the SuccessThreshold-th success recorded since the window
\*    opened, those of calls that the window did not admit included.
ResultArrives == \E c \in Calls : call[c] # "idle" /\ call'[c] = "idle"

StateOnlyMovesAsDrawn ==
  [][ /\ (cb.state = "closed" /\ cb'.state # "closed")
           => /\ cb'.state = "open" /\ ResultArrives /\ sick
              /\ streak + 1 = FailureThreshold
      /\ (cb.state = "open" /\ cb'.state # "open")
           => /\ cb'.state = "half-open"
              /\ cb.age = OpenTimeout
      /\ (cb.state = "half-open" /\ cb'.state # "half-open")
           => /\ ResultArrives
              /\ \/ cb'.state = "open" /\ sick
                 \/ cb'.state = "closed" /\ won + late + 1 = SuccessThreshold
    ]_cbVars

\* Once the provider stays well, and no more probes of a window end neutral than
\* it has slots to spare, the breaker closes and stays closed: what the fail-safe
\* defaults of newCircuitBreaker are for ("able to trip AND recover").
RecoversWithProvider ==
  <>[](~sick /\ lost + SuccessThreshold <= HalfOpenMaxCalls)
    => <>[](cb.state = "closed")

\* "A probe call is allowed to test recovery" (StateHalfOpen): a half-open
\* breaker that would refuse the next call is waiting for some call's result.
HalfOpenCanProbe ==
  cb.state = "half-open" /\ ~Admits(cb) => Idle # Calls
=============================================================================
