------------------------------- MODULE Bulkhead -------------------------------
(***************************************************************************)
(* One provider's bulkhead (broker/resilience/bulkhead.go): a buffered     *)
(* channel of slots, the runtime's FIFO queue of senders blocked on it,    *)
(* and two atomic counters that are changed in steps of their own.         *)
(*                                                                         *)
(* Callers come back as often as they like.  What runs inside the slot     *)
(* (call deadline, breaker, retries) only has to return.                   *)
(***************************************************************************)
EXTENDS Naturals, Sequences, FiniteSets

CONSTANTS
    Callers,         \* goroutines that call Execute
    MaxConcurrent,   \* slots
    WaitersPerSlot,  \* waitersPerSlot (4 in the code)
    Waits            \* whether MaxWait bounds the wait in the queue

ASSUME CallersAssumption == IsFiniteSet(Callers)
ASSUME MaxConcurrentAssumption == MaxConcurrent \in Nat \ {0}
ASSUME WaitersAssumption == WaitersPerSlot \in Nat \ {0}
ASSUME WaitsAssumption == Waits \in BOOLEAN

VARIABLES
    pc,        \* where each caller is
    gone,      \* callers whose context has ended
    slots,     \* elements in the slots channel
    queue,     \* senders blocked on it, oldest first
    inFlight,  \* the counter InFlight reports
    waiting    \* the counter of the admission queue

vars == <<pc, gone, slots, queue, inFlight, waiting>>

maxWaiting == WaitersPerSlot * MaxConcurrent

(***************************************************************************)
(* "handed" and "taken" hold a slot that inFlight does not count yet, from *)
(* the queue or at once; "counted" is still counted as waiting;            *)
(* "releasing" has yet to leave inFlight, and "freeing" the slot.          *)
(* "shedding", "leaving" and "expiring" have yet to leave `waiting`.       *)
(***************************************************************************)
Holding == {"taken", "handed", "counted", "admitted", "running", "releasing", "freeing"}
InFlightPCs == {"counted", "admitted", "running", "releasing"}
WaitingPCs == {"selecting", "queued", "handed", "counted", "shedding", "leaving", "expiring"}
PCs == {"out", "asking", "joining"} \cup Holding \cup WaitingPCs

Those(S) == {c \in Callers : pc[c] \in S}
At(c, p) == pc[c] = p
Goto(c, p) == pc' = [pc EXCEPT ![c] = p]

BulkheadTypeOK ==
    /\ pc \in [Callers -> PCs]
    /\ gone \subseteq Callers
    /\ slots \in 0..MaxConcurrent
    /\ queue \in Seq(Callers)
    /\ inFlight \in Nat
    /\ waiting \in Nat

BulkheadInit ==
    /\ pc = [c \in Callers |-> "out"]
    /\ gone = {} /\ slots = 0 /\ queue = <<>> /\ inFlight = 0 /\ waiting = 0

\* Execute's entry check has passed.
Enter(c) ==
    /\ At(c, "out")
    /\ Goto(c, "asking")
    /\ UNCHANGED <<gone, slots, queue, inFlight, waiting>>

\* The call returns: with an error, or with what fn returned.
Return(c) == Goto(c, "out") /\ gone' = gone \ {c}

-----------------------------------------------------------------------------
(***************************************************************************)
(* take.                                                                   *)
(***************************************************************************)

\* The first select: a slot at once, or none.
TakeAtOnce(c) ==
    /\ At(c, "asking")
    /\ \/ slots < MaxConcurrent /\ slots' = slots + 1 /\ Goto(c, "taken")
       \/ slots = MaxConcurrent /\ UNCHANGED slots /\ Goto(c, "joining")
    /\ UNCHANGED <<gone, queue, inFlight, waiting>>

\* Mutant of Overfull: the limit is off by one.
Overfull_OffByOne(n) == n > maxWaiting + 1

Overfull(n) == n > maxWaiting

Join(c) ==
    /\ At(c, "joining")
    /\ waiting' = waiting + 1
    /\ Goto(c, IF Overfull(waiting + 1) THEN "shedding" ELSE "selecting")
    /\ UNCHANGED <<gone, slots, queue, inFlight>>

\* Mutant of Shed: the refused call is never taken off the counter.
Shed_KeepsCount(c) ==
    /\ At(c, "shedding") /\ Return(c)
    /\ UNCHANGED <<slots, queue, inFlight, waiting>>

Shed(c) ==
    /\ At(c, "shedding") /\ Return(c)
    /\ waiting' = waiting - 1
    /\ UNCHANGED <<slots, queue, inFlight>>

(***************************************************************************)
(* wait: the select over a slot, the end of the context and the timer.     *)
(* With several of them ready it may take any.                             *)
(***************************************************************************)
SelectTakes(c) ==
    /\ At(c, "selecting") /\ slots < MaxConcurrent
    /\ slots' = slots + 1 /\ Goto(c, "handed")
    /\ UNCHANGED <<gone, queue, inFlight, waiting>>

SelectLeaves(c) ==
    /\ At(c, "selecting")
    /\ \/ c \in gone /\ Goto(c, "leaving")
       \/ Waits /\ Goto(c, "expiring")
    /\ UNCHANGED <<gone, slots, queue, inFlight, waiting>>

SelectBlocks(c) ==
    /\ At(c, "selecting") /\ slots = MaxConcurrent /\ c \notin gone
    /\ queue' = Append(queue, c) /\ Goto(c, "queued")
    /\ UNCHANGED <<gone, slots, inFlight, waiting>>

\* The queue once c has been taken out of it.
Without(c) ==
    LET i == CHOOSE i \in DOMAIN queue : queue[i] = c
    IN  [j \in 1..(Len(queue) - 1) |-> IF j < i THEN queue[j] ELSE queue[j + 1]]

\* The context of a blocked caller ends, or its timer fires.
QueuedLeaves(c) ==
    /\ At(c, "queued")
    /\ \/ c \in gone /\ Goto(c, "leaving")
       \/ Waits /\ Goto(c, "expiring")
    /\ queue' = Without(c)
    /\ UNCHANGED <<gone, slots, inFlight, waiting>>

\* The deferred decrement of a wait that got no slot.
StopWaiting(c) ==
    /\ pc[c] \in {"leaving", "expiring"} /\ Return(c)
    /\ waiting' = waiting - 1
    /\ UNCHANGED <<slots, queue, inFlight>>

\* admitted, and after a wait the deferred decrement.
CountIn(c) ==
    /\ pc[c] \in {"taken", "handed"}
    /\ inFlight' = inFlight + 1
    /\ Goto(c, IF At(c, "taken") THEN "admitted" ELSE "counted")
    /\ UNCHANGED <<gone, slots, queue, waiting>>

Unwait(c) ==
    /\ At(c, "counted")
    /\ waiting' = waiting - 1
    /\ Goto(c, "admitted")
    /\ UNCHANGED <<gone, slots, queue, inFlight>>

-----------------------------------------------------------------------------
(***************************************************************************)
(* acquire's second look at the context, the call, and release.            *)
(***************************************************************************)

\* Mutant of Acquire: a caller that left returns without releasing.
Acquire_Leaks(c) ==
    /\ At(c, "admitted")
    /\ IF c \in gone THEN Return(c) ELSE Goto(c, "running") /\ UNCHANGED gone
    /\ UNCHANGED <<slots, queue, inFlight, waiting>>

Acquire(c) ==
    /\ At(c, "admitted")
    /\ Goto(c, IF c \in gone THEN "releasing" ELSE "running")
    /\ UNCHANGED <<gone, slots, queue, inFlight, waiting>>

CallReturns(c) ==
    /\ At(c, "running")
    /\ Goto(c, "releasing")
    /\ UNCHANGED <<gone, slots, queue, inFlight, waiting>>

Uncount(c) ==
    /\ At(c, "releasing")
    /\ inFlight' = inFlight - 1
    /\ Goto(c, "freeing")
    /\ UNCHANGED <<gone, slots, queue, waiting>>

\* Mutant of FreeSlot: the receive wakes nobody (a plain counter).
FreeSlot_WakesNobody(c) ==
    /\ At(c, "freeing")
    /\ slots' = slots - 1
    /\ Return(c)
    /\ UNCHANGED <<queue, inFlight, waiting>>

\* Mutant of FreeSlot: the slot is handed over and given back as well.
FreeSlot_Twice(c) ==
    /\ At(c, "freeing")
    /\ slots' = slots - 1
    /\ IF queue = <<>>
         THEN pc' = [pc EXCEPT ![c] = "out"] /\ UNCHANGED queue
         ELSE pc' = [pc EXCEPT ![c] = "out", ![Head(queue)] = "handed"] /\ queue' = Tail(queue)
    /\ gone' = gone \ {c}
    /\ UNCHANGED <<inFlight, waiting>>

\* Mutant of FreeSlot: the youngest waiter is woken.
FreeSlot_Newest(c) ==
    /\ At(c, "freeing")
    /\ IF queue = <<>>
         THEN /\ slots' = slots - 1
              /\ pc' = [pc EXCEPT ![c] = "out"]
              /\ UNCHANGED queue
         ELSE /\ pc' = [pc EXCEPT ![c] = "out", ![queue[Len(queue)]] = "handed"]
              /\ queue' = SubSeq(queue, 1, Len(queue) - 1)
              /\ UNCHANGED slots
    /\ gone' = gone \ {c}
    /\ UNCHANGED <<inFlight, waiting>>

\* The receive from slots: a blocked sender gets the place, the oldest first.
FreeSlot(c) ==
    /\ At(c, "freeing")
    /\ IF queue = <<>>
         THEN /\ slots' = slots - 1
              /\ pc' = [pc EXCEPT ![c] = "out"]
              /\ UNCHANGED queue
         ELSE /\ pc' = [pc EXCEPT ![c] = "out", ![Head(queue)] = "handed"]
              /\ queue' = Tail(queue)
              /\ UNCHANGED slots
    /\ gone' = gone \ {c}
    /\ UNCHANGED <<inFlight, waiting>>

\* A caller's context ends, at any moment of its call.
ContextEnds(c) ==
    /\ ~At(c, "out") /\ c \notin gone
    /\ gone' = gone \cup {c}
    /\ UNCHANGED <<pc, slots, queue, inFlight, waiting>>

Step(c) ==
    \/ TakeAtOnce(c) \/ Join(c) \/ Shed(c)
    \/ SelectTakes(c) \/ SelectLeaves(c) \/ SelectBlocks(c) \/ StopWaiting(c)
    \/ CountIn(c) \/ Unwait(c) \/ Acquire(c) \/ CallReturns(c) \/ Uncount(c) \/ FreeSlot(c)

BulkheadNext == \E c \in Callers : Enter(c) \/ Step(c) \/ QueuedLeaves(c) \/ ContextEnds(c)

(***************************************************************************)
(* Fairness.  A goroutine that can run does, and a call inside a slot      *)
(* returns: the broker puts a deadline on it (withCallDeadline).  Nothing  *)
(* is asked of a blocked caller's own context or timer.                    *)
(***************************************************************************)
BulkheadSpec == BulkheadInit /\ [][BulkheadNext]_vars
BulkheadLiveSpec == BulkheadSpec /\ \A c \in Callers : WF_vars(Step(c))

-----------------------------------------------------------------------------
(***************************************************************************)
(* Properties.                                                             *)
(***************************************************************************)

(***************************************************************************)
(* "The slot is always released when fn returns" (Execute), and acquire    *)
(* "gives it straight back if the caller has left": the channel holds one  *)
(* element for every caller that has a slot, and each counter counts the   *)
(* callers it is meant to, whatever order they stop in.                    *)
(***************************************************************************)
CountersExact ==
    /\ slots = Cardinality(Those(Holding))
    /\ inFlight = Cardinality(Those(InFlightPCs))
    /\ waiting = Cardinality(Those(WaitingPCs))
    /\ {queue[i] : i \in DOMAIN queue} = Those({"queued"})
    /\ Len(queue) = Cardinality(Those({"queued"}))

(***************************************************************************)
(* "a semaphore capping concurrency", "at most waitersPerSlot x            *)
(* MaxConcurrent calls wait at once": the callers that run, and those that *)
(* wait, not just the counters, which overshoot.                           *)
(***************************************************************************)
LimitsHeld ==
    /\ Cardinality(Those({"running"})) <= MaxConcurrent
    /\ Cardinality(Those({"selecting", "queued"})) <= maxWaiting

(***************************************************************************)
(* Every slot and every place in the queue is accounted for, and there are *)
(* no more of them than were configured.                                   *)
(***************************************************************************)
SlotsAccounted == CountersExact /\ LimitsHeld

(***************************************************************************)
(* "Waiters are admitted in arrival order": a caller that gets a slot does *)
(* not pass one that was blocked before it, be it a newcomer or a waiter.  *)
(***************************************************************************)
Before(d, c) == \E i, j \in DOMAIN queue : i < j /\ queue[i] = d /\ queue[j] = c

NoOvertaking ==
    [][\A c, d \in Callers :
         /\ pc[c] \notin Holding /\ pc'[c] \in Holding
         /\ At(d, "queued") /\ pc'[d] = "queued"
         => Before(c, d)]_vars

(***************************************************************************)
(* "The wait ends when a slot frees": a call comes to an end, also a       *)
(* blocked one whose context lasts and whose wait is not bounded.          *)
(***************************************************************************)
Returns(c) == At(c, "asking") ~> At(c, "out")

=============================================================================
