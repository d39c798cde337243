------------------------------ MODULE WorkerPool ------------------------------
(***************************************************************************)
(* The parse workers of one agent process (agents/shared/shared/ast/       *)
(* pool.py): a FIFO queue of slots, at most one worker process per slot,   *)
(* synchronous requests (parse) and requests sent ahead (issue), which     *)
(* hold their slot as a ticket until somebody collects or discards them.   *)
(* Each audit has a breaker of its own (context.py).                       *)
(*                                                                         *)
(* A ticket is collected or discarded at most once, by a thread of the     *)
(* audit that issued it (Prefetch.tla is about that), or never.            *)
(***************************************************************************)
EXTENDS Naturals, Sequences, FiniteSets

CONSTANTS
    Threads,     \* skill threads of every audit of the process
    Audits,
    AuditOf,     \* the audit a thread works for
    Size,        \* W, the number of slots
    Reserve,     \* PREFETCH_RESERVE
    BreakAfter   \* CIRCUIT_BREAK_AFTER

ASSUME ThreadsAssumption == IsFiniteSet(Threads)
ASSUME AuditOfAssumption == AuditOf \in [Threads -> Audits]
ASSUME SizeAssumption == Size \in Nat \ {0}
ASSUME ReserveAssumption == Reserve \in 1..Size
ASSUME BreakAfterAssumption == BreakAfter \in Nat \ {0}

VARIABLES
    pc,       \* where each thread is
    slot,     \* the slot it has in hand, 0 for none
    sent,     \* what became of the request it has in hand
    free,     \* the queue of free slots
    tickets,  \* the count of tickets out
    out,      \* tickets nobody has taken back yet
    worker,   \* the worker process of each slot
    faults    \* the breaker of each audit

vars == <<pc, slot, sent, free, tickets, out, worker, faults>>

Slots == 1..Size

(***************************************************************************)
(* A worker is up, has died by itself (of its CPU limit or otherwise), or  *)
(* was killed by the pool; its pipe owes nothing, a reply, or holds one.   *)
(***************************************************************************)
Fresh == [up |-> "up", owes |-> "nothing"]
Killed == [up |-> "killed", owes |-> "nothing"]
NoWorker == [up |-> "none", owes |-> "nothing"]
Workers == [up : {"none", "up", "crashed", "xcpu", "killed"}, owes : {"nothing", "reply", "ready"}]

\* What met a request on its way out; collect answers it.
Fates == {"pending", "nospawn", "timeout", "lost"}

Ticket == [slot : Slots, audit : Audits, sent : Fates]

ParsePCs == {"parsing", "reading", "putting"}
TicketPCs == {"issuing", "collecting", "receiving", "discarding", "releasing"}
HoldingPCs == ParsePCs \cup TicketPCs
PCs == {"idle", "waiting"} \cup HoldingPCs

Goto(t, p) == pc' = [pc EXCEPT ![t] = p]
Holders == {t \in Threads : pc[t] \in HoldingPCs}
Ticketing == {t \in Threads : pc[t] \in TicketPCs}

TypeOK ==
    /\ pc \in [Threads -> PCs]
    /\ slot \in [Threads -> Slots \cup {0}]
    /\ sent \in [Threads -> Fates]
    /\ free \in Seq(Slots)
    /\ tickets \in Nat
    /\ out \subseteq Ticket
    /\ worker \in [Slots -> Workers]
    /\ faults \in [Audits -> Nat]

Init ==
    /\ pc = [t \in Threads |-> "idle"]
    /\ slot = [t \in Threads |-> 0]
    /\ sent = [t \in Threads |-> "nospawn"]
    /\ free = [i \in Slots |-> i]
    /\ tickets = 0 /\ out = {}
    /\ worker = [s \in Slots |-> NoWorker]
    /\ faults = [a \in Audits |-> 0]

tripped(t) == faults[AuditOf[t]] >= BreakAfter

-----------------------------------------------------------------------------
(***************************************************************************)
(* The worker processes.                                                   *)
(***************************************************************************)
WorkerReplies(s) ==
    /\ worker[s].up = "up" /\ worker[s].owes = "reply"
    /\ worker' = [worker EXCEPT ![s].owes = "ready"]
    /\ UNCHANGED <<pc, slot, sent, free, tickets, out, faults>>

WorkerDies(s) ==
    /\ worker[s].up = "up"
    /\ \E how \in {"crashed", "xcpu"} : worker' = [worker EXCEPT ![s].up = how]
    /\ UNCHANGED <<pc, slot, sent, free, tickets, out, faults>>

\* _ready, then send: the slot's live worker, or a new one if the platform
\* has one to give; the request goes out, the pipe stays full past the
\* deadline, or the worker is gone.
Shipped(s) ==
    LET ready == IF worker[s].up = "up" THEN {worker[s]} ELSE {NoWorker, Fresh}
    IN  {<<NoWorker, "nospawn">> : w \in ready \cap {NoWorker}}
        \cup UNION {{<<[w EXCEPT !.owes = "reply"], "pending">>, <<Killed, "timeout">>, <<Killed, "lost">>} :
                    w \in ready \ {NoWorker}}

\* After a request a live worker is kept, or replaced once it has served its
\* files or grown past its bound; a dead one is always replaced.
Settled(w) == {NoWorker} \cup (IF w.up = "up" THEN {[w EXCEPT !.owes = "nothing"]} ELSE {})

\* t's request comes to the worker v in its slot, and a fault or none
\* (_settle): a reply, a reply no document, the deadline, or the end of the
\* pipe, no fault when the CPU limit ended the worker.
ComesTo(t, v, fault) ==
    LET w == worker[slot[t]]
    IN  \/ sent[t] = "nospawn" /\ v = w /\ ~fault
        \/ sent[t] = "timeout" /\ v = NoWorker /\ fault
        \/ sent[t] = "lost" /\ v = NoWorker /\ ~fault
        \/ sent[t] = "pending" /\ w.owes = "ready" /\ v \in Settled(w) /\ ~fault
        \/ sent[t] = "pending" /\ w.owes # "ready" /\ v = NoWorker /\ (fault <=> w.up # "xcpu")

\* The request in t's hands is answered, and t goes on to free the slot.
Answered(t, next) ==
    /\ \E v \in Settled(worker[slot[t]]) \cup {worker[slot[t]]}, fault \in BOOLEAN :
         /\ ComesTo(t, v, fault)
         /\ worker' = [worker EXCEPT ![slot[t]] = v]
         /\ faults' = [faults EXCEPT ![AuditOf[t]] = @ + (IF fault THEN 1 ELSE 0)]
    /\ Goto(t, next)
    /\ UNCHANGED <<slot, sent, free, tickets, out>>

-----------------------------------------------------------------------------
(***************************************************************************)
(* parse: wait for a slot, send, read the reply, put the slot back.        *)
(***************************************************************************)
Parse(t) ==
    /\ pc[t] = "idle" /\ ~tripped(t)
    /\ Goto(t, "waiting")
    /\ UNCHANGED <<slot, sent, free, tickets, out, worker, faults>>

\* _free.get(): any of the waiting threads may be the next.
TakesSlot(t) ==
    /\ pc[t] = "waiting" /\ free # <<>>
    /\ slot' = [slot EXCEPT ![t] = Head(free)]
    /\ free' = Tail(free)
    /\ Goto(t, "parsing")
    /\ UNCHANGED <<sent, tickets, out, worker, faults>>

\* The breaker is asked again once there is a slot.
ParseRefused(t) ==
    /\ pc[t] = "parsing" /\ tripped(t)
    /\ Goto(t, "putting")
    /\ UNCHANGED <<slot, sent, free, tickets, out, worker, faults>>

ParseSends(t) ==
    /\ pc[t] = "parsing" /\ ~tripped(t)
    /\ \E x \in Shipped(slot[t]) :
         /\ worker' = [worker EXCEPT ![slot[t]] = x[1]]
         /\ sent' = [sent EXCEPT ![t] = x[2]]
    /\ Goto(t, "reading")
    /\ UNCHANGED <<slot, free, tickets, out, faults>>

ParseReads(t) == pc[t] = "reading" /\ Answered(t, "putting")

Put(t) ==
    /\ pc[t] = "putting"
    /\ free' = Append(free, slot[t])
    /\ slot' = [slot EXCEPT ![t] = 0]
    /\ sent' = [sent EXCEPT ![t] = "nospawn"]
    /\ Goto(t, "idle")
    /\ UNCHANGED <<tickets, out, worker, faults>>

-----------------------------------------------------------------------------
(***************************************************************************)
(* issue: a slot taken without waiting, under the tickets lock.            *)
(***************************************************************************)
\* Mutant of CountedOut: the last slot is not kept for a synchronous request.
CountedOut_NoReserve(n) == n >= Size

CountedOut(n) == n >= Size - Reserve

Take(t) ==
    /\ pc[t] = "idle" /\ ~tripped(t)
    /\ ~CountedOut(tickets) /\ free # <<>>
    /\ slot' = [slot EXCEPT ![t] = Head(free)]
    /\ free' = Tail(free)
    /\ tickets' = tickets + 1
    /\ Goto(t, "issuing")
    /\ UNCHANGED <<sent, out, worker, faults>>

\* The ticket holds the slot from now on, whatever met the request.
Issue(t) ==
    /\ pc[t] = "issuing"
    /\ \E x \in Shipped(slot[t]) :
         /\ worker' = [worker EXCEPT ![slot[t]] = x[1]]
         /\ out' = out \cup {[slot |-> slot[t], audit |-> AuditOf[t], sent |-> x[2]]}
    /\ slot' = [slot EXCEPT ![t] = 0]
    /\ Goto(t, "idle")
    /\ UNCHANGED <<sent, free, tickets, faults>>

-----------------------------------------------------------------------------
(***************************************************************************)
(* collect and discard: the ticket is taken back, then its slot freed.     *)
(***************************************************************************)
TakeBack(t, ticket, next) ==
    /\ pc[t] = "idle"
    /\ ticket.audit = AuditOf[t]
    /\ out' = out \ {ticket}
    /\ slot' = [slot EXCEPT ![t] = ticket.slot]
    /\ sent' = [sent EXCEPT ![t] = ticket.sent]
    /\ Goto(t, next)
    /\ UNCHANGED <<free, tickets, worker, faults>>

Collect(t) ==
    /\ pc[t] = "collecting"
    /\ Goto(t, IF tripped(t) THEN "discarding" ELSE "receiving")
    /\ UNCHANGED <<slot, sent, free, tickets, out, worker, faults>>

CollectReads(t) == pc[t] = "receiving" /\ Answered(t, "releasing")

\* A reply that is there is read and dropped; a silent worker is ended, never
\* waited for; nothing is recorded.
Dropped(w) == IF w.owes = "ready" THEN Settled(w) ELSE {NoWorker}

\* Mutant of Discard: a silent worker is left as it is.
Discard_KeepsSilent(t) ==
    /\ pc[t] = "discarding"
    /\ \E w \in (IF worker[slot[t]].owes = "reply" THEN {worker[slot[t]]} ELSE Dropped(worker[slot[t]])) :
          worker' = [worker EXCEPT ![slot[t]] = w]
    /\ Goto(t, "releasing")
    /\ UNCHANGED <<slot, sent, free, tickets, out, faults>>

Discard(t) ==
    /\ pc[t] = "discarding"
    /\ IF sent[t] = "pending"
       THEN \E w \in Dropped(worker[slot[t]]) : worker' = [worker EXCEPT ![slot[t]] = w]
       ELSE UNCHANGED worker
    /\ Goto(t, "releasing")
    /\ UNCHANGED <<slot, sent, free, tickets, out, faults>>

\* Mutant of Release: the ticket is not counted in.
Release_KeepsCount(t) ==
    /\ pc[t] = "releasing"
    /\ Goto(t, "putting")
    /\ UNCHANGED <<slot, sent, free, tickets, out, worker, faults>>

\* The ticket is counted in under the lock, then the slot is put back.
Release(t) ==
    /\ pc[t] = "releasing"
    /\ tickets' = tickets - 1
    /\ Goto(t, "putting")
    /\ UNCHANGED <<slot, sent, free, out, worker, faults>>

\* Mutant of Unexpected: an issue that raised does not give its slot back.
Unexpected_LeaksSlot(t) ==
    /\ pc[t] \in {"parsing", "reading", "issuing", "receiving", "discarding"}
    /\ worker' = [worker EXCEPT ![slot[t]] = NoWorker]
    /\ Goto(t, IF pc[t] \in ParsePCs THEN "putting" ELSE IF pc[t] = "issuing" THEN "idle" ELSE "releasing")
    /\ UNCHANGED <<slot, sent, free, tickets, out, faults>>

\* _guarded: an operation on a slot that raises retires the slot's worker and
\* is answered, with no ticket if it was an issue.
Unexpected(t) ==
    /\ pc[t] \in {"parsing", "reading", "issuing", "receiving", "discarding"}
    /\ worker' = [worker EXCEPT ![slot[t]] = NoWorker]
    /\ Goto(t, IF pc[t] \in ParsePCs THEN "putting" ELSE "releasing")
    /\ UNCHANGED <<slot, sent, free, tickets, out, faults>>

-----------------------------------------------------------------------------
\* The next audit enters with a context of its own, the last one has left:
\* its threads are done and its tickets discarded.
Enter(a) ==
    /\ \A t \in Threads : AuditOf[t] = a => pc[t] = "idle"
    /\ \A k \in out : k.audit # a
    /\ faults' = [faults EXCEPT ![a] = 0]
    /\ UNCHANGED <<pc, slot, sent, free, tickets, out, worker>>

\* A thread inside an operation.
Works(t) ==
    \/ ParseRefused(t) \/ ParseSends(t) \/ ParseReads(t) \/ Put(t)
    \/ Issue(t)
    \/ Collect(t) \/ CollectReads(t) \/ Discard(t) \/ Release(t)
    \/ Unexpected(t)

Next ==
    \/ \E t \in Threads :
         \/ Parse(t) \/ TakesSlot(t) \/ Take(t) \/ Works(t)
         \/ \E ticket \in out, next \in {"collecting", "discarding"} : TakeBack(t, ticket, next)
    \/ \E s \in Slots : WorkerReplies(s) \/ WorkerDies(s)
    \/ \E a \in Audits : Enter(a)

Spec == Init /\ [][Next]_vars

(***************************************************************************)
(* Every wait inside an operation has a deadline, so a thread in one goes  *)
(* on.  get() wakes its waiters in turn, and a barging thread can win a    *)
(* slot now and then but not for ever: strong fairness.  Nobody has to     *)
(* collect or discard a ticket, and no worker has to answer.               *)
(***************************************************************************)
Fairness ==
    \A t \in Threads : WF_vars(Works(t)) /\ SF_vars(TakesSlot(t))

LiveSpec == Spec /\ Fairness

-----------------------------------------------------------------------------
(***************************************************************************)
(* Properties.                                                             *)
(***************************************************************************)
FreeSlots == {free[i] : i \in DOMAIN free}
HeldSlots == {slot[t] : t \in Holders}
TicketSlots == {k.slot : k \in out}

\* Every slot is in exactly one place: once in the queue, with one thread, or
\* with one ticket.  No path through an operation, a raise included, loses a
\* slot or frees one twice (pool.py: the finally blocks, _guarded, _release).
SlotsConserved ==
    /\ FreeSlots \cup HeldSlots \cup TicketSlots = Slots
    /\ FreeSlots \cap HeldSlots = {}
    /\ FreeSlots \cap TicketSlots = {}
    /\ HeldSlots \cap TicketSlots = {}
    /\ \A i, j \in DOMAIN free : free[i] = free[j] => i = j
    /\ \A t, u \in Holders : slot[t] = slot[u] => t = u
    /\ \A k, l \in out : k.slot = l.slot => k = l

\* The ticket count is exact although it and the queue change in separate
\* steps, and tickets never hold the reserved slots (_spare, _release).
TicketsExact ==
    /\ tickets = Cardinality(out) + Cardinality(Ticketing)
    /\ tickets <= Size - Reserve

SlotsExact == SlotsConserved /\ TicketsExact

\* A slot that can be taken has a worker whose pipe owes nothing: no request
\* reads the reply of another one, however that one ended (discard, _fail).
QuietWhenFree == \A s \in FreeSlots : worker[s].owes = "nothing"

\* A request never waits for tickets alone: when the queue is empty somebody
\* is about to put a slot back (pool.py: "a ticket holder never starves a
\* request it waits on").
RoomForRequests == free = <<>> => \E t \in Threads : pc[t] \in ParsePCs

\* What the pool's users count on of its slots at any moment: none is lost or
\* doubled, one that can be taken is clean, and tickets leave room.
SlotsSound == SlotsExact /\ QuietWhenFree /\ RoomForRequests

Pool == INSTANCE SlotPool WITH inUse <- Size - Len(free) - tickets

\* The queue and the ticket count, which change in separate steps, keep the
\* promise that was made of the pool as a whole (_spare, _release).
ImplementsPool == Pool!Spec

\* A request that waits for a slot gets one, even if no outstanding ticket is
\* ever taken back and no worker ever answers (WorkerPool's docstring: "a
\* synchronous request always finds one").
Served(t) == pc[t] = "waiting" ~> pc[t] = "parsing"
=============================================================================
