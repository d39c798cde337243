------------------------------- MODULE SlotPool -------------------------------
(***************************************************************************)
(* What the parse worker pool promises the two kinds of requests, with no  *)
(* queue, threads or workers: pool.py's "Tickets never take the last       *)
(* PREFETCH_RESERVE slots (an exact count under a lock), so W = 1 never    *)
(* issues and a synchronous request always finds a slot".  The pool keeps  *)
(* that promise (WorkerPool); the prefetch is written against it           *)
(* (Prefetch).                                                             *)
(***************************************************************************)
EXTENDS Integers

CONSTANTS Size, Reserve

VARIABLES
    tickets,  \* slots held for requests sent ahead
    inUse     \* slots held by somebody who will put them back

vars == <<tickets, inUse>>

Free == Size - tickets - inUse

Init == tickets = 0 /\ inUse = 0

\* A synchronous request gets a slot.
Serve ==
    /\ Free > 0
    /\ inUse' = inUse + 1
    /\ UNCHANGED tickets

PutBack ==
    /\ inUse > 0
    /\ inUse' = inUse - 1
    /\ UNCHANGED tickets

\* A request is sent ahead: only while the reserve is untouched by tickets.
SendAhead ==
    /\ Free > 0 /\ tickets < Size - Reserve
    /\ tickets' = tickets + 1
    /\ UNCHANGED inUse

\* A ticket is over; its slot is free, or still in the hands of whoever took
\* the ticket back.
EndTicket ==
    /\ tickets > 0
    /\ tickets' = tickets - 1
    /\ inUse' \in {inUse, inUse + 1}

Next == Serve \/ PutBack \/ SendAhead \/ EndTicket

Spec == Init /\ [][Next]_vars
=============================================================================
