--------------------------- MODULE WorkerPool_proof ---------------------------
(***************************************************************************)
(* The worker pool loses no slot and frees none twice, counts its tickets  *)
(* exactly and never hands on a pipe that owes a reply, for any number of  *)
(* threads, audits and slots.                                              *)
(*                                                                         *)
(* A slot moves between the queue, a thread and a ticket in five kinds of  *)
(* step (Take and TakesSlot, Put, Issue, TakeBack); every other step       *)
(* leaves all three alone (SlotsKept).  The count of tickets follows from  *)
(* that, because a new ticket is of a slot no ticket holds, and that a     *)
(* free pipe is quiet because every pipe is, except while the request it   *)
(* answers is held by a thread or a ticket (Quiet).  From the places of    *)
(* the slots follows how many there can be of each kind, and from that the *)
(* refinement of SlotPool.                                                 *)
(***************************************************************************)
EXTENDS WorkerPool, FiniteSetTheorems, SequenceTheorems, TLAPS

\* The parts of SlotsConserved slot by slot, and what a thread holds is a slot.
Owned(s) ==
    \/ \E i \in DOMAIN free : free[i] = s
    \/ \E t \in Holders : slot[t] = s
    \/ \E k \in out : k.slot = s

Placed ==
    /\ \A s \in Slots : Owned(s)
    /\ \A t \in Holders : slot[t] \in Slots
    /\ \A i \in DOMAIN free, t \in Holders : free[i] # slot[t]
    /\ \A i \in DOMAIN free, k \in out : free[i] # k.slot
    /\ \A t \in Holders, k \in out : slot[t] # k.slot
    /\ \A i, j \in DOMAIN free : free[i] = free[j] => i = j
    /\ \A t, u \in Holders : slot[t] = slot[u] => t = u
    /\ \A k, l \in out : k.slot = l.slot => k = l

Silent(s) == worker[s].owes = "nothing"

\* Whose request a pipe may owe a reply to.
Quiet ==
    /\ \A i \in DOMAIN free : Silent(free[i])
    /\ \A t \in Holders :
         pc[t] \in {"parsing", "issuing", "putting", "releasing"} \/ sent[t] # "pending" => Silent(slot[t])
    /\ \A k \in out : k.sent # "pending" => Silent(k.slot)

Counted == IsFiniteSet(out) /\ TicketsExact

IInv == TypeOK /\ Placed /\ Counted /\ Quiet

-----------------------------------------------------------------------------
(***************************************************************************)
(* The queue.                                                              *)
(***************************************************************************)
LEMMA HeadTail ==
    ASSUME NEW f \in Seq(Slots), f # <<>>
    PROVE  /\ Head(f) \in Slots /\ Head(f) = f[1] /\ 1 \in DOMAIN f
           /\ Tail(f) \in Seq(Slots)
           /\ \A i \in DOMAIN Tail(f) : i + 1 \in DOMAIN f /\ i + 1 # 1 /\ Tail(f)[i] = f[i + 1]
           /\ \A i \in DOMAIN f : i # 1 => i - 1 \in DOMAIN Tail(f) /\ Tail(f)[i - 1] = f[i]
<1>1. Len(f) \in Nat /\ Len(f) # 0 /\ DOMAIN f = 1..Len(f)
  BY EmptySeq, LenProperties
<1>2. /\ Tail(f) \in Seq(Slots) /\ Len(Tail(f)) = Len(f) - 1
      /\ \A i \in 1..Len(Tail(f)) : Tail(f)[i] = f[i + 1]
      /\ Head(f) \in Slots /\ Head(f) = f[1]
  BY HeadTailProperties
<1>3. DOMAIN Tail(f) = 1..(Len(f) - 1)
  BY <1>2, LenProperties
<1>4. QED
  BY <1>1, <1>2, <1>3

LEMMA Appended ==
    ASSUME NEW f \in Seq(Slots), NEW s \in Slots
    PROVE  /\ Append(f, s) \in Seq(Slots)
           /\ DOMAIN f \subseteq DOMAIN Append(f, s)
           /\ \A i \in DOMAIN f : Append(f, s)[i] = f[i]
           /\ \E n \in DOMAIN Append(f, s) :
                /\ Append(f, s)[n] = s
                /\ \A i \in DOMAIN Append(f, s) : i # n => i \in DOMAIN f
<1>1. Len(f) \in Nat /\ DOMAIN f = 1..Len(f)
  BY LenProperties
<1>2. /\ Append(f, s) \in Seq(Slots) /\ Len(Append(f, s)) = Len(f) + 1
      /\ \A i \in 1..Len(f) : Append(f, s)[i] = f[i]
      /\ Append(f, s)[Len(f) + 1] = s
  BY AppendProperties
<1>3. DOMAIN Append(f, s) = 1..(Len(f) + 1)
  BY <1>2, LenProperties
<1>4. QED
  BY <1>1, <1>2, <1>3

-----------------------------------------------------------------------------
(***************************************************************************)
(* Where the slots are.                                                    *)
(***************************************************************************)
\* t moves between program counters that both hold a slot, or neither does.
Stays(t, p) ==
    /\ pc' = [pc EXCEPT ![t] = p] /\ (pc[t] \in HoldingPCs <=> p \in HoldingPCs)
    /\ slot' = slot /\ free' = free /\ out' = out

LEMMA SlotsKept ==
    ASSUME TypeOK, Placed, NEW t \in Threads, NEW p, Stays(t, p)
    PROVE  Placed'
<1>1. Holders' = Holders
  BY DEF TypeOK, Stays, Holders
<1>2. QED
  BY <1>1 DEF Placed, Owned, Stays

LEMMA FromQueue ==
    ASSUME TypeOK, Placed, NEW t \in Threads, pc[t] \notin HoldingPCs, NEW p \in HoldingPCs,
           free # <<>>, slot' = [slot EXCEPT ![t] = Head(free)], free' = Tail(free),
           pc' = [pc EXCEPT ![t] = p], out' = out
    PROVE  Placed'
<1>1. Holders' = Holders \cup {t} /\ t \notin Holders
  BY DEF TypeOK, Holders
<1>2. slot'[t] = Head(free) /\ \A u \in Holders : slot'[u] = slot[u]
  BY <1>1 DEF TypeOK, Holders
<1>3. /\ Head(free) \in Slots /\ Head(free) = free[1] /\ 1 \in DOMAIN free
      /\ \A i \in DOMAIN free' : i + 1 \in DOMAIN free /\ i + 1 # 1 /\ free'[i] = free[i + 1]
      /\ \A i \in DOMAIN free : i # 1 => i - 1 \in DOMAIN free' /\ free'[i - 1] = free[i]
  BY HeadTail DEF TypeOK
<1>4. \A s \in Slots : Owned(s)'
  <2> SUFFICES ASSUME NEW s \in Slots PROVE Owned(s)'
    OBVIOUS
  <2>1. ASSUME NEW i \in DOMAIN free, free[i] = s PROVE Owned(s)'
    <3>1. CASE i = 1
      <4>1. t \in Holders' /\ slot'[t] = s
        BY <1>1, <1>2, <1>3, <2>1, <3>1
      <4>2. QED
        BY <4>1 DEF Owned
    <3>2. CASE i # 1
      <4>1. i - 1 \in DOMAIN free' /\ free'[i - 1] = s
        BY <1>3, <2>1, <3>2
      <4>2. QED
        BY <4>1 DEF Owned
    <3>3. QED
      BY <3>1, <3>2
  <2>2. CASE \E u \in Holders : slot[u] = s
    <3>1. PICK u \in Holders : slot[u] = s
      BY <2>2
    <3>2. u \in Holders' /\ slot'[u] = s
      BY <1>1, <1>2, <3>1
    <3>3. QED
      BY <3>2 DEF Owned
  <2>3. CASE \E k \in out : k.slot = s
    BY <2>3 DEF Owned
  <2>4. QED
    BY <2>1, <2>2, <2>3 DEF Placed, Owned
<1>5. \A i, j \in DOMAIN free' : free'[i] = free'[j] => i = j
  <2> SUFFICES ASSUME NEW i \in DOMAIN free', NEW j \in DOMAIN free', free'[i] = free'[j] PROVE i = j
    OBVIOUS
  <2>1. i + 1 = j + 1
    BY <1>3 DEF Placed
  <2>2. i \in Nat /\ j \in Nat
    <3>1. free' \in Seq(Slots)
      BY HeadTail DEF TypeOK
    <3>2. QED
      BY <3>1, LenProperties
  <2>3. QED
    BY <2>1, <2>2
<1>6. \A i \in DOMAIN free', u \in Holders' : free'[i] # slot'[u]
  BY <1>1, <1>2, <1>3 DEF Placed
<1>7. \A i \in DOMAIN free', k \in out' : free'[i] # k.slot
  BY <1>3 DEF Placed
<1>8. \A u \in Holders', k \in out' : slot'[u] # k.slot
  BY <1>1, <1>2, <1>3 DEF Placed
<1>9. \A u, v \in Holders' : slot'[u] = slot'[v] => u = v
  BY <1>1, <1>2, <1>3 DEF Placed
<1>10. \A u \in Holders' : slot'[u] \in Slots
  BY <1>1, <1>2, <1>3 DEF Placed
<1>11. QED
  BY <1>4, <1>5, <1>6, <1>7, <1>8, <1>9, <1>10 DEF Placed

LEMMA ToQueue ==
    ASSUME TypeOK, Placed, NEW t \in Threads, Put(t)
    PROVE  Placed'
<1>1. t \in Holders /\ Holders' = Holders \ {t} /\ out' = out /\ free' = Append(free, slot[t])
  BY DEF TypeOK, Put, Goto, Holders, HoldingPCs, ParsePCs, TicketPCs
<1>2. \A u \in Holders' : slot'[u] = slot[u]
  BY <1>1 DEF TypeOK, Put, Holders
<1>3. slot[t] \in Slots
  BY <1>1 DEF Placed
<1>4. /\ DOMAIN free \subseteq DOMAIN free' /\ \A i \in DOMAIN free : free'[i] = free[i]
      /\ \E n \in DOMAIN free' : free'[n] = slot[t] /\ \A i \in DOMAIN free' : i # n => i \in DOMAIN free
  BY <1>1, <1>3, Appended DEF TypeOK
<1>5. \A s \in Slots : Owned(s)'
  BY <1>1, <1>2, <1>4 DEF Placed, Owned
<1>6. PICK n \in DOMAIN free' : free'[n] = slot[t] /\ \A i \in DOMAIN free' : i # n => i \in DOMAIN free
  BY <1>4
<1>7. \A i \in DOMAIN free', u \in Holders' : free'[i] # slot'[u]
  BY <1>1, <1>2, <1>4, <1>6 DEF Placed
<1>8. \A i \in DOMAIN free', k \in out' : free'[i] # k.slot
  BY <1>1, <1>4, <1>6 DEF Placed
<1>9. \A i, j \in DOMAIN free' : free'[i] = free'[j] => i = j
  BY <1>1, <1>4, <1>6 DEF Placed
<1>10. QED
  BY <1>1, <1>2, <1>5, <1>7, <1>8, <1>9 DEF Placed

LEMMA ToTicket ==
    ASSUME TypeOK, Placed, NEW t \in Threads, Issue(t)
    PROVE  /\ Placed'
           /\ \E x \in Shipped(slot[t]) :
                out' = out \cup {[slot |-> slot[t], audit |-> AuditOf[t], sent |-> x[2]]}
           /\ \A k \in out : k.slot # slot[t]
<1>1. t \in Holders /\ Holders' = Holders \ {t} /\ free' = free
  BY DEF TypeOK, Issue, Goto, Holders, HoldingPCs, ParsePCs, TicketPCs
<1>2. PICK x \in Shipped(slot[t]) :
         out' = out \cup {[slot |-> slot[t], audit |-> AuditOf[t], sent |-> x[2]]}
  BY DEF Issue
<1> DEFINE new == [slot |-> slot[t], audit |-> AuditOf[t], sent |-> x[2]]
<1>3. out' = out \cup {new} /\ new.slot = slot[t]
  BY <1>2
<1> HIDE DEF new
<1>4. \A u \in Holders' : slot'[u] = slot[u]
  BY <1>1 DEF TypeOK, Issue, Holders
<1>5. \A s \in Slots : Owned(s)'
  BY <1>1, <1>3, <1>4 DEF Placed, Owned
<1>6. \A u \in Holders', k \in out' : slot'[u] # k.slot
  BY <1>1, <1>3, <1>4 DEF Placed
<1>7. \A k, l \in out' : k.slot = l.slot => k = l
  BY <1>1, <1>3 DEF Placed
<1>8. \A i \in DOMAIN free', k \in out' : free'[i] # k.slot
  BY <1>1, <1>3 DEF Placed
<1>9. Placed'
  BY <1>1, <1>4, <1>5, <1>6, <1>7, <1>8 DEF Placed
<1>10. QED
  BY <1>1, <1>2, <1>9 DEF Placed

LEMMA FromTicket ==
    ASSUME TypeOK, Placed, NEW t \in Threads, NEW k \in out, NEW p \in {"collecting", "discarding"},
           TakeBack(t, k, p)
    PROVE  Placed'
<1>1. t \notin Holders /\ Holders' = Holders \cup {t} /\ free' = free /\ out' = out \ {k}
  BY DEF TypeOK, TakeBack, Goto, Holders, HoldingPCs, ParsePCs, TicketPCs
<1>2. slot'[t] = k.slot /\ \A u \in Holders : slot'[u] = slot[u]
  BY <1>1 DEF TypeOK, TakeBack, Holders
<1>3. k.slot \in Slots
  BY DEF TypeOK, Ticket
<1>4. \A s \in Slots : Owned(s)'
  BY <1>1, <1>2 DEF Placed, Owned
<1>5. \A u \in Holders', l \in out' : slot'[u] # l.slot
  BY <1>1, <1>2 DEF Placed
<1>6. \A u, v \in Holders' : slot'[u] = slot'[v] => u = v
  BY <1>1, <1>2 DEF Placed
<1>7. QED
  BY <1>1, <1>2, <1>3, <1>4, <1>5, <1>6 DEF Placed

-----------------------------------------------------------------------------
(***************************************************************************)
(* The count of tickets.                                                   *)
(***************************************************************************)
LEMMA TicketingMoves ==
    ASSUME TypeOK, NEW t \in Threads, NEW p, pc' = [pc EXCEPT ![t] = p]
    PROVE  /\ Cardinality(Ticketing) \in Nat /\ Cardinality(Ticketing') \in Nat
           /\ (pc[t] \in TicketPCs <=> p \in TicketPCs) => Ticketing' = Ticketing
           /\ pc[t] \notin TicketPCs /\ p \in TicketPCs
                => Cardinality(Ticketing') = Cardinality(Ticketing) + 1
           /\ pc[t] \in TicketPCs /\ p \notin TicketPCs
                => Cardinality(Ticketing') = Cardinality(Ticketing) - 1
<1>1. IsFiniteSet(Ticketing) /\ IsFiniteSet(Ticketing')
  <2>1. Ticketing \in SUBSET Threads /\ Ticketing' \in SUBSET Threads
    BY DEF Ticketing
  <2>2. QED
    BY <2>1, ThreadsAssumption, FS_Subset
<1>2. Cardinality(Ticketing) \in Nat /\ Cardinality(Ticketing') \in Nat
  BY <1>1, FS_CardinalityType
<1>3. (pc[t] \in TicketPCs <=> p \in TicketPCs) => Ticketing' = Ticketing
  BY DEF TypeOK, Ticketing
<1>4. ASSUME pc[t] \notin TicketPCs, p \in TicketPCs
      PROVE  Cardinality(Ticketing') = Cardinality(Ticketing) + 1
  <2>1. t \notin Ticketing /\ Ticketing' = Ticketing \cup {t}
    BY <1>4 DEF TypeOK, Ticketing
  <2>2. QED
    BY <1>1, <2>1, FS_AddElement
<1>5. ASSUME pc[t] \in TicketPCs, p \notin TicketPCs
      PROVE  Cardinality(Ticketing') = Cardinality(Ticketing) - 1
  <2>1. t \in Ticketing /\ Ticketing' = Ticketing \ {t}
    BY <1>5 DEF TypeOK, Ticketing
  <2>2. QED
    BY <1>1, <2>1, FS_RemoveElement
<1>6. QED
  BY <1>2, <1>3, <1>4, <1>5

\* No tickets taken or given back.
LEMMA CountKept ==
    ASSUME TypeOK, Counted, NEW t \in Threads, NEW p, pc' = [pc EXCEPT ![t] = p],
           pc[t] \in TicketPCs <=> p \in TicketPCs, tickets' = tickets, out' = out
    PROVE  Counted'
BY TicketingMoves DEF Counted, TicketsExact

LEMMA TakeCounted ==
    ASSUME TypeOK, Counted, NEW t \in Threads, Take(t)
    PROVE  Counted'
<1>1. Cardinality(Ticketing') = Cardinality(Ticketing) + 1 /\ Cardinality(Ticketing) \in Nat
  BY TicketingMoves DEF Take, Goto, TicketPCs
<1>2. Cardinality(out) \in Nat /\ out' = out /\ tickets' = tickets + 1
  BY FS_CardinalityType DEF Counted, Take
<1>3. tickets < Size - Reserve
  BY SizeAssumption, ReserveAssumption DEF TypeOK, Take, CountedOut
<1>4. QED
  BY <1>1, <1>2, <1>3, SizeAssumption, ReserveAssumption DEF TypeOK, Counted, TicketsExact

LEMMA IssueCounted ==
    ASSUME TypeOK, Placed, Counted, NEW t \in Threads, Issue(t)
    PROVE  Counted'
<1>1. Cardinality(Ticketing') = Cardinality(Ticketing) - 1 /\ Cardinality(Ticketing) \in Nat
  <2>1. pc' = [pc EXCEPT ![t] = "idle"] /\ pc[t] \in TicketPCs /\ "idle" \notin TicketPCs
    BY DEF Issue, Goto, TicketPCs
  <2>2. QED
    BY <2>1, TicketingMoves
<1>2. PICK k : out' = out \cup {k} /\ k \notin out
  <2>1. PICK x \in Shipped(slot[t]) :
          out' = out \cup {[slot |-> slot[t], audit |-> AuditOf[t], sent |-> x[2]]}
    BY ToTicket
  <2>2. [slot |-> slot[t], audit |-> AuditOf[t], sent |-> x[2]] \notin out
    BY ToTicket
  <2>3. QED
    BY <2>1, <2>2
<1>3. IsFiniteSet(out') /\ Cardinality(out') = Cardinality(out) + 1 /\ Cardinality(out) \in Nat
  BY <1>2, FS_AddElement, FS_CardinalityType DEF Counted
<1>4. QED
  BY <1>1, <1>3 DEF Issue, Counted, TicketsExact

LEMMA TakeBackCounted ==
    ASSUME TypeOK, Counted, NEW t \in Threads, NEW k \in out, NEW p \in {"collecting", "discarding"},
           TakeBack(t, k, p)
    PROVE  Counted'
<1>1. Cardinality(Ticketing') = Cardinality(Ticketing) + 1 /\ Cardinality(Ticketing) \in Nat
  BY TicketingMoves DEF TakeBack, Goto, TicketPCs
<1>2. IsFiniteSet(out') /\ Cardinality(out') = Cardinality(out) - 1 /\ Cardinality(out) \in Nat
  BY FS_RemoveElement, FS_CardinalityType DEF Counted, TakeBack
<1>3. QED
  BY <1>1, <1>2 DEF TakeBack, Counted, TicketsExact

LEMMA ReleaseCounted ==
    ASSUME TypeOK, Counted, NEW t \in Threads, Release(t)
    PROVE  Counted' /\ tickets' \in Nat
<1>1. /\ Cardinality(Ticketing') = Cardinality(Ticketing) - 1
      /\ Cardinality(Ticketing) \in Nat /\ Cardinality(Ticketing') \in Nat
  <2>1. pc' = [pc EXCEPT ![t] = "putting"] /\ pc[t] \in TicketPCs /\ "putting" \notin TicketPCs
    BY DEF Release, Goto, TicketPCs
  <2>2. QED
    BY <2>1, TicketingMoves
<1>2. Cardinality(out) \in Nat /\ out' = out /\ tickets' = tickets - 1
  BY FS_CardinalityType DEF Counted, Release
<1>3. QED
  BY <1>1, <1>2, SizeAssumption, ReserveAssumption DEF Counted, TicketsExact

-----------------------------------------------------------------------------
(***************************************************************************)
(* What a request leaves in the pipe.                                      *)
(***************************************************************************)
LEMMA ShippedQuiet ==
    ASSUME TypeOK, NEW s \in Slots, NEW x \in Shipped(s)
    PROVE  /\ x[1] \in Workers /\ x[2] \in Fates
           /\ x[2] # "pending" => x[1].owes = "nothing"
<1>1. worker[s] \in Workers
  BY DEF TypeOK
<1>2. NoWorker \in Workers /\ Fresh \in Workers /\ Killed \in Workers
  BY DEF NoWorker, Fresh, Killed, Workers
<1> DEFINE ready == IF worker[s].up = "up" THEN {worker[s]} ELSE {NoWorker, Fresh}
<1>3. ready \subseteq Workers
  BY <1>1, <1>2
<1>4. \/ x = <<NoWorker, "nospawn">>
      \/ \E w \in ready : x \in {<<[w EXCEPT !.owes = "reply"], "pending">>, <<Killed, "timeout">>, <<Killed, "lost">>}
  BY DEF Shipped
<1>5. CASE x = <<NoWorker, "nospawn">>
  BY <1>5, <1>2 DEF Fates, NoWorker
<1>6. CASE \E w \in ready : x \in {<<[w EXCEPT !.owes = "reply"], "pending">>, <<Killed, "timeout">>, <<Killed, "lost">>}
  <2>1. PICK w \in Workers :
          x \in {<<[w EXCEPT !.owes = "reply"], "pending">>, <<Killed, "timeout">>, <<Killed, "lost">>}
    BY <1>3, <1>6
  <2>2. [w EXCEPT !.owes = "reply"] \in Workers
    BY DEF Workers
  <2>3. QED
    BY <2>1, <2>2, <1>2 DEF Fates, Killed
<1>7. QED
  BY <1>4, <1>5, <1>6

LEMMA SettledQuiet ==
    ASSUME NEW w \in Workers, NEW v \in Settled(w)
    PROVE  v \in Workers /\ v.owes = "nothing"
BY DEF Settled, Workers, NoWorker

LEMMA AnswerQuiet ==
    ASSUME TypeOK, NEW t \in Threads, slot[t] \in Slots, sent[t] # "pending" => Silent(slot[t]),
           NEW v, NEW fault, ComesTo(t, v, fault)
    PROVE  v \in Workers /\ v.owes = "nothing"
<1>1. worker[slot[t]] \in Workers /\ NoWorker \in Workers /\ NoWorker.owes = "nothing"
  BY DEF TypeOK, NoWorker, Workers
<1>2. CASE sent[t] = "nospawn"
  BY <1>1, <1>2 DEF ComesTo, Silent
<1>3. CASE sent[t] # "nospawn"
  BY <1>1, <1>3, SettledQuiet DEF ComesTo
<1>4. QED
  BY <1>2, <1>3

LEMMA DroppedQuiet ==
    ASSUME NEW w \in Workers, NEW v \in Dropped(w)
    PROVE  v \in Workers /\ v.owes = "nothing"
BY SettledQuiet DEF Dropped, NoWorker, Workers

-----------------------------------------------------------------------------
(***************************************************************************)
(* A thread goes on with the slot it has, and leaves its worker quiet or   *)
(* its request pending.                                                    *)
(***************************************************************************)
Moves(t, p, f, w) ==
    /\ pc[t] \in HoldingPCs /\ p \in HoldingPCs /\ pc' = [pc EXCEPT ![t] = p]
    /\ f \in Fates /\ sent' = [sent EXCEPT ![t] = f]
    /\ w \in Workers /\ worker' = [worker EXCEPT ![slot[t]] = w]
    /\ w.owes = "nothing" \/ (f = "pending" /\ p \notin {"parsing", "issuing", "putting", "releasing"})
    /\ slot' = slot /\ free' = free /\ out' = out

LEMMA HolderMoves ==
    ASSUME IInv, NEW t \in Threads, NEW p, NEW f, NEW w, Moves(t, p, f, w),
           Counted', tickets' \in Nat, faults' \in [Audits -> Nat]
    PROVE  IInv'
<1>1. TypeOK /\ Placed /\ Quiet
  BY DEF IInv
<1>2. t \in Holders /\ slot[t] \in Slots
  BY <1>1 DEF Moves, Holders, Placed
<1>3. TypeOK'
  BY <1>1 DEF TypeOK, Moves, PCs
<1>4. Placed'
  BY <1>1, SlotsKept DEF Moves, Stays
<1>5. Holders' = Holders
  BY <1>1 DEF TypeOK, Moves, Holders
<1>6. \A s \in Slots : s # slot[t] => worker'[s] = worker[s]
  BY <1>1 DEF TypeOK, Moves
<1>7. worker'[slot[t]] = w
  BY <1>1, <1>2 DEF TypeOK, Moves
<1>8. \A i \in DOMAIN free : free[i] \in Slots
  BY <1>1, LenProperties DEF TypeOK
<1>9. Quiet'
  <2>1. \A i \in DOMAIN free' : worker'[free'[i]].owes = "nothing"
    BY <1>1, <1>2, <1>6, <1>8 DEF Quiet, Placed, Silent, Moves
  <2>2. \A k \in out' : k.sent # "pending" => worker'[k.slot].owes = "nothing"
    BY <1>1, <1>2, <1>6 DEF TypeOK, Ticket, Quiet, Placed, Silent, Moves
  <2>3. ASSUME NEW u \in Holders',
               pc'[u] \in {"parsing", "issuing", "putting", "releasing"} \/ sent'[u] # "pending"
        PROVE  worker'[slot'[u]].owes = "nothing"
    <3>1. CASE u = t
      BY <1>1, <1>7, <2>3, <3>1 DEF TypeOK, Silent, Moves
    <3>2. CASE u # t
      <4>1. u \in Holders /\ slot[u] \in Slots /\ slot[u] # slot[t]
        BY <1>1, <1>2, <1>5, <3>2 DEF Placed
      <4>2. pc'[u] = pc[u] /\ sent'[u] = sent[u]
        BY <1>1, <3>2, <4>1 DEF TypeOK, Moves, Holders
      <4>3. Silent(slot[u])
        BY <1>1, <2>3, <4>1, <4>2 DEF Quiet
      <4>4. QED
        BY <1>6, <4>1, <4>3 DEF Silent, Moves
    <3>3. QED
      BY <3>1, <3>2
  <2>4. QED
    BY <2>1, <2>2, <2>3 DEF Quiet, Silent
<1>10. QED
  BY <1>3, <1>4, <1>9 DEF IInv

\* The worker of a slot t holds, and why it is quiet.
LEMMA HeldWorker ==
    ASSUME IInv, NEW t \in Threads, pc[t] \in HoldingPCs
    PROVE  /\ slot[t] \in Slots /\ worker[slot[t]] \in Workers /\ sent[t] \in Fates
           /\ sent = [sent EXCEPT ![t] = sent[t]]
           /\ worker = [worker EXCEPT ![slot[t]] = worker[slot[t]]]
           /\ pc[t] \in {"parsing", "issuing", "putting", "releasing"} \/ sent[t] # "pending"
                => worker[slot[t]].owes = "nothing"
<1>1. t \in Holders /\ slot[t] \in Slots
  BY DEF IInv, Placed, Holders
<1>2. QED
  BY <1>1 DEF IInv, TypeOK, Quiet, Silent

LEMMA FaultsTyped ==
    ASSUME TypeOK, NEW a \in Audits, NEW n \in Nat, faults' = [faults EXCEPT ![a] = @ + n]
    PROVE  faults' \in [Audits -> Nat]
BY DEF TypeOK

LEMMA ParseRefusedInv ==
    ASSUME IInv, NEW t \in Threads, ParseRefused(t)
    PROVE  IInv'
<1>1. pc[t] = "parsing" /\ pc' = [pc EXCEPT ![t] = "putting"]
  BY DEF ParseRefused, Goto
<1>2. Moves(t, "putting", sent[t], worker[slot[t]])
  BY <1>1, HeldWorker DEF Moves, ParseRefused, HoldingPCs, ParsePCs
<1>3. Counted'
  BY <1>1, CountKept DEF IInv, ParseRefused, TicketPCs
<1>4. QED
  BY <1>2, <1>3, HolderMoves DEF IInv, TypeOK, ParseRefused

LEMMA ParseSendsInv ==
    ASSUME IInv, NEW t \in Threads, ParseSends(t)
    PROVE  IInv'
<1>1. pc[t] = "parsing" /\ pc' = [pc EXCEPT ![t] = "reading"]
  BY DEF ParseSends, Goto
<1>2. PICK x \in Shipped(slot[t]) :
        worker' = [worker EXCEPT ![slot[t]] = x[1]] /\ sent' = [sent EXCEPT ![t] = x[2]]
  BY DEF ParseSends
<1>3. slot[t] \in Slots
  BY <1>1, HeldWorker DEF HoldingPCs, ParsePCs
<1>4. x[1] \in Workers /\ x[2] \in Fates /\ (x[2] # "pending" => x[1].owes = "nothing")
  BY <1>3, ShippedQuiet DEF IInv
<1>5. Moves(t, "reading", x[2], x[1])
  BY <1>1, <1>2, <1>4 DEF Moves, ParseSends, HoldingPCs, ParsePCs
<1>6. Counted'
  BY <1>1, CountKept DEF IInv, ParseSends, TicketPCs
<1>7. QED
  BY <1>5, <1>6, HolderMoves DEF IInv, TypeOK, ParseSends

LEMMA AnsweredInv ==
    ASSUME IInv, NEW t \in Threads, NEW p \in {"putting", "releasing"}, pc[t] \in HoldingPCs,
           pc[t] \in TicketPCs <=> p \in TicketPCs, Answered(t, p)
    PROVE  IInv'
<1>1. PICK v \in Settled(worker[slot[t]]) \cup {worker[slot[t]]}, fault \in BOOLEAN :
        /\ ComesTo(t, v, fault)
        /\ worker' = [worker EXCEPT ![slot[t]] = v]
        /\ faults' = [faults EXCEPT ![AuditOf[t]] = @ + (IF fault THEN 1 ELSE 0)]
  BY DEF Answered
<1>2. slot[t] \in Slots /\ (sent[t] # "pending" => Silent(slot[t]))
  BY HeldWorker DEF Silent
<1>3. v \in Workers /\ v.owes = "nothing"
  BY <1>1, <1>2, AnswerQuiet DEF IInv
<1>4. Moves(t, p, sent[t], v)
  BY <1>1, <1>3, HeldWorker DEF Moves, Answered, Goto, HoldingPCs, ParsePCs, TicketPCs
<1>5. Counted'
  BY CountKept DEF IInv, Answered, Goto
<1>6. faults' \in [Audits -> Nat]
  <2>1. AuditOf[t] \in Audits /\ (IF fault THEN 1 ELSE 0) \in Nat
    BY AuditOfAssumption
  <2>2. QED
    BY <1>1, <2>1, FaultsTyped DEF IInv
<1>7. QED
  BY <1>4, <1>5, <1>6, HolderMoves DEF IInv, TypeOK, Answered

LEMMA CollectInv ==
    ASSUME IInv, NEW t \in Threads, Collect(t)
    PROVE  IInv'
<1>1. PICK p \in {"discarding", "receiving"} : pc' = [pc EXCEPT ![t] = p]
  BY DEF Collect, Goto
<1>2. pc[t] = "collecting"
  BY DEF Collect
<1>3. Moves(t, p, sent[t], worker[slot[t]])
  BY <1>1, <1>2, HeldWorker DEF Moves, Collect, HoldingPCs, ParsePCs, TicketPCs
<1>4. Counted'
  BY <1>1, <1>2, CountKept DEF IInv, Collect, TicketPCs
<1>5. QED
  BY <1>3, <1>4, HolderMoves DEF IInv, TypeOK, Collect

LEMMA DiscardInv ==
    ASSUME IInv, NEW t \in Threads, Discard(t)
    PROVE  IInv'
<1>1. pc[t] = "discarding" /\ pc' = [pc EXCEPT ![t] = "releasing"]
  BY DEF Discard, Goto
<1>2. /\ worker[slot[t]] \in Workers /\ sent[t] \in Fates
      /\ sent[t] # "pending" => worker[slot[t]].owes = "nothing"
      /\ sent = [sent EXCEPT ![t] = sent[t]]
      /\ worker = [worker EXCEPT ![slot[t]] = worker[slot[t]]]
  BY <1>1, HeldWorker DEF HoldingPCs, TicketPCs
<1>3. \E w \in Workers : w.owes = "nothing" /\ worker' = [worker EXCEPT ![slot[t]] = w]
  <2>1. CASE sent[t] = "pending"
    <3>1. PICK w \in Dropped(worker[slot[t]]) : worker' = [worker EXCEPT ![slot[t]] = w]
      BY <2>1 DEF Discard
    <3>2. QED
      BY <1>2, <3>1, DroppedQuiet
  <2>2. CASE sent[t] # "pending"
    BY <1>2, <2>2 DEF Discard
  <2>3. QED
    BY <2>1, <2>2
<1>4. PICK w \in Workers : w.owes = "nothing" /\ worker' = [worker EXCEPT ![slot[t]] = w]
  BY <1>3
<1>5. Moves(t, "releasing", sent[t], w)
  BY <1>1, <1>2, <1>4 DEF Moves, Discard, HoldingPCs, TicketPCs
<1>6. Counted'
  BY <1>1, CountKept DEF IInv, Discard, TicketPCs
<1>7. QED
  BY <1>5, <1>6, HolderMoves DEF IInv, TypeOK, Discard

LEMMA ReleaseInv ==
    ASSUME IInv, NEW t \in Threads, Release(t)
    PROVE  IInv'
<1>1. pc[t] = "releasing" /\ pc' = [pc EXCEPT ![t] = "putting"]
  BY DEF Release, Goto
<1>2. Moves(t, "putting", sent[t], worker[slot[t]])
  BY <1>1, HeldWorker DEF Moves, Release, HoldingPCs, ParsePCs, TicketPCs
<1>3. Counted' /\ tickets' \in Nat
  BY ReleaseCounted DEF IInv
<1>4. QED
  BY <1>2, <1>3, HolderMoves DEF IInv, TypeOK, Release

LEMMA UnexpectedInv ==
    ASSUME IInv, NEW t \in Threads, Unexpected(t)
    PROVE  IInv'
<1>1. PICK p \in {"putting", "releasing"} :
        pc' = [pc EXCEPT ![t] = p] /\ (pc[t] \in TicketPCs <=> p \in TicketPCs)
  BY DEF Unexpected, Goto, ParsePCs, TicketPCs
<1>2. pc[t] \in HoldingPCs /\ p \in HoldingPCs
  BY DEF Unexpected, HoldingPCs, ParsePCs, TicketPCs
<1>3. NoWorker \in Workers /\ NoWorker.owes = "nothing"
  BY DEF NoWorker, Workers
<1>4. Moves(t, p, sent[t], NoWorker)
  BY <1>1, <1>2, <1>3, HeldWorker DEF Moves, Unexpected
<1>5. Counted'
  BY <1>1, CountKept DEF IInv, Unexpected
<1>6. QED
  BY <1>4, <1>5, HolderMoves DEF IInv, TypeOK, Unexpected

-----------------------------------------------------------------------------
(***************************************************************************)
(* The steps that hand a slot over.                                        *)
(***************************************************************************)
\* A thread without a slot takes the first of the queue.
LEMMA TakesInv ==
    ASSUME IInv, NEW t \in Threads, pc[t] \in {"idle", "waiting"}, NEW p \in {"parsing", "issuing"},
           free # <<>>, slot' = [slot EXCEPT ![t] = Head(free)], free' = Tail(free),
           pc' = [pc EXCEPT ![t] = p], Counted', tickets' \in Nat,
           UNCHANGED <<sent, out, worker, faults>>
    PROVE  IInv'
<1>1. TypeOK /\ Placed /\ Quiet
  BY DEF IInv
<1>2. pc[t] \notin HoldingPCs /\ p \in HoldingPCs
  BY DEF HoldingPCs, ParsePCs, TicketPCs
<1>3. Placed'
  BY <1>1, <1>2, FromQueue
<1>4. /\ Head(free) \in Slots /\ Head(free) = free[1] /\ 1 \in DOMAIN free /\ free' \in Seq(Slots)
      /\ \A i \in DOMAIN free' : i + 1 \in DOMAIN free /\ free'[i] = free[i + 1]
  BY <1>1, HeadTail DEF TypeOK
<1>5. TypeOK'
  BY <1>1, <1>2, <1>4 DEF TypeOK, PCs
<1>6. Holders' = Holders \cup {t} /\ t \notin Holders
  BY <1>1, <1>2 DEF TypeOK, Holders
<1>7. \A u \in Holders : pc'[u] = pc[u] /\ slot'[u] = slot[u]
  BY <1>1, <1>6 DEF TypeOK, Holders
<1>8. slot'[t] = free[1]
  BY <1>1, <1>4 DEF TypeOK
<1>9. Quiet'
  <2>1. \A i \in DOMAIN free' : worker[free'[i]].owes = "nothing"
    BY <1>1, <1>4 DEF Quiet, Silent
  <2>2. worker[slot'[t]].owes = "nothing"
    BY <1>1, <1>4, <1>8 DEF Quiet, Silent
  <2>3. \A u \in Holders' :
          pc'[u] \in {"parsing", "issuing", "putting", "releasing"} \/ sent[u] # "pending"
            => worker[slot'[u]].owes = "nothing"
    BY <1>1, <1>6, <1>7, <2>2 DEF Quiet, Silent
  <2>4. QED
    BY <1>1, <2>1, <2>3 DEF Quiet, Silent
<1>10. QED
  BY <1>3, <1>5, <1>9 DEF IInv

LEMMA TakesSlotInv ==
    ASSUME IInv, NEW t \in Threads, TakesSlot(t)
    PROVE  IInv'
<1>1. pc[t] = "waiting" /\ pc' = [pc EXCEPT ![t] = "parsing"]
  BY DEF TakesSlot, Goto
<1>2. Counted'
  BY <1>1, CountKept DEF IInv, TakesSlot, TicketPCs
<1>3. QED
  BY <1>1, <1>2, TakesInv DEF IInv, TypeOK, TakesSlot

LEMMA TakeInv ==
    ASSUME IInv, NEW t \in Threads, Take(t)
    PROVE  IInv'
<1>1. Counted'
  BY TakeCounted DEF IInv
<1>2. tickets' \in Nat
  BY DEF IInv, TypeOK, Take
<1>3. QED
  BY <1>1, <1>2, TakesInv DEF Take, Goto

LEMMA PutInv ==
    ASSUME IInv, NEW t \in Threads, Put(t)
    PROVE  IInv'
<1>1. TypeOK /\ Placed /\ Quiet
  BY DEF IInv
<1>2. pc[t] = "putting" /\ pc' = [pc EXCEPT ![t] = "idle"] /\ t \in Holders
  BY DEF Put, Goto, Holders, HoldingPCs, ParsePCs
<1>3. slot[t] \in Slots /\ worker[slot[t]].owes = "nothing"
  BY <1>1, <1>2 DEF Placed, Quiet, Silent
<1>4. Placed'
  BY <1>1, ToQueue
<1>5. TypeOK'
  <2>1. free' \in Seq(Slots)
    BY <1>1, <1>3, Appended DEF TypeOK, Put
  <2>2. QED
    BY <1>1, <1>2, <2>1 DEF TypeOK, Put, PCs, Fates
<1>6. Holders' = Holders \ {t}
  BY <1>1, <1>2 DEF TypeOK, Holders, HoldingPCs, ParsePCs, TicketPCs
<1>7. \A u \in Holders' : pc'[u] = pc[u] /\ slot'[u] = slot[u] /\ sent'[u] = sent[u]
  BY <1>1, <1>2, <1>6 DEF TypeOK, Put, Holders
<1>8. Quiet'
  <2>1. \A i \in DOMAIN free' : worker[free'[i]].owes = "nothing"
    <3>1. /\ \A i \in DOMAIN free : free'[i] = free[i]
          /\ \E n \in DOMAIN free' : free'[n] = slot[t] /\ \A i \in DOMAIN free' : i # n => i \in DOMAIN free
      BY <1>1, <1>3, Appended DEF TypeOK, Put
    <3>2. QED
      BY <1>1, <1>3, <3>1 DEF Quiet, Silent
  <2>2. \A u \in Holders' :
          pc'[u] \in {"parsing", "issuing", "putting", "releasing"} \/ sent'[u] # "pending"
            => worker[slot'[u]].owes = "nothing"
    BY <1>1, <1>6, <1>7 DEF Quiet, Silent
  <2>3. QED
    BY <1>1, <2>1, <2>2 DEF Quiet, Silent, Put
<1>9. Counted'
  BY <1>2, CountKept DEF IInv, Put, TicketPCs
<1>10. QED
  BY <1>4, <1>5, <1>8, <1>9 DEF IInv

LEMMA IssueInv ==
    ASSUME IInv, NEW t \in Threads, Issue(t)
    PROVE  IInv'
<1>1. TypeOK /\ Placed /\ Quiet
  BY DEF IInv
<1>2. pc[t] = "issuing" /\ pc' = [pc EXCEPT ![t] = "idle"] /\ t \in Holders
  BY DEF Issue, Goto, Holders, HoldingPCs, TicketPCs
<1>3. slot[t] \in Slots /\ AuditOf[t] \in Audits
  BY <1>1, <1>2, AuditOfAssumption DEF Placed
<1>4. PICK x \in Shipped(slot[t]) :
        /\ worker' = [worker EXCEPT ![slot[t]] = x[1]]
        /\ out' = out \cup {[slot |-> slot[t], audit |-> AuditOf[t], sent |-> x[2]]}
  BY DEF Issue
<1>5. x[1] \in Workers /\ x[2] \in Fates /\ (x[2] # "pending" => x[1].owes = "nothing")
  BY <1>1, <1>3, ShippedQuiet
<1>6. TypeOK'
  <2>1. [slot |-> slot[t], audit |-> AuditOf[t], sent |-> x[2]] \in Ticket
    BY <1>3, <1>5 DEF Ticket
  <2>2. out' \subseteq Ticket
    BY <1>1, <1>4, <2>1 DEF TypeOK
  <2>3. worker' \in [Slots -> Workers]
    BY <1>1, <1>4, <1>5 DEF TypeOK
  <2>4. QED
    BY <1>1, <1>2, <2>2, <2>3 DEF TypeOK, Issue, PCs
<1>7. Placed' /\ Counted'
  BY <1>1, ToTicket, IssueCounted DEF IInv
<1>8. \A s \in Slots : s # slot[t] => worker'[s] = worker[s]
  BY <1>1, <1>4 DEF TypeOK
<1>9. worker'[slot[t]] = x[1]
  BY <1>1, <1>3, <1>4 DEF TypeOK
<1>10. Quiet'
  <2>1. \A i \in DOMAIN free : worker'[free[i]].owes = "nothing"
    <3>1. \A i \in DOMAIN free : free[i] \in Slots /\ free[i] # slot[t]
      BY <1>1, <1>2, LenProperties DEF TypeOK, Placed
    <3>2. QED
      BY <1>1, <1>8, <3>1 DEF Quiet, Silent
  <2>2. \A u \in Holders' :
          pc'[u] \in {"parsing", "issuing", "putting", "releasing"} \/ sent[u] # "pending"
            => worker'[slot'[u]].owes = "nothing"
    <3>1. Holders' = Holders \ {t}
      BY <1>1, <1>2 DEF TypeOK, Holders, HoldingPCs, ParsePCs, TicketPCs
    <3>2. \A u \in Holders' :
            pc'[u] = pc[u] /\ slot'[u] = slot[u] /\ slot[u] \in Slots /\ slot[u] # slot[t]
      BY <1>1, <1>2, <3>1 DEF TypeOK, Issue, Holders, Placed
    <3>3. QED
      BY <1>1, <1>8, <3>1, <3>2 DEF Quiet, Silent
  <2>3. \A k \in out' : k.sent # "pending" => worker'[k.slot].owes = "nothing"
    <3>1. \A k \in out : k.slot \in Slots /\ k.slot # slot[t]
      BY <1>1, <1>2 DEF TypeOK, Ticket, Placed
    <3>2. \A k \in out : k.sent # "pending" => worker'[k.slot].owes = "nothing"
      BY <1>1, <1>8, <3>1 DEF Quiet, Silent
    <3>3. QED
      BY <1>4, <1>5, <1>9, <3>2
  <2>4. QED
    BY <2>1, <2>2, <2>3 DEF Quiet, Silent, Issue
<1>11. QED
  BY <1>6, <1>7, <1>10 DEF IInv

LEMMA TakeBackInv ==
    ASSUME IInv, NEW t \in Threads, NEW k \in out, NEW p \in {"collecting", "discarding"},
           TakeBack(t, k, p)
    PROVE  IInv'
<1>1. TypeOK /\ Placed /\ Quiet
  BY DEF IInv
<1>2. k.slot \in Slots /\ k.sent \in Fates
  BY <1>1 DEF TypeOK, Ticket
<1>3. pc' = [pc EXCEPT ![t] = p] /\ p \in HoldingPCs /\ p \in PCs
  BY DEF TakeBack, Goto, HoldingPCs, TicketPCs, PCs
<1>4. TypeOK'
  BY <1>1, <1>2, <1>3 DEF TypeOK, TakeBack
<1>5. Placed' /\ Counted'
  BY <1>1, FromTicket, TakeBackCounted DEF IInv
<1>6. Holders' = Holders \cup {t} /\ t \notin Holders
  BY <1>1, <1>3 DEF TypeOK, TakeBack, Holders, HoldingPCs, ParsePCs, TicketPCs
<1>7. \A u \in Holders : pc'[u] = pc[u] /\ slot'[u] = slot[u] /\ sent'[u] = sent[u]
  BY <1>1, <1>3, <1>6 DEF TypeOK, TakeBack, Holders
<1>8. pc'[t] = p /\ slot'[t] = k.slot /\ sent'[t] = k.sent
  BY <1>1, <1>3 DEF TypeOK, TakeBack
<1>9. Quiet'
  <2>1. \A u \in Holders' :
          pc'[u] \in {"parsing", "issuing", "putting", "releasing"} \/ sent'[u] # "pending"
            => worker[slot'[u]].owes = "nothing"
    BY <1>1, <1>6, <1>7, <1>8 DEF Quiet, Silent
  <2>2. QED
    BY <1>1, <2>1 DEF Quiet, Silent, TakeBack
<1>10. QED
  BY <1>4, <1>5, <1>9 DEF IInv

-----------------------------------------------------------------------------
LEMMA ParseInv ==
    ASSUME IInv, NEW t \in Threads, Parse(t)
    PROVE  IInv'
<1>1. pc[t] = "idle" /\ pc' = [pc EXCEPT ![t] = "waiting"]
  BY DEF Parse, Goto
<1>2. Stays(t, "waiting") /\ Holders' = Holders
  BY <1>1 DEF IInv, TypeOK, Stays, Parse, Holders, HoldingPCs, ParsePCs, TicketPCs
<1>3. Placed'
  BY <1>2, SlotsKept DEF IInv
<1>4. Counted'
  BY <1>1, CountKept DEF IInv, Parse, TicketPCs
<1>5. TypeOK'
  BY <1>1 DEF IInv, TypeOK, Parse, PCs
<1>6. \A u \in Holders : pc'[u] = pc[u]
  BY <1>1 DEF IInv, TypeOK, Holders, HoldingPCs, ParsePCs, TicketPCs
<1>7. Quiet'
  BY <1>2, <1>6 DEF IInv, Quiet, Silent, Parse
<1>8. QED
  BY <1>3, <1>4, <1>5, <1>7 DEF IInv

\* Nothing but the workers or the breakers change, and no pipe that owed nothing.
LEMMA OthersInv ==
    ASSUME IInv, UNCHANGED <<pc, slot, sent, free, tickets, out>>,
           worker' \in [Slots -> Workers], faults' \in [Audits -> Nat],
           \A s \in Slots : worker[s].owes = "nothing" => worker'[s].owes = "nothing"
    PROVE  IInv'
<1>1. TypeOK'
  BY DEF IInv, TypeOK
<1>2. Holders' = Holders /\ Ticketing' = Ticketing
  BY DEF Holders, Ticketing
<1>3. Placed' /\ Counted'
  BY <1>2 DEF IInv, Placed, Owned, Counted, TicketsExact
<1>4. /\ \A i \in DOMAIN free : free[i] \in Slots
      /\ \A t \in Holders : slot[t] \in Slots
      /\ \A k \in out : k.slot \in Slots
  BY LenProperties DEF IInv, TypeOK, Placed, Ticket
<1>5. Quiet'
  BY <1>2, <1>4 DEF IInv, Quiet, Silent
<1>6. QED
  BY <1>1, <1>3, <1>5 DEF IInv

LEMMA WorkersInv ==
    ASSUME IInv, NEW s \in Slots, WorkerReplies(s) \/ WorkerDies(s)
    PROVE  IInv'
<1>1. worker[s] \in Workers
  BY DEF IInv, TypeOK
<1>2. CASE WorkerReplies(s)
  <2>1. worker' = [worker EXCEPT ![s] = [worker[s] EXCEPT !.owes = "ready"]]
    BY <1>2 DEF WorkerReplies
  <2>2. [worker[s] EXCEPT !.owes = "ready"] \in Workers /\ worker[s].owes # "nothing"
    BY <1>1, <1>2 DEF WorkerReplies, Workers
  <2>3. QED
    BY <1>2, <2>1, <2>2, OthersInv DEF IInv, TypeOK, WorkerReplies
<1>3. CASE WorkerDies(s)
  <2>1. PICK how \in {"crashed", "xcpu"} : worker' = [worker EXCEPT ![s] = [worker[s] EXCEPT !.up = how]]
    BY <1>3 DEF WorkerDies
  <2>2. [worker[s] EXCEPT !.up = how] \in Workers /\ [worker[s] EXCEPT !.up = how].owes = worker[s].owes
    BY <1>1 DEF Workers
  <2>3. QED
    BY <1>3, <2>1, <2>2, OthersInv DEF IInv, TypeOK, WorkerDies
<1>4. QED
  BY <1>2, <1>3

LEMMA EnterInv ==
    ASSUME IInv, NEW a \in Audits, Enter(a)
    PROVE  IInv'
<1>1. faults' \in [Audits -> Nat]
  BY DEF IInv, TypeOK, Enter
<1>2. QED
  BY <1>1, OthersInv DEF IInv, TypeOK, Enter

LEMMA StutterInv ==
    ASSUME IInv, UNCHANGED vars
    PROVE  IInv'
BY OthersInv DEF IInv, TypeOK, vars

-----------------------------------------------------------------------------
LEMMA InitInv == Init => IInv
<1> SUFFICES ASSUME Init PROVE IInv
  OBVIOUS
<1>1. Holders = {} /\ Ticketing = {}
  BY DEF Init, Holders, Ticketing, HoldingPCs, ParsePCs, TicketPCs
<1>2. free \in Seq(Slots) /\ DOMAIN free = Slots /\ \A i \in Slots : free[i] = i
  BY SizeAssumption, IsASeq DEF Init, Slots
<1>3. NoWorker \in Workers
  BY DEF NoWorker, Workers
<1>4. TypeOK
  BY <1>2, <1>3 DEF Init, TypeOK, PCs, Fates
<1>5. Placed
  BY <1>1, <1>2 DEF Init, Placed, Owned
<1>6. Counted
  BY <1>1, FS_EmptySet, SizeAssumption, ReserveAssumption DEF Init, Counted, TicketsExact
<1>7. Quiet
  BY <1>1, <1>2 DEF Init, Quiet, Silent, NoWorker
<1>8. QED
  BY <1>4, <1>5, <1>6, <1>7 DEF IInv

LEMMA StepInv == IInv /\ [Next]_vars => IInv'
<1> SUFFICES ASSUME IInv, [Next]_vars PROVE IInv'
  OBVIOUS
<1>1. CASE \E t \in Threads : Parse(t) \/ TakesSlot(t) \/ Take(t)
  BY <1>1, ParseInv, TakesSlotInv, TakeInv
<1>2. ASSUME NEW t \in Threads, Works(t) PROVE IInv'
  <2>1. CASE ParseReads(t)
    <3>1. Answered(t, "putting") /\ pc[t] \in HoldingPCs /\ pc[t] \notin TicketPCs /\ "putting" \notin TicketPCs
      BY <2>1 DEF ParseReads, HoldingPCs, ParsePCs, TicketPCs
    <3>2. QED
      BY <3>1, AnsweredInv
  <2>2. CASE CollectReads(t)
    <3>1. Answered(t, "releasing") /\ pc[t] \in HoldingPCs /\ pc[t] \in TicketPCs /\ "releasing" \in TicketPCs
      BY <2>2 DEF CollectReads, HoldingPCs, TicketPCs
    <3>2. QED
      BY <3>1, AnsweredInv
  <2>3. CASE ParseRefused(t) \/ ParseSends(t) \/ Put(t) \/ Issue(t)
    BY <2>3, ParseRefusedInv, ParseSendsInv, PutInv, IssueInv
  <2>4. CASE Collect(t) \/ Discard(t) \/ Release(t) \/ Unexpected(t)
    BY <2>4, CollectInv, DiscardInv, ReleaseInv, UnexpectedInv
  <2>5. QED
    BY <1>2, <2>1, <2>2, <2>3, <2>4 DEF Works
<1>3. CASE \E t \in Threads, k \in out, p \in {"collecting", "discarding"} : TakeBack(t, k, p)
  BY <1>3, TakeBackInv
<1>4. CASE \E s \in Slots : WorkerReplies(s) \/ WorkerDies(s)
  BY <1>4, WorkersInv
<1>5. CASE \E a \in Audits : Enter(a)
  BY <1>5, EnterInv
<1>6. CASE UNCHANGED vars
  BY <1>6, StutterInv
<1>7. QED
  BY <1>1, <1>2, <1>3, <1>4, <1>5, <1>6 DEF Next

LEMMA PlacedIsConserved == TypeOK /\ Placed => SlotsConserved
<1> SUFFICES ASSUME TypeOK, Placed PROVE SlotsConserved
  OBVIOUS
<1>1. FreeSlots \subseteq Slots /\ HeldSlots \subseteq Slots /\ TicketSlots \subseteq Slots
  BY LenProperties DEF TypeOK, Placed, Ticket, FreeSlots, HeldSlots, TicketSlots
<1>2. Slots \subseteq FreeSlots \cup HeldSlots \cup TicketSlots
  BY DEF Placed, Owned, FreeSlots, HeldSlots, TicketSlots
<1>3. FreeSlots \cap HeldSlots = {} /\ FreeSlots \cap TicketSlots = {} /\ HeldSlots \cap TicketSlots = {}
  BY DEF Placed, FreeSlots, HeldSlots, TicketSlots
<1>4. QED
  BY <1>1, <1>2, <1>3 DEF Placed, SlotsConserved

LEMMA Invariant == Spec => []IInv
BY InitInv, StepInv, PTL DEF Spec

\* The state keeps its type: slots in the queue are slots of the pool, the
\* count of tickets is never negative.
THEOREM TypeCorrect == Spec => []TypeOK
<1>1. IInv => TypeOK
  BY DEF IInv
<1>2. QED
  BY <1>1, Invariant, PTL

\* No slot is lost or freed twice, and the tickets are counted exactly within
\* the reserve, by any number of threads on any number of slots, whatever the
\* workers do and whichever operation raises (pool.py).
THEOREM SlotsAlwaysExact == Spec => []SlotsExact
<1>1. IInv => SlotsExact
  BY PlacedIsConserved DEF IInv, Counted, SlotsExact
<1>2. QED
  BY <1>1, Invariant, PTL

\* No worker that can be taken owes a reply to somebody else's request
\* (_settle, discard, _retire).
THEOREM RepliesNeverMixed == Spec => []QuietWhenFree
<1>1. IInv => QuietWhenFree
  BY DEF IInv, Quiet, Silent, QuietWhenFree, FreeSlots
<1>2. QED
  BY <1>1, Invariant, PTL

-----------------------------------------------------------------------------
(***************************************************************************)
(* The promise of the pool as a whole.  Slots in the queue, slots in the   *)
(* hands of an operation on a ticket and slots of tickets are different    *)
(* slots, so their numbers fit into the pool (Room); each step is then a   *)
(* step of SlotPool or none.                                               *)
(***************************************************************************)
LEMMA ImageCount ==
    ASSUME NEW S, IsFiniteSet(S), NEW f, NEW T, T = {f[x] : x \in S}
    PROVE  /\ IsFiniteSet(T) /\ Cardinality(T) \in Nat /\ Cardinality(T) <= Cardinality(S)
           /\ (\A x, y \in S : f[x] = f[y] => x = y) => Cardinality(T) = Cardinality(S)
<1> DEFINE g == [x \in S |-> f[x]]
<1>1. g \in Surjection(S, T)
  BY DEF Surjection
<1>2. (\A x, y \in S : f[x] = f[y] => x = y) => g \in Injection(S, T)
  BY DEF Injection, IsInjective
<1>3. QED
  BY <1>1, <1>2, FS_Surjection, FS_CardinalityType

LEMMA UnionCount ==
    ASSUME NEW S, NEW T, IsFiniteSet(S), IsFiniteSet(T)
    PROVE  /\ IsFiniteSet(S \cup T) /\ Cardinality(S \cup T) <= Cardinality(S) + Cardinality(T)
           /\ S \cap T = {} => Cardinality(S \cup T) = Cardinality(S) + Cardinality(T)
<1>1. Cardinality(S) \in Nat /\ Cardinality(T) \in Nat /\ IsFiniteSet(S \cap T)
  BY FS_CardinalityType, FS_Intersection
<1>2. Cardinality(S \cap T) \in Nat /\ (S \cap T = {} => Cardinality(S \cap T) = 0)
  BY <1>1, FS_CardinalityType, FS_EmptySet
<1>3. IsFiniteSet(S \cup T) /\ Cardinality(S \cup T) = Cardinality(S) + Cardinality(T) - Cardinality(S \cap T)
  BY FS_Union
<1>4. QED
  BY <1>1, <1>2, <1>3

\* The slots of operations on tickets.
LentSlots == {slot[t] : t \in Ticketing}

LEMMA PlaceCounts ==
    ASSUME TypeOK, Placed, Counted
    PROVE  /\ IsFiniteSet(FreeSlots) /\ Cardinality(FreeSlots) = Len(free) /\ Len(free) \in Nat
           /\ IsFiniteSet(TicketSlots) /\ Cardinality(TicketSlots) = Cardinality(out)
           /\ IsFiniteSet(LentSlots) /\ Cardinality(LentSlots) = Cardinality(Ticketing)
           /\ IsFiniteSet(Slots) /\ Cardinality(Slots) = Size
           /\ Cardinality(out) \in Nat /\ Cardinality(Ticketing) \in Nat
<1>1. Len(free) \in Nat /\ DOMAIN free = 1..Len(free)
  BY LenProperties DEF TypeOK
<1>2. IsFiniteSet(DOMAIN free) /\ Cardinality(DOMAIN free) = Len(free)
  <2>1. IsFiniteSet(1..Len(free)) /\ Cardinality(1..Len(free)) = IF 1 > Len(free) THEN 0 ELSE Len(free) - 1 + 1
    BY <1>1, FS_Interval
  <2>2. QED
    BY <1>1, <2>1
<1>3. IsFiniteSet(FreeSlots) /\ Cardinality(FreeSlots) = Len(free)
  BY <1>2, ImageCount DEF Placed, FreeSlots
<1>4. IsFiniteSet(Ticketing) /\ Cardinality(Ticketing) \in Nat
  BY ThreadsAssumption, FS_Subset, FS_CardinalityType DEF Ticketing
<1>5. Ticketing \subseteq Holders
  BY DEF Ticketing, Holders, HoldingPCs
<1>6. IsFiniteSet(LentSlots) /\ Cardinality(LentSlots) = Cardinality(Ticketing)
  BY <1>4, <1>5, ImageCount DEF Placed, LentSlots
<1>7. IsFiniteSet(TicketSlots) /\ Cardinality(TicketSlots) = Cardinality(out)
  <2> DEFINE place == [k \in out |-> k.slot]
  <2>1. TicketSlots = {place[k] : k \in out}
    BY DEF TicketSlots
  <2>2. \A k, l \in out : place[k] = place[l] => k = l
    BY DEF Placed
  <2>3. QED
    <3> HIDE DEF place
    <3>1. QED
      BY <2>1, <2>2, ImageCount DEF Counted
<1>8. IsFiniteSet(Slots) /\ Cardinality(Slots) = Size
  BY SizeAssumption, FS_Interval DEF Slots
<1>9. QED
  BY <1>1, <1>3, <1>4, <1>6, <1>7, <1>8, FS_CardinalityType DEF Counted

Fits == Len(free) + tickets <= Size

LEMMA Room ==
    ASSUME TypeOK, Placed, Counted
    PROVE  Fits
<1>1. Ticketing \subseteq Holders
  BY DEF Ticketing, Holders, HoldingPCs
<1>2. FreeSlots \subseteq Slots /\ TicketSlots \subseteq Slots /\ LentSlots \subseteq Slots
  BY <1>1, LenProperties DEF TypeOK, Placed, Ticket, FreeSlots, LentSlots, TicketSlots
<1>3. FreeSlots \cap TicketSlots = {} /\ (FreeSlots \cup TicketSlots) \cap LentSlots = {}
  BY <1>1 DEF Placed, FreeSlots, LentSlots, TicketSlots
<1>4. /\ IsFiniteSet(FreeSlots \cup TicketSlots)
      /\ Cardinality(FreeSlots \cup TicketSlots) = Len(free) + Cardinality(out)
  BY <1>3, PlaceCounts, UnionCount
<1>5. Cardinality((FreeSlots \cup TicketSlots) \cup LentSlots)
        = Len(free) + Cardinality(out) + Cardinality(Ticketing)
  <2> DEFINE both == FreeSlots \cup TicketSlots
  <2>1. IsFiniteSet(both) /\ Cardinality(both) = Len(free) + Cardinality(out) /\ both \cap LentSlots = {}
    BY <1>3, <1>4
  <2>2. IsFiniteSet(LentSlots) /\ Cardinality(LentSlots) = Cardinality(Ticketing)
    BY PlaceCounts
  <2>3. Cardinality(both \cup LentSlots) = Cardinality(both) + Cardinality(LentSlots)
    <3> HIDE DEF both
    <3>1. QED
      BY <2>1, <2>2, UnionCount
  <2>4. QED
    BY <2>1, <2>2, <2>3
<1>6. Cardinality((FreeSlots \cup TicketSlots) \cup LentSlots) <= Size
  BY <1>2, PlaceCounts, FS_Subset
<1>7. QED
  BY <1>5, <1>6, PlaceCounts DEF Counted, TicketsExact, TypeOK, Fits

\* No request waits while only tickets hold the slots: the reserve is never
\* theirs, for any number of slots and any reserve (WorkerPool's docstring).
THEOREM RequestsFindRoom == Spec => []RoomForRequests
<1>1. IInv => RoomForRequests
  <2> SUFFICES ASSUME IInv, free = <<>>, \A t \in Threads : pc[t] \notin ParsePCs PROVE FALSE
    BY DEF RoomForRequests
  <2>1. TypeOK /\ Placed /\ Counted
    BY DEF IInv
  <2>2. Holders = Ticketing /\ DOMAIN free = {}
    BY DEF Holders, Ticketing, HoldingPCs
  <2>3. Slots \subseteq TicketSlots \cup LentSlots
    BY <2>1, <2>2 DEF Placed, Owned, TicketSlots, LentSlots
  <2>4. IsFiniteSet(TicketSlots \cup LentSlots) /\ Cardinality(TicketSlots \cup LentSlots) <= tickets
    <3>1. Cardinality(TicketSlots \cup LentSlots) <= Cardinality(out) + Cardinality(Ticketing)
      BY <2>1, PlaceCounts, UnionCount
    <3>2. QED
      BY <2>1, <3>1, PlaceCounts, UnionCount DEF Counted, TicketsExact
  <2>5. Size <= tickets
    <3>1. Cardinality(Slots) <= Cardinality(TicketSlots \cup LentSlots)
      BY <2>3, <2>4, FS_Subset
    <3>2. QED
      BY <2>1, <2>4, <3>1, PlaceCounts, SizeAssumption, FS_CardinalityType DEF TypeOK
  <2>6. QED
    BY <2>1, <2>5, SizeAssumption, ReserveAssumption DEF Counted, TicketsExact, TypeOK
<1>2. QED
  BY <1>1, Invariant, PTL

\* No slot is lost, doubled or handed on with a reply outstanding, and tickets
\* leave room for the requests that wait, however operations end (pool.py).
THEOREM SlotsAlwaysSound == Spec => []SlotsSound
<1>1. SlotsExact /\ QuietWhenFree /\ RoomForRequests => SlotsSound
  BY DEF SlotsSound
<1>2. QED
  BY <1>1, SlotsAlwaysExact, RepliesNeverMixed, RequestsFindRoom, PTL

\* A step that leaves the queue and the tickets alone is no step of the pool.
LEMMA PoolRests ==
    ASSUME UNCHANGED <<free, tickets>>
    PROVE  UNCHANGED Pool!vars
BY DEF Pool!vars

LEMMA PoolServes ==
    ASSUME IInv, NEW t \in Threads, TakesSlot(t)
    PROVE  Pool!Serve
<1>1. Len(free) \in Nat /\ Len(free) # 0 /\ Len(free') = Len(free) - 1
  BY EmptySeq, LenProperties, HeadTailProperties DEF IInv, TypeOK, TakesSlot
<1>2. tickets' = tickets /\ tickets \in Nat
  BY DEF IInv, TypeOK, TakesSlot
<1>3. QED
  BY <1>1, <1>2, SizeAssumption DEF Pool!Serve, Pool!Free

LEMMA PoolSends ==
    ASSUME IInv, NEW t \in Threads, Take(t)
    PROVE  Pool!SendAhead
<1>1. Len(free) \in Nat /\ Len(free) # 0 /\ Len(free') = Len(free) - 1
  BY EmptySeq, LenProperties, HeadTailProperties DEF IInv, TypeOK, Take
<1>2. tickets' = tickets + 1 /\ tickets \in Nat /\ tickets < Size - Reserve
  BY SizeAssumption, ReserveAssumption DEF IInv, TypeOK, Take, CountedOut
<1>3. QED
  BY <1>1, <1>2, SizeAssumption DEF Pool!SendAhead, Pool!Free

\* What is put back was in use: the pool has no room for one slot more.
LEMMA PoolPutBack ==
    ASSUME IInv, Fits', NEW t \in Threads, Put(t)
    PROVE  Pool!PutBack
<1>1. Len(free) \in Nat /\ Len(free') = Len(free) + 1
  <2>1. slot[t] \in Slots
    BY DEF IInv, Placed, Put, Holders, HoldingPCs, ParsePCs
  <2>2. QED
    BY <2>1, LenProperties, AppendProperties DEF IInv, TypeOK, Put
<1>2. tickets' = tickets /\ tickets \in Nat
  BY DEF IInv, TypeOK, Put
<1>3. QED
  BY <1>1, <1>2, SizeAssumption DEF Fits, Pool!PutBack

\* A ticket that is counted in was counted out: the count stays a number.
LEMMA PoolEndsTicket ==
    ASSUME IInv, IInv', NEW t \in Threads, Release(t)
    PROVE  Pool!EndTicket
<1>1. free' = free /\ tickets' = tickets - 1 /\ tickets \in Nat /\ tickets' \in Nat
  BY DEF IInv, TypeOK, Release
<1>2. Len(free) \in Nat
  BY LenProperties DEF IInv, TypeOK
<1>3. tickets > 0 /\ Size - Len(free') - tickets' = Size - Len(free) - tickets + 1
  BY <1>1, <1>2, SizeAssumption
<1>4. QED
  BY <1>1, <1>3 DEF Pool!EndTicket

\* The queue of slots and the count of tickets, which no step changes
\* together except _spare, implement the pool that prefetching relies on, for
\* any number of threads, slots and audits and any reserve.
THEOREM PoolRefinement == Spec => ImplementsPool
<1>1. Init => Pool!Init
  <2> SUFFICES ASSUME Init PROVE Pool!Init
    OBVIOUS
  <2>1. free \in Seq(Slots) /\ DOMAIN free = 1..Size /\ tickets = 0
    BY SizeAssumption, IsASeq DEF Init, Slots
  <2>2. Len(free) = Size
    <3>1. Len(free) \in Nat /\ 1..Len(free) = 1..Size
      BY <2>1, LenProperties
    <3>2. Size \in 1..Len(free)
      BY <3>1, SizeAssumption
    <3>3. Len(free) \in 1..Size
      BY <3>1, <3>2, SizeAssumption
    <3>4. QED
      BY <3>1, <3>2, <3>3, SizeAssumption
  <2>3. QED
    BY <2>1, <2>2, SizeAssumption DEF Pool!Init
<1>2. IInv /\ IInv' /\ Fits' /\ [Next]_vars => [Pool!Next]_Pool!vars
  <2> SUFFICES ASSUME IInv, IInv', Fits', [Next]_vars PROVE Pool!Next \/ UNCHANGED Pool!vars
    OBVIOUS
  <2>1. ASSUME NEW t \in Threads, TakesSlot(t) \/ Take(t) \/ Put(t) \/ Release(t)
        PROVE  Pool!Next
    BY <2>1, PoolServes, PoolSends, PoolPutBack, PoolEndsTicket DEF Pool!Next
  <2>2. ASSUME NEW t \in Threads,
               \/ Parse(t) \/ ParseRefused(t) \/ ParseSends(t) \/ ParseReads(t) \/ Issue(t)
               \/ Collect(t) \/ CollectReads(t) \/ Discard(t) \/ Unexpected(t)
               \/ \E k \in out, p \in {"collecting", "discarding"} : TakeBack(t, k, p)
        PROVE  UNCHANGED Pool!vars
    <3>1. UNCHANGED <<free, tickets>>
      BY <2>2 DEF Parse, ParseRefused, ParseSends, ParseReads, Answered, Issue, Collect, CollectReads,
                  Discard, Unexpected, TakeBack
    <3>2. QED
      BY <3>1, PoolRests
  <2>3. CASE (\E s \in Slots : WorkerReplies(s) \/ WorkerDies(s)) \/ (\E a \in Audits : Enter(a))
             \/ UNCHANGED vars
    <3>1. UNCHANGED <<free, tickets>>
      BY <2>3 DEF WorkerReplies, WorkerDies, Enter, vars
    <3>2. QED
      BY <3>1, PoolRests
  <2>4. QED
    BY <2>1, <2>2, <2>3 DEF Next, Works
<1>3. IInv => Fits
  BY Room DEF IInv
<1>4. QED
  BY <1>1, <1>2, <1>3, Invariant, PTL DEF Spec, ImplementsPool, Pool!Spec

=============================================================================
