----------------------------- MODULE Broadcaster -----------------------------
(***************************************************************************)
(* One audit run's fan-out: src/backend/internal/handler/broadcaster.go    *)
(* and its only reader, StreamHandler.attachToRun (stream_handler.go).     *)
(*                                                                         *)
(* The run's reducer is the single producer; it calls Send for every event *)
(* and, once the results are persisted, Close.  Each stream request        *)
(* subscribes, drains its own buffered channel and unsubscribes.  Every    *)
(* operation of the broadcaster runs under b.mu and is one atomic action;  *)
(* a client takes a frame from its channel outside that lock.              *)
(***************************************************************************)
EXTENDS Naturals, Sequences, Functions

CONSTANTS
    Subs,        \* subscriptions, one per attachToRun call
    MaxHistory,  \* b.maxHistory, the replay buffer's cap in frames
    MaxBytes,    \* b.maxBytes, its cap in bytes
    EvictBatch,  \* b.evictBatch, an eighth of MaxHistory and at least one
    BufSize,     \* live headroom of a subscription (defaultSubscriberBuffer)
    Sizes,       \* encoded sizes a frame may have
    MaxFrames    \* bound: how many events the run emits

ASSUME MaxHistoryAssumption == MaxHistory \in Nat \ {0}
ASSUME MaxBytesAssumption == MaxBytes \in Nat
ASSUME EvictBatchAssumption == EvictBatch \in 1..MaxHistory
ASSUME BufSizeAssumption == BufSize \in Nat \ {0}
ASSUME SizesAssumption == Sizes \subseteq Nat
ASSUME MaxFramesAssumption == MaxFrames \in Nat

VARIABLES
    history,       \* b.history
    historyBytes,  \* b.historyBytes
    truncated,     \* b.truncated
    closed,        \* b.closed
    registered,    \* b.subs
    chan,          \* sub.ch, the frames buffered in each subscription
    capacity,      \* cap(sub.ch)
    chClosed,      \* subscriptions whose channel is closed
    lagged,        \* sub.lagged
    client,        \* where each subscription's request is in attachToRun
    view,          \* the frames each client has been written, in order
    sent           \* number of events the run has emitted

runVars == <<history, historyBytes, truncated, closed, sent>>
subVars == <<registered, chan, capacity, chClosed, lagged>>
clientVars == <<client, view>>
vars == <<runVars, subVars, clientVars>>

(***************************************************************************)
(* Frames.  The n-th event of the run, and the two frames the broadcaster  *)
(* makes itself: the truncation notice a late joiner gets first, and the   *)
(* RunError a dropped subscriber gets last.                                *)
(***************************************************************************)
Event(n, size) == [typ |-> "event", n |-> n, size |-> size]
Notice == [typ |-> "notice", n |-> 0, size |-> 0]
LagError == [typ |-> "lag", n |-> 0, size |-> 0]

Events == {Event(n, size) : n \in 1..MaxFrames, size \in Sizes}
Frames == Events \cup {Notice, LagError}

ClientStates == {"new", "reading", "eof", "left"}

\* HistoryBounded says what historyBytes is: the sum of the frames' sizes.
TypeOK ==
    /\ history \in Seq(Events)
    /\ truncated \in BOOLEAN
    /\ closed \in BOOLEAN
    /\ registered \subseteq Subs
    /\ chan \in [Subs -> Seq(Frames)]
    /\ capacity \in [Subs -> Nat]
    /\ chClosed \subseteq Subs
    /\ lagged \subseteq Subs
    /\ client \in [Subs -> ClientStates]
    /\ view \in [Subs -> Seq(Frames)]
    /\ sent \in 0..MaxFrames

Init ==
    /\ history = <<>> /\ historyBytes = 0 /\ truncated = FALSE
    /\ closed = FALSE
    /\ registered = {} /\ chClosed = {} /\ lagged = {}
    /\ chan = [s \in Subs |-> <<>>]
    /\ capacity = [s \in Subs |-> 0]
    /\ client = [s \in Subs |-> "new"]
    /\ view = [s \in Subs |-> <<>>]
    /\ sent = 0

-----------------------------------------------------------------------------
(***************************************************************************)
(* The replay buffer.  Past either cap it drops the fewest oldest frames   *)
(* that leave at least a batch of headroom in the count (EvictBatch, so    *)
(* that a full buffer is not copied on every event) and satisfy the byte   *)
(* cap.                                                                    *)
(***************************************************************************)
Bytes(frames) == SumFunction([i \in DOMAIN frames |-> frames[i].size])

\* Mutant of StillOver: eviction looks at the frame count alone.
StillOver_CountOnly(h, bytes, drop) == Len(h) - drop > MaxHistory - EvictBatch

StillOver(h, bytes, drop) ==
    \/ Len(h) - drop > MaxHistory - EvictBatch
    \/ bytes - Bytes(SubSeq(h, 1, drop)) > MaxBytes

\* Mutant of AppendHistory: evicts a batch without marking the run truncated.
AppendHistory_NotMarked(f) ==
    LET h == Append(history, f)
        drop == IF Len(h) > MaxHistory THEN EvictBatch + 1 ELSE 0
    IN  /\ history' = SubSeq(h, drop + 1, Len(h))
        /\ historyBytes' = historyBytes + f.size - Bytes(SubSeq(h, 1, drop))
        /\ UNCHANGED truncated

AppendHistory(f) ==
    LET h == Append(history, f)
        bytes == historyBytes + f.size
    IN  \/ /\ Len(h) <= MaxHistory /\ bytes <= MaxBytes
           /\ history' = h
           /\ historyBytes' = bytes
           /\ UNCHANGED truncated
        \/ /\ Len(h) > MaxHistory \/ bytes > MaxBytes
           /\ \E drop \in 1..Len(h) :
                /\ \A fewer \in 0..(drop - 1) : StillOver(h, bytes, fewer)
                /\ drop = Len(h) \/ ~StillOver(h, bytes, drop)
                /\ history' = SubSeq(h, drop + 1, Len(h))
                /\ historyBytes' = bytes - Bytes(SubSeq(h, 1, drop))
           /\ truncated' = TRUE

(***************************************************************************)
(* Delivery never blocks: the last slot of a channel is kept free, so a    *)
(* subscriber that is behind can be sent the RunError and dropped.         *)
(***************************************************************************)
\* Mutant of Lagging: no slot is held in reserve.
Lagging_NoReserve(s) == Len(chan[s]) >= capacity[s]

Lagging(s) == Len(chan[s]) + 1 >= capacity[s]

\* Mutant of Deliver: a full subscriber misses the frame and stays registered.
Deliver_Skip(f) ==
    /\ chan' = [s \in Subs |-> IF s \in registered /\ ~Lagging(s)
                               THEN Append(chan[s], f) ELSE chan[s]]
    /\ UNCHANGED <<registered, lagged, chClosed, capacity>>

\* Mutant of Deliver: a dropped subscriber's channel is closed without a word.
Deliver_SilentDrop(f) ==
    LET dropped == {s \in registered : Lagging(s)}
    IN  /\ registered' = registered \ dropped
        /\ lagged' = lagged \cup dropped
        /\ chClosed' = chClosed \cup dropped
        /\ chan' = [s \in Subs |-> IF s \in registered \ dropped
                                   THEN Append(chan[s], f) ELSE chan[s]]
        /\ UNCHANGED capacity

Deliver(f) ==
    LET dropped == {s \in registered : Lagging(s)}
    IN  /\ registered' = registered \ dropped
        /\ lagged' = lagged \cup dropped
        /\ chClosed' = chClosed \cup dropped
        /\ chan' = [s \in Subs |->
                      IF s \in dropped THEN Append(chan[s], LagError)
                      ELSE IF s \in registered THEN Append(chan[s], f)
                      ELSE chan[s]]
        /\ UNCHANGED capacity

Send ==
    /\ ~closed
    /\ sent < MaxFrames
    /\ \E size \in Sizes :
         LET f == Event(sent + 1, size)
         IN  AppendHistory(f) /\ Deliver(f)
    /\ sent' = sent + 1
    /\ UNCHANGED <<closed, clientVars>>

\* Mutant of Close: the run is marked over but its channels stay open.
Close_LeavesChannelsOpen ==
    /\ ~closed
    /\ closed' = TRUE
    /\ registered' = {}
    /\ UNCHANGED <<history, historyBytes, truncated, sent>>
    /\ UNCHANGED <<chan, capacity, chClosed, lagged, clientVars>>

Close ==
    /\ ~closed
    /\ closed' = TRUE
    /\ registered' = {}
    /\ chClosed' = chClosed \cup registered
    /\ UNCHANGED <<history, historyBytes, truncated, sent>>
    /\ UNCHANGED <<chan, capacity, lagged, clientVars>>

-----------------------------------------------------------------------------
(***************************************************************************)
(* One stream request.  Snapshot and registration are one step under b.mu. *)
(***************************************************************************)
\* Mutant of TruncationNotice: a late joiner is not told what it missed.
TruncationNotice_None == <<>>

TruncationNotice == IF truncated THEN <<Notice>> ELSE <<>>

Subscribe(s) ==
    /\ client[s] = "new"
    /\ LET primed == TruncationNotice \o history
       IN  /\ chan' = [chan EXCEPT ![s] = primed]
           /\ capacity' = [capacity EXCEPT ![s] = Len(primed) + BufSize]
    /\ IF closed
         THEN chClosed' = chClosed \cup {s} /\ UNCHANGED registered
         ELSE registered' = registered \cup {s} /\ UNCHANGED chClosed
    /\ client' = [client EXCEPT ![s] = "reading"]
    /\ UNCHANGED <<runVars, lagged, view>>

\* The select takes a frame and writes it to the response.
ReadFrame(s) ==
    /\ client[s] = "reading"
    /\ chan[s] # <<>>
    /\ view' = [view EXCEPT ![s] = Append(@, Head(chan[s]))]
    /\ chan' = [chan EXCEPT ![s] = Tail(@)]
    /\ UNCHANGED <<runVars, registered, capacity, chClosed, lagged, client>>

\* b.Unsubscribe: a no-op for a subscription already dropped or closed.
Unsubscribe(s) ==
    /\ registered' = registered \ {s}
    /\ chClosed' = IF s \in registered THEN chClosed \cup {s} ELSE chClosed

\* The channel is closed and drained: the client sees the body end.
ReadEOF(s) ==
    /\ client[s] = "reading"
    /\ chan[s] = <<>> /\ s \in chClosed
    /\ client' = [client EXCEPT ![s] = "eof"]
    /\ Unsubscribe(s)
    /\ UNCHANGED <<runVars, chan, capacity, lagged, view>>

\* The client hung up (ctx.Done) or a write to it failed.
HangUp(s) ==
    /\ client[s] = "reading"
    /\ client' = [client EXCEPT ![s] = "left"]
    /\ Unsubscribe(s)
    /\ UNCHANGED <<runVars, chan, capacity, lagged, view>>

Next ==
    \/ Send
    \/ Close
    \/ \E s \in Subs : Subscribe(s) \/ ReadFrame(s) \/ ReadEOF(s) \/ HangUp(s)

(***************************************************************************)
(* Fairness.  runAudit's deferred Release always closes the broadcaster,   *)
(* after a run every agent call of which has a deadline; a connected       *)
(* client's request goroutine keeps selecting on its channel.              *)
(***************************************************************************)
Fairness ==
    /\ WF_vars(Close)
    /\ \A s \in Subs : WF_vars(ReadFrame(s)) /\ WF_vars(ReadEOF(s))

Spec == Init /\ [][Next]_vars /\ Fairness

-----------------------------------------------------------------------------
(***************************************************************************)
(* Properties.                                                             *)
(***************************************************************************)

\* Everything handed to a client so far: written to it, or waiting for it.
Delivered(s) == view[s] \o chan[s]

\* g may come right after f in a client's stream.
Follows(f, g) ==
    \/ g.typ = "lag" /\ f.typ # "lag"
    \/ g.typ = "event" /\ f.typ = "event" /\ g.n = f.n + 1
    \/ g.typ = "event" /\ f.typ = "notice"

(***************************************************************************)
(* "no gap, no duplicate" (Subscribe): a client's stream is one run of     *)
(* consecutive events, after a notice if it does not begin with the run's  *)
(* first, with nothing after a lag error; a registered subscription has    *)
(* been handed the latest event.                                           *)
(***************************************************************************)
ViewIsExact ==
    \A s \in Subs : client[s] # "new" =>
        LET d == Delivered(s)
        IN  /\ \A i \in 1..(Len(d) - 1) : Follows(d[i], d[i + 1])
            /\ d # <<>> /\ d[1].typ = "event" => d[1].n = 1
            /\ s \in registered =>
                 IF d = <<>> THEN sent = 0
                 ELSE d[Len(d)].typ = "notice" \/ d[Len(d)].n = sent

(***************************************************************************)
(* EOF is unambiguous (deliverLocked, Close): a client whose stream ends   *)
(* either was told it lagged, or the run is over and it has been given the *)
(* run's last event.  The CLI takes a plain EOF for "results are ready".   *)
(* (A client whose whole replay was evicted by the byte cap, and that saw  *)
(* no later event, holds the notice instead.)                              *)
(***************************************************************************)
EofIsTruthful ==
    \A s \in Subs : client[s] = "eof" =>
        LET v == view[s]
        IN  \/ v # <<>> /\ v[Len(v)].typ = "lag"
            \/ closed /\ sent = 0
            \/ closed /\ v # <<>> /\ v[Len(v)].n = sent
            \/ closed /\ v = <<Notice>> /\ history = <<>>

\* What a client has been given is the run's stream, while it lasts and when it
\* ends: whole, or short and told so (Subscribe, deliverLocked, Close).
StreamIsExact == ViewIsExact /\ EofIsTruthful

(***************************************************************************)
(* Send never blocks and never panics while it holds b.mu: a registered    *)
(* subscription's channel is open and has the reserved slot free, and no   *)
(* channel is ever filled past its capacity.                               *)
(***************************************************************************)
SlotReserved ==
    /\ registered \cap chClosed = {}
    /\ \A s \in registered : Len(chan[s]) < capacity[s]
    /\ \A s \in Subs : Len(chan[s]) <= capacity[s]

(***************************************************************************)
(* The replay buffer is within both caps, its byte count is exact, and it  *)
(* is the run's latest events: whole unless `truncated` says otherwise.    *)
(***************************************************************************)
HistoryBounded ==
    /\ Len(history) <= MaxHistory
    /\ historyBytes <= MaxBytes
    /\ historyBytes = Bytes(history)
    /\ \A i \in 1..Len(history) : history[i].n = sent - Len(history) + i
    /\ truncated <=> Len(history) < sent

(***************************************************************************)
(* Every buffer of the broadcaster keeps to its limit and holds what its   *)
(* counters say, the reserved slot included.                               *)
(***************************************************************************)
BuffersBounded == SlotReserved /\ HistoryBounded

(***************************************************************************)
(* Every attached client is released: it gets EOF, unless it hangs up      *)
(* first.  "a broadcaster that never closed would hang every headless      *)
(* client" (Close).  A request is attached once, so in the end none is.    *)
(***************************************************************************)
EveryClientReleased == <>[](\A s \in Subs : client[s] # "reading")

(***************************************************************************)
(* The broadcaster implements the abstract feed.                           *)
(***************************************************************************)
\* The events of a client's stream: what is neither its notice nor its lag error.
EventNumbers(d) ==
    LET notice == IF d # <<>> /\ d[1].typ = "notice" THEN 1 ELSE 0
        lag == IF d # <<>> /\ d[Len(d)].typ = "lag" THEN 1 ELSE 0
    IN  [i \in 1..(Len(d) - notice - lag) |-> d[notice + i].n]

FeedStatus(s) ==
    IF client[s] = "new" THEN "absent"
    ELSE IF s \in registered THEN "live"
    ELSE IF \E i \in 1..Len(Delivered(s)) : Delivered(s)[i].typ = "lag" THEN "cut"
    ELSE IF closed /\ client[s] # "left" THEN "complete"
    ELSE "gone"

Feed == INSTANCE RunFeed WITH
    Clients <- Subs,
    published <- sent,
    over <- closed,
    feed <- [s \in Subs |-> EventNumbers(Delivered(s))],
    status <- [s \in Subs |-> FeedStatus(s)],
    told <- {s \in Subs : Delivered(s) # <<>> /\ Delivered(s)[1].typ = "notice"}

\* Every step of the broadcaster is a step of the promised feed, or none.
ImplementsFeed == Feed!Spec

=============================================================================
