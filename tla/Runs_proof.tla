----------------------------- MODULE Runs_proof -----------------------------
(***************************************************************************)
(* What is proved of a run's event stream and of the pipeline an audit may *)
(* be a stage of, for every value of the constants.                        *)
(*                                                                         *)
(* Broadcaster: its types, that a Send finds room in every channel it      *)
(* writes to, that every client's stream is exact, that a plain EOF means  *)
(* the stream was whole, that the buffers stay within their caps, and that *)
(* the broadcaster implements RunFeed.                                     *)
(*                                                                         *)
(* Pipeline (second part): its types, that its stages are the required     *)
(* ones, in order, run once, all completed before it is, and that a        *)
(* launched stage is not lost from a row that has not failed.              *)
(***************************************************************************)
EXTENDS Broadcaster, Pipeline, SumTheorems, SequenceTheorems, FiniteSetTheorems, TLAPS

(***************************************************************************)
(* The inductive invariant.  It speaks of a client's stream as a whole     *)
(* (written plus buffered), because no single channel or view says where   *)
(* the stream began or whether the frame that comes next continues it.     *)
(***************************************************************************)
HistoryIsRecent ==
    /\ Len(history) <= sent /\ Len(history) <= MaxHistory
    /\ \A i \in 1..Len(history) : history[i].n = sent - Len(history) + i
    /\ historyBytes = Bytes(history) /\ Bytes(history) <= MaxBytes
    /\ truncated <=> Len(history) < sent

\* d is consecutive, and begins with the first event or says it does not.
Exact(d) ==
    /\ \A i \in 1..(Len(d) - 1) : Follows(d[i], d[i + 1])
    /\ d # <<>> /\ d[1].typ = "event" => d[1].n = 1

\* d holds the latest event, or all there was to replay was evicted.
Current(d) ==
    \/ d = <<>> /\ sent = 0
    \/ d = <<Notice>> /\ history = <<>>
    \/ d # <<>> /\ d[Len(d)].typ = "event" /\ d[Len(d)].n = sent

Cut(d) == d # <<>> /\ d[Len(d)].typ = "lag"

Fresh(s) ==
    /\ view[s] = <<>> /\ chan[s] = <<>>
    /\ s \notin registered /\ s \notin chClosed

Attached(s) ==
    /\ client[s] = "reading" /\ ~closed
    /\ s \notin chClosed
    /\ Len(chan[s]) < capacity[s]
    /\ Current(Delivered(s))

Ended(s) ==
    /\ s \in chClosed
    /\ Cut(Delivered(s)) \/ (closed /\ Current(Delivered(s)))

SubInv(s) ==
    /\ client[s] = "new" => Fresh(s)
    /\ Exact(Delivered(s))
    /\ s \in registered => Attached(s)
    /\ client[s] \in {"reading", "eof"} /\ s \notin registered => Ended(s)
    /\ client[s] = "eof" => chan[s] = <<>>
    /\ Len(chan[s]) <= capacity[s]

IInv == TypeOK /\ HistoryIsRecent /\ \A s \in Subs : SubInv(s)

-----------------------------------------------------------------------------
(***************************************************************************)
(* Lemmas on frames and streams.                                           *)
(***************************************************************************)

\* What the three kinds of frame look like.
LEMMA FrameTypes ==
    /\ Events \subseteq Frames
    /\ Notice \in Frames /\ Notice.typ = "notice" /\ Notice.n = 0
    /\ LagError \in Frames /\ LagError.typ = "lag" /\ LagError.n = 0
    /\ \A f \in Events : f.typ = "event" /\ f.n \in 1..MaxFrames
    /\ \A f \in Frames : f.n \in Nat
    /\ \A n \in 1..MaxFrames, size \in Sizes : Event(n, size) \in Events
    /\ \A n, size : Event(n, size).typ = "event" /\ Event(n, size).n = n
BY MaxFramesAssumption DEF Events, Frames, Event, Notice, LagError

\* A frame put into the channel extends the client's stream by that frame.
LEMMA BufferExtends ==
    ASSUME NEW v \in Seq(Frames), NEW c \in Seq(Frames), NEW f \in Frames
    PROVE  v \o Append(c, f) = Append(v \o c, f)
<1>1. Append(c, f) = c \o <<f>> /\ Append(v \o c, f) = (v \o c) \o <<f>>
  BY AppendIsConcat, ConcatProperties
<1>2. <<f>> \in Seq(Frames)
  OBVIOUS
<1>. QED  BY <1>1, <1>2, ConcatAssociative

\* Writing a buffered frame to the client leaves its stream as it is.
LEMMA ReadPreserves ==
    ASSUME NEW v \in Seq(Frames), NEW c \in Seq(Frames), c # <<>>
    PROVE  Append(v, Head(c)) \o Tail(c) = v \o c
<1>1. Head(c) \in Frames /\ Tail(c) \in Seq(Frames) /\ <<Head(c)>> \in Seq(Frames)
  BY HeadTailProperties
<1>2. Append(v, Head(c)) = v \o <<Head(c)>>
  BY <1>1, AppendIsConcat
<1>3. c = <<Head(c)>> \o Tail(c)
  OBVIOUS
<1>. QED  BY <1>1, <1>2, <1>3, ConcatAssociative

\* A stream stays exact when the frame added to it continues it.
LEMMA ExactExtends ==
    ASSUME NEW d \in Seq(Frames), NEW f \in Frames, Exact(d),
           d = <<>> /\ f.typ = "event" => f.n = 1,
           d # <<>> => Follows(d[Len(d)], f)
    PROVE  Exact(Append(d, f))
<1>. DEFINE e == Append(d, f)
<1>1. /\ Len(d) \in Nat /\ Len(e) = Len(d) + 1
      /\ \A i \in 1..Len(d) : e[i] = d[i]
      /\ e[Len(d) + 1] = f
      /\ e # <<>>
  BY AppendProperties, LenProperties
<1>2. d # <<>> => Len(d) >= 1
  BY EmptySeq
<1>3. d = <<>> => Len(d) = 0
  OBVIOUS
<1>4. ASSUME NEW i \in 1..(Len(e) - 1) PROVE Follows(e[i], e[i + 1])
  <2>1. CASE i = Len(d)
    BY <2>1, <1>1, <1>2, <1>3
  <2>2. CASE i # Len(d)
    <3>1. i \in 1..(Len(d) - 1) /\ i + 1 \in 1..Len(d)
      BY <2>2, <1>1
    <3>. QED  BY <3>1, <1>1 DEF Exact
  <2>. QED  BY <2>1, <2>2
<1>5. e[1].typ = "event" => e[1].n = 1
  <2>1. CASE d = <<>>
    BY <2>1, <1>1, <1>3
  <2>2. CASE d # <<>>
    BY <2>2, <1>1, <1>2 DEF Exact
  <2>. QED  BY <2>1, <2>2
<1>. HIDE DEF e
<1>. QED  BY <1>4, <1>5 DEF Exact, e

-----------------------------------------------------------------------------
(***************************************************************************)
(* What each operation does to the run's replay buffer.                    *)
(***************************************************************************)

\* The bytes of a buffer, as a sum over its positions.
LEMMA BytesSum ==
    ASSUME NEW h \in Seq(Events)
    PROVE  LET w == [i \in 1..Len(h) |-> h[i].size]
           IN  /\ Bytes(h) = SumFunctionOnSet(w, 1..Len(h))
               /\ IsFiniteSet(1..Len(h)) /\ \A i \in 1..Len(h) : w[i] \in Nat
               /\ Bytes(h) \in Nat
<1>. DEFINE w == [i \in 1..Len(h) |-> h[i].size]
<1>1. Len(h) \in Nat /\ DOMAIN h = 1..Len(h)
  BY LenProperties
<1>2. IsFiniteSet(1..Len(h))
  BY <1>1, FS_Interval
<1>3. \A i \in 1..Len(h) : w[i] \in Nat
  <2>. SUFFICES ASSUME NEW i \in 1..Len(h) PROVE h[i].size \in Nat
    OBVIOUS
  <2>1. h[i] \in Events
    BY ElementOfSeq
  <2>. QED  BY <2>1, SizesAssumption DEF Events, Event
<1>4. DOMAIN w = 1..Len(h)
  OBVIOUS
<1>5. Bytes(h) = SumFunctionOnSet(w, DOMAIN w)
  BY <1>1, Zenon DEF Bytes, SumFunction
<1>. HIDE DEF w
<1>6. SumFunctionOnSet(w, 1..Len(h)) \in Nat
  BY <1>2, <1>3, SumType
<1>. QED  BY <1>2, <1>3, <1>4, <1>5, <1>6, Zenon DEF w

LEMMA BytesEmpty == Bytes(<<>>) = 0
<1>1. DOMAIN <<>> = {} /\ <<>> \in Seq(Events) /\ Len(<<>>) = 0 /\ 1..0 = {}
  BY EmptySeq
<1>. QED  BY <1>1, BytesSum, SumEmpty

\* A frame appended adds its size.
LEMMA BytesAppend ==
    ASSUME NEW h \in Seq(Events), NEW f \in Events
    PROVE  Bytes(Append(h, f)) = Bytes(h) + f.size
<1>. DEFINE k == Append(h, f)
            n == Len(h)
            v == [i \in 1..Len(k) |-> k[i].size]
            w == [i \in 1..Len(h) |-> h[i].size]
<1>1. /\ k \in Seq(Events) /\ n \in Nat /\ Len(k) = n + 1
      /\ \A i \in 1..n : k[i] = h[i]
      /\ k[n + 1] = f
  BY AppendProperties, LenProperties
<1>. HIDE DEF k
<1>2. /\ Bytes(k) = SumFunctionOnSet(v, 1..(n + 1))
      /\ IsFiniteSet(1..(n + 1)) /\ \A i \in 1..(n + 1) : v[i] \in Nat
  BY <1>1, BytesSum
<1>3. /\ Bytes(h) = SumFunctionOnSet(w, 1..n)
      /\ IsFiniteSet(1..n) /\ \A i \in 1..n : w[i] \in Nat
      /\ Bytes(h) \in Nat
  BY BytesSum
<1>4. /\ n + 1 \in 1..(n + 1) /\ (1..(n + 1)) \ {n + 1} = 1..n
      /\ v[n + 1] = f.size
      /\ \A i \in 1..n : v[i] = w[i]
  BY <1>1
<1>. HIDE DEF v, w
<1>5. SumFunctionOnSet(v, 1..(n + 1)) = v[n + 1] + SumFunctionOnSet(v, 1..n)
  BY <1>2, <1>4, SumRemove
<1>6. SumFunctionOnSet(v, 1..n) = SumFunctionOnSet(w, 1..n)
  BY <1>3, <1>4, SumSame
<1>7. v[n + 1] \in Nat
  BY <1>2, <1>4
<1>8. Bytes(k) = f.size + Bytes(h)
  BY <1>2, <1>3, <1>4, <1>5, <1>6
<1>. QED  BY <1>3, <1>4, <1>7, <1>8 DEF k

\* What is cut off the front and what is left share the bytes.
LEMMA BytesSplit ==
    ASSUME NEW h \in Seq(Events), NEW d \in 0..Len(h)
    PROVE  /\ SubSeq(h, 1, d) \in Seq(Events)
           /\ SubSeq(h, d + 1, Len(h)) \in Seq(Events)
           /\ Len(SubSeq(h, d + 1, Len(h))) = Len(h) - d
           /\ \A i \in 1..(Len(h) - d) : SubSeq(h, d + 1, Len(h))[i] = h[d + i]
           /\ Bytes(h) = Bytes(SubSeq(h, 1, d)) + Bytes(SubSeq(h, d + 1, Len(h)))
<1>. DEFINE n == Len(h)
            p == SubSeq(h, 1, d)
            q == SubSeq(h, d + 1, n)
            w == [i \in 1..n |-> h[i].size]
            v == [i \in 1..Len(p) |-> p[i].size]
            u == [i \in 1..Len(q) |-> q[i].size]
<1>1. n \in Nat /\ d \in Nat /\ d <= n /\ \A i \in 1..n : h[i] \in Events
  BY LenProperties, ElementOfSeq
<1>2. /\ p \in Seq(Events) /\ Len(p) = d
      /\ \A i \in 1..d : p[i] = h[i]
  <2>1. \A i \in 1..d : h[i] \in Events
    BY <1>1
  <2>2. /\ p \in Seq(Events)
        /\ Len(p) = IF 1 <= d THEN d - 1 + 1 ELSE 0
        /\ \A i \in 1..(d - 1 + 1) : p[i] = h[1 + i - 1]
    BY <2>1, <1>1, SubSeqProperties
  <2>. HIDE DEF p
  <2>. QED  BY <2>2, <1>1
<1>3. /\ q \in Seq(Events) /\ Len(q) = n - d
      /\ \A i \in 1..(n - d) : q[i] = h[d + i]
  <2>1. \A i \in (d + 1)..n : h[i] \in Events
    BY <1>1
  <2>2. /\ q \in Seq(Events)
        /\ Len(q) = IF d + 1 <= n THEN n - (d + 1) + 1 ELSE 0
        /\ \A i \in 1..(n - (d + 1) + 1) : q[i] = h[d + 1 + i - 1]
    BY <2>1, <1>1, SubSeqProperties
  <2>. HIDE DEF q
  <2>. QED  BY <2>2, <1>1
<1>. HIDE DEF p, q
<1>4. /\ Bytes(h) = SumFunctionOnSet(w, 1..n)
      /\ \A i \in 1..n : w[i] \in Nat
  BY BytesSum
<1>5. /\ Bytes(p) = SumFunctionOnSet(v, 1..d)
      /\ \A i \in 1..d : v[i] \in Nat
  BY <1>2, BytesSum
<1>6. /\ Bytes(q) = SumFunctionOnSet(u, 1..(n - d))
      /\ \A i \in 1..(n - d) : u[i] \in Nat
  BY <1>3, BytesSum
<1>7. /\ \A i \in 1..d : v[i] = w[i] /\ w[i] \in Nat
      /\ \A i \in 1..(n - d) : u[i] = w[d + i] /\ w[d + i] \in Nat
  BY <1>1, <1>2, <1>3, <1>4
<1>8. /\ IsFiniteSet(1..d) /\ IsFiniteSet((d + 1)..n) /\ IsFiniteSet(1..(n - d))
      /\ (1..d) \cap ((d + 1)..n) = {} /\ (1..d) \cup ((d + 1)..n) = 1..n
  <2>1. d + 1 \in Int /\ n \in Int /\ n - d \in Int /\ d \in Int /\ 1 \in Int
    BY <1>1
  <2>2. IsFiniteSet(1..d) /\ IsFiniteSet((d + 1)..n) /\ IsFiniteSet(1..(n - d))
    BY <2>1, FS_Interval
  <2>. QED  BY <2>2, <1>1
<1>. HIDE DEF w, v, u
<1>9. SumFunctionOnSet(w, 1..n) =
        SumFunctionOnSet(w, 1..d) + SumFunctionOnSet(w, (d + 1)..n)
  <2>1. \A x \in (1..d) \cup ((d + 1)..n) : w[x] \in Nat
    BY <1>4, <1>8
  <2>2. SumFunctionOnSet(w, (1..d) \cup ((d + 1)..n)) =
        SumFunctionOnSet(w, 1..d) + SumFunctionOnSet(w, (d + 1)..n)
    BY <2>1, <1>8, SumUnion
  <2>. QED  BY <2>2, <1>8
<1>10. SumFunctionOnSet(v, 1..d) = SumFunctionOnSet(w, 1..d)
  BY <1>7, <1>8, SumSame
<1>11. SumFunctionOnSet(u, 1..(n - d)) = SumFunctionOnSet(w, (d + 1)..n)
  <2>. DEFINE r == [i \in 1..(n - d) |-> d + i]
  <2>1. r \in Bijection(1..(n - d), (d + 1)..n)
    <3>1. \A j \in (d + 1)..n : j - d \in 1..(n - d) /\ r[j - d] = j
      BY <1>1
    <3>2. r \in [1..(n - d) -> (d + 1)..n]
      BY <1>1
    <3>3. \A i, j \in 1..(n - d) : r[i] = r[j] => i = j
      BY <1>1
    <3>. HIDE DEF r
    <3>4. r \in Injection(1..(n - d), (d + 1)..n)
      BY <3>2, <3>3, Fun_IsInj
    <3>5. r \in Surjection(1..(n - d), (d + 1)..n)
      BY <3>1, <3>2, Fun_IsSurj
    <3>. QED  BY <3>4, <3>5 DEF Bijection
  <2>2. \A i \in 1..(n - d) : u[i] = w[r[i]] /\ w[r[i]] \in Nat
    BY <1>7
  <2>. HIDE DEF r
  <2>. QED  BY <2>1, <2>2, <1>8, SumRename
<1>. QED  BY <1>1, <1>2, <1>3, <1>4, <1>5, <1>6, <1>9, <1>10, <1>11 DEF p, q

\* appendHistoryLocked keeps the latest events and the account of their bytes,
\* within both caps, whatever it evicts, and says when it has evicted any.
LEMMA AppendKeepsRecent ==
    ASSUME TypeOK, HistoryIsRecent, NEW size \in Sizes,
           sent < MaxFrames, sent' = sent + 1,
           AppendHistory(Event(sent + 1, size))
    PROVE  history' \in Seq(Events) /\ truncated' \in BOOLEAN /\ HistoryIsRecent'
<1>. DEFINE f == Event(sent + 1, size)
            h == Append(history, f)
            bytes == historyBytes + f.size
<1>1. f \in Events /\ f.n = sent + 1 /\ sent \in Nat
  BY FrameTypes, MaxFramesAssumption DEF TypeOK
<1>2. /\ h \in Seq(Events) /\ Len(h) = Len(history) + 1 /\ Len(history) \in Nat
      /\ \A i \in 1..Len(history) : h[i] = history[i]
      /\ h[Len(history) + 1] = f
  BY <1>1, AppendProperties, LenProperties DEF TypeOK
<1>3. \A i \in 1..Len(h) : h[i].n = sent' - Len(h) + i
  <2>. SUFFICES ASSUME NEW i \in 1..Len(h) PROVE h[i].n = sent' - Len(h) + i
    OBVIOUS
  <2>1. CASE i = Len(history) + 1
    BY <2>1, <1>1, <1>2
  <2>2. CASE i \in 1..Len(history)
    BY <2>2, <1>1, <1>2 DEF HistoryIsRecent
  <2>. QED  BY <2>1, <2>2, <1>2
<1>4. bytes = Bytes(h) /\ Bytes(h) \in Nat
  BY <1>1, <1>2, BytesAppend, BytesSum DEF TypeOK, HistoryIsRecent
<1>5. \/ /\ Len(h) <= MaxHistory /\ bytes <= MaxBytes
         /\ history' = h /\ historyBytes' = bytes /\ truncated' = truncated
      \/ \E drop \in 1..Len(h) :
           /\ drop = Len(h) \/ ~StillOver(h, bytes, drop)
           /\ history' = SubSeq(h, drop + 1, Len(h))
           /\ historyBytes' = bytes - Bytes(SubSeq(h, 1, drop))
           /\ truncated' = TRUE
  BY Zenon DEF AppendHistory
<1>. HIDE DEF h, f, bytes
<1>6. ASSUME Len(h) <= MaxHistory, bytes <= MaxBytes,
             history' = h, historyBytes' = bytes, truncated' = truncated
      PROVE  history' \in Seq(Events) /\ truncated' \in BOOLEAN /\ HistoryIsRecent'
  <2>1. history' \in Seq(Events) /\ truncated' \in BOOLEAN
    BY <1>2, <1>6 DEF TypeOK
  <2>2. Len(history') <= sent' /\ Len(history') <= MaxHistory
    BY <1>1, <1>2, <1>6 DEF HistoryIsRecent
  <2>3. \A i \in 1..Len(history') : history'[i].n = sent' - Len(history') + i
    BY <1>3, <1>6
  <2>4. truncated' <=> Len(history') < sent'
    BY <1>1, <1>2, <1>6 DEF HistoryIsRecent
  <2>5. historyBytes' = Bytes(history') /\ Bytes(history') <= MaxBytes
    BY <1>4, <1>6
  <2>. QED  BY <2>1, <2>2, <2>3, <2>4, <2>5 DEF HistoryIsRecent, Bytes
<1>7. ASSUME NEW drop \in 1..Len(h), drop = Len(h) \/ ~StillOver(h, bytes, drop),
             history' = SubSeq(h, drop + 1, Len(h)),
             historyBytes' = bytes - Bytes(SubSeq(h, 1, drop)), truncated' = TRUE
      PROVE  history' \in Seq(Events) /\ truncated' \in BOOLEAN /\ HistoryIsRecent'
  <2>1. drop \in 0..Len(h)
    BY <1>2
  <2>2. /\ SubSeq(h, 1, drop) \in Seq(Events)
        /\ history' \in Seq(Events)
        /\ Len(history') = Len(h) - drop
        /\ \A i \in 1..(Len(h) - drop) : history'[i] = h[drop + i]
        /\ Bytes(h) = Bytes(SubSeq(h, 1, drop)) + Bytes(history')
    BY <2>1, <1>2, <1>7, BytesSplit
  <2>3. Bytes(SubSeq(h, 1, drop)) \in Nat /\ Bytes(history') \in Nat
    BY <2>2, BytesSum
  <2>4. \A i \in 1..Len(history') : history'[i].n = sent' - Len(history') + i
    BY <2>2, <1>2, <1>3, <1>1
  <2>5. Len(history') <= sent' /\ (truncated' <=> Len(history') < sent')
        /\ truncated' \in BOOLEAN
    BY <2>2, <1>1, <1>2, <1>7 DEF HistoryIsRecent
  <2>6. historyBytes' = Bytes(history')
    <3>1. historyBytes' = Bytes(h) - Bytes(SubSeq(h, 1, drop))
      BY <1>4, <1>7, Zenon
    <3>2. \A a, b, c \in Nat : c = a + b => c - a = b
      OBVIOUS
    <3>. QED  BY <3>1, <3>2, <2>2, <2>3, <1>4, Zenon
  <2>7. Len(history') <= MaxHistory /\ Bytes(history') <= MaxBytes
    <3>1. CASE drop = Len(h)
      <4>1. Len(history') = 0 /\ history' = <<>>
        BY <3>1, <2>2, <1>2, EmptySeq
      <4>. QED  BY <4>1, BytesEmpty, MaxHistoryAssumption, MaxBytesAssumption
    <3>2. CASE ~StillOver(h, bytes, drop)
      <4>1. ~(Len(h) - drop > MaxHistory - EvictBatch)
            /\ ~(bytes - Bytes(SubSeq(h, 1, drop)) > MaxBytes)
        BY <3>2, Zenon DEF StillOver
      <4>. QED  BY <4>1, <2>2, <2>3, <1>2, <1>4, MaxHistoryAssumption,
                   MaxBytesAssumption, EvictBatchAssumption
    <3>. QED  BY <3>1, <3>2, <1>7
  <2>. QED  BY <2>2, <2>4, <2>5, <2>6, <2>7 DEF HistoryIsRecent, Bytes
<1>. QED  BY <1>5, <1>6, <1>7

-----------------------------------------------------------------------------
(***************************************************************************)
(* Steps.  What happens to one subscription's stream under each operation. *)
(***************************************************************************)

\* The types the stream of a subscription is built from.
LEMMA StreamTypes ==
    ASSUME TypeOK, NEW s \in Subs
    PROVE  /\ view[s] \in Seq(Frames) /\ chan[s] \in Seq(Frames)
           /\ Delivered(s) \in Seq(Frames)
           /\ Len(chan[s]) \in Nat /\ capacity[s] \in Nat
           /\ Delivered(s) = <<>> <=> view[s] = <<>> /\ chan[s] = <<>>
           /\ Delivered(s) # <<>> => Delivered(s)[Len(Delivered(s))] \in Frames
BY ConcatProperties, ConcatEqualIffEmpty, LenProperties, EmptySeq, ElementOfSeq
   DEF TypeOK, Delivered

\* The next event continues a current stream.
LEMMA CurrentAcceptsNext ==
    ASSUME TypeOK, HistoryIsRecent, NEW s \in Subs, SubInv(s), s \in registered,
           NEW size \in Sizes, sent < MaxFrames
    PROVE  LET f == Event(sent + 1, size)
           IN  /\ Exact(Append(Delivered(s), f))
               /\ Exact(Append(Delivered(s), LagError))
<1>. DEFINE d == Delivered(s)
            f == Event(sent + 1, size)
<1>1. d \in Seq(Frames) /\ Exact(d) /\ Current(d)
  BY StreamTypes DEF SubInv, Attached
<1>2. f \in Frames /\ f.typ = "event" /\ f.n = sent + 1 /\ sent \in Nat
  BY FrameTypes, MaxFramesAssumption DEF TypeOK
<1>3. d = <<>> => f.n = 1
  BY <1>1, <1>2, FrameTypes DEF Current
<1>4. d # <<>> => Follows(d[Len(d)], f)
  <2>1. CASE d = <<Notice>>
    BY <2>1, <1>2, FrameTypes DEF Follows
  <2>2. CASE d # <<>> /\ d # <<Notice>>
    BY <2>2, <1>1, <1>2 DEF Current, Follows
  <2>. QED  BY <2>1, <2>2
<1>5. Exact(Append(d, f))
  BY <1>1, <1>2, <1>3, <1>4, ExactExtends
<1>7. d # <<>> => d[Len(d)].typ # "lag"
  <2>1. <<Notice>>[Len(<<Notice>>)].typ = "notice"
    BY FrameTypes
  <2>. QED  BY <1>1, <2>1 DEF Current
<1>6. Exact(Append(d, LagError))
  BY <1>1, <1>7, FrameTypes, ExactExtends DEF Follows
<1>. QED  BY <1>5, <1>6

\* A Send hands every registered client the event, or cuts it off and says so.
LEMMA SendStep ==
    ASSUME IInv, Send
    PROVE  IInv'
<1>1. PICK size \in Sizes :
        AppendHistory(Event(sent + 1, size)) /\ Deliver(Event(sent + 1, size))
  BY DEF Send
<1>. DEFINE f == Event(sent + 1, size)
<1>2. /\ ~closed /\ sent < MaxFrames /\ sent' = sent + 1
      /\ UNCHANGED <<closed, client, view>>
      /\ TypeOK /\ HistoryIsRecent
  BY DEF Send, clientVars, IInv
<1>3. sent \in Nat /\ sent' \in 1..MaxFrames /\ f \in Events /\ f \in Frames
  BY <1>2, MaxFramesAssumption, FrameTypes DEF TypeOK
<1>4. f.typ = "event" /\ f.n = sent' /\ LagError \in Frames
  BY <1>2, FrameTypes
<1>5. history' \in Seq(Events) /\ truncated' \in BOOLEAN /\ HistoryIsRecent'
  BY <1>1, <1>2, AppendKeepsRecent
<1>. HIDE DEF f
<1>6. ASSUME NEW s \in Subs, s \in registered, Lagging(s)
      PROVE  chan'[s] = Append(chan[s], LagError) /\ s \notin registered'
             /\ s \in chClosed'
  BY <1>1, <1>6 DEF Deliver
<1>7. ASSUME NEW s \in Subs, s \in registered, ~Lagging(s)
      PROVE  chan'[s] = Append(chan[s], f) /\ s \in registered'
             /\ (s \in chClosed' <=> s \in chClosed)
  BY <1>1, <1>7 DEF Deliver, f
<1>8. ASSUME NEW s \in Subs, s \notin registered
      PROVE  chan'[s] = chan[s] /\ s \notin registered'
             /\ (s \in chClosed' <=> s \in chClosed)
  BY <1>1, <1>8 DEF Deliver
<1>9. TypeOK'
  <2>1. chan' \in [Subs -> Seq(Frames)]
    <3>1. chan' = [s \in Subs |-> chan'[s]]
      BY <1>1 DEF Deliver
    <3>2. ASSUME NEW s \in Subs PROVE chan'[s] \in Seq(Frames)
      <4>1. chan[s] \in Seq(Frames)
        BY <1>2, StreamTypes
      <4>2. Append(chan[s], LagError) \in Seq(Frames)
            /\ Append(chan[s], f) \in Seq(Frames)
        BY <4>1, <1>3, <1>4, AppendProperties
      <4>. QED  BY <4>1, <4>2, <1>6, <1>7, <1>8
    <3>. QED  BY <3>1, <3>2
  <2>2. /\ registered' \subseteq Subs /\ lagged' \subseteq Subs
        /\ chClosed' \subseteq Subs /\ capacity' = capacity
    BY <1>1, <1>2 DEF Deliver, TypeOK
  <2>. QED  BY <1>2, <1>3, <1>5, <2>1, <2>2 DEF TypeOK
<1>10. ASSUME NEW s \in Subs PROVE SubInv(s)'
  <2>1. SubInv(s) /\ capacity' = capacity /\ client' = client /\ view' = view
    BY <1>1, <1>2 DEF IInv, Deliver
  <2>2. /\ view[s] \in Seq(Frames) /\ chan[s] \in Seq(Frames)
        /\ Delivered(s) \in Seq(Frames)
        /\ Len(chan[s]) \in Nat /\ capacity[s] \in Nat
    BY <1>2, StreamTypes
  <2>3. CASE s \in registered /\ Lagging(s)
    <3>0. view[s] \o Append(chan[s], LagError) = Append(view[s] \o chan[s], LagError)
      BY <1>4, <2>2, BufferExtends
    <3>1. Delivered(s)' = Append(Delivered(s), LagError)
      BY <1>6, <2>1, <2>3, <3>0 DEF Delivered
    <3>2. Exact(Delivered(s)')
      BY <3>1, <1>2, <2>1, <2>3, CurrentAcceptsNext
    <3>3. Cut(Delivered(s)')
      BY <3>1, <2>2, FrameTypes, AppendProperties DEF Cut
    <3>4. client[s] = "reading" /\ Len(chan[s]) < capacity[s]
      BY <2>1, <2>3 DEF SubInv, Attached
    <3>5. Len(chan'[s]) <= capacity[s]
      BY <1>6, <2>2, <2>3, <3>4, FrameTypes, AppendProperties
    <3>6. Ended(s)'
      BY <3>3, <1>6, <2>3 DEF Ended, Cut
    <3>. QED  BY <1>6, <2>1, <2>3, <3>2, <3>4, <3>5, <3>6 DEF SubInv, Exact
  <2>4. CASE s \in registered /\ ~Lagging(s)
    <3>1. Delivered(s)' = Append(Delivered(s), f)
      BY <1>3, <1>7, <2>1, <2>2, <2>4, BufferExtends, ZenonT(60) DEF Delivered
    <3>2. Exact(Delivered(s)')
      BY <3>1, <1>2, <2>1, <2>4, CurrentAcceptsNext DEF f
    <3>3. Current(Delivered(s))'
      BY <3>1, <1>3, <1>4, <2>2, AppendProperties DEF Current
    <3>4. /\ client[s] = "reading" /\ s \notin chClosed
          /\ Len(chan[s]) + 1 < capacity[s]
      BY <2>1, <2>2, <2>4 DEF SubInv, Attached, Lagging
    <3>5. Len(chan'[s]) < capacity[s]
      BY <1>3, <1>7, <2>2, <2>4, <3>4, AppendProperties
    <3>6. Attached(s)'
      BY <3>3, <3>4, <3>5, <1>2, <1>7, <2>1, <2>4 DEF Attached
    <3>7. Len(chan'[s]) \in Nat
      BY <1>9, StreamTypes, LenProperties DEF TypeOK
    <3>. QED
      BY <1>7, <2>1, <2>2, <2>4, <3>2, <3>4, <3>5, <3>6, <3>7 DEF SubInv, Exact
  <2>5. CASE s \notin registered
    <3>1. Delivered(s)' = Delivered(s)
      BY <1>8, <2>1, <2>5 DEF Delivered
    <3>2. Ended(s) => Ended(s)'
      BY <3>1, <1>2, <1>8, <2>5 DEF Ended, Cut
    <3>3. Fresh(s) => Fresh(s)'
      BY <1>8, <2>1, <2>5 DEF Fresh
    <3>. QED  BY <1>8, <2>1, <2>5, <3>1, <3>2, <3>3 DEF SubInv, Exact
  <2>. QED  BY <2>3, <2>4, <2>5
<1>. QED  BY <1>5, <1>9, <1>10 DEF IInv

\* Close lets every attached client read to a plain end of a whole stream.
LEMMA CloseStep ==
    ASSUME IInv, Close
    PROVE  IInv'
<1>1. /\ TypeOK /\ HistoryIsRecent /\ closed'
      /\ registered' = {} /\ chClosed' = chClosed \cup registered
      /\ UNCHANGED <<history, historyBytes, truncated, sent>>
      /\ UNCHANGED <<chan, capacity, lagged, client, view>>
  BY DEF IInv, Close, clientVars
<1>2. TypeOK' /\ HistoryIsRecent'
  BY <1>1 DEF TypeOK, HistoryIsRecent, Bytes
<1>3. ASSUME NEW s \in Subs PROVE SubInv(s)'
  <2>1. SubInv(s) /\ Delivered(s)' = Delivered(s)
    BY <1>1 DEF IInv, Delivered
  <2>2. s \in registered => Ended(s)'
    BY <1>1, <2>1 DEF SubInv, Attached, Ended, Current
  <2>3. Ended(s) => Ended(s)'
    BY <1>1, <2>1 DEF Ended, Current, Cut
  <2>4. Fresh(s) => Fresh(s)'
    BY <1>1 DEF Fresh
  <2>. QED  BY <1>1, <2>1, <2>2, <2>3, <2>4 DEF SubInv, Exact
<1>. QED  BY <1>2, <1>3 DEF IInv

\* The other subscriptions keep their invariant when one subscription's
\* channel, registration or client changes and the run does not.
LEMMA OthersKeep ==
    ASSUME IInv, NEW s \in Subs, NEW t \in Subs, s # t,
           UNCHANGED runVars,
           chan'[t] = chan[t], view'[t] = view[t], capacity'[t] = capacity[t],
           client'[t] = client[t],
           t \in registered' <=> t \in registered,
           t \in chClosed' <=> t \in chClosed
    PROVE  SubInv(t)'
<1>1. SubInv(t) /\ Delivered(t)' = Delivered(t)
  BY DEF IInv, Delivered
<1>. QED
  BY <1>1 DEF SubInv, runVars, Exact, Fresh, Attached, Ended, Current, Cut

\* Taking a frame moves it from the buffer to the client's view.
LEMMA ReadStep ==
    ASSUME IInv, NEW s \in Subs, ReadFrame(s)
    PROVE  IInv'
<1>1. /\ TypeOK /\ HistoryIsRecent /\ client[s] = "reading" /\ chan[s] # <<>>
      /\ view' = [view EXCEPT ![s] = Append(view[s], Head(chan[s]))]
      /\ chan' = [chan EXCEPT ![s] = Tail(chan[s])]
      /\ UNCHANGED runVars
      /\ UNCHANGED <<registered, capacity, chClosed, lagged, client>>
  BY DEF IInv, ReadFrame
<1>2. /\ view[s] \in Seq(Frames) /\ chan[s] \in Seq(Frames)
      /\ Head(chan[s]) \in Frames /\ Tail(chan[s]) \in Seq(Frames)
      /\ Append(view[s], Head(chan[s])) \in Seq(Frames)
      /\ Len(Tail(chan[s])) = Len(chan[s]) - 1 /\ Len(chan[s]) \in Nat
      /\ capacity[s] \in Nat
  BY <1>1, StreamTypes, HeadTailProperties, AppendProperties
<1>3. chan'[s] = Tail(chan[s]) /\ view'[s] = Append(view[s], Head(chan[s]))
  BY <1>1 DEF TypeOK
<1>4. Delivered(s)' = Delivered(s)
  BY <1>1, <1>2, <1>3, ReadPreserves DEF Delivered
<1>5. TypeOK' /\ HistoryIsRecent'
  BY <1>1, <1>2 DEF TypeOK, HistoryIsRecent, runVars
<1>6. SubInv(s)'
  <2>1. SubInv(s) /\ Len(chan'[s]) < Len(chan[s]) /\ Len(chan'[s]) \in Nat
    BY <1>2, <1>3, <1>1 DEF IInv
  <2>2. Attached(s) => Attached(s)'
    BY <1>1, <1>2, <1>3, <1>4, <2>1 DEF Attached, Current, runVars
  <2>3. Ended(s) => Ended(s)'
    BY <1>1, <1>4 DEF Ended, Current, Cut, runVars
  <2>4. Exact(Delivered(s))'
    BY <1>4, <2>1 DEF SubInv, Exact
  <2>5. Len(chan'[s]) <= capacity[s]
    BY <1>2, <2>1 DEF SubInv
  <2>. QED  BY <1>1, <2>1, <2>2, <2>3, <2>4, <2>5 DEF SubInv
<1>7. ASSUME NEW t \in Subs, t # s PROVE SubInv(t)'
  <2>1. chan'[t] = chan[t] /\ view'[t] = view[t]
    BY <1>1, <1>7 DEF TypeOK
  <2>. QED  BY <1>1, <1>7, <2>1, OthersKeep
<1>. QED  BY <1>5, <1>6, <1>7 DEF IInv

\* The replay a subscription is primed with: the notice if frames are gone,
\* then the history.
LEMMA PrimedStream ==
    ASSUME TypeOK, HistoryIsRecent
    PROVE  LET primed == TruncationNotice \o history
           IN  /\ primed \in Seq(Frames)
               /\ Exact(primed)
               /\ Current(primed)
<1>. DEFINE primed == TruncationNotice \o history
<1>1. /\ history \in Seq(Frames) /\ Len(history) \in Nat /\ sent \in Nat
      /\ \A i \in 1..Len(history) : history[i].typ = "event"
      /\ history # <<>> => Len(history) >= 1
      /\ history = <<>> => Len(history) = 0
  BY FrameTypes, SeqMonotonic, ElementOfSeq, LenProperties, EmptySeq,
     MaxFramesAssumption DEF TypeOK
<1>2. CASE truncated
  <2>1. TruncationNotice = <<Notice>> /\ <<Notice>> \in Seq(Frames)
    BY <1>2, FrameTypes DEF TruncationNotice
  <2>2. /\ primed \in Seq(Frames) /\ Len(primed) = Len(history) + 1
        /\ primed[1] = Notice
        /\ \A i \in 1..Len(history) : primed[i + 1] = history[i]
    BY <1>1, <2>1, ConcatProperties
  <2>3. ASSUME NEW i \in 1..(Len(primed) - 1) PROVE Follows(primed[i], primed[i + 1])
    <3>1. primed[i + 1] = history[i] /\ i \in 1..Len(history)
      BY <1>1, <2>2
    <3>2. CASE i = 1
      BY <3>1, <3>2, <1>1, <2>2, FrameTypes DEF Follows
    <3>3. CASE i # 1
      <4>1. i - 1 \in 1..Len(history) /\ primed[i] = history[i - 1]
        BY <3>1, <3>3, <1>1, <2>2
      <4>2. history[i].n = history[i - 1].n + 1
        BY <3>1, <4>1, <1>1 DEF HistoryIsRecent
      <4>. QED  BY <3>1, <4>1, <4>2, <1>1 DEF Follows
    <3>. QED  BY <3>2, <3>3
  <2>4. Exact(primed)
    BY <2>2, <2>3, FrameTypes DEF Exact
  <2>5. Current(primed)
    <3>1. CASE history = <<>>
      <4>1. primed = <<Notice>>
        BY <2>1, <3>1
      <4>. QED  BY <4>1, <3>1 DEF Current
    <3>2. CASE history # <<>>
      <4>1. /\ Len(history) \in 1..Len(history)
            /\ primed[Len(primed)] = history[Len(history)] /\ primed # <<>>
        BY <3>2, <1>1, <2>2
      <4>2. history[Len(history)].n = sent
        BY <4>1, <1>1 DEF HistoryIsRecent
      <4>. QED  BY <4>1, <4>2, <1>1 DEF Current
    <3>. QED  BY <3>1, <3>2
  <2>. QED  BY <2>2, <2>4, <2>5
<1>3. CASE ~truncated
  <2>1. primed = history /\ Len(history) = sent
    BY <1>1, <1>3, ConcatEmptySeq DEF TruncationNotice, HistoryIsRecent
  <2>2. \A i \in 1..Len(history) : history[i].n = i
    BY <2>1, <1>1 DEF HistoryIsRecent
  <2>. HIDE DEF primed
  <2>3. Exact(primed)
    BY <1>1, <2>1, <2>2 DEF Exact, Follows
  <2>4. Current(primed)
    BY <1>1, <2>1, <2>2 DEF Current
  <2>. QED  BY <1>1, <2>1, <2>3, <2>4 DEF primed
<1>. QED  BY <1>2, <1>3

\* A new subscription starts with a stream that is exact and current.
LEMMA SubscribeStep ==
    ASSUME IInv, NEW s \in Subs, Subscribe(s)
    PROVE  IInv'
<1>. DEFINE primed == TruncationNotice \o history
<1>1. /\ TypeOK /\ HistoryIsRecent /\ SubInv(s) /\ client[s] = "new"
      /\ chan' = [chan EXCEPT ![s] = primed]
      /\ capacity' = [capacity EXCEPT ![s] = Len(primed) + BufSize]
      /\ client' = [client EXCEPT ![s] = "reading"]
      /\ UNCHANGED runVars /\ UNCHANGED <<lagged, view>>
  BY DEF IInv, Subscribe
<1>2. /\ closed  => chClosed' = chClosed \cup {s} /\ registered' = registered
      /\ ~closed => registered' = registered \cup {s} /\ chClosed' = chClosed
  BY DEF Subscribe
<1>3. /\ primed \in Seq(Frames) /\ Exact(primed) /\ Current(primed)
      /\ Len(primed) \in Nat
  BY <1>1, PrimedStream, LenProperties
<1>. HIDE DEF primed
<1>4. /\ chan'[s] = primed /\ capacity'[s] = Len(primed) + BufSize
      /\ client'[s] = "reading"
  BY <1>1 DEF TypeOK
<1>5. view[s] = <<>> /\ s \notin registered /\ s \notin chClosed
  BY <1>1 DEF SubInv, Fresh
<1>6. Delivered(s)' = primed
  BY <1>1, <1>3, <1>4, <1>5, ConcatEmptySeq DEF Delivered
<1>7. TypeOK' /\ HistoryIsRecent'
  <2>1. Len(primed) + BufSize \in Nat
    BY <1>3, BufSizeAssumption
  <2>2. "reading" \in ClientStates
    BY DEF ClientStates
  <2>3. chClosed' \subseteq Subs /\ registered' \subseteq Subs
    BY <1>1, <1>2 DEF TypeOK
  <2>. QED  BY <1>1, <1>3, <2>1, <2>2, <2>3 DEF TypeOK, HistoryIsRecent, runVars
<1>8. SubInv(s)'
  <2>1. Len(chan'[s]) < capacity'[s] /\ Len(chan'[s]) <= capacity'[s]
    BY <1>3, <1>4, BufSizeAssumption
  <2>2. Exact(Delivered(s)') /\ Current(Delivered(s))'
    BY <1>1, <1>3, <1>6 DEF Current, runVars
  <2>3. CASE closed
    <3>1. s \notin registered' /\ s \in chClosed' /\ closed'
      BY <1>1, <1>2, <1>5, <2>3 DEF runVars
    <3>. QED  BY <3>1, <1>4, <2>1, <2>2 DEF SubInv, Ended, Exact
  <2>4. CASE ~closed
    <3>1. s \in registered' /\ s \notin chClosed' /\ ~closed'
      BY <1>1, <1>2, <1>5, <2>4 DEF runVars
    <3>. QED  BY <3>1, <1>4, <2>1, <2>2 DEF SubInv, Attached, Exact
  <2>. QED  BY <2>3, <2>4
<1>9. ASSUME NEW t \in Subs, t # s PROVE SubInv(t)'
  <2>1. /\ chan'[t] = chan[t] /\ view'[t] = view[t] /\ capacity'[t] = capacity[t]
        /\ client'[t] = client[t]
    BY <1>1, <1>9 DEF TypeOK
  <2>2. (t \in registered' <=> t \in registered) /\ (t \in chClosed' <=> t \in chClosed)
    BY <1>2, <1>9
  <2>. QED  BY <1>1, <1>9, <2>1, <2>2, OthersKeep
<1>. QED  BY <1>7, <1>8, <1>9 DEF IInv

\* A request that returns deregisters its subscription and touches nothing else.
LEMMA ReturnStep ==
    ASSUME IInv, NEW s \in Subs, ReadEOF(s) \/ HangUp(s)
    PROVE  IInv'
<1>. PICK to \in {"eof", "left"} :
        /\ client' = [client EXCEPT ![s] = to]
        /\ to = "eof" => chan[s] = <<>> /\ s \in chClosed
  BY DEF ReadEOF, HangUp
<1>1. /\ TypeOK /\ HistoryIsRecent /\ SubInv(s) /\ client[s] = "reading"
      /\ registered' = registered \ {s}
      /\ chClosed' = IF s \in registered THEN chClosed \cup {s} ELSE chClosed
      /\ UNCHANGED runVars /\ UNCHANGED <<chan, capacity, lagged, view>>
  BY DEF IInv, ReadEOF, HangUp, Unsubscribe
<1>2. client'[s] = to /\ Delivered(s)' = Delivered(s)
  BY <1>1 DEF TypeOK, Delivered
<1>3. TypeOK' /\ HistoryIsRecent'
  BY <1>1 DEF TypeOK, HistoryIsRecent, runVars, ClientStates
<1>4. SubInv(s)'
  <2>1. to = "eof" => Ended(s)
    BY <1>1 DEF SubInv, Attached
  <2>2. Ended(s) => Ended(s)'
    BY <1>1, <1>2 DEF Ended, Cut, Current, runVars
  <2>. QED  BY <1>1, <1>2, <2>1, <2>2 DEF SubInv, Exact
<1>5. ASSUME NEW t \in Subs, t # s PROVE SubInv(t)'
  <2>1. client'[t] = client[t]
    BY <1>5 DEF TypeOK
  <2>2. (t \in registered' <=> t \in registered) /\ (t \in chClosed' <=> t \in chClosed)
    BY <1>1, <1>5
  <2>. QED  BY <1>1, <1>5, <2>1, <2>2, OthersKeep
<1>. QED  BY <1>3, <1>4, <1>5 DEF IInv

-----------------------------------------------------------------------------
(***************************************************************************)
(* The theorems.                                                           *)
(***************************************************************************)

\* The invariant holds at first and every operation preserves it.
THEOREM Invariance == Spec => []IInv
<1>1. Init => IInv
  <2>. SUFFICES ASSUME Init PROVE IInv
    OBVIOUS
  <2>1. TypeOK
    <3>1. /\ <<>> \in Seq(Events) /\ <<>> \in Seq(Frames)
          /\ 0 \in 0..MaxFrames /\ 0 \in Nat
      BY EmptySeq, MaxFramesAssumption
    <3>2. history \in Seq(Events) /\ truncated \in BOOLEAN /\ closed \in BOOLEAN
      BY <3>1 DEF Init
    <3>3. /\ chan \in [Subs -> Seq(Frames)] /\ view \in [Subs -> Seq(Frames)]
          /\ capacity \in [Subs -> Nat] /\ client \in [Subs -> ClientStates]
      BY <3>1 DEF Init, ClientStates
    <3>. QED  BY <3>1, <3>2, <3>3 DEF Init, TypeOK
  <2>3. HistoryIsRecent
    BY BytesEmpty, MaxBytesAssumption, MaxHistoryAssumption DEF Init, HistoryIsRecent
  <2>2. ASSUME NEW s \in Subs PROVE SubInv(s)
    <3>1. Delivered(s) = <<>> /\ Len(Delivered(s)) = 0
      BY DEF Init, Delivered
    <3>. QED  BY <3>1 DEF Init, SubInv, Fresh, Exact
  <2>. QED  BY <2>1, <2>2, <2>3 DEF IInv
<1>2. IInv /\ [Next]_vars => IInv'
  <2>. SUFFICES ASSUME IInv, [Next]_vars PROVE IInv'
    OBVIOUS
  <2>1. CASE Send
    BY <2>1, SendStep
  <2>2. CASE Close
    BY <2>2, CloseStep
  <2>3. ASSUME NEW s \in Subs, Subscribe(s) \/ ReadFrame(s) \/ ReadEOF(s) \/ HangUp(s)
        PROVE  IInv'
    BY <2>3, SubscribeStep, ReadStep, ReturnStep
  <2>4. CASE UNCHANGED vars
    <3>1. TypeOK' /\ HistoryIsRecent'
      BY <2>4 DEF IInv, TypeOK, HistoryIsRecent, vars, runVars, subVars, clientVars
    <3>2. ASSUME NEW s \in Subs PROVE SubInv(s)'
      BY <2>4 DEF IInv, SubInv, Fresh, Exact, Attached, Ended, Current, Cut,
                  Delivered, vars, runVars, subVars, clientVars
    <3>. QED  BY <3>1, <3>2 DEF IInv
  <2>. QED  BY <2>1, <2>2, <2>3, <2>4 DEF Next
<1>. QED  BY <1>1, <1>2, PTL DEF Spec

\* Types of the broadcaster's state.
THEOREM TypeCorrect == Spec => []TypeOK
<1>1. IInv => TypeOK
  BY DEF IInv
<1>. QED  BY <1>1, Invariance, PTL

\* Send never blocks and never writes to a closed channel, for every
\* subscription and every buffer size.
THEOREM NeverBlocks == Spec => []SlotReserved
<1>1. IInv => SlotReserved
  BY DEF IInv, SubInv, Attached, SlotReserved, TypeOK
<1>. QED  BY <1>1, Invariance, PTL

\* Every client's stream has no gap and no duplicate.
THEOREM ExactViews == Spec => []ViewIsExact
<1>1. ASSUME IInv PROVE ViewIsExact
  <2>. SUFFICES ASSUME NEW s \in Subs, client[s] # "new"
       PROVE  LET d == Delivered(s)
              IN  /\ \A i \in 1..(Len(d) - 1) : Follows(d[i], d[i + 1])
                  /\ d # <<>> /\ d[1].typ = "event" => d[1].n = 1
                  /\ s \in registered =>
                       IF d = <<>> THEN sent = 0
                       ELSE d[Len(d)].typ = "notice" \/ d[Len(d)].n = sent
    BY DEF ViewIsExact
  <2>1. Exact(Delivered(s)) /\ (s \in registered => Current(Delivered(s)))
    BY <1>1 DEF IInv, SubInv, Attached
  <2>2. <<Notice>>[Len(<<Notice>>)].typ = "notice" /\ <<Notice>> # <<>>
    BY FrameTypes
  <2>. DEFINE d == Delivered(s)
  <2>3. s \in registered =>
          IF d = <<>> THEN sent = 0 ELSE d[Len(d)].typ = "notice" \/ d[Len(d)].n = sent
    <3>1. CASE d = <<Notice>>
      BY <3>1, <2>2
    <3>2. CASE d # <<Notice>>
      BY <3>2, <2>1, Zenon DEF Current
    <3>. QED  BY <3>1, <3>2
  <2>. QED  BY <2>1, <2>3 DEF Exact
<1>. QED  BY <1>1, Invariance, PTL

\* A plain EOF means the whole stream was delivered; a cut one says so.
THEOREM TruthfulEof == Spec => []EofIsTruthful
<1>1. ASSUME IInv PROVE EofIsTruthful
  <2>. SUFFICES ASSUME NEW s \in Subs, client[s] = "eof"
       PROVE  LET v == view[s]
              IN  \/ v # <<>> /\ v[Len(v)].typ = "lag"
                  \/ closed /\ sent = 0
                  \/ closed /\ v # <<>> /\ v[Len(v)].n = sent
                  \/ closed /\ v = <<Notice>> /\ history = <<>>
    BY DEF EofIsTruthful
  <2>1. chan[s] = <<>> /\ Ended(s)
    BY <1>1 DEF IInv, SubInv, Attached
  <2>2. view[s] \in Seq(Frames)
    BY <1>1 DEF IInv, TypeOK
  <2>3. Delivered(s) = view[s]
    BY <2>1, <2>2, ConcatEmptySeq DEF Delivered
  <2>. QED  BY <2>1, <2>3 DEF Ended, Cut, Current
<1>. QED  BY <1>1, Invariance, PTL

\* Every client's stream is exact from its first frame to its end.
THEOREM ExactStreams == Spec => []StreamIsExact
<1>1. ViewIsExact /\ EofIsTruthful => StreamIsExact
  BY DEF StreamIsExact
<1>. QED  BY <1>1, ExactViews, TruthfulEof, PTL

\* Every buffer keeps to its limit and holds what its counters say.
THEOREM BoundedBuffers == Spec => []BuffersBounded
<1>1. IInv => SlotReserved
  BY DEF IInv, SubInv, Attached, SlotReserved, TypeOK
<1>2. IInv => HistoryBounded
  BY DEF IInv, HistoryIsRecent, HistoryBounded
<1>3. IInv => BuffersBounded
  BY <1>1, <1>2 DEF BuffersBounded
<1>. QED  BY <1>3, Invariance, PTL

-----------------------------------------------------------------------------
(***************************************************************************)
(* The refinement: what each step of the broadcaster is in the abstract    *)
(* feed.  First, the event numbers of a client's stream.                   *)
(***************************************************************************)

\* A stream's notice is its first frame and its lag error its last.
LEMMA StreamShape ==
    ASSUME NEW d \in Seq(Frames), Exact(d)
    PROVE  /\ \A i \in 1..(Len(d) - 1) : d[i].typ # "lag"
           /\ \A i \in 2..Len(d) : d[i].typ # "notice"
<1>1. Len(d) \in Nat
  BY LenProperties
<1>2. ASSUME NEW i \in 1..(Len(d) - 1)
      PROVE  d[i].typ # "lag" /\ d[i + 1].typ # "notice"
  BY <1>2 DEF Exact, Follows
<1>3. ASSUME NEW i \in 2..Len(d) PROVE d[i].typ # "notice"
  <2>1. i - 1 \in 1..(Len(d) - 1) /\ (i - 1) + 1 = i
    BY <1>1
  <2>2. d[(i - 1) + 1].typ # "notice"
    BY <1>2, <2>1
  <2>. QED  BY <2>1, <2>2
<1>. QED  BY <1>2, <1>3

\* A stream that is current holds no lag error.
LEMMA CurrentHasNoLag ==
    ASSUME NEW d \in Seq(Frames), Exact(d), Current(d)
    PROVE  \A i \in 1..Len(d) : d[i].typ # "lag"
<1>1. d # <<>> => d[Len(d)].typ # "lag"
  <2>1. <<Notice>>[Len(<<Notice>>)].typ = "notice"
    BY FrameTypes
  <2>. QED  BY <2>1 DEF Current
<1>2. Len(d) \in Nat /\ (d = <<>> => Len(d) = 0)
  BY LenProperties
<1>. QED  BY <1>1, <1>2, StreamShape

\* The notice, when there is one, shifts the events of a stream by one.
Shift(d) == IF d # <<>> /\ d[1].typ = "notice" THEN 1 ELSE 0

\* The events of a stream with no lag error: all its frames but the notice.
LEMMA WholeNumbers ==
    ASSUME NEW d \in Seq(Frames), d # <<>> => d[Len(d)].typ # "lag"
    PROVE  /\ Shift(d) \in Nat /\ Len(d) \in Nat /\ Len(d) - Shift(d) \in Nat
           /\ EventNumbers(d) = [i \in 1..(Len(d) - Shift(d)) |-> d[Shift(d) + i].n]
           /\ \A i \in 1..(Len(d) - Shift(d)) :
                Shift(d) + i \in 1..Len(d) /\ d[Shift(d) + i].n \in Nat
<1>1. Len(d) \in Nat /\ (d # <<>> => Len(d) >= 1)
  BY LenProperties, EmptySeq
<1>2. Shift(d) \in Nat /\ Len(d) - Shift(d) \in Nat
  BY <1>1 DEF Shift
<1>3. Len(d) - Shift(d) - 0 = Len(d) - Shift(d)
  BY <1>1, <1>2
<1>4. (IF d # <<>> /\ d[Len(d)].typ = "lag" THEN 1 ELSE 0) = 0
  OBVIOUS
<1>5. EventNumbers(d) = [i \in 1..(Len(d) - Shift(d)) |-> d[Shift(d) + i].n]
  BY <1>3, <1>4, Zenon DEF EventNumbers, Shift
<1>6. ASSUME NEW i \in 1..(Len(d) - Shift(d))
      PROVE  Shift(d) + i \in 1..Len(d) /\ d[Shift(d) + i].n \in Nat
  <2>1. Shift(d) + i \in 1..Len(d)
    BY <1>1, <1>2
  <2>. QED  BY <2>1, ElementOfSeq, FrameTypes
<1>. QED  BY <1>1, <1>2, <1>5, <1>6

LEMMA NoNumbers == EventNumbers(<<>>) = <<>>
BY DEF EventNumbers

\* An event handed to a client is one more number of its feed.
LEMMA NumbersAppend ==
    ASSUME NEW d \in Seq(Frames), d # <<>> => d[Len(d)].typ # "lag",
           NEW f \in Frames, f.typ = "event"
    PROVE  EventNumbers(Append(d, f)) = Append(EventNumbers(d), f.n)
<1>. DEFINE e == Append(d, f)
            k == Shift(d)
            m == Len(d) - k
            a == EventNumbers(d)
            b == EventNumbers(e)
<1>1. /\ e \in Seq(Frames) /\ Len(e) = Len(d) + 1 /\ Len(d) \in Nat /\ e # <<>>
      /\ \A i \in 1..Len(d) : e[i] = d[i]
      /\ e[Len(d) + 1] = f /\ e[Len(e)] = f
      /\ d # <<>> => Len(d) >= 1
      /\ d = <<>> => Len(d) = 0
      /\ f.n \in Nat
  BY AppendProperties, LenProperties, EmptySeq, FrameTypes
<1>. HIDE DEF e
<1>2. Shift(e) = k
  <2>1. CASE d = <<>>
    BY <2>1, <1>1 DEF Shift
  <2>2. CASE d # <<>>
    BY <2>2, <1>1 DEF Shift
  <2>. QED  BY <2>1, <2>2
<1>3. /\ k \in Nat /\ m \in Nat
      /\ a = [i \in 1..m |-> d[k + i].n]
      /\ \A i \in 1..m : k + i \in 1..Len(d) /\ d[k + i].n \in Nat
  BY WholeNumbers
<1>4. /\ b = [i \in 1..(Len(e) - k) |-> e[k + i].n]
      /\ \A i \in 1..(Len(e) - k) : e[k + i].n \in Nat
  <2>1. e # <<>> => e[Len(e)].typ # "lag"
    BY <1>1
  <2>. HIDE DEF b, k
  <2>. QED  BY <2>1, <1>1, <1>2, WholeNumbers DEF b
<1>5. Len(e) - k = m + 1 /\ k + (m + 1) = Len(d) + 1
  BY <1>1, <1>3
<1>6. \A i \in 1..m : e[k + i] = d[k + i]
  BY <1>1, <1>3
<1>. HIDE DEF m, a, b, k
<1>7. a \in Seq(Nat) /\ Len(a) = m /\ \A i \in 1..m : a[i] = d[k + i].n
  BY <1>3, SMTT(30)
<1>8. /\ b \in Seq(Nat) /\ Len(b) = m + 1
      /\ \A i \in 1..(m + 1) : b[i] = e[k + i].n
  <2>. DEFINE t == m + 1
  <2>1. t \in Nat
    BY <1>3
  <2>2. b = [i \in 1..t |-> e[k + i].n] /\ \A i \in 1..t : e[k + i].n \in Nat
    BY <1>4, <1>5
  <2>. HIDE DEF t
  <2>3. b \in [1..t -> Nat]
    BY <2>2
  <2>4. b \in Seq(Nat) /\ Len(b) = t
    BY <2>1, <2>3
  <2>. QED  BY <2>2, <2>4 DEF t
<1>9. /\ Append(a, f.n) \in Seq(Nat) /\ Len(Append(a, f.n)) = m + 1
      /\ \A i \in 1..m : Append(a, f.n)[i] = a[i]
      /\ Append(a, f.n)[m + 1] = f.n
  BY <1>1, <1>7, AppendProperties
<1>10. ASSUME NEW i \in 1..(m + 1) PROVE b[i] = Append(a, f.n)[i]
  <2>1. CASE i = m + 1
    BY <2>1, <1>1, <1>3, <1>5, <1>8, <1>9
  <2>2. CASE i \in 1..m
    BY <2>2, <1>3, <1>6, <1>7, <1>8, <1>9
  <2>. QED  BY <2>1, <2>2, <1>3
<1>11. b = Append(a, f.n)
  BY <1>8, <1>9, <1>10, SeqEqual
<1>. QED  BY <1>11 DEF a, b, e

\* A lag error is no event.
LEMMA NumbersLag ==
    ASSUME NEW d \in Seq(Frames), d # <<>> => d[Len(d)].typ # "lag"
    PROVE  EventNumbers(Append(d, LagError)) = EventNumbers(d)
<1>. DEFINE e == Append(d, LagError)
            k == Shift(d)
<1>1. /\ e \in Seq(Frames) /\ Len(e) = Len(d) + 1 /\ Len(d) \in Nat /\ e # <<>>
      /\ \A i \in 1..Len(d) : e[i] = d[i]
      /\ e[Len(d) + 1] = LagError /\ e[Len(e)].typ = "lag"
      /\ d # <<>> => Len(d) >= 1
      /\ d = <<>> => Len(d) = 0
  BY AppendProperties, LenProperties, EmptySeq, FrameTypes
<1>. HIDE DEF e
<1>2. Shift(e) = k
  <2>1. CASE d = <<>>
    BY <2>1, <1>1, FrameTypes DEF Shift
  <2>2. CASE d # <<>>
    BY <2>2, <1>1 DEF Shift
  <2>. QED  BY <2>1, <2>2
<1>3. /\ k \in Nat
      /\ EventNumbers(d) = [i \in 1..(Len(d) - k) |-> d[k + i].n]
      /\ \A i \in 1..(Len(d) - k) : k + i \in 1..Len(d)
  BY WholeNumbers
<1>. HIDE DEF k
<1>4. EventNumbers(e) = [i \in 1..(Len(e) - k - 1) |-> e[k + i].n]
  BY <1>1, <1>2, Zenon DEF EventNumbers, Shift
<1>5. Len(e) - k - 1 = Len(d) - k
  BY <1>1, <1>3
<1>6. \A i \in 1..(Len(d) - k) : e[k + i].n = d[k + i].n
  BY <1>1, <1>3
<1>. QED  BY <1>3, <1>4, <1>5, <1>6 DEF e

\* What a subscription is primed with: the latest events the run still has.
LEMMA PrimedNumbers ==
    ASSUME TypeOK, HistoryIsRecent
    PROVE  LET primed == TruncationNotice \o history
               skipped == sent - Len(history)
           IN  /\ skipped \in 0..sent
               /\ EventNumbers(primed) = [i \in 1..(sent - skipped) |-> skipped + i]
               /\ primed # <<>> /\ primed[1].typ = "notice" <=> skipped > 0
<1>. DEFINE primed == TruncationNotice \o history
            n == Len(history)
            k == sent - n
<1>1. /\ history \in Seq(Frames) /\ n \in Nat /\ sent \in Nat /\ n <= sent
      /\ \A i \in 1..n : history[i].typ = "event" /\ history[i].n = k + i
      /\ history # <<>> => n >= 1
      /\ history = <<>> => n = 0
      /\ truncated <=> n < sent
  BY FrameTypes, SeqMonotonic, ElementOfSeq, LenProperties, EmptySeq,
     MaxFramesAssumption DEF TypeOK, HistoryIsRecent
<1>2. k \in 0..sent /\ sent - k = n
  BY <1>1
<1>. HIDE DEF k, n
<1>3. SUFFICES /\ EventNumbers(primed) = [i \in 1..n |-> k + i]
               /\ primed # <<>> /\ primed[1].typ = "notice" <=> k > 0
  BY <1>2, Zenon DEF k, n
<1>4. CASE truncated
  <2>1. TruncationNotice = <<Notice>> /\ <<Notice>> \in Seq(Frames)
    BY <1>4, FrameTypes DEF TruncationNotice
  <2>2. /\ primed \in Seq(Frames) /\ Len(primed) = n + 1 /\ primed # <<>>
        /\ primed[1] = Notice
        /\ \A i \in 1..n : primed[1 + i] = history[i]
    BY <1>1, <2>1, ConcatProperties DEF n
  <2>3. primed[Len(primed)].typ # "lag"
    <3>1. CASE n = 0
      BY <3>1, <2>2, FrameTypes
    <3>2. CASE n # 0
      <4>1. n \in 1..n /\ 1 + n = n + 1
        BY <3>2, <1>1
      <4>. QED  BY <4>1, <2>2, <1>1
    <3>. QED  BY <3>1, <3>2
  <2>. HIDE DEF primed
  <2>4. Shift(primed) = 1
    BY <2>2, FrameTypes DEF Shift
  <2>5. EventNumbers(primed) = [i \in 1..(Len(primed) - 1) |-> primed[1 + i].n]
    BY <2>2, <2>3, <2>4, WholeNumbers
  <2>6. Len(primed) - 1 = n /\ k > 0
    BY <2>2, <1>1, <1>4 DEF k
  <2>7. \A i \in 1..n : primed[1 + i].n = k + i
    BY <2>2, <1>1
  <2>8. primed[1].typ = "notice"
    BY <2>2, FrameTypes
  <2>. QED  BY <2>2, <2>5, <2>6, <2>7, <2>8
<1>5. CASE ~truncated
  <2>1. primed = history /\ k = 0
    BY <1>1, <1>5, ConcatEmptySeq DEF TruncationNotice, k
  <2>2. history # <<>> => history[1].typ = "event" /\ history[n].typ = "event"
    BY <1>1
  <2>3. Shift(history) = 0 /\ (history # <<>> => history[Len(history)].typ # "lag")
    BY <2>2 DEF Shift, n
  <2>4. EventNumbers(history) = [i \in 1..(n - 0) |-> history[0 + i].n]
    BY <1>1, <2>3, WholeNumbers DEF n
  <2>5. n - 0 = n /\ \A i \in 1..n : history[0 + i].n = k + i
    BY <1>1
  <2>6. EventNumbers(history) = [i \in 1..n |-> k + i]
    BY <2>4, <2>5
  <2>. HIDE DEF primed
  <2>. QED  BY <2>1, <2>2, <2>6
<1>. QED  BY <1>4, <1>5

-----------------------------------------------------------------------------
(***************************************************************************)
(* The steps of the refinement.                                            *)
(***************************************************************************)
FeedOf == [s \in Subs |-> EventNumbers(Delivered(s))]
StatusOf == [s \in Subs |-> FeedStatus(s)]
ToldTo == {s \in Subs : Delivered(s) # <<>> /\ Delivered(s)[1].typ = "notice"}

HasLag(s) == \E i \in 1..Len(Delivered(s)) : Delivered(s)[i].typ = "lag"

\* What the invariant says of a client's status in the feed.
LEMMA StatusCases ==
    ASSUME IInv, NEW s \in Subs
    PROVE  /\ FeedStatus(s) = "live" <=> s \in registered
           /\ FeedStatus(s) = "absent" <=> client[s] = "new"
           /\ s \in registered => client[s] = "reading" /\ ~HasLag(s) /\ ~closed
           /\ client[s] = "new" => Delivered(s) = <<>> /\ s \notin registered
           /\ client[s] \in {"reading", "eof"} /\ s \notin registered /\ ~HasLag(s)
                => closed
           /\ client[s] \in ClientStates
<1>1. TypeOK /\ SubInv(s) /\ client[s] \in ClientStates
  BY DEF IInv, TypeOK
<1>2. Delivered(s) \in Seq(Frames) /\ Len(Delivered(s)) \in Nat
  BY <1>1, StreamTypes, LenProperties
<1>3. s \in registered => client[s] = "reading" /\ ~HasLag(s) /\ ~closed
  <2>. SUFFICES ASSUME s \in registered
                PROVE  client[s] = "reading" /\ ~HasLag(s) /\ ~closed
    OBVIOUS
  <2>1. Exact(Delivered(s)) /\ Current(Delivered(s)) /\ client[s] = "reading" /\ ~closed
    BY <1>1 DEF SubInv, Attached
  <2>2. \A i \in 1..Len(Delivered(s)) : Delivered(s)[i].typ # "lag"
    BY <1>2, <2>1, CurrentHasNoLag
  <2>. QED  BY <2>1, <2>2 DEF HasLag
<1>4. client[s] = "new" => Delivered(s) = <<>> /\ s \notin registered
  BY <1>1, StreamTypes DEF SubInv, Fresh
<1>5. client[s] \in {"reading", "eof"} /\ s \notin registered /\ ~HasLag(s) => closed
  <2>1. Cut(Delivered(s)) => HasLag(s)
    <3>1. Delivered(s) # <<>> => Len(Delivered(s)) \in 1..Len(Delivered(s))
      BY <1>2, EmptySeq
    <3>. QED  BY <3>1 DEF Cut, HasLag
  <2>. QED  BY <1>1, <2>1 DEF SubInv, Ended
<1>6. FeedStatus(s) = "live" <=> s \in registered
  BY <1>3 DEF FeedStatus, HasLag
<1>7. FeedStatus(s) = "absent" <=> client[s] = "new"
  BY DEF FeedStatus
<1>. QED  BY <1>1, <1>3, <1>4, <1>5, <1>6, <1>7

\* Init is the feed's Init.
LEMMA FeedInit ==
    ASSUME Init
    PROVE  Feed!Init
<1>1. ASSUME NEW s \in Subs
      PROVE  Delivered(s) = <<>> /\ EventNumbers(Delivered(s)) = <<>>
             /\ FeedStatus(s) = "absent"
  BY NoNumbers DEF Init, Delivered, FeedStatus
<1>2. FeedOf = [s \in Subs |-> <<>>] /\ StatusOf = [s \in Subs |-> "absent"]
      /\ ToldTo = {}
  BY <1>1 DEF FeedOf, StatusOf, ToldTo
<1>. QED  BY <1>2, Zenon DEF Init, Feed!Init, FeedOf, StatusOf, ToldTo

\* A step that leaves every stream and status alone is no step of the feed.
LEMMA FeedStutters ==
    ASSUME UNCHANGED <<sent, closed>>,
           \A s \in Subs : Delivered(s)' = Delivered(s) /\ FeedStatus(s)' = FeedStatus(s)
    PROVE  UNCHANGED Feed!vars
<1>1. \A s \in Subs : EventNumbers(Delivered(s))' = EventNumbers(Delivered(s))
  BY DEF EventNumbers
<1>2. FeedOf' = FeedOf /\ StatusOf' = StatusOf /\ ToldTo' = ToldTo
  BY <1>1 DEF FeedOf, StatusOf, ToldTo
<1>. QED  BY <1>2, Zenon DEF Feed!vars, FeedOf, StatusOf, ToldTo

\* A Send publishes: the lagging clients are the ones cut off.
LEMMA FeedSend ==
    ASSUME IInv, Send
    PROVE  Feed!Publish
<1>1. PICK size \in Sizes :
        AppendHistory(Event(sent + 1, size)) /\ Deliver(Event(sent + 1, size))
  BY DEF Send
<1>. DEFINE f == Event(sent + 1, size)
            cut == {s \in registered : Lagging(s)}
<1>2. /\ ~closed /\ sent < MaxFrames /\ sent' = sent + 1
      /\ UNCHANGED <<closed, client, view>>
      /\ TypeOK /\ IInv'
  BY SendStep DEF Send, clientVars, IInv
<1>3. /\ f \in Frames /\ f.typ = "event" /\ f.n = sent' /\ LagError \in Frames
      /\ LagError.typ = "lag"
  BY <1>2, MaxFramesAssumption, FrameTypes DEF TypeOK
<1>. HIDE DEF f
<1>4. /\ registered' = registered \ cut
      /\ chan' = [s \in Subs |->
                    IF s \in cut THEN Append(chan[s], LagError)
                    ELSE IF s \in registered THEN Append(chan[s], f)
                    ELSE chan[s]]
  BY <1>1, Zenon DEF Deliver, f
<1>5. cut \subseteq registered /\ registered \subseteq Subs
  BY <1>2 DEF TypeOK
<1>. HIDE DEF cut
<1>6. ASSUME NEW s \in Subs
      PROVE  /\ view[s] \in Seq(Frames) /\ chan[s] \in Seq(Frames)
             /\ Delivered(s) \in Seq(Frames)
             /\ s \in registered /\ Delivered(s) # <<>> =>
                  Delivered(s)[Len(Delivered(s))].typ # "lag"
  <2>1. Delivered(s) \in Seq(Frames) /\ Len(Delivered(s)) \in Nat
    BY <1>2, StreamTypes, LenProperties
  <2>2. s \in registered => ~HasLag(s)
    BY StatusCases
  <2>3. Delivered(s) # <<>> => Len(Delivered(s)) \in 1..Len(Delivered(s))
    BY <2>1, EmptySeq
  <2>. QED  BY <1>2, <2>1, <2>2, <2>3, StreamTypes DEF HasLag
<1>7. ASSUME NEW s \in Subs, s \in cut
      PROVE  /\ EventNumbers(Delivered(s))' = EventNumbers(Delivered(s))
             /\ FeedStatus(s)' = "cut"
             /\ s \in ToldTo' <=> s \in ToldTo
  <2>1. Delivered(s)' = Append(Delivered(s), LagError)
    BY <1>2, <1>3, <1>4, <1>6, <1>7, BufferExtends DEF Delivered
  <2>2. EventNumbers(Delivered(s)') = EventNumbers(Delivered(s))
    BY <1>5, <1>6, <1>7, <2>1, NumbersLag
  <2>3. EventNumbers(Delivered(s))' = EventNumbers(Delivered(s)')
    BY DEF EventNumbers
  <2>4. /\ Len(Delivered(s)) \in Nat
        /\ Len(Delivered(s)') = Len(Delivered(s)) + 1
        /\ Delivered(s)'[Len(Delivered(s)) + 1] = LagError
        /\ \A i \in 1..Len(Delivered(s)) : Delivered(s)'[i] = Delivered(s)[i]
        /\ Delivered(s)' # <<>>
        /\ Delivered(s) # <<>> => Len(Delivered(s)) >= 1
        /\ Delivered(s) = <<>> => Len(Delivered(s)) = 0
    BY <1>3, <1>6, <2>1, AppendProperties, LenProperties, EmptySeq
  <2>5. s \notin registered' /\ client'[s] = "reading"
    BY <1>2, <1>4, <1>5, <1>7, StatusCases
  <2>6. \E i \in 1..Len(Delivered(s)') : Delivered(s)'[i].typ = "lag"
    BY <1>3, <2>4
  <2>7. FeedStatus(s)' = "cut"
    BY <2>5, <2>6 DEF FeedStatus
  <2>8. s \in ToldTo' <=> s \in ToldTo
    <3>1. CASE Delivered(s) = <<>>
      BY <3>1, <1>3, <2>4 DEF ToldTo
    <3>2. CASE Delivered(s) # <<>>
      BY <3>2, <2>4 DEF ToldTo
    <3>. QED  BY <3>1, <3>2
  <2>. QED  BY <2>2, <2>3, <2>7, <2>8
<1>8. ASSUME NEW s \in Subs, s \in registered, s \notin cut
      PROVE  /\ EventNumbers(Delivered(s))' = Append(EventNumbers(Delivered(s)), sent')
             /\ FeedStatus(s)' = "live" /\ FeedStatus(s) = "live"
             /\ s \in ToldTo' <=> s \in ToldTo
  <2>1. Delivered(s)' = Append(Delivered(s), f)
    BY <1>2, <1>3, <1>4, <1>6, <1>8, BufferExtends DEF Delivered
  <2>2. EventNumbers(Delivered(s)') = Append(EventNumbers(Delivered(s)), sent')
    BY <1>3, <1>6, <1>8, <2>1, NumbersAppend
  <2>3. EventNumbers(Delivered(s))' = EventNumbers(Delivered(s)')
    BY DEF EventNumbers
  <2>4. /\ Len(Delivered(s)) \in Nat
        /\ Delivered(s)'[Len(Delivered(s)) + 1] = f
        /\ \A i \in 1..Len(Delivered(s)) : Delivered(s)'[i] = Delivered(s)[i]
        /\ Delivered(s)' # <<>>
        /\ Delivered(s) # <<>> => Len(Delivered(s)) >= 1
        /\ Delivered(s) = <<>> => Len(Delivered(s)) = 0
    BY <1>3, <1>6, <2>1, AppendProperties, LenProperties, EmptySeq
  <2>5. s \in registered' /\ client'[s] = "reading" /\ FeedStatus(s) = "live"
    BY <1>2, <1>4, <1>8, StatusCases
  <2>6. FeedStatus(s)' = "live"
    BY <2>5 DEF FeedStatus
  <2>7. s \in ToldTo' <=> s \in ToldTo
    <3>1. CASE Delivered(s) = <<>>
      BY <3>1, <1>3, <2>4 DEF ToldTo
    <3>2. CASE Delivered(s) # <<>>
      BY <3>2, <2>4 DEF ToldTo
    <3>. QED  BY <3>1, <3>2
  <2>. QED  BY <2>2, <2>3, <2>5, <2>6, <2>7
<1>9. ASSUME NEW s \in Subs, s \notin registered
      PROVE  /\ EventNumbers(Delivered(s))' = EventNumbers(Delivered(s))
             /\ FeedStatus(s)' = FeedStatus(s) /\ FeedStatus(s) # "live"
             /\ s \in ToldTo' <=> s \in ToldTo
  <2>1. Delivered(s)' = Delivered(s) /\ s \notin registered'
    BY <1>2, <1>4, <1>5, <1>9 DEF Delivered
  <2>2. FeedStatus(s) # "live"
    BY <1>9, StatusCases
  <2>. QED  BY <1>2, <1>9, <2>1, <2>2 DEF EventNumbers, FeedStatus, ToldTo
<1>10. cut \in SUBSET {s \in Subs : StatusOf[s] = "live"}
  BY <1>5, StatusCases DEF StatusOf
<1>11. StatusOf' = [s \in Subs |-> IF s \in cut THEN "cut" ELSE StatusOf[s]]
  <2>1. ASSUME NEW s \in Subs
        PROVE  FeedStatus(s)' = IF s \in cut THEN "cut" ELSE FeedStatus(s)
    BY <1>7, <1>8, <1>9
  <2>. QED  BY <2>1 DEF StatusOf
<1>12. FeedOf' = [s \in Subs |-> IF StatusOf[s] = "live" /\ s \notin cut
                                 THEN Append(FeedOf[s], sent') ELSE FeedOf[s]]
  <2>1. ASSUME NEW s \in Subs
        PROVE  EventNumbers(Delivered(s))' =
                 IF FeedStatus(s) = "live" /\ s \notin cut
                 THEN Append(EventNumbers(Delivered(s)), sent')
                 ELSE EventNumbers(Delivered(s))
    BY <1>7, <1>8, <1>9
  <2>. QED  BY <2>1 DEF StatusOf, FeedOf
<1>13. ToldTo' = ToldTo
  <2>1. ASSUME NEW s \in Subs PROVE s \in ToldTo' <=> s \in ToldTo
    BY <1>7, <1>8, <1>9
  <2>2. ToldTo' \subseteq Subs /\ ToldTo \subseteq Subs
    BY DEF ToldTo
  <2>. QED  BY <2>1, <2>2
<1>. QED  BY <1>2, <1>10, <1>11, <1>12, <1>13, Zenon
          DEF Feed!Publish, FeedOf, StatusOf, ToldTo

\* A Close ends the feed: what was live is complete.
LEMMA FeedClose ==
    ASSUME IInv, Close
    PROVE  Feed!End
<1>1. /\ ~closed /\ closed' = TRUE /\ registered' = {} /\ IInv'
      /\ UNCHANGED <<sent, chan, view, client>>
  BY CloseStep DEF Close, clientVars
<1>2. ASSUME NEW s \in Subs
      PROVE  /\ Delivered(s)' = Delivered(s)
             /\ EventNumbers(Delivered(s))' = EventNumbers(Delivered(s))
             /\ FeedStatus(s)' = IF FeedStatus(s) = "live" THEN "complete" ELSE FeedStatus(s)
  <2>1. Delivered(s)' = Delivered(s)
    BY <1>1 DEF Delivered
  <2>2. EventNumbers(Delivered(s))' = EventNumbers(Delivered(s))
    BY <2>1 DEF EventNumbers
  <2>3. CASE s \in registered
    BY <2>1, <2>3, <1>1, StatusCases DEF FeedStatus, HasLag
  <2>4. CASE s \notin registered
    BY <2>1, <2>4, <1>1, StatusCases DEF FeedStatus, HasLag, ClientStates
  <2>. QED  BY <2>1, <2>2, <2>3, <2>4
<1>3. FeedOf' = FeedOf /\ ToldTo' = ToldTo
  BY <1>2 DEF FeedOf, ToldTo
<1>4. StatusOf' = [s \in Subs |-> IF StatusOf[s] = "live" THEN "complete" ELSE StatusOf[s]]
  BY <1>2 DEF StatusOf
<1>. QED  BY <1>1, <1>3, <1>4, Zenon DEF Feed!End, FeedOf, StatusOf, ToldTo

\* A subscription joins the feed, with what the replay buffer still holds.
LEMMA FeedSubscribe ==
    ASSUME IInv, NEW s \in Subs, Subscribe(s)
    PROVE  Feed!Join(s)
<1>. DEFINE primed == TruncationNotice \o history
            skipped == sent - Len(history)
<1>1. /\ TypeOK /\ HistoryIsRecent /\ SubInv(s) /\ client[s] = "new" /\ Fresh(s)
      /\ chan' = [chan EXCEPT ![s] = primed]
      /\ IF closed THEN registered' = registered ELSE registered' = registered \cup {s}
      /\ client' = [client EXCEPT ![s] = "reading"]
      /\ UNCHANGED <<sent, closed, view>>
      /\ IInv'
  BY SubscribeStep DEF Subscribe, IInv, SubInv, runVars
<1>2. /\ skipped \in 0..sent
      /\ EventNumbers(primed) = [i \in 1..(sent - skipped) |-> skipped + i]
      /\ primed # <<>> /\ primed[1].typ = "notice" <=> skipped > 0
      /\ primed \in Seq(Frames) /\ Exact(primed) /\ Current(primed)
  BY <1>1, PrimedNumbers, PrimedStream
<1>. HIDE DEF primed, skipped
<1>3. Delivered(s)' = primed /\ client'[s] = "reading" /\ Delivered(s) = <<>>
  <2>1. view'[s] = <<>> /\ chan'[s] = primed
    BY <1>1 DEF TypeOK, Fresh
  <2>2. <<>> \o primed = primed
    BY <1>2, ConcatEmptySeq
  <2>. QED  BY <2>1, <2>2, <1>1, StatusCases DEF Delivered, TypeOK
<1>4. \A i \in 1..Len(primed) : primed[i].typ # "lag"
  BY <1>2, CurrentHasNoLag
<1>5. FeedStatus(s)' = IF closed THEN "complete" ELSE "live"
  BY <1>1, <1>3, <1>4 DEF FeedStatus, Fresh
<1>6. FeedStatus(s) = "absent" /\ s \notin ToldTo
  BY <1>1, <1>3 DEF FeedStatus, ToldTo
<1>7. ASSUME NEW t \in Subs, t # s
      PROVE  /\ Delivered(t)' = Delivered(t)
             /\ EventNumbers(Delivered(t))' = EventNumbers(Delivered(t))
             /\ FeedStatus(t)' = FeedStatus(t)
  <2>1. /\ Delivered(t)' = Delivered(t) /\ client'[t] = client[t]
        /\ t \in registered' <=> t \in registered
    BY <1>1, <1>7 DEF Delivered, TypeOK
  <2>. QED  BY <1>1, <2>1 DEF EventNumbers, FeedStatus
<1>8. FeedOf' = [FeedOf EXCEPT ![s] = [i \in 1..(sent - skipped) |-> skipped + i]]
  <2>1. EventNumbers(Delivered(s))' = [i \in 1..(sent - skipped) |-> skipped + i]
    BY <1>2, <1>3 DEF EventNumbers
  <2>2. FeedOf'[s] = [i \in 1..(sent - skipped) |-> skipped + i]
        /\ \A t \in Subs : t # s => FeedOf'[t] = FeedOf[t]
    BY <2>1, <1>7 DEF FeedOf
  <2>3. FeedOf' = [t \in Subs |-> FeedOf'[t]] /\ FeedOf = [t \in Subs |-> FeedOf[t]]
    BY DEF FeedOf
  <2>. HIDE DEF skipped
  <2>. QED  BY <2>2, <2>3, Zenon
<1>9. StatusOf' = [StatusOf EXCEPT ![s] = IF closed THEN "complete" ELSE "live"]
  BY <1>5, <1>7 DEF StatusOf
<1>10. ToldTo' = IF skipped > 0 THEN ToldTo \cup {s} ELSE ToldTo
  <2>1. s \in ToldTo' <=> skipped > 0
    BY <1>2, <1>3 DEF ToldTo
  <2>2. ASSUME NEW t \in Subs, t # s PROVE t \in ToldTo' <=> t \in ToldTo
    BY <1>7, <2>2 DEF ToldTo
  <2>3. ToldTo' \subseteq Subs /\ ToldTo \subseteq Subs
    BY DEF ToldTo
  <2>. QED  BY <2>1, <2>2, <2>3, <1>6
<1>11. StatusOf[s] = "absent"
  BY <1>6 DEF StatusOf
<1>. QED  BY <1>1, <1>2, <1>8, <1>9, <1>10, <1>11, Zenon
          DEF Feed!Join, Feed!Suffix, FeedOf, StatusOf, ToldTo

\* Reading changes nothing of what was handed to a client.
LEMMA FeedRead ==
    ASSUME IInv, NEW s \in Subs, ReadFrame(s)
    PROVE  UNCHANGED Feed!vars
<1>1. /\ TypeOK /\ chan[s] # <<>>
      /\ view' = [view EXCEPT ![s] = Append(view[s], Head(chan[s]))]
      /\ chan' = [chan EXCEPT ![s] = Tail(chan[s])]
      /\ UNCHANGED <<sent, closed, registered, client>>
  BY DEF IInv, ReadFrame, runVars
<1>2. view[s] \in Seq(Frames) /\ chan[s] \in Seq(Frames)
  BY <1>1, StreamTypes
<1>3. ASSUME NEW t \in Subs PROVE Delivered(t)' = Delivered(t)
  <2>1. CASE t = s
    <3>1. view'[s] = Append(view[s], Head(chan[s])) /\ chan'[s] = Tail(chan[s])
      BY <1>1 DEF TypeOK
    <3>2. Append(view[s], Head(chan[s])) \o Tail(chan[s]) = view[s] \o chan[s]
      BY <1>1, <1>2, ReadPreserves
    <3>. QED  BY <2>1, <3>1, <3>2 DEF Delivered
  <2>2. CASE t # s
    BY <1>1, <2>2 DEF Delivered, TypeOK
  <2>. QED  BY <2>1, <2>2
<1>4. ASSUME NEW t \in Subs PROVE FeedStatus(t)' = FeedStatus(t)
  BY <1>1, <1>3 DEF FeedStatus
<1>. QED  BY <1>1, <1>3, <1>4, FeedStutters

\* The end of a stream that was cut off or is complete is nothing new.
LEMMA FeedEOF ==
    ASSUME IInv, NEW s \in Subs, ReadEOF(s)
    PROVE  UNCHANGED Feed!vars
<1>1. /\ TypeOK /\ SubInv(s) /\ s \in chClosed /\ client[s] = "reading"
      /\ client' = [client EXCEPT ![s] = "eof"]
      /\ registered' = registered \ {s}
      /\ UNCHANGED <<sent, closed, chan, view>>
  BY DEF IInv, ReadEOF, Unsubscribe, runVars
<1>2. s \notin registered
  BY <1>1 DEF SubInv, Attached
<1>3. registered' = registered
  BY <1>1, <1>2
<1>4. ASSUME NEW t \in Subs
      PROVE  Delivered(t)' = Delivered(t) /\ FeedStatus(t)' = FeedStatus(t)
  <2>1. Delivered(t)' = Delivered(t)
    BY <1>1 DEF Delivered
  <2>2. /\ client'[t] = "new" <=> client[t] = "new"
        /\ client'[t] = "left" <=> client[t] = "left"
    BY <1>1 DEF TypeOK
  <2>. QED  BY <1>1, <1>3, <2>1, <2>2 DEF FeedStatus
<1>. QED  BY <1>1, <1>4, FeedStutters

\* A client that hangs up leaves the feed, unless it was cut off before.
LEMMA FeedHangUp ==
    ASSUME IInv, NEW s \in Subs, HangUp(s)
    PROVE  Feed!Leave(s) \/ UNCHANGED Feed!vars
<1>1. /\ TypeOK /\ SubInv(s) /\ client[s] = "reading"
      /\ client' = [client EXCEPT ![s] = "left"]
      /\ registered' = registered \ {s}
      /\ UNCHANGED <<sent, closed, chan, view>>
  BY DEF IInv, HangUp, Unsubscribe, runVars
<1>2. \A t \in Subs : Delivered(t)' = Delivered(t)
                      /\ EventNumbers(Delivered(t))' = EventNumbers(Delivered(t))
  BY <1>1 DEF Delivered, EventNumbers
<1>3. client'[s] = "left" /\ s \notin registered'
  BY <1>1 DEF TypeOK
<1>4. ASSUME NEW t \in Subs, t # s PROVE FeedStatus(t)' = FeedStatus(t)
  <2>1. client'[t] = client[t] /\ (t \in registered' <=> t \in registered)
    BY <1>1, <1>4 DEF TypeOK
  <2>. QED  BY <1>1, <1>2, <2>1 DEF FeedStatus
<1>5. CASE HasLag(s)
  <2>1. s \notin registered
    BY <1>5, StatusCases
  <2>2. FeedStatus(s)' = "cut" /\ FeedStatus(s) = "cut"
    BY <1>1, <1>2, <1>3, <1>5, <2>1 DEF FeedStatus, HasLag
  <2>3. \A t \in Subs : FeedStatus(t)' = FeedStatus(t)
    BY <1>4, <2>2
  <2>. QED  BY <1>1, <1>2, <2>3, FeedStutters
<1>6. CASE ~HasLag(s)
  <2>1. FeedStatus(s)' = "gone"
    BY <1>1, <1>2, <1>3, <1>6 DEF FeedStatus, HasLag
  <2>2. FeedStatus(s) \in {"live", "complete"}
    BY <1>1, <1>6, StatusCases DEF FeedStatus, HasLag
  <2>3. StatusOf[s] \in {"live", "complete"} /\ StatusOf' = [StatusOf EXCEPT ![s] = "gone"]
    BY <1>4, <2>1, <2>2 DEF StatusOf
  <2>4. FeedOf' = FeedOf /\ ToldTo' = ToldTo
    BY <1>2 DEF FeedOf, ToldTo
  <2>. QED  BY <1>1, <2>3, <2>4, Zenon DEF Feed!Leave, FeedOf, StatusOf, ToldTo
<1>. QED  BY <1>5, <1>6

\* The broadcaster implements the abstract feed, for any number of clients,
\* every buffer size and both caps of the replay buffer.
THEOREM Refinement == Spec => ImplementsFeed
<1>1. Init => Feed!Init
  BY FeedInit
<1>2. IInv /\ [Next]_vars => [Feed!Next]_Feed!vars
  <2>. SUFFICES ASSUME IInv, [Next]_vars PROVE Feed!Next \/ UNCHANGED Feed!vars
    OBVIOUS
  <2>1. CASE Send
    BY <2>1, FeedSend DEF Feed!Next
  <2>2. CASE Close
    BY <2>2, FeedClose DEF Feed!Next
  <2>3. ASSUME NEW s \in Subs, Subscribe(s) \/ ReadFrame(s) \/ ReadEOF(s) \/ HangUp(s)
        PROVE  Feed!Next \/ UNCHANGED Feed!vars
    <3>1. Feed!Join(s) \/ Feed!Leave(s) \/ UNCHANGED Feed!vars
      BY <2>3, FeedSubscribe, FeedRead, FeedEOF, FeedHangUp
    <3>. QED  BY <3>1, Zenon DEF Feed!Next
  <2>4. CASE UNCHANGED vars
    <3>1. UNCHANGED <<sent, closed, chan, view, client, registered>>
      BY <2>4 DEF vars, runVars, subVars, clientVars
    <3>2. \A s \in Subs : Delivered(s)' = Delivered(s) /\ FeedStatus(s)' = FeedStatus(s)
      BY <3>1 DEF Delivered, FeedStatus
    <3>. QED  BY <3>1, <3>2, FeedStutters
  <2>. QED  BY <2>1, <2>2, <2>3, <2>4 DEF Next
<1>. QED  BY <1>1, <1>2, Invariance, PTL DEF Spec, ImplementsFeed, Feed!Spec

-----------------------------------------------------------------------------
(***************************************************************************)
(* The pipeline's stages, all they ever are.                               *)
(***************************************************************************)
List == expandStages(request)

(***************************************************************************)
(* The row is at its k-th stage: every stage before has an audit that      *)
(* completed, this one has an audit, and no later one has.  At 0 it is     *)
(* pending.                                                                *)
(***************************************************************************)
Finished(row, s) ==
    /\ row.auditOf[s] # NoAudit
    /\ stageOf[row.auditOf[s]] = s
    /\ <<row.auditOf[s], "completed">> \in reported

AtStage(row, k) ==
    /\ row.status = IF k = 0 THEN "pending" ELSE Running(List[k])
    /\ k > 0 => row.auditOf[List[k]] # NoAudit
    /\ \A j \in 1..(k - 1) : Finished(row, List[j])
    /\ \A j \in (k + 1)..Len(List) : row.auditOf[List[j]] = NoAudit

(***************************************************************************)
(* What is true of the row, and of every copy of it, however old.          *)
(***************************************************************************)
Sound(row) ==
    /\ row.stages = List
    /\ \A s \in Stages : row.auditOf[s] # NoAudit => stageOf[row.auditOf[s]] = s
    /\ \/ row.status = "failed"
       \/ row.status = "completed" /\ \A i \in DOMAIN List : Finished(row, List[i])
       \/ \E k \in 0..Len(List) : AtStage(row, k)

(***************************************************************************)
(* Who is about to move the pipeline on: it creates the next audit, or     *)
(* writes a row that is not the failed one.                                *)
(***************************************************************************)
Moving(h) == h.pc = "create" \/ (h.pc = "update" /\ h.copy.status # "failed")

(***************************************************************************)
(* The audits that were launched or are about to be.                       *)
(***************************************************************************)
Launching == launched \cup {actor[x].made : x \in {y \in Actors : At(y, "launch")}}

Names(row) == \A a \in Launching : row.auditOf[stageOf[a]] = a

(***************************************************************************)
(* It is x's turn to move the row on from its k-th stage: the POST before  *)
(* the first stage, then the audit of the stage, which has completed.      *)
(***************************************************************************)
Turn(x, row, k) ==
    /\ AtStage(row, k)
    /\ IF x = Post THEN k = 0
       ELSE k > 0 /\ row.auditOf[List[k]] = x /\ <<x, "completed">> \in reported

(***************************************************************************)
(* The parts of the inductive invariant.  The row, and every copy that is  *)
(* about to be written or built on; and a failed row is written for its    *)
(* own sake, never to launch an audit.                                     *)
(***************************************************************************)
RowIsSound == pl = NoRow \/ Sound(pl)

CopiesAreSound ==
    \A x \in Actors :
      /\ actor[x].pc \in {"create", "update"} => Sound(actor[x].copy)
      /\ At(x, "update") /\ actor[x].copy.status = "failed" => actor[x].made = NoAudit

(***************************************************************************)
(* A completion is reported by the run of the audit itself.                *)
(***************************************************************************)
OwnVerdict ==
    \A x \in Actors : At(x, "lookup") =>
      /\ actor[x].about \in Audits /\ actor[x].made = NoAudit
      /\ actor[x].verdict = "failed"
           \/ (x \in Audits /\ actor[x].about = x /\ <<x, "completed">> \in reported)

(***************************************************************************)
(* At most one actor moves the pipeline on.                                *)
(***************************************************************************)
OneMoves == \A x, y \in Actors : Moving(actor[x]) /\ Moving(actor[y]) => x = y

(***************************************************************************)
(* While the row has not failed, whoever moves it on has the turn to.      *)
(***************************************************************************)
InTurn ==
    \A x \in Actors : Moving(actor[x]) /\ pl.status # "failed" =>
      \E k \in 0..Len(List) : Turn(x, pl, k)

(***************************************************************************)
(* What the one who moves the pipeline on holds: a row that names all that *)
(* were launched, and an audit for a stage that none of them was launched  *)
(* for.                                                                    *)
(***************************************************************************)
Drafts ==
    \A x \in Actors :
      /\ Moving(actor[x]) => Names(actor[x].copy)
      /\ At(x, "create") =>
           /\ actor[x].made = NoAudit
           /\ \E k \in 0..(Len(List) - 1) :
                Turn(x, actor[x].copy, k) /\ actor[x].next = List[k + 1]
      /\ At(x, "update") /\ actor[x].made # NoAudit =>
           /\ stageOf[actor[x].made] \in Stages
           /\ actor[x].copy.auditOf[stageOf[actor[x].made]] = actor[x].made
           /\ \A b \in Launching : stageOf[b] # stageOf[actor[x].made]

(***************************************************************************)
(* A row that has not failed names all that were launched.                 *)
(***************************************************************************)
RowNamesLaunched == pl.status # "failed" => Names(pl)

(***************************************************************************)
(* One audit is launched for a stage.                                      *)
(***************************************************************************)
OneLaunch ==
    /\ \A a \in Launching : a \in Audits /\ stageOf[a] \in Stages
    /\ \A a, b \in Launching : stageOf[a] = stageOf[b] => a = b

(***************************************************************************)
(* Every audit was created for a stage of the list, once those before it   *)
(* had completed.                                                          *)
(***************************************************************************)
InOrder(s) ==
    \E i \in DOMAIN List : List[i] = s /\ \A j \in 1..(i - 1) : CompletedOnce(List[j])

Births ==
    \A a \in Audits :
      /\ At(a, "unborn") => stageOf[a] = NoStage
      /\ stageOf[a] # NoStage => InOrder(stageOf[a]) /\ pl # NoRow

(***************************************************************************)
(* Before the POST there is nothing.                                       *)
(***************************************************************************)
NotPosted ==
    At(Post, "idle") =>
      /\ pl = NoRow /\ launched = {}
      /\ \A x \in Actors : actor[x].pc \in {"idle", "unborn"}
      /\ \A a \in Audits : At(a, "unborn")

(***************************************************************************)
(* The inductive invariant, beside the types.                              *)
(***************************************************************************)
PipelineInv ==
    /\ RowIsSound /\ CopiesAreSound /\ OwnVerdict /\ OneMoves /\ InTurn
    /\ Drafts /\ RowNamesLaunched /\ OneLaunch /\ Births /\ NotPosted

-----------------------------------------------------------------------------
(***************************************************************************)
(* expandStages.  Adding a stage to a list of none, one or two.            *)
(***************************************************************************)
LEMMA AddToNone ==
  ASSUME NEW s
  PROVE  Add(<<>>, s) = <<s>>
PROOF BY DEF Add, Seen

LEMMA AddToOne ==
  ASSUME NEW a \in Stages, NEW s \in Stages
  PROVE  Add(<<a>>, s) = IF s = a THEN <<a>> ELSE <<a, s>>
PROOF
<1>1. DOMAIN <<a>> = {1} /\ <<a>>[1] = a
  OBVIOUS
<1>2. Append(<<a>>, s) = <<a, s>>
  <2>1. <<a>> \in Seq(Stages) /\ <<a, s>> \in Seq(Stages) /\ Len(<<a>>) = 1 /\ Len(<<a, s>>) = 2
    OBVIOUS
  <2>2. <<a, s>>[1] = a /\ <<a, s>>[2] = s
    OBVIOUS
  <2>3. /\ Append(<<a>>, s) \in Seq(Stages) /\ Len(Append(<<a>>, s)) = 2
        /\ Append(<<a>>, s)[1] = a /\ Append(<<a>>, s)[2] = s
    BY <1>1, <2>1, AppendProperties
  <2>4. \A i \in 1..Len(Append(<<a>>, s)) : Append(<<a>>, s)[i] = <<a, s>>[i]
    BY <2>2, <2>3
  <2>. DEFINE t == Append(<<a>>, s)
              u == <<a, s>>
  <2>5. t \in Seq(Stages) /\ u \in Seq(Stages) /\ Len(t) = Len(u)
        /\ \A i \in 1..Len(t) : t[i] = u[i]
    BY <2>1, <2>3, <2>4
  <2>. HIDE DEF t, u
  <2>6. t = u
    BY <2>5, SeqEqual
  <2>. QED  BY <2>6 DEF t, u
<1>. QED  BY <1>1, <1>2 DEF Add, Seen

LEMMA AddToTwo ==
  ASSUME NEW a \in Stages, NEW b \in Stages, NEW s \in Stages
  PROVE  Add(<<a, b>>, s) = IF s \in {a, b} THEN <<a, b>> ELSE <<a, b, s>>
PROOF
<1>1. DOMAIN <<a, b>> = {1, 2} /\ <<a, b>>[1] = a /\ <<a, b>>[2] = b
  OBVIOUS
<1>2. Append(<<a, b>>, s) = <<a, b, s>>
  <2>1. /\ <<a, b>> \in Seq(Stages) /\ Len(<<a, b>>) = 2
        /\ <<a, b, s>> \in Seq(Stages) /\ Len(<<a, b, s>>) = 3
    OBVIOUS
  <2>2. <<a, b, s>>[1] = a /\ <<a, b, s>>[2] = b /\ <<a, b, s>>[3] = s
    OBVIOUS
  <2>3. /\ Append(<<a, b>>, s) \in Seq(Stages) /\ Len(Append(<<a, b>>, s)) = 3
        /\ Append(<<a, b>>, s)[1] = a /\ Append(<<a, b>>, s)[2] = b
        /\ Append(<<a, b>>, s)[3] = s
    BY <1>1, <2>1, AppendProperties
  <2>4. \A i \in 1..Len(Append(<<a, b>>, s)) : Append(<<a, b>>, s)[i] = <<a, b, s>>[i]
    BY <2>2, <2>3
  <2>. DEFINE t == Append(<<a, b>>, s)
              u == <<a, b, s>>
  <2>5. t \in Seq(Stages) /\ u \in Seq(Stages) /\ Len(t) = Len(u)
        /\ \A i \in 1..Len(t) : t[i] = u[i]
    BY <2>1, <2>3, <2>4
  <2>. HIDE DEF t, u
  <2>6. t = u
    BY <2>5, SeqEqual
  <2>. QED  BY <2>6 DEF t, u
<1>. QED  BY <1>1, <1>2 DEF Add, Seen

(***************************************************************************)
(* The seven lists a request can expand to.                                *)
(***************************************************************************)
LEMMA ListValue ==
  ASSUME NEW req \in Request
  PROVE  expandStages(req) =
           IF "prove" \in req.stages
             THEN IF "discover" \in req.stages /\ "scan" \notin req.stages /\ ~req.source
                    THEN <<"discover", "scan", "prove">>
                    ELSE <<"scan", "discover", "prove">>
           ELSE IF "discover" \in req.stages
             THEN IF "scan" \in req.stages \/ req.source
                    THEN <<"scan", "discover">> ELSE <<"discover">>
           ELSE IF "scan" \in req.stages THEN <<"scan">> ELSE <<>>
PROOF
<1>. DEFINE V1 == Visit(<<>>, "scan", req)
            V2 == Visit(V1, "discover", req)
            V3 == Visit(V2, "prove", req)
<1>0. expandStages(req) = V3
  BY DEF expandStages, Order
<1>1. V1 = IF "scan" \in req.stages THEN <<"scan">> ELSE <<>>
  <2>1. Prereqs(req.source)["scan"] = <<>> /\ Len(<<>>) = 0
    BY DEF Prereqs
  <2>2. AddWithPrereqs(<<>>, "scan", req.source) = Add(<<>>, "scan")
    BY <2>1 DEF AddWithPrereqs
  <2>. QED  BY <2>2, AddToNone DEF Visit
<1>2. V2 = IF "discover" \in req.stages
             THEN IF "scan" \in req.stages \/ req.source
                    THEN <<"scan", "discover">> ELSE <<"discover">>
             ELSE V1
  <2>1. ASSUME NEW r
        PROVE  AddWithPrereqs(r, "discover", req.source) =
                 IF req.source THEN Add(Add(r, "scan"), "discover") ELSE Add(r, "discover")
    <3>1. Prereqs(req.source)["discover"] = IF req.source THEN <<"scan">> ELSE <<>>
      BY DEF Prereqs
    <3>2. Len(<<>>) = 0 /\ Len(<<"scan">>) = 1 /\ <<"scan">>[1] = "scan"
      OBVIOUS
    <3>3. CASE req.source
      BY <3>1, <3>2, <3>3 DEF AddWithPrereqs
    <3>4. CASE ~req.source
      BY <3>1, <3>2, <3>4 DEF AddWithPrereqs
    <3>. QED  BY <3>3, <3>4
  <2>2. Add(<<"scan">>, "scan") = <<"scan">> /\ Add(<<"scan">>, "discover") = <<"scan", "discover">>
    BY AddToOne DEF Stages
  <2>3. Add(<<>>, "scan") = <<"scan">> /\ Add(<<>>, "discover") = <<"discover">>
    BY AddToNone
  <2>4. V2 = IF "discover" \in req.stages
               THEN AddWithPrereqs(V1, "discover", req.source) ELSE V1
    BY DEF Visit
  <2>. HIDE DEF V1, V2
  <2>5. CASE "scan" \in req.stages
    BY <1>1, <2>1, <2>2, <2>3, <2>4, <2>5
  <2>6. CASE "scan" \notin req.stages
    BY <1>1, <2>1, <2>2, <2>3, <2>4, <2>6
  <2>. QED  BY <2>5, <2>6
<1>3. V3 = IF "prove" \in req.stages
             THEN Add(Add(Add(V2, "scan"), "discover"), "prove") ELSE V2
  <2>1. Prereqs(req.source)["prove"] = <<"scan", "discover">>
    BY DEF Prereqs
  <2>2. /\ Len(<<"scan", "discover">>) = 2
        /\ <<"scan", "discover">>[1] = "scan" /\ <<"scan", "discover">>[2] = "discover"
    OBVIOUS
  <2>3. AddWithPrereqs(V2, "prove", req.source) = Add(Add(Add(V2, "scan"), "discover"), "prove")
    BY <2>1, <2>2 DEF AddWithPrereqs
  <2>. QED  BY <2>3 DEF Visit
<1>4. /\ Add(Add(Add(<<>>, "scan"), "discover"), "prove") = <<"scan", "discover", "prove">>
      /\ Add(Add(Add(<<"scan">>, "scan"), "discover"), "prove") = <<"scan", "discover", "prove">>
      /\ Add(Add(Add(<<"scan", "discover">>, "scan"), "discover"), "prove")
           = <<"scan", "discover", "prove">>
      /\ Add(Add(Add(<<"discover">>, "scan"), "discover"), "prove")
           = <<"discover", "scan", "prove">>
  BY AddToNone, AddToOne, AddToTwo DEF Stages
<1>. HIDE DEF V1, V2, V3
<1>. QED  BY <1>0, <1>1, <1>2, <1>3, <1>4

-----------------------------------------------------------------------------
LEMMA Tuples ==
  /\ Len(<<>>) = 0 /\ DOMAIN <<>> = {}
  /\ \A a, b, c :
       /\ Len(<<a>>) = 1 /\ DOMAIN <<a>> = {1} /\ <<a>>[1] = a
       /\ Len(<<a, b>>) = 2 /\ DOMAIN <<a, b>> = {1, 2} /\ <<a, b>>[1] = a /\ <<a, b>>[2] = b
       /\ Len(<<a, b, c>>) = 3 /\ DOMAIN <<a, b, c>> = {1, 2, 3}
       /\ <<a, b, c>>[1] = a /\ <<a, b, c>>[2] = b /\ <<a, b, c>>[3] = c
PROOF OBVIOUS

(***************************************************************************)
(* A list of stages without repetition.                                    *)
(***************************************************************************)
LEMMA ListShape ==
  ASSUME request \in Request
  PROVE  /\ List \in Seq(Stages) /\ List \in StageLists
         /\ Len(List) \in Nat /\ DOMAIN List = 1..Len(List)
         /\ \A i \in 1..Len(List) : List[i] \in Stages
         /\ \A i, j \in 1..Len(List) : List[i] = List[j] => i = j
PROOF
<1>1. List \in {<<>>, <<"scan">>, <<"discover">>, <<"scan", "discover">>,
                <<"scan", "discover", "prove">>, <<"discover", "scan", "prove">>}
  BY ListValue DEF List
<1>2. ASSUME NEW l \in {<<>>, <<"scan">>, <<"discover">>, <<"scan", "discover">>,
                        <<"scan", "discover", "prove">>, <<"discover", "scan", "prove">>}
      PROVE  /\ l \in Seq(Stages) /\ Len(l) \in 0..3
             /\ \A i, j \in 1..Len(l) : l[i] = l[j] => i = j
  <2>1. CASE l = <<>>
    BY <2>1, Tuples
  <2>2. CASE l = <<"scan">>
    BY <2>2, Tuples DEF Stages
  <2>3. CASE l = <<"discover">>
    BY <2>3, Tuples DEF Stages
  <2>4. CASE l = <<"scan", "discover">>
    BY <2>4, Tuples DEF Stages
  <2>5. CASE l = <<"scan", "discover", "prove">>
    BY <2>5, Tuples DEF Stages
  <2>6. CASE l = <<"discover", "scan", "prove">>
    BY <2>6, Tuples DEF Stages
  <2>. QED  BY <1>2, <2>1, <2>2, <2>3, <2>4, <2>5, <2>6
<1>3. List \in Seq(Stages) /\ Len(List) \in 0..3
  BY <1>1, <1>2
<1>4. DOMAIN List = 1..Len(List) /\ List \in [1..Len(List) -> Stages]
  BY <1>3, LenProperties
<1>. QED  BY <1>1, <1>2, <1>3, <1>4, ZenonT(60) DEF StageLists

(***************************************************************************)
(* It holds exactly the required stages, each after what it needs.         *)
(***************************************************************************)
LEMMA ListIsRequired ==
  ASSUME request \in Request
  PROVE  /\ {List[i] : i \in DOMAIN List} = Required
         /\ \A i \in DOMAIN List :
              Needs(List[i]) \subseteq {List[j] : j \in 1..(i - 1)} \ {List[i]}
         /\ Len(List) = Cardinality(Required)
PROOF
<1>. DEFINE R == request.stages
            S == "scan"
            D == "discover"
            P == "prove"
<1>1. R \subseteq {S, D, P}
  BY DEF Request, Stages
<1>2. /\ Needs(S) = {}
      /\ Needs(D) = IF request.source THEN {S} ELSE {}
      /\ Needs(P) = {S, D}
  BY DEF Needs
<1>3. Required = R \cup (IF D \in R /\ request.source THEN {S} ELSE {})
                   \cup (IF P \in R THEN {S, D} ELSE {})
  BY <1>1, <1>2 DEF Required
<1>4. /\ Cardinality({S}) = 1 /\ Cardinality({D}) = 1
      /\ Cardinality({S, D}) = 2 /\ Cardinality({S, D, P}) = 3
  <2>1. Cardinality({S}) = 1 /\ Cardinality({D}) = 1 /\ IsFiniteSet({S})
    BY FS_Singleton
  <2>2. Cardinality({S} \cup {D}) = 2 /\ IsFiniteSet({S} \cup {D})
    BY <2>1, FS_AddElement
  <2>3. Cardinality(({S} \cup {D}) \cup {P}) = 3
    BY <2>2, FS_AddElement
  <2>4. {S} \cup {D} = {S, D} /\ ({S} \cup {D}) \cup {P} = {S, D, P}
    OBVIOUS
  <2>. QED  BY <2>1, <2>2, <2>3, <2>4
<1>5. CASE List = <<>> /\ Required = {}
  <2>1. DOMAIN List = {} /\ Len(List) = 0
    BY <1>5, Tuples
  <2>2. {List[i] : i \in DOMAIN List} = Required
    BY <1>5, <2>1
  <2>3. Len(List) = Cardinality(Required)
    BY <1>5, <2>1, FS_EmptySet
  <2>. QED  BY <2>1, <2>2, <2>3
<1>6. CASE List = <<S>> /\ Required = {S}
  <2>1. DOMAIN List = {1} /\ Len(List) = 1
    BY <1>6, Tuples
  <2>2. List[1] = S
    BY <1>6, Tuples
  <2>3. {List[i] : i \in DOMAIN List} = Required
    BY <1>6, <2>1, <2>2
  <2>4. Len(List) = Cardinality(Required)
    BY <1>6, <1>4, <2>1
  <2>5. Needs(List[1]) \subseteq {List[j] : j \in 1..(1 - 1)} \ {List[1]}
    <3>1. 1..(1 - 1) = {}
      OBVIOUS
    <3>. QED  BY <1>2, <1>6, <2>2, <3>1
  <2>. QED  BY <2>1, <2>3, <2>4, <2>5
<1>7. CASE List = <<D>> /\ Required = {D} /\ ~request.source
  <2>1. DOMAIN List = {1} /\ Len(List) = 1
    BY <1>7, Tuples
  <2>2. List[1] = D
    BY <1>7, Tuples
  <2>3. {List[i] : i \in DOMAIN List} = Required
    BY <1>7, <2>1, <2>2
  <2>4. Len(List) = Cardinality(Required)
    BY <1>7, <1>4, <2>1
  <2>5. Needs(List[1]) \subseteq {List[j] : j \in 1..(1 - 1)} \ {List[1]}
    <3>1. 1..(1 - 1) = {}
      OBVIOUS
    <3>. QED  BY <1>2, <1>7, <2>2, <3>1
  <2>. QED  BY <2>1, <2>3, <2>4, <2>5
<1>8. CASE List = <<S, D>> /\ Required = {S, D}
  <2>1. DOMAIN List = {1, 2} /\ Len(List) = 2
    BY <1>8, Tuples
  <2>2. List[1] = S /\ List[2] = D
    BY <1>8, Tuples
  <2>3. {List[i] : i \in DOMAIN List} = Required
    BY <1>8, <2>1, <2>2
  <2>4. Len(List) = Cardinality(Required)
    BY <1>8, <1>4, <2>1
  <2>5. Needs(List[1]) \subseteq {List[j] : j \in 1..(1 - 1)} \ {List[1]}
    <3>1. 1..(1 - 1) = {}
      OBVIOUS
    <3>. QED  BY <1>2, <1>8, <2>2, <3>1
  <2>6. Needs(List[2]) \subseteq {List[j] : j \in 1..(2 - 1)} \ {List[2]}
    <3>1. 1..(2 - 1) = {1}
      OBVIOUS
    <3>. QED  BY <1>2, <1>8, <2>2, <3>1
  <2>. QED  BY <2>1, <2>3, <2>4, <2>5, <2>6
<1>9. CASE List = <<S, D, P>> /\ Required = {S, D, P}
  <2>1. DOMAIN List = {1, 2, 3} /\ Len(List) = 3
    BY <1>9, Tuples
  <2>2. List[1] = S /\ List[2] = D /\ List[3] = P
    BY <1>9, Tuples
  <2>3. {List[i] : i \in DOMAIN List} = Required
    BY <1>9, <2>1, <2>2
  <2>4. Len(List) = Cardinality(Required)
    BY <1>9, <1>4, <2>1
  <2>5. Needs(List[1]) \subseteq {List[j] : j \in 1..(1 - 1)} \ {List[1]}
    <3>1. 1..(1 - 1) = {}
      OBVIOUS
    <3>. QED  BY <1>2, <1>9, <2>2, <3>1
  <2>6. Needs(List[2]) \subseteq {List[j] : j \in 1..(2 - 1)} \ {List[2]}
    <3>1. 1..(2 - 1) = {1}
      OBVIOUS
    <3>. QED  BY <1>2, <1>9, <2>2, <3>1
  <2>7. Needs(List[3]) \subseteq {List[j] : j \in 1..(3 - 1)} \ {List[3]}
    <3>1. 1..(3 - 1) = {1, 2}
      OBVIOUS
    <3>. QED  BY <1>2, <1>9, <2>2, <3>1
  <2>. QED  BY <2>1, <2>3, <2>4, <2>5, <2>6, <2>7
<1>10. CASE List = <<D, S, P>> /\ Required = {S, D, P} /\ ~request.source
  <2>1. DOMAIN List = {1, 2, 3} /\ Len(List) = 3
    BY <1>10, Tuples
  <2>2. List[1] = D /\ List[2] = S /\ List[3] = P
    BY <1>10, Tuples
  <2>3. {List[i] : i \in DOMAIN List} = Required
    BY <1>10, <2>1, <2>2
  <2>4. Len(List) = Cardinality(Required)
    BY <1>10, <1>4, <2>1
  <2>5. Needs(List[1]) \subseteq {List[j] : j \in 1..(1 - 1)} \ {List[1]}
    <3>1. 1..(1 - 1) = {}
      OBVIOUS
    <3>. QED  BY <1>2, <1>10, <2>2, <3>1
  <2>6. Needs(List[2]) \subseteq {List[j] : j \in 1..(2 - 1)} \ {List[2]}
    <3>1. 1..(2 - 1) = {1}
      OBVIOUS
    <3>. QED  BY <1>2, <1>10, <2>2, <3>1
  <2>7. Needs(List[3]) \subseteq {List[j] : j \in 1..(3 - 1)} \ {List[3]}
    <3>1. 1..(3 - 1) = {1, 2}
      OBVIOUS
    <3>. QED  BY <1>2, <1>10, <2>2, <3>1
  <2>. QED  BY <2>1, <2>3, <2>4, <2>5, <2>6, <2>7
<1>11. List = IF P \in R
                THEN IF D \in R /\ S \notin R /\ ~request.source THEN <<D, S, P>> ELSE <<S, D, P>>
              ELSE IF D \in R THEN IF S \in R \/ request.source THEN <<S, D>> ELSE <<D>>
              ELSE IF S \in R THEN <<S>> ELSE <<>>
  BY ListValue DEF List
<1>12. CASE P \in R
  <2>1. Required = {S, D, P}
    BY <1>1, <1>3, <1>12
  <2>. QED  BY <1>9, <1>10, <1>11, <1>12, <2>1
<1>13. CASE P \notin R
  <2>1. Required = R \cup (IF D \in R /\ request.source THEN {S} ELSE {}) /\ R \subseteq {S, D}
    BY <1>1, <1>3, <1>13
  <2>2. CASE D \in R /\ (S \in R \/ request.source)
    <3>1. Required = {S, D}
      BY <2>1, <2>2
    <3>. QED  BY <1>8, <1>11, <1>13, <2>2, <3>1
  <2>3. CASE D \in R /\ S \notin R /\ ~request.source
    <3>1. Required = {D}
      BY <2>1, <2>3
    <3>. QED  BY <1>7, <1>11, <1>13, <2>3, <3>1
  <2>4. CASE D \notin R /\ S \in R
    <3>1. Required = {S}
      BY <2>1, <2>4
    <3>. QED  BY <1>6, <1>11, <1>13, <2>4, <3>1
  <2>5. CASE D \notin R /\ S \notin R
    <3>1. Required = {}
      BY <2>1, <2>5
    <3>. QED  BY <1>5, <1>11, <1>13, <2>5, <3>1
  <2>. QED  BY <2>2, <2>3, <2>4, <2>5
<1>. QED  BY <1>12, <1>13

(***************************************************************************)
(* nextStage: the stage after the k-th, while there is one.                *)
(***************************************************************************)
LEMMA NextStageValue ==
  ASSUME request \in Request, NEW k \in 1..Len(List)
  PROVE  nextStage(List, List[k]) = IF k < Len(List) THEN List[k + 1] ELSE NoStage
PROOF
<1>. DEFINE i == CHOOSE i \in DOMAIN List : List[i] = List[k]
<1>1. i \in DOMAIN List /\ List[i] = List[k]
  BY ListShape
<1>2. i = k
  BY <1>1, ListShape
<1>3. k + 1 \in DOMAIN List <=> k < Len(List)
  BY ListShape
<1>4. nextStage(List, List[k]) = IF i + 1 \in DOMAIN List THEN List[i + 1] ELSE NoStage
  BY DEF nextStage
<1>. QED  BY <1>2, <1>3, <1>4

-----------------------------------------------------------------------------
(***************************************************************************)
(* Types.  Also, an actor about to create an audit knows which stage it is *)
(* for, and one about to launch an audit has one.                          *)
(***************************************************************************)
Ready(h) ==
    /\ h.pc = "create" => h.next \in Stages
    /\ h.pc = "launch" => h.made \in Audits

PipelineTyped == PipelineTypeOK /\ \A x \in Actors : Ready(actor[x])

LEMMA RowShape ==
  /\ NoRow \in Row /\ NoRow.status = "absent" /\ NoRow.stages = <<>>
  /\ \A s \in Stages : NoRow.auditOf[s] = NoAudit
PROOF
<1>1. <<>> \in [1..0 -> Stages] /\ 0 \in 0..3
  OBVIOUS
<1>2. <<>> \in StageLists
  BY <1>1 DEF StageLists
<1>3. [s \in Stages |-> NoAudit] \in [Stages -> Audits \cup {NoAudit}]
  OBVIOUS
<1>. QED  BY <1>2, <1>3 DEF NoRow, Row, Status

LEMMA RunningShape ==
  /\ \A s \in Stages : /\ Running(s) \in Status
                       /\ Running(s) \notin Terminal \cup {"absent", "pending"}
  /\ \A s, t \in Stages : Running(s) = Running(t) => s = t
PROOF
<1>1. \A s \in Stages : Running(s) \in Status
  BY DEF Status
<1>2. /\ Running("scan") = "scan_running" /\ Running("discover") = "discover_running"
      /\ Running("prove") = "prove_running"
  BY DEF Running
<1>. QED  BY <1>1, <1>2 DEF Stages, Terminal

(***************************************************************************)
(* The rows the code makes out of others.                                  *)
(***************************************************************************)
LEMMA StatusSet ==
  ASSUME NEW row \in Row, NEW st \in Status
  PROVE  LET r == [row EXCEPT !.status = st]
         IN  /\ r \in Row /\ r.status = st
             /\ r.stages = row.stages /\ r.auditOf = row.auditOf
PROOF BY DEF Row

LEMMA AssignedShape ==
  ASSUME NEW row \in Row, NEW s \in Stages, NEW a \in Audits
  PROVE  LET r == Assigned(row, s, a)
         IN  /\ r \in Row /\ r.status = Running(s) /\ r.stages = row.stages
             /\ r.auditOf[s] = a
             /\ \A t \in Stages : t # s => r.auditOf[t] = row.auditOf[t]
PROOF
<1>. DEFINE f == [row.auditOf EXCEPT ![s] = a]
<1>1. row.auditOf \in [Stages -> Audits \cup {NoAudit}]
  BY DEF Row
<1>2. /\ f \in [Stages -> Audits \cup {NoAudit}] /\ f[s] = a
      /\ \A t \in Stages : t # s => f[t] = row.auditOf[t]
  BY <1>1
<1>3. Assigned(row, s, a) = [row EXCEPT !.status = Running(s), !.auditOf = f]
  BY DEF Assigned, Row
<1>. HIDE DEF f
<1>4. Running(s) \in Status
  BY RunningShape
<1>. QED  BY <1>2, <1>3, <1>4 DEF Row

LEMMA PostedShape ==
  ASSUME request \in Request
  PROVE  LET r == [NoRow EXCEPT !.status = "pending", !.stages = List]
         IN  /\ r \in Row /\ r.status = "pending" /\ r.stages = List
             /\ \A s \in Stages : r.auditOf[s] = NoAudit
PROOF BY ListShape, RowShape DEF NoRow, Row, Status

(***************************************************************************)
(* The records of the actors.                                              *)
(***************************************************************************)
LEMMA RestingShape ==
  ASSUME NEW pc \in PCs
  PROVE  /\ Resting(pc) \in Actor /\ Resting(pc).pc = pc
         /\ Resting(pc).made = NoAudit
PROOF BY RowShape DEF Resting, Actor

Reporting(a, v) == [Resting("lookup") EXCEPT !.about = a, !.verdict = v]
Creating(row, s) == [Resting("create") EXCEPT !.copy = row, !.next = s]

LEMMA ReportingShape ==
  ASSUME NEW a \in Audits, NEW v \in Terminal
  PROVE  /\ Reporting(a, v) \in Actor /\ Reporting(a, v).pc = "lookup"
         /\ Reporting(a, v).about = a /\ Reporting(a, v).verdict = v
         /\ Reporting(a, v).made = NoAudit
PROOF BY RowShape DEF Reporting, Resting, Actor, PCs, Advancing

LEMMA CreatingShape ==
  ASSUME NEW row \in Row, NEW s \in Stages
  PROVE  /\ Creating(row, s) \in Actor /\ Creating(row, s).pc = "create"
         /\ Creating(row, s).copy = row /\ Creating(row, s).next = s
         /\ Creating(row, s).made = NoAudit
PROOF BY DEF Creating, Resting, Actor, PCs, Advancing

LEMMA HeldShape ==
  ASSUME NEW h \in Actor, NEW row \in Row, NEW s \in Stages, NEW a \in Audits
  PROVE  /\ LET r == [h EXCEPT !.pc = "update", !.copy = row]
            IN  /\ r \in Actor /\ r.pc = "update" /\ r.copy = row
                /\ r.made = h.made /\ r.next = h.next
         /\ LET r == [h EXCEPT !.pc = "create", !.copy = row, !.next = s]
            IN  /\ r \in Actor /\ r.pc = "create" /\ r.copy = row
                /\ r.made = h.made /\ r.next = s
         /\ LET r == [h EXCEPT !.pc = "update", !.made = a, !.copy = row]
            IN  /\ r \in Actor /\ r.pc = "update" /\ r.copy = row
                /\ r.made = a /\ r.next = h.next
         /\ LET r == [h EXCEPT !.pc = "launch"]
            IN  /\ r \in Actor /\ r.pc = "launch"
                /\ r.made = h.made
PROOF BY DEF Actor, PCs, Advancing

LEMMA BecomesEffect ==
  ASSUME actor \in [Actors -> Actor], NEW x \in Actors, NEW r \in Actor, Becomes(x, r)
  PROVE  /\ actor' \in [Actors -> Actor]
         /\ \A z \in Actors : actor'[z] = IF z = x THEN r ELSE actor[z]
PROOF BY DEF Becomes

LEMMA FaultTyped ==
  ASSUME faults \in 0..MaxFaults, Fault \/ NoFault
  PROVE  faults' \in 0..MaxFaults
PROOF BY BoundsAssumption DEF Fault, NoFault

(***************************************************************************)
(* A step that gives one actor a record, and types the rest.               *)
(***************************************************************************)
LEMMA BecomesTyped ==
  ASSUME PipelineTyped, NEW x \in Actors, NEW r \in Actor, Becomes(x, r),
         Ready(r),
         request' = request, pl' \in Row, stageOf' = stageOf, launched' = launched,
         reported' \subseteq Audits \X Terminal, crashes' = crashes, Fault \/ NoFault
  PROVE  PipelineTyped'
PROOF
<1>1. actor \in [Actors -> Actor] /\ faults \in 0..MaxFaults
  BY DEF PipelineTyped, PipelineTypeOK
<1>2. /\ actor' \in [Actors -> Actor]
      /\ \A z \in Actors : actor'[z] = IF z = x THEN r ELSE actor[z]
  BY <1>1, BecomesEffect
<1>3. faults' \in 0..MaxFaults
  BY <1>1, FaultTyped
<1>4. \A z \in Actors : Ready(actor'[z])
  BY <1>2 DEF PipelineTyped
<1>5. /\ request' \in Request /\ stageOf' \in [Audits -> Stages \cup {NoStage}]
      /\ launched' \subseteq Audits /\ crashes' \in 0..MaxCrashes
  BY DEF PipelineTyped, PipelineTypeOK
<1>. QED  BY <1>2, <1>3, <1>4, <1>5 DEF PipelineTyped, PipelineTypeOK, Ready

(***************************************************************************)
(* What each operation makes of the actor that takes it.                   *)
(***************************************************************************)
Posted == [NoRow EXCEPT !.status = "pending", !.stages = List]

LEMMA CreatePipelineEffect ==
  ASSUME PipelineTyped, CreatePipeline
  PROVE  /\ At(Post, "idle") /\ Post \in Actors
         /\ UNCHANGED <<request, stageOf, launched, reported, crashes>>
         /\ \/ pl' = Posted /\ NoFault /\ List = <<>> /\ Becomes(Post, Resting("ended"))
            \/ /\ pl' = Posted /\ NoFault /\ List # <<>> /\ List[1] \in Stages
               /\ Becomes(Post, Creating(Posted, List[1]))
            \/ pl' = pl /\ Fault /\ Becomes(Post, Resting("ended"))
PROOF
<1>1. request \in Request /\ Post \in Actors
  BY DEF PipelineTyped, PipelineTypeOK, Actors
<1>2. Posted.stages = List
  BY <1>1, PostedShape DEF Posted
<1>3. List # <<>> => List[1] \in Stages
  BY <1>1, ListShape, EmptySeq
<1>4. Posted = [NoRow EXCEPT !.status = "pending", !.stages = expandStages(request)]
  BY DEF Posted, List
<1>. QED  BY <1>1, <1>2, <1>3, <1>4 DEF CreatePipeline, Creating, Done

LEMMA ReportEffect ==
  ASSUME NEW x, NEW a, NEW v, Report(x, a, v)
  PROVE  /\ Becomes(x, Reporting(a, v)) /\ reported' = reported \cup {<<a, v>>}
         /\ UNCHANGED <<request, pl, stageOf, launched, crashes>>
PROOF BY DEF Report, Reporting

(***************************************************************************)
(* AdvanceStage's decision: give up, write the failed row, write the       *)
(* completed one, or go on to the next stage.                              *)
(***************************************************************************)
Failing(h) == [h EXCEPT !.pc = "update", !.copy = [pl EXCEPT !.status = "failed"]]
Completing(h) == [h EXCEPT !.pc = "update", !.copy = [pl EXCEPT !.status = "completed"]]
GoingOn(h, s) == [h EXCEPT !.pc = "create", !.copy = pl, !.next = s]

MayAdvance(a) == Owns(pl, a) /\ Advances(pl, a)

LEMMA LookupEffect ==
  ASSUME PipelineTyped, NEW x \in Actors, Lookup(x)
  PROVE  LET a == actor[x].about
             next == nextStage(pl.stages, currentStage(pl, a))
         IN  /\ At(x, "lookup") /\ (Fault \/ NoFault)
             /\ UNCHANGED <<request, pl, stageOf, launched, reported, crashes>>
             /\ \/ Becomes(x, Resting("ended"))
                \/ Owns(pl, a) /\ Becomes(x, Failing(actor[x]))
                \/ /\ MayAdvance(a) /\ actor[x].verdict = "completed" /\ next = NoStage
                   /\ Becomes(x, Completing(actor[x]))
                \/ /\ MayAdvance(a) /\ actor[x].verdict = "completed" /\ next \in Stages
                   /\ Becomes(x, GoingOn(actor[x], next))
PROOF
<1>. DEFINE a == actor[x].about
            next == nextStage(pl.stages, currentStage(pl, a))
<1>1. next \in Stages \cup {NoStage}
  <2>1. pl.stages \in StageLists
    BY DEF PipelineTyped, PipelineTypeOK, Row
  <2>2. \A i \in DOMAIN pl.stages : pl.stages[i] \in Stages
    BY <2>1 DEF StageLists
  <2>. QED  BY <2>2 DEF nextStage
<1>2. /\ At(x, "lookup")
      /\ \/ Owns(pl, a) /\ Decide(x, pl, a, actor[x].verdict) /\ NoFault
         \/ Done(x) /\ (Fault \/ NoFault)
      /\ UNCHANGED <<request, pl, stageOf, launched, reported, crashes>>
  BY DEF Lookup
<1>3. CASE Owns(pl, a) /\ Decide(x, pl, a, actor[x].verdict)
  BY <1>1, <1>2, <1>3 DEF Decide, Done, Failing, Completing, GoingOn, MayAdvance
<1>4. CASE Done(x)
  BY <1>2, <1>4 DEF Done
<1>. QED  BY <1>2, <1>3, <1>4

LEMMA DecisionShape ==
  ASSUME PipelineTyped, NEW x \in Actors, NEW s \in Stages
  PROVE  LET h == actor[x] IN
         /\ Failing(h) \in Actor /\ Failing(h).pc = "update" /\ Failing(h).made = h.made
         /\ Failing(h).copy \in Row /\ Failing(h).copy.status = "failed"
         /\ Failing(h).copy.stages = pl.stages /\ Failing(h).copy.auditOf = pl.auditOf
         /\ Completing(h) \in Actor /\ Completing(h).pc = "update" /\ Completing(h).made = h.made
         /\ Completing(h).copy \in Row /\ Completing(h).copy.status = "completed"
         /\ Completing(h).copy.stages = pl.stages /\ Completing(h).copy.auditOf = pl.auditOf
         /\ GoingOn(h, s) \in Actor /\ GoingOn(h, s).pc = "create" /\ GoingOn(h, s).made = h.made
         /\ GoingOn(h, s).copy = pl /\ GoingOn(h, s).next = s
PROOF
<1>. DEFINE h == actor[x]
            F == [pl EXCEPT !.status = "failed"]
            C == [pl EXCEPT !.status = "completed"]
<1>1. h \in Actor /\ pl \in Row
  BY DEF PipelineTyped, PipelineTypeOK
<1>2. "failed" \in Status /\ "completed" \in Status
  BY DEF Status, Terminal
<1>3. /\ F \in Row /\ F.status = "failed" /\ F.stages = pl.stages /\ F.auditOf = pl.auditOf
      /\ C \in Row /\ C.status = "completed" /\ C.stages = pl.stages /\ C.auditOf = pl.auditOf
  BY <1>1, <1>2, StatusSet
<1>4. /\ Failing(h) = [h EXCEPT !.pc = "update", !.copy = F]
      /\ Completing(h) = [h EXCEPT !.pc = "update", !.copy = C]
      /\ GoingOn(h, s) = [h EXCEPT !.pc = "create", !.copy = pl, !.next = s]
  BY DEF Failing, Completing, GoingOn
<1>. HIDE DEF h, F, C
<1>5. /\ Failing(h) \in Actor /\ Failing(h).pc = "update" /\ Failing(h).copy = F
      /\ Failing(h).made = h.made
  BY <1>1, <1>3, <1>4 DEF Actor, PCs, Advancing
<1>6. /\ Completing(h) \in Actor /\ Completing(h).pc = "update" /\ Completing(h).copy = C
      /\ Completing(h).made = h.made
  BY <1>1, <1>3, <1>4 DEF Actor, PCs, Advancing
<1>7. /\ GoingOn(h, s) \in Actor /\ GoingOn(h, s).pc = "create" /\ GoingOn(h, s).copy = pl
      /\ GoingOn(h, s).made = h.made /\ GoingOn(h, s).next = s
  BY <1>1, <1>4 DEF Actor, PCs, Advancing
<1>. QED  BY <1>3, <1>5, <1>6, <1>7 DEF h

(***************************************************************************)
(* auditSvc.Create: a new audit, and the row that names it in hand.        *)
(***************************************************************************)
Made(h, a) == [h EXCEPT !.pc = "update", !.made = a, !.copy = Assigned(h.copy, h.next, a)]

LEMMA CreateAuditEffect ==
  ASSUME PipelineTyped, NEW x \in Actors, CreateAudit(x)
  PROVE  /\ At(x, "create") /\ UNCHANGED <<request, pl, launched, reported, crashes>>
         /\ \/ UNCHANGED stageOf /\ Becomes(x, Resting("ended")) /\ Fault
            \/ /\ NoFault
               /\ \E a \in Audits :
                    /\ At(a, "unborn") /\ a # x
                    /\ stageOf' = [stageOf EXCEPT ![a] = actor[x].next]
                    /\ actor' = [z \in Actors |-> IF z = x THEN Made(actor[x], a)
                                   ELSE IF z = a THEN Resting("created") ELSE actor[z]]
PROOF
<1>1. actor \in [Actors -> Actor] /\ \A a \in Audits : a \in Actors
  BY DEF PipelineTyped, PipelineTypeOK, Actors
<1>2. /\ At(x, "create") /\ UNCHANGED <<request, pl, launched, reported, crashes>>
  BY DEF CreateAudit
<1>3. CASE Done(x) /\ UNCHANGED stageOf /\ Fault
  BY <1>2, <1>3 DEF Done
<1>4. ASSUME NoFault, NEW a \in Audits, At(a, "unborn"),
             stageOf' = [stageOf EXCEPT ![a] = actor[x].next],
             actor' = [actor EXCEPT
                         ![a] = Resting("created"),
                         ![x] = [@ EXCEPT !.pc = "update", !.made = a,
                              !.copy = Assigned(actor[x].copy, actor[x].next, a)]]
      PROVE  /\ a # x
             /\ actor' = [z \in Actors |-> IF z = x THEN Made(actor[x], a)
                            ELSE IF z = a THEN Resting("created") ELSE actor[z]]
  <2>1. a # x
    BY <1>2, <1>4 DEF At
  <2>2. actor' = [actor EXCEPT ![a] = Resting("created"), ![x] = Made(actor[x], a)]
    BY <1>1, <1>4, <2>1 DEF Made
  <2>. HIDE DEF Made
  <2>. QED  BY <1>1, <2>1, <2>2
<1>. QED  BY <1>2, <1>3, <1>4 DEF CreateAudit

LEMMA UpdateEffect ==
  ASSUME PipelineTyped, NEW x \in Actors, UpdatePipeline(x)
  PROVE  /\ At(x, "update") /\ UNCHANGED <<request, stageOf, launched, reported, crashes>>
         /\ \/ pl' = pl /\ Becomes(x, Resting("ended")) /\ Fault
            \/ /\ pl' = actor[x].copy /\ NoFault /\ actor[x].made = NoAudit
               /\ Becomes(x, Resting("ended"))
            \/ /\ pl' = actor[x].copy /\ NoFault /\ actor[x].made # NoAudit
               /\ Becomes(x, [actor[x] EXCEPT !.pc = "launch"])
PROOF BY DEF UpdatePipeline, Done

LEMMA LaunchEffect ==
  ASSUME PipelineTyped, NEW x \in Actors, Launch(x)
  PROVE  LET a == actor[x].made
         IN  /\ At(x, "launch") /\ UNCHANGED <<request, pl, stageOf, reported, faults, crashes>>
             /\ \/ Becomes(x, Resting("ended")) /\ launched' = launched
                \/ /\ At(a, "created") /\ a # x /\ launched' = launched \cup {a}
                   /\ actor' = [z \in Actors |-> IF z = x THEN Resting("ended")
                                  ELSE IF z = a THEN Resting("running") ELSE actor[z]]
PROOF
<1>. DEFINE a == actor[x].made
<1>1. actor \in [Actors -> Actor]
  BY DEF PipelineTyped, PipelineTypeOK
<1>2. At(x, "launch") /\ UNCHANGED <<request, pl, stageOf, reported, faults, crashes>>
  BY DEF Launch
<1>3. CASE At(a, "created")
  <2>1. a # x
    BY <1>2, <1>3 DEF At
  <2>2. /\ actor' = [actor EXCEPT ![a] = Resting("running"), ![x] = Resting("ended")]
        /\ launched' = launched \cup {a}
    BY <1>3 DEF Launch
  <2>3. actor' = [z \in Actors |-> IF z = x THEN Resting("ended")
                                   ELSE IF z = a THEN Resting("running") ELSE actor[z]]
    BY <1>1, <2>1, <2>2
  <2>. QED  BY <1>2, <1>3, <2>1, <2>2, <2>3
<1>4. CASE ~At(a, "created")
  BY <1>2, <1>4 DEF Launch, Done
<1>. QED  BY <1>3, <1>4

LEMMA MadeShape ==
  ASSUME NEW h \in Actor, h.next \in Stages, NEW a \in Audits
  PROVE  LET r == Made(h, a)
         IN  /\ r \in Actor /\ r.pc = "update" /\ r.made = a
             /\ r.copy \in Row /\ r.copy.status = Running(h.next) /\ r.copy.stages = h.copy.stages
             /\ r.copy.auditOf[h.next] = a
             /\ \A t \in Stages : t # h.next => r.copy.auditOf[t] = h.copy.auditOf[t]
PROOF
<1>. DEFINE row == Assigned(h.copy, h.next, a)
<1>1. h.copy \in Row
  BY DEF Actor
<1>2. /\ row \in Row /\ row.status = Running(h.next) /\ row.stages = h.copy.stages
      /\ row.auditOf[h.next] = a
      /\ \A t \in Stages : t # h.next => row.auditOf[t] = h.copy.auditOf[t]
  BY <1>1, AssignedShape
<1>3. Made(h, a) = [h EXCEPT !.pc = "update", !.made = a, !.copy = row]
  BY DEF Made
<1>. HIDE DEF row
<1>4. Made(h, a) \in Actor /\ Made(h, a).pc = "update" /\ Made(h, a).made = a
      /\ Made(h, a).copy = row
  BY <1>2, <1>3 DEF Actor, PCs, Advancing
<1>. QED  BY <1>2, <1>4

(***************************************************************************)
(* Every step of a stage that is reported to AdvanceStage, with whom and   *)
(* what.                                                                   *)
(***************************************************************************)
LEMMA ReportTyped ==
  ASSUME PipelineTyped, NEW x \in Actors, NEW a \in Audits, NEW v \in Terminal,
         Report(x, a, v), Fault \/ NoFault
  PROVE  PipelineTyped'
PROOF
<1>1. /\ Reporting(a, v) \in Actor /\ Ready(Reporting(a, v))
      /\ Becomes(x, Reporting(a, v)) /\ reported' = reported \cup {<<a, v>>}
      /\ UNCHANGED <<request, pl, stageOf, launched, crashes>>
  BY ReportingShape, ReportEffect DEF Ready
<1>2. pl \in Row /\ reported \subseteq Audits \X Terminal
  BY DEF PipelineTyped, PipelineTypeOK
<1>3. reported' \subseteq Audits \X Terminal
  BY <1>1, <1>2
<1>. QED  BY <1>1, <1>2, <1>3, BecomesTyped

LEMMA PipelineTypeStep ==
  ASSUME PipelineTyped, [PipelineNext]_plVars
  PROVE  PipelineTyped'
PROOF
<1>1. /\ request \in Request /\ pl \in Row /\ stageOf \in [Audits -> Stages \cup {NoStage}]
      /\ actor \in [Actors -> Actor] /\ launched \subseteq Audits
      /\ reported \subseteq Audits \X Terminal
      /\ faults \in 0..MaxFaults /\ crashes \in 0..MaxCrashes
  BY DEF PipelineTyped, PipelineTypeOK
<1>2. \A x \in Actors : Ready(actor[x])
  BY DEF PipelineTyped
<1>3. Audits \subseteq Actors /\ Viewers \subseteq Actors
  BY DEF Actors
<1>4. \A pc \in PCs : /\ Resting(pc) \in Actor /\ Resting(pc).pc = pc
                      /\ pc \notin Advancing => Ready(Resting(pc))
  BY RestingShape DEF Ready, Advancing
<1>5. {"created", "running", "ended", "dead"} \subseteq PCs \ Advancing
  BY DEF PCs, Advancing
<1>6. CASE CreatePipeline
  <2>1. Posted \in Row
    BY <1>1, PostedShape DEF Posted
  <2>2. List # <<>> => /\ Creating(Posted, List[1]) \in Actor
                       /\ Ready(Creating(Posted, List[1]))
    BY <1>1, <2>1, ListShape, EmptySeq, CreatingShape DEF Ready
  <2>. QED  BY <1>1, <1>4, <1>5, <1>6, <2>1, <2>2, CreatePipelineEffect, BecomesTyped
<1>7. ASSUME NEW a \in Audits, RunReports(a)
      PROVE  PipelineTyped'
  BY <1>3, <1>7, ReportTyped DEF RunReports
<1>8. ASSUME NEW a \in Audits, RunPanics(a)
      PROVE  PipelineTyped'
  BY <1>3, <1>8, ReportTyped DEF RunPanics, Terminal
<1>9. ASSUME NEW v \in Viewers, ViewerNotices(v)
      PROVE  PipelineTyped'
  BY <1>3, <1>9, ReportTyped DEF ViewerNotices, Terminal
<1>10. ASSUME NEW v \in Viewers, ViewerRuns(v)
       PROVE  PipelineTyped'
  <2>1. PICK a \in Audits :
          actor' = [actor EXCEPT ![a] = Resting("running"), ![v] = Resting("ended")]
    BY <1>10 DEF ViewerRuns
  <2>2. UNCHANGED <<request, pl, stageOf, launched, reported, faults, crashes>>
    BY <1>10 DEF ViewerRuns
  <2>3. /\ actor' \in [Actors -> Actor]
        /\ \A z \in Actors : actor'[z] \in {actor[z], Resting("running"), Resting("ended")}
    BY <1>1, <1>4, <1>5, <2>1
  <2>4. \A z \in Actors : Ready(actor'[z])
    BY <1>2, <1>4, <1>5, <2>3 DEF At
  <2>. QED  BY <1>1, <2>2, <2>3, <2>4 DEF PipelineTyped, PipelineTypeOK
<1>11. ASSUME NEW x \in Actors, Lookup(x)
       PROVE  PipelineTyped'
  <2>. DEFINE next == nextStage(pl.stages, currentStage(pl, actor[x].about))
  <2>1. /\ Fault \/ NoFault
        /\ UNCHANGED <<request, pl, stageOf, launched, reported, crashes>>
        /\ \/ Becomes(x, Resting("ended"))
           \/ Becomes(x, Failing(actor[x]))
           \/ Becomes(x, Completing(actor[x]))
           \/ next \in Stages /\ Becomes(x, GoingOn(actor[x], next))
    BY <1>11, LookupEffect
  <2>2. ASSUME next \in Stages
        PROVE  GoingOn(actor[x], next) \in Actor /\ Ready(GoingOn(actor[x], next))
    BY <2>2, DecisionShape DEF Ready
  <2>3. /\ Failing(actor[x]) \in Actor /\ Ready(Failing(actor[x]))
        /\ Completing(actor[x]) \in Actor /\ Ready(Completing(actor[x]))
    BY DecisionShape DEF Stages, Ready
  <2>. HIDE DEF next
  <2>. QED  BY <1>1, <1>4, <1>5, <2>1, <2>2, <2>3, BecomesTyped
<1>12. ASSUME NEW x \in Actors, CreateAudit(x)
       PROVE  PipelineTyped'
  <2>1. actor[x].next \in Stages /\ UNCHANGED <<request, pl, launched, reported, crashes>>
    BY <1>2, <1>12, CreateAuditEffect DEF At, Ready
  <2>2. CASE UNCHANGED stageOf /\ Becomes(x, Resting("ended")) /\ Fault
    BY <1>1, <1>4, <1>5, <2>1, <2>2, BecomesTyped
  <2>3. ASSUME NoFault, NEW a \in Audits,
               stageOf' = [stageOf EXCEPT ![a] = actor[x].next],
               actor' = [z \in Actors |-> IF z = x THEN Made(actor[x], a)
                           ELSE IF z = a THEN Resting("created") ELSE actor[z]]
        PROVE  PipelineTyped'
    <3>1. Made(actor[x], a) \in Actor /\ Ready(Made(actor[x], a))
      BY <1>1, <2>1, MadeShape DEF Ready
    <3>2. /\ actor' \in [Actors -> Actor]
          /\ \A z \in Actors : Ready(actor'[z])
      BY <1>1, <1>2, <1>4, <1>5, <2>3, <3>1 DEF At
    <3>3. stageOf' \in [Audits -> Stages \cup {NoStage}] /\ faults' \in 0..MaxFaults
      BY <1>1, <2>1, <2>3 DEF NoFault
    <3>. QED  BY <1>1, <2>1, <3>2, <3>3 DEF PipelineTyped, PipelineTypeOK
  <2>. QED  BY <1>12, <2>2, <2>3, CreateAuditEffect
<1>13. ASSUME NEW x \in Actors, UpdatePipeline(x)
       PROVE  PipelineTyped'
  <2>1. actor[x] \in Actor /\ actor[x].copy \in Row
    BY <1>1 DEF Actor
  <2>2. /\ [actor[x] EXCEPT !.pc = "launch"] \in Actor
        /\ actor[x].made # NoAudit => Ready([actor[x] EXCEPT !.pc = "launch"])
    BY <2>1 DEF Actor, PCs, Advancing, Ready
  <2>. QED  BY <1>1, <1>4, <1>5, <1>13, <2>1, <2>2, UpdateEffect, BecomesTyped
<1>14. ASSUME NEW x \in Actors, Launch(x)
       PROVE  PipelineTyped'
  <2>1. UNCHANGED <<request, pl, stageOf, reported, faults, crashes>>
    BY <1>14, LaunchEffect
  <2>2. CASE Becomes(x, Resting("ended")) /\ launched' = launched
    BY <1>1, <1>4, <1>5, <2>1, <2>2, BecomesTyped DEF NoFault
  <2>3. ASSUME NEW a, a = actor[x].made, launched' = launched \cup {a}, At(a, "created"), a # x,
               actor' = [z \in Actors |-> IF z = x THEN Resting("ended")
                           ELSE IF z = a THEN Resting("running") ELSE actor[z]]
        PROVE  PipelineTyped'
    <3>0. a \in Audits
      BY <1>2, <1>14, <2>3, LaunchEffect DEF At, Ready
    <3>1. /\ actor' \in [Actors -> Actor]
          /\ \A z \in Actors : Ready(actor'[z])
      BY <1>1, <1>2, <1>4, <1>5, <2>3 DEF At
    <3>2. launched' \subseteq Audits
      BY <1>1, <2>3, <3>0
    <3>. QED  BY <1>1, <2>1, <3>1, <3>2 DEF PipelineTyped, PipelineTypeOK
  <2>. QED  BY <1>14, <2>2, <2>3, LaunchEffect
<1>15. CASE Crash
  <2>1. /\ actor' = [x \in Actors |-> IF actor[x].pc \in Advancing \cup {"running"}
                                        THEN Resting("dead") ELSE actor[x]]
        /\ UNCHANGED <<request, pl, stageOf, launched, reported, faults>>
        /\ crashes' \in 0..MaxCrashes
    BY <1>1, <1>15, BoundsAssumption DEF Crash
  <2>2. /\ actor' \in [Actors -> Actor]
        /\ \A z \in Actors : Ready(actor'[z])
    BY <1>1, <1>2, <1>4, <1>5, <2>1 DEF At
  <2>. QED  BY <1>1, <2>1, <2>2 DEF PipelineTyped, PipelineTypeOK
<1>16. CASE UNCHANGED plVars
  BY <1>16 DEF PipelineTyped, PipelineTypeOK, plVars, At
<1>. QED  BY <1>6, <1>7, <1>8, <1>9, <1>10, <1>11, <1>12, <1>13, <1>14, <1>15, <1>16
          DEF PipelineNext, Advance

-----------------------------------------------------------------------------
(***************************************************************************)
(* Audits keep their stage and verdicts are never taken back, so what a    *)
(* row is known to say stays true, however old the row is.                 *)
(***************************************************************************)
Grows ==
    /\ request' = request /\ reported \subseteq reported'
    /\ \A a \in Audits : stageOf[a] # NoStage => stageOf'[a] = stageOf[a]

LEMMA ListStays ==
  ASSUME request' = request
  PROVE  List' = List
PROOF BY DEF List

LEMMA StageIsNoNoStage == NoStage \notin Stages
PROOF BY DEF NoStage, Stages

LEMMA RowAudits ==
  ASSUME NEW row \in Row, NEW s \in Stages
  PROVE  row.auditOf[s] \in Audits \cup {NoAudit}
PROOF BY DEF Row

LEMMA NoAuditIsNone == NoAudit \notin Audits
PROOF BY AuditsAssumption DEF NoAudit

LEMMA FinishedStays ==
  ASSUME NEW row \in Row, NEW s \in Stages, Finished(row, s), Grows
  PROVE  Finished(row, s)'
PROOF BY RowAudits, StageIsNoNoStage DEF Finished, Grows

LEMMA AtStageStays ==
  ASSUME request \in Request, NEW row \in Row, NEW k \in 0..Len(List), AtStage(row, k), Grows
  PROVE  AtStage(row, k)'
PROOF
<1>1. List' = List /\ \A j \in 1..Len(List) : List[j] \in Stages
  BY ListStays, ListShape DEF Grows
<1>2. \A j \in 1..(k - 1) : Finished(row, List[j])'
  <2>. TAKE j \in 1..(k - 1)
  <2>1. j \in 1..Len(List) /\ Finished(row, List[j])
    BY ListShape DEF AtStage
  <2>. DEFINE s == List[j]
  <2>2. s \in Stages /\ Finished(row, s)
    BY <1>1, <2>1
  <2>3. List'[j] = s
    BY <1>1
  <2>. HIDE DEF s
  <2>4. Finished(row, s) => /\ row.auditOf[s] # NoAudit /\ stageOf'[row.auditOf[s]] = s
                            /\ <<row.auditOf[s], "completed">> \in reported'
    BY <2>2, RowAudits, StageIsNoNoStage DEF Finished, Grows
  <2>. QED  BY <2>2, <2>3, <2>4 DEF Finished
<1>. QED  BY <1>1, <1>2 DEF AtStage

LEMMA SoundStays ==
  ASSUME request \in Request, NEW row \in Row, Sound(row), Grows
  PROVE  Sound(row)'
PROOF
<1>1. List' = List /\ DOMAIN List = 1..Len(List) /\ \A j \in DOMAIN List : List[j] \in Stages
  BY ListStays, ListShape DEF Grows
<1>2. \A s \in Stages : row.auditOf[s] # NoAudit => stageOf'[row.auditOf[s]] = s
  BY RowAudits, StageIsNoNoStage DEF Grows, Sound
<1>3. \A k \in 0..Len(List) : AtStage(row, k) => AtStage(row, k)'
  BY AtStageStays
<1>4. \A s \in Stages : Finished(row, s) =>
        /\ row.auditOf[s] # NoAudit /\ stageOf'[row.auditOf[s]] = s
        /\ <<row.auditOf[s], "completed">> \in reported'
  BY RowAudits, StageIsNoNoStage DEF Finished, Grows
<1>5. (\A i \in DOMAIN List : Finished(row, List[i]))
        => (\A i \in DOMAIN List' : Finished(row, List[i])')
  BY <1>1, <1>4 DEF Finished
<1>. QED  BY <1>1, <1>2, <1>3, <1>5 DEF Sound

LEMMA TurnStays ==
  ASSUME request \in Request, NEW row \in Row, NEW k \in 0..Len(List), NEW x,
         Turn(x, row, k), Grows
  PROVE  Turn(x, row, k)'
PROOF BY AtStageStays, ListStays DEF Turn, Grows

LEMMA InOrderStays ==
  ASSUME request \in Request, NEW s, InOrder(s), Grows
  PROVE  InOrder(s)'
PROOF
<1>1. List' = List /\ DOMAIN List = 1..Len(List) /\ \A j \in 1..Len(List) : List[j] \in Stages
  BY ListStays, ListShape DEF Grows
<1>2. \A t \in Stages : CompletedOnce(t) =>
        \E b \in Audits : stageOf'[b] = t /\ <<b, "completed">> \in reported'
  BY StageIsNoNoStage DEF CompletedOnce, Grows
<1>3. PICK i \in DOMAIN List : List[i] = s /\ \A j \in 1..(i - 1) : CompletedOnce(List[j])
  BY DEF InOrder
<1>4. \A j \in 1..(i - 1) : CompletedOnce(List[j])'
  <2>. TAKE j \in 1..(i - 1)
  <2>. DEFINE t == List[j]
  <2>1. t \in Stages /\ CompletedOnce(t) /\ List'[j] = t
    BY <1>1, <1>3
  <2>. HIDE DEF t
  <2>. QED  BY <1>2, <2>1 DEF CompletedOnce
<1>. QED  BY <1>1, <1>3, <1>4 DEF InOrder

(***************************************************************************)
(* A step that moves nothing on: the row stays, no audit is created, and   *)
(* an actor that changes comes to rest, starts to run, reports a verdict,  *)
(* or is about to write a failed row.                                      *)
(***************************************************************************)
AtRest(h) == h.pc \in {"created", "running", "ended", "dead"}

ToReport(x, h) ==
    /\ h.pc = "lookup" /\ h.about \in Audits /\ h.made = NoAudit
    /\ \/ h.verdict = "failed"
       \/ h.verdict = "completed" /\ x \in Audits /\ h.about = x /\ <<x, "completed">> \in reported

ToFail(h) == h.pc = "update" /\ h.copy.status = "failed" /\ h.made = NoAudit /\ Sound(h.copy)

LEMMA QuietStep ==
  ASSUME PipelineTyped, PipelineTyped', PipelineInv,
         UNCHANGED <<request, pl, stageOf>>, reported \subseteq reported',
         launched' \subseteq Launching,
         \A z \in Actors : \/ actor'[z] = actor[z] \/ AtRest(actor'[z])
                           \/ ToReport(z, actor[z])' \/ ToFail(actor[z])',
         NotPosted'
  PROVE  PipelineInv'
PROOF
<1>1. /\ request \in Request /\ pl \in Row /\ actor \in [Actors -> Actor]
      /\ actor' \in [Actors -> Actor] /\ Audits \subseteq Actors
  BY DEF PipelineTyped, PipelineTypeOK, Actors
<1>2. Grows /\ List' = List
  BY ListStays DEF Grows
<1>3. \A z \in Actors : Moving(actor'[z]) => actor'[z] = actor[z]
  BY DEF Moving, AtRest, ToReport, ToFail
<1>4. Launching' \subseteq Launching
  <2>1. \A z \in Actors : At(z, "launch")' => actor'[z] = actor[z]
    BY DEF At, AtRest, ToReport, ToFail
  <2>. QED  BY <2>1 DEF Launching, At
<1>5. RowIsSound'
  BY <1>1, <1>2, SoundStays DEF PipelineInv, RowIsSound
<1>6. CopiesAreSound'
  <2>. SUFFICES ASSUME NEW x \in Actors, actor'[x].pc \in {"create", "update"}
                PROVE  /\ Sound(actor[x].copy)'
                       /\ actor'[x].pc = "update" /\ actor'[x].copy.status = "failed"
                            => actor'[x].made = NoAudit
    BY DEF CopiesAreSound, At
  <2>1. CASE actor'[x] = actor[x]
    <3>. DEFINE row == actor[x].copy
    <3>1. row \in Row /\ Sound(row)
      BY <1>1, <2>1 DEF PipelineInv, CopiesAreSound, Actor
    <3>2. Sound(row) => Sound(actor[x].copy)'
      <4>. DEFINE r == actor'[x].copy
      <4>1. r = row /\ r \in Row
        BY <2>1, <3>1
      <4>. HIDE DEF row
      <4>2. ASSUME NEW q \in Row, Sound(q) PROVE Sound(q)'
        BY <1>1, <1>2, <4>2, SoundStays
      <4>. QED  BY <1>1, <1>2, <4>1, <4>2 DEF Sound, AtStage, Finished
    <3>. QED  BY <2>1, <3>1, <3>2 DEF PipelineInv, CopiesAreSound, At
  <2>2. CASE ToFail(actor[x])'
    BY <2>2 DEF ToFail
  <2>. QED  BY <2>1, <2>2 DEF AtRest, ToReport
<1>7. OwnVerdict'
  <2>. SUFFICES ASSUME NEW x \in Actors, At(x, "lookup")'
                PROVE  /\ actor'[x].about \in Audits /\ actor'[x].made = NoAudit
                       /\ actor'[x].verdict = "failed"
                            \/ (x \in Audits /\ actor'[x].about = x /\ <<x, "completed">> \in reported')
    BY DEF OwnVerdict
  <2>1. CASE actor'[x] = actor[x]
    BY <2>1 DEF PipelineInv, OwnVerdict, At
  <2>2. CASE ToReport(x, actor[x])'
    BY <2>2 DEF ToReport
  <2>. QED  BY <2>1, <2>2 DEF AtRest, ToFail, At
<1>8. OneMoves'
  BY <1>3 DEF PipelineInv, OneMoves
<1>9. InTurn'
  <2>. SUFFICES ASSUME NEW x \in Actors, Moving(actor'[x]), pl.status # "failed"
                PROVE  \E k \in 0..Len(List) : Turn(x, pl, k)'
    BY <1>2 DEF InTurn
  <2>1. PICK k \in 0..Len(List) : Turn(x, pl, k)
    BY <1>3 DEF PipelineInv, InTurn
  <2>. QED  BY <1>1, <1>2, <2>1, TurnStays
<1>10. Drafts'
  <2>. SUFFICES ASSUME NEW x \in Actors,
                       \/ Moving(actor'[x]) \/ At(x, "create")'
                       \/ At(x, "update")' /\ actor'[x].made # NoAudit
                PROVE  /\ Moving(actor'[x]) => Names(actor[x].copy)'
                       /\ At(x, "create")' =>
                            /\ actor'[x].made = NoAudit
                            /\ \E k \in 0..(Len(List) - 1) :
                                 Turn(x, actor[x].copy, k)' /\ actor'[x].next = List[k + 1]
                       /\ At(x, "update")' /\ actor'[x].made # NoAudit =>
                            /\ stageOf[actor'[x].made] \in Stages
                            /\ actor'[x].copy.auditOf[stageOf[actor'[x].made]] = actor'[x].made
                            /\ \A b \in Launching' : stageOf[b] # stageOf[actor'[x].made]
    BY <1>2 DEF Drafts
  <2>. DEFINE row == actor[x].copy
  <2>1. actor'[x] = actor[x]
    BY <1>3 DEF AtRest, ToReport, ToFail, Moving, At
  <2>2. row \in Row /\ row = actor'[x].copy
    BY <1>1, <2>1 DEF Actor
  <2>3. Moving(actor'[x]) => Names(actor[x].copy)'
    <3>1. Moving(actor[x]) => Names(row)
      BY DEF PipelineInv, Drafts
    <3>. QED  BY <1>4, <2>1, <3>1 DEF Names
  <2>4. At(x, "create")' => actor'[x].made = NoAudit
    BY <2>1 DEF PipelineInv, Drafts, At
  <2>5. ASSUME At(x, "create")'
        PROVE  \E k \in 0..(Len(List) - 1) :
                 Turn(x, actor[x].copy, k)' /\ actor'[x].next = List[k + 1]
    <3>1. PICK k \in 0..(Len(List) - 1) : Turn(x, row, k) /\ actor[x].next = List[k + 1]
      BY <2>1, <2>5 DEF PipelineInv, Drafts, At
    <3>2. ASSUME NEW q \in Row, Turn(x, q, k)
          PROVE  Turn(x, q, k)'
      BY <1>1, <1>2, <3>2, ListShape, TurnStays
    <3>. HIDE DEF row
    <3>3. Turn(x, actor[x].copy, k)'
      BY <1>2, <2>2, <3>1, <3>2 DEF Turn, AtStage, Finished
    <3>. QED  BY <2>1, <3>1, <3>3
  <2>6. ASSUME At(x, "update")', actor'[x].made # NoAudit
        PROVE  /\ stageOf[actor'[x].made] \in Stages
               /\ actor'[x].copy.auditOf[stageOf[actor'[x].made]] = actor'[x].made
               /\ \A b \in Launching' : stageOf[b] # stageOf[actor'[x].made]
    BY <1>4, <2>1, <2>6 DEF PipelineInv, Drafts, At
  <2>. QED  BY <2>3, <2>4, <2>5, <2>6
<1>11. RowNamesLaunched'
  BY <1>4 DEF PipelineInv, RowNamesLaunched, Names
<1>12. OneLaunch'
  BY <1>4 DEF PipelineInv, OneLaunch
<1>13. Births'
  <2>. SUFFICES ASSUME NEW a \in Audits
                PROVE  /\ At(a, "unborn")' => stageOf[a] = NoStage
                       /\ stageOf[a] # NoStage => InOrder(stageOf[a])' /\ pl # NoRow
    BY <1>2 DEF Births
  <2>1. At(a, "unborn")' => At(a, "unborn")
    BY <1>1 DEF At, AtRest, ToReport, ToFail
  <2>2. stageOf[a] # NoStage => InOrder(stageOf[a]) /\ pl # NoRow
    BY DEF PipelineInv, Births
  <2>3. InOrder(stageOf[a]) => InOrder(stageOf[a])'
    <3>. DEFINE s == stageOf[a]
    <3>1. ASSUME NEW t, InOrder(t) PROVE InOrder(t)'
      BY <1>1, <1>2, <3>1, InOrderStays
    <3>2. stageOf'[a] = stageOf[a]
      OBVIOUS
    <3>. QED  BY <3>1, <3>2 DEF InOrder, CompletedOnce
  <2>. QED  BY <2>1, <2>2, <2>3 DEF PipelineInv, Births
<1>. QED  BY <1>5, <1>6, <1>7, <1>8, <1>9, <1>10, <1>11, <1>12, <1>13 DEF PipelineInv

-----------------------------------------------------------------------------
(***************************************************************************)
(* The steps that move nothing on.                                         *)
(***************************************************************************)
LEMMA NobodyPosts ==
  ASSUME PipelineTyped, PipelineInv, NEW x \in Actors, actor[x].pc \notin {"idle", "unborn"}
  PROVE  ~At(Post, "idle")
PROOF BY DEF PipelineInv, NotPosted

LEMMA RestStep ==
  ASSUME PipelineTyped, PipelineTyped', PipelineInv, ~At(Post, "idle"),
         UNCHANGED <<request, pl, stageOf, reported>>, launched' \subseteq Launching,
         \A z \in Actors : actor'[z] = actor[z] \/ AtRest(actor'[z])
  PROVE  PipelineInv'
PROOF
<1>1. NotPosted'
  <2>1. Post \in Actors /\ ~At(Post, "idle")'
    BY DEF Actors, At, AtRest
  <2>. QED  BY <2>1 DEF NotPosted
<1>. QED  BY <1>1, QuietStep

LEMMA EndStep ==
  ASSUME PipelineTyped, PipelineTyped', PipelineInv, NEW x \in Actors,
         actor[x].pc \notin {"idle", "unborn"},
         UNCHANGED <<request, pl, stageOf, reported, launched>>, Becomes(x, Resting("ended"))
  PROVE  PipelineInv'
PROOF
<1>1. Resting("ended") \in Actor /\ AtRest(Resting("ended")) /\ actor \in [Actors -> Actor]
  BY RestingShape DEF PCs, AtRest, PipelineTyped, PipelineTypeOK
<1>2. \A z \in Actors : actor'[z] = actor[z] \/ AtRest(actor'[z])
  BY <1>1, BecomesEffect
<1>3. launched' \subseteq Launching
  BY DEF Launching
<1>. QED  BY <1>2, <1>3, NobodyPosts, RestStep

LEMMA ReportStep ==
  ASSUME PipelineTyped, PipelineTyped', PipelineInv, ~At(Post, "idle"),
         NEW x \in Actors, NEW a \in Audits, NEW v \in Terminal, Report(x, a, v),
         v = "failed" \/ a = x
  PROVE  PipelineInv'
PROOF
<1>. DEFINE r == Reporting(a, v)
<1>1. /\ r \in Actor /\ r.pc = "lookup" /\ r.about = a /\ r.verdict = v /\ r.made = NoAudit
      /\ Becomes(x, r) /\ reported' = reported \cup {<<a, v>>}
      /\ UNCHANGED <<request, pl, stageOf, launched, crashes>>
  BY ReportingShape, ReportEffect
<1>. HIDE DEF r
<1>2. \A z \in Actors : actor'[z] = IF z = x THEN r ELSE actor[z]
  BY <1>1, BecomesEffect DEF PipelineTyped, PipelineTypeOK
<1>3. ToReport(x, actor[x])'
  BY <1>1, <1>2 DEF ToReport, Terminal
<1>4. NotPosted'
  <2>1. Post \in Actors /\ ~At(Post, "idle")'
    BY <1>1, <1>2 DEF Actors, At
  <2>. QED  BY <2>1 DEF NotPosted
<1>5. launched' \subseteq Launching /\ reported \subseteq reported'
  BY <1>1 DEF Launching
<1>. QED  BY <1>1, <1>2, <1>3, <1>4, <1>5, QuietStep

LEMMA RunStep ==
  ASSUME PipelineTyped, PipelineTyped', PipelineInv, NEW a \in Audits, RunReports(a) \/ RunPanics(a)
  PROVE  PipelineInv'
PROOF
<1>1. a \in Actors /\ actor[a].pc \notin {"idle", "unborn"}
  BY DEF Actors, RunReports, RunPanics, At, Advancing
<1>2. \E v \in Terminal : Report(a, a, v)
  BY DEF RunReports, RunPanics, Terminal
<1>. QED  BY <1>1, <1>2, NobodyPosts, ReportStep

LEMMA ViewerStep ==
  ASSUME PipelineTyped, PipelineTyped', PipelineInv, NEW v \in Viewers,
         ViewerNotices(v) \/ ViewerRuns(v)
  PROVE  PipelineInv'
PROOF
<1>1. v \in Actors /\ Audits \subseteq Actors /\ actor \in [Actors -> Actor]
  BY DEF Actors, PipelineTyped, PipelineTypeOK
<1>2. CASE ViewerNotices(v)
  <2>1. PICK a \in Audits : ~At(a, "unborn") /\ Report(v, a, "failed")
    BY <1>2 DEF ViewerNotices
  <2>2. ~At(Post, "idle")
    BY <2>1 DEF PipelineInv, NotPosted
  <2>. QED  BY <1>1, <2>1, <2>2, ReportStep DEF Terminal
<1>3. CASE ViewerRuns(v)
  <2>1. PICK a \in Audits :
          /\ actor[a].pc \in {"created", "ended", "dead"}
          /\ actor' = [actor EXCEPT ![a] = Resting("running"), ![v] = Resting("ended")]
    BY <1>3 DEF ViewerRuns
  <2>2. AtRest(Resting("running")) /\ AtRest(Resting("ended"))
    BY RestingShape DEF AtRest, PCs
  <2>3. \A z \in Actors : actor'[z] = actor[z] \/ AtRest(actor'[z])
    BY <1>1, <2>1, <2>2
  <2>4. UNCHANGED <<request, pl, stageOf, launched, reported>>
    BY <1>3 DEF ViewerRuns
  <2>5. ~At(Post, "idle") /\ launched' \subseteq Launching
    BY <1>1, <2>1, <2>4, NobodyPosts DEF Launching
  <2>. QED  BY <2>3, <2>4, <2>5, RestStep
<1>. QED  BY <1>2, <1>3

LEMMA CrashStep ==
  ASSUME PipelineTyped, PipelineTyped', PipelineInv, Crash
  PROVE  PipelineInv'
PROOF
<1>1. /\ actor \in [Actors -> Actor] /\ Post \in Actors
      /\ actor' = [x \in Actors |-> IF actor[x].pc \in Advancing \cup {"running"}
                                      THEN Resting("dead") ELSE actor[x]]
      /\ UNCHANGED <<request, pl, stageOf, launched, reported, faults>>
  BY DEF PipelineTyped, PipelineTypeOK, Crash, Actors
<1>2. AtRest(Resting("dead")) /\ Resting("dead").pc = "dead"
  BY RestingShape DEF AtRest, PCs
<1>3. \A z \in Actors : actor'[z] = actor[z] \/ AtRest(actor'[z])
  BY <1>1, <1>2
<1>4. launched' \subseteq Launching
  BY <1>1 DEF Launching
<1>5. CASE At(Post, "idle")
  <2>1. /\ pl = NoRow /\ launched = {} /\ \A x \in Actors : actor[x].pc \in {"idle", "unborn"}
        /\ \A a \in Audits : At(a, "unborn")
    BY <1>5 DEF PipelineInv, NotPosted
  <2>2. \A z \in Actors : actor'[z] = actor[z]
    BY <1>1, <2>1 DEF Advancing
  <2>3. NotPosted'
    BY <1>1, <2>1, <2>2 DEF NotPosted, At, Actors
  <2>. QED  BY <1>1, <1>3, <1>4, <2>3, QuietStep
<1>. QED  BY <1>1, <1>3, <1>4, <1>5, RestStep

LEMMA LaunchStep ==
  ASSUME PipelineTyped, PipelineTyped', PipelineInv, NEW x \in Actors, Launch(x)
  PROVE  PipelineInv'
PROOF
<1>. DEFINE a == actor[x].made
<1>1. At(x, "launch") /\ UNCHANGED <<request, pl, stageOf, reported, faults, crashes>>
  BY LaunchEffect
<1>2. CASE Becomes(x, Resting("ended")) /\ launched' = launched
  BY <1>1, <1>2, EndStep DEF At
<1>3. CASE /\ launched' = launched \cup {a}
           /\ actor' = [z \in Actors |-> IF z = x THEN Resting("ended")
                          ELSE IF z = a THEN Resting("running") ELSE actor[z]]
  <2>1. AtRest(Resting("running")) /\ AtRest(Resting("ended"))
    BY RestingShape DEF AtRest, PCs
  <2>2. \A z \in Actors : actor'[z] = actor[z] \/ AtRest(actor'[z])
    BY <1>3, <2>1
  <2>3. launched' \subseteq Launching
    BY <1>1, <1>3 DEF Launching
  <2>4. ~At(Post, "idle")
    BY <1>1, NobodyPosts DEF At
  <2>. QED  BY <1>1, <2>2, <2>3, <2>4, RestStep
<1>. QED  BY <1>2, <1>3, LaunchEffect

-----------------------------------------------------------------------------
(***************************************************************************)
(* Facts about rows that are sound.                                        *)
(***************************************************************************)
LEMMA SoundStatus ==
  ASSUME request \in Request, NEW row, Sound(row)
  PROVE  /\ row # NoRow /\ row.status # "absent"
         /\ \A k \in 0..Len(List) : AtStage(row, k) => row.status \notin {"absent", "failed", "completed"}
         /\ \A j, k \in 0..Len(List) : AtStage(row, j) /\ AtStage(row, k) => j = k
PROOF
<1>1. \A k \in 1..Len(List) : List[k] \in Stages
  BY ListShape
<1>2. \A k \in 0..Len(List) : AtStage(row, k) => row.status \notin {"absent", "failed", "completed"}
  <2>. SUFFICES ASSUME NEW k \in 0..Len(List), AtStage(row, k)
                PROVE  row.status \notin {"absent", "failed", "completed"}
    OBVIOUS
  <2>1. CASE k = 0
    BY <2>1 DEF AtStage
  <2>2. CASE k # 0
    <3>1. k \in 1..Len(List) /\ row.status = Running(List[k])
      BY <2>2, ListShape DEF AtStage
    <3>. QED  BY <1>1, <3>1, RunningShape DEF Terminal
  <2>. QED  BY <2>1, <2>2
<1>3. row.status # "absent"
  BY <1>2 DEF Sound
<1>4. \A j, k \in 0..Len(List) : AtStage(row, j) /\ AtStage(row, k) => j = k
  <2>. SUFFICES ASSUME NEW j \in 0..Len(List), NEW k \in 0..Len(List),
                       AtStage(row, j), AtStage(row, k)
                PROVE  j = k
    OBVIOUS
  <2>1. CASE j = 0 \/ k = 0
    <3>1. row.status = "pending"
      BY <2>1 DEF AtStage
    <3>2. \A i \in 1..Len(List) : row.status # Running(List[i])
      BY <1>1, <3>1, RunningShape
    <3>. QED  BY <3>2, ListShape DEF AtStage
  <2>2. CASE j # 0 /\ k # 0
    <3>1. /\ j \in 1..Len(List) /\ k \in 1..Len(List)
          /\ row.status = Running(List[j]) /\ row.status = Running(List[k])
      BY <2>2, ListShape DEF AtStage
    <3>2. List[j] = List[k]
      BY <1>1, <3>1, RunningShape
    <3>. QED  BY <3>1, <3>2, ListShape
  <2>. QED  BY <2>1, <2>2
<1>. QED  BY <1>2, <1>3, <1>4, RowShape

(***************************************************************************)
(* CreatePipeline.                                                         *)
(***************************************************************************)
LEMMA PostStep ==
  ASSUME PipelineTyped, PipelineTyped', PipelineInv, CreatePipeline
  PROVE  PipelineInv'
PROOF
<1>1. /\ At(Post, "idle") /\ Post \in Actors /\ Post \notin Audits
      /\ UNCHANGED <<request, stageOf, launched, reported, crashes>>
  BY CreatePipelineEffect, ActorsAssumption
<1>2. /\ request \in Request /\ actor \in [Actors -> Actor] /\ actor' \in [Actors -> Actor]
      /\ Audits \subseteq Actors /\ pl \in Row /\ request' \in Request
  BY DEF PipelineTyped, PipelineTypeOK, Actors
<1>3. /\ pl = NoRow /\ launched = {} /\ \A x \in Actors : actor[x].pc \in {"idle", "unborn"}
      /\ \A a \in Audits : At(a, "unborn")
  BY <1>1 DEF PipelineInv, NotPosted
<1>4. \A a \in Audits : stageOf[a] = NoStage
  BY <1>3 DEF PipelineInv, Births
<1>5. List' = List
  BY <1>1, ListStays
<1>6. ASSUME NEW r \in Actor, Becomes(Post, r), pl' = pl \/ pl' = Posted,
             \/ AtRest(r)
             \/ r.pc = "create" /\ r.copy = Posted /\ r.next = List[1] /\ r.made = NoAudit
                /\ pl' = Posted /\ List # <<>>
      PROVE  PipelineInv'
  <2>1. \A z \in Actors : actor'[z] = IF z = Post THEN r ELSE actor[z]
    BY <1>1, <1>2, <1>6, BecomesEffect
  <2>2. /\ Posted \in Row /\ Posted.status = "pending" /\ Posted.stages = List
        /\ \A s \in Stages : Posted.auditOf[s] = NoAudit
    BY <1>2, PostedShape DEF Posted
  <2>3. AtStage(Posted, 0)' /\ Sound(Posted)'
    <3>1. \A j \in 1..Len(List') : Posted.auditOf[List'[j]] = NoAudit
      BY <1>2, <1>5, <2>2, ListShape
    <3>. DEFINE row == Posted
    <3>2. row.status = "pending" /\ row.stages = List /\ \A s \in Stages : row.auditOf[s] = NoAudit
      BY <2>2
    <3>3. \A j \in 1..Len(List) : row.auditOf[List[j]] = NoAudit
      BY <1>2, <3>2, ListShape
    <3>4. ASSUME NEW q, q.status = "pending", q.stages = List,
                 \A s \in Stages : q.auditOf[s] = NoAudit,
                 \A j \in 1..Len(List) : q.auditOf[List[j]] = NoAudit
          PROVE  AtStage(q, 0)' /\ Sound(q)'
      <4>1. AtStage(q, 0)'
        BY <1>2, <1>5, <3>4, ListShape DEF AtStage
      <4>2. 0 \in 0..Len(List')
        BY <1>2, <1>5, ListShape
      <4>. QED  BY <1>5, <3>4, <4>1, <4>2 DEF Sound
    <3>5. Posted' = Posted
      BY <1>5 DEF Posted
    <3>. QED  BY <3>2, <3>3, <3>4, <3>5 DEF Sound, AtStage, Finished
  <2>4. Launching' = {}
    <3>1. \A z \in Actors : ~At(z, "launch")'
      BY <1>3, <1>6, <2>1 DEF At, AtRest
    <3>. QED  BY <1>1, <1>3, <3>1 DEF Launching
  <2>5. \A z \in Actors : actor'[z].pc \in {"create", "update", "lookup"} =>
          z = Post /\ actor'[z].pc = "create" /\ actor'[z] = r
    BY <1>3, <1>6, <2>1 DEF AtRest
  <2>6. Posted' = Posted
    BY <1>5 DEF Posted
  <2>7. RowIsSound'
    BY <1>3, <1>6, <2>3, <2>6 DEF RowIsSound, Sound, AtStage, Finished
  <2>8. CopiesAreSound'
    <3>. SUFFICES ASSUME NEW x \in Actors, actor'[x].pc \in {"create", "update"}
                  PROVE  Sound(actor[x].copy)' /\ actor'[x].pc # "update"
      BY DEF CopiesAreSound, At
    <3>1. actor'[x].pc = "create" /\ actor'[x].copy = Posted
      BY <1>6, <2>5 DEF AtRest
    <3>. QED  BY <2>3, <2>6, <3>1 DEF Sound, AtStage, Finished
  <2>9. OwnVerdict'
    BY <2>5 DEF OwnVerdict, At
  <2>10. OneMoves'
    BY <2>5 DEF OneMoves, Moving
  <2>11. Turn(Post, Posted, 0)'
    BY <2>3 DEF Turn
  <2>12. InTurn'
    <3>. SUFFICES ASSUME NEW x \in Actors, Moving(actor'[x])
                  PROVE  \E k \in 0..Len(List') : Turn(x, pl, k)'
      BY DEF InTurn
    <3>1. x = Post /\ pl' = Posted
      BY <1>6, <2>5 DEF Moving, AtRest
    <3>2. 0 \in 0..Len(List')
      BY <1>2, <1>5, ListShape
    <3>3. Turn(x, pl, 0)'
      BY <2>6, <2>11, <3>1 DEF Turn, AtStage, Finished
    <3>. QED  BY <3>2, <3>3
  <2>13. Drafts'
    <3>. SUFFICES ASSUME NEW x \in Actors, actor'[x].pc \in {"create", "update"}
                  PROVE  /\ x = Post /\ actor'[x].pc = "create"
                         /\ Names(actor[x].copy)'
                         /\ actor'[x].made = NoAudit
                         /\ \E k \in 0..(Len(List') - 1) :
                              Turn(x, actor[x].copy, k)' /\ actor'[x].next = List'[k + 1]
      BY DEF Drafts, Moving, At
    <3>1. x = Post /\ actor'[x].pc = "create" /\ actor'[x] = r
      BY <2>5
    <3>2. r.copy = Posted /\ r.next = List[1] /\ r.made = NoAudit /\ List # <<>>
      BY <1>6, <3>1 DEF AtRest
    <3>3. 0 \in 0..(Len(List') - 1)
      BY <1>2, <1>5, <3>2, ListShape, EmptySeq
    <3>4. Turn(x, actor[x].copy, 0)'
      BY <2>6, <2>11, <3>1, <3>2 DEF Turn, AtStage, Finished
    <3>. QED  BY <1>5, <2>4, <3>1, <3>2, <3>3, <3>4 DEF Names
  <2>14. RowNamesLaunched' /\ OneLaunch'
    BY <2>4 DEF RowNamesLaunched, OneLaunch, Names
  <2>15. Births'
    BY <1>1, <1>4 DEF Births
  <2>16. NotPosted'
    BY <1>1, <1>6, <2>1 DEF NotPosted, At, AtRest
  <2>. QED  BY <2>7, <2>8, <2>9, <2>10, <2>12, <2>13, <2>14, <2>15, <2>16 DEF PipelineInv
<1>7. Resting("ended") \in Actor /\ AtRest(Resting("ended"))
  BY RestingShape DEF AtRest, PCs
<1>8. Posted \in Row
  BY <1>2, PostedShape DEF Posted
<1>9. ASSUME List[1] \in Stages
      PROVE  LET r == Creating(Posted, List[1])
             IN  /\ r \in Actor /\ r.pc = "create" /\ r.copy = Posted
                 /\ r.next = List[1] /\ r.made = NoAudit
  BY <1>8, <1>9, CreatingShape
<1>10. CASE Becomes(Post, Resting("ended")) /\ (pl' = pl \/ pl' = Posted)
  BY <1>6, <1>7, <1>10
<1>11. CASE /\ pl' = Posted /\ List # <<>> /\ List[1] \in Stages
            /\ Becomes(Post, Creating(Posted, List[1]))
  BY <1>6, <1>9, <1>11
<1>. QED  BY <1>10, <1>11, CreatePipelineEffect

-----------------------------------------------------------------------------
(***************************************************************************)
(* AdvanceStage's lookup.  A completion moves the pipeline on only when    *)
(* the row is at that audit's own stage, and then nobody else is at it:    *)
(* this is what the idempotency guard is for.                              *)
(***************************************************************************)
LEMMA GuardPasses ==
  ASSUME PipelineTyped, PipelineInv, NEW x \in Actors, At(x, "lookup"),
         actor[x].verdict = "completed", MayAdvance(actor[x].about)
  PROVE  /\ Sound(pl) /\ pl.status # "failed"
         /\ \A y \in Actors : ~Moving(actor[y])
         /\ \E k \in 1..Len(List) :
              Turn(x, pl, k) /\ currentStage(pl, actor[x].about) = List[k]
PROOF
<1>. DEFINE a == actor[x].about
            s == currentStage(pl, a)
<1>1. /\ request \in Request /\ pl \in Row /\ actor \in [Actors -> Actor]
  BY DEF PipelineTyped, PipelineTypeOK
<1>2. a = x /\ x \in Audits /\ <<x, "completed">> \in reported
  BY DEF PipelineInv, OwnVerdict
<1>3. s \in Stages /\ pl.auditOf[s] = x
  BY <1>2 DEF MayAdvance, Owns, currentStage
<1>4. Sound(pl)
  BY <1>2, <1>3, RowShape, NoAuditIsNone DEF PipelineInv, RowIsSound
<1>5. pl.status = Running(s) /\ pl.status \notin Terminal \cup {"absent", "pending"}
  BY <1>2, <1>3, RunningShape DEF MayAdvance, Advances
<1>6. PICK k \in 0..Len(List) : AtStage(pl, k)
  BY <1>4, <1>5 DEF Sound, Terminal
<1>7. k \in 1..Len(List) /\ s = List[k]
  <2>1. k # 0
    BY <1>5, <1>6 DEF AtStage
  <2>2. k \in 1..Len(List) /\ pl.status = Running(List[k])
    BY <1>1, <1>6, <2>1, ListShape DEF AtStage
  <2>. QED  BY <1>1, <1>3, <1>5, <2>2, ListShape, RunningShape
<1>8. x # Post
  BY <1>2, ActorsAssumption
<1>9. Turn(x, pl, k)
  BY <1>2, <1>3, <1>6, <1>7, <1>8 DEF Turn
<1>10. ASSUME NEW y \in Actors, Moving(actor[y])
       PROVE  FALSE
  <2>1. PICK j \in 0..Len(List) : Turn(y, pl, j)
    BY <1>5, <1>10 DEF PipelineInv, InTurn, Terminal
  <2>2. j = k
    BY <1>1, <1>4, <1>6, <2>1, SoundStatus DEF Turn
  <2>3. y = x
    BY <1>1, <1>3, <1>7, <2>1, <2>2, ListShape DEF Turn
  <2>. QED  BY <1>10, <2>3 DEF At, Moving
<1>. QED  BY <1>4, <1>5, <1>7, <1>9, <1>10 DEF Terminal

(***************************************************************************)
(* Somebody starts to move the pipeline on.                                *)
(***************************************************************************)
LEMMA StartStep ==
  ASSUME PipelineTyped, PipelineTyped', PipelineInv, NEW x \in Actors, NEW r \in Actor,
         At(x, "lookup"), Becomes(x, r),
         UNCHANGED <<request, pl, stageOf, launched, reported>>,
         pl.status # "failed", Sound(pl), \A y \in Actors : ~Moving(actor[y]),
         r.made = NoAudit, Moving(r), r.copy.auditOf = pl.auditOf, Sound(r.copy),
         NEW k \in 1..Len(List), Turn(x, pl, k),
         r.pc = "create" => r.copy = pl /\ k < Len(List) /\ r.next = List[k + 1]
  PROVE  PipelineInv'
PROOF
<1>1. /\ request \in Request /\ pl \in Row /\ actor \in [Actors -> Actor]
      /\ actor' \in [Actors -> Actor] /\ Post \in Actors /\ Audits \subseteq Actors
  BY DEF PipelineTyped, PipelineTypeOK, Actors
<1>2. \A z \in Actors : actor'[z] = IF z = x THEN r ELSE actor[z]
  BY <1>1, BecomesEffect
<1>3. List' = List /\ k \in 0..Len(List) /\ Len(List) \in Nat
  BY <1>1, ListStays, ListShape
<1>4. \A q : Sound(q) => Sound(q)'
  BY <1>3, SMTT(30) DEF Sound, AtStage, Finished
<1>5. \A q, z : \A j \in 0..Len(List) : Turn(z, q, j) => Turn(z, q, j)'
  BY <1>3 DEF Turn, AtStage, Finished
<1>6. \A z \in Actors : At(z, "launch")' <=> At(z, "launch")
  BY <1>2 DEF At, Moving
<1>7. Launching' = Launching
  BY <1>2, <1>6 DEF Launching, At, Moving
<1>8. RowIsSound'
  BY <1>4 DEF PipelineInv, RowIsSound
<1>9. CopiesAreSound'
  <2>. SUFFICES ASSUME NEW z \in Actors, actor'[z].pc \in {"create", "update"}
                PROVE  /\ Sound(actor[z].copy)'
                       /\ actor'[z].pc = "update" /\ actor'[z].copy.status = "failed"
                            => actor'[z].made = NoAudit
    BY DEF CopiesAreSound, At
  <2>1. CASE z = x
    <3>1. actor'[z].copy = r.copy /\ actor'[z].made = NoAudit
      BY <1>2, <2>1
    <3>2. Sound(actor[z].copy)'
      <4>. DEFINE row == r.copy
      <4>1. Sound(row) /\ actor'[z].copy = row
        BY <3>1
      <4>. HIDE DEF row
      <4>. QED  BY <1>3, <4>1, SMTT(30) DEF Sound, AtStage, Finished
    <3>. QED  BY <3>1, <3>2
  <2>2. CASE z # x
    <3>1. actor'[z] = actor[z]
      BY <1>2, <2>2
    <3>2. /\ Sound(actor[z].copy)
          /\ actor[z].pc = "update" /\ actor[z].copy.status = "failed" => actor[z].made = NoAudit
      BY <3>1 DEF PipelineInv, CopiesAreSound, At
    <3>3. Sound(actor[z].copy)'
      <4>. DEFINE row == actor[z].copy
      <4>1. Sound(row) /\ actor'[z].copy = row
        BY <3>1, <3>2
      <4>. HIDE DEF row
      <4>. QED  BY <1>3, <4>1, SMTT(30) DEF Sound, AtStage, Finished
    <3>. QED  BY <3>1, <3>2, <3>3
  <2>. QED  BY <2>1, <2>2
<1>10. OwnVerdict'
  BY <1>2 DEF PipelineInv, OwnVerdict, At, Moving
<1>11. \A z \in Actors : Moving(actor'[z]) <=> z = x
  BY <1>2
<1>12. OneMoves'
  BY <1>11 DEF OneMoves
<1>13. InTurn'
  BY <1>3, <1>5, <1>11 DEF InTurn
<1>14. Names(pl)
  BY DEF PipelineInv, RowNamesLaunched
<1>15. Drafts'
  <2>. SUFFICES ASSUME NEW z \in Actors,
                       Moving(actor'[z]) \/ (actor'[z].pc = "update" /\ actor'[z].made # NoAudit)
                PROVE  /\ Names(actor[z].copy)' /\ actor'[z].made = NoAudit
                       /\ actor'[z].pc = "create" =>
                            \E j \in 0..(Len(List') - 1) :
                              Turn(z, actor[z].copy, j)' /\ actor'[z].next = List'[j + 1]
    BY DEF Drafts, Moving, At
  <2>1. z = x
    <3>. SUFFICES ASSUME z # x PROVE FALSE
      OBVIOUS
    <3>1. actor'[z] = actor[z] /\ ~Moving(actor[z])
      BY <1>2
    <3>. QED  BY <3>1 DEF PipelineInv, CopiesAreSound, At, Moving
  <2>2. actor'[z] = r
    BY <1>2, <2>1
  <2>3. Names(actor[z].copy)'
    BY <1>7, <1>14, <2>2 DEF Names
  <2>4. ASSUME r.pc = "create"
        PROVE  \E j \in 0..(Len(List') - 1) :
                 Turn(z, actor[z].copy, j)' /\ actor'[z].next = List'[j + 1]
    <3>1. k \in 0..(Len(List') - 1) /\ r.next = List'[k + 1] /\ r.copy = pl
      BY <1>3, <2>4
    <3>2. Turn(z, actor[z].copy, k)'
      BY <1>3, <1>5, <2>1, <2>2, <3>1 DEF Turn, AtStage, Finished
    <3>. QED  BY <2>2, <3>1, <3>2
  <2>. QED  BY <2>2, <2>3, <2>4
<1>16. RowNamesLaunched'
  BY <1>7 DEF PipelineInv, RowNamesLaunched, Names
<1>17. OneLaunch'
  BY <1>7 DEF PipelineInv, OneLaunch
<1>18. Births'
  <2>1. \A a \in Audits : At(a, "unborn")' => At(a, "unborn")
    BY <1>1, <1>2 DEF At, Moving
  <2>. QED  BY <1>3, <2>1 DEF PipelineInv, Births, InOrder, CompletedOnce
<1>19. NotPosted'
  <2>1. ~At(Post, "idle")
    BY NobodyPosts DEF At
  <2>. QED  BY <1>1, <1>2, <2>1 DEF NotPosted, At, Moving
<1>. QED  BY <1>8, <1>9, <1>10, <1>12, <1>13, <1>15, <1>16, <1>17, <1>18, <1>19
          DEF PipelineInv

LEMMA LookupStep ==
  ASSUME PipelineTyped, PipelineTyped', PipelineInv, NEW x \in Actors, Lookup(x)
  PROVE  PipelineInv'
PROOF
<1>. DEFINE h == actor[x]
            a == h.about
            next == nextStage(pl.stages, currentStage(pl, a))
<1>1. /\ At(x, "lookup") /\ UNCHANGED <<request, pl, stageOf, launched, reported, crashes>>
      /\ \/ Becomes(x, Resting("ended"))
         \/ Owns(pl, a) /\ Becomes(x, Failing(h))
         \/ MayAdvance(a) /\ h.verdict = "completed" /\ next = NoStage /\ Becomes(x, Completing(h))
         \/ MayAdvance(a) /\ h.verdict = "completed" /\ next \in Stages /\ Becomes(x, GoingOn(h, next))
  BY LookupEffect
<1>2. /\ request \in Request /\ pl \in Row /\ actor \in [Actors -> Actor] /\ h.made = NoAudit
      /\ Post \in Actors /\ a \in Audits /\ actor' \in [Actors -> Actor]
  BY <1>1 DEF PipelineTyped, PipelineTypeOK, PipelineInv, OwnVerdict, Actors
<1>3. CASE Becomes(x, Resting("ended"))
  BY <1>1, <1>3, EndStep DEF At
<1>4. CASE Owns(pl, a) /\ Becomes(x, Failing(h))
  <2>. DEFINE r == Failing(h)
  <2>1. /\ r \in Actor /\ r.pc = "update" /\ r.made = NoAudit /\ r.copy.status = "failed"
        /\ r.copy.stages = pl.stages /\ r.copy.auditOf = pl.auditOf
    BY <1>2, DecisionShape DEF Stages
  <2>2. Sound(pl)
    BY <1>2, <1>4, RowShape, NoAuditIsNone DEF PipelineInv, RowIsSound, Owns
  <2>. HIDE DEF r
  <2>3. Sound(r.copy) /\ List' = List
    BY <1>1, <2>1, <2>2, ListStays DEF Sound
  <2>4. \A z \in Actors : actor'[z] = IF z = x THEN r ELSE actor[z]
    BY <1>2, <1>4, <2>1, BecomesEffect DEF r
  <2>5. ToFail(actor[x])'
    BY <1>1, <2>1, <2>3, <2>4 DEF ToFail, Sound, AtStage, Finished
  <2>6. NotPosted'
    <3>1. ~At(Post, "idle")
      BY <1>1, NobodyPosts DEF At
    <3>. QED  BY <1>2, <2>1, <2>4, <3>1 DEF NotPosted, At
  <2>7. launched' \subseteq Launching
    BY <1>1 DEF Launching
  <2>. QED  BY <1>1, <2>4, <2>5, <2>6, <2>7, QuietStep
<1>5. CASE MayAdvance(a) /\ h.verdict = "completed"
  <2>1. /\ Sound(pl) /\ pl.status # "failed" /\ \A y \in Actors : ~Moving(actor[y])
    BY <1>1, <1>5, GuardPasses
  <2>2. PICK k \in 1..Len(List) : Turn(x, pl, k) /\ currentStage(pl, a) = List[k]
    BY <1>1, <1>5, GuardPasses
  <2>3. next = IF k < Len(List) THEN List[k + 1] ELSE NoStage
    BY <1>2, <2>1, <2>2, NextStageValue DEF Sound
  <2>4. Len(List) \in Nat /\ \A j \in 1..Len(List) : List[j] \in Stages
    BY <1>2, ListShape
  <2>5. CASE next = NoStage /\ Becomes(x, Completing(h))
    <3>. DEFINE r == Completing(h)
    <3>1. /\ r \in Actor /\ r.pc = "update" /\ r.made = NoAudit /\ r.copy.status = "completed"
          /\ r.copy.stages = pl.stages /\ r.copy.auditOf = pl.auditOf
      BY <1>2, DecisionShape DEF Stages
    <3>2. k = Len(List)
      <4>1. k < Len(List) => List[k + 1] \in Stages
        BY <2>4
      <4>. QED  BY <2>3, <2>4, <2>5, <4>1, StageIsNoNoStage
    <3>. HIDE DEF r
    <3>3. Finished(pl, List[k])
      <4>1. x # Post /\ pl.auditOf[List[k]] = x /\ <<x, "completed">> \in reported
        BY <2>2 DEF Turn
      <4>2. x \in Audits
        BY <1>1, <1>5 DEF PipelineInv, OwnVerdict
      <4>. QED  BY <2>1, <2>4, <4>1, <4>2, NoAuditIsNone DEF Sound, Finished
    <3>4. \A i \in DOMAIN List : Finished(pl, List[i])
      <4>1. \A i \in 1..(k - 1) : Finished(pl, List[i])
        BY <2>2 DEF Turn, AtStage
      <4>. QED  BY <1>2, <3>2, <3>3, <4>1, ListShape
    <3>5. Sound(r.copy)
      BY <2>1, <3>1, <3>4 DEF Sound, Finished
    <3>6. Becomes(x, r)
      BY <2>5 DEF r
    <3>7. Moving(r)
      BY <3>1 DEF Moving
    <3>. QED  BY <1>1, <2>1, <2>2, <3>1, <3>5, <3>6, <3>7, StartStep
  <2>6. CASE next \in Stages /\ Becomes(x, GoingOn(h, next))
    <3>. DEFINE r == GoingOn(h, next)
    <3>1. /\ r \in Actor /\ r.pc = "create" /\ r.made = NoAudit /\ r.copy = pl /\ r.next = next
      BY <1>2, <2>6, DecisionShape
    <3>2. k < Len(List) /\ next = List[k + 1]
      BY <2>3, <2>6, StageIsNoNoStage
    <3>3. Becomes(x, r)
      BY <2>6
    <3>. HIDE DEF r
    <3>4. Moving(r) /\ r.copy.auditOf = pl.auditOf /\ Sound(r.copy) /\ r.next = List[k + 1]
      BY <2>1, <3>1, <3>2 DEF Moving
    <3>. QED  BY <1>1, <2>1, <2>2, <3>1, <3>2, <3>3, <3>4, StartStep
  <2>. QED  BY <1>1, <1>3, <1>4, <2>5, <2>6
<1>. QED  BY <1>1, <1>3, <1>4, <1>5

-----------------------------------------------------------------------------
(***************************************************************************)
(* auditSvc.Create.  The copy in hand goes from its k-th stage to the next *)
(* one, whose audit nobody has launched: the copy, which names all that    *)
(* were, names none for it.                                                *)
(***************************************************************************)
LEMMA SoundCopy ==
  ASSUME NEW z, NEW row, actor'[z].copy = row, Sound(row)'
  PROVE  Sound(actor[z].copy)'
PROOF BY DEF Sound, AtStage, Finished

LEMMA InOrderOf ==
  ASSUME NEW b, NEW t, stageOf'[b] = t, InOrder(t)'
  PROVE  InOrder(stageOf[b])'
PROOF BY DEF InOrder, CompletedOnce

LEMMA MadeIsSound ==
  ASSUME PipelineTyped, NEW x \in Actors, NEW row \in Row, NEW new \in Row, NEW a \in Audits,
         NEW k \in 0..(Len(List) - 1), Sound(row), Turn(x, row, k), x = Post \/ x \in Audits,
         stageOf'[a] = List[k + 1], Grows,
         new.status = Running(List[k + 1]), new.stages = row.stages,
         new.auditOf[List[k + 1]] = a,
         \A t \in Stages : t # List[k + 1] => new.auditOf[t] = row.auditOf[t]
  PROVE  Sound(new)' /\ \A j \in 1..k : CompletedOnce(List[j])
PROOF
<1>1. /\ request \in Request /\ stageOf \in [Audits -> Stages \cup {NoStage}]
      /\ List' = List /\ Len(List) \in Nat /\ k \in 0..Len(List) /\ k + 1 \in 1..Len(List)
      /\ \A i \in 1..Len(List) : List[i] \in Stages
      /\ \A i, j \in 1..Len(List) : List[i] = List[j] => i = j
  BY ListStays, ListShape DEF PipelineTyped, PipelineTypeOK, Grows
<1>. DEFINE s == List[k + 1]
<1>2. s \in Stages
  BY <1>1
<1>3. \A j \in 1..k : Finished(row, List[j])
  <2>. SUFFICES ASSUME NEW j \in 1..k PROVE Finished(row, List[j])
    OBVIOUS
  <2>1. CASE j = k
    <3>1. k > 0 /\ k \in 1..Len(List)
      BY <1>1, <2>1
    <3>2. x # Post /\ row.auditOf[List[k]] = x /\ <<x, "completed">> \in reported
      BY <3>1 DEF Turn
    <3>. QED  BY <1>1, <2>1, <3>1, <3>2, NoAuditIsNone DEF Sound, Finished
  <2>2. CASE j # k
    BY <2>2 DEF Turn, AtStage
  <2>. QED  BY <2>1, <2>2
<1>4. \A j \in 1..k : List[j] \in Stages /\ List[j] # s
  BY <1>1
<1>5. \A j \in 1..k : CompletedOnce(List[j])
  <2>. TAKE j \in 1..k
  <2>. DEFINE t == List[j]
  <2>1. t \in Stages /\ Finished(row, t)
    BY <1>3, <1>4
  <2>. HIDE DEF t
  <2>2. row.auditOf[t] \in Audits
    BY <2>1, RowAudits DEF Finished
  <2>3. CompletedOnce(t)
    BY <2>1, <2>2 DEF Finished, CompletedOnce
  <2>. QED  BY <2>3 DEF t
<1>6. \A j \in 1..k : Finished(new, List[j])'
  <2>. TAKE j \in 1..k
  <2>. DEFINE t == List[j]
  <2>1. t \in Stages /\ t # s /\ Finished(row, t) /\ List'[j] = t
    BY <1>1, <1>3, <1>4
  <2>. HIDE DEF s, t
  <2>2. new.auditOf[t] = row.auditOf[t]
    BY <2>1 DEF s
  <2>3. /\ row.auditOf[t] # NoAudit /\ stageOf'[row.auditOf[t]] = t
        /\ <<row.auditOf[t], "completed">> \in reported'
    BY <2>1, RowAudits, StageIsNoNoStage DEF Finished, Grows
  <2>. QED  BY <2>1, <2>2, <2>3 DEF Finished
<1>7. \A t \in Stages : new.auditOf[t] # NoAudit => stageOf'[new.auditOf[t]] = t
  <2>. TAKE t \in Stages
  <2>1. CASE t = s
    BY <1>1, <1>2, <2>1
  <2>2. CASE t # s
    <3>1. new.auditOf[t] = row.auditOf[t]
      BY <2>2
    <3>2. row.auditOf[t] # NoAudit => stageOf[row.auditOf[t]] = t /\ row.auditOf[t] \in Audits
      BY RowAudits DEF Sound
    <3>. QED  BY <3>1, <3>2, StageIsNoNoStage DEF Grows
  <2>. QED  BY <2>1, <2>2
<1>8. \A j \in (k + 2)..Len(List) : new.auditOf[List[j]] = NoAudit
  <2>. TAKE j \in (k + 2)..Len(List)
  <2>1. j \in 1..Len(List) /\ j # k + 1 /\ j \in (k + 1)..Len(List)
    BY <1>1
  <2>2. List[j] \in Stages /\ List[j] # s /\ row.auditOf[List[j]] = NoAudit
    BY <1>1, <2>1 DEF Turn, AtStage
  <2>. QED  BY <2>2
<1>9. AtStage(new, k + 1)'
  <2>1. new.status = Running(List'[k + 1]) /\ new.auditOf[List'[k + 1]] # NoAudit
    BY <1>1, NoAuditIsNone
  <2>2. \A j \in 1..((k + 1) - 1) : Finished(new, List[j])'
    BY <1>1, <1>6
  <2>3. \A j \in ((k + 1) + 1)..Len(List') : new.auditOf[List'[j]] = NoAudit
    BY <1>1, <1>8
  <2>4. k + 1 # 0
    BY <1>1
  <2>. QED  BY <2>1, <2>2, <2>3, <2>4 DEF AtStage
<1>10. Sound(new)'
  <2>1. new.stages = List'
    BY <1>1 DEF Sound
  <2>2. k + 1 \in 0..Len(List')
    BY <1>1
  <2>. QED  BY <1>7, <1>9, <2>1, <2>2 DEF Sound
<1>. QED  BY <1>5, <1>10

LEMMA CreateStep ==
  ASSUME PipelineTyped, PipelineTyped', PipelineInv, NEW x \in Actors, At(x, "create"),
         UNCHANGED <<request, pl, launched, reported>>,
         NEW a \in Audits, At(a, "unborn"), a # x,
         stageOf' = [stageOf EXCEPT ![a] = actor[x].next],
         actor' = [z \in Actors |-> IF z = x THEN Made(actor[x], a)
                     ELSE IF z = a THEN Resting("created") ELSE actor[z]]
  PROVE  PipelineInv'
PROOF
<1>0. PICK h \in Actor : h = actor[x]
  BY DEF PipelineTyped, PipelineTypeOK
<1>1. /\ request \in Request /\ pl \in Row /\ actor \in [Actors -> Actor]
      /\ stageOf \in [Audits -> Stages \cup {NoStage}] /\ launched \subseteq Audits
      /\ Post \in Actors /\ Audits \subseteq Actors /\ h.copy \in Row /\ h.next \in Stages
  BY <1>0 DEF PipelineTyped, PipelineTypeOK, Actors, Actor, Ready, At
<1>2. PICK row \in Row, s \in Stages, r \in Actor, new \in Row :
        /\ row = h.copy /\ s = h.next /\ r = Made(h, a) /\ new = r.copy
        /\ r.pc = "update" /\ r.made = a
        /\ new.status = Running(s) /\ new.stages = row.stages /\ new.auditOf[s] = a
        /\ \A t \in Stages : t # s => new.auditOf[t] = row.auditOf[t]
  BY <1>1, MadeShape
<1>3. Resting("created").pc = "created"
  BY RestingShape DEF PCs
<1>4. \A z \in Actors : actor'[z] = IF z = x THEN r ELSE IF z = a THEN Resting("created") ELSE actor[z]
  BY <1>0, <1>2
<1>27. stageOf' = [stageOf EXCEPT ![a] = s] /\ actor[x] = h
  BY <1>0, <1>2
<1>5. stageOf[a] = NoStage /\ \A b \in Audits : b # a => stageOf'[b] = stageOf[b]
  BY <1>1 DEF PipelineInv, Births
<1>6. Grows /\ List' = List /\ Len(List) \in Nat
  BY <1>1, <1>5, ListStays, ListShape DEF Grows
<1>7. Moving(h) /\ Moving(actor[x]) /\ Sound(row) /\ Names(row) /\ h.made = NoAudit
  BY <1>0, <1>2 DEF PipelineInv, Moving, CopiesAreSound, Drafts, At
<1>8. PICK k \in 0..(Len(List) - 1) : Turn(x, row, k) /\ s = List[k + 1]
  BY <1>0, <1>2 DEF PipelineInv, Drafts
<1>9. k \in 0..Len(List) /\ k + 1 \in 1..Len(List)
  BY <1>6
<1>10. x = Post \/ x \in Audits
  <2>. SUFFICES ASSUME x # Post PROVE x \in Audits
    OBVIOUS
  <2>1. k \in 1..Len(List) /\ row.auditOf[List[k]] = x /\ <<x, "completed">> \in reported
    BY <1>6, <1>8, <1>9 DEF Turn
  <2>. QED  BY <2>1 DEF PipelineTyped, PipelineTypeOK
<1>11. stageOf'[a] = s /\ a \notin Launching
  <2>1. \A b \in Launching : stageOf[b] \in Stages
    BY DEF PipelineInv, OneLaunch
  <2>. QED  BY <1>1, <1>5, <1>27, <2>1, StageIsNoNoStage
<1>12. Sound(new)' /\ \A j \in 1..k : CompletedOnce(List[j])
  <2>1. stageOf'[a] = List[k + 1]
    BY <1>8, <1>11
  <2>2. /\ new.status = Running(List[k + 1]) /\ new.auditOf[List[k + 1]] = a
        /\ \A t \in Stages : t # List[k + 1] => new.auditOf[t] = row.auditOf[t]
    BY <1>2, <1>8
  <2>3. Sound(row) /\ Turn(x, row, k) /\ row \in Row /\ new \in Row /\ new.stages = row.stages
    BY <1>1, <1>2, <1>7, <1>8
  <2>4. k \in 0..(Len(List) - 1)
    BY <1>8
  <2>. QED  BY <1>6, <1>10, <2>1, <2>2, <2>3, <2>4, MadeIsSound
<1>13. Launching' = Launching
  <2>1. \A z \in Actors : At(z, "launch")' <=> At(z, "launch")
    BY <1>2, <1>3, <1>4 DEF At
  <2>2. \A z \in Actors : At(z, "launch") => actor'[z] = actor[z]
    BY <1>4 DEF At
  <2>. QED  BY <2>1, <2>2 DEF Launching
<1>14. \A b \in Launching : /\ b \in Audits /\ b # a /\ stageOf'[b] = stageOf[b]
                            /\ stageOf[b] \in Stages /\ stageOf[b] # s
  <2>. TAKE b \in Launching
  <2>1. b \in Audits /\ stageOf[b] \in Stages /\ b # a
    BY <1>11 DEF PipelineInv, OneLaunch
  <2>2. row.auditOf[stageOf[b]] = b
    BY <1>7 DEF Names
  <2>3. row.auditOf[s] = NoAudit
    BY <1>6, <1>8, <1>9 DEF Turn, AtStage
  <2>. QED  BY <1>5, <2>1, <2>2, <2>3, NoAuditIsNone
<1>15. ASSUME NEW q \in Row, Names(q)
       PROVE  Names(q)'
  BY <1>13, <1>14, <1>15 DEF Names
<1>16. RowIsSound'
  BY <1>1, <1>6, SoundStays DEF PipelineInv, RowIsSound
<1>17. CopiesAreSound'
  <2>. SUFFICES ASSUME NEW z \in Actors, actor'[z].pc \in {"create", "update"}
                PROVE  /\ Sound(actor[z].copy)'
                       /\ actor'[z].pc = "update" /\ actor'[z].copy.status = "failed"
                            => actor'[z].made = NoAudit
    BY DEF CopiesAreSound, At
  <2>1. CASE z = x
    <3>1. actor'[z].copy = new
      BY <1>2, <1>4, <2>1
    <3>2. new.status # "failed"
      BY <1>1, <1>2, RunningShape DEF Terminal
    <3>3. Sound(actor[z].copy)'
      BY <1>12, <3>1, SoundCopy
    <3>. QED  BY <3>1, <3>2, <3>3
  <2>2. CASE z # x
    <3>1. actor'[z] = actor[z]
      BY <1>3, <1>4, <2>2
    <3>. DEFINE q == actor[z].copy
    <3>2. /\ q \in Row /\ Sound(q) /\ actor'[z].copy = q
          /\ actor[z].pc = "update" /\ actor[z].copy.status = "failed" => actor[z].made = NoAudit
      BY <1>1, <3>1 DEF PipelineInv, CopiesAreSound, At, Actor
    <3>3. Sound(actor[z].copy)'
      <4>1. ASSUME NEW p \in Row, Sound(p) PROVE Sound(p)'
        BY <1>1, <1>6, <4>1, SoundStays
      <4>2. PICK p \in Row : p = q
        BY <3>2
      <4>3. actor'[z].copy = p /\ Sound(p)
        BY <3>2, <4>2
      <4>. QED  BY <4>1, <4>3, SoundCopy
    <3>. QED  BY <3>1, <3>2, <3>3
  <2>. QED  BY <2>1, <2>2
<1>18. OwnVerdict'
  <2>1. \A z \in Actors : At(z, "lookup")' => actor'[z] = actor[z]
    BY <1>2, <1>3, <1>4 DEF At
  <2>. QED  BY <2>1 DEF PipelineInv, OwnVerdict, At
<1>19. \A z \in Actors : Moving(actor'[z]) => z = x
  <2>1. \A z \in Actors : Moving(actor'[z]) => Moving(actor[z])
    BY <1>3, <1>4, <1>7 DEF Moving
  <2>. QED  BY <1>7, <2>1 DEF PipelineInv, OneMoves
<1>20. OneMoves'
  BY <1>19 DEF OneMoves
<1>21. InTurn'
  <2>. SUFFICES ASSUME NEW z \in Actors, Moving(actor'[z]), pl.status # "failed"
                PROVE  \E j \in 0..Len(List) : Turn(z, pl, j)'
    BY <1>6 DEF InTurn
  <2>1. PICK j \in 0..Len(List) : Turn(z, pl, j)
    BY <1>7, <1>19 DEF PipelineInv, InTurn
  <2>. QED  BY <1>1, <1>6, <2>1, TurnStays
<1>22. Drafts'
  <2>. SUFFICES ASSUME NEW z \in Actors,
                       Moving(actor'[z]) \/ (actor'[z].pc = "update" /\ actor'[z].made # NoAudit)
                PROVE  /\ Names(actor[z].copy)' /\ actor'[z].pc # "create"
                       /\ stageOf'[actor'[z].made] \in Stages
                       /\ actor'[z].copy.auditOf[stageOf'[actor'[z].made]] = actor'[z].made
                       /\ \A b \in Launching' : stageOf'[b] # stageOf'[actor'[z].made]
    BY DEF Drafts, Moving, At
  <2>1. z = x
    <3>. SUFFICES ASSUME z # x PROVE FALSE
      OBVIOUS
    <3>1. ~Moving(actor'[z]) /\ actor'[z] = actor[z]
      BY <1>3, <1>4, <1>19
    <3>. QED  BY <3>1 DEF PipelineInv, CopiesAreSound, At, Moving
  <2>2. actor'[z] = r /\ actor'[z].copy = new
    BY <1>2, <1>4, <2>1
  <2>3. \A b \in Launching' : new.auditOf[stageOf'[b]] = b
    BY <1>2, <1>7, <1>13, <1>14 DEF Names
  <2>4. Names(actor[z].copy)'
    BY <2>2, <2>3 DEF Names
  <2>. QED  BY <1>1, <1>2, <1>11, <1>13, <1>14, <2>2, <2>4
<1>23. RowNamesLaunched'
  BY <1>13, <1>14 DEF PipelineInv, RowNamesLaunched, Names
<1>24. OneLaunch'
  BY <1>13, <1>14 DEF PipelineInv, OneLaunch
<1>25. Births'
  <2>. SUFFICES ASSUME NEW b \in Audits
                PROVE  /\ At(b, "unborn")' => stageOf'[b] = NoStage
                       /\ stageOf'[b] # NoStage => InOrder(stageOf[b])' /\ pl # NoRow
    BY DEF Births
  <2>1. pl # NoRow
    <3>1. pl.status # "failed" => \E j \in 0..Len(List) : Turn(x, pl, j)
      BY <1>7 DEF PipelineInv, InTurn
    <3>2. \A j \in 0..Len(List) : AtStage(pl, j) => pl.status # "absent"
      <4>. TAKE j \in 0..Len(List)
      <4>1. \A i \in 1..Len(List) : List[i] \in Stages
        BY <1>1, ListShape
      <4>. QED  BY <1>6, <4>1, RunningShape DEF AtStage
    <3>. QED  BY <3>1, <3>2, RowShape DEF Turn
  <2>2. CASE b = a
    <3>1. InOrder(List[k + 1])
      <4>1. k + 1 \in DOMAIN List /\ (k + 1) - 1 = k
        BY <1>1, <1>6, <1>9, ListShape
      <4>. QED  BY <1>12, <4>1 DEF InOrder
    <3>2. ASSUME NEW t, InOrder(t) PROVE InOrder(t)'
      BY <1>1, <1>6, <3>2, InOrderStays
    <3>3. stageOf'[b] = s
      BY <1>11, <2>2
    <3>4. InOrder(s)
      BY <1>8, <3>1
    <3>5. InOrder(s)'
      BY <3>2, <3>4
    <3>6. InOrder(stageOf[b])'
      BY <3>3, <3>5, InOrderOf
    <3>7. ~At(b, "unborn")'
      BY <1>1, <1>3, <1>4, <2>2 DEF At
    <3>. QED  BY <2>1, <3>6, <3>7
  <2>3. CASE b # a
    <3>1. /\ At(b, "unborn")' => At(b, "unborn")
          /\ stageOf'[b] = stageOf[b]
      BY <1>1, <1>2, <1>3, <1>4, <1>5, <2>3 DEF At
    <3>2. ASSUME NEW t, InOrder(t) PROVE InOrder(t)'
      BY <1>1, <1>6, <3>2, InOrderStays
    <3>0. PICK t \in Stages \cup {NoStage} : t = stageOf[b]
      BY <1>1
    <3>3. t # NoStage => InOrder(t)
      BY <3>0 DEF PipelineInv, Births
    <3>4. stageOf'[b] = t
      BY <3>0, <3>1
    <3>5. t # NoStage => InOrder(stageOf[b])'
      BY <3>2, <3>3, <3>4, InOrderOf
    <3>6. At(b, "unborn") => t = NoStage
      BY <3>0 DEF PipelineInv, Births
    <3>. QED  BY <2>1, <3>1, <3>4, <3>5, <3>6
  <2>. QED  BY <2>2, <2>3
<1>26. NotPosted'
  <2>1. ~At(Post, "idle")
    BY NobodyPosts DEF At
  <2>. QED  BY <1>1, <1>2, <1>3, <1>4, <2>1 DEF NotPosted, At
<1>. QED  BY <1>16, <1>17, <1>18, <1>20, <1>21, <1>22, <1>23, <1>24, <1>25, <1>26
          DEF PipelineInv

LEMMA CreateAuditStep ==
  ASSUME PipelineTyped, PipelineTyped', PipelineInv, NEW x \in Actors, CreateAudit(x)
  PROVE  PipelineInv'
PROOF
<1>1. At(x, "create") /\ UNCHANGED <<request, pl, launched, reported, crashes>>
  BY CreateAuditEffect
<1>2. CASE UNCHANGED stageOf /\ Becomes(x, Resting("ended"))
  BY <1>1, <1>2, EndStep DEF At
<1>3. ASSUME NEW a \in Audits, At(a, "unborn"), a # x,
             stageOf' = [stageOf EXCEPT ![a] = actor[x].next],
             actor' = [z \in Actors |-> IF z = x THEN Made(actor[x], a)
                         ELSE IF z = a THEN Resting("created") ELSE actor[z]]
      PROVE  PipelineInv'
  BY <1>1, <1>3, CreateStep
<1>. QED  BY <1>2, <1>3, CreateAuditEffect

-----------------------------------------------------------------------------
(***************************************************************************)
(* UpdatePipeline.  A failed row may be as old as it likes; any other is   *)
(* written by the only one who moves the pipeline on, and names all that   *)
(* were launched.                                                          *)
(***************************************************************************)
LEMMA WriteStep ==
  ASSUME PipelineTyped, PipelineTyped', PipelineInv, NEW x \in Actors, At(x, "update"),
         UNCHANGED <<request, stageOf, launched, reported>>, pl' = actor[x].copy,
         NEW r \in Actor, Becomes(x, r),
         \/ AtRest(r) /\ actor[x].made = NoAudit
         \/ r.pc = "launch" /\ actor[x].made # NoAudit /\ r.made = actor[x].made
  PROVE  PipelineInv'
PROOF
<1>1. /\ request \in Request /\ actor \in [Actors -> Actor] /\ actor' \in [Actors -> Actor]
      /\ Post \in Actors /\ Audits \subseteq Actors
  BY DEF PipelineTyped, PipelineTypeOK, Actors
<1>2. PICK row \in Row : row = actor[x].copy
  BY <1>1 DEF Actor
<1>3. \A z \in Actors : actor'[z] = IF z = x THEN r ELSE actor[z]
  BY <1>1, BecomesEffect
<1>4. Grows /\ List' = List
  BY ListStays DEF Grows
<1>5. /\ Sound(row)
      /\ row.status = "failed" => actor[x].made = NoAudit
      /\ row.status # "failed" => Moving(actor[x])
  BY <1>2 DEF PipelineInv, CopiesAreSound, At, Moving
<1>6. RowIsSound'
  <2>1. Sound(row)' /\ pl' = row
    BY <1>1, <1>2, <1>4, <1>5, SoundStays
  <2>. QED  BY <2>1 DEF RowIsSound, Sound, AtStage, Finished
<1>7. CopiesAreSound'
  <2>. SUFFICES ASSUME NEW z \in Actors, actor'[z].pc \in {"create", "update"}
                PROVE  /\ Sound(actor[z].copy)'
                       /\ actor'[z].pc = "update" /\ actor'[z].copy.status = "failed"
                            => actor'[z].made = NoAudit
    BY DEF CopiesAreSound, At
  <2>1. actor'[z] = actor[z]
    BY <1>3 DEF AtRest
  <2>2. PICK q \in Row : q = actor[z].copy
    BY <1>1 DEF Actor
  <2>3. /\ Sound(q)
        /\ actor[z].pc = "update" /\ actor[z].copy.status = "failed" => actor[z].made = NoAudit
    BY <2>1, <2>2 DEF PipelineInv, CopiesAreSound, At
  <2>4. Sound(q)' /\ actor'[z].copy = q
    BY <1>1, <1>4, <2>1, <2>2, <2>3, SoundStays
  <2>5. Sound(actor[z].copy)'
    BY <2>4, SoundCopy
  <2>. QED  BY <2>1, <2>3, <2>5
<1>8. OwnVerdict'
  <2>1. \A z \in Actors : At(z, "lookup")' => actor'[z] = actor[z]
    BY <1>3 DEF At, AtRest
  <2>. QED  BY <2>1 DEF PipelineInv, OwnVerdict, At
<1>9. \A z \in Actors : Moving(actor'[z]) => z # x /\ actor'[z] = actor[z]
  BY <1>3 DEF Moving, AtRest
<1>10. OneMoves'
  BY <1>9 DEF PipelineInv, OneMoves
<1>11. row.status # "failed" => \A z \in Actors : ~Moving(actor'[z])
  BY <1>5, <1>9 DEF PipelineInv, OneMoves
<1>12. InTurn'
  BY <1>2, <1>11 DEF InTurn
<1>13. \A z \in Actors : At(z, "launch")' => \/ z # x /\ At(z, "launch") /\ actor'[z] = actor[z]
                                             \/ z = x /\ r.pc = "launch"
  BY <1>3 DEF At
<1>14. ASSUME r.pc = "launch"
       PROVE  RowNamesLaunched' /\ OneLaunch' /\ Drafts'
  <2>1. /\ actor[x].made # NoAudit /\ r.made = actor[x].made /\ row.status # "failed"
        /\ r.made \in Audits
    BY <1>5, <1>14 DEF AtRest, Actor
  <2>2. PICK a \in Audits : a = r.made
    BY <2>1
  <2>3. /\ stageOf[a] \in Stages /\ row.auditOf[stageOf[a]] = a
        /\ \A b \in Launching : stageOf[b] # stageOf[a]
    BY <1>2, <2>1, <2>2 DEF PipelineInv, Drafts
  <2>4. Names(row)
    BY <1>2, <1>5, <2>1 DEF PipelineInv, Drafts
  <2>5. Launching' \subseteq Launching \cup {a}
    <3>1. \A z \in Actors : At(z, "launch")' =>
            actor'[z].made = a \/ (At(z, "launch") /\ actor'[z].made = actor[z].made)
      BY <1>3, <1>13, <2>2
    <3>. QED  BY <3>1 DEF Launching
  <2>6. RowNamesLaunched'
    BY <1>2, <2>3, <2>4, <2>5 DEF RowNamesLaunched, Names
  <2>7. OneLaunch'
    BY <2>3, <2>5 DEF PipelineInv, OneLaunch
  <2>8. Drafts'
    <3>1. \A z \in Actors : actor'[z].pc = "update" => actor'[z].made = NoAudit
      <4>. SUFFICES ASSUME NEW z \in Actors, actor'[z].pc = "update"
                    PROVE  actor'[z].made = NoAudit
        OBVIOUS
      <4>1. actor'[z] = actor[z] /\ ~Moving(actor'[z])
        BY <1>3, <1>11, <1>14, <2>1
      <4>. QED  BY <4>1 DEF PipelineInv, CopiesAreSound, At, Moving
    <3>. QED  BY <1>11, <2>1, <3>1 DEF Drafts, At, Moving
  <2>. QED  BY <2>6, <2>7, <2>8
<1>15. ASSUME AtRest(r)
       PROVE  RowNamesLaunched' /\ OneLaunch' /\ Drafts'
  <2>1. Launching' \subseteq Launching
    <3>1. \A z \in Actors : At(z, "launch")' => At(z, "launch") /\ actor'[z] = actor[z]
      BY <1>13, <1>15 DEF AtRest
    <3>. QED  BY <3>1 DEF Launching
  <2>2. actor[x].made = NoAudit
    BY <1>15 DEF AtRest
  <2>3. RowNamesLaunched'
    <3>1. row.status # "failed" => Names(row)
      BY <1>2, <1>5 DEF PipelineInv, Drafts
    <3>. QED  BY <1>2, <2>1, <3>1 DEF RowNamesLaunched, Names
  <2>4. OneLaunch'
    BY <2>1 DEF PipelineInv, OneLaunch
  <2>5. Drafts'
    <3>. SUFFICES ASSUME NEW z \in Actors, actor'[z] = actor[z]
                  PROVE  /\ Moving(actor'[z]) => Names(actor[z].copy)'
                         /\ At(z, "create")' =>
                              /\ actor'[z].made = NoAudit
                              /\ \E k \in 0..(Len(List') - 1) :
                                   Turn(z, actor[z].copy, k)' /\ actor'[z].next = List'[k + 1]
                         /\ At(z, "update")' /\ actor'[z].made # NoAudit =>
                              /\ stageOf'[actor'[z].made] \in Stages
                              /\ actor'[z].copy.auditOf[stageOf'[actor'[z].made]] = actor'[z].made
                              /\ \A b \in Launching' : stageOf'[b] # stageOf'[actor'[z].made]
      <4>1. \A z \in Actors : Moving(actor'[z]) \/ At(z, "update")' \/ At(z, "create")'
                                => actor'[z] = actor[z]
        BY <1>3, <1>15 DEF AtRest, At, Moving
      <4>. QED  BY <4>1 DEF Drafts, At, Moving
    <3>1. PICK q \in Row : q = actor[z].copy /\ q = actor'[z].copy
      BY <1>1 DEF Actor
    <3>2. Moving(actor'[z]) => Names(actor[z].copy)'
      <4>1. Moving(actor'[z]) => Names(q)
        BY <3>1 DEF PipelineInv, Drafts
      <4>. QED  BY <2>1, <3>1, <4>1 DEF Names
    <3>3. At(z, "create")' => actor'[z].made = NoAudit
      BY DEF PipelineInv, Drafts, At
    <3>4. ASSUME At(z, "create")'
          PROVE  \E k \in 0..(Len(List') - 1) :
                   Turn(z, actor[z].copy, k)' /\ actor'[z].next = List'[k + 1]
      <4>1. PICK k \in 0..(Len(List) - 1) : Turn(z, q, k) /\ actor[z].next = List[k + 1]
        BY <3>1, <3>4 DEF PipelineInv, Drafts, At
      <4>2. Turn(z, q, k)'
        <5>1. k \in 0..Len(List)
          BY <1>1, ListShape
        <5>. QED  BY <1>1, <1>4, <4>1, <5>1, TurnStays
      <4>3. Turn(z, actor[z].copy, k)'
        BY <3>1, <4>2 DEF Turn, AtStage, Finished
      <4>. QED  BY <1>4, <4>1, <4>3
    <3>5. ASSUME At(z, "update")', actor'[z].made # NoAudit
          PROVE  /\ stageOf'[actor'[z].made] \in Stages
                 /\ actor'[z].copy.auditOf[stageOf'[actor'[z].made]] = actor'[z].made
                 /\ \A b \in Launching' : stageOf'[b] # stageOf'[actor'[z].made]
      BY <2>1, <3>5 DEF PipelineInv, Drafts, At
    <3>. QED  BY <3>2, <3>3, <3>4, <3>5
  <2>. QED  BY <2>3, <2>4, <2>5
<1>16. Births'
  <2>. SUFFICES ASSUME NEW a \in Audits
                PROVE  /\ At(a, "unborn")' => stageOf'[a] = NoStage
                       /\ stageOf'[a] # NoStage => InOrder(stageOf[a])' /\ pl' # NoRow
    BY DEF Births
  <2>1. pl' # NoRow
    BY <1>1, <1>2, <1>5, SoundStatus
  <2>2. At(a, "unborn")' => At(a, "unborn")
    BY <1>1, <1>3 DEF At, AtRest
  <2>3. InOrder(stageOf[a]) => InOrder(stageOf[a])'
    BY <1>4 DEF InOrder, CompletedOnce
  <2>. QED  BY <2>1, <2>2, <2>3 DEF PipelineInv, Births
<1>17. NotPosted'
  <2>1. ~At(Post, "idle")
    BY NobodyPosts DEF At
  <2>. QED  BY <1>1, <1>3, <2>1 DEF NotPosted, At, AtRest
<1>. QED  BY <1>6, <1>7, <1>8, <1>10, <1>12, <1>14, <1>15, <1>16, <1>17 DEF PipelineInv

LEMMA UpdateStep ==
  ASSUME PipelineTyped, PipelineTyped', PipelineInv, NEW x \in Actors, UpdatePipeline(x)
  PROVE  PipelineInv'
PROOF
<1>1. /\ At(x, "update") /\ UNCHANGED <<request, stageOf, launched, reported, crashes>>
      /\ actor[x] \in Actor
  BY UpdateEffect DEF PipelineTyped, PipelineTypeOK
<1>2. CASE pl' = pl /\ Becomes(x, Resting("ended"))
  BY <1>1, <1>2, EndStep DEF At
<1>3. CASE pl' = actor[x].copy /\ actor[x].made = NoAudit /\ Becomes(x, Resting("ended"))
  <2>1. Resting("ended") \in Actor /\ AtRest(Resting("ended"))
    BY RestingShape DEF AtRest, PCs
  <2>2. PICK r \in Actor : r = Resting("ended")
    BY <2>1
  <2>3. Becomes(x, r) /\ AtRest(r) /\ actor[x].made = NoAudit
    BY <1>3, <2>1, <2>2
  <2>4. UNCHANGED <<request, stageOf, launched, reported>> /\ pl' = actor[x].copy
    BY <1>1, <1>3
  <2>. QED  BY <1>1, <2>3, <2>4, WriteStep
<1>4. CASE /\ pl' = actor[x].copy /\ actor[x].made # NoAudit
           /\ Becomes(x, [actor[x] EXCEPT !.pc = "launch"])
  <2>1. PICK r \in Actor : r = [actor[x] EXCEPT !.pc = "launch"] /\ r.pc = "launch"
                           /\ r.made = actor[x].made
    <3>. DEFINE r == [actor[x] EXCEPT !.pc = "launch"]
    <3>1. r \in Actor /\ r.pc = "launch" /\ r.made = actor[x].made
      BY <1>1 DEF Actor, PCs, Advancing
    <3>. QED  BY <3>1
  <2>2. Becomes(x, r) /\ r.pc = "launch" /\ actor[x].made # NoAudit /\ r.made = actor[x].made
    BY <1>4, <2>1
  <2>3. UNCHANGED <<request, stageOf, launched, reported>> /\ pl' = actor[x].copy
    BY <1>1, <1>4
  <2>. QED  BY <1>1, <2>2, <2>3, WriteStep
<1>. QED  BY <1>2, <1>3, <1>4, UpdateEffect

-----------------------------------------------------------------------------
LEMMA PipelineStarts ==
  ASSUME PipelineInit
  PROVE  PipelineTyped /\ PipelineInv
PROOF
<1>1. /\ request \in Request /\ pl = NoRow /\ stageOf = [a \in Audits |-> NoStage]
      /\ actor = [x \in Actors |-> Resting(IF x \in Audits THEN "unborn" ELSE "idle")]
      /\ launched = {} /\ reported = {} /\ faults = 0 /\ crashes = 0
  BY DEF PipelineInit
<1>2. \A pc \in {"unborn", "idle"} : Resting(pc) \in Actor /\ Resting(pc).pc = pc
  BY RestingShape DEF PCs
<1>3. /\ actor \in [Actors -> Actor]
      /\ \A x \in Actors : actor[x].pc \in {"idle", "unborn"}
      /\ \A a \in Audits : At(a, "unborn")
  BY <1>1, <1>2 DEF At, Actors
<1>4. PipelineTyped
  BY <1>1, <1>3, RowShape, BoundsAssumption DEF PipelineTyped, PipelineTypeOK, Ready
<1>5. Launching = {} /\ \A x \in Actors : ~Moving(actor[x])
  BY <1>1, <1>3 DEF Launching, At, Moving
<1>6. RowIsSound /\ CopiesAreSound /\ OwnVerdict
  BY <1>1, <1>3 DEF RowIsSound, CopiesAreSound, OwnVerdict, At
<1>7. OneMoves /\ InTurn
  BY <1>5 DEF OneMoves, InTurn
<1>8. Drafts
  BY <1>3, <1>5 DEF Drafts, At
<1>9. RowNamesLaunched /\ OneLaunch
  BY <1>5 DEF RowNamesLaunched, OneLaunch, Names
<1>10. Births /\ NotPosted
  BY <1>1, <1>3 DEF Births, NotPosted
<1>. QED  BY <1>4, <1>6, <1>7, <1>8, <1>9, <1>10 DEF PipelineInv

LEMMA PipelineSteps ==
  ASSUME PipelineTyped, PipelineInv, [PipelineNext]_plVars
  PROVE  PipelineInv'
PROOF
<1>1. PipelineTyped'
  BY PipelineTypeStep
<1>2. CASE UNCHANGED plVars
  <2>1. NotPosted'
    BY <1>2 DEF PipelineInv, NotPosted, plVars, At
  <2>2. launched' \subseteq Launching
    BY <1>2 DEF plVars, Launching
  <2>3. /\ UNCHANGED <<request, pl, stageOf>> /\ reported \subseteq reported'
        /\ \A z \in Actors : actor'[z] = actor[z]
    BY <1>2 DEF plVars
  <2>. QED  BY <1>1, <2>1, <2>2, <2>3, QuietStep
<1>. QED  BY <1>1, <1>2, PostStep, RunStep, ViewerStep, CrashStep, LookupStep, CreateAuditStep,
             UpdateStep, LaunchStep DEF PipelineNext, Advance

(***************************************************************************)
(* The inductive invariant.                                                *)
(***************************************************************************)
THEOREM PipelineInvariance == PipelineSpec => [](PipelineTyped /\ PipelineInv)
PROOF
<1>1. PipelineInit => PipelineTyped /\ PipelineInv
  BY PipelineStarts
<1>2. PipelineTyped /\ PipelineInv /\ [PipelineNext]_plVars => (PipelineTyped /\ PipelineInv)'
  BY PipelineTypeStep, PipelineSteps
<1>. QED  BY <1>1, <1>2, PTL DEF PipelineSpec

(***************************************************************************)
(* The row, every copy of it, and every actor have their types (Pipeline,  *)
(* service/pipeline_service.go).                                           *)
(***************************************************************************)
THEOREM PipelineTypeCorrect == PipelineSpec => []PipelineTypeOK
PROOF
<1>1. PipelineTyped => PipelineTypeOK
  BY DEF PipelineTyped
<1>. QED  BY <1>1, PipelineInvariance, PTL

(***************************************************************************)
(* The stages of a pipeline are the required ones, each after what it      *)
(* needs, started once its predecessors completed, launched once, and all  *)
(* of them completed before the pipeline is (expandStages,                 *)
(* advanceToNextStage), whatever is reported twice or late, and whatever   *)
(* fails or restarts in between.                                           *)
(***************************************************************************)
THEOREM StagesKeepOrder == PipelineSpec => []StagesInOrder
PROOF
<1>1. ASSUME PipelineTyped, PipelineInv
      PROVE  StagesInOrder
  <2>1. request \in Request /\ DOMAIN List = 1..Len(List)
        /\ \A i \in DOMAIN List : List[i] \in Stages
    BY <1>1, ListShape DEF PipelineTyped, PipelineTypeOK
  <2>2. pl # NoRow => Sound(pl)
    BY <1>1 DEF PipelineInv, RowIsSound
  <2>3. pl # NoRow => pl.stages = List
    BY <2>2 DEF Sound
  <2>4. StagesMatchRequest
    BY <2>1, <2>3, ListIsRequired, RowShape DEF StagesMatchRequest
  <2>5. StageAfterPrerequisite
    BY <1>1, <2>3 DEF PipelineInv, Births, InOrder, StageAfterPrerequisite
  <2>6. OneRunPerStage
    BY <1>1 DEF PipelineInv, OneLaunch, OneRunPerStage, Launching
  <2>7. CompletedMeansEveryStage
    <3>. SUFFICES ASSUME pl.status = "completed", NEW i \in DOMAIN pl.stages
                  PROVE  LET a == pl.auditOf[pl.stages[i]]
                         IN  /\ a # NoAudit /\ stageOf[a] = pl.stages[i]
                             /\ <<a, "completed">> \in reported
      BY DEF CompletedMeansEveryStage
    <3>1. Sound(pl) /\ pl.stages = List
      BY <2>2, <2>3, RowShape
    <3>2. \A k \in 0..Len(List) : ~AtStage(pl, k)
      BY <2>1, <3>1, SoundStatus
    <3>. QED  BY <3>1, <3>2 DEF Sound, Finished
  <2>. QED  BY <2>4, <2>5, <2>6, <2>7 DEF StagesInOrder
<1>. QED  BY <1>1, PipelineInvariance, PTL

(***************************************************************************)
(* A launched stage is never lost from a row that does not say the         *)
(* pipeline failed, though the row is overwritten whole (UpdatePipeline).  *)
(***************************************************************************)
THEOREM LaunchesAreKept == PipelineSpec => []LaunchedIsRecorded
PROOF
<1>1. PipelineTyped /\ PipelineInv => LaunchedIsRecorded
  BY DEF PipelineInv, RowNamesLaunched, Names, Launching, LaunchedIsRecorded
<1>. QED  BY <1>1, PipelineInvariance, PTL
=============================================================================
