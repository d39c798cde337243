--------------------------- MODULE Lifecycles_proof ---------------------------
(***************************************************************************)
(* What is proved of the two things the backend starts, watches and ends:  *)
(* an audit's runs and a plugin's container.  They share no state.         *)
(*                                                                         *)
(* RunLifecycle: whatever the numbers of viewers, cancels, runs, failures  *)
(* and restarts, a live run is the one the registry has, a run that was    *)
(* stopped in time is never a success, what the outside is told is what    *)
(* the store says, and a late client never fails a live run.  The registry *)
(* comes first (Single): runs are opened in order, only into an empty      *)
(* registry, and close when they stop being live.  On it rest the verdicts *)
(* (Settled, Agreed), because only a live run moves the row back from a    *)
(* terminal status, and the late clients (Guarded).  A stopped run is      *)
(* followed from the stop to its verdict (Doomed).                         *)
(*                                                                         *)
(* PluginSupervisor (second part): a plugin that was given up stays down   *)
(* until a Reconcile launches it.                                          *)
(***************************************************************************)
EXTENDS RunLifecycle, PluginSupervisor, TLAPS

-----------------------------------------------------------------------------
\* Where runs are, and where stream requests are.
RunAt == RunPCs \cup PersistPCs \cup {"dead"}
StreamAt == StreamPCs \cup PersistPCs \cup {"dead"}

Unborn(r) == actor[r].pc = "unborn"

\* Every goroutine is somewhere on its own path, with what it needs in hand.
Proper(a, x) ==
    /\ x \in Actor
    /\ a \in Runs => x.pc \in RunAt
    /\ a \in Streams => /\ x.pc \in StreamAt
                        /\ x.pc \in {"peeked", "attached", "eof"} => x.on \in Runs
    /\ x.pc = "tell" => x.copy.status \in Terminal

Sorted == \A a \in Actors : Proper(a, actor[a])

\* The registry: one live run at most, the last one opened.
Single ==
    /\ LiveIsRegistered
    /\ reg # NoRun => ~Unborn(reg)
    /\ \A r \in Runs : Unborn(r) => ~bc[r].closed
    /\ \A p, q \in Runs : p < q /\ Unborn(p) => Unborn(q)
    /\ \A r \in Runs : Producing(r) => \A p \in Runs : p > r => Unborn(p)

\* Before the audit is created there is nothing.
Blank ==
    post = "start" =>
        /\ row = NoRow /\ told = {} /\ reg = NoRun
        /\ \A r \in Runs : Unborn(r)
        /\ \A c \in Streams : actor[c].pc = "idle"

\* A run that stops being live has told its verdict, and the row is terminal
\* until another run is opened, if that run's verdict is in the store at all.
Over(r) == actor[r].pc = "release" \/ bc[r].closed
Settled ==
    \A r \in Runs : ~Unsaved(r) =>
        /\ actor[r].pc = "tell" => row.status \in Terminal
        /\ Over(r) =>
             /\ \E verdict \in Terminal : <<verdict, r>> \in told
             /\ row.status \in Terminal \/ \E q \in Runs : q > r /\ ~Unborn(q)

\* A stream ends after its run.
Ended == \A c \in Streams : actor[c].pc = "eof" => bc[actor[c].on].closed

\* Verdicts told, and those in the row but not yet told.
Verdicts == told \cup {<<actor[a].copy.status, a>> : a \in {b \in Actors : actor[b].pc = "tell"}}
Working == {"begin", "loaded", "streaming", "drained", "failGet", "save"}

\* A sole verdict is the row's, unless a run is on its way to another.
Agreed ==
    ~VerdictLost /\ crashes = 0 =>
        \A t \in Verdicts :
            Verdicts = {t} => \/ row.status = t[1]
                              \/ \E r \in Runs : actor[r].pc \in Working

\* A client that came after the 201 gives notice only if no run is live.
Guarded ==
    \A c \in Streams : actor[c].late =>
        /\ post = "answered"
        /\ auto => /\ actor[c].pc # "contend"
                   /\ actor[c].pc = "peeked" => reg \in {actor[c].on, NoRun}
                   /\ actor[c].pc \in PersistPCs => \A r \in Runs : ~Producing(r)

\* A run that was stopped in time, like a stream request, has no success to
\* report: what it holds makes its verdict a failure.
Condemned(a) == a \in Streams \/ bc[a].stopped

Hopeless(x) ==
    /\ x.pc = "save" => x.copy.cancelled \/ ~x.whole
    /\ x.pc = "tell" => x.copy.status = "failed"

Doomed ==
    /\ \A r \in Runs : bc[r].stopped => bc[r].cancelled /\ ~Unborn(r)
    /\ \A a \in Actors : Condemned(a) => Hopeless(actor[a]) /\ <<"completed", a>> \notin told
    /\ \A r \in Runs : ~Past(r) => <<"completed", r>> \notin told
    /\ row.status = "completed" => \E r \in Runs : Past(r) /\ ~bc[r].stopped

LifecycleInv ==
    TypeOK /\ Sorted /\ Single /\ Blank /\ Settled /\ Ended /\ Agreed /\ Guarded /\ Doomed

-----------------------------------------------------------------------------
(***************************************************************************)
(* The kinds of steps.  Most actions differ only in what the registry, the *)
(* row and the verdicts do not see; the proofs are about the kinds.        *)
(***************************************************************************)
Moved(a) == \A b \in Actors \ {a} : actor'[b] = actor[b]

Aside == <<post, reg, bc, auto, crashes>>

\* A live run goes on, and reports nothing.
Plods(r) ==
    /\ r \in Runs /\ Moved(r) /\ UNCHANGED <<Aside, row, told>>
    /\ Producing(r)
    /\ actor'[r].pc \in Working \cup {"release"}
    /\ faults \subseteq faults'
    /\ Unsaved(r)' \/ actor'[r].pc \in Working
    /\ Past(r) => Past(r)'
    /\ actor'[r].pc = "save" => actor'[r].copy.cancelled = bc[r].cancelled \/ ~actor'[r].whole

\* A live run marks the row as running.
Starts(r) ==
    /\ r \in Runs /\ Moved(r) /\ UNCHANGED <<Aside, told>>
    /\ actor[r].pc = "loaded" /\ actor'[r].pc = "streaming"
    /\ row' = row \/ row'.status = "running"
    /\ faults \subseteq faults'

\* A verdict is written to the row, unless the write fails.
Records(a) ==
    /\ a \in Actors /\ Moved(a) /\ UNCHANGED <<Aside, told>>
    /\ actor[a].pc = "save" /\ actor'[a].pc = "tell"
    /\ actor'[a].late = actor[a].late
    /\ actor'[a].copy.status \in Terminal
    /\ actor'[a].copy.status = "completed" => actor[a].whole /\ ~actor[a].copy.cancelled
    /\ faults \subseteq faults'
    /\ row'.status = actor'[a].copy.status \/ (row' = row /\ Unsaved(a)')

\* A verdict is told.
Tells(a) ==
    /\ a \in Actors /\ Moved(a) /\ UNCHANGED <<Aside, row, faults>>
    /\ actor[a].pc = "tell" /\ actor'[a].pc = Finished(a) /\ ~actor'[a].late
    /\ told' = told \cup {<<actor[a].copy.status, a>>}

\* A stream request goes on, and reports nothing.
Strolls(c) ==
    /\ c \in Streams /\ Moved(c) /\ UNCHANGED <<Aside, row, told>>
    /\ actor[c].pc = "idle" => row # NoRow
    /\ actor[c].pc # "tell" /\ actor'[c].pc \notin {"idle", "tell"}
    /\ actor'[c].pc = "eof" => bc[actor'[c].on].closed
    /\ actor'[c].pc = "save" => ~actor'[c].whole
    /\ faults \subseteq faults'

\* The first unborn run is registered, by POST or by the stream request c.
Opens(r) ==
    /\ r \in Runs /\ Unborn(r) /\ \A q \in Runs : q < r => ~Unborn(q)
    /\ reg = NoRun /\ reg' = r
    /\ actor'[r].pc = "begin" /\ actor'[r].late = actor[r].late
    /\ UNCHANGED <<bc, row, told, faults, auto, crashes>>
    /\ \/ post = "created" /\ post' = "answered" /\ Moved(r)
       \/ \E c \in Streams :
            /\ ~auto /\ post' = post
            /\ actor[c].pc \in {"seen", "peeked"}
            /\ actor'[c].pc = "attached" /\ ~actor'[c].late
            /\ \A b \in Actors \ {r, c} : actor'[b] = actor[b]

\* Nothing but what a broadcaster holds, a cancel or the answer to POST.
Flags ==
    /\ UNCHANGED <<row, reg, actor, told, faults, auto, crashes>>
    /\ post' = post \/ (post = "created" /\ post' = "answered")
    /\ bc' \in [Runs -> Broadcaster]
    /\ \A r \in Runs :
         /\ bc'[r].closed = bc[r].closed
         /\ bc[r].cancelled => bc'[r].cancelled
         /\ bc'[r].stopped => bc[r].stopped \/ (bc'[r].cancelled /\ actor[r].pc \in BeforeReason)

Kinds ==
    \/ PostCreate
    \/ \E r \in Runs : Plods(r) \/ Starts(r) \/ Opens(r) \/ Release(r) \/ Evict(r)
    \/ \E a \in Actors : Records(a) \/ Tells(a)
    \/ \E c \in Streams : Strolls(c)
    \/ Flags
    \/ Crash
    \/ UNCHANGED vars

-----------------------------------------------------------------------------
(***************************************************************************)
(* Every step is of one of these kinds, and keeps the types.               *)
(***************************************************************************)
LEMMA Put ==
    ASSUME TypeOK, Sorted, NEW a \in Actors, NEW x, Proper(a, x),
           actor' = [actor EXCEPT ![a] = x]
    PROVE  actor' \in [Actors -> Actor] /\ Sorted' /\ actor'[a] = x /\ Moved(a)
<1>1. x \in Actor /\ actor \in [Actors -> Actor]
  BY DEF Proper, TypeOK
<1>2. actor' \in [Actors -> Actor] /\ actor'[a] = x
  BY <1>1
<1>3. Moved(a)
  BY <1>1 DEF Moved
<1>4. \A b \in Actors : Proper(b, actor'[b])
  BY <1>2, <1>3 DEF Moved, Sorted
<1> QED
  BY <1>2, <1>3, <1>4 DEF Sorted

LEMMA Constants ==
    /\ Runs \subseteq Nat /\ NoRun \notin Runs
    /\ \A r \in Runs : r \in Actors /\ r \notin Streams
    /\ \A c \in Streams : c \in Actors /\ c \notin Runs
    /\ \A a \in Actors : a \in Runs \/ a \in Streams
BY RunsAssumption, ActorsAssumption DEF NoRun, Actors

\* What an actor has in hand, field by field.
LEMMA Hand ==
    ASSUME TypeOK, Sorted, NEW a \in Actors
    PROVE  /\ Proper(a, actor[a]) /\ actor[a] \in Actor
           /\ actor[a].copy \in Row /\ actor[a].whole \in BOOLEAN
           /\ actor[a].on \in Runs \cup {NoRun} /\ actor[a].late \in BOOLEAN
           /\ actor[a].pc \in RunPCs \cup PersistPCs \cup StreamPCs \cup {"dead"}
BY DEF TypeOK, Sorted, Actor

LEMMA FreshHand ==
    ASSUME NEW at \in RunPCs \cup PersistPCs \cup StreamPCs \cup {"dead"}
    PROVE  Fresh(at) \in Actor /\ Fresh(at).pc = at /\ ~Fresh(at).late
BY DEF Fresh, Actor, NoRow, Row

\* Leave, Drop and Attach put down what was in hand.
LEMMA Leaving ==
    ASSUME TypeOK, Sorted, NEW a \in Actors, NEW at, Leave(a, at),
           at \in (IF a \in Runs THEN RunAt ELSE StreamAt) \ {"peeked", "attached", "eof", "tell"}
    PROVE  /\ actor' \in [Actors -> Actor] /\ Sorted' /\ Moved(a)
           /\ actor'[a].pc = at /\ ~actor'[a].late
<1>1. Proper(a, Fresh(at)) /\ Fresh(at).pc = at /\ ~Fresh(at).late
  BY FreshHand, Constants DEF Proper, RunAt, StreamAt
<1> QED
  BY <1>1, Put DEF Leave

LEMMA Dropping ==
    ASSUME TypeOK, Sorted, NEW a \in Actors, Drop(a, "failGet")
    PROVE  /\ actor' \in [Actors -> Actor] /\ Sorted' /\ Moved(a)
           /\ actor'[a].pc = "failGet" /\ actor'[a].late = actor[a].late
<1> DEFINE x == [Fresh("failGet") EXCEPT !.late = actor[a].late]
<1>1. actor[a].late \in BOOLEAN
  BY Hand
<1>2. x \in Actor /\ x.pc = "failGet" /\ x.late = actor[a].late
  BY <1>1, FreshHand DEF PersistPCs, Fresh, Actor
<1>3. Proper(a, x)
  BY <1>2 DEF Proper, RunAt, StreamAt, PersistPCs
<1> HIDE DEF x
<1>4. actor' = [actor EXCEPT ![a] = x]
  BY DEF Drop, x
<1> QED
  BY <1>2, <1>3, <1>4, Put

LEMMA Attaching ==
    ASSUME TypeOK, Sorted, NEW c \in Streams, NEW r \in Runs, Attach(c, r)
    PROVE  /\ actor' \in [Actors -> Actor] /\ Sorted' /\ Moved(c)
           /\ actor'[c].pc = "attached" /\ ~actor'[c].late
<1> DEFINE x == [Fresh("attached") EXCEPT !.on = r]
<1>1. x \in Actor /\ x.pc = "attached" /\ ~x.late /\ x.on = r
  BY FreshHand DEF StreamPCs, Fresh, Actor
<1>2. Proper(c, x) /\ c \in Actors
  BY <1>1, Constants DEF Proper, StreamAt, StreamPCs
<1> HIDE DEF x
<1>3. actor' = [actor EXCEPT ![c] = x]
  BY DEF Attach, x
<1> QED
  BY <1>1, <1>2, <1>3, Put

\* Goto and its like: the actor comes to hold x, and has not let go of the
\* broadcaster or of its lateness.
LEMMA Going ==
    ASSUME TypeOK, Sorted, NEW a \in Actors, NEW x \in Actor,
           x.pc \in IF a \in Runs THEN RunAt ELSE StreamAt,
           x.pc \in {"peeked", "attached", "eof"} => x.on \in Runs,
           x.pc = "tell" => x.copy.status \in Terminal,
           actor' = [actor EXCEPT ![a] = x]
    PROVE  actor' \in [Actors -> Actor] /\ Sorted' /\ Moved(a) /\ actor'[a] = x
<1>1. Proper(a, x)
  BY Constants DEF Proper
<1> QED
  BY <1>1, Put

LEMMA Marked ==
    ASSUME NEW copy \in Row
    PROVE  /\ \A status \in {"absent", "pending", "running"} \cup Terminal :
                /\ [copy EXCEPT !.status = status] \in Row
                /\ [copy EXCEPT !.status = status].status = status
           /\ \A cancelled \in BOOLEAN : [copy EXCEPT !.cancelled = cancelled] \in Row
BY DEF Row

\* What goes wrong is remembered, and costs a verdict unless it is a panic or
\* the marking of the row.
LEMMA FaultIs ==
    ASSUME TypeOK, NEW call \in Calls, NEW a \in Actors, Fault(call, a)
    PROVE  /\ faults \subseteq faults' /\ faults' \subseteq Calls \X Actors
           /\ call \in {"read", "write"} => Unsaved(a)'
BY DEF Fault, TypeOK, Unsaved

(***************************************************************************)
(* The run's own steps.                                                    *)
(***************************************************************************)
LEMMA RunBeginIs ==
    ASSUME TypeOK, Sorted, NEW r \in Runs, RunBegin(r)
    PROVE  TypeOK' /\ Sorted' /\ Plods(r)
<1> r \in Actors
  BY Constants
<1>1. CASE actor' = [actor EXCEPT ![r] = [@ EXCEPT !.pc = "loaded", !.copy = row]] /\ NoFault
  <2> DEFINE h == actor[r]
             x == [h EXCEPT !.pc = "loaded", !.copy = row]
  <2>1. h \in Actor /\ row \in Row
    BY Hand DEF TypeOK
  <2>2. actor' = [actor EXCEPT ![r] = x]
    BY <1>1
  <2> HIDE DEF h
  <2>3. x \in Actor /\ x.pc = "loaded"
    BY <2>1 DEF RunPCs, Actor
  <2> HIDE DEF x
  <2>4. /\ actor' \in [Actors -> Actor] /\ Sorted' /\ Moved(r)
        /\ actor'[r].pc = "loaded"
    BY <2>3, <2>2, Going DEF RunAt, RunPCs
  <2> QED
    BY <1>1, <2>4 DEF RunBegin, At, Rest, Aside, Plods, Producing, Working, Past, BeforeReason, TypeOK, NoFault
<1>2. CASE Leave(r, "release") /\ Fault("read", r)
  <2>1. /\ actor' \in [Actors -> Actor] /\ Sorted' /\ Moved(r)
        /\ actor'[r].pc = "release"
    BY <1>2, Leaving DEF RunAt, RunPCs
  <2> QED
    BY <1>2, <2>1, FaultIs DEF Calls, RunBegin, At, Rest, Aside, Plods, Producing, Working, Past, BeforeReason, TypeOK
<1> QED
  BY <1>1, <1>2 DEF RunBegin

LEMMA RunRefusedIs ==
    ASSUME TypeOK, Sorted, NEW r \in Runs, RunRefused(r)
    PROVE  TypeOK' /\ Sorted' /\ Plods(r)
<1>1. /\ actor' \in [Actors -> Actor] /\ Sorted' /\ Moved(r)
      /\ actor'[r].pc = "failGet"
  BY Dropping, Constants DEF RunRefused
<1> QED
  BY <1>1 DEF RunRefused, At, Rest, Aside, Plods, Producing, Working, Past, BeforeReason, TypeOK, NoFault

LEMMA RunPanicsIs ==
    ASSUME TypeOK, Sorted, NEW r \in Runs, RunPanics(r)
    PROVE  TypeOK' /\ Sorted' /\ Plods(r)
<1>1. /\ actor' \in [Actors -> Actor] /\ Sorted' /\ Moved(r)
      /\ actor'[r].pc = "failGet"
  BY Dropping, Constants DEF RunPanics
<1> QED
  BY <1>1, FaultIs, Constants DEF Calls, RunPanics, Rest, Aside, Plods, Producing, Working, Past, BeforeReason, TypeOK

LEMMA RunStartIs ==
    ASSUME TypeOK, Sorted, NEW r \in Runs, RunStart(r)
    PROVE  TypeOK' /\ Sorted' /\ Starts(r)
<1> DEFINE h == actor[r]
           copy == [h.copy EXCEPT !.status = "running"]
           x == [h EXCEPT !.pc = "streaming", !.copy.status = "running"]
<1>1. h \in Actor /\ h.copy \in Row /\ r \in Actors
  BY Hand, Constants
<1>2. /\ actor' = [actor EXCEPT ![r] = x]
      /\ (row' = copy /\ NoFault) \/ (row' = row /\ Fault("mark", r))
  BY DEF RunStart
<1> HIDE DEF h
<1>3. copy \in Row /\ copy.status = "running"
  BY <1>1, Marked
<1>4. x \in Actor /\ x.pc = "streaming"
  BY <1>1, <1>3 DEF RunPCs, Actor
<1> HIDE DEF copy, x
<1>5. /\ actor' \in [Actors -> Actor] /\ Sorted' /\ Moved(r)
      /\ actor'[r].pc = "streaming"
  BY <1>1, <1>2, <1>4, Going DEF RunAt, RunPCs
<1>6. /\ row' \in Row /\ faults \subseteq faults' /\ faults' \subseteq Calls \X Actors
      /\ row' = row \/ row'.status = "running"
  BY <1>1, <1>2, <1>3, FaultIs DEF Calls, TypeOK, NoFault
<1> QED
  BY <1>5, <1>6 DEF RunStart, At, Rest, Aside, Starts, TypeOK

LEMMA RunDrainedIs ==
    ASSUME TypeOK, Sorted, NEW r \in Runs, RunDrained(r)
    PROVE  TypeOK' /\ Sorted' /\ Plods(r)
<1>1. PICK whole \in BOOLEAN :
        actor' = [actor EXCEPT ![r] = [@ EXCEPT !.pc = "drained", !.whole = whole]]
  BY DEF RunDrained
<1> DEFINE h == actor[r]
           x == [h EXCEPT !.pc = "drained", !.whole = whole]
<1>2. actor' = [actor EXCEPT ![r] = x]
  BY <1>1
<1>3. h \in Actor /\ r \in Actors
  BY Hand, Constants
<1> HIDE DEF h
<1>4. x \in Actor /\ x.pc = "drained"
  BY <1>3 DEF RunPCs, Actor
<1> HIDE DEF x
<1>5. /\ actor' \in [Actors -> Actor] /\ Sorted' /\ Moved(r)
      /\ actor'[r].pc = "drained"
  BY <1>2, <1>3, <1>4, Going DEF RunAt, RunPCs
<1> QED
  BY <1>5 DEF RunDrained, At, Rest, Aside, Plods, Producing, Working, Past, BeforeReason, TypeOK

LEMMA RunReadsReasonIs ==
    ASSUME TypeOK, Sorted, NEW r \in Runs, RunReadsReason(r)
    PROVE  TypeOK' /\ Sorted' /\ Plods(r)
<1> DEFINE h == actor[r]
           cancelled == bc[r].cancelled
           x == [h EXCEPT !.pc = "save", !.copy.cancelled = cancelled]
<1>1. cancelled \in BOOLEAN /\ h \in Actor /\ h.copy \in Row /\ r \in Actors
  BY Hand, Constants DEF TypeOK, Broadcaster
<1>2. actor' = [actor EXCEPT ![r] = x]
  BY DEF RunReadsReason
<1> HIDE DEF h, cancelled
<1>3. [h.copy EXCEPT !.cancelled = cancelled] \in Row
  BY <1>1, Marked
<1>4. x \in Actor /\ x.pc = "save" /\ x.copy.cancelled = cancelled
  BY <1>1, <1>3 DEF PersistPCs, Actor, Row
<1> HIDE DEF x
<1>5. /\ actor' \in [Actors -> Actor] /\ Sorted' /\ Moved(r)
      /\ actor'[r].pc = "save" /\ actor'[r].copy.cancelled = cancelled
  BY <1>1, <1>2, <1>4, Going DEF RunAt, PersistPCs
<1> QED
  BY <1>5 DEF RunReadsReason, At, Rest, Aside, Plods, Producing, Working, Past, BeforeReason, TypeOK, cancelled

LEMMA FailGetIs ==
    ASSUME TypeOK, Sorted, NEW a \in Actors, FailGet(a)
    PROVE  TypeOK' /\ Sorted' /\ actor[a].pc = "failGet" /\ actor'[a].pc \in {"save", Finished(a)}
           /\ (actor'[a].late => actor[a].late)
           /\ IF a \in Runs THEN Plods(a) ELSE Strolls(a)
<1>1. CASE actor' = [actor EXCEPT ![a] = [@ EXCEPT !.pc = "save", !.copy = row, !.whole = FALSE]]
            /\ NoFault
  <2> DEFINE h == actor[a]
             x == [h EXCEPT !.pc = "save", !.copy = row, !.whole = FALSE]
  <2>1. h \in Actor /\ row \in Row
    BY Hand DEF TypeOK
  <2>2. actor' = [actor EXCEPT ![a] = x] /\ h.late = actor[a].late
    BY <1>1
  <2> HIDE DEF h
  <2>3. x \in Actor /\ x.pc = "save" /\ x.late = h.late /\ ~x.whole
    BY <2>1 DEF PersistPCs, Actor
  <2> HIDE DEF x
  <2>4. /\ actor' \in [Actors -> Actor] /\ Sorted' /\ Moved(a)
        /\ actor'[a].pc = "save" /\ actor'[a].late = actor[a].late /\ ~actor'[a].whole
    BY <2>3, <2>2, Going DEF RunAt, StreamAt, PersistPCs
  <2> QED
    BY <1>1, <2>4, Constants
       DEF FailGet, At, Rest, Aside, Plods, Strolls, Producing, Working, Past, BeforeReason, TypeOK, NoFault
<1>2. CASE Leave(a, Finished(a)) /\ Fault("read", a)
  <2>1. /\ actor' \in [Actors -> Actor] /\ Sorted' /\ Moved(a)
        /\ actor'[a].pc = Finished(a) /\ ~actor'[a].late
    BY <1>2, Leaving DEF Finished, RunAt, RunPCs, StreamAt, StreamPCs
  <2> QED
    BY <1>2, <2>1, FaultIs, Constants
       DEF Calls, FailGet, Finished, At, Rest, Aside, Plods, Strolls, Producing, Working, Past, BeforeReason, TypeOK
<1> QED
  BY <1>1, <1>2 DEF FailGet

LEMMA PersistUpdateIs ==
    ASSUME TypeOK, Sorted, NEW a \in Actors, PersistUpdate(a)
    PROVE  TypeOK' /\ Sorted' /\ Records(a)
<1> DEFINE h == actor[a]
           verdict == Verdict(a)
           copy == [h.copy EXCEPT !.status = verdict]
           x == [h EXCEPT !.pc = "tell", !.copy.status = verdict]
<1>1. /\ verdict \in Terminal /\ h \in Actor /\ h.copy \in Row
      /\ h.late = actor[a].late
      /\ verdict = "completed" => actor[a].whole /\ ~actor[a].copy.cancelled
  BY Hand DEF Verdict, Terminal
<1>2. /\ (row' = copy /\ NoFault) \/ (row' = row /\ Fault("write", a))
      /\ actor' = [actor EXCEPT ![a] = x]
  BY DEF PersistUpdate
<1> HIDE DEF h, verdict
<1>3. copy \in Row /\ copy.status = verdict
  BY <1>1, Marked
<1>4. /\ x \in Actor /\ x.pc = "tell" /\ x.late = actor[a].late
      /\ x.copy = copy /\ x.copy \in Row /\ x.copy.status \in Terminal
  BY <1>1, <1>3 DEF PersistPCs, Actor
<1> HIDE DEF copy, x
<1>5. /\ actor' \in [Actors -> Actor] /\ Sorted' /\ Moved(a)
      /\ actor'[a].pc = "tell" /\ actor'[a].copy = copy /\ actor'[a].late = actor[a].late
  BY <1>4, <1>2, Going DEF RunAt, StreamAt, PersistPCs
<1>6. /\ row' \in Row /\ faults \subseteq faults' /\ faults' \subseteq Calls \X Actors
      /\ row' = copy \/ (row' = row /\ Unsaved(a)')
  BY <1>4, <1>2, FaultIs DEF Calls, TypeOK, NoFault
<1> QED
  BY <1>1, <1>3, <1>4, <1>5, <1>6 DEF PersistUpdate, At, Rest, Aside, Records, TypeOK

LEMMA PersistTellIs ==
    ASSUME TypeOK, Sorted, NEW a \in Actors, PersistTell(a)
    PROVE  TypeOK' /\ Sorted' /\ Tells(a)
<1>1. /\ actor' \in [Actors -> Actor] /\ Sorted' /\ Moved(a)
      /\ actor'[a].pc = Finished(a) /\ ~actor'[a].late
  BY Leaving DEF PersistTell, Finished, RunAt, RunPCs, StreamAt, StreamPCs
<1>2. actor[a].copy.status \in Terminal
  BY Hand DEF PersistTell, At, Proper
<1> QED
  BY <1>1, <1>2 DEF PersistTell, At, Aside, Tells, TypeOK


(***************************************************************************)
(* The stream request's own steps.                                         *)
(***************************************************************************)
LEMMA StreamReadsRowIs ==
    ASSUME TypeOK, Sorted, NEW c \in Streams, StreamReadsRow(c)
    PROVE  /\ TypeOK' /\ Sorted' /\ Strolls(c)
           /\ actor'[c].pc = "seen" /\ (actor'[c].late => post = "answered")
<1> DEFINE h == actor[c]
           late == post = "answered"
           x == [h EXCEPT !.pc = "seen", !.copy = row, !.late = late]
<1>1. h \in Actor /\ row \in Row /\ c \in Actors /\ late \in BOOLEAN
  BY Hand, Constants DEF TypeOK
<1>2. actor' = [actor EXCEPT ![c] = x]
  BY DEF StreamReadsRow
<1>3. row # NoRow /\ actor[c].pc = "idle" /\ (late => post = "answered")
  BY DEF StreamReadsRow, NoRow, At
<1> HIDE DEF h, late
<1>4. x \in Actor /\ x.pc = "seen" /\ x.late = late
  BY <1>1 DEF StreamPCs, Actor
<1> HIDE DEF x
<1>5. /\ actor' \in [Actors -> Actor] /\ Sorted' /\ Moved(c)
      /\ actor'[c].pc = "seen" /\ actor'[c].late = late
  BY <1>1, <1>2, <1>4, Going, Constants DEF StreamAt, StreamPCs
<1> QED
  BY <1>3, <1>5 DEF StreamReadsRow, Rest, Aside, Strolls, TypeOK

LEMMA StreamEOFIs ==
    ASSUME TypeOK, Sorted, NEW c \in Streams, StreamEOF(c)
    PROVE  /\ TypeOK' /\ Sorted' /\ Strolls(c)
           /\ actor'[c].pc = "eof" /\ actor'[c].late = actor[c].late
<1> DEFINE h == actor[c]
           x == [h EXCEPT !.pc = "eof"]
<1>1. h \in Actor /\ c \in Actors /\ h.pc = "attached" /\ h.on \in Runs /\ bc[h.on].closed
  BY Hand, Constants DEF Proper, StreamEOF, At
<1>2. actor' = [actor EXCEPT ![c] = x] /\ h = actor[c]
  BY DEF StreamEOF, Goto
<1> HIDE DEF h
<1>3. x \in Actor /\ x.pc = "eof" /\ x.late = h.late /\ x.on = h.on
  BY <1>1 DEF StreamPCs, Actor
<1> HIDE DEF x
<1>4. actor' \in [Actors -> Actor] /\ Sorted' /\ Moved(c) /\ actor'[c] = x
  BY <1>1, <1>2, <1>3, Going, Constants DEF StreamAt, StreamPCs
<1> QED
  BY <1>1, <1>2, <1>3, <1>4 DEF StreamEOF, Rest, Aside, Strolls, TypeOK

LEMMA StreamContendsIs ==
    ASSUME TypeOK, Sorted, NEW c \in Streams, StreamContends(c)
    PROVE  /\ TypeOK' /\ Sorted' /\ Strolls(c)
           /\ actor[c].pc = "contend"
           /\ actor'[c].pc \in {"attached", "failGet"}
           /\ actor'[c].late => actor[c].late
<1> c \in Actors
  BY Constants
<1>1. CASE Occupied
  <2>1. Attach(c, reg) /\ reg \in Runs
    BY <1>1 DEF StreamContends, Occupied, TypeOK
  <2>2. /\ actor' \in [Actors -> Actor] /\ Sorted' /\ Moved(c)
        /\ actor'[c].pc = "attached" /\ ~actor'[c].late
    BY <2>1, Attaching
  <2> QED
    BY <2>2 DEF StreamContends, At, Rest, Aside, Strolls, TypeOK
<1>2. CASE ~Occupied
  <2>1. Drop(c, "failGet")
    BY <1>2 DEF StreamContends
  <2>2. /\ actor' \in [Actors -> Actor] /\ Sorted' /\ Moved(c)
        /\ actor'[c].pc = "failGet" /\ actor'[c].late = actor[c].late
    BY <2>1, Dropping
  <2> QED
    BY <2>2 DEF StreamContends, At, Rest, Aside, Strolls, TypeOK
<1> QED
  BY <1>1, <1>2

\* A request that found no broadcaster to use: it gives up, gives notice,
\* waits for the run it lost to, or opens a run.
Turns(c) ==
    \/ Strolls(c) /\ actor'[c].pc = "replayed" /\ ~actor'[c].late
    \/ /\ Strolls(c) /\ actor'[c].late = actor[c].late
       /\ IF auto THEN actor'[c].pc = "failGet" ELSE actor'[c].pc = "contend"
    \/ \E r \in Runs : Opens(r)

LEMMA UnownedIs ==
    ASSUME TypeOK, Sorted, NEW c \in Streams, Unowned(c), actor[c].pc \in {"seen", "peeked"},
           UNCHANGED <<row, post, cancel, told, faults, auto, crashes>>
    PROVE  TypeOK' /\ Sorted' /\ Turns(c)
<1> c \in Actors
  BY Constants
<1>1. CASE Leave(c, "replayed") /\ UNCHANGED <<reg, bc>>
  <2>1. /\ actor' \in [Actors -> Actor] /\ Sorted' /\ Moved(c)
        /\ actor'[c].pc = "replayed" /\ ~actor'[c].late
    BY <1>1, Leaving, Constants DEF StreamAt, StreamPCs
  <2> QED
    BY <1>1, <2>1 DEF Turns, Aside, Strolls, TypeOK
<1>2. CASE auto /\ Drop(c, "failGet") /\ UNCHANGED <<reg, bc>>
  <2>1. /\ actor' \in [Actors -> Actor] /\ Sorted' /\ Moved(c)
        /\ actor'[c].pc = "failGet" /\ actor'[c].late = actor[c].late
    BY <1>2, Dropping
  <2>2. UNCHANGED <<reg, bc>>
    BY <1>2
  <2>3. TypeOK' /\ Strolls(c)
    BY <2>1, <2>2 DEF Aside, Strolls, TypeOK
  <2> QED
    BY <1>2, <2>1, <2>3 DEF Turns
<1>3. CASE ~auto /\ Goto(c, "contend") /\ UNCHANGED <<reg, bc>>
  <2> DEFINE h == actor[c]
             x == [h EXCEPT !.pc = "contend"]
  <2>1. h \in Actor
    BY Hand
  <2>2. actor' = [actor EXCEPT ![c] = x] /\ h = actor[c]
    BY <1>3 DEF Goto
  <2> HIDE DEF h
  <2>3. x \in Actor /\ x.pc = "contend" /\ x.late = h.late
    BY <2>1 DEF StreamPCs, Actor
  <2> HIDE DEF x
  <2>4. actor' \in [Actors -> Actor] /\ Sorted' /\ Moved(c) /\ actor'[c] = x
    BY <2>2, <2>3, Going, Constants DEF StreamAt, StreamPCs
  <2> QED
    BY <1>3, <2>2, <2>3, <2>4 DEF Turns, Aside, Strolls, TypeOK
<1>4. ASSUME ~auto, NEW r \in Runs, reg' = r,
             Open([actor EXCEPT ![c] = [Fresh("attached") EXCEPT !.on = r]])
      PROVE  TypeOK' /\ Sorted' /\ Opens(r)
  <2> DEFINE x == [Fresh("attached") EXCEPT !.on = r]
             h == actor[r]
             y == [h EXCEPT !.pc = "begin"]
  <2>1. /\ ~Occupied /\ Unborn(r) /\ \A q \in Runs : q < r => ~Unborn(q)
        /\ bc' = bc
        /\ actor' = [[actor EXCEPT ![c] = x] EXCEPT ![r].pc = "begin"]
    BY <1>4 DEF Open, At, Unborn
  <2>2. x \in Actor /\ x.pc = "attached" /\ ~x.late /\ x.on = r
    BY FreshHand DEF StreamPCs, Fresh, Actor
  <2>3. h \in Actor /\ r \in Actors /\ r # c
    BY Hand, Constants
  <2>4. actor \in [Actors -> Actor]
    BY DEF TypeOK
  <2>5. actor' = [[actor EXCEPT ![c] = x] EXCEPT ![r] = y] /\ h.late = actor[r].late
    BY <2>1, <2>3, <2>4
  <2> HIDE DEF h, x
  <2>6. y \in Actor /\ y.pc = "begin" /\ y.late = h.late
    BY <2>3 DEF RunPCs, Actor
  <2> HIDE DEF y
  <2>7. /\ actor' \in [Actors -> Actor] /\ actor'[c] = x /\ actor'[r] = y
        /\ \A b \in Actors \ {r, c} : actor'[b] = actor[b]
    BY <2>2, <2>3, <2>5, <2>6, <2>4
  <2>8. Proper(c, x) /\ Proper(r, y)
    BY <2>2, <2>6, Constants DEF Proper, RunAt, RunPCs, StreamAt, StreamPCs
  <2>9. Sorted'
    BY <2>7, <2>8 DEF Sorted
  <2>10. Opens(r)
    BY <1>4, <2>1, <2>2, <2>5, <2>6, <2>7 DEF Opens, Occupied
  <2> QED
    BY <1>4, <2>1, <2>7, <2>9, <2>10 DEF TypeOK
<1> QED
  BY <1>1, <1>2, <1>3, <1>4 DEF Unowned, Turns

LEMMA StreamLooksUpIs ==
    ASSUME TypeOK, Sorted, NEW c \in Streams, StreamLooksUp(c)
    PROVE  /\ TypeOK' /\ Sorted' /\ actor[c].pc = "seen"
           /\ \/ reg = NoRun /\ Turns(c)
              \/ /\ reg # NoRun /\ Strolls(c)
                 /\ \/ actor'[c].pc = "attached" /\ ~actor'[c].late
                    \/ /\ actor'[c].pc = "peeked" /\ actor'[c].on = reg
                       /\ actor'[c].late = actor[c].late
<1> c \in Actors /\ actor[c].pc = "seen"
  BY Constants DEF StreamLooksUp, At
<1>1. CASE ~Occupied
  BY <1>1, UnownedIs DEF StreamLooksUp, Occupied
<1>2. CASE Occupied /\ bc[reg].empty
  <2> DEFINE h == actor[c]
             x == [h EXCEPT !.pc = "peeked", !.on = reg]
  <2>1. h \in Actor /\ reg \in Runs
    BY <1>2, Hand DEF TypeOK, Occupied
  <2>2. actor' = [actor EXCEPT ![c] = x] /\ h = actor[c]
    BY <1>2 DEF StreamLooksUp
  <2> HIDE DEF h
  <2>3. x \in Actor /\ x.pc = "peeked" /\ x.late = h.late /\ x.on = reg
    BY <2>1 DEF StreamPCs, Actor
  <2> HIDE DEF x
  <2>4. actor' \in [Actors -> Actor] /\ Sorted' /\ Moved(c) /\ actor'[c] = x
    BY <2>1, <2>2, <2>3, Going, Constants DEF StreamAt, StreamPCs
  <2> QED
    BY <1>2, <2>2, <2>3, <2>4 DEF StreamLooksUp, Occupied, Aside, Strolls, TypeOK
<1>3. CASE Occupied /\ ~bc[reg].empty
  <2>1. Attach(c, reg) /\ reg \in Runs
    BY <1>3 DEF StreamLooksUp, Occupied, TypeOK
  <2>2. /\ actor' \in [Actors -> Actor] /\ Sorted' /\ Moved(c)
        /\ actor'[c].pc = "attached" /\ ~actor'[c].late
    BY <2>1, Attaching
  <2> QED
    BY <1>3, <2>2 DEF StreamLooksUp, Occupied, Aside, Strolls, TypeOK
<1> QED
  BY <1>1, <1>2, <1>3

LEMMA StreamAsksClosedIs ==
    ASSUME TypeOK, Sorted, NEW c \in Streams, StreamAsksClosed(c)
    PROVE  /\ TypeOK' /\ Sorted' /\ actor[c].pc = "peeked"
           /\ \/ bc[actor[c].on].closed /\ Turns(c)
              \/ Strolls(c) /\ actor'[c].pc = "attached" /\ ~actor'[c].late
<1> c \in Actors /\ actor[c].pc = "peeked"
  BY Constants DEF StreamAsksClosed, At
<1>1. CASE bc[actor[c].on].closed
  BY <1>1, UnownedIs DEF StreamAsksClosed
<1>2. CASE ~bc[actor[c].on].closed
  <2>1. Attach(c, actor[c].on) /\ actor[c].on \in Runs
    BY <1>2, Hand DEF StreamAsksClosed, Proper
  <2>2. /\ actor' \in [Actors -> Actor] /\ Sorted' /\ Moved(c)
        /\ actor'[c].pc = "attached" /\ ~actor'[c].late
    BY <2>1, Attaching
  <2> QED
    BY <1>2, <2>2 DEF StreamAsksClosed, Aside, Strolls, TypeOK
<1> QED
  BY <1>1, <1>2

(***************************************************************************)
(* The steps of everybody else.                                            *)
(***************************************************************************)
LEMMA PostDispatchIs ==
    ASSUME TypeOK, Sorted, PostDispatch
    PROVE  TypeOK' /\ Sorted' /\ (Flags \/ \E r \in Runs : Opens(r))
<1>1. CASE UNCHANGED <<reg, bc, actor>>
  BY <1>1 DEF PostDispatch, Flags, TypeOK, Sorted
<1>2. CASE ~Occupied /\ Open(actor)
  <2>1. PICK r \in Runs :
          /\ Unborn(r) /\ \A q \in Runs : q < r => ~Unborn(q)
          /\ reg' = r /\ actor' = [actor EXCEPT ![r].pc = "begin"]
    BY <1>2 DEF Open, At, Unborn
  <2> DEFINE h == actor[r]
             y == [h EXCEPT !.pc = "begin"]
  <2>2. h \in Actor /\ r \in Actors
    BY Hand, Constants
  <2>3. actor' = [actor EXCEPT ![r] = y] /\ h.late = actor[r].late
    BY <2>1
  <2> HIDE DEF h
  <2>4. y \in Actor /\ y.pc = "begin" /\ y.late = h.late
    BY <2>2 DEF RunPCs, Actor
  <2> HIDE DEF y
  <2>5. actor' \in [Actors -> Actor] /\ Sorted' /\ Moved(r) /\ actor'[r] = y
    BY <2>2, <2>3, <2>4, Going, Constants DEF RunAt, RunPCs
  <2>6. Opens(r)
    BY <1>2, <2>1, <2>3, <2>4, <2>5 DEF PostDispatch, Open, Opens, Occupied
  <2> QED
    BY <1>2, <2>1, <2>5, <2>6 DEF PostDispatch, Open, TypeOK
<1> QED
  BY <1>1, <1>2 DEF PostDispatch

LEMMA ReleaseIs ==
    ASSUME TypeOK, Sorted, NEW r \in Runs, Release(r)
    PROVE  /\ TypeOK' /\ Sorted' /\ Moved(r)
           /\ actor'[r].pc = "released" /\ ~actor'[r].late
<1>1. /\ actor' \in [Actors -> Actor] /\ Sorted' /\ Moved(r)
      /\ actor'[r].pc = "released" /\ ~actor'[r].late
  BY Leaving, Constants DEF Release, RunAt, RunPCs
<1>2. bc' \in [Runs -> Broadcaster]
  BY DEF Release, TypeOK, Broadcaster
<1> QED
  BY <1>1, <1>2 DEF Release, TypeOK

LEMMA CrashIs ==
    ASSUME TypeOK, Sorted, Crash
    PROVE  /\ TypeOK' /\ Sorted'
           /\ \A a \in Actors : \/ actor[a].pc \in Survives /\ actor'[a] = actor[a]
                                \/ /\ actor[a].pc \notin Survives
                                   /\ actor'[a].pc = "dead" /\ ~actor'[a].late
<1>1. \A a \in Actors : actor'[a] = IF actor[a].pc \in Survives THEN actor[a] ELSE Fresh("dead")
  BY DEF Crash
<1>2. /\ Fresh("dead") \in Actor /\ Fresh("dead").pc = "dead" /\ ~Fresh("dead").late
      /\ \A a \in Actors : Proper(a, Fresh("dead"))
  BY FreshHand DEF Proper, RunAt, StreamAt
<1>3. \A a \in Actors : Proper(a, actor'[a]) /\ actor'[a] \in Actor
  BY <1>1, <1>2, Hand DEF Sorted
<1>4. actor' \in [Actors -> Actor] /\ Sorted'
  BY <1>3 DEF Crash, Sorted
<1>5. crashes' \in 0..MaxCrashes
  BY BoundsAssumption DEF Crash, TypeOK
<1>6. cancel' \in [Cancels -> {"idle", "seen", "answered"}]
  BY DEF Crash, TypeOK
<1> QED
  BY <1>1, <1>2, <1>4, <1>5, <1>6 DEF Crash, TypeOK, NoRun

LEMMA StepIs ==
    ASSUME TypeOK, Sorted, [Next]_vars
    PROVE  TypeOK' /\ Sorted' /\ Kinds
<1> USE DEF Kinds
<1>1. CASE PostCreate
  BY <1>1 DEF PostCreate, TypeOK, Sorted, Row
<1>2. CASE PostDispatch
  BY <1>2, PostDispatchIs
<1>3. ASSUME NEW r \in Runs, RunStep(r) \/ RunPanics(r) \/ Evict(r)
      PROVE  TypeOK' /\ Sorted' /\ Kinds
  <2> r \in Actors
    BY Constants
  <2>1. CASE RunEmit(r)
    <3>1. bc' \in [Runs -> Broadcaster]
      BY <2>1 DEF RunEmit, TypeOK, Broadcaster
    <3>2. \A q \in Runs : /\ bc'[q].closed = bc[q].closed /\ bc'[q].cancelled = bc[q].cancelled
                            /\ bc'[q].stopped = bc[q].stopped
      BY <2>1 DEF RunEmit, TypeOK, Broadcaster
    <3>3. UNCHANGED <<row, post, reg, actor, cancel, told, faults, auto, crashes>>
      BY <2>1 DEF RunEmit
    <3>4. TypeOK' /\ Sorted'
      BY <3>1, <3>3 DEF TypeOK, Sorted
    <3>5. Flags
      BY <3>1, <3>2, <3>3 DEF Flags
    <3> QED
      BY <3>4, <3>5
  <2>2. CASE Evict(r)
    BY <2>2 DEF Evict, TypeOK, Sorted, NoRun
  <2> QED
    BY <1>3, <2>1, <2>2, RunBeginIs, RunRefusedIs, RunStartIs, RunDrainedIs, RunReadsReasonIs,
       FailGetIs, PersistUpdateIs, PersistTellIs, ReleaseIs, RunPanicsIs DEF RunStep, Persist
<1>4. ASSUME NEW c \in Streams, StreamReadsRow(c) \/ StreamStep(c)
      PROVE  TypeOK' /\ Sorted' /\ Kinds
  <2> c \in Actors /\ c \notin Runs
    BY Constants
  <2> QED
    BY <1>4, StreamReadsRowIs, StreamLooksUpIs, StreamAsksClosedIs, StreamContendsIs, StreamEOFIs,
       FailGetIs, PersistUpdateIs, PersistTellIs DEF StreamStep, Persist, Turns
<1>5. ASSUME NEW k \in Cancels, CancelReadsRow(k) \/ CancelStops(k)
      PROVE  TypeOK' /\ Sorted' /\ Kinds
  <2>1. cancel' \in [Cancels -> {"idle", "seen", "answered"}]
    BY <1>5 DEF CancelReadsRow, CancelStops, TypeOK
  <2> DEFINE Steadily ==
        /\ bc' \in [Runs -> Broadcaster]
        /\ \A q \in Runs :
             /\ bc'[q].closed = bc[q].closed
             /\ bc[q].cancelled => bc'[q].cancelled
             /\ bc'[q].stopped => bc[q].stopped \/ (bc'[q].cancelled /\ actor[q].pc \in BeforeReason)
  <2>2. Steadily
    <3> DEFINE h == bc[reg]
               early == actor[reg].pc \in BeforeReason
               x == [h EXCEPT !.cancelled = TRUE, !.stopped = @ \/ early]
    <3>1. bc' = bc \/ (reg \in Runs /\ bc' = [bc EXCEPT ![reg] = x])
      BY <1>5 DEF CancelReadsRow, CancelStops, Occupied, TypeOK
    <3>2. CASE bc' = bc
      BY <3>2 DEF TypeOK
    <3>3. CASE reg \in Runs /\ bc' = [bc EXCEPT ![reg] = x]
      <4>1. /\ h \in Broadcaster /\ early \in BOOLEAN
            /\ h.closed = bc[reg].closed /\ h.stopped = bc[reg].stopped
        BY <3>3 DEF TypeOK
      <4> HIDE DEF h
      <4>2. early = (actor[reg].pc \in BeforeReason)
        OBVIOUS
      <4> HIDE DEF early
      <4>3. /\ x \in Broadcaster /\ x.closed = h.closed /\ x.cancelled
            /\ x.stopped = (h.stopped \/ early)
        BY <4>1 DEF Broadcaster
      <4> HIDE DEF x
      <4>4. bc'[reg] = x /\ bc' \in [Runs -> Broadcaster] /\ \A q \in Runs \ {reg} : bc'[q] = bc[q]
        BY <3>3, <4>3 DEF TypeOK
      <4> QED
        BY <4>1, <4>2, <4>3, <4>4
    <3> QED
      BY <3>1, <3>2, <3>3
  <2>3. UNCHANGED <<row, post, reg, actor, told, faults, auto, crashes>>
    BY <1>5 DEF CancelReadsRow, CancelStops
  <2>4. TypeOK' /\ Sorted'
    BY <2>1, <2>2, <2>3 DEF TypeOK, Sorted
  <2>5. Flags
    BY <2>2, <2>3 DEF Flags
  <2> QED
    BY <2>4, <2>5
<1>6. CASE Crash
  BY <1>6, CrashIs
<1>7. CASE UNCHANGED vars
  BY <1>7 DEF vars, TypeOK, Sorted
<1> QED
  BY <1>1, <1>2, <1>3, <1>4, <1>5, <1>6, <1>7 DEF Next

-----------------------------------------------------------------------------
(***************************************************************************)
(* The registry: one live run, the last one opened.                        *)
(***************************************************************************)
Typed == TypeOK /\ Sorted

\* Nobody is opened, released, evicted or killed.
Steady ==
    /\ reg' = reg
    /\ \A r \in Runs : /\ bc'[r].closed = bc[r].closed
                       /\ Unborn(r)' <=> Unborn(r)
                       /\ Producing(r)' => Producing(r)

LEMMA SteadyKinds ==
    ASSUME Typed, Typed', Kinds,
           ~(\E r \in Runs : Opens(r) \/ Release(r) \/ Evict(r)), ~Crash
    PROVE  Steady
<1>1. CASE PostCreate
  BY <1>1 DEF PostCreate, Steady, Unborn, Producing
<1>2. ASSUME NEW r \in Runs, Plods(r) \/ Starts(r)
      PROVE  Steady
  <2>1. reg' = reg /\ bc' = bc /\ Moved(r)
    BY <1>2 DEF Plods, Starts, Aside
  <2>2. actor[r].pc # "unborn" /\ actor'[r].pc # "unborn" /\ Producing(r)
    BY <1>2 DEF Plods, Starts, Producing, Working
  <2> QED
    BY <2>1, <2>2, Constants DEF Steady, Unborn, Producing, Moved
<1>3. ASSUME NEW a \in Actors, Records(a) \/ Tells(a)
      PROVE  Steady
  <2>1. reg' = reg /\ bc' = bc /\ Moved(a)
    BY <1>3 DEF Records, Tells, Aside
  <2>2. /\ actor[a].pc # "unborn" /\ actor'[a].pc # "unborn"
        /\ actor[a].pc \notin {"unborn", "released", "dead"}
    BY <1>3 DEF Records, Tells, Finished
  <2> QED
    BY <2>1, <2>2, Constants DEF Steady, Unborn, Producing, Moved
<1>4. ASSUME NEW c \in Streams, Strolls(c)
      PROVE  Steady
  BY <1>4, Constants DEF Strolls, Aside, Steady, Unborn, Producing, Moved
<1>5. CASE Flags
  BY <1>5 DEF Flags, Steady, Unborn, Producing
<1>6. CASE UNCHANGED vars
  BY <1>6 DEF vars, Steady, Unborn, Producing
<1> QED
  BY <1>1, <1>2, <1>3, <1>4, <1>5, <1>6 DEF Kinds

\* Opening: the run that is opened is the only one that is live.
LEMMA OpensSingle ==
    ASSUME Typed, Typed', Single, NEW r \in Runs, Opens(r)
    PROVE  /\ Single'
           /\ \A q \in Runs : ~Producing(q)
           /\ \A q \in Runs \ {r} : actor'[q] = actor[q]
<1>1. \A q \in Runs : ~Producing(q)
  BY Constants DEF Single, LiveIsRegistered, Opens
<1>2. \A q \in Runs \ {r} : actor'[q] = actor[q]
  BY Constants DEF Opens, Moved
<1>3. LiveIsRegistered'
  BY <1>1, <1>2 DEF LiveIsRegistered, Opens, Producing, Single
<1>4. (reg # NoRun => ~Unborn(reg))'
  BY DEF Opens, Unborn
<1>5. (\A q \in Runs : Unborn(q) => ~bc[q].closed)'
  BY <1>2 DEF Opens, Unborn, Single
<1>6. (\A q \in Runs : Producing(q) => \A p \in Runs : p > q => Unborn(p))'
  <2>1. SUFFICES ASSUME NEW q \in Runs, Producing(q)', NEW p \in Runs, p > q
                 PROVE  Unborn(p)'
    OBVIOUS
  <2>2. q = r
    BY <2>1, <1>1, <1>2 DEF Producing
  <2>3. Unborn(p)
    BY <2>1, <2>2 DEF Single, Opens
  <2>4. p \in Runs \ {r}
    <3>1. p \in Nat /\ q \in Nat
      BY Constants
    <3> QED
      BY <2>1, <2>2, <3>1
  <2>5. actor'[p] = actor[p]
    BY <1>2, <2>4
  <2> QED
    BY <2>3, <2>5 DEF Unborn
<1>7. (\A p, q \in Runs : p < q /\ Unborn(p) => Unborn(q))'
  BY <1>2, Constants DEF Opens, Unborn, Single
<1> QED
  BY <1>1, <1>2, <1>3, <1>4, <1>5, <1>6, <1>7 DEF Single

LEMMA SingleKept ==
    ASSUME Typed, Typed', Single, Kinds
    PROVE  Single'
<1>1. CASE Steady
  BY <1>1 DEF Steady, Single, LiveIsRegistered, Typed, TypeOK, NoRun
<1>2. ASSUME NEW r \in Runs, Opens(r) PROVE Single'
  BY <1>2, OpensSingle
<1>3. ASSUME NEW r \in Runs, Release(r) PROVE Single'
  <2>1. reg = r /\ reg' = reg /\ r # NoRun
    BY <1>3, Constants DEF Release, Single, LiveIsRegistered, Producing, At
  <2>2. Moved(r) /\ actor'[r].pc = "released"
    BY <1>3, ReleaseIs DEF Typed
  <2>3. \A q \in Runs \ {r} : bc'[q] = bc[q]
    BY <1>3, <2>1 DEF Release
  <2>4. actor[r].pc = "release"
    BY <1>3 DEF Release, At
  <2> QED
    BY <2>1, <2>2, <2>3, <2>4, Constants DEF Single, LiveIsRegistered, Moved, Producing, Unborn
<1>4. ASSUME NEW r \in Runs, Evict(r) PROVE Single'
  <2>1. reg = r /\ reg' = NoRun /\ bc' = bc /\ actor' = actor /\ actor[r].pc = "released"
    BY <1>4 DEF Evict, At
  <2> QED
    BY <2>1, Constants DEF Single, LiveIsRegistered, Producing, Unborn
<1>5. CASE Crash
  <2>1. \A r \in Runs : ~Producing(r)'
    <3> SUFFICES ASSUME NEW r \in Runs PROVE ~Producing(r)'
      OBVIOUS
    <3>1. actor[r].pc \in RunAt
      BY Hand, Constants DEF Typed, Proper
    <3> QED
      BY <1>5, <3>1, CrashIs, Constants DEF Typed, Producing, Survives, RunAt, RunPCs, PersistPCs
  <2>2. reg' = NoRun /\ bc' = bc
    BY <1>5 DEF Crash
  <2>3. \A r \in Runs : Unborn(r)' <=> Unborn(r)
    BY <1>5, CrashIs, Constants DEF Typed, Unborn, Survives
  <2> QED
    BY <2>1, <2>2, <2>3 DEF Single, LiveIsRegistered
<1> QED
  BY <1>1, <1>2, <1>3, <1>4, <1>5, SteadyKinds

LEMMA BlankKept ==
    ASSUME Typed, Typed', Blank, Kinds
    PROVE  Blank'
<1> SUFFICES ASSUME post' = "start"
             PROVE  /\ row' = NoRow /\ told' = {} /\ reg' = NoRun
                    /\ \A r \in Runs : Unborn(r)'
                    /\ \A c \in Streams : actor'[c].pc = "idle"
  BY DEF Blank
<1>1. post = "start"
  BY DEF Kinds, PostCreate, Plods, Starts, Opens, Release, Evict, Records, Tells, Strolls, Flags,
         Crash, Aside, vars
<1>2. /\ row = NoRow /\ told = {} /\ reg = NoRun
      /\ \A r \in Runs : actor[r].pc = "unborn"
      /\ \A c \in Streams : actor[c].pc = "idle"
  BY <1>1 DEF Blank, Unborn
<1>3. ~PostCreate
  BY DEF PostCreate
<1>4. \A r \in Runs : ~Plods(r) /\ ~Starts(r) /\ ~Opens(r) /\ ~Release(r) /\ ~Evict(r)
  BY <1>1, <1>2 DEF Plods, Starts, Opens, Release, Evict, Producing, At
<1>5. \A a \in Actors : ~Records(a) /\ ~Tells(a)
  BY <1>2, Constants DEF Records, Tells
<1>6. \A c \in Streams : ~Strolls(c)
  BY <1>2 DEF Strolls
<1>7. CASE Flags
  BY <1>2, <1>7 DEF Flags, Unborn
<1>8. CASE Crash
  BY <1>2, <1>8, CrashIs, Constants DEF Crash, Unborn, Survives, Typed
<1>9. CASE UNCHANGED vars
  BY <1>2, <1>9 DEF vars, Unborn
<1> QED
  BY <1>3, <1>4, <1>5, <1>6, <1>7, <1>8, <1>9 DEF Kinds

\* A broadcaster that is closed stays closed.
LEMMA ClosedForEver ==
    ASSUME Typed, Typed', Kinds, NEW r \in Runs, bc[r].closed
    PROVE  bc'[r].closed
<1>1. CASE bc' = bc
  BY <1>1
<1>2. CASE Flags
  BY <1>2 DEF Flags
<1>3. ASSUME NEW q \in Runs, Release(q) PROVE bc'[r].closed
  BY <1>3 DEF Release, Typed, TypeOK
<1> QED
  BY <1>1, <1>2, <1>3 DEF Kinds, PostCreate, Plods, Starts, Opens, Evict, Records, Tells, Strolls,
     Crash, Aside, vars

LEMMA EndedKept ==
    ASSUME Typed, Typed', Ended, Kinds
    PROVE  Ended'
<1> SUFFICES ASSUME NEW c \in Streams, actor'[c].pc = "eof"
             PROVE  bc'[actor'[c].on].closed
  BY DEF Ended
<1> c \in Actors /\ c \notin Runs
  BY Constants
<1>1. CASE actor'[c] = actor[c]
  <2>1. actor[c].on \in Runs
    BY <1>1, Hand DEF Typed, Proper
  <2> QED
    BY <1>1, <2>1, ClosedForEver DEF Ended
<1>2. CASE Strolls(c)
  BY <1>2 DEF Strolls, Aside
<1>3. CASE Crash
  BY <1>1, <1>3, CrashIs DEF Typed
<1>4. CASE actor' = actor
  BY <1>1, <1>4
<1>5. ASSUME NEW a \in Actors, Moved(a), a # c \/ actor'[a].pc # "eof"
      PROVE  actor'[c] = actor[c]
  BY <1>5 DEF Moved
<1>6. ASSUME NEW r \in Runs, Opens(r) PROVE actor'[c] = actor[c]
  BY <1>6, <1>5, Constants DEF Opens, Moved
<1>7. ASSUME NEW r \in Runs, Release(r) PROVE actor'[c] = actor[c]
  BY <1>7, <1>5, Constants, ReleaseIs DEF Typed
<1> QED
  BY <1>1, <1>2, <1>3, <1>4, <1>5, <1>6, <1>7, Constants
     DEF Kinds, PostCreate, Plods, Starts, Evict, Records, Tells, Strolls, Flags, Finished, vars

-----------------------------------------------------------------------------
(***************************************************************************)
(* Verdicts.  Until a call fails, a run that stops being live has told its *)
(* verdict, and a sole verdict is what the row says.                       *)
(***************************************************************************)
LEMMA FaultsGrow ==
    ASSUME Typed, Typed', Kinds, NEW a \in Actors, Unsaved(a)
    PROVE  Unsaved(a)'
<1>1. faults \subseteq faults'
  BY DEF Kinds, PostCreate, Plods, Starts, Opens, Release, Evict, Records, Tells,
     Strolls, Flags, Crash, vars
<1> QED
  BY <1>1 DEF Unsaved

LEMMA CrashesGrow ==
    ASSUME Typed, Typed', Kinds, crashes' = 0
    PROVE  crashes = 0 /\ ~Crash
<1> QED
  BY BoundsAssumption DEF Kinds, PostCreate, Plods, Starts, Opens, Release, Evict, Records, Tells,
     Strolls, Flags, Crash, Aside, vars, Typed, TypeOK

\* What the row and the broadcasters say of r does not change for the worse.
HasTold(r) == \E verdict \in Terminal : <<verdict, r>> \in told
Overtaken(r) == \E q \in Runs : q > r /\ ~Unborn(q)

LEMMA SettledKept ==
    ASSUME Typed, Typed', Single, Single', Blank, Settled, Kinds
    PROVE  Settled'
<1> DEFINE Fine(r) ==
      /\ actor[r].pc = "tell" => row.status \in Terminal
      /\ Over(r) => HasTold(r) /\ (row.status \in Terminal \/ Overtaken(r))
<1>1. \A r \in Runs : ~Unsaved(r)' => ~Unsaved(r) /\ Fine(r)
  BY FaultsGrow, Constants DEF Settled, HasTold, Overtaken
<1>s. ASSUME \A r \in Runs : ~Unsaved(r)' => Fine(r)' PROVE Settled'
  BY <1>s DEF Settled, HasTold, Overtaken
<1>2. \* the row and what was told stay, and no run enters "tell" or stops being live
      ASSUME UNCHANGED <<row, told>>,
             \A r \in Runs : /\ ~Unsaved(r)' => /\ (actor'[r].pc = "tell" => actor[r].pc = "tell")
                                               /\ (Over(r)' => Over(r))
                             /\ ~Unborn(r) => ~Unborn(r)'
      PROVE  Settled'
  <2>1. \A r \in Runs : (HasTold(r) => HasTold(r)') /\ (Overtaken(r) => Overtaken(r)')
    BY <1>2 DEF HasTold, Overtaken
  <2> QED
    BY <1>1, <1>2, <1>s, <2>1
<1>3. ASSUME PostCreate PROVE Settled'
  <2>1. post = "start" /\ actor' = actor /\ bc' = bc
    BY <1>3 DEF PostCreate
  <2>2. \A r \in Runs : actor'[r].pc = "unborn" /\ ~bc'[r].closed
    BY <2>1 DEF Blank, Unborn, Single
  <2> QED
    BY <2>2 DEF Settled, Over
<1>4. ASSUME NEW r \in Runs, Plods(r) PROVE Settled'
  <2>1. /\ actor'[r].pc \notin {"unborn", "tell"}
        /\ Unsaved(r)' \/ actor'[r].pc # "release"
        /\ \A q \in Runs \ {r} : actor'[q] = actor[q]
        /\ bc' = bc /\ UNCHANGED <<row, told>>
    BY <1>4, Constants DEF Plods, Working, Moved, Aside
  <2> QED
    BY <1>2, <2>1 DEF Over, Unborn
<1>5. ASSUME NEW r \in Runs, Starts(r) PROVE Settled'
  \* r is live, so what is over is earlier, and r has overtaken it
  <2>1. /\ actor[r].pc = "loaded" /\ actor'[r].pc = "streaming" /\ told' = told /\ bc' = bc
        /\ \A q \in Runs \ {r} : actor'[q] = actor[q]
    BY <1>5, Constants DEF Starts, Aside, Moved
  <2>2. Producing(r) /\ reg = r /\ ~bc[r].closed
    BY <2>1 DEF Producing, Single, LiveIsRegistered
  <2>3. \A q \in Runs \ {r} : ~Producing(q)
    BY <2>2 DEF Single, LiveIsRegistered
  <2>4. \A q \in Runs : actor'[q].pc # "tell"
    BY <2>1, <2>3 DEF Producing
  <2>5. ASSUME NEW q \in Runs, ~Unsaved(q)', Over(q)' PROVE HasTold(q)' /\ Overtaken(q)'
    <3>1. q # r /\ bc[q].closed /\ ~Unborn(q)
      BY <2>1, <2>2, <2>3, <2>5 DEF Over, Producing, Single
    <3>2. q < r
      BY <2>2, <3>1, Constants DEF Single
    <3>3. ~Unborn(r)'
      BY <2>1 DEF Unborn
    <3> QED
      BY <1>1, <2>1, <2>5, <3>1, <3>2, <3>3, Constants DEF Over, HasTold, Overtaken
  <2> QED
    BY <1>s, <2>4, <2>5
<1>6. ASSUME NEW a \in Actors, Records(a) PROVE Settled'
  <2>1. /\ row'.status \in Terminal \/ (row' = row /\ Unsaved(a)')
        /\ told' = told /\ bc' = bc
    BY <1>6 DEF Records, Aside
  <2>2. \A r \in Runs : Over(r)' => Over(r)
    BY <1>6, Constants DEF Records, Aside, Moved, Over
  <2>3. \A r \in Runs : (Unborn(r)' => Unborn(r))
                         /\ (r # a /\ actor'[r].pc = "tell" => actor[r].pc = "tell")
    BY <1>6, Constants DEF Records, Moved, Unborn
  <2>4. \A r \in Runs : (HasTold(r) => HasTold(r)') /\ (Overtaken(r) => Overtaken(r)')
    BY <2>1, <2>3 DEF HasTold, Overtaken
  <2> QED
    BY <1>1, <1>s, <2>1, <2>2, <2>3, <2>4
<1>7. ASSUME NEW a \in Actors, Tells(a) PROVE Settled'
  <2>1. /\ actor[a].pc = "tell" /\ actor'[a].pc = Finished(a) /\ Moved(a)
        /\ row' = row /\ bc' = bc /\ told' = told \cup {<<actor[a].copy.status, a>>}
        /\ actor[a].copy.status \in Terminal
    BY <1>7, Hand DEF Tells, Aside, Typed, Proper
  <2>2. \A r \in Runs : actor'[r].pc = "tell" => actor[r].pc = "tell"
    BY <2>1, Constants DEF Moved, Finished
  <2>3. \A r \in Runs : ~Unborn(r) => ~Unborn(r)'
    BY <2>1, Constants DEF Moved, Unborn, Finished
  <2>4. \A r \in Runs : (HasTold(r) => HasTold(r)') /\ (Overtaken(r) => Overtaken(r)')
    BY <2>1, <2>3 DEF HasTold, Overtaken
  <2>5. ASSUME NEW r \in Runs, ~Unsaved(r)', Over(r)' PROVE HasTold(r)' /\ (row'.status \in Terminal \/ Overtaken(r)')
    <3>1. CASE r = a
      BY <1>1, <2>1, <2>5, <3>1 DEF HasTold
    <3>2. CASE r # a
      BY <1>1, <2>1, <2>4, <2>5, <3>2, Constants DEF Moved, Over
    <3> QED
      BY <3>1, <3>2
  <2> QED
    BY <1>1, <1>s, <2>1, <2>2, <2>5
<1>8. ASSUME NEW c \in Streams, Strolls(c) PROVE Settled'
  BY <1>2, <1>8, Constants DEF Strolls, Aside, Moved, Over, Unborn
<1>9. ASSUME NEW r \in Runs, Opens(r) PROVE Settled'
  <2>1. /\ actor'[r].pc = "begin" /\ bc' = bc /\ UNCHANGED <<row, told>>
        /\ \A q \in Runs \ {r} : actor'[q] = actor[q]
    BY <1>9, OpensSingle DEF Opens
  <2> QED
    BY <1>2, <2>1 DEF Over, Unborn
<1>10. ASSUME NEW r \in Runs, Release(r) PROVE Settled'
  <2>1. reg = r
    BY <1>10, Constants DEF Release, Single, LiveIsRegistered, Producing, At
  <2>2. /\ actor[r].pc = "release" /\ actor'[r].pc = "released" /\ Moved(r)
        /\ UNCHANGED <<row, told>> /\ \A q \in Runs \ {r} : bc'[q] = bc[q]
    BY <1>10, <2>1, ReleaseIs DEF Release, At, Typed
  <2> QED
    BY <1>2, <2>2, Constants DEF Over, Unborn, Moved
<1>11. ASSUME NEW r \in Runs, Evict(r) PROVE Settled'
  BY <1>2, <1>11 DEF Evict, Over, Unborn
<1>12. ASSUME Flags PROVE Settled'
  BY <1>2, <1>12 DEF Flags, Over, Unborn
<1>13. ASSUME Crash PROVE Settled'
  <2>1. UNCHANGED <<row, told, bc>>
    BY <1>13 DEF Crash
  <2>2. \A r \in Runs : actor'[r] = actor[r] \/ (actor'[r].pc = "dead" /\ ~Unborn(r))
    BY <1>13, CrashIs, Constants DEF Typed, Unborn, Survives
  <2> QED
    BY <1>2, <2>1, <2>2 DEF Over, Unborn
<1>14. ASSUME UNCHANGED vars PROVE Settled'
  BY <1>2, <1>14 DEF vars, Over, Unborn
<1> QED
  BY <1>3, <1>4, <1>5, <1>6, <1>7, <1>8, <1>9, <1>10, <1>11, <1>12, <1>13, <1>14
     DEF Kinds

\* A step that touches no verdict leaves them all as they are.
LEMMA SameVerdicts ==
    ASSUME told' = told,
           \A a \in Actors : \/ actor'[a] = actor[a]
                             \/ actor[a].pc # "tell" /\ actor'[a].pc # "tell"
    PROVE  Verdicts' = Verdicts
<1> DEFINE inRow == {<<actor[a].copy.status, a>> : a \in {b \in Actors : actor[b].pc = "tell"}}
<1>1. \A t : t \in inRow' <=> t \in inRow
  OBVIOUS
<1> QED
  BY <1>1 DEF Verdicts

LEMMA ToldVerdicts ==
    ASSUME NEW a \in Actors, Tells(a)
    PROVE  Verdicts' = Verdicts
<1>1. /\ actor[a].pc = "tell" /\ actor'[a].pc # "tell"
      /\ told' = told \cup {<<actor[a].copy.status, a>>}
      /\ \A b \in Actors \ {a} : actor'[b] = actor[b]
  BY DEF Tells, Finished, Moved
<1>2. ASSUME NEW t PROVE t \in Verdicts' <=> t \in Verdicts
  BY <1>1 DEF Verdicts
<1> QED
  BY <1>2

LEMMA AgreedKept ==
    ASSUME Typed, Typed', Blank, Agreed, Kinds
    PROVE  Agreed'
<1> SUFFICES ASSUME ~VerdictLost', crashes' = 0, NEW t \in Verdicts', Verdicts' = {t}
             PROVE  row'.status = t[1] \/ \E r \in Runs : actor'[r].pc \in Working
  BY DEF Agreed
<1>1. ~VerdictLost /\ crashes = 0 /\ ~Crash
  BY FaultsGrow, CrashesGrow DEF VerdictLost
<1>2. \* the verdicts and the row stay, and whoever is working still is
      ASSUME Verdicts' = Verdicts, row' = row,
             \A r \in Runs : actor[r].pc \in Working => actor'[r].pc \in Working
      PROVE  row'.status = t[1] \/ \E r \in Runs : actor'[r].pc \in Working
  BY <1>1, <1>2 DEF Agreed
<1>3. CASE PostCreate
  <2>1. Verdicts = {}
    BY <1>3, Constants DEF PostCreate, Blank, Verdicts, Unborn
  <2>2. Verdicts' = Verdicts
    BY <1>3, SameVerdicts DEF PostCreate
  <2> QED
    BY <2>1, <2>2
<1>4. ASSUME NEW r \in Runs, Plods(r)
      PROVE  row'.status = t[1] \/ \E q \in Runs : actor'[q].pc \in Working
  BY <1>4, Constants DEF Plods, VerdictLost
<1>5. ASSUME NEW r \in Runs, Starts(r)
      PROVE  row'.status = t[1] \/ \E q \in Runs : actor'[q].pc \in Working
  BY <1>5 DEF Starts, Working
<1>6. ASSUME NEW r \in Runs, Opens(r)
      PROVE  row'.status = t[1] \/ \E q \in Runs : actor'[q].pc \in Working
  BY <1>6 DEF Opens, Working
<1>7. ASSUME NEW a \in Actors, Records(a)
      PROVE  row'.status = t[1]
  <2>1. <<actor'[a].copy.status, a>> \in Verdicts'
    BY <1>7 DEF Records, Verdicts
  <2> QED
    BY <1>7, <2>1 DEF Records, VerdictLost
<1>8. ASSUME NEW a \in Actors, Tells(a)
      PROVE  row'.status = t[1] \/ \E r \in Runs : actor'[r].pc \in Working
  <2>1. row' = row /\ Verdicts' = Verdicts
    BY <1>8, ToldVerdicts DEF Tells
  <2>2. \A r \in Runs : actor[r].pc \in Working => actor'[r].pc \in Working
    BY <1>8, Constants DEF Tells, Moved, Working
  <2> QED
    BY <1>2, <2>1, <2>2
<1>9. ASSUME NEW c \in Streams, Strolls(c)
      PROVE  row'.status = t[1] \/ \E r \in Runs : actor'[r].pc \in Working
  <2>1. Verdicts' = Verdicts
    BY <1>9, SameVerdicts DEF Strolls, Moved
  <2> QED
    BY <1>2, <1>9, <2>1, Constants DEF Strolls, Moved
<1>10. ASSUME NEW r \in Runs, Release(r)
       PROVE  row'.status = t[1] \/ \E q \in Runs : actor'[q].pc \in Working
  <2>1. /\ row' = row /\ told' = told /\ Moved(r)
        /\ actor[r].pc = "release" /\ actor'[r].pc = "released"
    BY <1>10, ReleaseIs DEF Release, At, Typed
  <2>2. Verdicts' = Verdicts
    BY <2>1, SameVerdicts DEF Moved
  <2> QED
    BY <1>2, <2>1, <2>2, Constants DEF Moved, Working
<1>11. CASE actor' = actor /\ row' = row /\ told' = told
  BY <1>2, <1>11, SameVerdicts
<1> QED
  BY <1>1, <1>3, <1>4, <1>5, <1>6, <1>7, <1>8, <1>9, <1>10, <1>11 DEF Kinds, Evict, Flags, vars

-----------------------------------------------------------------------------
(***************************************************************************)
(* Cancels.  A run that was stopped in time asks for the reason after it,  *)
(* so what it saves is a failure; a run that is told nothing to stop for   *)
(* has already asked.                                                      *)
(***************************************************************************)
LEMMA DoomedInit ==
    ASSUME \A r \in Runs : Unborn(r) /\ ~bc[r].stopped, row = NoRow, told = {},
           \A c \in Streams : actor[c].pc = "idle"
    PROVE  Doomed
<1>1. \A a \in Actors : Hopeless(actor[a])
  BY Constants DEF Hopeless, Unborn
<1> QED
  BY <1>1 DEF Doomed, NoRow

\* A step that moves a alone, and saves or tells nothing worse than before.
LEMMA OneMoves ==
    ASSUME Typed, Typed', Doomed, NEW a \in Actors, Moved(a), bc' = bc,
           Condemned(a) => Hopeless(actor'[a]),
           a \in Runs => (Past(a) => Past(a)') /\ (~Unborn(a) => ~Unborn(a)'),
           told' = told \/ (told' = told \cup {<<actor[a].copy.status, a>>} /\ actor[a].pc = "tell"),
           a \in Runs /\ told' # told => Past(a)',
           row'.status = "completed" =>
             row.status = "completed" \/ (a \in Runs /\ Past(a)' /\ ~bc[a].stopped)
    PROVE  Doomed'
<1>1. \A r \in Runs : (Past(r) => Past(r)') /\ (~Unborn(r) => ~Unborn(r)')
  BY Constants DEF Moved, Past, Unborn
<1>2. \A b \in Actors : Condemned(b)' => Condemned(b)
  BY DEF Condemned
<1>3. ASSUME NEW b \in Actors, Condemned(b) PROVE Hopeless(actor'[b]) /\ <<"completed", b>> \notin told'
  <2>1. Hopeless(actor[b]) /\ <<"completed", b>> \notin told
    BY <1>3 DEF Doomed
  <2>2. CASE b = a
    BY <1>3, <2>1, <2>2 DEF Hopeless
  <2>3. CASE b # a
    BY <2>1, <2>3 DEF Moved
  <2> QED
    BY <2>2, <2>3
<1>4. ASSUME NEW r \in Runs, ~Past(r)' PROVE <<"completed", r>> \notin told'
  <2>1. <<"completed", r>> \notin told
    BY <1>1, <1>4 DEF Doomed
  <2> QED
    BY <1>4, <2>1
<1>5. ASSUME row'.status = "completed" PROVE \E r \in Runs : Past(r)' /\ ~bc'[r].stopped
  BY <1>1, <1>5 DEF Doomed
<1> QED
  BY <1>1, <1>2, <1>3, <1>4, <1>5 DEF Doomed

LEMMA DoomedKept ==
    ASSUME Typed, Typed', Blank, Doomed, Kinds
    PROVE  Doomed'
<1>1. CASE PostCreate
  <2>1. UNCHANGED <<bc, actor, told>> /\ row'.status = "pending"
    BY <1>1 DEF PostCreate
  <2> QED
    BY <2>1 DEF Doomed, Condemned, Hopeless, Past, Unborn
<1>2. ASSUME NEW r \in Runs, Plods(r) PROVE Doomed'
  <2>1. bc[r].stopped => bc[r].cancelled
    BY DEF Doomed
  <2>2. /\ Moved(r) /\ UNCHANGED <<bc, row, told>> /\ (Past(r) => Past(r)')
        /\ actor'[r].pc \notin {"unborn", "tell"}
        /\ actor'[r].pc = "save" => actor'[r].copy.cancelled = bc[r].cancelled \/ ~actor'[r].whole
    BY <1>2 DEF Plods, Aside, Working
  <2>3. Condemned(r) => Hopeless(actor'[r])
    BY <2>1, <2>2, Constants DEF Condemned, Hopeless
  <2> QED
    BY <2>2, <2>3, OneMoves, Constants DEF Unborn
<1>3. ASSUME NEW r \in Runs, Starts(r) PROVE Doomed'
  <2>1. /\ Moved(r) /\ UNCHANGED <<bc, told>> /\ actor'[r].pc = "streaming" /\ ~Past(r)
        /\ row' = row \/ row'.status = "running"
    BY <1>3 DEF Starts, Aside, Past, BeforeReason
  <2>2. Hopeless(actor'[r])
    BY <2>1 DEF Hopeless
  <2> QED
    BY <2>1, <2>2, OneMoves, Constants DEF Unborn
<1>4. ASSUME NEW a \in Actors, Records(a) PROVE Doomed'
  <2>1. /\ Moved(a) /\ UNCHANGED <<bc, told>>
        /\ actor[a].pc = "save" /\ actor'[a].pc = "tell" /\ actor'[a].copy.status \in Terminal
        /\ actor'[a].copy.status = "completed" => actor[a].whole /\ ~actor[a].copy.cancelled
        /\ row'.status = actor'[a].copy.status \/ row' = row
    BY <1>4 DEF Records, Aside
  <2>2. Condemned(a) => actor'[a].copy.status = "failed"
    BY <2>1 DEF Doomed, Hopeless, Terminal
  <2>3. a \in Runs => Past(a)' /\ ~Unborn(a)'
    BY <2>1 DEF Past, BeforeReason, Unborn
  <2>4. row'.status = "completed" => row.status = "completed" \/ ~Condemned(a)
    BY <2>1, <2>2
  <2> QED
    BY <2>1, <2>2, <2>3, <2>4, OneMoves, Constants DEF Hopeless, Condemned
<1>5. ASSUME NEW a \in Actors, Tells(a) PROVE Doomed'
  <2>1. /\ Moved(a) /\ UNCHANGED <<bc, row>> /\ actor[a].pc = "tell" /\ actor'[a].pc = Finished(a)
        /\ told' = told \cup {<<actor[a].copy.status, a>>}
    BY <1>5 DEF Tells, Aside
  <2>2. Hopeless(actor'[a])
    BY <2>1 DEF Hopeless, Finished
  <2>3. a \in Runs => Past(a)' /\ ~Unborn(a)'
    BY <2>1 DEF Past, BeforeReason, Unborn, Finished
  <2> QED
    BY <2>1, <2>2, <2>3, OneMoves
<1>6. ASSUME NEW c \in Streams, Strolls(c) PROVE Doomed'
  <2>1. /\ Moved(c) /\ UNCHANGED <<bc, row, told>>
        /\ actor'[c].pc # "tell" /\ (actor'[c].pc = "save" => ~actor'[c].whole)
    BY <1>6 DEF Strolls, Aside
  <2>2. Hopeless(actor'[c])
    BY <2>1 DEF Hopeless
  <2> QED
    BY <2>1, <2>2, OneMoves, Constants
<1>7. ASSUME NEW r \in Runs, Opens(r) PROVE Doomed'
  <2>1. /\ UNCHANGED <<bc, row, told>> /\ Unborn(r) /\ actor'[r].pc = "begin"
        /\ \A b \in Actors \ {r} : \/ actor'[b] = actor[b]
                                   \/ b \in Streams /\ actor'[b].pc = "attached"
    BY <1>7 DEF Opens, Moved
  <2>2. \A q \in Runs \ {r} : actor'[q] = actor[q]
    BY <2>1, Constants
  <2>3. ~Past(r) /\ ~Past(r)' /\ ~Unborn(r)'
    BY <2>1 DEF Past, BeforeReason, Unborn
  <2>4. \A q \in Runs : (Past(q)' <=> Past(q)) /\ (~Unborn(q) => ~Unborn(q)')
    BY <2>2, <2>3 DEF Past, Unborn
  <2>5. \A b \in Actors : Hopeless(actor[b]) => Hopeless(actor'[b])
    BY <2>1 DEF Hopeless
  <2> QED
    BY <2>1, <2>4, <2>5 DEF Doomed, Condemned
<1>8. CASE Flags
  <2>1. UNCHANGED <<actor, told, row>>
    BY <1>8 DEF Flags
  <2>2. \A r \in Runs :
          /\ bc[r].cancelled => bc'[r].cancelled
          /\ bc'[r].stopped => bc[r].stopped
                \/ (bc'[r].cancelled /\ actor[r].pc \in BeforeReason)
    BY <1>8 DEF Flags
  <2>3. \A r \in Runs : actor[r].pc \in BeforeReason
          => Hopeless(actor[r]) /\ ~Past(r) /\ ~Unborn(r)
    BY DEF BeforeReason, Hopeless, Past, Unborn
  <2>4. \A r \in Runs : bc'[r].stopped => bc'[r].cancelled /\ ~Unborn(r)'
    BY <2>1, <2>2, <2>3 DEF Doomed, Unborn
  <2>5. \A a \in Actors : Condemned(a)' => Hopeless(actor[a]) /\ <<"completed", a>> \notin told
    <3> SUFFICES ASSUME NEW a \in Actors, Condemned(a)'
                 PROVE  Hopeless(actor[a]) /\ <<"completed", a>> \notin told
      OBVIOUS
    <3>1. CASE Condemned(a)
      BY <3>1 DEF Doomed
    <3>2. CASE ~Condemned(a)
      <4>1. a \in Runs /\ bc'[a].stopped /\ ~bc[a].stopped
        BY <3>2, Constants DEF Condemned
      <4> QED
        BY <4>1, <2>2, <2>3 DEF Doomed
    <3> QED
      BY <3>1, <3>2
  <2>6. \A r \in Runs : Past(r) /\ ~bc[r].stopped => Past(r)' /\ ~bc'[r].stopped
    BY <2>1, <2>2, <2>3 DEF Past
  <2> QED
    BY <2>1, <2>4, <2>5, <2>6 DEF Doomed, Past
<1>9. ASSUME NEW r \in Runs, Release(r) PROVE Doomed'
  <2>1. /\ Moved(r) /\ actor[r].pc = "release" /\ actor'[r].pc = "released"
        /\ UNCHANGED <<row, told>>
    BY <1>9, ReleaseIs DEF Release, At, Typed
  <2>2. \A q \in Runs : bc'[q].stopped = bc[q].stopped /\ bc'[q].cancelled = bc[q].cancelled
    BY <1>9 DEF Release, Typed, TypeOK, Broadcaster
  <2>3. \A q \in Runs : (Past(q)' <=> Past(q)) /\ (Unborn(q)' <=> Unborn(q))
    BY <2>1, Constants DEF Moved, Past, BeforeReason, Unborn
  <2>4. \A b \in Actors : Hopeless(actor[b]) => Hopeless(actor'[b])
    BY <2>1 DEF Moved, Hopeless
  <2> QED
    BY <2>1, <2>2, <2>3, <2>4, Constants DEF Doomed, Condemned
<1>10. CASE Crash
  <2>1. UNCHANGED <<row, told, bc>>
    BY <1>10 DEF Crash
  <2>2. \A a \in Actors : actor'[a] = actor[a] \/ (actor'[a].pc = "dead" /\ actor[a].pc # "unborn")
    BY <1>10, CrashIs DEF Typed, Survives
  <2>3. \A r \in Runs : (Past(r) => Past(r)') /\ (Unborn(r)' <=> Unborn(r))
    BY <2>2, Constants DEF Past, BeforeReason, Unborn
  <2>4. \A b \in Actors : Hopeless(actor[b]) => Hopeless(actor'[b])
    BY <2>2 DEF Hopeless
  <2> QED
    BY <2>1, <2>3, <2>4 DEF Doomed, Condemned
<1>11. CASE UNCHANGED <<row, told, bc, actor>>
  BY <1>11 DEF Doomed, Condemned, Hopeless, Past, Unborn
<1> QED
  BY <1>1, <1>2, <1>3, <1>4, <1>5, <1>6, <1>7, <1>8, <1>9, <1>10, <1>11 DEF Kinds, Evict, vars

-----------------------------------------------------------------------------
(***************************************************************************)
(* Late clients.  The steps of the others do not disturb a late client:    *)
(* while the audit is dispatched on create nothing is opened after the     *)
(* 201, and only a restart turns the switch.                               *)
(***************************************************************************)
LateInv(c) ==
    /\ post = "answered"
    /\ auto => /\ actor[c].pc # "contend"
               /\ actor[c].pc = "peeked" => reg \in {actor[c].on, NoRun}
               /\ actor[c].pc \in PersistPCs => \A r \in Runs : ~Producing(r)

LEMMA OthersKeepLate ==
    ASSUME Typed, Typed', Single, Guarded, Kinds, ~Crash,
           NEW c \in Streams, actor'[c] = actor[c], actor[c].late
    PROVE  LateInv(c)'
<1>1. LateInv(c)
  BY DEF Guarded, LateInv
<1>2. post' = "answered" /\ auto' = auto
  BY <1>1 DEF LateInv, Kinds, PostCreate, Plods, Starts, Opens, Release, Evict, Records, Tells, Strolls,
              Flags, Aside, vars
<1>3. ASSUME auto PROVE \A r \in Runs : ~Opens(r)
  BY <1>1, <1>3 DEF Opens, LateInv
<1>4. ASSUME auto PROVE reg' \in {reg, NoRun}
  BY <1>3, <1>4 DEF Kinds, PostCreate, Plods, Starts, Release, Evict, Records, Tells, Strolls,
              Flags, Aside, vars
<1>5. ASSUME auto, NEW r \in Runs, Producing(r)' PROVE Producing(r)
  <2>1. CASE Steady
    BY <1>5, <2>1 DEF Steady
  <2>2. ASSUME NEW q \in Runs, Release(q) PROVE Producing(r)
    BY <1>5, <2>2, ReleaseIs, Constants DEF Typed, Moved, Producing
  <2>3. ASSUME NEW q \in Runs, Evict(q) PROVE Producing(r)
    BY <1>5, <2>3 DEF Evict, Producing
  <2> QED
    BY <1>3, <1>5, <2>1, <2>2, <2>3, SteadyKinds
<1> QED
  BY <1>1, <1>2, <1>4, <1>5 DEF LateInv

\* A late client's own steps.
LEMMA TurningLate ==
    ASSUME Typed, Guarded, NEW c \in Streams, Turns(c), actor'[c].late,
           auto /\ actor[c].late => \A r \in Runs : ~Producing(r)
    PROVE  LateInv(c)'
<1> USE Constants
<1>1. CASE \E r \in Runs : Opens(r)
  <2>1. PICK r \in Runs : Opens(r)
    BY <1>1
  <2>2. actor[c].late
    BY <2>1 DEF Opens, Moved
  <2>3. ~auto /\ auto' = auto /\ post' = post /\ post = "answered"
    BY <2>1, <2>2 DEF Opens, Guarded
  <2> QED
    BY <2>3 DEF LateInv
<1>2. CASE ~(\E r \in Runs : Opens(r))
  <2>1. /\ Strolls(c) /\ actor[c].late
        /\ IF auto THEN actor'[c].pc = "failGet" ELSE actor'[c].pc = "contend"
    BY <1>2 DEF Turns
  <2>2. /\ post' = post /\ post = "answered" /\ auto' = auto
        /\ \A r \in Runs : actor'[r] = actor[r]
    BY <2>1 DEF Strolls, Aside, Moved, Guarded
  <2>3. auto' => actor'[c].pc = "failGet" /\ \A r \in Runs : ~Producing(r)
    BY <2>1, <2>2
  <2>4. auto' => \A r \in Runs : ~Producing(r)'
    BY <2>2, <2>3 DEF Producing
  <2> QED
    BY <2>2, <2>3, <2>4 DEF LateInv
<1> QED
  BY <1>1, <1>2

LEMMA StrollingLate ==
    ASSUME Typed, NEW c \in Streams, Strolls(c), post = "answered",
           auto => /\ actor'[c].pc # "contend"
                   /\ actor'[c].pc = "peeked" => reg \in {actor'[c].on, NoRun}
                   /\ actor'[c].pc \in PersistPCs => \A r \in Runs : ~Producing(r)
    PROVE  LateInv(c)'
<1>1. /\ post' = post /\ auto' = auto /\ reg' = reg
      /\ \A r \in Runs : actor'[r] = actor[r]
  BY Constants DEF Strolls, Aside, Moved
<1> QED
  BY <1>1 DEF LateInv, Producing

LEMMA GuardedKept ==
    ASSUME Typed, Typed', Single, Guarded, Kinds, [Next]_vars
    PROVE  Guarded'
<1> SUFFICES ASSUME NEW c \in Streams, actor'[c].late PROVE LateInv(c)'
  BY DEF Guarded, LateInv
<1> TypeOK /\ Sorted
  BY DEF Typed
<1>1. c \in Actors /\ c \notin Runs
  BY Constants
<1>2. actor[c].late => LateInv(c)
  BY DEF Guarded, LateInv
<1>3. CASE Crash
  <2>1. actor'[c] = actor[c] /\ actor[c].pc \in Survives
    BY <1>3, <1>1, CrashIs
  <2>2. actor[c].pc \in {"idle", "eof", "replayed", "notified"}
    BY <2>1, <1>1, Hand DEF Proper, Survives, StreamAt, StreamPCs, PersistPCs
  <2>3. post' = "answered"
    BY <1>3, <2>1 DEF Crash, Guarded
  <2> QED
    BY <2>1, <2>2, <2>3 DEF LateInv, PersistPCs
<1>4. CASE actor'[c] = actor[c] /\ ~Crash
  BY <1>4, OthersKeepLate
<1>5. CASE StreamReadsRow(c)
  <2>1. Strolls(c) /\ actor'[c].pc = "seen" /\ post = "answered"
    BY <1>5, StreamReadsRowIs
  <2> QED
    BY <2>1, StrollingLate DEF PersistPCs
<1>6. CASE StreamLooksUp(c)
  <2>1. CASE reg = NoRun /\ Turns(c)
    <3>1. \A r \in Runs : ~Producing(r)
      BY <2>1, Constants DEF Single, LiveIsRegistered
    <3> QED
      BY <2>1, <3>1, TurningLate
  <2>2. CASE Strolls(c) /\ actor'[c].pc = "peeked" /\ actor'[c].on = reg /\ actor[c].late
    BY <2>2, <1>2, StrollingLate DEF PersistPCs, LateInv
  <2> QED
    BY <1>6, <2>1, <2>2, StreamLooksUpIs
<1>7. CASE StreamAsksClosed(c)
  \* the broadcaster in hand is closed, and it is the registry's if anyone's
  <2>1. actor[c].pc = "peeked" /\ bc[actor[c].on].closed /\ Turns(c)
    BY <1>7, StreamAsksClosedIs
  <2>2. ASSUME auto, actor[c].late, NEW r \in Runs PROVE ~Producing(r)
    <3>1. actor[c].on \in Runs /\ reg \in {actor[c].on, NoRun}
      BY <2>1, <2>2, <1>1, <1>2, Hand DEF LateInv, Proper
    <3> QED
      BY <2>1, <3>1, Constants DEF Single, LiveIsRegistered
  <2> QED
    BY <2>1, <2>2, TurningLate
<1>8. CASE StreamContends(c)
  <2>1. /\ Strolls(c) /\ actor[c].late /\ actor[c].pc = "contend"
        /\ actor'[c].pc \in {"attached", "failGet"}
    BY <1>8, StreamContendsIs
  <2>2. ~auto /\ post = "answered"
    BY <2>1, <1>2 DEF LateInv
  <2> QED
    BY <2>1, <2>2, StrollingLate
<1>9. CASE StreamEOF(c)
  <2>1. Strolls(c) /\ actor[c].late /\ actor'[c].pc = "eof"
    BY <1>9, StreamEOFIs
  <2> QED
    BY <2>1, <1>2, StrollingLate DEF LateInv, PersistPCs
<1>10. CASE FailGet(c)
  <2>1. Strolls(c) /\ actor[c].late /\ actor[c].pc = "failGet" /\ actor'[c].pc \in {"save", "notified"}
    BY <1>10, <1>1, FailGetIs DEF Finished
  <2> QED
    BY <2>1, <1>2, StrollingLate DEF LateInv, PersistPCs
<1>11. CASE PersistUpdate(c)
  <2>1. /\ Moved(c) /\ post' = post /\ auto' = auto /\ actor'[c].pc = "tell"
        /\ actor[c].late /\ actor[c].pc = "save"
    BY <1>11, <1>1, PersistUpdateIs DEF Records, Aside
  <2>2. \A r \in Runs : actor'[r] = actor[r]
    BY <2>1, <1>1, Constants DEF Moved
  <2> QED
    BY <2>1, <2>2, <1>2 DEF LateInv, PersistPCs, Producing
<1>12. CASE PersistTell(c)
  BY <1>12, <1>1, PersistTellIs DEF Tells
<1>13. ASSUME NEW r \in Runs, Opens(r), ~Crash PROVE LateInv(c)'
  \* an open changes c only when c is the one that opens, and is then not late
  BY <1>4, <1>13, <1>1, Constants DEF Opens, Moved
<1>14. ASSUME NEW r \in Runs, RunStep(r) \/ RunPanics(r) \/ Evict(r) PROVE actor'[c] = actor[c]
  <2>1. r \in Actors /\ r # c
    BY Constants
  <2>2. CASE RunEmit(r) \/ Evict(r)
    BY <2>2 DEF RunEmit, Evict
  <2> QED
    BY <1>14, <1>1, <2>1, <2>2, RunBeginIs, RunRefusedIs, RunStartIs, RunDrainedIs, RunReadsReasonIs,
       FailGetIs, PersistUpdateIs, PersistTellIs, ReleaseIs, RunPanicsIs
       DEF RunStep, Persist, Plods, Starts, Records, Tells, Moved
<1>15. ASSUME NEW d \in Streams \ {c}, StreamReadsRow(d) \/ StreamStep(d)
       PROVE  actor'[c] = actor[c] \/ \E r \in Runs : Opens(r)
  <2>1. d \in Actors /\ d \notin Runs
    BY Constants
  <2>2. Strolls(d) \/ Records(d) \/ Tells(d) \/ \E r \in Runs : Opens(r)
    BY <1>15, <2>1, StreamReadsRowIs, StreamLooksUpIs, StreamAsksClosedIs, StreamContendsIs, StreamEOFIs,
       FailGetIs, PersistUpdateIs, PersistTellIs DEF StreamStep, Persist, Turns
  <2> QED
    BY <1>1, <2>2 DEF Strolls, Records, Tells, Moved
<1>16. CASE \/ PostCreate \/ UNCHANGED vars
            \/ \E k \in Cancels : CancelReadsRow(k) \/ CancelStops(k)
  <2>1. actor' = actor
    BY <1>16 DEF PostCreate, vars, CancelReadsRow, CancelStops
  <2> QED
    BY <1>3, <1>4, <2>1
<1>17. CASE PostDispatch
  <2>1. actor' = actor \/ \E r \in Runs : Opens(r)
    BY <1>17, PostDispatchIs DEF Flags
  <2> QED
    BY <1>3, <1>4, <1>13, <2>1
<1>18. CASE \E r \in Runs : RunStep(r) \/ RunPanics(r) \/ Evict(r)
  BY <1>3, <1>4, <1>14, <1>18
<1>19. CASE \E d \in Streams : StreamReadsRow(d) \/ StreamStep(d)
  <2>1. PICK d \in Streams : StreamReadsRow(d) \/ StreamStep(d)
    BY <1>19
  <2>2. CASE d = c
    BY <2>1, <2>2, <1>5, <1>6, <1>7, <1>8, <1>9, <1>10, <1>11, <1>12 DEF StreamStep, Persist
  <2>3. CASE d # c
    BY <1>3, <1>4, <1>13, <1>15, <2>1, <2>3
  <2> QED
    BY <2>2, <2>3
<1> QED
  BY <1>3, <1>16, <1>17, <1>18, <1>19 DEF Next

-----------------------------------------------------------------------------
(***************************************************************************)
(* The theorems.                                                           *)
(***************************************************************************)
LEMMA InitInv ==
    ASSUME Init
    PROVE  LifecycleInv
<1> DEFINE blank(a) == Fresh(IF a \in Runs THEN "unborn" ELSE "idle")
<1>1. \A a \in Actors : /\ actor[a] = blank(a)
                        /\ blank(a).pc = IF a \in Runs THEN "unborn" ELSE "idle"
                        /\ blank(a) \in Actor /\ ~blank(a).late
  BY FreshHand DEF Init, RunPCs, StreamPCs
<1> HIDE DEF blank
<1>2. \A a \in Actors : Proper(a, actor[a])
  BY <1>1, Constants DEF Proper, RunAt, RunPCs, StreamAt, StreamPCs
<1>3. actor \in [Actors -> Actor]
  BY <1>1 DEF Init, blank
<1>4. TypeOK
  BY <1>3, BoundsAssumption DEF Init, TypeOK, Broadcaster, Row, NoRow, NoRun
<1>5. /\ \A r \in Runs : actor[r].pc = "unborn" /\ ~bc[r].closed /\ ~bc[r].stopped
      /\ \A c \in Streams : actor[c].pc = "idle"
      /\ \A a \in Actors : actor[a].pc # "tell" /\ ~actor[a].late
  BY <1>1, Constants DEF Init
<1>6. Verdicts = {}
  BY <1>5 DEF Init, Verdicts
<1>7. Doomed
  BY <1>5, DoomedInit DEF Init, Unborn
<1> QED
  BY <1>2, <1>4, <1>5, <1>6, <1>7, Constants
     DEF Init, LifecycleInv, Sorted, Single, LiveIsRegistered, Producing, Unborn, Blank, Settled, Over,
         Ended, Agreed, Guarded

LEMMA NextInv ==
    ASSUME LifecycleInv, [Next]_vars
    PROVE  LifecycleInv' /\ Kinds
<1>1. Typed /\ Typed' /\ Kinds
  BY StepIs DEF LifecycleInv, Typed
<1>2. Single /\ Blank /\ Settled /\ Ended /\ Agreed /\ Guarded /\ Doomed
  BY DEF LifecycleInv
<1>3. Single'
  BY <1>1, <1>2, SingleKept
<1>4. Blank'
  BY <1>1, <1>2, BlankKept
<1>5. Settled'
  BY <1>1, <1>2, <1>3, SettledKept
<1>6. Ended'
  BY <1>1, <1>2, EndedKept
<1>7. Agreed'
  BY <1>1, <1>2, AgreedKept
<1>8. Guarded'
  BY <1>1, <1>2, GuardedKept
<1>9. Doomed'
  BY <1>1, <1>2, DoomedKept
<1> QED
  BY <1>1, <1>3, <1>4, <1>5, <1>6, <1>7, <1>8, <1>9 DEF LifecycleInv, Typed

(***************************************************************************)
(* The invariant holds in every state.                                     *)
(***************************************************************************)
THEOREM Invariance == Spec => []LifecycleInv
<1>1. Init => LifecycleInv
  BY InitInv
<1>2. LifecycleInv /\ [Next]_vars => LifecycleInv'
  BY NextInv
<1> QED
  BY <1>1, <1>2, PTL DEF Spec

(***************************************************************************)
(* Every variable keeps its type, every goroutine its path.                *)
(***************************************************************************)
THEOREM TypeCorrect == Spec => []TypeOK
<1>1. LifecycleInv => TypeOK
  BY DEF LifecycleInv
<1> QED
  BY <1>1, Invariance, PTL

(***************************************************************************)
(* A run in progress is the one the registry resolves, so there is at most *)
(* one, and its broadcaster is open.                                       *)
(***************************************************************************)
THEOREM OneLiveRun == Spec => []LiveIsRegistered
<1>1. LifecycleInv => LiveIsRegistered
  BY DEF LifecycleInv, Single
<1> QED
  BY <1>1, Invariance, PTL

(***************************************************************************)
(* What is told of a run, by the end of its stream, to the webhook and to  *)
(* the pipeline, is what the store says.                                   *)
(***************************************************************************)
THEOREM NobodyIsMisled == Spec => []ToldIsTrue
<1>1. ASSUME LifecycleInv PROVE EofMeansPersisted
  <2> SUFFICES ASSUME NEW c \in Streams, actor[c].pc = "eof", ~Unsaved(actor[c].on)
               PROVE  LET r == actor[c].on
                      IN  /\ \E verdict \in Terminal : <<verdict, r>> \in told
                          /\ row.status \in Terminal \/ \E q \in Runs : q > r /\ ~Unborn(q)
    BY DEF EofMeansPersisted, At, Unborn
  <2>1. actor[c].on \in Runs
    BY <1>1, Hand, Constants DEF LifecycleInv, Proper
  <2>2. Over(actor[c].on)
    BY <1>1 DEF LifecycleInv, Ended, Over
  <2> QED
    BY <1>1, <2>1, <2>2 DEF LifecycleInv, Settled
<1>2. ASSUME LifecycleInv PROVE ToldMatchesRow
  <2> SUFFICES ASSUME Quiet, ~VerdictLost, NEW t \in told, told = {t}, crashes = 0
               PROVE  row.status = t[1]
    BY DEF ToldMatchesRow, VerdictLost
  <2>1. \A a \in Actors : actor[a].pc # "tell"
    BY DEF Quiet, PersistPCs
  <2>2. Verdicts = told
    BY <2>1 DEF Verdicts
  <2>3. \A r \in Runs : actor[r].pc \notin Working
    BY Constants DEF Quiet, Producing, Working
  <2> QED
    BY <1>2, <2>2, <2>3 DEF LifecycleInv, Agreed
<1>3. LifecycleInv => ToldIsTrue
  BY <1>1, <1>2 DEF ToldIsTrue
<1> QED
  BY <1>3, Invariance, PTL

(***************************************************************************)
(* Under dispatch on create, when the orphan notice of a client that came  *)
(* after its 201 rewrites the row, no run is in progress.                  *)
(***************************************************************************)
THEOREM LateClientsAttach == Spec => LateClientFindsLiveRun
<1>1. ASSUME LifecycleInv
      PROVE  \A c \in Streams :
               auto /\ At(c, "save") /\ actor'[c].pc = "tell" /\ actor[c].late
                 => \A r \in Runs : ~Producing(r)
  BY <1>1 DEF LifecycleInv, Guarded, At, PersistPCs
<1> QED
  BY <1>1, Invariance, PTL DEF LateClientFindsLiveRun

(***************************************************************************)
(* A run that a cancel reached before it asked for the reason is never     *)
(* reported as completed, and a row that says completed has a run that got *)
(* past the question unstopped.                                            *)
(***************************************************************************)
THEOREM StoppedInTimeFails == Spec => []StoppedRunNeverSucceeds
<1>1. LifecycleInv => StoppedRunNeverSucceeds
  BY Constants DEF LifecycleInv, Doomed, Condemned, StoppedRunNeverSucceeds
<1> QED
  BY <1>1, Invariance, PTL

-----------------------------------------------------------------------------
(***************************************************************************)
(* The plugin supervisor, for every choice of its tunables: a plugin that  *)
(* was given up is not brought back by anybody who did not look first.     *)
(*                                                                         *)
(* The reports look on the spot (Apply), and cannot say anything but       *)
(* healthy or unhealthy.  Whoever has s.mu looked when it took it, or has  *)
(* moved the plugin itself; that is still good later because only it can   *)
(* give the plugin up, and lets go of s.mu when it does.                   *)
(***************************************************************************)
HolderSupervises ==
    /\ pc # "idle" => st # "Failed"
    /\ stray \in {"none", "Healthy", "Unhealthy"}

\* A report, whatever else it starts, leaves a given-up plugin alone and gives none up.
LEMMA ReportsLookFirst ==
    ASSUME NEW s \in {"Healthy", "Unhealthy"}, HandleProbeState(s)
    PROVE  IF st = "Failed" THEN st' = st ELSE st' = s
BY DEF HandleProbeState, Apply

\* A prober that is cancelled reports what a probe can say.
LEMMA StraysTyped ==
    ASSUME stray \in {"none", "Healthy", "Unhealthy"}, Cancel
    PROVE  stray' \in {"none", "Healthy", "Unhealthy"}
BY DEF Cancel

\* One step: the invariant is kept, and Failed is left only by a launch.
LEMMA SupervisorStep ==
    ASSUME HolderSupervises, SupervisorNext
    PROVE  HolderSupervises' /\ (st = "Failed" => st' \in {"Failed", "Pulling"})
<1>1. CASE ProbeSucceeds
  <2>1. st' = st \/ HandleProbeState("Healthy")
    BY <1>1 DEF ProbeSucceeds
  <2>2. UNCHANGED <<pc, stray>>
    BY <1>1 DEF ProbeSucceeds
  <2>3. QED
    BY <2>1, <2>2, ReportsLookFirst DEF HolderSupervises
<1>2. CASE ProbeFails
  <2>1. st' = st \/ HandleProbeState("Unhealthy")
    BY <1>2 DEF ProbeFails
  <2>2. UNCHANGED <<pc, stray>>
    BY <1>2 DEF ProbeFails
  <2>3. QED
    BY <2>1, <2>2, ReportsLookFirst DEF HolderSupervises
<1>3. CASE StrayReport
  <2>1. stray \in {"Healthy", "Unhealthy"} /\ HandleProbeState(stray)
    BY <1>3 DEF StrayReport, HolderSupervises
  <2>2. IF st = "Failed" THEN st' = st ELSE st' = stray
    BY <2>1, ReportsLookFirst
  <2>3. QED
    BY <1>3, <2>1, <2>2 DEF StrayReport, HolderSupervises
<1>4. CASE Reconcile \/ Relaunch
  BY <1>4 DEF Reconcile, Relaunch, Launch, HolderSupervises
<1>5. CASE EnsureImage \/ Run \/ GiveUp
  BY <1>5 DEF EnsureImage, Run, GiveUp, MarkFailed, HolderSupervises
<1>6. CASE StartProber \/ StopProber
  BY <1>6, StraysTyped DEF StartProber, StopProber, HolderSupervises
<1>7. CASE RecoverStopped \/ AskDocker \/ Restart
  BY <1>7 DEF RecoverStopped, AskDocker, Restart, HolderSupervises
<1>8. CASE Ping \/ LoopLeaves \/ Tick \/ ContainerChanges \/ DockerChanges
  BY <1>8 DEF Ping, LoopLeaves, Tick, ContainerChanges, DockerChanges, lockVars, HolderSupervises
<1>9. QED
  BY <1>1, <1>2, <1>3, <1>4, <1>5, <1>6, <1>7, <1>8 DEF SupervisorNext, System

\* The invariant holds in every state.
LEMMA SupervisorInvariance == SupervisorSpec => []HolderSupervises
<1>1. SupervisorInit => HolderSupervises
  BY DEF SupervisorInit, HolderSupervises
<1>2. HolderSupervises /\ [SupervisorNext]_supervisorVars => HolderSupervises'
  BY SupervisorStep DEF supervisorVars, lockVars, HolderSupervises
<1>3. QED
  BY <1>1, <1>2, PTL DEF SupervisorSpec

(***************************************************************************)
(* A plugin that was given up leaves Failed only through the launch of a   *)
(* Reconcile, whatever reports and recoveries are still on their way.      *)
(***************************************************************************)
THEOREM StaysDown == SupervisorSpec => GivenUpStaysDown
<1>1. HolderSupervises /\ [SupervisorNext]_supervisorVars
        => [st = "Failed" => st' \in {"Failed", "Pulling"}]_supervisorVars
  BY SupervisorStep
<1>2. QED
  BY <1>1, SupervisorInvariance, PTL DEF SupervisorSpec, GivenUpStaysDown

=============================================================================
