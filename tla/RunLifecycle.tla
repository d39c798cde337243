---------------------------- MODULE RunLifecycle ----------------------------
(***************************************************************************)
(* One audit in one backend process: the row in the store, the registry of *)
(* runs (broadcaster.go), the background run and its persistence           *)
(* (StreamHandler.runAudit), stream requests (ServeHTTP), cancel requests  *)
(* (CancelRun), POST /api/audits, and a restart of the process.            *)
(*                                                                         *)
(* Each store call, registry call and channel end is one atomic step, so   *)
(* every interleaving of the handlers between those calls is explored.     *)
(* What flows through a run's broadcaster is the Broadcaster module's; all *)
(* that matters here is whether it is empty, closed and cancelled.         *)
(***************************************************************************)
EXTENDS Naturals, FiniteSets

CONSTANTS
    Streams,       \* GET /api/audits/{id}/stream requests
    Cancels,       \* POST /api/audits/{id}/cancel requests
    Runs,          \* broadcasters, one per successful Open: 1..n
    Modes,         \* values of VULTURE_AUDIT_AUTODISPATCH a process may have
    MaxFaults,     \* bound: failed store calls and recovered panics, together
    MaxCrashes     \* bound: process restarts

ASSUME RunsAssumption == Runs \subseteq Nat \ {0}
ASSUME ModesAssumption == Modes \subseteq BOOLEAN
ASSUME BoundsAssumption == MaxFaults \in Nat /\ MaxCrashes \in Nat
ASSUME ActorsAssumption == Streams \cap Runs = {}

VARIABLES
    auto,     \* audits are dispatched when created, not when first viewed
    row,      \* the audit's row: status, and whether cancel_reason is set
    post,     \* POST /api/audits: "start", "created", "answered" or "gone"
    reg,      \* the registry's entry: a run, or NoRun
    bc,       \* each run's broadcaster
    actor,    \* where each run and each stream request is
    cancel,   \* where each cancel request is
    told,     \* verdicts reported to the webhook and the pipeline, and by whom
    faults,   \* what went wrong, and in whose hands
    crashes

vars == <<auto, row, post, reg, bc, actor, cancel, told, faults, crashes>>

NoRun == 0
Terminal == {"completed", "failed"}
Row == [status : {"absent", "pending", "running"} \cup Terminal,
        cancelled : BOOLEAN]

(***************************************************************************)
(* A run and a stream request may both end up persisting a verdict, so     *)
(* they share one record: where the goroutine is, its copy of the row,     *)
(* whether every requested agent reported (`whole`), and the broadcaster a *)
(* stream request has in hand (`on`).  `late` marks a request that came    *)
(* after the 201.                                                          *)
(***************************************************************************)
RunPCs == {"unborn", "begin", "loaded", "streaming", "drained", "release", "released"}
PersistPCs == {"failGet", "save", "tell"}
StreamPCs == {"idle", "seen", "peeked", "contend", "attached", "eof", "replayed",
              "notified"}
(***************************************************************************)
(* A broadcaster is empty, closed, cancelled or not; `stopped` is history: *)
(* the first cancel came while the run had not yet asked for the reason.   *)
(***************************************************************************)
Broadcaster == [empty : BOOLEAN, closed : BOOLEAN, cancelled : BOOLEAN, stopped : BOOLEAN]
BeforeReason == {"begin", "loaded", "streaming", "drained"}

\* A panic, or a store call that fails: the row cannot be read (Get), be
\* marked as running, or be given a verdict (Update).
Calls == {"panic", "read", "mark", "write"}

Actors == Runs \cup Streams
Actor == [pc : RunPCs \cup PersistPCs \cup StreamPCs \cup {"dead"},
          copy : Row, whole : BOOLEAN, on : Runs \cup {NoRun}, late : BOOLEAN]

TypeOK ==
    /\ auto \in Modes
    /\ row \in Row
    /\ post \in {"start", "created", "answered", "gone"}
    /\ reg \in Runs \cup {NoRun}
    /\ bc \in [Runs -> Broadcaster]
    /\ actor \in [Actors -> Actor]
    /\ cancel \in [Cancels -> {"idle", "seen", "answered"}]
    /\ told \subseteq Terminal \X Actors
    /\ faults \subseteq Calls \X Actors
    /\ crashes \in 0..MaxCrashes

NoRow == [status |-> "absent", cancelled |-> FALSE]

At(a, pc) == actor[a].pc = pc
Goto(a, pc) == actor' = [actor EXCEPT ![a].pc = pc]

\* The same, with nothing in hand any more.
Fresh(pc) == [pc |-> pc, copy |-> NoRow, whole |-> FALSE, on |-> NoRun, late |-> FALSE]
Drop(a, pc) == actor' = [actor EXCEPT ![a] = [Fresh(pc) EXCEPT !.late = actor[a].late]]
Leave(a, pc) == actor' = [actor EXCEPT ![a] = Fresh(pc)]

Init ==
    /\ auto \in Modes
    /\ row = NoRow
    /\ post = "start"
    /\ reg = NoRun
    /\ bc = [r \in Runs |-> [empty |-> TRUE, closed |-> FALSE,
                             cancelled |-> FALSE, stopped |-> FALSE]]
    /\ actor = [a \in Actors |-> Fresh(IF a \in Runs THEN "unborn" ELSE "idle")]
    /\ cancel = [k \in Cancels |-> "idle"]
    /\ told = {}
    /\ faults = {} /\ crashes = 0

\* Each may go wrong once in each goroutine's hands, while the bound lasts (a
\* run has one recover: a second panic is the end of the process, a Crash).
Fault(call, a) ==
    /\ <<call, a>> \notin faults /\ Cardinality(faults) < MaxFaults
    /\ faults' = faults \cup {<<call, a>>}
NoFault == UNCHANGED faults

Rest == <<post, reg, bc, cancel, told, auto, crashes>>

-----------------------------------------------------------------------------
(***************************************************************************)
(* The registry.                                                           *)
(***************************************************************************)

\* The audit has an entry: a run in progress, or a finished one within its TTL.
Occupied == reg # NoRun

\* OpenCancellable: single-flight; the caller starts runAudit on success.
\* `then` is what becomes of the caller's own record.
Open(then) ==
    /\ ~Occupied
    /\ \E r \in Runs :
         /\ At(r, "unborn") /\ \A q \in Runs : q < r => ~At(q, "unborn")
         /\ reg' = r
         /\ actor' = [then EXCEPT ![r].pc = "begin"]
    /\ UNCHANGED bc

\* Mutant of Release: the timer starts but the broadcaster stays open.
Release_LeavesOpen(r) ==
    /\ At(r, "release")
    /\ Leave(r, "released")
    /\ UNCHANGED <<row, post, reg, bc, cancel, told, faults, auto, crashes>>

\* Release: close the registered broadcaster; the eviction timer starts.
Release(r) ==
    /\ At(r, "release")
    /\ bc' = IF Occupied THEN [bc EXCEPT ![reg].closed = TRUE] ELSE bc
    /\ Leave(r, "released")
    /\ UNCHANGED <<row, post, reg, cancel, told, faults, auto, crashes>>

\* Mutant of Evict: the timer runs from Open, not from Release.
Evict_WhileRunning(r) ==
    /\ ~At(r, "unborn") /\ reg = r
    /\ reg' = NoRun
    /\ UNCHANGED <<row, post, bc, actor, cancel, told, faults, auto, crashes>>

\* evict, when the TTL is over: only this run's own entry is deleted.
Evict(r) ==
    /\ At(r, "released") /\ reg = r
    /\ reg' = NoRun
    /\ UNCHANGED <<row, post, bc, actor, cancel, told, faults, auto, crashes>>

-----------------------------------------------------------------------------
(***************************************************************************)
(* POST /api/audits: store the pending row, dispatch, answer 201.          *)
(***************************************************************************)
PostCreate ==
    /\ post = "start"
    /\ row' = [status |-> "pending", cancelled |-> FALSE]
    /\ post' = "created"
    /\ UNCHANGED <<reg, bc, actor, cancel, told, faults, auto, crashes>>

\* Mutant of PostDispatch: only a viewer starts a run.
PostDispatch_Never ==
    /\ post = "created"
    /\ post' = "answered"
    /\ UNCHANGED <<row, reg, bc, actor, cancel, told, faults, auto, crashes>>

PostDispatch ==
    /\ post = "created"
    /\ post' = "answered"
    /\ IF auto /\ ~Occupied THEN Open(actor) ELSE UNCHANGED <<reg, bc, actor>>
    /\ UNCHANGED <<row, cancel, told, faults, auto, crashes>>

-----------------------------------------------------------------------------
(***************************************************************************)
(* runAudit.                                                               *)
(***************************************************************************)

\* A run whose row cannot be read returns without a verdict.
RunBegin(r) ==
    /\ At(r, "begin")
    /\ \/ /\ actor' = [actor EXCEPT ![r] = [@ EXCEPT !.pc = "loaded", !.copy = row]]
          /\ NoFault
       \/ Leave(r, "release") /\ Fault("read", r)
    /\ UNCHANGED <<row, Rest>>

\* sourceFor: the source is gone, or the local-path policy refuses it.
RunRefused(r) ==
    /\ At(r, "loaded")
    /\ Drop(r, "failGet") /\ NoFault
    /\ UNCHANGED <<row, Rest>>

\* status = running; an error of this Update is ignored.
RunStart(r) ==
    /\ At(r, "loaded")
    /\ actor' = [actor EXCEPT ![r] = [@ EXCEPT !.pc = "streaming", !.copy.status = "running"]]
    /\ \/ row' = [actor[r].copy EXCEPT !.status = "running"] /\ NoFault
       \/ UNCHANGED row /\ Fault("mark", r)
    /\ UNCHANGED Rest

RunEmit(r) ==
    /\ At(r, "streaming") /\ bc[r].empty
    /\ bc' = [bc EXCEPT ![r].empty = FALSE]
    /\ UNCHANGED <<row, post, reg, actor, cancel, told, faults, auto, crashes>>

\* The producer closed eventCh: every agent ended, or the run was cancelled
\* (which can keep even the first event from being sent).
RunDrained(r) ==
    /\ At(r, "streaming")
    /\ ~bc[r].empty \/ bc[r].cancelled
    /\ \E whole \in BOOLEAN :
         actor' = [actor EXCEPT ![r] = [@ EXCEPT !.pc = "drained", !.whole = whole]]
    /\ UNCHANGED <<row, Rest, faults>>

\* Mutant of RunReadsReason: the stream is closed before persistence.
RunReadsReason_ClosesFirst(r) ==
    /\ At(r, "drained")
    /\ actor' = [actor EXCEPT ![r] = [@ EXCEPT !.pc = "save", !.copy.cancelled = bc[r].cancelled]]
    /\ bc' = [bc EXCEPT ![r].closed = TRUE]
    /\ UNCHANGED <<row, post, reg, cancel, told, faults, auto, crashes>>

\* Mutant of RunReadsReason: the reason is looked for in the row.
RunReadsReason_InRow(r) ==
    /\ At(r, "drained")
    /\ actor' = [actor EXCEPT ![r] = [@ EXCEPT !.pc = "save", !.copy.cancelled = row.cancelled]]
    /\ UNCHANGED <<row, Rest, faults>>

\* audit.CancelReason = b.CancelReason(), before anything is persisted.
RunReadsReason(r) ==
    /\ At(r, "drained")
    /\ actor' = [actor EXCEPT ![r] = [@ EXCEPT !.pc = "save", !.copy.cancelled = bc[r].cancelled]]
    /\ UNCHANGED <<row, Rest, faults>>

\* Mutant of RunPanics: the deferred function only ends the streams.
RunPanics_OnlyReleases(r) ==
    /\ actor[r].pc \in {"loaded", "streaming", "drained", "save", "tell"}
    /\ Leave(r, "release") /\ Fault("panic", r)
    /\ UNCHANGED <<row, Rest>>

\* The deferred recover: a panic in the run fails the audit.
RunPanics(r) ==
    /\ actor[r].pc \in {"loaded", "streaming", "drained", "save", "tell"}
    /\ Drop(r, "failGet") /\ Fault("panic", r)
    /\ UNCHANGED <<row, Rest>>

-----------------------------------------------------------------------------
(***************************************************************************)
(* failAudit and persistResultsWithError, for a run or an orphan notice.   *)
(***************************************************************************)

\* Where a persisting goroutine goes next: a run releases its broadcaster.
Finished(a) == IF a \in Runs THEN "release" ELSE "notified"

\* failAudit re-reads the row; if it cannot, nothing is persisted.
FailGet(a) ==
    /\ At(a, "failGet")
    /\ \/ /\ actor' = [actor EXCEPT ![a] = [@ EXCEPT !.pc = "save", !.copy = row, !.whole = FALSE]]
          /\ NoFault
       \/ Leave(a, Finished(a)) /\ Fault("read", a)
    /\ UNCHANGED <<row, Rest>>

\* Mutant of Verdict: complete coverage outweighs a cancel.
Verdict_IgnoresCancel(a) == IF actor[a].whole THEN "completed" ELSE "failed"

\* completeAuditWithError: a cancel, an agent error or a missing agent fails.
Verdict(a) ==
    IF actor[a].copy.cancelled \/ ~actor[a].whole THEN "failed" ELSE "completed"

\* Findings are saved and the row rewritten; a failed Update is only logged.
PersistUpdate(a) ==
    /\ At(a, "save")
    /\ actor' = [actor EXCEPT ![a] = [@ EXCEPT !.pc = "tell", !.copy.status = Verdict(a)]]
    /\ \/ row' = [actor[a].copy EXCEPT !.status = Verdict(a)] /\ NoFault
       \/ UNCHANGED row /\ Fault("write", a)
    /\ UNCHANGED Rest

\* Mutant of PersistTell: every verdict is reported as a completion.
PersistTell_Completed(a) ==
    /\ At(a, "tell")
    /\ told' = told \cup {<<"completed", a>>}
    /\ Leave(a, Finished(a))
    /\ UNCHANGED <<row, post, reg, bc, cancel, faults, auto, crashes>>

\* Broker tokens revoked; webhook, prove results, lineage, AdvanceStage.
PersistTell(a) ==
    /\ At(a, "tell")
    /\ told' = told \cup {<<actor[a].copy.status, a>>}
    /\ Leave(a, Finished(a))
    /\ UNCHANGED <<row, post, reg, bc, cancel, faults, auto, crashes>>

Persist(a) == FailGet(a) \/ PersistUpdate(a) \/ PersistTell(a)

-----------------------------------------------------------------------------
(***************************************************************************)
(* ServeHTTP.  The row is read first; the registry, IsEmpty and Closed are *)
(* asked later, each under its own lock.                                   *)
(***************************************************************************)
StreamReadsRow(c) ==
    /\ At(c, "idle") /\ row.status # "absent"
    /\ actor' = [actor EXCEPT ![c] = [@ EXCEPT !.pc = "seen", !.copy = row,
                              !.late = (post = "answered")]]
    /\ UNCHANGED <<row, Rest, faults>>

\* Mutant of Unowned: the orphan notice leaves the row as it is.
Unowned_NoReconcile(c) ==
    /\ Goto(c, IF actor[c].copy.status \in Terminal THEN "replayed" ELSE "notified")
    /\ UNCHANGED <<reg, bc>>

\* No usable broadcaster: replay a finished audit, else dispatch or give up.
Unowned(c) ==
    \/ /\ actor[c].copy.status \in Terminal
       /\ Leave(c, "replayed")
       /\ UNCHANGED <<reg, bc>>
    \/ /\ actor[c].copy.status \notin Terminal
       /\ auto
       /\ Drop(c, "failGet")
       /\ UNCHANGED <<reg, bc>>
    \/ /\ actor[c].copy.status \notin Terminal
       /\ ~auto
       /\ IF Occupied
            THEN Goto(c, "contend") /\ UNCHANGED <<reg, bc>>
            ELSE \E r \in Runs :
                   Open([actor EXCEPT ![c] = [Fresh("attached") EXCEPT !.on = r]]) /\ reg' = r

Attach(c, r) == actor' = [actor EXCEPT ![c] = [Fresh("attached") EXCEPT !.on = r]]

\* Mutant of StreamLooksUp: an empty broadcaster is taken for a dead one.
StreamLooksUp_EmptyIsDead(c) ==
    /\ At(c, "seen")
    /\ IF ~Occupied THEN Unowned(c)
       ELSE IF bc[reg].empty THEN Unowned(c)
       ELSE Attach(c, reg) /\ UNCHANGED <<reg, bc>>
    /\ UNCHANGED <<row, post, cancel, told, faults, auto, crashes>>

\* runs.Get and IsEmpty.
StreamLooksUp(c) ==
    /\ At(c, "seen")
    /\ IF ~Occupied THEN Unowned(c)
       ELSE /\ IF bc[reg].empty
                 THEN actor' = [actor EXCEPT ![c] = [@ EXCEPT !.pc = "peeked", !.on = reg]]
                 ELSE Attach(c, reg)
            /\ UNCHANGED <<reg, bc>>
    /\ UNCHANGED <<row, post, cancel, told, faults, auto, crashes>>

\* Closed, for a broadcaster that was empty a moment ago.
StreamAsksClosed(c) ==
    /\ At(c, "peeked")
    /\ IF bc[actor[c].on].closed THEN Unowned(c)
       ELSE Attach(c, actor[c].on) /\ UNCHANGED <<reg, bc>>
    /\ UNCHANGED <<row, post, cancel, told, faults, auto, crashes>>

\* Lost the race to open: attach to the winner if it is still there.
StreamContends(c) ==
    /\ At(c, "contend")
    /\ IF Occupied THEN Attach(c, reg) ELSE Drop(c, "failGet")
    /\ UNCHANGED <<row, Rest, faults>>

StreamEOF(c) ==
    /\ At(c, "attached") /\ bc[actor[c].on].closed
    /\ Goto(c, "eof")
    /\ UNCHANGED <<row, Rest, faults>>

-----------------------------------------------------------------------------
(***************************************************************************)
(* CancelRun: 409 for a finished audit or one not run here, else 202.      *)
(***************************************************************************)
CancelReadsRow(k) ==
    /\ cancel[k] = "idle" /\ row.status # "absent"
    /\ cancel' = [cancel EXCEPT ![k] = IF row.status \in Terminal THEN "answered"
                                       ELSE "seen"]
    /\ UNCHANGED <<row, post, reg, bc, actor, told, faults, auto, crashes>>

CancelStops(k) ==
    /\ cancel[k] = "seen"
    /\ IF Occupied
         THEN /\ cancel' = [cancel EXCEPT ![k] = "answered"]
              /\ bc' = [bc EXCEPT ![reg].cancelled = TRUE,
                                  ![reg].stopped = @ \/ actor[reg].pc \in BeforeReason]
         ELSE cancel' = [cancel EXCEPT ![k] = "answered"] /\ UNCHANGED bc
    /\ UNCHANGED <<row, post, reg, actor, told, faults, auto, crashes>>

-----------------------------------------------------------------------------
(***************************************************************************)
(* A restart: the store survives; the registry, every goroutine and every  *)
(* connection do not.  The switch may have been turned in between.         *)
(***************************************************************************)
Survives == {"unborn", "idle", "eof", "replayed", "notified"}

Crash ==
    /\ crashes < MaxCrashes
    /\ crashes' = crashes + 1
    /\ reg' = NoRun
    /\ actor' = [a \in Actors |->
                   IF actor[a].pc \in Survives THEN actor[a]
                   ELSE Fresh("dead")]
    /\ cancel' = [k \in Cancels |-> IF cancel[k] = "seen" THEN "answered" ELSE cancel[k]]
    /\ post' = IF post = "created" THEN "gone" ELSE post
    /\ auto' \in Modes
    /\ UNCHANGED <<row, bc, told, faults>>

RunStep(r) ==
    \/ RunBegin(r) \/ RunRefused(r) \/ RunStart(r) \/ RunEmit(r) \/ RunDrained(r)
    \/ RunReadsReason(r) \/ Persist(r) \/ Release(r)

StreamStep(c) ==
    StreamLooksUp(c) \/ StreamAsksClosed(c) \/ StreamContends(c) \/ StreamEOF(c)
    \/ Persist(c)

Next ==
    \/ PostCreate \/ PostDispatch
    \/ \E r \in Runs : RunStep(r) \/ RunPanics(r) \/ Evict(r)
    \/ \E c \in Streams : StreamReadsRow(c) \/ StreamStep(c)
    \/ \E k \in Cancels : CancelReadsRow(k) \/ CancelStops(k)
    \/ Crash

(***************************************************************************)
(* Fairness.  A goroutine that can run does; every agent call has a        *)
(* deadline, so a streaming run drains; the eviction timer fires.  Nobody  *)
(* has to stream, to cancel, to fail or to restart.                        *)
(***************************************************************************)
Fairness ==
    /\ WF_vars(PostDispatch)
    /\ \A r \in Runs : WF_vars(RunStep(r)) /\ WF_vars(Evict(r))
    /\ \A c \in Streams : WF_vars(StreamStep(c))

Spec == Init /\ [][Next]_vars /\ Fairness

-----------------------------------------------------------------------------
(***************************************************************************)
(* Properties.                                                             *)
(***************************************************************************)
Producing(r) == actor[r].pc \notin {"unborn", "released", "dead"}

(***************************************************************************)
(* "a run is never observable without a way to stop it" and "dispatch      *)
(* exactly-once" (broadcastRegistry): a run in progress is the one the     *)
(* registry resolves, so there is at most one, and a viewer or a cancel    *)
(* always finds it.                                                        *)
(***************************************************************************)
LiveIsRegistered == \A r \in Runs : Producing(r) => reg = r /\ ~bc[r].closed

(***************************************************************************)
(* "closing early yields a green exit code over an empty report" (Close):  *)
(* when a stream ends, the run it followed has reported its verdict and    *)
(* the row is terminal -- on the panic path too -- unless that run could   *)
(* not read the row or write its verdict, or the audit has been dispatched *)
(* again since.                                                            *)
(***************************************************************************)
Unsaved(a) == <<"read", a>> \in faults \/ <<"write", a>> \in faults

EofMeansPersisted ==
    \A c \in Streams : At(c, "eof") /\ ~Unsaved(actor[c].on) =>
        LET r == actor[c].on
        IN  /\ \E verdict \in Terminal : <<verdict, r>> \in told
            /\ \/ row.status \in Terminal
               \/ \E q \in Runs : q > r /\ ~At(q, "unborn")

(***************************************************************************)
(* "a cancelled run must never be recorded as a success" (runAudit), as    *)
(* far as the code keeps it: a run that CancelRun stopped while its agents *)
(* were at work, at any point before it asked for the reason, is never     *)
(* reported as completed, whatever fails, panics or restarts on the way,   *)
(* and a row says completed only if some run got past the question without *)
(* having been stopped.                                                    *)
(***************************************************************************)
Past(r) == actor[r].pc \notin BeforeReason \cup {"unborn"}

StoppedRunNeverSucceeds ==
    /\ \A r \in Runs : bc[r].stopped => <<"completed", r>> \notin told
    /\ row.status = "completed" => \E r \in Runs : Past(r) /\ ~bc[r].stopped

(***************************************************************************)
(* Under dispatch on create the orphan branch never fails a live run for a *)
(* client that connected after its 201 ("It must ATTACH to that live run", *)
(* the comment above TestStreamHandler_LiveEmptyBroadcasterIsNotOrphaned): *)
(* when such a client's orphan notice rewrites the row, no run is in       *)
(* progress.  With the switch off a second viewer may open a run while the *)
(* first is on its way to the notice, and the property does not hold.      *)
(***************************************************************************)
LateClientFindsLiveRun ==
    [][\A c \in Streams :
         auto /\ At(c, "save") /\ actor'[c].pc = "tell" /\ actor[c].late
           => \A r \in Runs : ~Producing(r)]_vars

(***************************************************************************)
(* The webhook and the pipeline were told what the row says, when a single *)
(* verdict was reported, nothing is in flight and no verdict was lost on   *)
(* the way to the store.                                                   *)
(***************************************************************************)
Quiet == \A a \in Actors : actor[a].pc \notin PersistPCs /\ (a \in Runs => ~Producing(a))

ToldMatchesRow ==
    Quiet /\ (\A a \in Actors : ~Unsaved(a)) =>
        \A t \in told : told = {t} /\ crashes = 0 => row.status = t[1]

(***************************************************************************)
(* What anyone outside is told of a run -- the end of a client's stream,   *)
(* the webhook, the pipeline -- is what the store says.                    *)
(***************************************************************************)
ToldIsTrue == EofMeansPersisted /\ ToldMatchesRow

(***************************************************************************)
(* A stream request that has read the row does not wait for ever ("polls   *)
(* it forever", notifyOrphaned): the run owns the row or the request       *)
(* reconciles it.  One that attached to a run (attachToRun) comes to the   *)
(* end of the stream.                                                      *)
(***************************************************************************)
VerdictLost == \E a \in Actors : Unsaved(a)

StreamServed(c) ==
    /\ At(c, "seen") ~> (row.status \in Terminal \/ VerdictLost \/ At(c, "dead"))
    /\ <>[]~At(c, "attached")

\* An audit dispatched at its creation (audit_handler.Create) needs nobody to
\* watch it: it ends in a terminal status.
CreatedAuditEnds ==
    (post = "answered" /\ auto)
        ~> (row.status \in Terminal \/ VerdictLost \/ crashes > 0)

(***************************************************************************)
(* What comments of the repository say and the code does not keep.         *)
(***************************************************************************)

\* "a cancelled run must never be recorded as a success" (runAudit): a run
\* that has been cancelled when its verdict is recorded is recorded as failed.
CancelledRunNeverSucceeds ==
    [][\A r \in Runs :
         At(r, "save") /\ actor'[r].pc = "tell" /\ bc[r].cancelled
           => actor'[r].copy.status = "failed"]_vars

\* "Reconciling the state here is the only place that knows the run has no
\* owner" (notifyOrphaned): an orphan notice never rewrites the row of a run
\* in progress.
OrphanHasNoOwner ==
    [][\A c \in Streams : At(c, "save") /\ actor'[c].pc = "tell"
         => \A r \in Runs : ~Producing(r)]_vars

=============================================================================
