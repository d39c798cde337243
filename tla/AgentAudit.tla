------------------------------ MODULE AgentAudit ------------------------------
(***************************************************************************)
(* One audit of a scan agent (agents/shared/shared): the synchronous       *)
(* generator run_combined_audit on its worker thread, its skill threads,   *)
(* the sweep of LLM calls, the thread of the validate stage, and the       *)
(* stream that carries its events to a client who may leave at any time    *)
(* (transport/sse_app.py).  The audit's ceiling may pass at any time.      *)
(*                                                                         *)
(* The judge inside the validate stage is Judge.tla, the parses inside the *)
(* skills are Prefetch.tla and WorkerPool.tla.  Progress and text events   *)
(* are left out, except that they keep their place in the phases.          *)
(***************************************************************************)
EXTENDS Naturals, Sequences, FiniteSets, SequencesExt

CONSTANTS
    Skills,        \* the skills of the run, in submission order
    SkillWorkers,  \* _SKILL_WORKERS
    Rows,          \* how many rows a skill's result has
    Covers,        \* pairs <<r, s>>: row r is a generalisation of row s on its line
    KeyOf,         \* the dedup key of a skill's row
    LlmKeys,       \* the dedup keys of what the model may find
    Batches,       \* batches of the sweep
    FailureCap,    \* VULTURE_LLM_MAX_CONSECUTIVE_FAILURES, 0 for none
    Attempts,      \* attempts of retry_llm_call
    WantsLlm,      \* the run asks for an LLM phase
    Enforce,       \* VULTURE_LLM_PREFLIGHT=enforce
    JudgeBatches   \* updates the judge streams at most

VARIABLES
    pc,         \* where the generator is
    skill,      \* the thread of each skill
    told,       \* skills whose end the generator has seen
    rows,       \* skill_findings, in the order they were reported
    sweep,      \* the sweep's place: batch, failures in a row, first error, findings
    call,       \* the call of the current batch: attempt and whether it was halved
    tally,      \* _LLMDedupTally
    degraded,   \* degraded_reason is set
    validator,  \* the thread of the validate stage and what its queue holds
    stream,     \* everything ever put on the stream's queue
    read,       \* how much of it the client's response has taken
    client,     \* the client's response
    cancelled,  \* the cancel token
    expired,    \* the audit's ceiling has passed
    asked,      \* history: how each batch that was asked ended
    late        \* history: batches that ended after the audit was stopped

vars == <<pc, skill, told, rows, sweep, call, tally, degraded, validator, stream, read,
          client, cancelled, expired, asked, late>>
llmVars == <<sweep, call, tally, asked, late>>
streamVars == <<stream, read, client, cancelled>>

Ordinals == 1..Len(Skills)
Width == Len(Skills) + 1
SkillRows == UNION {{s} \X (0..(Rows[s] - 1)) : s \in Ordinals}

ASSUME SkillsAssumption == Len(Skills) \in Nat
ASSUME RowsAssumption == Rows \in [Ordinals -> Nat]
\* A generalisation's CWE is a transitive ancestor of the other row's.
ASSUME CoversAssumption ==
    /\ Covers \subseteq SkillRows \X SkillRows
    /\ \A r \in SkillRows : <<r, r>> \notin Covers
    /\ \A r, s, t \in SkillRows : <<r, s>> \in Covers /\ <<s, t>> \in Covers => <<r, t>> \in Covers
ASSUME LlmKeysAssumption == IsFiniteSet(LlmKeys)
ASSUME BatchesAssumption == Batches \in Nat /\ Attempts \in Nat \ {0} /\ JudgeBatches \in Nat
ASSUME SettingsAssumption == WantsLlm \in BOOLEAN /\ Enforce \in BOOLEAN

\* The members of seq that are in keep, in their order.
Only(seq, keep) ==
    LET kept[n \in 0..Len(seq)] ==
          IF n = 0 THEN <<>>
          ELSE IF seq[n] \in keep THEN Append(kept[n - 1], seq[n]) ELSE kept[n - 1]
    IN  kept[Len(seq)]

\* Mutant of SlotOf: the LLM tier has no slot of its own.
SlotOf_NoTierSlot(ordinal, position) == position * Len(Skills) + ordinal - 1

\* _FindingSlots: position * width + ordinal; the last slot is the LLM's.
SlotOf(ordinal, position) == position * Width + ordinal - 1
SkillId(row) == SlotOf(row[1], row[2])
LlmId(position) == SlotOf(Width, position)

Finding(id) == [kind |-> "finding", id |-> id]
Update == [kind |-> "update"]
Finished == [kind |-> "finished"]
Error == [kind |-> "error"]
Done == [kind |-> "done"]
IsResult(item) == item.kind = "result"

Goto(p) == pc' = p
Stopped == cancelled \/ expired
Emits(items) == stream' = stream \o items

PCs == {"pooled", "skills", "closing", "collapsing", "preflight", "entering", "sweeping",
        "calling", "capped", "settling", "combining", "draining", "finishing", "returning", "ended"}
ThreadStates == {"queued", "running", "ok", "failed", "dropped"}
Tallies == [emitted : Nat, collapsed : Nat, available : BOOLEAN]
Items ==
    {Update, Finished, Error, Done}
        \cup [kind : {"finding"}, id : Nat]
        \cup [kind : {"result"}, ids : Seq(Nat), degraded : BOOLEAN, tally : Tallies, llm : Nat]

TypeOK ==
    /\ pc \in PCs
    /\ skill \in [Ordinals -> ThreadStates]
    /\ told \subseteq Ordinals
    /\ rows \in Seq(SkillRows)
    /\ sweep \in [batch : 0..Batches, failures : Nat, error : BOOLEAN, found : Seq(LlmKeys)]
    /\ call \in [attempt : 1..Attempts, halved : BOOLEAN]
    /\ tally \in Tallies
    /\ degraded \in BOOLEAN
    /\ validator \in [up : BOOLEAN, judging : BOOLEAN, updates : 0..JudgeBatches, sent : 0..JudgeBatches, failed : BOOLEAN]
    /\ stream \in Seq(Items) /\ read \in 0..Len(stream)
    /\ client \in {"reading", "gone", "ended", "failed"}
    /\ cancelled \in BOOLEAN /\ expired \in BOOLEAN
    /\ asked \in Seq({"answered", "error"})
    /\ late \in Nat

NoValidator == [up |-> FALSE, judging |-> FALSE, updates |-> 0, sent |-> 0, failed |-> FALSE]
FirstCall == [attempt |-> 1, halved |-> FALSE]

Init ==
    /\ pc = "pooled"
    /\ skill = [s \in Ordinals |-> "queued"] /\ told = {} /\ rows = <<>>
    /\ sweep = [batch |-> 0, failures |-> 0, error |-> FALSE, found |-> <<>>]
    /\ call = FirstCall
    /\ tally = [emitted |-> 0, collapsed |-> 0, available |-> TRUE]
    /\ degraded = FALSE
    /\ validator = NoValidator
    /\ stream = <<>> /\ read = 0 /\ client = "reading"
    /\ cancelled = FALSE /\ expired = FALSE
    /\ asked = <<>> /\ late = 0

-----------------------------------------------------------------------------
(***************************************************************************)
(* The client's response (_cancellable_stream) and the clock.              *)
(***************************************************************************)
\* Whatever ends the response flips the token.
Ends(how) == client' = how /\ cancelled' = TRUE

Reads ==
    /\ client = "reading" /\ read < Len(stream)
    /\ read' = read + 1
    /\ LET item == stream[read']
       IN  CASE item = Done -> Ends("ended")
             [] item = Error -> Ends("failed")
             [] OTHER -> UNCHANGED <<client, cancelled>>
    /\ UNCHANGED <<pc, skill, told, rows, llmVars, degraded, validator, stream, expired>>

Disconnect ==
    /\ client = "reading"
    /\ Ends("gone")
    /\ UNCHANGED <<pc, skill, told, rows, llmVars, degraded, validator, stream, read, expired>>

\* The ceiling is armed when the run leaves the executor's queue.
Expire ==
    /\ pc # "pooled" /\ ~expired
    /\ expired' = TRUE
    /\ UNCHANGED <<pc, skill, told, rows, llmVars, degraded, validator, streamVars>>

-----------------------------------------------------------------------------
(***************************************************************************)
(* The skill phase.                                                        *)
(***************************************************************************)
\* _produce gets a thread; every skill is submitted.
Begin ==
    /\ pc = "pooled"
    /\ Goto("skills")
    /\ UNCHANGED <<skill, told, rows, llmVars, degraded, validator, streamVars, expired>>

SkillStarts(s) ==
    /\ pc # "pooled" /\ skill[s] = "queued"
    /\ \A r \in 1..(s - 1) : skill[r] # "queued"
    /\ Cardinality({r \in Ordinals : skill[r] = "running"}) < SkillWorkers
    /\ skill' = [skill EXCEPT ![s] = "running"]
    /\ UNCHANGED <<pc, told, rows, llmVars, degraded, validator, streamVars, expired>>

\* retry_skill returned, or raised; it may also never end.
SkillEnds(s) ==
    /\ skill[s] = "running"
    /\ \E how \in {"ok", "failed"} : skill' = [skill EXCEPT ![s] = how]
    /\ UNCHANGED <<pc, told, rows, llmVars, degraded, validator, streamVars, expired>>

Completed == {s \in Ordinals : skill[s] \in {"ok", "failed"}}
RowsOf(s) == [p \in 1..Rows[s] |-> <<s, p - 1>>]

\* as_completed yields skills in the order they end; a failed one counts as
\* completed and has no rows.
Report(s) ==
    /\ pc = "skills" /\ s \in Completed \ told /\ ~cancelled
    /\ told' = told \cup {s}
    /\ LET new == IF skill[s] = "ok" THEN RowsOf(s) ELSE <<>>
       IN  /\ rows' = rows \o new
           /\ Emits([i \in DOMAIN new |-> Finding(SkillId(new[i]))])
    /\ UNCHANGED <<pc, skill, llmVars, degraded, validator, read, client, cancelled, expired>>

Aborted == told # Ordinals

\* Out of the loop: all told, a cancel seen at the next completed skill, or
\* the phase's timeout.
LeaveSkills ==
    /\ pc = "skills"
    /\ \/ told = Ordinals
       \/ cancelled /\ Completed \ told # {}
       \/ expired /\ Aborted
    /\ Goto("closing")
    /\ UNCHANGED <<skill, told, rows, llmVars, degraded, validator, streamVars, expired>>

\* Mutant of CloseSkills: the pool is always waited for.
CloseSkills_Waits ==
    /\ pc = "closing"
    /\ \A s \in Ordinals : skill[s] \notin {"queued", "running"}
    /\ Goto("collapsing")
    /\ UNCHANGED <<skill, told, rows, llmVars, degraded, validator, streamVars, expired>>

\* The finally: shutdown(wait = not drain, cancel_futures = drain), then the
\* ticket index.
CloseSkills ==
    /\ pc = "closing"
    /\ LET drain == Aborted \/ Stopped
       IN  /\ drain \/ \A s \in Ordinals : skill[s] \notin {"queued", "running"}
           /\ skill' = [s \in Ordinals |-> IF drain /\ skill[s] = "queued" THEN "dropped" ELSE skill[s]]
    /\ Goto("collapsing")
    /\ UNCHANGED <<told, rows, llmVars, degraded, validator, streamVars, expired>>

\* _collapse_skill_findings: a generalisation goes when its specialisation is there.
Collapse ==
    /\ pc = "collapsing"
    /\ rows' = Only(rows, {r \in SkillRows : \A s \in Range(rows) : <<r, s>> \notin Covers})
    /\ Goto("preflight")
    /\ UNCHANGED <<skill, told, llmVars, degraded, validator, streamVars, expired>>

-----------------------------------------------------------------------------
(***************************************************************************)
(* The LLM phase.                                                          *)
(***************************************************************************)
\* The probe fails open unless it is enforced.
Preflight ==
    /\ pc = "preflight"
    /\ \E veto \in IF WantsLlm /\ ~Stopped /\ Enforce THEN BOOLEAN ELSE {FALSE} :
         /\ degraded' = veto
         /\ Goto(IF WantsLlm /\ ~veto THEN "entering" ELSE "combining")
    /\ UNCHANGED <<skill, told, rows, llmVars, validator, streamVars, expired>>

EnterLlm ==
    /\ pc = "entering"
    /\ Goto(IF Stopped THEN "combining" ELSE "sweeping")
    /\ UNCHANGED <<skill, told, rows, llmVars, degraded, validator, streamVars, expired>>

\* Mutant of NextBatch: only the ceiling is checked.
NextBatch_IgnoresCancel ==
    /\ pc = "sweeping"
    /\ Goto(IF sweep.batch = Batches \/ expired THEN "settling" ELSE "calling")
    /\ call' = FirstCall
    /\ UNCHANGED <<skill, told, rows, sweep, tally, asked, late, degraded, validator, streamVars, expired>>

\* The checks before every batch; the call itself is a step of its own.
NextBatch ==
    /\ pc = "sweeping"
    /\ Goto(IF sweep.batch = Batches \/ Stopped THEN "settling" ELSE "calling")
    /\ call' = FirstCall
    /\ UNCHANGED <<skill, told, rows, sweep, tally, asked, late, degraded, validator, streamVars, expired>>

\* The batch ends with what the call returned; the caps come after it.
BatchEnds(findings, error) ==
    /\ LET base == {KeyOf[r] : r \in Range(rows)} \cup Range(sweep.found)
           new == Only(findings, LlmKeys \ base)
       IN  /\ sweep' = [batch |-> sweep.batch + 1,
                        failures |-> IF error THEN sweep.failures + 1 ELSE 0,
                        error |-> sweep.error \/ error,
                        found |-> sweep.found \o new]
           /\ tally' = [tally EXCEPT !.emitted = @ + Len(findings),
                                     !.collapsed = @ + Len(findings) - Len(new)]
    /\ asked' = Append(asked, IF error THEN "error" ELSE "answered")
    /\ late' = late + (IF Stopped THEN 1 ELSE 0)
    /\ Goto("capped")
    /\ UNCHANGED <<skill, told, rows, call, degraded, validator, streamVars, expired>>

\* _collect_llm_findings_async: the model answers, with findings or with none;
\* an answer nobody can parse is an error.
CallAnswers ==
    /\ pc = "calling"
    /\ \E found \in SUBSET LlmKeys : BatchEnds(SetToSeq(found), FALSE)

\* The failures that end the call at once: one that is not transient (and not
\* a size rejection that can be halved), a tool loop, an unparseable answer,
\* and wait_for's timeout.
CallErrs == pc = "calling" /\ BatchEnds(<<>>, TRUE)

\* A transient failure: the last attempt's ends the call.
CallRetries ==
    /\ pc = "calling" /\ call.attempt < Attempts
    /\ call' = [call EXCEPT !.attempt = @ + 1]
    /\ UNCHANGED <<pc, skill, told, rows, sweep, tally, asked, late, degraded, validator, streamVars, expired>>

\* The size retry: half the source, once, with attempts of its own.
CallHalves ==
    /\ pc = "calling" /\ ~call.halved
    /\ call' = [attempt |-> 1, halved |-> TRUE]
    /\ UNCHANGED <<pc, skill, told, rows, sweep, tally, asked, late, degraded, validator, streamVars, expired>>

\* The caps: failures in a row, then the USD budget or the file cap, none of
\* them on the last batch.
Cap ==
    /\ pc = "capped"
    /\ LET more == sweep.batch < Batches
           broken == FailureCap > 0 /\ sweep.failures >= FailureCap
       IN  \E spent \in BOOLEAN :
             Goto(IF more /\ (broken \/ spent) THEN "settling" ELSE "sweeping")
    /\ UNCHANGED <<skill, told, rows, llmVars, degraded, validator, streamVars, expired>>

\* Mutant of PhaseRaises: the counters are not withheld.
PhaseRaises_KeepsCounters ==
    /\ pc = "calling" \/ (pc = "sweeping" /\ sweep.batch = 0)
    /\ sweep' = [sweep EXCEPT !.found = <<>>, !.error = FALSE]
    /\ degraded' = TRUE
    /\ Goto("settling")
    /\ UNCHANGED <<skill, told, rows, tally, call, asked, late, validator, streamVars, expired>>

\* An exception out of the phase (its set-up: SDK, broker provider, settings):
\* what the sweep had found so far is gone, and the counters are withheld.
PhaseRaises ==
    /\ pc = "calling" \/ (pc = "sweeping" /\ sweep.batch = 0)
    /\ sweep' = [sweep EXCEPT !.found = <<>>, !.error = FALSE]
    /\ tally' = [tally EXCEPT !.available = FALSE]
    /\ degraded' = TRUE
    /\ Goto("settling")
    /\ UNCHANGED <<skill, told, rows, call, asked, late, validator, streamVars, expired>>

\* Mutant of Settle: any batch's error degrades the run.
Settle_AnyError ==
    /\ pc = "settling"
    /\ LET base == {KeyOf[r] : r \in Range(rows)}
           new == Only(sweep.found, LlmKeys \ base)
       IN  /\ sweep' = [sweep EXCEPT !.found = new]
           /\ tally' = [tally EXCEPT !.collapsed = @ + Len(sweep.found) - Len(new)]
           /\ degraded' = (degraded \/ sweep.error)
           /\ Emits([i \in DOMAIN new |-> Finding(LlmId(i - 1))])
    /\ Goto("combining")
    /\ UNCHANGED <<skill, told, rows, call, asked, late, validator, read, client, cancelled, expired>>

\* The sweep's error counts only when it found nothing; then the final dedup
\* and the rows of the LLM's slot.
Settle ==
    /\ pc = "settling"
    /\ LET base == {KeyOf[r] : r \in Range(rows)}
           new == Only(sweep.found, LlmKeys \ base)
       IN  /\ sweep' = [sweep EXCEPT !.found = new]
           /\ tally' = [tally EXCEPT !.collapsed = @ + Len(sweep.found) - Len(new)]
           /\ degraded' = (degraded \/ (sweep.error /\ sweep.found = <<>>))
           /\ Emits([i \in DOMAIN new |-> Finding(LlmId(i - 1))])
    /\ Goto("combining")
    /\ UNCHANGED <<skill, told, rows, call, asked, late, validator, read, client, cancelled, expired>>

-----------------------------------------------------------------------------
(***************************************************************************)
(* The validate stage: a thread, a queue of updates and its sentinel.      *)
(***************************************************************************)
Validate ==
    /\ pc = "combining"
    /\ validator' = [NoValidator EXCEPT !.up = TRUE, !.judging = ~Stopped]
    /\ Goto("draining")
    /\ UNCHANGED <<skill, told, rows, llmVars, degraded, streamVars, expired>>

JudgeUpdates ==
    /\ validator.up /\ validator.judging /\ validator.sent < JudgeBatches
    /\ validator' = [validator EXCEPT !.sent = @ + 1, !.updates = @ + 1]
    /\ UNCHANGED <<pc, skill, told, rows, llmVars, degraded, streamVars, expired>>

\* validate returns or raises; the finally puts the sentinel.
ValidatorEnds ==
    /\ validator.up
    /\ \E raised \in BOOLEAN : validator' = [validator EXCEPT !.up = FALSE, !.failed = raised]
    /\ UNCHANGED <<pc, skill, told, rows, llmVars, degraded, streamVars, expired>>

Drain ==
    /\ pc = "draining" /\ validator.updates > 0
    /\ validator' = [validator EXCEPT !.updates = @ - 1]
    /\ Emits(<<Update>>)
    /\ UNCHANGED <<pc, skill, told, rows, llmVars, degraded, read, client, cancelled, expired>>

\* The sentinel, then the join: a failed stage leaves the findings as they were.
\* Left out: the rollup parents a stage may make, which are streamed here and
\* appended to the result under ids of their own (audit_runner.py:3640-3642).
Drained ==
    /\ pc = "draining" /\ ~validator.up /\ validator.updates = 0
    /\ Goto("finishing")
    /\ UNCHANGED <<skill, told, rows, llmVars, degraded, validator, streamVars, expired>>

-----------------------------------------------------------------------------
(***************************************************************************)
(* The end.                                                                *)
(***************************************************************************)
ResultIds == [i \in DOMAIN rows |-> SkillId(rows[i])] \o [i \in DOMAIN sweep.found |-> LlmId(i - 1)]

Result == [kind |-> "result", ids |-> ResultIds, degraded |-> degraded,
           tally |-> tally, llm |-> Len(sweep.found)]

Finish ==
    /\ pc = "finishing"
    /\ Emits(<<Result, Finished>>)
    /\ Goto("returning")
    /\ UNCHANGED <<skill, told, rows, llmVars, degraded, validator, read, client, cancelled, expired>>

\* Mutant of Raise: the exception is swallowed.
Raise_Swallowed ==
    /\ pc \in {"skills", "collapsing", "combining", "finishing"}
    /\ pc = "skills" => told = {} /\ \A s \in Ordinals : skill[s] = "queued"
    /\ Goto("returning")
    /\ UNCHANGED <<skill, told, rows, llmVars, degraded, validator, streamVars, expired>>

\* Code that no handler guards raises: reading the tree, the collapse's
\* caller, the summary.  _produce hands the exception to the response.
Raise ==
    /\ pc \in {"skills", "collapsing", "combining", "finishing"}
    /\ pc = "skills" => told = {} /\ \A s \in Ordinals : skill[s] = "queued"
    /\ Emits(<<Error>>)
    /\ Goto("returning")
    /\ UNCHANGED <<skill, told, rows, llmVars, degraded, validator, read, client, cancelled, expired>>

\* _produce's finally.
Produced ==
    /\ pc = "returning"
    /\ Emits(<<Done>>)
    /\ Goto("ended")
    /\ UNCHANGED <<skill, told, rows, llmVars, degraded, validator, read, client, cancelled, expired>>

Over == pc = "ended" /\ client # "reading" /\ UNCHANGED vars

SkillThreads == \E s \in Ordinals : SkillStarts(s) \/ SkillEnds(s)

Generator ==
    \/ Begin \/ (\E s \in Ordinals : Report(s)) \/ LeaveSkills \/ CloseSkills \/ Collapse
    \/ Preflight \/ EnterLlm \/ NextBatch \/ CallAnswers \/ CallErrs \/ CallRetries \/ CallHalves
    \/ Cap \/ PhaseRaises \/ Settle
    \/ Validate \/ Drain \/ Drained \/ Finish \/ Raise \/ Produced

Next == Generator \/ SkillThreads \/ JudgeUpdates \/ ValidatorEnds \/ Reads \/ Disconnect \/ Expire \/ Over

Spec == Init /\ [][Next]_vars

(***************************************************************************)
(* The generator's thread runs, time passes, the validate stage ends by    *)
(* the ceiling it shares (Judge.tla), and a client that stays reads.  A    *)
(* skill may hang for ever.                                                *)
(***************************************************************************)
Fairness ==
    /\ WF_vars(Generator) /\ WF_vars(Expire) /\ WF_vars(ValidatorEnds) /\ WF_vars(Reads)

LiveSpec == Spec /\ Fairness

-----------------------------------------------------------------------------
(***************************************************************************)
(* Properties.                                                             *)
(***************************************************************************)
Put(kind) == {i \in DOMAIN stream : stream[i].kind = kind}
Streamed == {stream[i].id : i \in Put("finding")}
Results == {stream[i] : i \in Put("result")}
Ids(r) == Range(r.ids)

\* The result holds every row of every skill that reported and every row the
\* sweep kept, each once and under the id it was streamed with; what streamed
\* and is not in it gave way to a more specific row that is; and the LLM
\* ledger balances (run_combined_audit's result, _FindingSlots, _LLMDedupTally).
ResultIsComplete ==
    /\ \A i, j \in Put("finding") : stream[i].id = stream[j].id => i = j
    /\ \A r \in Results :
         /\ IsInjective(r.ids) /\ Ids(r) \subseteq Streamed
         /\ \A id \in Streamed \ Ids(r) :
              \E c \in Covers : SkillId(c[1]) = id /\ SkillId(c[2]) \in Ids(r)
         /\ \A s \in told : skill[s] = "ok" => \A p \in 0..(Rows[s] - 1) :
              SkillId(<<s, p>>) \in Ids(r)
                <=> \A c \in Covers : c[1] = <<s, p>> => SkillId(c[2]) \notin Ids(r)
         /\ r.tally.available => r.tally.emitted = r.tally.collapsed + r.llm

\* A result says it is degraded only when the run wanted an LLM phase and has
\* nothing from it, and always when every batch it asked failed
\* (degraded_reason, feature 0070 P5).
DegradedIsTruthful ==
    \A r \in Results :
        /\ r.degraded => WantsLlm /\ r.llm = 0
        /\ asked # <<>> /\ "answered" \notin Range(asked) => r.degraded

\* The stream is any findings and updates, then a result and its end, or an
\* error; nothing follows Done, and a client is never told a normal end
\* without having been given the result (_produce, _cancellable_stream).
StreamIsWellFormed ==
    /\ \A i \in Put("done") : i = Len(stream) /\ i > 1 /\ stream[i - 1] \in {Finished, Error}
    /\ \A i \in Put("result") : Len(stream) > i /\ stream[i + 1] = Finished
    /\ \A i \in Put("finished") : IsResult(stream[i - 1]) /\ Put("finding") \cup Put("update") \subseteq 1..(i - 2)
    /\ Cardinality(Put("result")) + Cardinality(Put("error")) <= 1
    /\ client = "ended" => \E i \in Put("result") : i <= read
    /\ client = "failed" => Put("error") # {}

\* After the client left or the ceiling passed, the worker ends at most the
\* batch it is in: "stops issuing new LLM calls within one bounded operation"
\* (sse_app.py:144).
AtMostOneLateBatch == late <= 1

\* The worker's thread comes free and a client that stays is told the end,
\* whatever skill hangs and whatever call never answers (feature 0061).
StreamEnds == <>(pc = "ended" /\ client # "reading")

\* audit_runner.py:3431: "a run that WANTED an LLM phase and lost it must not
\* look identical to one that never wanted it."
LostIsDegraded ==
    \A r \in Results : WantsLlm /\ "answered" \notin Range(asked) => r.degraded

=============================================================================
