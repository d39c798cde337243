-------------------------------- MODULE Judge --------------------------------
(***************************************************************************)
(* The L5 judge of the validate stage (agents/shared/shared/validate/      *)
(* llm_judge.py and __init__.py): findings are selected and batched, a     *)
(* pool of worker threads asks a model about each batch, through a bounded *)
(* tool loop first and plainly after it, the stage's thread applies the    *)
(* verdicts as batches come in, and at the end safeguards are applied to   *)
(* the whole layer and every finding is stamped with what became of it.    *)
(*                                                                         *)
(* Verdicts are cached across runs and processes (l5_cache.py) under a     *)
(* signature of the file, which the process computes once.  The findings   *)
(* are of one file, which changes between runs only; a run begins when no  *)
(* worker of the last one is left.                                         *)
(***************************************************************************)
EXTENDS Integers, FiniteSets

CONSTANTS
    Findings,
    Deterministic,  \* findings of the skill and trusted-signature tier
    Policy,         \* findings of a crypto or policy class
    NoWindow,       \* findings with no code window
    Dismissed,      \* findings L1 has dismissed already
    L1Weight,       \* the weight of a finding's L1 and L2 checks, in hundredths
    L1Demoting,     \* how many of them demote
    Rank,           \* the order of priority (_l5_priority, ties in order of the findings)
    TopN, BatchSize, Concurrency,
    ToolCalls,      \* rounds of tool calls before the budget is exhausted
    MinJudged,      \* _RC6_MIN_JUDGED
    Answers,        \* verdicts the model may give
    Runs, MaxVersion

ASSUME FindingsAssumption == IsFiniteSet(Findings)
ASSUME RankAssumption ==
    /\ Rank \in [Findings -> Nat]
    /\ \A f, g \in Findings : Rank[f] = Rank[g] => f = g
ASSUME SizesAssumption ==
    /\ TopN \in Nat \ {0} /\ BatchSize \in Nat \ {0} /\ Concurrency \in Nat \ {0}
    /\ ToolCalls \in Nat /\ MinJudged \in Nat
    /\ Runs \in Nat \ {0} /\ MaxVersion \in Nat \ {0}
ASSUME AnswersAssumption == Answers \subseteq {"cited", "uncited", "demoted", "closed"}

VARIABLES
    step,       \* where the stage's thread is
    batch,      \* the worker of each batch
    rounds,     \* tool rounds of each batch
    verdict,    \* the verdict a batch has for a finding, and the text it is of
    check,      \* the llm_judge check of a finding
    status,     \* validation_status
    verified,   \* provenance llm_l5_verified
    coverage,   \* the coverage check
    active,     \* pool_active
    first,      \* _first_claimed
    cancelled, expired,
    late,       \* history: batches judged although cancelled when they began
    cache,      \* l5_cache
    sig,        \* _FILE_HASH_CACHE: the file's signature, 0 before it is computed
    version,    \* what the file holds
    run

workerVars == <<batch, rounds, verdict, first, late, cache, sig>>
stageVars == <<step, check, status, verified, coverage, active>>
vars == <<stageVars, workerVars, cancelled, expired, version, run>>

Versions == 1..MaxVersion
Verdicts == {"cited", "uncited", "demoted", "closed", "undecided"}
Checks == Verdicts \cup {"none", "error", "advisory"}
Statuses == {"likely_fp", "suspicious", "high_confidence"}
Coverages == {"judged", "no window", "already likely fp", "not selected", "budget exhausted", "judge error"}
Waits == {"tools", "plain", "again"}            \* about to send a request
Asks == {"asking tools", "asking plain", "asking again"}
BatchStates == {"queued", "entering", "answered", "dropped", "applied"} \cup Waits \cup Asks

\* _classify_selection, _batch: the first TopN of the candidates, in batches.
Candidates == Findings \ (NoWindow \cup Dismissed)
Position(f) == Cardinality({g \in Candidates : Rank[g] < Rank[f]})
Selected == {f \in Candidates : Position(f) < TopN}
BatchOf(f) == Position(f) \div BatchSize
Batches == {BatchOf(f) : f \in Selected}
Of(b) == {f \in Selected : BatchOf(f) = b}

Skip(f) == CASE f \in NoWindow -> "no window"
             [] f \in Dismissed -> "already likely fp"
             [] OTHER -> "not selected"

\* voter.py's vote over a finding's L1 and L2 checks and the judge's.
Weight(c) == CASE c \in {"cited", "uncited"} -> 60
               [] c \in {"demoted", "closed"} -> -60
               [] OTHER -> 0
Demotes(c) == c \in {"demoted", "closed"}

Vote(f, c) ==
    LET confidence == 50 + L1Weight[f] + Weight(c)
        demoting == L1Demoting[f] + (IF Demotes(c) THEN 1 ELSE 0)
    IN  CASE confidence < 30 /\ demoting >= 2 -> "likely_fp"
          [] confidence < 55 -> "suspicious"
          [] OTHER -> IF c = "uncited" /\ L1Weight[f] <= 0 THEN "suspicious" ELSE "high_confidence"

\* _retag_l5_verified: an LLM finding the judge left standing by asserting something.
Retagged(f, c) == f \notin Deterministic /\ c \in {"cited", "uncited", "advisory"}

Nothing == [v |-> "none", of |-> 0]
Judgements == [v : Verdicts, of : Versions] \cup {Nothing}

TypeOK ==
    /\ step \in {"judging", "safeguarding", "stamping", "done", "failed"}
    /\ batch \in [Batches -> BatchStates] /\ rounds \in [Batches -> 0..ToolCalls]
    /\ verdict \in [Findings -> Judgements]
    /\ check \in [Findings -> Checks] /\ status \in [Findings -> Statuses]
    /\ verified \in [Findings -> BOOLEAN] /\ coverage \in [Findings -> Coverages \cup {"none"}]
    /\ active \in BOOLEAN /\ first \in BOOLEAN /\ cancelled \in BOOLEAN /\ expired \in BOOLEAN
    /\ late \subseteq Batches
    /\ cache \in [Findings -> [Versions -> Judgements]]
    /\ sig \in Versions \cup {0} /\ version \in Versions /\ run \in 1..Runs

\* The provisional vote is over L1 and L2 alone.
Init ==
    /\ step = "judging" /\ active = TRUE /\ first = FALSE /\ late = {}
    /\ batch = [b \in Batches |-> "queued"] /\ rounds = [b \in Batches |-> 0]
    /\ verdict = [f \in Findings |-> Nothing]
    /\ check = [f \in Findings |-> "none"] /\ coverage = [f \in Findings |-> "none"]
    /\ status = [f \in Findings |-> Vote(f, "none")] /\ verified = [f \in Findings |-> FALSE]
    /\ cancelled = FALSE /\ expired = FALSE
    /\ cache = [f \in Findings |-> [w \in Versions |-> Nothing]]
    /\ sig = 0 /\ version = 1 /\ run = 1

-----------------------------------------------------------------------------
(***************************************************************************)
(* The workers.                                                            *)
(***************************************************************************)
Become(b, s) == batch' = [batch EXCEPT ![b] = s]
Working == {b \in Batches : batch[b] \notin {"queued", "answered", "dropped", "applied"}}

Start(b) ==
    /\ batch[b] = "queued" /\ Cardinality(Working) < Concurrency
    /\ \A c \in Batches : c < b => batch[c] # "queued"
    /\ Become(b, "entering")
    /\ UNCHANGED <<stageVars, rounds, verdict, first, late, cache, sig, cancelled, expired, version, run>>

\* Mutant: only the retired pool stops a batch, as before feature 0061.
Bail_NoToken(b) == ~active

\* _judge_batch: bail when the pool is retired, or when the audit is cancelled
\* and another batch began before; then the cache.
Bail(b) == ~active \/ (cancelled /\ first)

Enter(b) ==
    /\ batch[b] = "entering"
    /\ first' = (first \/ active)
    /\ IF Bail(b)
       THEN Become(b, "answered") /\ UNCHANGED <<verdict, late, sig>>
       ELSE LET s == IF sig = 0 THEN version ELSE sig
                hits == {f \in Of(b) : cache[f][s] # Nothing}
            IN  /\ sig' = s
                /\ verdict' = [f \in Findings |-> IF f \in hits THEN cache[f][s] ELSE verdict[f]]
                /\ Become(b, IF hits = Of(b) THEN "answered" ELSE "tools")
                /\ late' = IF cancelled THEN late \cup {b} ELSE late
    /\ UNCHANGED <<stageVars, rounds, cache, cancelled, expired, version, run>>

\* The checks before a request: the tool loop falls back to plain judging, and
\* plain judging looks at the token only before its second request.
Refused(b) ==
    CASE batch[b] = "tools" -> cancelled \/ ~active
      [] batch[b] = "plain" -> ~active
      [] batch[b] = "again" -> cancelled \/ ~active

Ask(b) ==
    /\ batch[b] \in Waits
    /\ Become(b, CASE Refused(b) -> IF batch[b] = "tools" THEN "plain" ELSE "answered"
                   [] batch[b] = "tools" -> "asking tools"
                   [] batch[b] = "plain" -> "asking plain"
                   [] batch[b] = "again" -> "asking again")
    /\ UNCHANGED <<stageVars, rounds, verdict, first, late, cache, sig, cancelled, expired, version, run>>

Uncached(b) == {f \in Of(b) : verdict[f] = Nothing}

\* An answer that parses has a verdict for some of the findings; each is
\* cached (_store_verdicts).
Parsed(b) ==
    /\ batch[b] \in Asks
    /\ \E answer \in [Uncached(b) -> Answers \cup {"none"}] :
         LET said == {f \in Uncached(b) : answer[f] # "none"}
         IN  /\ verdict' = [f \in Findings |->
                               IF f \in said THEN [v |-> answer[f], of |-> version] ELSE verdict[f]]
             /\ cache' = [f \in Findings |-> [w \in Versions |->
                             IF f \in said /\ w = sig THEN [v |-> answer[f], of |-> version] ELSE cache[f][w]]]
    /\ Become(b, "answered")
    /\ UNCHANGED <<stageVars, rounds, first, late, sig, cancelled, expired, version, run>>

\* No answer that parses: the next fallback.  A transport failure ends the batch.
Unparsed(b) ==
    /\ batch[b] \in Asks
    /\ \E transport \in BOOLEAN :
         Become(b, CASE transport -> "answered"
                     [] batch[b] = "asking tools" -> "plain"
                     [] batch[b] = "asking plain" -> "again"
                     [] OTHER -> "answered")
    /\ UNCHANGED <<stageVars, rounds, verdict, first, late, cache, sig, cancelled, expired, version, run>>

\* The model asks for tools; past the budget the batch is undecided, and not cached.
UsesTools(b) ==
    /\ batch[b] = "asking tools"
    /\ IF rounds[b] < ToolCalls
       THEN /\ rounds' = [rounds EXCEPT ![b] = @ + 1]
            /\ Become(b, "tools")
            /\ UNCHANGED verdict
       ELSE /\ verdict' = [f \in Findings |-> IF f \in Uncached(b) THEN [v |-> "undecided", of |-> version] ELSE verdict[f]]
            /\ Become(b, "answered")
            /\ UNCHANGED rounds
    /\ UNCHANGED <<stageVars, first, late, cache, sig, cancelled, expired, version, run>>

-----------------------------------------------------------------------------
(***************************************************************************)
(* The stage's thread: _run_l5_pool's loop.                                *)
(***************************************************************************)
Applied(f) == IF verdict[f] = Nothing THEN "error" ELSE verdict[f].v

\* A batch is in: its checks, then the re-vote and the update that streams.
Apply(b) ==
    /\ step = "judging" /\ batch[b] = "answered" /\ ~cancelled
    /\ Become(b, "applied")
    /\ check' = [f \in Findings |-> IF f \in Of(b) THEN Applied(f) ELSE check[f]]
    /\ status' = [f \in Findings |-> IF f \in Of(b) THEN Vote(f, Applied(f)) ELSE status[f]]
    /\ verified' = [f \in Findings |-> verified[f] \/ (f \in Of(b) /\ Retagged(f, Applied(f)))]
    /\ UNCHANGED <<step, coverage, active, rounds, verdict, first, late, cache, sig, cancelled, expired, version, run>>

\* Mutant: the loop waits for the batches in flight, deadline or not.
LeavePool_Joins ==
    /\ step = "judging"
    /\ Working = {}
    /\ \A b \in Batches : batch[b] \in {"applied", "dropped"} \/ cancelled
    /\ step' = "safeguarding" /\ active' = FALSE
    /\ UNCHANGED <<check, status, verified, coverage, workerVars, cancelled, expired, version, run>>

\* Out of the loop: everything applied, the deadline, or a cancel seen when a
\* batch came in.  The pool is retired and what is queued dropped, without
\* waiting for anyone.
Left == {b \in Batches : batch[b] # "applied"}
Retire(next) ==
    /\ active' = FALSE
    /\ batch' = [b \in Batches |-> IF batch[b] = "queued" THEN "dropped" ELSE batch[b]]
    /\ step' = next
    /\ UNCHANGED <<check, status, verified, coverage, rounds, verdict, first, late, cache, sig, cancelled, expired, version, run>>

LeavePool ==
    /\ step = "judging"
    /\ \/ Left = {} \/ expired
       \/ cancelled /\ \E b \in Batches : batch[b] = "answered"
    /\ Retire("safeguarding")

\* An exception while a batch is applied or streamed.
PoolRaises ==
    /\ step = "judging" /\ \E b \in Batches : batch[b] = "answered"
    /\ Retire("failed")

\* _exemption_reason, and _is_l5_exempt.
Exempted(f) == f \in Policy \/ (f \in Deterministic /\ check[f] # "closed")
Protected(f) == f \in Policy \cup Deterministic

\* _apply_l5_safeguards over what the layer would really demote, then the
\* re-vote of every judged finding.
Judged == {f \in Findings : check[f] # "none"}
Honoured == {f \in Judged : Demotes(check[f]) /\ ~Exempted(f)}
Unanimous == Honoured = Judged /\ \A f \in Judged : ~Protected(f)
Frozen ==
    /\ Cardinality(Judged) >= MinJudged
    /\ 2 * Cardinality(Honoured) > Cardinality(Judged)
    /\ ~Unanimous

\* Mutant: the exemptions alone, without the cap on the layer.
Safeguarded_NoCap(f) == IF Demotes(check[f]) /\ Exempted(f) THEN "advisory" ELSE check[f]

Safeguarded(f) == IF Demotes(check[f]) /\ (Frozen \/ Exempted(f)) THEN "advisory" ELSE check[f]

\* Mutant: the checks are rewritten and the streamed votes stay.
Safeguard_NoRevote ==
    /\ step = "safeguarding"
    /\ check' = [f \in Findings |-> Safeguarded(f)]
    /\ step' = "stamping"
    /\ UNCHANGED <<status, verified, coverage, active, workerVars, cancelled, expired, version, run>>

Safeguard ==
    /\ step = "safeguarding"
    /\ check' = [f \in Findings |-> Safeguarded(f)]
    /\ status' = [f \in Findings |-> IF f \in Judged THEN Vote(f, Safeguarded(f)) ELSE status[f]]
    /\ verified' = [f \in Findings |-> verified[f] \/ Retagged(f, Safeguarded(f))]
    /\ step' = "stamping"
    /\ UNCHANGED <<coverage, active, workerVars, cancelled, expired, version, run>>

\* Mutant: the stub of a batch without an answer counts as judged.
StampOf_StubIsJudged(f) ==
    IF f \notin Selected THEN Skip(f)
    ELSE IF check[f] = "none" THEN "budget exhausted" ELSE "judged"

\* _stamp_coverage_all.
StampOf(f) ==
    IF f \notin Selected THEN Skip(f)
    ELSE CASE check[f] = "none" -> "budget exhausted"
           [] check[f] = "error" -> "judge error"
           [] OTHER -> "judged"

Stamp ==
    /\ step = "stamping"
    /\ coverage' = [f \in Findings |-> StampOf(f)]
    /\ step' = "done"
    /\ UNCHANGED <<check, status, verified, active, workerVars, cancelled, expired, version, run>>

\* _run_l5_phase's handler: whatever run_l5 had not stamped is the judge's error.
Failed ==
    /\ step = "failed"
    /\ coverage' = [f \in Findings |-> "judge error"]
    /\ step' = "done"
    /\ UNCHANGED <<check, status, verified, active, workerVars, cancelled, expired, version, run>>

-----------------------------------------------------------------------------
Cancel ==
    /\ ~cancelled /\ step = "judging"
    /\ cancelled' = TRUE
    /\ UNCHANGED <<stageVars, workerVars, expired, version, run>>

Expire ==
    /\ ~expired /\ step = "judging"
    /\ expired' = TRUE
    /\ UNCHANGED <<stageVars, workerVars, cancelled, version, run>>

\* The next audit of the tree, whose file may have changed, by the same
\* process or by a new one.
NextRun ==
    /\ step = "done" /\ Working = {} /\ run < Runs
    /\ run' = run + 1
    /\ version' \in version..MaxVersion
    /\ sig' \in {sig, 0}
    /\ step' = "judging" /\ active' = TRUE /\ first' = FALSE /\ late' = {}
    /\ batch' = [b \in Batches |-> "queued"] /\ rounds' = [b \in Batches |-> 0]
    /\ verdict' = [f \in Findings |-> Nothing]
    /\ check' = [f \in Findings |-> "none"] /\ coverage' = [f \in Findings |-> "none"]
    /\ status' = [f \in Findings |-> Vote(f, "none")] /\ verified' = [f \in Findings |-> FALSE]
    /\ cancelled' = FALSE /\ expired' = FALSE
    /\ UNCHANGED cache

Over == step = "done" /\ Working = {} /\ run = Runs /\ UNCHANGED vars

Worker(b) == Start(b) \/ Enter(b) \/ Ask(b)
Answer(b) == Parsed(b) \/ Unparsed(b) \/ UsesTools(b)
Stage == (\E b \in Batches : Apply(b)) \/ LeavePool \/ PoolRaises \/ Safeguard \/ Stamp \/ Failed

Next ==
    \/ \E b \in Batches : Worker(b) \/ Answer(b)
    \/ Stage \/ Cancel \/ Expire \/ NextRun \/ Over

Spec == Init /\ [][Next]_vars

\* The stage's thread runs and time passes; a call may never be answered.
LiveSpec == Spec /\ WF_vars(Stage) /\ WF_vars(Expire)

-----------------------------------------------------------------------------
(***************************************************************************)
(* Properties.                                                             *)
(***************************************************************************)
\* Every finding leaves the layer with the coverage that is true of it: judged
\* only with a verdict, the judge's error with the stub of one, skipped or out
\* of budget with no check at all; a layer that failed claims nothing
\* (stamp_coverage: "we never checked" must not be presentable as "we checked").
CoverageIsTruthful ==
    step = "done" => \A f \in Findings :
        /\ coverage[f] # "none"
        /\ coverage[f] = "judged" => check[f] \notin {"none", "error"} /\ f \in Selected
        /\ coverage[f] \in {"no window", "already likely fp", "not selected", "budget exhausted"} => check[f] = "none"
        /\ coverage[f] = "budget exhausted" => cancelled \/ expired

\* What the safeguards promise, of the rows the stage hands on: no exempt
\* finding is demoted by the judge, no majority of the judged findings is unless
\* all of them are model findings and go together, statuses and provenance are
\* those of the safeguarded checks, not of the streamed ones.
SafeguardsHold ==
    step \in {"stamping", "done"} /\ coverage # [f \in Findings |-> "judge error"] =>
        LET demoted == {f \in Judged : Demotes(check[f])}
        IN  /\ \A f \in demoted : ~Exempted(f)
            /\ Cardinality(Judged) >= MinJudged /\ 2 * Cardinality(demoted) > Cardinality(Judged)
                 => demoted = Judged /\ \A f \in Judged : ~Protected(f)
            /\ \A f \in Findings : status[f] = Vote(f, check[f])
            /\ \A f \in Findings : verified[f] = Retagged(f, check[f])

\* Once the audit is cancelled at most one batch goes on to be judged, however
\* many workers reach the gate together (_judge_batch, _claim_first).
OneBatchAfterCancel == Cardinality(late) <= 1

\* The stage ends by its deadline, whether or not the model ever answers, and
\* whoever is still asking it (run_l5, feature 0061).
JudgeReturns == step = "judging" ~> step = "done"

\* l5_cache.py: "when the file changes, cache entries for it become unreachable
\* rather than serving stale verdicts".
VerdictIsOfThisText == \A f \in Findings : verdict[f].of \in {0, version}
=============================================================================
