------------------------------ MODULE Judge_proof ------------------------------
(***************************************************************************)
(* What the judge's layer hands on is truthful and safeguarded, and a      *)
(* cancelled audit judges one batch at most, for any findings, batches and *)
(* workers, whatever the model answers.                                    *)
(*                                                                         *)
(* The workers only move batches among the states before "applied"         *)
(* (WorkersKeep), and the stage's thread touches a finding once, when its  *)
(* batch is applied: every finding is in one batch, so a finding without a *)
(* check was never streamed (Settled).                                     *)
(***************************************************************************)
EXTENDS Judge, FiniteSetTheorems, TLAPS

AllFailed == [f \in Findings |-> "judge error"]

\* Exactly the findings of the applied batches have a check.
Settled ==
    /\ \A f \in Selected : batch[BatchOf(f)] = "applied" => check[f] # "none"
    /\ \A f \in Findings : check[f] # "none" => f \in Selected /\ batch[BatchOf(f)] = "applied"

\* Statuses are those of the checks, and nothing is marked verified that is not.
Voted ==
    /\ status = [f \in Findings |-> Vote(f, check[f])]
    /\ \A f \in Findings : verified[f] => Retagged(f, check[f])

\* What SafeguardsHold says, without when it says it.
Demoted == {f \in Judged : Demotes(check[f])}
Safe ==
    /\ \A f \in Demoted : ~Exempted(f)
    /\ Cardinality(Judged) >= MinJudged /\ 2 * Cardinality(Demoted) > Cardinality(Judged)
         => Demoted = Judged /\ \A f \in Judged : ~Protected(f)
    /\ \A f \in Findings : verified[f] = Retagged(f, check[f])

Reached ==
    /\ step = "stamping" => Safe
    /\ step = "done" => (coverage = [f \in Findings |-> StampOf(f)] /\ Safe) \/ coverage = AllFailed
    /\ step \in {"safeguarding", "stamping", "done"} /\ coverage # AllFailed
         => cancelled \/ expired \/ Left = {}
    /\ step # "done" => coverage = [f \in Findings |-> "none"]

OneLate == late = {} \/ (first /\ \E b \in Batches : late = {b})

IInv == TypeOK /\ Settled /\ Voted /\ Reached /\ OneLate

-----------------------------------------------------------------------------
LEMMA Batched ==
    /\ \A f \in Selected : f \in Findings /\ BatchOf(f) \in Batches /\ f \in Of(BatchOf(f))
    /\ \A b \in Batches : \A f \in Of(b) : f \in Selected /\ BatchOf(f) = b
BY DEF Selected, Candidates, Batches, Of

LEMMA Votes == \A f \in Findings, c \in Checks : Vote(f, c) \in Statuses
BY DEF Vote, Statuses

LEMMA Stamps == \A f \in Findings : StampOf(f) \in Coverages
BY DEF StampOf, Skip, Coverages

(***************************************************************************)
(* A step of a worker: no batch becomes applied or stops being it, and     *)
(* nothing the stage's thread owns changes.                                *)
(***************************************************************************)
WorkerOnly ==
    /\ UNCHANGED <<stageVars, cancelled, expired, version, run>>
    /\ batch' \in [Batches -> BatchStates] /\ rounds' \in [Batches -> 0..ToolCalls]
    /\ \A b \in Batches : batch'[b] = "applied" <=> batch[b] = "applied"
    /\ verdict' \in [Findings -> Judgements]
    /\ cache' \in [Findings -> [Versions -> Judgements]]
    /\ sig' \in Versions \cup {0}
    /\ first' \in BOOLEAN /\ late' \subseteq Batches

LEMMA WorkersKeep ==
    ASSUME IInv, WorkerOnly, OneLate'
    PROVE  IInv'
<1>1. TypeOK'
  BY DEF IInv, TypeOK, WorkerOnly, stageVars
<1>2. Settled'
  BY Batched DEF IInv, Settled, WorkerOnly, stageVars
<1>3. Voted'
  BY DEF IInv, Voted, WorkerOnly, stageVars
<1>4. Left' = Left
  BY DEF Left, WorkerOnly
<1>5. Safe' <=> Safe
  BY DEF WorkerOnly, stageVars, Safe, Demoted, Judged, Exempted, Protected
<1>6. [f \in Findings |-> StampOf(f)]' = [f \in Findings |-> StampOf(f)]
  BY DEF WorkerOnly, stageVars, StampOf
<1>7. Reached'
  BY <1>4, <1>5, <1>6 DEF IInv, Reached, WorkerOnly, stageVars
<1>8. QED
  BY <1>1, <1>2, <1>3, <1>7 DEF IInv

\* Batch b goes on to s; both are states of a worker's batch.
LEMMA Goes ==
    ASSUME TypeOK, NEW b \in Batches, NEW s \in BatchStates \ {"applied"}, batch[b] # "applied", Become(b, s)
    PROVE  /\ batch' \in [Batches -> BatchStates]
           /\ \A c \in Batches : batch'[c] = "applied" <=> batch[c] = "applied"
BY DEF TypeOK, Become

LEMMA StartInv ==
    ASSUME IInv, NEW b \in Batches, Start(b)
    PROVE  IInv'
<1>1. WorkerOnly
  BY Goes DEF IInv, TypeOK, Start, WorkerOnly, BatchStates, stageVars
<1>2. OneLate'
  BY DEF IInv, OneLate, Start
<1>3. QED
  BY <1>1, <1>2, WorkersKeep

LEMMA EnterInv ==
    ASSUME IInv, NEW b \in Batches, Enter(b)
    PROVE  IInv'
<1> DEFINE s == IF sig = 0 THEN version ELSE sig
           hits == {f \in Of(b) : cache[f][s] # Nothing}
<1>1. PICK state \in {"answered", "tools"} : Become(b, state)
  BY DEF Enter
<1>2. s \in Versions
  BY DEF IInv, TypeOK
<1>3. batch[b] = "entering" /\ first' = (first \/ active)
  BY DEF Enter
<1>4. /\ verdict' \in [Findings -> Judgements] /\ sig' \in Versions \cup {0}
      /\ late' \subseteq Batches
      /\ late' = late \/ (late' = late \cup {b} /\ ~Bail(b) /\ cancelled)
  <2>1. CASE Bail(b)
    BY <2>1 DEF Enter, IInv, TypeOK
  <2>2. CASE ~Bail(b)
    <3>1. /\ sig' = s
          /\ verdict' = [f \in Findings |-> IF f \in hits THEN cache[f][s] ELSE verdict[f]]
          /\ late' = IF cancelled THEN late \cup {b} ELSE late
      BY <2>2 DEF Enter
    <3>2. \A f \in Findings : cache[f][s] \in Judgements
      BY <1>2 DEF IInv, TypeOK
    <3>3. verdict' \in [Findings -> Judgements]
      BY <3>1, <3>2 DEF IInv, TypeOK
    <3>4. QED
      BY <1>2, <2>2, <3>1, <3>3 DEF IInv, TypeOK
  <2>3. QED
    BY <2>1, <2>2
<1>5. WorkerOnly
  <2>1. UNCHANGED <<stageVars, rounds, cache, cancelled, expired, version, run>>
    BY DEF Enter
  <2>2. /\ batch' \in [Batches -> BatchStates]
        /\ \A c \in Batches : batch'[c] = "applied" <=> batch[c] = "applied"
    <3>1. state \in BatchStates \ {"applied"} /\ batch[b] # "applied"
      BY <1>1, <1>3 DEF BatchStates, Waits
    <3>2. QED
      BY <1>1, <3>1, Goes DEF IInv
  <2>3. first' \in BOOLEAN
    BY <1>3 DEF IInv, TypeOK
  <2>4. QED
    BY <1>4, <2>1, <2>2, <2>3 DEF IInv, TypeOK, WorkerOnly
<1>6. OneLate'
  <2>1. CASE late' = late
    BY <1>3, <2>1 DEF IInv, TypeOK, OneLate
  <2>2. CASE late' = late \cup {b} /\ ~Bail(b) /\ cancelled
    <3>1. active /\ ~first
      BY <2>2 DEF Bail
    <3>2. late = {}
      BY <3>1 DEF IInv, OneLate
    <3>3. QED
      BY <1>3, <2>2, <3>1, <3>2 DEF OneLate
  <2>3. QED
    BY <1>4, <2>1, <2>2
<1>7. QED
  BY <1>5, <1>6, WorkersKeep

LEMMA AskInv ==
    ASSUME IInv, NEW b \in Batches, Ask(b)
    PROVE  IInv'
<1>1. PICK s \in {"plain", "answered"} \cup Asks : Become(b, s)
  BY DEF Ask, Waits, Asks
<1>2. WorkerOnly
  BY <1>1, Goes DEF IInv, TypeOK, Ask, WorkerOnly, BatchStates, Waits, Asks, stageVars
<1>3. OneLate'
  BY DEF IInv, OneLate, Ask
<1>4. QED
  BY <1>2, <1>3, WorkersKeep

LEMMA ParsedInv ==
    ASSUME IInv, NEW b \in Batches, Parsed(b)
    PROVE  IInv'
<1>1. PICK answer \in [Uncached(b) -> Answers \cup {"none"}] :
        LET said == {f \in Uncached(b) : answer[f] # "none"}
        IN  /\ verdict' = [f \in Findings |->
                              IF f \in said THEN [v |-> answer[f], of |-> version] ELSE verdict[f]]
            /\ cache' = [f \in Findings |-> [w \in Versions |->
                            IF f \in said /\ w = sig THEN [v |-> answer[f], of |-> version] ELSE cache[f][w]]]
  BY DEF Parsed
<1> DEFINE said == {f \in Uncached(b) : answer[f] # "none"}
<1>2. \A f \in said : [v |-> answer[f], of |-> version] \in Judgements
  BY <1>1, AnswersAssumption DEF IInv, TypeOK, Judgements, Verdicts
<1>3. /\ verdict' = [f \in Findings |->
                        IF f \in said THEN [v |-> answer[f], of |-> version] ELSE verdict[f]]
      /\ cache' = [f \in Findings |-> [w \in Versions |->
                      IF f \in said /\ w = sig THEN [v |-> answer[f], of |-> version] ELSE cache[f][w]]]
  BY <1>1
<1> HIDE DEF said
<1>4. verdict' \in [Findings -> Judgements] /\ cache' \in [Findings -> [Versions -> Judgements]]
  BY <1>2, <1>3 DEF IInv, TypeOK
<1>5. WorkerOnly
  BY <1>4, Goes DEF IInv, TypeOK, Parsed, WorkerOnly, BatchStates, Asks, stageVars
<1>6. OneLate'
  BY DEF IInv, OneLate, Parsed
<1>7. QED
  BY <1>5, <1>6, WorkersKeep

LEMMA UnparsedInv ==
    ASSUME IInv, NEW b \in Batches, Unparsed(b)
    PROVE  IInv'
<1>1. PICK s \in {"answered", "plain", "again"} : Become(b, s)
  BY DEF Unparsed
<1>2. WorkerOnly
  BY <1>1, Goes DEF IInv, TypeOK, Unparsed, WorkerOnly, BatchStates, Waits, Asks, stageVars
<1>3. OneLate'
  BY DEF IInv, OneLate, Unparsed
<1>4. QED
  BY <1>2, <1>3, WorkersKeep

LEMMA UsesToolsInv ==
    ASSUME IInv, NEW b \in Batches, UsesTools(b)
    PROVE  IInv'
<1>1. PICK s \in {"answered", "tools"} : Become(b, s)
  BY DEF UsesTools
<1>2. verdict' \in [Findings -> Judgements]
  <2>1. [v |-> "undecided", of |-> version] \in Judgements
    BY DEF IInv, TypeOK, Judgements, Verdicts
  <2>2. QED
    BY <2>1 DEF IInv, TypeOK, UsesTools
<1>3. rounds' \in [Batches -> 0..ToolCalls]
  <2>1. rounds \in [Batches -> 0..ToolCalls]
    BY DEF IInv, TypeOK
  <2>2. CASE rounds[b] < ToolCalls
    <3>1. rounds[b] + 1 \in 0..ToolCalls
      BY <2>1, <2>2, SizesAssumption
    <3>2. QED
      BY <2>1, <2>2, <3>1 DEF UsesTools
  <2>3. CASE ~(rounds[b] < ToolCalls)
    BY <2>1, <2>3 DEF UsesTools
  <2>4. QED
    BY <2>2, <2>3
<1>4. WorkerOnly
  BY <1>1, <1>2, <1>3, Goes DEF IInv, TypeOK, UsesTools, WorkerOnly, BatchStates, Waits, stageVars
<1>5. OneLate'
  BY DEF IInv, OneLate, UsesTools
<1>6. QED
  BY <1>4, <1>5, WorkersKeep

-----------------------------------------------------------------------------
(***************************************************************************)
(* The stage's thread.                                                     *)
(***************************************************************************)
LEMMA ApplyInv ==
    ASSUME IInv, NEW b \in Batches, Apply(b)
    PROVE  IInv'
<1>1. TypeOK /\ Settled /\ Voted /\ Reached /\ OneLate
  BY DEF IInv
<1>2. step = "judging" /\ batch[b] = "answered" /\ batch' = [batch EXCEPT ![b] = "applied"]
  BY DEF Apply, Become
<1>3. /\ check' = [f \in Findings |-> IF f \in Of(b) THEN Applied(f) ELSE check[f]]
      /\ status' = [f \in Findings |-> IF f \in Of(b) THEN Vote(f, Applied(f)) ELSE status[f]]
      /\ verified' = [f \in Findings |-> verified[f] \/ (f \in Of(b) /\ Retagged(f, Applied(f)))]
  BY DEF Apply
<1>4. \A f \in Findings : Applied(f) \in Checks /\ Applied(f) # "none"
  BY <1>1 DEF TypeOK, Applied, Judgements, Nothing, Verdicts, Checks
<1>5. \A f \in Of(b) : f \in Findings /\ f \in Selected /\ BatchOf(f) = b /\ check[f] = "none"
  BY <1>1, <1>2, Batched DEF Settled
<1>6. TypeOK'
  <2>1. check' \in [Findings -> Checks]
    BY <1>1, <1>3, <1>4 DEF TypeOK
  <2>2. status' \in [Findings -> Statuses]
    BY <1>1, <1>3, <1>4, Votes DEF TypeOK
  <2>3. verified' \in [Findings -> BOOLEAN]
    BY <1>3
  <2>4. batch' \in [Batches -> BatchStates]
    BY <1>1, <1>2 DEF TypeOK, BatchStates
  <2>5. QED
    BY <1>1, <2>1, <2>2, <2>3, <2>4 DEF TypeOK, Apply
<1>7. Settled'
  <2>1. ASSUME NEW f \in Selected, batch'[BatchOf(f)] = "applied" PROVE check'[f] # "none"
    <3>1. CASE BatchOf(f) = b
      BY <1>3, <1>4, <3>1, Batched
    <3>2. CASE BatchOf(f) # b
      BY <1>1, <1>2, <1>3, <1>4, <2>1, <3>2, Batched DEF TypeOK, Settled
    <3>3. QED
      BY <3>1, <3>2
  <2>2. ASSUME NEW f \in Findings, check'[f] # "none"
        PROVE  f \in Selected /\ batch'[BatchOf(f)] = "applied"
    <3>1. CASE f \in Of(b)
      BY <1>1, <1>2, <1>5, <3>1 DEF TypeOK
    <3>2. CASE f \notin Of(b)
      BY <1>1, <1>2, <1>3, <2>2, <3>2, Batched DEF TypeOK, Settled
    <3>3. QED
      BY <3>1, <3>2
  <2>3. QED
    BY <2>1, <2>2 DEF Settled
<1>8. Voted'
  <2>1. status' = [f \in Findings |-> Vote(f, check'[f])]
    BY <1>1, <1>3 DEF Voted
  <2>2. ASSUME NEW f \in Findings, verified'[f] PROVE Retagged(f, check'[f])
    <3>1. CASE f \in Of(b)
      <4>1. ~verified[f]
        BY <1>1, <1>5, <3>1 DEF Voted, Retagged
      <4>2. QED
        BY <1>3, <2>2, <3>1, <4>1
    <3>2. CASE f \notin Of(b)
      BY <1>1, <1>3, <2>2, <3>2 DEF Voted
    <3>3. QED
      BY <3>1, <3>2
  <2>3. QED
    BY <2>1, <2>2 DEF Voted
<1>9. Reached' /\ OneLate'
  BY <1>1, <1>2 DEF Apply, Reached, OneLate
<1>10. QED
  BY <1>6, <1>7, <1>8, <1>9 DEF IInv

LEMMA RetireInv ==
    ASSUME IInv, NEW next \in {"safeguarding", "failed"}, step = "judging", Retire(next),
           next = "safeguarding" => cancelled \/ expired \/ Left = {}
    PROVE  IInv'
<1>1. TypeOK /\ Settled /\ Voted /\ Reached /\ OneLate
  BY DEF IInv
<1>2. batch' = [b \in Batches |-> IF batch[b] = "queued" THEN "dropped" ELSE batch[b]] /\ step' = next
  BY DEF Retire
<1>3. \A b \in Batches : batch'[b] = "applied" <=> batch[b] = "applied"
  BY <1>2
<1>4. TypeOK'
  <2>1. batch' \in [Batches -> BatchStates]
    BY <1>1, <1>2 DEF TypeOK, BatchStates
  <2>2. QED
    BY <1>1, <1>2, <2>1 DEF TypeOK, Retire
<1>5. Settled'
  BY <1>1, <1>3, Batched DEF Settled, Retire
<1>6. Voted' /\ OneLate'
  BY <1>1 DEF Voted, OneLate, Retire
<1>7. Left' = Left
  BY <1>3 DEF Left
<1>8. Reached'
  BY <1>1, <1>2, <1>7 DEF Reached, Retire
<1>9. QED
  BY <1>4, <1>5, <1>6, <1>8 DEF IInv

LEMMA LeavePoolInv == ASSUME IInv, LeavePool PROVE IInv'
BY RetireInv DEF LeavePool

LEMMA PoolRaisesInv == ASSUME IInv, PoolRaises PROVE IInv'
BY RetireInv DEF PoolRaises

(***************************************************************************)
(* The safeguards: frozen, no demotion is left; otherwise those honoured   *)
(* are, which are no majority unless they are unanimous.                   *)
(***************************************************************************)
LEMMA SafeguardSafe ==
    ASSUME IInv, Safeguard
    PROVE  Safe'
<1>1. TypeOK /\ Voted
  BY DEF IInv
<1>2. /\ check' = [f \in Findings |-> Safeguarded(f)]
      /\ verified' = [f \in Findings |-> verified[f] \/ Retagged(f, Safeguarded(f))]
  BY DEF Safeguard
<1>3. Judged' = Judged
  BY <1>2 DEF Judged, Safeguarded, Demotes
<1>4. \A f \in Findings : Demotes(check'[f]) => check'[f] = check[f] /\ ~Frozen /\ ~Exempted(f)
  BY <1>2 DEF Safeguarded, Demotes
<1>5. Demoted' \subseteq Honoured /\ (Demoted' # {} => ~Frozen)
  BY <1>3, <1>4 DEF Demoted, Honoured, Judged
<1>6. ~Frozen => Demoted' = Honoured
  <2>1. \A f \in Findings : ~Frozen /\ Demotes(check[f]) /\ ~Exempted(f) => Demotes(check'[f])
    BY <1>2 DEF Safeguarded
  <2>2. ~Frozen => Honoured \subseteq Demoted'
    BY <1>3, <2>1 DEF Demoted, Honoured, Judged
  <2>3. QED
    BY <1>5, <2>2
<1>7. \A f \in Demoted' : ~Exempted(f)'
  BY <1>4 DEF Demoted, Judged, Exempted
<1>8. IsFiniteSet(Judged) /\ Cardinality(Judged) \in Nat
  BY FindingsAssumption, FS_Subset, FS_CardinalityType DEF Judged
<1>9. ASSUME Cardinality(Judged') >= MinJudged, 2 * Cardinality(Demoted') > Cardinality(Judged')
      PROVE  Demoted' = Judged' /\ \A f \in Judged' : ~Protected(f)
  <2>1. Demoted' # {}
    BY <1>3, <1>8, <1>9, FS_EmptySet
  <2>2. ~Frozen /\ Demoted' = Honoured
    BY <1>5, <1>6, <2>1
  <2>3. Unanimous
    BY <1>3, <1>9, <2>2 DEF Frozen
  <2>4. QED
    BY <1>3, <2>2, <2>3 DEF Unanimous
<1>10. \A f \in Findings : verified'[f] = Retagged(f, check'[f])
  <2>1. \A f \in Findings : Retagged(f, check[f]) => Retagged(f, Safeguarded(f))
    BY DEF Retagged, Safeguarded, Demotes
  <2>2. \A f \in Findings : verified[f] => Retagged(f, Safeguarded(f))
    BY <1>1, <2>1 DEF Voted
  <2>3. ASSUME NEW f \in Findings PROVE verified'[f] = Retagged(f, check'[f])
    <3>1. verified'[f] = (verified[f] \/ Retagged(f, Safeguarded(f))) /\ check'[f] = Safeguarded(f)
      BY <1>2, Zenon
    <3>2. Retagged(f, Safeguarded(f)) \in BOOLEAN
      BY DEF Retagged
    <3>3. QED
      BY <1>1, <2>2, <3>1, <3>2 DEF TypeOK
  <2>4. QED
    BY <2>3
<1>11. QED
  BY <1>7, <1>9, <1>10 DEF Safe, Protected

LEMMA SafeguardInv ==
    ASSUME IInv, Safeguard
    PROVE  IInv'
<1>1. TypeOK /\ Settled /\ Voted /\ Reached /\ OneLate
  BY DEF IInv
<1>2. /\ step = "safeguarding" /\ step' = "stamping"
      /\ check' = [f \in Findings |-> Safeguarded(f)]
      /\ status' = [f \in Findings |-> IF f \in Judged THEN Vote(f, Safeguarded(f)) ELSE status[f]]
  BY DEF Safeguard
<1>3. Safe'
  BY SafeguardSafe
<1>4. \A f \in Findings : Safeguarded(f) \in Checks /\ (Safeguarded(f) = "none" <=> check[f] = "none")
  BY <1>1 DEF TypeOK, Safeguarded, Demotes, Checks
<1>5. TypeOK'
  <2>1. check' \in [Findings -> Checks]
    BY <1>2, <1>4
  <2>2. status' \in [Findings -> Statuses]
    BY <1>1, <1>2, <1>4, Votes DEF TypeOK
  <2>3. verified' \in [Findings -> BOOLEAN]
    BY DEF Safeguard
  <2>4. QED
    BY <1>1, <1>2, <2>1, <2>2, <2>3 DEF TypeOK, Safeguard, workerVars
<1>6. Settled'
  BY <1>1, <1>2, <1>4, Batched DEF Settled, Selected, Safeguard, workerVars
<1>7. Voted'
  <2>1. ASSUME NEW f \in Findings PROVE status'[f] = Vote(f, check'[f])
    <3>1. CASE f \in Judged
      BY <1>2, <3>1
    <3>2. CASE f \notin Judged
      <4>1. check[f] = "none" /\ Safeguarded(f) = "none"
        BY <1>4, <3>2 DEF Judged
      <4>2. QED
        BY <1>1, <1>2, <3>2, <4>1 DEF Voted
    <3>3. QED
      BY <3>1, <3>2
  <2>2. status' = [f \in Findings |-> Vote(f, check'[f])]
    BY <1>2, <2>1
  <2>3. QED
    BY <1>3, <2>2 DEF Voted, Safe
<1>8. Left' = Left
  BY DEF Left, Safeguard, workerVars
<1>9. Reached' /\ OneLate'
  BY <1>1, <1>2, <1>3, <1>8 DEF Reached, OneLate, Safeguard, workerVars
<1>10. QED
  BY <1>5, <1>6, <1>7, <1>9 DEF IInv

\* The layer ends: stamped, or failed.
LEMMA EndsInv ==
    ASSUME IInv, Stamp \/ Failed
    PROVE  IInv'
<1>1. TypeOK /\ Settled /\ Voted /\ Reached /\ OneLate
  BY DEF IInv
<1>2. /\ step' = "done" /\ UNCHANGED <<check, status, verified, active, workerVars, cancelled, expired, version, run>>
      /\ \/ step = "stamping" /\ coverage' = [f \in Findings |-> StampOf(f)]
         \/ coverage' = AllFailed
  BY DEF Stamp, Failed, AllFailed
<1>3. TypeOK'
  <2>1. coverage' \in [Findings -> Coverages \cup {"none"}]
    BY <1>2, Stamps DEF AllFailed, Coverages
  <2>2. QED
    BY <1>1, <1>2, <2>1 DEF TypeOK, workerVars
<1>4. Settled' /\ Voted' /\ OneLate'
  BY <1>1, <1>2 DEF Settled, Voted, OneLate, workerVars
<1>5. (Safe' <=> Safe) /\ Left' = Left /\ [f \in Findings |-> StampOf(f)]' = [f \in Findings |-> StampOf(f)]
  BY <1>2 DEF Safe, Demoted, Judged, Exempted, Protected, Left, StampOf, workerVars
<1>6. Findings # {} => [f \in Findings |-> "none"] # AllFailed
  <2>1. ASSUME NEW f \in Findings PROVE [g \in Findings |-> "none"] # AllFailed
    <3>1. [g \in Findings |-> "none"][f] # AllFailed[f]
      BY DEF AllFailed
    <3>2. QED
      BY <3>1
  <2>2. QED
    BY <2>1
<1>7. Findings = {} => coverage' = AllFailed
  BY <1>2 DEF AllFailed
<1>8. Reached'
  BY <1>1, <1>2, <1>5, <1>6, <1>7 DEF Reached
<1>9. QED
  BY <1>3, <1>4, <1>8 DEF IInv

-----------------------------------------------------------------------------
LEMMA StopsInv ==
    ASSUME IInv, Cancel \/ Expire
    PROVE  IInv'
<1>1. step = "judging" /\ UNCHANGED <<stageVars, workerVars, version, run>>
  BY DEF Cancel, Expire
<1>2. TypeOK'
  BY <1>1 DEF IInv, TypeOK, Cancel, Expire, stageVars, workerVars
<1>3. QED
  BY <1>1, <1>2 DEF IInv, Settled, Voted, Reached, OneLate, stageVars, workerVars

LEMMA NextRunInv ==
    ASSUME IInv, NextRun
    PROVE  IInv'
<1>1. /\ step' = "judging" /\ check' = [f \in Findings |-> "none"] /\ late' = {}
      /\ batch' = [b \in Batches |-> "queued"] /\ coverage' = [f \in Findings |-> "none"]
      /\ status' = [f \in Findings |-> Vote(f, "none")] /\ verified' = [f \in Findings |-> FALSE]
  BY DEF NextRun
<1>2. TypeOK'
  <2>1. status' \in [Findings -> Statuses]
    BY <1>1, Votes DEF Checks
  <2>2. sig' \in Versions \cup {0} /\ version' \in Versions /\ run' \in 1..Runs
    BY SizesAssumption DEF IInv, TypeOK, NextRun, Versions
  <2>3. batch' \in [Batches -> BatchStates] /\ rounds' \in [Batches -> 0..ToolCalls]
    BY SizesAssumption DEF NextRun, BatchStates
  <2>4. verdict' \in [Findings -> Judgements]
    BY DEF NextRun, Judgements
  <2>5. QED
    BY <1>1, <2>1, <2>2, <2>3, <2>4 DEF IInv, TypeOK, NextRun, Checks
<1>3. Settled'
  BY <1>1, Batched DEF Settled, Selected
<1>4. Voted'
  BY <1>1 DEF Voted
<1>5. Reached' /\ OneLate'
  BY <1>1 DEF Reached, OneLate
<1>6. QED
  BY <1>2, <1>3, <1>4, <1>5 DEF IInv

LEMMA InitInv == Init => IInv
<1> SUFFICES ASSUME Init PROVE IInv
  OBVIOUS
<1>1. TypeOK
  <2>1. status \in [Findings -> Statuses]
    BY Votes DEF Init, Checks
  <2>2. sig \in Versions \cup {0} /\ version \in Versions /\ run \in 1..Runs
    BY SizesAssumption DEF Init, Versions
  <2>3. batch \in [Batches -> BatchStates] /\ rounds \in [Batches -> 0..ToolCalls]
    BY SizesAssumption DEF Init, BatchStates
  <2>4. verdict \in [Findings -> Judgements] /\ cache \in [Findings -> [Versions -> Judgements]]
    BY DEF Init, Judgements
  <2>5. QED
    BY <2>1, <2>2, <2>3, <2>4 DEF Init, TypeOK, Checks
<1>2. Settled
  BY Batched DEF Init, Settled, Selected
<1>3. Voted /\ Reached /\ OneLate
  BY DEF Init, Voted, Reached, OneLate
<1>4. QED
  BY <1>1, <1>2, <1>3 DEF IInv

LEMMA StepInv == IInv /\ [Next]_vars => IInv'
<1> SUFFICES ASSUME IInv, [Next]_vars PROVE IInv'
  OBVIOUS
<1>1. ASSUME NEW b \in Batches, Worker(b) \/ Answer(b) PROVE IInv'
  BY <1>1, StartInv, EnterInv, AskInv, ParsedInv, UnparsedInv, UsesToolsInv DEF Worker, Answer
<1>2. CASE Stage
  BY <1>2, ApplyInv, LeavePoolInv, PoolRaisesInv, SafeguardInv, EndsInv DEF Stage
<1>3. CASE Cancel \/ Expire \/ NextRun
  BY <1>3, StopsInv, NextRunInv
<1>4. CASE UNCHANGED vars
  <2>1. TypeOK'
    BY <1>4 DEF IInv, TypeOK, vars, stageVars, workerVars
  <2>2. WorkerOnly /\ OneLate'
    BY <1>4 DEF IInv, TypeOK, OneLate, WorkerOnly, vars, stageVars, workerVars
  <2>3. QED
    BY <2>2, WorkersKeep
<1>5. QED
  BY <1>1, <1>2, <1>3, <1>4 DEF Next, Over

LEMMA Invariant == Spec => []IInv
BY InitInv, StepInv, PTL DEF Spec

\* The state keeps its type; in particular every vote is a status and every
\* stamp a coverage.
THEOREM TypeCorrect == Spec => []TypeOK
<1>1. IInv => TypeOK
  BY DEF IInv
<1>2. QED
  BY <1>1, Invariant, PTL

\* Whatever cuts the layer short, no finding leaves it with a coverage that is
\* not true of it (stamp_coverage, _stamp_coverage_all).
THEOREM CoverageAlwaysTruthful == Spec => []CoverageIsTruthful
<1>1. IInv => CoverageIsTruthful
  <2> SUFFICES ASSUME IInv, step = "done", NEW f \in Findings
               PROVE  /\ coverage[f] # "none"
                      /\ coverage[f] = "judged" => check[f] \notin {"none", "error"} /\ f \in Selected
                      /\ coverage[f] \in {"no window", "already likely fp", "not selected", "budget exhausted"}
                           => check[f] = "none"
                      /\ coverage[f] = "budget exhausted" => cancelled \/ expired
    BY DEF CoverageIsTruthful
  <2>1. CASE coverage = AllFailed
    BY <2>1 DEF AllFailed
  <2>2. CASE coverage # AllFailed
    <3>1. coverage[f] = StampOf(f) /\ (cancelled \/ expired \/ Left = {})
      BY <2>2 DEF IInv, Reached
    <3>2. CASE f \notin Selected
      <4>1. coverage[f] \in {"no window", "already likely fp", "not selected"}
        BY <3>1, <3>2 DEF StampOf, Skip
      <4>2. QED
        BY <3>2, <4>1 DEF IInv, Settled
    <3>3. CASE f \in Selected /\ check[f] = "none"
      <4>1. coverage[f] = "budget exhausted"
        BY <3>1, <3>3 DEF StampOf
      <4>2. Left # {}
        BY <3>3, Batched DEF IInv, Settled, Left
      <4>3. QED
        BY <3>1, <3>3, <4>1, <4>2
    <3>4. CASE f \in Selected /\ check[f] # "none"
      <4>1. coverage[f] = IF check[f] = "error" THEN "judge error" ELSE "judged"
        BY <3>1, <3>4 DEF StampOf
      <4>2. QED
        BY <3>4, <4>1
    <3>5. QED
      BY <3>2, <3>3, <3>4
  <2>3. QED
    BY <2>1, <2>2
<1>2. QED
  BY <1>1, Invariant, PTL

\* The rows the stage hands on are those of the safeguarded checks: no exempt
\* finding demoted, no majority unless unanimous and of model findings
\* (_apply_l5_safeguards, _revote_l5_judged).
THEOREM SafeguardsAlwaysHold == Spec => []SafeguardsHold
<1>1. IInv => SafeguardsHold
  BY DEF IInv, Voted, Reached, Safe, Demoted, AllFailed, SafeguardsHold
<1>2. QED
  BY <1>1, Invariant, PTL

\* A cancelled audit judges at most one batch that had not begun
\* (_judge_batch, _claim_first).
THEOREM OneBatchAfterAnyCancel == Spec => []OneBatchAfterCancel
<1>1. IInv => OneBatchAfterCancel
  <2>1. Cardinality({}) = 0 /\ \A b \in Batches : Cardinality({b}) = 1
    BY FS_EmptySet, FS_Singleton
  <2>2. IInv => late = {} \/ \E b \in Batches : late = {b}
    BY DEF IInv, OneLate
  <2>3. QED
    BY <2>1, <2>2 DEF OneBatchAfterCancel
<1>2. QED
  BY <1>1, Invariant, PTL
=============================================================================
