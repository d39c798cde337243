------------------------------- MODULE Pipeline -------------------------------
(***************************************************************************)
(* One multi-stage pipeline (service/pipeline_service.go): its row, the    *)
(* POST that creates it, the audits its stages run as, and everyone who    *)
(* reports an audit's verdict to AdvanceStage -- the audit's own run, the  *)
(* orphan notice of a stream request, a run's panic handler.               *)
(*                                                                         *)
(* AdvanceStage reads the row, decides, creates the next audit, rewrites   *)
(* the whole row and dispatches the run, in separate store calls with no   *)
(* transaction or version check; each call is one step here.  How one      *)
(* audit runs and who may report it is the RunLifecycle module's.          *)
(***************************************************************************)
EXTENDS Naturals, Sequences, FiniteSets

CONSTANTS
    Post,          \* the POST /api/pipelines request
    Audits,        \* audits, in the order they are created: 1..n
    Viewers,       \* stream requests for an audit no live run answers for
    MaxFaults,     \* bound: failed store calls and recovered panics
    MaxCrashes     \* bound: process restarts

ASSUME AuditsAssumption == Audits \subseteq Nat \ {0}
ASSUME ActorsAssumption ==
    Audits \cap Viewers = {} /\ Post \notin Audits \cup Viewers
ASSUME BoundsAssumption == MaxFaults \in Nat /\ MaxCrashes \in Nat

VARIABLES
    request,   \* what the POST asks for: known stages, and whether it has a source
    pl,        \* the pipeline's row
    stageOf,   \* the stage each audit was created for
    actor,     \* where each audit's run, each viewer and the POST is
    launched,  \* audits whose run RunPipelineStage started
    reported,  \* verdicts AdvanceStage was called with
    faults, crashes

plVars == <<request, pl, stageOf, actor, launched, reported, faults, crashes>>

Stages == {"scan", "discover", "prove"}
Order == <<"scan", "discover", "prove">>
NoStage == "none"
NoAudit == 0

Running(s) == [scan |-> "scan_running", discover |-> "discover_running",
               prove |-> "prove_running"][s]

Terminal == {"completed", "failed"}
Status == {"absent", "pending"} \cup {Running(s) : s \in Stages} \cup Terminal
StageLists == UNION {[1..n -> Stages] : n \in 0..3}
Row == [status : Status, stages : StageLists, auditOf : [Stages -> Audits \cup {NoAudit}]]
NoRow == [status |-> "absent", stages |-> <<>>, auditOf |-> [s \in Stages |-> NoAudit]]

(***************************************************************************)
(* The actors.  "lookup", "create", "update" and "launch" are the calls of *)
(* AdvanceStage and createAndLaunchStage; an audit is "created" before its *)
(* run starts and "ended" once AdvanceStage has returned.  `copy` is the   *)
(* row as the actor holds it, `about` and `verdict` what it reports,       *)
(* `next` the stage to create and `made` the audit it created.             *)
(***************************************************************************)
Advancing == {"lookup", "create", "update", "launch"}
PCs == Advancing \cup {"idle", "unborn", "created", "running", "ended", "dead"}
Actors == Audits \cup Viewers \cup {Post}
Actor == [pc : PCs, copy : Row, about : Audits \cup {NoAudit},
          verdict : Terminal \cup {"none"}, next : Stages \cup {NoStage},
          made : Audits \cup {NoAudit}]

Resting(pc) == [pc |-> pc, copy |-> NoRow, about |-> NoAudit, verdict |-> "none",
                next |-> NoStage, made |-> NoAudit]

Request == [stages : SUBSET Stages, source : BOOLEAN]

PipelineTypeOK ==
    /\ request \in Request
    /\ pl \in Row
    /\ stageOf \in [Audits -> Stages \cup {NoStage}]
    /\ actor \in [Actors -> Actor]
    /\ launched \subseteq Audits
    /\ reported \subseteq Audits \X Terminal
    /\ faults \in 0..MaxFaults
    /\ crashes \in 0..MaxCrashes

-----------------------------------------------------------------------------
(***************************************************************************)
(* expandStages.                                                           *)
(***************************************************************************)
Prereqs(hasSource) ==
    [scan |-> <<>>, discover |-> IF hasSource THEN <<"scan">> ELSE <<>>,
     prove |-> <<"scan", "discover">>]

Seen(result, s) == \E i \in DOMAIN result : result[i] = s

\* Mutant of Add: seen is never consulted.
Add_Again(result, s) == Append(result, s)

\* Append the stage unless it was seen.
Add(result, s) == IF Seen(result, s) THEN result ELSE Append(result, s)

\* Mutant of AddWithPrereqs: the stage goes in before its prerequisites.
AddWithPrereqs_StageFirst(result, s, hasSource) ==
    LET p == Prereqs(hasSource)[s]
        first == Add(result, s)
    IN  CASE Len(p) = 0 -> first
          [] Len(p) = 1 -> Add(first, p[1])
          [] Len(p) = 2 -> Add(Add(first, p[1]), p[2])

\* addWithPrereqs: prerequisites first, in their order, then the stage.  The code
\* recurses, but what discover needs, prove has put in just before it.
AddWithPrereqs(result, s, hasSource) ==
    LET p == Prereqs(hasSource)[s]
        before == CASE Len(p) = 0 -> result
                    [] Len(p) = 1 -> Add(result, p[1])
                    [] Len(p) = 2 -> Add(Add(result, p[1]), p[2])
    IN  Add(before, s)

Visit(result, s, req) ==
    IF s \in req.stages THEN AddWithPrereqs(result, s, req.source) ELSE result

expandStages(req) ==
    Visit(Visit(Visit(<<>>, Order[1], req), Order[2], req), Order[3], req)

\* Mutant of nextStage: the index is one too far on.
nextStage_SkipsOne(stages, s) ==
    LET i == CHOOSE i \in DOMAIN stages : stages[i] = s
    IN  IF i + 2 \in DOMAIN stages THEN stages[i + 2] ELSE NoStage

\* nextStage: NoStage is the code's "".
nextStage(stages, s) ==
    LET i == CHOOSE i \in DOMAIN stages : stages[i] = s
    IN  IF i + 1 \in DOMAIN stages THEN stages[i + 1] ELSE NoStage

-----------------------------------------------------------------------------
PipelineInit ==
    /\ request \in Request
    /\ pl = NoRow
    /\ stageOf = [a \in Audits |-> NoStage]
    /\ actor = [x \in Actors |-> Resting(IF x \in Audits THEN "unborn" ELSE "idle")]
    /\ launched = {} /\ reported = {}
    /\ faults = 0 /\ crashes = 0

At(x, pc) == actor[x].pc = pc
Becomes(x, record) == actor' = [actor EXCEPT ![x] = record]
Done(x) == Becomes(x, Resting("ended"))

\* A store call fails, or a goroutine panics: allowed while the bound lasts.
Fault == faults < MaxFaults /\ faults' = faults + 1
NoFault == UNCHANGED faults

(***************************************************************************)
(* CreatePipeline and launchFirstStage.  The handler refuses an empty      *)
(* stage list; one of unknown names only expands to no stage at all, and   *)
(* that pipeline is stored and stays pending.                              *)
(***************************************************************************)
CreatePipeline ==
    /\ At(Post, "idle")
    /\ LET row == [NoRow EXCEPT !.status = "pending", !.stages = expandStages(request)]
       IN  \/ /\ pl' = row /\ NoFault
              /\ IF row.stages = <<>> THEN Done(Post)
                 ELSE Becomes(Post, [Resting("create") EXCEPT !.copy = row,
                                                              !.next = row.stages[1]])
           \/ Done(Post) /\ UNCHANGED pl /\ Fault
    /\ UNCHANGED <<request, stageOf, launched, reported, crashes>>

(***************************************************************************)
(* Who calls AdvanceStage (persistResultsWithError).                       *)
(***************************************************************************)
Report(x, a, v) ==
    /\ Becomes(x, [Resting("lookup") EXCEPT !.about = a, !.verdict = v])
    /\ reported' = reported \cup {<<a, v>>}
    /\ UNCHANGED <<request, pl, stageOf, launched, crashes>>

\* A run ends and is persisted with its verdict.
RunReports(a) == At(a, "running") /\ (\E v \in Terminal : Report(a, a, v)) /\ NoFault

\* A panic after the verdict was recorded: failAudit persists again, as failed.
RunPanics(a) ==
    /\ actor[a].pc \in Advancing \cup {"ended"}
    /\ Report(a, a, "failed") /\ Fault

\* notifyOrphaned: a viewer that found no run to attach to fails the audit.
ViewerNotices(v) ==
    /\ At(v, "idle")
    /\ \E a \in Audits : ~At(a, "unborn") /\ Report(v, a, "failed")
    /\ NoFault

\* Without autodispatch such a viewer starts a run of the audit instead.
ViewerRuns(v) ==
    /\ At(v, "idle")
    /\ \E a \in Audits :
         /\ actor[a].pc \in {"created", "ended", "dead"}
         /\ actor' = [actor EXCEPT ![a] = Resting("running"), ![v] = Resting("ended")]
    /\ UNCHANGED <<request, pl, stageOf, launched, reported, faults, crashes>>

-----------------------------------------------------------------------------
(***************************************************************************)
(* AdvanceStage.                                                           *)
(***************************************************************************)
Owns(row, a) == \E s \in Stages : row.auditOf[s] = a
currentStage(row, a) == CHOOSE s \in Stages : row.auditOf[s] = a

\* Mutant of Advances: no idempotency guard.
Advances_Unguarded(row, a) == TRUE

\* The idempotency guard: the row is at the stage this audit ran.
Advances(row, a) == row.status = Running(currentStage(row, a))

\* Mutant of Decide: a failed stage is passed over like a completed one.
Decide_IgnoresFailure(x, row, a, v) ==
    LET next == nextStage(row.stages, currentStage(row, a))
    IN  IF ~Advances(row, a) THEN Done(x)
        ELSE IF next = NoStage
          THEN Becomes(x, [actor[x] EXCEPT !.pc = "update",
                                           !.copy = [row EXCEPT !.status = "completed"]])
          ELSE Becomes(x, [actor[x] EXCEPT !.pc = "create", !.copy = row, !.next = next])

\* Mutant of Decide: only completions are acted on.
Decide_DropsFailure(x, row, a, v) ==
    IF v = "failed" THEN Done(x) ELSE Decide_IgnoresFailure(x, row, a, v)

\* What is done about a verdict v on audit a, given the row that was read.
Decide(x, row, a, v) ==
    LET next == nextStage(row.stages, currentStage(row, a))
    IN  \/ /\ v = "failed"
           /\ Becomes(x, [actor[x] EXCEPT !.pc = "update",
                                          !.copy = [row EXCEPT !.status = "failed"]])
        \/ /\ v = "completed" /\ ~Advances(row, a)
           /\ Done(x)
        \/ /\ v = "completed" /\ Advances(row, a) /\ next = NoStage
           /\ Becomes(x, [actor[x] EXCEPT !.pc = "update",
                                          !.copy = [row EXCEPT !.status = "completed"]])
        \/ /\ v = "completed" /\ Advances(row, a) /\ next # NoStage
           /\ Becomes(x, [actor[x] EXCEPT !.pc = "create", !.copy = row, !.next = next])

\* GetPipelineByAuditID, and what follows from the row up to the next store call.
Lookup(x) ==
    /\ At(x, "lookup")
    /\ \/ /\ Owns(pl, actor[x].about)
          /\ Decide(x, pl, actor[x].about, actor[x].verdict)
          /\ NoFault
       \/ ~Owns(pl, actor[x].about) /\ Done(x) /\ NoFault
       \/ Done(x) /\ Fault
    /\ UNCHANGED <<request, pl, stageOf, launched, reported, crashes>>

\* Mutant of Assigned: the new audit is recorded under the stage it follows.
Assigned_ToFirst(row, s, a) ==
    [row EXCEPT !.status = Running(s), !.auditOf[row.stages[1]] = a]

\* setStageAuditID and the running status, in the caller's copy of the row.
Assigned(row, s, a) == [row EXCEPT !.status = Running(s), !.auditOf[s] = a]

\* createAndLaunchStage: auditSvc.Create.
CreateAudit(x) ==
    /\ At(x, "create")
    /\ \/ /\ \E a \in Audits :
               /\ At(a, "unborn") /\ \A b \in Audits : b < a => ~At(b, "unborn")
               /\ stageOf' = [stageOf EXCEPT ![a] = actor[x].next]
               /\ actor' = [actor EXCEPT
                              ![a] = Resting("created"),
                              ![x] = [@ EXCEPT !.pc = "update", !.made = a,
                                   !.copy = Assigned(actor[x].copy, actor[x].next, a)]]
          /\ NoFault
       \/ Done(x) /\ UNCHANGED stageOf /\ Fault
    /\ UNCHANGED <<request, pl, launched, reported, crashes>>

\* UpdatePipeline: every column, from the copy.
UpdatePipeline(x) ==
    /\ At(x, "update")
    /\ \/ /\ pl' = actor[x].copy /\ NoFault
          /\ IF actor[x].made = NoAudit THEN Done(x)
             ELSE Becomes(x, [actor[x] EXCEPT !.pc = "launch"])
       \/ UNCHANGED pl /\ Done(x) /\ Fault
    /\ UNCHANGED <<request, stageOf, launched, reported, crashes>>

\* RunPipelineStage: DispatchAudit does nothing for an audit that has a run.
Launch(x) ==
    /\ At(x, "launch")
    /\ LET a == actor[x].made
       IN  IF At(a, "created")
             THEN /\ actor' = [actor EXCEPT ![a] = Resting("running"),
                                            ![x] = Resting("ended")]
                  /\ launched' = launched \cup {a}
             ELSE Done(x) /\ UNCHANGED launched
    /\ UNCHANGED <<request, pl, stageOf, reported, faults, crashes>>

Advance(x) == Lookup(x) \/ CreateAudit(x) \/ UpdatePipeline(x) \/ Launch(x)

-----------------------------------------------------------------------------
(***************************************************************************)
(* A restart: rows survive, goroutines and requests do not.                *)
(***************************************************************************)
Crash ==
    /\ crashes < MaxCrashes
    /\ crashes' = crashes + 1
    /\ actor' = [x \in Actors |-> IF actor[x].pc \in Advancing \cup {"running"}
                                    THEN Resting("dead") ELSE actor[x]]
    /\ UNCHANGED <<request, pl, stageOf, launched, reported, faults>>

PipelineNext ==
    \/ CreatePipeline
    \/ \E a \in Audits : RunReports(a) \/ RunPanics(a)
    \/ \E v \in Viewers : ViewerNotices(v) \/ ViewerRuns(v)
    \/ \E x \in Actors : Advance(x)
    \/ Crash

(***************************************************************************)
(* Fairness.  A goroutine that can run does, and every run ends (each      *)
(* agent call has a deadline).  Nobody has to watch, to fail or to restart.*)
(***************************************************************************)
PipelineFairness ==
    /\ \A a \in Audits : WF_plVars(RunReports(a))
    /\ \A x \in Actors : WF_plVars(Advance(x))

PipelineSpec == PipelineInit /\ [][PipelineNext]_plVars
PipelineLiveSpec == PipelineSpec /\ PipelineFairness

-----------------------------------------------------------------------------
(***************************************************************************)
(* Properties.                                                             *)
(***************************************************************************)

(***************************************************************************)
(* "expandStages auto-expands requested stages to include prerequisites":  *)
(* a pipeline has exactly the requested stages and what they need, once    *)
(* each, and a stage comes after everything it needs.  (Nothing more: for  *)
(* discover and prove without a source the list is discover, scan, prove.) *)
(***************************************************************************)
Needs(s) ==
    CASE s = "scan" -> {}
      [] s = "discover" -> IF request.source THEN {"scan"} ELSE {}
      [] s = "prove" -> {"scan", "discover"}
Required == request.stages \cup UNION {Needs(s) : s \in request.stages}

StagesMatchRequest ==
    pl.status # "absent" =>
        /\ {pl.stages[i] : i \in DOMAIN pl.stages} = Required
        /\ \A i \in DOMAIN pl.stages :
             Needs(pl.stages[i]) \subseteq {pl.stages[j] : j \in 1..(i - 1)} \ {pl.stages[i]}
        /\ Len(pl.stages) = Cardinality(Required)

(***************************************************************************)
(* A stage is only ever started once the stage before it has completed     *)
(* (advanceToNextStage), whoever reports what and however late.            *)
(***************************************************************************)
CompletedOnce(s) == \E b \in Audits : stageOf[b] = s /\ <<b, "completed">> \in reported

StageAfterPrerequisite ==
    \A a \in Audits : stageOf[a] # NoStage =>
        \E i \in DOMAIN pl.stages :
            /\ pl.stages[i] = stageOf[a]
            /\ \A j \in 1..(i - 1) : CompletedOnce(pl.stages[j])

(***************************************************************************)
(* "Idempotency guard: only advance if pipeline is at the expected stage"  *)
(* (advanceToNextStage): with verdicts reported twice, late, or again      *)
(* after a panic, a failed write or a restart, a stage is launched once.   *)
(***************************************************************************)
OneRunPerStage ==
    \A a, b \in launched : stageOf[a] = stageOf[b] => a = b

(***************************************************************************)
(* A pipeline is completed only when every stage of it has an audit that   *)
(* the row names and that reported completion (completePipeline).          *)
(***************************************************************************)
CompletedMeansEveryStage ==
    pl.status = "completed" =>
        \A i \in DOMAIN pl.stages :
            LET a == pl.auditOf[pl.stages[i]]
            IN  a # NoAudit /\ stageOf[a] = pl.stages[i] /\ <<a, "completed">> \in reported

(***************************************************************************)
(* The row is overwritten whole by whoever writes last (UpdatePipeline),   *)
(* yet a launched stage is never lost from a pipeline that still claims to *)
(* be running or done: only a failed pipeline forgets one.                 *)
(***************************************************************************)
LaunchedIsRecorded ==
    \A a \in launched : pl.auditOf[stageOf[a]] = a \/ pl.status = "failed"

(***************************************************************************)
(* The stages a pipeline runs are those that were asked for and those they *)
(* need, each after the ones it needs, once, and all of them before the    *)
(* pipeline is called complete (expandStages, advanceToNextStage).         *)
(***************************************************************************)
StagesInOrder ==
    /\ StagesMatchRequest
    /\ StageAfterPrerequisite
    /\ OneRunPerStage
    /\ CompletedMeansEveryStage

(***************************************************************************)
(* "AdvanceStage advances the pipeline when a sub-audit completes or       *)
(* fails": with no fault and no restart a started pipeline comes to an     *)
(* end, unless a viewer ran a stage before the pipeline's row named it.    *)
(***************************************************************************)
Forestalled ==
    \E a \in Audits : a \notin launched /\ actor[a].pc \in Advancing \cup {"running", "ended"}

PipelineEnds ==
    pl.status \in {Running(s) : s \in Stages}
        ~> (pl.status \in Terminal \/ faults > 0 \/ crashes > 0 \/ Forestalled)
=============================================================================
