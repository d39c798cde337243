# Vulture: TLA+ models of the audit backend and of the agent runtime

Vulture audits source code. A Go backend accepts an audit, dispatches it to agents (Python services
and container plugins), streams their events to everyone who is watching, merges and stores the
results, and carries multi-stage pipelines from stage to stage. Agents reach a language model through
the backend's LLM broker, which meters money and shields providers. An agent's own runtime runs its
skills on threads, has source files parsed by a pool of worker processes, sweeps the source with the
model in batches, and has a judge look at what was found.

This directory models the parts of both whose correctness depends on the order in which concurrent
things happen. TLC checks every module on a small instance; for nine of them TLAPS proves the central
properties for every value of the constants. Paths of Go files below are under `src/backend/internal/`
and of Python files under `src/agents/shared/shared/` unless they begin with `src/`.

## 1. Inventory

What each component keeps, does, and depends on; what is hard about it; what makes it correct.
`PROJECT.json` lists the same components with their status.

| Component | State | Operations | Talks to | Hard | Correct when |
|---|---|---|---|---|---|
| Event fan-out (`handler/broadcaster.go`) | replay buffer with two caps, one channel per subscriber | Send, Subscribe, Unsubscribe, Close | run reducer, stream requests | joining while events flow; full channels; eviction | no gap or duplicate in any client's stream; a loss is announced; nobody waits for ever; Send never blocks |
| Run lifecycle (`handler/stream_handler.go`, `audit_handler.go`, registry in `broadcaster.go`) | audit row, registry of runs | create, dispatch, stream, cancel, persist, evict, restart | store, fan-out, webhook, pipeline | rows read before the registry; cancel during persistence; restart | one owner per run; EOF only after results are stored; verdicts agree with the row; every audit ends |
| Pipeline (`service/pipeline_service.go`) | pipeline row, stage audits | create, AdvanceStage | store, run lifecycle | read-modify-write without a transaction; repeated verdicts | stages in order, once; a completed pipeline completed every stage |
| Broker budget (`broker/budget`, `broker/server/complete.go`, `embed.go`) | shards, leases, ledger | Reserve, Reconcile, Release, Sweep | database, provider call | repeated request ids, expiry during a call, crashes | sums equal rows; cap held; each call covered; each lease ends |
| Circuit breaker (`broker/resilience/circuitbreaker.go`) | one record per provider and model | Execute, State | provider call | results recorded into a later state than admitted them | transitions as documented; probes accounted for; recovery |
| Bulkhead (`broker/resilience/bulkhead.go`) | slot channel, two atomic counters | Execute | provider call | callers leaving at every point of the wait | limits, exact counters, arrival order, no lost slot |
| Plugin supervisor (`pluginsupervisor`) | state machine, restart tracker and prober per plugin; daemon loop | Reconcile, probe reports, recovery, StopAll | docker, plugin registry | late reports, lock contention, outages, tuning of timers | what was given up stays down; recoveries happen; status ends up right; a crash loop ends |
| Parse worker pool (`ast/pool.py`, `ast/context.py`) | queue of slots, tickets, one worker process per slot, one breaker per audit | parse, issue, collect, discard | skill threads, worker processes | a worker that dies or hangs between request and reply; a ticket nobody takes back | no slot lost or used twice; no reply read by another request; a synchronous request is always served |
| Model cache and prefetch (`ast/cache.py`, `ast/prefetch.py`) | cache of answers, keys in flight, one index of tickets per audit | lookup, single flight, reserve, file, claim, drain, close | skill threads, worker pool | leaders that fail, files that change meanwhile, a walk abandoned with tickets out | one leader per key in flight; no ticket outlives the skill phase; stored answers belong to their key; every walk ends |
| Agent audit run (`audit_runner.py`, `transport/sse_app.py`, `cancellation.py`, `llm/errors.py`) | rows, ids, LLM ledger, cancel token, event queue | run_combined_audit: skills, collapse, sweep, validate, result; the response that reads it | skills, model, judge, backend | a client that leaves, a ceiling that passes, a skill that hangs, calls that fail halfway through | the result has every row once; a degraded audit says so and only such a one; the stream ends exactly once, and soon after a stop |
| Judge, layer 5 of validation (`validate/llm_judge.py`, `validate/__init__.py`, `voter.py`, `l5_cache.py`) | verdicts per finding, cache across runs, worker pool | select, batch, ask, apply, safeguard, vote, stamp | model, audit run | batches out of order, cancel between two gates, a layer that fails after applying verdicts | coverage stamps are true; safeguards hold on what is handed on; at most one batch after a cancel |
| Retrier (`broker/resilience/retrier.go`) | token bucket | Execute | provider call | fractions, burst | the retried fraction is bounded |
| Broker request path (`broker/server`) | none of its own | complete, embed, failover | budget, resilience pool | partial failure between steps | a lease is settled on every path; failover only where allowed |
| Stream service (`service/stream_service.go`, `agent_proxy_service.go`) | channels of a run | phases of agents, merge of their events | agents, stage router | goroutines that outlive a cancelled run | every agent's end is reported once; no goroutine is left blocked |
| Drain and merge (`handler/stream_handler.go:557-663, 918-1160`) | result under construction | drain, dedup, validation verdicts | stream service | snapshots against deltas | no finding of a finished agent is lost |
| Stream tokens (`service/stream_token.go`) | map of hashed tokens | Create, Validate, cleanup | user store | use, expiry and cleanup overlap | one use, within a minute, for one audit |
| Lineage, memory, targets (`service/lineage_*.go`, ...) | store tables | match, record | store | re-keying while audits run | stable identity of a finding |
| Webhooks (`service/webhook_service.go`) | deliveries | three attempts with backoff | network | retries after a restart | delivered at least once or recorded as failed |
| Store and migrations (`repository`) | SQL tables | CRUD, Apply | everyone | concurrent start-up | each migration once, whole |
| Server, auth, config (`server`, `handler/auth_*`) | middleware | routing | everyone | little | - |
| Plugin registry and installer (`src/backend/pkg/pluginregistry`, `pluginlifecycle`) | manifests, lock file | load, install | disk | two CLIs at once | lock file consistent |
| Launcher, staging, git (`localdev`, `staging`, `src/backend/pkg/gitutil`) | processes, files | start, stop, copy, clone | operating system | clean-up | - |
| LLM client (`llm/cooldown.py`, `llm/request_cap.py`) | cooldown per model | record, check, reset | sweep, judge | threads that record at once | a model that fails is left alone for as long as documented |
| Result assembly, AST documents, prompts, file discovery (`audit_runner.py`, `anchor.py`, `ast/scope.py`, `prompt`, `tools`) | none | text to text | audit run | string processing | - |
| Scan agents and skills (`src/agents/*`), frontend, CLI, MCP server, scripts | - | rules, clients | HTTP | no concurrency of their own | - |

How they interact: `POST /api/audits` creates a row and dispatches a run (run lifecycle). The run
drives the stream service, whose events a reducer feeds into the fan-out; stream requests attach to
it through the registry. When the run ends, its persistence steps write the row, report the verdict
to webhook and pipeline, and close the fan-out. `AdvanceStage` may create and dispatch the next
audit. Container agents are kept alive by the supervisor.

Each agent the stream service calls answers with a stream of its own, fed by `run_combined_audit` on
a thread. It starts its skills on a few threads; a skill walks files and asks for their parsed form
through the model cache, which sends requests ahead and is served by the worker pool. Then the
sweep asks the model batch by batch (through the broker: reserve budget, pass bulkhead, deadline,
breaker and retrier of a provider, reconcile), and the validate stage runs the judge on a thread that
reports through a queue. A cancel token and a ceiling on the whole audit are looked at between these steps.

## 2. Modules

| Module | Models | State and actions against the code |
|---|---|---|
| `Broadcaster` | one run's fan-out and `attachToRun` | every operation under `b.mu` is one action (`Send`, `Subscribe`, `Unsubscribe`, `Close`); a client's read of its channel (`ReadFrame`, `ReadEOF`) is another |
| `RunFeed` | what the fan-out promises, with no buffers | abstract specification; `Broadcaster` implements it (`ImplementsFeed`), with `feed` mapped to written plus buffered events |
| `RunLifecycle` | one audit in one process | each store call, registry call and channel end is a step of `RunStep`, `StreamStep`, `CancelReadsRow`/`CancelStops`, `PostDispatch`; `Crash` empties registry and goroutines, keeps the row |
| `Pipeline` | one pipeline | `AdvanceStage` is four steps (look up and decide, create, update, launch), run by the audit's run, by a viewer's orphan notice or by a panic handler |
| `Budget` | one tenant's shards, leases and ledger under requests | each database transaction is a step; `Attempts` are HTTP requests, `Requests` the ids they may share |
| `CircuitBreaker` | one breaker | the Go methods are operators on a breaker record; admission and recording are steps, the call in between is not |
| `Bulkhead` | one bulkhead | the slot channel, the runtime's queue of blocked senders, each counter change a step |
| `PluginSupervisor` | one plugin under supervision | holder of `s.mu` is `pc`, waiting goroutines are counted; probe reports interleave with the holder; time in ticks of the daemon loop's ping |
| `WorkerPool` | the slots of one agent process | a thread in `parse`, `issue`, `collect` or `discard` holds a slot in `slot`; taking it, sending, reading, replacing the worker and giving it back are steps; the ticket count and the queue change in separate steps, as in the code |
| `SlotPool` | what the pool promises to requests that wait and to requests sent ahead, as two counts | abstract specification; `WorkerPool` implements it with the slots neither queued nor counted as tickets as `inUse`, `Prefetch` uses slots as it allows (`ImplementsPool` in both) |
| `Prefetch` | the walks of skill threads over the cache and the index | what the code does under one lock is one step; an answer's key is a file and its version, and the pool is a count of slots |
| `AgentAudit` | one agent's audit and the response that carries it | `pc` is the generator's place in `run_combined_audit`; skills, the validate thread, the reader and the ceiling are processes of their own |
| `Judge` | the layer, over several runs and restarts | `step` is the stage's thread, `batch` the workers; gates, tool rounds, cache reads and the application of a verdict are steps, safeguards and vote are operators on the findings' checks |
| `*_proof` | theorems | section 6 |
| `MC*` | instances for TLC | the sets and values of section 3 |

The modules compose by what one promises and the next assumes: `Prefetch` takes the pool as
`SlotPool` has it, two counts that `WorkerPool` is shown to implement, and a wait for a slot that ends
(`ParseIsServed`);
`AgentAudit` takes skills as threads that end with rows, fail or hang, and a validate thread that ends
with the ceiling (`JudgeReturns`); `Pipeline` takes runs that report one verdict or none.

Data is abstract: an event is its number and a size class, a finding is a model value with what
decides its fate, money is in small integers, a provider is well or sick, a container is well, sick or
gone, a file is its version. Control is not: every guard, early return and error path of a mapped
function is there, in order.

## 3. Runs and bounds

| Run | Instance | Asks |
|---|---|---|
| `broadcaster` | 2 clients, 4 events of size 1 or 5, caps of 3 frames and 4 bytes, batches of 2, live buffer 2 | whether streams are exact while they last and at EOF (`StreamIsExact`), a slot is kept for the drop notice and history stays within its caps (`BuffersBounded`), the fan-out implements `RunFeed` (`ImplementsFeed`), and every client is released (`EveryClientReleased`) |
| `run_lifecycle` | 2 stream requests, 1 cancel, 2 runs, both dispatch modes, 1 fault, 1 restart | a live run is in the registry (`LiveIsRegistered`), a verdict and an EOF say what is in the row (`ToldIsTrue`), a run that was stopped before it asked for the reason is never a success (`StoppedRunNeverSucceeds`), under dispatch on create a late client finds the run (`LateClientFindsLiveRun`), audits end (`AuditEnds`) |
| `pipeline` | every request, 4 audits, 1 viewer, 1 fault, 1 restart | stages in order, once, and all of them before completion (`StagesInOrder`), `LaunchedIsRecorded`, `PipelineEnds` |
| `budget` | 2 ids (estimates 1 and 2), 2 requests in flight, 2 shards with a cap of 2, a cost of 2 | sums and cap (`BooksExact`), `CallIsCovered`, `UnchargedLeaseEnds` |
| `breaker` | 3 callers, `FailureThreshold` 3, `SuccessThreshold` 2, `HalfOpenMaxCalls` 3, timeout 2 | probes, refusals and trip counts (`BreakerIsExact`), `RecoversWithProvider` |
| `bulkhead` | 4 callers, 1 slot, queue of 2, bounded waits | counters and limits (`SlotsAccounted`), `NoOvertaking`, `EveryCallReturns` |
| `supervisor` | warm-up 1, interval 2, threshold 2, window 9, storm 3, launches of up to 1 tick, 2 outages, 2 waiters of a kind | `GivenUpStaysDown`, recoveries run and status settles (`NothingIsLost`), `CrashLoopEnds` |
| `worker_pool` | 3 threads of 2 audits, 2 slots, reserve 1, breaker after 1 fault | each slot in one place, the ticket count exact, no reply outstanding in a free slot and no waiting for tickets alone (`SlotsSound`), the pool implements `SlotPool` (`ImplementsPool`), `ParseIsServed` |
| `prefetch` | 2 threads of one audit, of which one asks for 2 files and the other for the last of them, which may change once; 2 slots, reserve 1, one file ahead | `NoTicketLeaks`, `OneLeader`, `StoredIsCurrent`, slots are taken and given back as `SlotPool` allows (`ImplementsPool`), `WalksEnd` |
| `agent_audit` | 2 skills on 1 worker with 3 rows, one a generalisation of another; 3 batches that may find one key, failure cap 2, 2 attempts, 1 judge update | `ResultIsComplete`, `DegradedIsTruthful`, `StreamIsWellFormed`, `AtMostOneLateBatch`, `StreamEnds` |
| `judge` | 4 findings of which one has no window, top 3, batches of 2, 2 workers, 1 tool round, 2 runs | `CoverageIsTruthful`, `SafeguardsHold`, `OneBatchAfterCancel`, `JudgeReturns` |
| `judge_stale_verdict` | the same, and the file may change once | section 5: a violation |

Liveness sets the bounds of these instances: TLC's search for a cycle grows much faster with the instance
than its search for a state. Where it made the difference, `MC*Wide.cfg` checks the safety properties
alone on a larger one: `MCRunLifecycleWide` (2 faults), `MCAgentAuditWide` (the batches may find two
keys), `MCPrefetchWide` (each thread looks ahead at the file the other is at, so that both want the one
slot for a ticket), `MCBudgetWide` (costs 1 and 2), `MCPipelineWide` (2 faults). Start one with
`tlc -config <file>.cfg <module>`; each ends without error in some ten seconds. For every bound these
properties are theorems (section 6).

Interchangeable processes cost a search each. `EveryCallReturns` is therefore checked of one of the four
callers, `ParseIsServed` of one thread of each audit and `AuditEnds` of one of the two viewers:
specification and fairness treat the others alike, so what holds of one holds of them.

Why the bounds are enough. Broadcaster: the caps are below the number of events, so truncation, a
whole-buffer eviction (one event larger than the byte cap), a drop and a late joiner all occur, and
two clients are needed only to see one dropped while the other lives. Run lifecycle: two runs because
a restart or the loser of `Open` makes a second; viewers contend with the dispatch on create and
with each other. Pipeline: three stages and one audit a fault wastes. Budget: two
ids to compete for a shard, two attempts to share an id, a call that overruns its estimate and one that
spends it. Breaker: two successes close it and the window has
three slots, so one probe may end neutral and the breaker still recovers, and two that do may
wedge it. Bulkhead: one holder, a full queue and one to shed.
Supervisor: the window spans the three restarts of a storm, and two outages let a second one begin
while the first is still followed up. Worker pool: with one slot reserved, one ticket may be out while
three threads compete for the other slot, and the second audit sees that the first one's breaker is
its own. Prefetch: the file that changes is sent ahead by one thread and asked for by the other, so each may
lead, wait for the other, claim the other's ticket or find the file changed under it; a second audit would share only the cache. Audit
run: the second skill waits for the first, the rows make the collapse bite, and the cap on failures is
below the number of batches so that the sweep may stop on it, on an error that is not retried, on a
cancel or at its end. Judge: two batches on two workers finish in either order, the finding below the
top three is skipped, and the second run is answered from the first one's cache.

In `RunLifecycle` what fails is named with the goroutine it fails for, so that no property excuses more
than it must. `ToldIsTrue` and `AuditEnds` hold after a panic and after a run that could
not be marked as running; they excuse a row that could not be read and a verdict that could not be
written, after which the code gives up, and `EofMeansPersisted` (of `ToldIsTrue`) excuses even those only
for the run they happened to.

The only bounds on behaviour are `MaxFaults`, `MaxCrashes`, `MaxFrames`, `MaxOutages`, `LaunchTicks`,
`MaxWaiting` (a saturating count: one more goroutine waiting for `s.mu` finds what the one before it
left), `Changing` and `MaxVersion` (how often files change), `MaxCount` (how far two history counters
of `Prefetch` go; 0 where no property reads them), `Runs` of `Judge` and `JudgeBatches` of
`AgentAudit`. Each is a constant named in its module and applied in a guard.

`CHECK_DEADLOCK FALSE` is set where the system really stops: the fan-out of a run that is over, an
audit or a pipeline that has ended. The other modules go on (callers come back, time passes) or say by
a stuttering step where they are done.

## 4. Fairness

Only where the code has a goroutine or a thread that will run.

- Broadcaster: the run ends and closes (it does so in a deferred call), and a connected client reads.
  Subscribing and hanging up are never owed.
- RunLifecycle: each run's and each stream request's next step and `PostDispatch`. Nothing is owed by
  users: no stream or cancel request has to arrive.
- Pipeline: a run reports its verdict and `AdvanceStage` goes on once called; viewers owe nothing.
- Budget: a request's next step, a lease's expiry (time) and the sweeper's ticker.
- CircuitBreaker: time, a call that returns, and callers that keep coming. `RecoversWithProvider`
  excuses the state that more neutral probes than the window can spare lead to (section 5).
- Bulkhead: each caller inside `Execute`; the call in the slot returns because
  `broker/server/complete.go` puts a deadline around it.
- PluginSupervisor: one weak fairness on everything the backend does, time included. Containers and
  the docker daemon owe nothing; properties that need docker back say so.
- WorkerPool: weak fairness on a thread inside an operation, because each of its waits has a deadline,
  and strong fairness on taking a slot: the queue wakes its waiters, and a barging thread may win now and
  then but not for ever. No worker has to answer and nobody has to collect a ticket.
- Prefetch: a walking thread goes on; a request of the pool is strongly fair, which is what
  `ParseIsServed` gives; the index is closed in the runner's `finally`.
- AgentAudit: the generator's thread, time (the ceiling), a client that stays reads, and the validate
  thread ends by the ceiling it shares. A skill may hang for ever.
- Judge: the stage's thread and time. A call to the model may never be answered.

## 5. What disagrees with the repository's own words

`judge_stale_verdict` is a run with `"expect": "violation"`; the finding in `PROJECT.json` quotes the
lines. `_file_signature` caches a file's signature in a dictionary that only tests clear, so a
second audit in the same agent process, after the file has changed, computes the old key and replays
the verdict on the old text.

Six more have a configuration that reproduces them but no run. Start one with
`tlc -config <file>.cfg <module>`; TLC ends with the counterexample.

1. `MCRunLifecycleLateCancel.cfg`, `MCRunLifecycle` (`CancelledRunNeverSucceeds`): `runAudit` copies the
   cancel reason before it saves the findings. A cancel accepted (202) in between is lost and the run
   is recorded as completed, although `handler/stream_handler.go:430` says a cancelled run must never be.
2. `MCRunLifecycleOrphanRace.cfg`, `MCRunLifecycle` (`OrphanHasNoOwner`): `notifyOrphaned` trusts a row
   read before the registry was asked. A viewer that comes between the row's creation and its dispatch
   fails a run in progress.
3. `MCCircuitBreakerWedged.cfg`, `MCCircuitBreaker` (`HalfOpenCanProbe`): a half-open probe that ends
   neutral never gives its slot back. With `HalfOpenMaxCalls` 1, as `broker/serve/serve.go` sets it, one
   cancelled probe leaves the breaker refusing calls until a restart.
4. `MCBudgetReplay.cfg`, `MCBudget` (`LeaseEnds`): a request id that was charged before reserves a lease
   that neither Reconcile, Release nor Sweep will ever delete.
5. `MCPluginSupervisorDefaults.cfg`, `MCPluginSupervisor` (`CrashLoopEnds`): with the default tunables a
   crash-looping plugin is restarted every 70 s, and the storm guard counts restarts of the last 60 s,
   so it never trips.
6. `MCPrefetchParsedTwice.cfg`, `MCPrefetch` (`OneParsePerKey`): `ModelCache` reads the declined keys
   (`ast/cache.py:482`) and boards the flight (`:215-227`) in separate steps, so a key declined in
   between is parsed again, where the comment at `:519-521` speaks of one parse. `IssuedOnce` of the
   same module fails the same way: `known()` and `reserve()` are separate steps (`:645`).

Met while modelling, in the agent runtime:

- A ceiling that passes in the skill phase, or before the first batch, gives a result with no
  `degraded_reason` although skills or batches are missing (`LostIsDegraded` of `AgentAudit`;
  `audit_runner.py:3431`). `DegradedIsTruthful` is what does hold.
- The judge's tool loop leaves its rounds on a cancel by falling back to the plain request, so one more
  request is sent after the cancel (`validate/llm_judge.py:1345` returns no answer, `:1039` then asks).
- When the layer fails after verdicts were applied, every finding is stamped as the judge's error, those
  with a verdict included, and the safeguards are not run.
- `llm/cooldown.py` documents a fixed hour after an authentication error; the code's cooldown grows with
  the failures up to an hour.

Met while modelling, in the backend:

- A late verdict rewrites a pipeline that has ended: only the completed branch of `AdvanceStage` has
  a guard on the status, while `src/verification/isabelle/Pipeline_State.thy:34-37` calls terminal
  states absorbing and says the Go code must match. `Pipeline` contains the behaviour.
- The diagram at `circuitbreaker.go:11` has no arrow for the success of a call from an earlier closed
  period that arrives in half-open and counts towards closing (`:151`).
- `SuccessThreshold > HalfOpenMaxCalls` is accepted, and such a breaker can never close.
- `budget.go:78` describes Remaining by shard; the code sums. A call that costs more than its
  estimate overspends the cap (`overran` in `Budget`). Reconcile runs under the request's context, so
  a client that hangs up at that moment leaves the lease to be swept uncharged.
- A pipeline is stuck if the backend stops, or a write fails, between the next audit's creation and
  the row's update; nothing resumes it. A viewer that runs a stage audit before the row names it makes
  its verdict fall on no stage (`Forestalled`). Unknown stage names leave a pipeline pending.
- A viewer that read a running row and reaches the registry after the run ended and its entry expired
  rewrites the row as failed.
- With the dispatch switch off, even a viewer that came after the 201 may fail a live run: it loses
  `Open`, the winner's entry expires before it looks again (`handler/stream_handler.go:265-270`), and a
  third viewer opens a run before its notice is written. `LateClientFindsLiveRun` is therefore stated for
  dispatch on create; two viewers are too few to show the other case.
- The bulkhead may shed a caller while refused callers are still counted.
- The retrier credits every attempt, so it allows retries up to f/(1-f) of the calls plus a burst,
  where `broker/resilience/resilience.go:73` speaks of the fraction of calls.
- Supervisor: recovery is tried once per Unhealthy report, so a container that is unhealthy while
  running and stops later, or whose `docker ps` failed once, stays down although
  `pluginsupervisor/recovery.go:9-13` promises otherwise; a report that arrives between the daemon
  loop's last check and its deferred reset is watched by nobody; `StopAll` may be followed by a
  recovery that was waiting for `s.mu` and relaunches what it stopped; `HandleEvent` does not take the
  mutex that `supervisor.go:55` says serialises it (only tests call it).

## 6. What is proved

All theorems hold for every value of the constants that meets the named assumptions of the modules.

- `Runs_proof`, two parts that share no state.
  Broadcaster: `TypeCorrect`, `NeverBlocks` (`SlotReserved`), `ExactViews` and
  `TruthfulEof`, together `ExactStreams` (`StreamIsExact`). None is inductive: the frames a client has been written say nothing
  about those still in its channel. The invariant `IInv` therefore speaks of written plus buffered
  frames (`Delivered`): consecutive, beginning with event 1 or with the notice (`Exact`), and up to date
  while the subscription lives (`Current`); with the shape of the replay buffer (`HistoryIsRecent`) that
  makes the next Send, and a joiner's snapshot, continue the stream.
  `BoundedBuffers` (`BuffersBounded`) follows from the same shape and the exact byte count, which is a sum.
  `Refinement` (`ImplementsFeed`) shows step by step that the fan-out implements `RunFeed`: a Send is the
  feed's publication, with the subscribers it drops as those the feed cuts; a read, and a Send's
  evictions, move nothing a subscriber was promised, and are stutters.
  Pipeline: `PipelineTypeCorrect`, `StagesKeepOrder` (`StagesInOrder`), `LaunchesAreKept`
  (`LaunchedIsRecorded`). The row is overwritten whole by whoever writes last, so the invariant speaks of
  every copy in hand, however old (`Sound`), and says that at most one actor moves the pipeline on
  (`OneMoves`): while the row has not failed it is that actor's turn (`InTurn`), and its copy names all
  that were launched and an audit for a stage none of them has (`Drafts`). `GuardPasses` is where the
  idempotency guard is needed: a completion that finds the row at its own stage finds nobody else moving.
  A stale failed row may forget an audit, and that is why the second theorem excepts it.
- `Lifecycles_proof`, two parts that share no state.
  RunLifecycle: `OneLiveRun` (`LiveIsRegistered`), `NobodyIsMisled` (`ToldIsTrue`),
  `StoppedInTimeFails` (`StoppedRunNeverSucceeds`), `LateClientsAttach` (`LateClientFindsLiveRun`),
  `TypeCorrect`. Steps are sorted into kinds (`Kinds`) by what registry, row and verdicts see of them.
  `Single` says that runs are opened in order into an empty registry, so a live run is the last one
  opened. On that rests `Settled`: a run that is over has told its verdict, and the row is terminal or a
  later run has been opened; with `Ended` (a stream ends after its run) it gives the truth of an EOF.
  `Agreed` counts the verdicts told together with those written and not yet told: when there is one, it
  is the row's, or a run is on its way to another. `Guarded` follows a late client between its look at the
  registry and its notice: what it saw empty can only disappear, because after the 201 nothing is opened.
  `Doomed` follows a stopped run from the stop to its verdict: it has yet to ask for the reason, so whatever
  it comes to save is a failure, of its own accord or by a panic, and a success in the row has another author.
  PluginSupervisor: `StaysDown` (`GivenUpStaysDown`), from `HolderSupervises`: while somebody has `s.mu`
  the plugin has not been given up, because only the holder can do that, and lets go of `s.mu` when it
  does. So a recovery that looked once need not look again, and a report looks on the spot.
- `Broker_proof`, three parts that share no state.
  Breaker: `BreakerTyped`, `AlwaysExact` (`BreakerIsExact`) from `ProbesAccounted`, `FreshTripCount` and
  `RefusalExplained`, and `MovesAsDrawn` (`StateOnlyMovesAsDrawn`: what it takes to leave each of the three
  states; half-open closes on the success that was missing, counting those of calls the window did not
  admit). The strengthening is `ProbesBelongToWindow`: outside half-open no call is a probe, so a result that arrives late cannot be taken for one of the present window.
  Budget: `EveryCallIsCovered` (`CallIsCovered`), `BooksBalance` (`BooksExact`), `BudgetTyped`. `Covered`
  says the lease behind a call is unexpired and names the attempt that inserted it, hence two calls never
  share an id (`DistinctRequests`) and the sweeper passes it by. The books are sums over requests, and
  balance because a step changes one lease or one charge and its shard by the same amount (`Books`).
  Bulkhead: `BulkheadTyped`, `SlotsAlwaysAccounted` (`SlotsAccounted`) from `CountersAlwaysExact`,
  `LimitsAlwaysHeld` and `NeverIdle`, and `ArrivalOrder` (`NoOvertaking`). Each counter is the cardinality of the set of callers in certain
  places, so a step is a caller moving between sets (`Moves`). The limits need the exact counts, the
  counts need `QueueBlocked` (the queue holds exactly the blocked callers, once each), and handing a
  slot over needs both. Nobody is passed, because a slot is taken at once only when nobody is blocked
  (`NoIdleSlot`) and is otherwise handed to the head of the queue, which is before all who stay in it.
- `WorkerPool_proof`: `TypeCorrect`, `SlotsAlwaysExact`, `RepliesNeverMixed` and
  `RequestsFindRoom`, together `SlotsAlwaysSound` (`SlotsSound`). Where each slot is and how many tickets are out are proved together: a slot
  changes hands in one step while the count follows in another, so the count is the tickets out and
  those in the hands of threads that have counted one and not yet settled it. That a free slot is quiet needs
  that a slot given back unharmed is one whose reply was read.
  `PoolRefinement` (`ImplementsPool`) shows that the pool implements `SlotPool`. A get and an `issue` take a
  slot, a put returns one and counting a ticket in ends it; everything else is a stutter. That a put
  returns a slot that was in use is the one thing a step does not show: slots in the queue, of tickets and
  in operations on tickets are different slots, so their numbers fit into the pool (`Room`). By the same
  counting a queue that is empty has a slot in the hands of a request that will put it back, because
  the tickets are fewer than the slots: `RequestsFindRoom`.
- `Prefetch_proof`: `OneLeaderAlways` (`OneLeader`), `StoredAlwaysCurrent` (`StoredIsCurrent`), `NoSlotIsLost`
  (`NoTicketLeaks`), `TypeCorrect`. The first two have an invariant of five parts: types (`Shape`), what a thread at each place has in hand (`InOrder`), a key
  in flight is in the hands of the one thread that leads it (`Flown`), a reservation of the index has its
  owner (`Reservations`), and `StoredIsCurrent` itself: what is stored has the text of its key, because the version that was
  shipped is compared with the key's before it is stored. The third counts, on top of it, the pool's slots
  (`Slots`): those taken are the tickets of open indexes, in hand or being discarded, and the requests in
  progress; a thread files a ticket only into an index that is open, and close takes out all it finds.
  Hence `PoolRefinement` (`ImplementsPool`): a ticket that is given up was counted, so each step is one of
  `SlotPool`. With the theorem of the same name about the pool, what the one component is proved to keep is
  what the other is proved to ask for.
- `AgentAudit_proof`: `NothingIsLost` (`ResultIsComplete`), `DegradedIsMeant` (`DegradedIsTruthful`),
  `OneEnd` (`StreamIsWellFormed`), `OneLateBatchAtMost` (`AtMostOneLateBatch`), `TypeCorrect`. The result
  is looked at once, at the end, so the invariant says for every phase what the rows and the ids streamed
  so far are (`RowsInv`, `IdsInv`), that the sweep has found nothing while nothing answered (`PhaseInv`),
  what the ledger records (`LedgerInv`), and that a stream that has ended does not change (`ShapeInv`,
  `ResultInv`). For the late batch: the sweep looks at token and ceiling before each batch, and a
  stopped run stays stopped, so once a batch has ended late the sweep is never inside a call again
  (`Bounded`).
- `Judge_proof`: `TypeCorrect`, `CoverageAlwaysTruthful` (`CoverageIsTruthful`), `SafeguardsAlwaysHold`
  (`SafeguardsHold`), `OneBatchAfterAnyCancel` (`OneBatchAfterCancel`). The strengthening says
  that exactly the findings of applied batches have a check (`Settled`), that statuses follow the checks
  (`Voted`), what each step of the stage can count on (`Reached`, with `Safe` after the safeguards), and
  that a late batch is the one that was through the gate first (`OneLate`).

- `SumTheorems`: what a sum over a finite set does when a term changes, a member leaves, sets are
  joined or terms renamed. `SumFunctionOnSet` is a fold, and the library's induction theorems cannot be
  used by the installed provers; but a set of naturals that has 0 and the successor of each member is all
  of them by well-foundedness, and with that the sum is the number of units its terms hand out, which
  turns its laws into laws of cardinality.

Assumed, beyond what the modules' headers say of limits and sizes: sets of threads, callers, findings,
requests and files are finite; the values that stand for "none" are not members of the set they are
added to (`NoLeaseAssumption`, `NoRowAssumption`, and names of runs and requests being apart); the
broker's theorem about calls carries its own hypothesis (leases that outlive their requests) in the
property.

Every invariant and action property that a passing run checks is also a theorem. Only model-checked: all
liveness, and ENABLED, which the provers do not reach; and `SupervisorTypeOK`, because the restart tracker
drops old events with `SelectSeq`, whose recursion the provers cannot open (`StaysDown` does not need it).

## 7. Not modelled, and the plan

Abstracted everywhere: the contents of events, findings and prompts; SQL (a repository call is atomic);
HTTP. Left out: what `PROJECT.json` marks `not_modelled`, for the reason given there, and within a
modelled component what its note names: among others the rollup parents of the validate stage, which are
streamed after it and appended to an audit's result with ids of their own
(`audit_runner.py:3640-3642`); the decision not to send a file ahead because its model would be heavier
than the cache's budget, and an exception inside `issue_ahead`; the up to four requests that one of
the judge's `_call_llm` may make (one `Ask` in `Judge`). In lines that is
by far the larger part of the repository: the agents' skills, several hundred
detectors that match patterns in source text, the prompts around them, the parsing of answers and the program
analysis over a parsed file keep no state between calls and run on one thread. A model of them would
repeat their string processing. The models cover the code around them, where order matters.

Done, in this order: `Broadcaster` with `RunFeed`, `RunLifecycle`, `CircuitBreaker`, `Budget`,
`Pipeline`, `Bulkhead`, `PluginSupervisor`, `WorkerPool`, `Prefetch`, `AgentAudit`, `Judge`. Next:

1. `ProviderCall`: bulkhead, call deadline, breaker and retrier around one call, and failover between
   candidates (`broker/server/complete.go:214-262, 527-555`); properties: a breaker sees one result per
   admitted attempt, failover only on the two errors that allow it, a lease settled on every path. The
   retrier's token bucket by itself, with a provable bound on retries.
2. `PluginSupervisor`: `StopAll`, a second plugin and `removeStale`.
3. `AgentFanOut` and `Drain`: phases of the stream service, ordering of snapshots and deltas
   (`handler/stream_handler.go:557`), with `AgentAudit` as the agent.
4. Stream tokens, the migration runner, the cooldown of the LLM client.
5. Theorems about the modules above, as they are written.
