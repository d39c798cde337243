--------------------------- MODULE PluginSupervisor ---------------------------
(***************************************************************************)
(* The supervision of one container plugin (internal/pluginsupervisor):    *)
(* its state machine, the prober that watches its container, the recovery  *)
(* of a stopped container, the loop that watches the docker daemon, and    *)
(* the launch pipeline.  Recoveries and reconciles take s.mu; the prober's *)
(* reports do not.                                                         *)
(*                                                                         *)
(* Time is counted in ticks of the daemon loop's ping interval.  Probes    *)
(* and pings are on time, and a job that holds or can take s.mu moves on   *)
(* at once, but for LaunchTicks that its docker calls may take.            *)
(*                                                                         *)
(* The plugin is enabled and its restart policy is on-failure.  StopAll,   *)
(* HandleEvent and the containers of plugins no longer enabled are left    *)
(* out.                                                                    *)
(***************************************************************************)
EXTENDS Naturals, Sequences

CONSTANTS
    Warmup,       \* ticks before a new prober's first probe
    Interval,     \* ticks between two probes
    Threshold,    \* failed probes in a row before a report
    Window,       \* RestartStormWindow, in ticks
    StormMax,     \* restarts within Window that make a storm
    LaunchTicks,  \* bound: ticks that one holder of s.mu may take
    MaxOutages,   \* bound: docker outages
    MaxWaiting    \* bound: goroutines of a kind waiting for s.mu

ASSUME TunablesAssumption ==
    /\ {Warmup, Interval, Threshold, Window, StormMax, MaxWaiting} \subseteq Nat \ {0}
    /\ {LaunchTicks, MaxOutages} \subseteq Nat

VARIABLES
    st,          \* the plugin's StateMachine
    events,      \* ages of the restarts RestartTracker remembers
    prober,      \* the prober goroutine whose context is not cancelled
    stray,       \* what a probe in flight when its prober was cancelled will report
    pc,          \* the holder of s.mu, or "idle"
    busy,        \* ticks that holder has taken
    recoveries,  \* recoverStopped goroutines waiting for s.mu
    reconciles,  \* Reconcile calls waiting for s.mu
    loop,        \* the daemon-liveness goroutine
    pingDue,     \* its ticker has fired
    hadFailure,  \* its last ping failed
    container,   \* "none" running, or one that answers "well" or is "sick"
    dockerUp,    \* whether the docker daemon answers
    outages      \* docker outages so far

lockVars == <<pc, busy, recoveries, reconciles>>
loopVars == <<loop, pingDue, hadFailure>>
dockerVars == <<container, dockerUp, outages>>
supervisorVars == <<st, events, prober, stray, lockVars, loopVars, dockerVars>>

States == {"Idle", "Pulling", "Starting", "Probing", "Healthy", "Unhealthy", "Failed",
           "Restarting"}

Off == [on |-> FALSE, wait |-> 0, failures |-> 0, last |-> "none"]

\* Nothing supervised yet; the initial Reconcile is on its way.
SupervisorInit ==
    /\ st = "Idle" /\ events = <<>>
    /\ prober = Off /\ stray = "none"
    /\ pc = "idle" /\ busy = 0 /\ recoveries = 0 /\ reconciles = 1
    /\ loop = "off" /\ pingDue = FALSE /\ hadFailure = FALSE
    /\ container \in {"none", "well", "sick"} /\ dockerUp \in BOOLEAN /\ outages = 0

\* One more goroutine waits for s.mu.
Another(n) == IF n < MaxWaiting THEN n + 1 ELSE n

-----------------------------------------------------------------------------
(***************************************************************************)
(* The prober and handleProbeState.                                        *)
(***************************************************************************)

\* Mutant of Apply: a late report revives a plugin that was given up.
Apply_Revives(s) == st' = s

Apply(s) == st' = IF st = "Failed" THEN st ELSE s

Watch ==
    IF loop = "off"
    THEN loop' = "on" /\ pingDue' = FALSE /\ hadFailure' = FALSE
    ELSE UNCHANGED loopVars

HandleProbeState(s) ==
    /\ Apply(s)
    /\ IF s = "Unhealthy" /\ st # "Failed"
       THEN Watch /\ recoveries' = Another(recoveries)
       ELSE UNCHANGED <<loopVars, recoveries>>

\* What the next probe makes the tracker report, if it ends that way.
NewlyHealthy == prober.last # "Healthy"
NewlyUnhealthy == prober.failures + 1 >= Threshold /\ prober.last # "Unhealthy"

Probing == prober.on /\ prober.wait = 0

ProbeSucceeds ==
    /\ Probing /\ container = "well"
    /\ prober' = [prober EXCEPT !.wait = Interval, !.failures = 0, !.last = "Healthy"]
    /\ IF NewlyHealthy THEN HandleProbeState("Healthy")
                       ELSE UNCHANGED <<st, loopVars, recoveries>>
    /\ UNCHANGED <<events, stray, pc, busy, reconciles, dockerVars>>

ProbeFails ==
    /\ Probing /\ container # "well"
    /\ prober' = [prober EXCEPT !.wait = Interval,
                                !.failures = IF @ < Threshold THEN @ + 1 ELSE @,
                                !.last = IF NewlyUnhealthy THEN "Unhealthy" ELSE @]
    /\ IF NewlyUnhealthy THEN HandleProbeState("Unhealthy")
                         ELSE UNCHANGED <<st, loopVars, recoveries>>
    /\ UNCHANGED <<events, stray, pc, busy, reconciles, dockerVars>>

\* A probe in flight fails with its context, or has its answer already.
Cancel ==
    IF Probing
    THEN \/ stray' = "none"
         \/ NewlyUnhealthy /\ stray' = "Unhealthy"
         \/ NewlyHealthy /\ container = "well" /\ stray' = "Healthy"
    ELSE UNCHANGED stray

StrayReport ==
    /\ stray # "none"
    /\ HandleProbeState(stray)
    /\ stray' = "none"
    /\ UNCHANGED <<events, prober, pc, busy, reconciles, dockerVars>>

-----------------------------------------------------------------------------
(***************************************************************************)
(* The launch pipeline, under s.mu.  A docker call fails while the daemon  *)
(* is down; a pull, a build or a run may fail at any other time too.       *)
(***************************************************************************)
Launch == st' = "Pulling" /\ pc' = "pulling"

Reconcile ==
    /\ pc = "idle" /\ reconciles > 0
    /\ reconciles' = reconciles - 1 /\ busy' = 0
    /\ Launch
    /\ UNCHANGED <<events, prober, stray, recoveries, loopVars, dockerVars>>

MarkFailed == st' = "Failed" /\ pc' = "idle"

EnsureImage ==
    /\ pc = "pulling"
    /\ \/ dockerUp /\ st' = "Starting" /\ pc' = "starting"
       \/ MarkFailed
    /\ UNCHANGED <<events, prober, stray, busy, recoveries, reconciles, loopVars, dockerVars>>

\* `docker rm -f`, then `docker run`.
Run ==
    /\ pc = "starting"
    /\ \/ dockerUp /\ container' \in {"well", "sick"} /\ st' = "Probing" /\ pc' = "probing"
       \/ container' = (IF dockerUp THEN "none" ELSE container) /\ MarkFailed
    /\ UNCHANGED <<events, prober, stray, busy, recoveries, reconciles, loopVars, dockerUp, outages>>

\* Mutant of FreshProber: the new prober goes on with the old one's tracker.
FreshProber_KeepsTracker == [prober EXCEPT !.on = TRUE, !.wait = Warmup]

FreshProber == [Off EXCEPT !.on = TRUE, !.wait = Warmup]

StartProber ==
    /\ pc = "probing"
    /\ Cancel /\ prober' = FreshProber
    /\ pc' = "idle"
    /\ UNCHANGED <<st, events, busy, recoveries, reconciles, loopVars, dockerVars>>

-----------------------------------------------------------------------------
(***************************************************************************)
(* recoverStopped, under s.mu.                                             *)
(***************************************************************************)
\* stillUnhealthy.
RecoverStopped ==
    /\ pc = "idle" /\ recoveries > 0
    /\ recoveries' = recoveries - 1 /\ busy' = 0
    /\ pc' = IF st = "Unhealthy" THEN "asking" ELSE "idle"
    /\ UNCHANGED <<st, events, prober, stray, reconciles, loopVars, dockerVars>>

\* Mutant of ContainerStopped: the running list is read the wrong way round.
ContainerStopped_Inverted == dockerUp /\ container # "none"

ContainerStopped == dockerUp /\ container = "none"

AskDocker ==
    /\ pc = "asking"
    /\ pc' = IF ContainerStopped THEN "restarting" ELSE "idle"
    /\ UNCHANGED <<st, events, prober, stray, busy, recoveries, reconciles, loopVars, dockerVars>>

\* Where Transition(StateRestarting) is legal.
CanRestart == st \in {"Healthy", "Unhealthy", "Failed", "Restarting"}

\* Mutant of Record: the window is never filled.
Record_Forgets == <<0>>

Record == SelectSeq(events, LAMBDA age : age < Window) \o <<0>>

Restart ==
    /\ pc = "restarting"
    /\ IF CanRestart
       THEN /\ st' = "Restarting"
            /\ events' = Record
            /\ pc' = IF Len(Record) >= StormMax THEN "storm" ELSE "relaunching"
       ELSE pc' = "idle" /\ UNCHANGED <<st, events>>
    /\ UNCHANGED <<prober, stray, busy, recoveries, reconciles, loopVars, dockerVars>>

Relaunch ==
    /\ pc = "relaunching"
    /\ Launch
    /\ UNCHANGED <<events, prober, stray, busy, recoveries, reconciles, loopVars, dockerVars>>

StopProber ==
    /\ pc = "storm"
    /\ Cancel /\ prober' = Off
    /\ pc' = "stormed"
    /\ UNCHANGED <<st, events, busy, recoveries, reconciles, loopVars, dockerVars>>

GiveUp ==
    /\ pc = "stormed" /\ MarkFailed
    /\ UNCHANGED <<events, prober, stray, busy, recoveries, reconciles, loopVars, dockerVars>>

-----------------------------------------------------------------------------
(***************************************************************************)
(* daemonLoop.                                                             *)
(***************************************************************************)
\* Mutant of FollowUp: the loop leaves before it has asked for a Reconcile.
FollowUp_Skipped == UNCHANGED reconciles

FollowUp == reconciles' = IF hadFailure THEN Another(reconciles) ELSE reconciles

Ping ==
    /\ loop = "on" /\ pingDue /\ pingDue' = FALSE
    /\ IF dockerUp
       THEN /\ FollowUp
            /\ hadFailure' = FALSE
            /\ loop' = IF st = "Healthy" THEN "leaving" ELSE "on"
       ELSE hadFailure' = TRUE /\ UNCHANGED <<reconciles, loop>>
    /\ UNCHANGED <<st, events, prober, stray, pc, busy, recoveries, dockerVars>>

\* The deferred reset, after the loop has seen the plugin healthy.
LoopLeaves ==
    /\ loop = "leaving" /\ loop' = "off"
    /\ UNCHANGED <<st, events, prober, stray, lockVars, pingDue, hadFailure, dockerVars>>

-----------------------------------------------------------------------------
(***************************************************************************)
(* The containers, the docker daemon and time.                             *)
(***************************************************************************)
ContainerChanges ==
    /\ container # "none"
    /\ container' \in {"none", "well", "sick"} \ {container}
    /\ UNCHANGED <<st, events, prober, stray, lockVars, loopVars, dockerUp, outages>>

DockerChanges ==
    /\ dockerUp' = ~dockerUp
    /\ outages' = IF dockerUp THEN outages + 1 ELSE outages
    /\ outages' <= MaxOutages
    /\ UNCHANGED <<st, events, prober, stray, lockVars, loopVars, container>>

\* What is due is done before time moves on.
Tick ==
    /\ ~Probing /\ stray = "none"
    /\ ~pingDue /\ loop # "leaving"
    /\ IF pc = "idle" THEN recoveries = 0 /\ reconciles = 0 ELSE busy < LaunchTicks
    /\ busy' = IF pc = "idle" THEN busy ELSE busy + 1
    /\ prober' = [prober EXCEPT !.wait = IF prober.on THEN @ - 1 ELSE @]
    /\ pingDue' = (loop = "on")
    /\ events' = [i \in DOMAIN events |-> IF events[i] < Window THEN events[i] + 1 ELSE Window]
    /\ UNCHANGED <<st, stray, pc, recoveries, reconciles, loop, hadFailure, dockerVars>>

System ==
    \/ ProbeSucceeds \/ ProbeFails \/ StrayReport
    \/ Reconcile \/ EnsureImage \/ Run \/ StartProber
    \/ RecoverStopped \/ AskDocker \/ Restart \/ Relaunch \/ StopProber \/ GiveUp
    \/ Ping \/ LoopLeaves
    \/ Tick

SupervisorNext == System \/ ContainerChanges \/ DockerChanges

(***************************************************************************)
(* The goroutines run and time passes; containers and the daemon owe       *)
(* nothing.                                                                *)
(***************************************************************************)
SupervisorSpec == SupervisorInit /\ [][SupervisorNext]_supervisorVars /\ WF_supervisorVars(System)

-----------------------------------------------------------------------------
SupervisorTypeOK ==
    /\ st \in States
    /\ events \in Seq(0..Window)
    /\ prober \in [on : BOOLEAN, wait : 0..Warmup \cup 0..Interval, failures : 0..Threshold,
                   last : {"none", "Healthy", "Unhealthy"}]
    /\ stray \in {"none", "Healthy", "Unhealthy"}
    /\ pc \in {"idle", "pulling", "starting", "probing", "asking", "restarting",
               "relaunching", "storm", "stormed"}
    /\ busy \in 0..LaunchTicks
    /\ recoveries \in 0..MaxWaiting /\ reconciles \in 0..MaxWaiting
    /\ loop \in {"off", "on", "leaving"}
    /\ pingDue \in BOOLEAN /\ hadFailure \in BOOLEAN
    /\ container \in {"none", "well", "sick"} /\ dockerUp \in BOOLEAN
    /\ outages \in 0..MaxOutages

(***************************************************************************)
(* A plugin that was given up leaves Failed only through the launch of a   *)
(* Reconcile: neither a late report, nor a recovery that was waiting for   *)
(* s.mu, brings it back (handleProbeState, stillUnhealthy).                *)
(***************************************************************************)
GivenUpStaysDown == [][st = "Failed" => st' \in {"Failed", "Pulling"}]_supervisorVars

(***************************************************************************)
(* What a report started is carried out, whoever has s.mu at the time: a   *)
(* recovery takes a stopped container out of Unhealthy if docker stays up  *)
(* (recoverStopped), and an outage the daemon loop has seen is followed by *)
(* a launch if docker comes back for good (daemonLoop).                    *)
(***************************************************************************)
RecoveryRuns ==
    /\ (recoveries > 0 /\ st = "Unhealthy" /\ container = "none")
          ~> (st # "Unhealthy" \/ ~dockerUp)
    /\ <>[]dockerUp => (hadFailure ~> st = "Pulling")

(***************************************************************************)
(* The prober reports changes only, so one report lost, or applied after a *)
(* later one, would be shown for good: once the container answers for      *)
(* good, the plugin is Healthy for good, or was given up.                  *)
(***************************************************************************)
StatusSettles ==
    <>[](container = "well" /\ dockerUp) => <>[](st \in {"Healthy", "Failed"})

(***************************************************************************)
(* Neither a restart that was begun nor the last report is lost.           *)
(***************************************************************************)
NothingIsLost == RecoveryRuns /\ StatusSettles

(***************************************************************************)
(* "a crash-looping plugin is not relaunched forever" (recovery.go:73): a  *)
(* plugin that is restarted again and again is Healthy again and again.    *)
(***************************************************************************)
CrashLoopEnds == []<>(st = "Restarting") => []<>(st = "Healthy")
=============================================================================
