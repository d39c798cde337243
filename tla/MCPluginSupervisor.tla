-------------------------- MODULE MCPluginSupervisor --------------------------
(***************************************************************************)
(* PluginSupervisor for TLC.  MCPluginSupervisor.cfg sets a storm window   *)
(* that spans StormMax restarts, launches of up to a tick included;        *)
(* MCPluginSupervisorDefaults.cfg takes the tunables of tunables.go, in    *)
(* ticks of ten seconds, and launches that take no time.                   *)
(***************************************************************************)
EXTENDS PluginSupervisor

\* tunables.go:15-19, with daemon.go's ping interval of ten seconds as a tick.
DefaultWarmup == 10 \div 10
DefaultInterval == 30 \div 10
DefaultThreshold == 3
DefaultWindow == 60 \div 10
DefaultStormMax == 3
=============================================================================
