---------------------------- MODULE MCBroadcaster ----------------------------
(* Two clients of one run, and caps small enough that both evictions, a     *)
(* batch of several frames, a dropped subscriber and a late joiner happen   *)
(* within four events.                                                      *)
EXTENDS Broadcaster

CONSTANTS c1, c2

MCSubs == {c1, c2}
MCSizes == {1, 5}
=============================================================================
