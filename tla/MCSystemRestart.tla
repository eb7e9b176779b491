--------------------------- MODULE MCSystemRestart ---------------------------
(* Restart and stop around one tick and one override.  A third ticket is     *)
(* looked at only as long as the device answers: what a command of unknown   *)
(* fate does is seen with two.                                               *)
EXTENDS SystemRestart

Bounded == generation <= 2 \/ \A g \in Gen : outcome[g] # "unconfirmed"

MCNext == SRNext /\ Bounded'
MCSpec == SRInit /\ [][MCNext]_srVars /\ WF_srVars(WatchdogFires)
=============================================================================
