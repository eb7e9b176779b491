---------------------------- MODULE SystemRestart ----------------------------
(***************************************************************************)
(* How the process goes down around a battery that may be charging: the    *)
(* restart an administrator asks for (src/ems/web/api.py system_restart,   *)
(* _do_restart_trigger, _restart_watchdog), and the graceful stop that any *)
(* SIGTERM starts (_shutdown_restore).  Both run beside the control cycles *)
(* of module ControlCycle.                                                 *)
(*                                                                         *)
(* phase of the process:                                                   *)
(*   up         serving                                                    *)
(*   signalled  SIGTERM arrived; uvicorn lets the open requests finish     *)
(*   restoring  the lifespan awaits restore_for_shutdown()                 *)
(*   skipped, restored, unrestored                                         *)
(*              _shutdown_restore() returned: nothing to do, AUTO          *)
(*              confirmed, or not; the lifespan awaits the control loop    *)
(***************************************************************************)
EXTENDS ControlCycle

CONSTANT Restarts       \* restart requests, each submitted at most once

VARIABLES
    phase,
    request,            \* state of each restart request
    restartRequested,   \* app.state._restart_requested
    committed,          \* app.state._restart_committed
    watchdog,           \* a _restart_watchdog task sleeps
    restoreTicket       \* the SHUTDOWN ticket

restartVars == <<phase, request, restartRequested, committed, watchdog,
                 restoreTicket>>

serviceVars == <<loopVars, boxVars, deviceVars, history>>

srVars == <<vars, restartVars>>

SRInit ==
    /\ Init
    /\ phase = "up"
    /\ request = [r \in Restarts |-> "idle"]
    /\ restartRequested = FALSE
    /\ committed = FALSE
    /\ watchdog = FALSE
    /\ restoreTicket = None
-----------------------------------------------------------------------------
(* Restart requests                                                        *)

BelievedAuto == lastConfirmed \in {AUTO, NoMode}

(* Mutant: outstanding tickets are no obstacle. *)
MutIdleForRestart == ~draining /\ ~unconfirmed /\ BelievedAuto

(* idle_for_restart() *)
IdleForRestart == ~draining /\ tickets = {} /\ ~unconfirmed /\ BelievedAuto

(* Mutant: nobody watches over the granted restart. *)
MutRequestRestart(r) ==
    /\ phase = "up"
    /\ request[r] = "idle"
    /\ ~restartRequested
    /\ IdleForRestart
    /\ restartRequested' = TRUE
    /\ F!MarkDraining
    /\ committed' = FALSE
    /\ request' = [request EXCEPT ![r] = "auditing"]
    /\ UNCHANGED <<serviceVars, phase, watchdog, restoreTicket>>

(* Latch, gate, draining and watchdog without an await between them; then  *)
(* the request awaits its audit row.  A refused request changes nothing.   *)
RequestRestart(r) ==
    /\ phase = "up"
    /\ request[r] = "idle"
    /\ ~restartRequested
    /\ IdleForRestart
    /\ restartRequested' = TRUE
    /\ F!MarkDraining
    /\ committed' = FALSE
    /\ watchdog' = TRUE
    /\ request' = [request EXCEPT ![r] = "auditing"]
    /\ UNCHANGED <<serviceVars, phase, restoreTicket>>

(* The client goes away before the body is sent: the trigger never runs. *)
AbortRequest(r) ==
    /\ request[r] = "auditing"
    /\ request' = [request EXCEPT ![r] = "over"]
    /\ UNCHANGED <<fenceVars, serviceVars, phase, restartRequested, committed,
                   watchdog, restoreTicket>>

(* The body is sent and the background task runs: the SIGTERM goes out ... *)
TriggerRestart(r) ==
    /\ request[r] = "auditing"
    /\ request' = [request EXCEPT ![r] = "over"]
    /\ committed' = TRUE
    /\ watchdog' = FALSE
    /\ phase' = IF phase = "up" THEN "signalled" ELSE phase
    /\ UNCHANGED <<fenceVars, serviceVars, restartRequested, restoreTicket>>

(* ... or request_restart() raises and the flags are cleared. *)
TriggerFails(r) ==
    /\ request[r] = "auditing"
    /\ request' = [request EXCEPT ![r] = "over"]
    /\ committed' = TRUE
    /\ watchdog' = FALSE
    /\ restartRequested' = FALSE
    /\ F!ClearDraining
    /\ UNCHANGED <<serviceVars, phase, restoreTicket>>

(* The watchdog's sleep ends; nothing but a commit keeps it from clearing. *)
WatchdogFires ==
    /\ watchdog
    /\ watchdog' = FALSE
    /\ IF committed THEN UNCHANGED <<restartRequested, fenceVars>>
                    ELSE restartRequested' = FALSE /\ F!ClearDraining
    /\ UNCHANGED <<serviceVars, phase, request, committed, restoreTicket>>
-----------------------------------------------------------------------------
(* Graceful stop                                                           *)

(* An upgrade, a reboot or launchd stops the process. *)
ExternalSigterm ==
    /\ phase = "up"
    /\ phase' = "signalled"
    /\ UNCHANGED <<fenceVars, serviceVars, request, restartRequested, committed,
                   watchdog, restoreTicket>>

(* Mutant: the stop does not drain. *)
MutBeginShutdownUndrained ==
    /\ phase = "signalled"
    /\ \A r \in Restarts : request[r] # "auditing"
    /\ \A c \in Overrides : pc[c] # "saved"
    /\ phase' = IF BelievedAuto /\ tickets = {} THEN "skipped" ELSE "restoring"
    /\ UNCHANGED <<fenceVars, serviceVars, request, restartRequested, committed,
                   watchdog, restoreTicket>>

(* No request is open any more: stop.set(), then _shutdown_restore() up to *)
(* its first await.                                                        *)
BeginShutdown ==
    /\ phase = "signalled"
    /\ \A r \in Restarts : request[r] # "auditing"
    /\ \A c \in Overrides : pc[c] # "saved"
    /\ F!MarkDraining
    /\ phase' = IF BelievedAuto /\ tickets = {} THEN "skipped" ELSE "restoring"
    /\ UNCHANGED <<serviceVars, request, restartRequested, committed, watchdog,
                   restoreTicket>>

(* restore_for_shutdown(), in a thread of its own. *)
ReserveShutdown ==
    /\ phase = "restoring"
    /\ restoreTicket = None
    /\ F!Reserve(F!SHUTDOWN)
    /\ restoreTicket' = generation + 1
    /\ UNCHANGED <<serviceVars, phase, request, restartRequested, committed, watchdog>>

(* The write between Enter and Leave is ControlCycle's DriverWrites. *)
RestoreRuns ==
    /\ restoreTicket # None
    /\ \/ F!Enter(restoreTicket)
       \/ F!EnterRefused(restoreTicket)
       \/ F!EnterWait(restoreTicket)
       \/ F!EnterTimeout(restoreTicket)
       \/ outcome[restoreTicket] # Pending /\ F!Leave(restoreTicket)
       \/ thread[restoreTicket] # "reserved" /\ F!Release(restoreTicket)
    /\ UNCHANGED <<serviceVars, restartVars>>

(* The restore returned; a confirmed AUTO is recorded and persisted. *)
RestoreReturns ==
    /\ phase = "restoring"
    /\ restoreTicket # None
    /\ thread[restoreTicket] = "released"
    /\ IF outcome[restoreTicket] = "applied"
       THEN /\ phase' = "restored"
            /\ lastConfirmed' = AUTO
            /\ unconfirmed' = FALSE
       ELSE /\ phase' = "unrestored"
            /\ UNCHANGED <<lastConfirmed, unconfirmed>>
    /\ UNCHANGED <<fenceVars, loopVars, boxVars, target, outcome, device, history,
                   request, restartRequested, committed, watchdog, restoreTicket>>

(* wait_for(..., 125 s) gives the restore up; its thread runs on. *)
RestoreTimeout ==
    /\ phase = "restoring"
    /\ phase' = "unrestored"
    /\ UNCHANGED <<fenceVars, serviceVars, request, restartRequested, committed,
                   watchdog, restoreTicket>>
-----------------------------------------------------------------------------
(* uvicorn accepts no request after the signal, and the periodic loop ends *)
(* at its next sleep after stop.set().                                     *)
Service ==
    /\ \/ phase = "up" /\ \E c \in Overrides : SaveOverride(c)
       \/ phase \in {"up", "signalled"} /\ StartPeriodic
       \/ Ongoing
    /\ UNCHANGED restartVars

SRNext ==
    \/ Service
    \/ \E r \in Restarts :
          RequestRestart(r) \/ AbortRequest(r) \/ TriggerRestart(r) \/ TriggerFails(r)
    \/ WatchdogFires
    \/ ExternalSigterm
    \/ BeginShutdown
    \/ ReserveShutdown
    \/ RestoreRuns
    \/ RestoreReturns
    \/ RestoreTimeout

SRSpec == SRInit /\ [][SRNext]_srVars

(* The watchdog's timer fires. *)
SRFairSpec == SRSpec /\ WF_srVars(WatchdogFires)
-----------------------------------------------------------------------------
SRTypeOK ==
    /\ TypeOK
    /\ phase \in {"up", "signalled", "restoring", "skipped", "restored", "unrestored"}
    /\ request \in [Restarts -> {"idle", "auditing", "over"}]
    /\ restartRequested \in BOOLEAN
    /\ committed \in BOOLEAN
    /\ watchdog \in BOOLEAN
    /\ restoreTicket \in F!GenOrNone

(* What the restart gate saw stays true until the process goes down or the *)
(* restart is called off: no writer, nothing unconfirmed, battery in AUTO  *)
(* as far as EMS knows (api.py: the snapshot cannot change underfoot).     *)
QuietWhileRestarting ==
    restartRequested /\ phase = "up" => draining /\ tickets = {} /\ ~unconfirmed /\ BelievedAuto

(* A restart that was granted never wedges the controller: the process     *)
(* goes down or draining is lifted again, even when the client vanishes.   *)
RestartNeverWedges == []<>(~draining \/ phase # "up")

(* The restore is the final command of the process (restore_for_shutdown:  *)
(* it lands after any unkillable stale call and remains the final command),*)
(* and as long as the drain is in force nothing starts either after a stop *)
(* that saw nothing to restore.                                            *)
StopIsFinal ==
    [][\A g \in Gen : F!Starts(g) =>
          phase # "restored" /\ (phase = "skipped" => ~draining)]_srVars

(* Admission is frozen before the stop inspects the controller's state     *)
(* (_shutdown_restore), so what made it skip the restore stays true: no    *)
(* command starts after it.                                                *)
SkipIsFinal == [][\A g \in Gen : F!Starts(g) => phase # "skipped"]_srVars

(* What the next process will read back as confirmed is what the battery   *)
(* was left in.                                                            *)
RestoredIsAuto == phase = "restored" => device = AUTO

(* What a restart and a stop act on, and what they leave behind, is so.    *)
RestartConsistent == SRTypeOK /\ QuietWhileRestarting /\ RestoredIsAuto

(* EMS itself has sent the battery a command other than AUTO. *)
CommandedAway ==
    \E g \in Gen : target[g] \in Mode \ {AUTO} /\ outcome[g] \notin {Pending, "gated"}

(* A graceful stop does not leave the battery in a forced mode EMS put it  *)
(* in (_shutdown_restore: an upgrade/reboot/launchd restart can't leave it *)
(* in a forced charge/hold/discharge).                                     *)
StopLeavesNoForcedMode == phase = "skipped" /\ CommandedAway => device = AUTO
-----------------------------------------------------------------------------
(***************************************************************************)
(* The inductive invariant behind RestartConsistent and StopIsFinal        *)
(* (proved in SystemRestart_proofs, on top of ControlCycle's Owned).       *)
(***************************************************************************)
Stopping == {"restoring", "restored", "unrestored"}

(* Whoever lifts the drain takes the restart back with it, so a restart    *)
(* that still stands has found the service idle and kept it so.            *)
RestartKeepsQuiet ==
    /\ watchdog => restartRequested
    /\ restartRequested /\ phase \notin Stopping =>
          draining /\ tickets = {} /\ ~unconfirmed /\ BelievedAuto

(* A stop that has something to restore found no restart pending: nobody   *)
(* is left to lift its drain.                                              *)
StopStaysDrained ==
    /\ phase \in Stopping => draining /\ ~restartRequested
    /\ phase \notin {"up", "signalled"} => \A r \in Restarts : request[r] # "auditing"
    /\ phase = "skipped" /\ draining => tickets = {}

(* The restore is the newest ticket for good, so once it writes nobody     *)
(* else does, before or after.                                             *)
RestoreComesLast ==
    /\ restoreTicket # None =>
          /\ phase \in Stopping
          /\ restoreTicket = generation
          /\ commandClass[restoreTicket] = F!SHUTDOWN
          /\ active = restoreTicket \/ outcome[restoreTicket] # Pending =>
                lastEntered = restoreTicket /\ active \in {None, restoreTicket}
          /\ outcome[restoreTicket] = "applied" => device = AUTO
    /\ phase = "restored" => restoreTicket # None /\ outcome[restoreTicket] = "applied"

RInv == SRTypeOK /\ Owned /\ RestartKeepsQuiet /\ StopStaysDrained /\ RestoreComesLast
=============================================================================
