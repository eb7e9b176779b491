---------------------------- MODULE ModeController ----------------------------
(***************************************************************************)
(* ModeController (src/ems/control/mode_controller.py): which commands may *)
(* reach the battery (dwell, the two daily caps and their bypasses), what  *)
(* is remembered of their outcome, and how that memory survives a crash    *)
(* and a restart through ControlStateStore (storage/control_state.py).     *)
(*                                                                         *)
(* Commands are issued one at a time (module CommandFence).  A command has *)
(* two steps: Decide passes the gate and calls the driver, Answer records  *)
(* what the driver made of it; the process may die in between.  A decision *)
(* the gate blocks changes nothing and is not a step; neither is any       *)
(* decision in dry-run or outside CONTROLLING.                             *)
(***************************************************************************)
EXTENDS Integers

CONSTANTS Mode,            \* the physical modes considered
          MinDwell,        \* min_dwell
          LocalDate,       \* the local date of a time (the site's time zone)
          RoutineCap,      \* max_switches_per_day
          CommitmentCap,   \* max_commitment_switches_per_day
          MaxTime,         \* bound on the clock
          MaxCount,        \* bound on the writes counted on one day
          MaxFaults        \* bound on crashes and failed reads and writes

ASSUME TimesAreNat ==
    /\ MinDwell \in Nat
    /\ MaxTime \in Nat

ASSUME CapsAreNat ==
    /\ RoutineCap \in Nat
    /\ CommitmentCap \in Nat
    /\ MaxCount \in Nat
    /\ MaxFaults \in Nat

AUTO == "auto"
CHARGE == "charge"
IDLE == "idle"
DISCHARGE == "discharge"
NoMode == "none"

ASSUME ModesAreKnown ==
    /\ {AUTO, CHARGE, IDLE} \subseteq Mode
    /\ Mode \subseteq {AUTO, CHARGE, IDLE, DISCHARGE}

Never == -1              \* None for a time or a date
Time == 0 .. MaxTime
Day  == {LocalDate[t] : t \in Time}

(* The local date never goes back. *)
ASSUME DatesAreOrdered ==
    /\ LocalDate \in [Time -> Nat]
    /\ \A s, t \in Time : s <= t => LocalDate[s] <= LocalDate[t]

(* What a caller asks of decide().  bypass: manual or priority; counts:    *)
(* count_toward_cap.  A committed grid charge is the one that asks for     *)
(* CHARGE.  The car session's commands do not count and may be forced.     *)
PlanCommand == [desired : Mode, bypass : BOOLEAN, counts : {TRUE}, force : {FALSE}]
CarCommand ==
    [desired : {DISCHARGE} \cap Mode, bypass : {TRUE}, counts : {FALSE}, force : {TRUE}]
    \cup [desired : {IDLE}, bypass : {TRUE}, counts : {FALSE}, force : {FALSE}]

(* An AUTO applied straight through the driver: overrun recovery, startup  *)
(* fail-safe.                                                              *)
DirectAuto == [desired |-> AUTO, bypass |-> TRUE, counts |-> FALSE, force |-> TRUE]

Command == PlanCommand \cup CarCommand \cup {DirectAuto}
NoCommand == [desired |-> NoMode, bypass |-> FALSE, counts |-> FALSE, force |-> FALSE]

VARIABLES
    now,
    up,                  \* the process runs
    switches,            \* switches_today
    commitments,         \* commitment_switches_today
    lastSwitchAt,
    counterDate,
    lastRequested,
    lastConfirmed,
    originalMode,        \* original_vendor_mode: none, or whose choice it was
    unconfirmed,         \* last_command_unconfirmed
    command, commandAt,  \* the command the driver works on, and its `now`
    disk,                \* the persisted snapshot
    faults,              \* crashes, and failed reads and writes, so far
    \* history
    taken,               \* EMS has sent a command other than AUTO
    routineSent,         \* automatic routine commands sent, per local day
    commitmentSent,      \* automatic committed charges sent, per local day
    lastCounted,         \* when the last counted command was sent
    commandUnknown,      \* the last command sent was not (yet) confirmed
    lost                 \* a process died without having saved its state,
                         \* or the saved state could not be read

counters  == <<switches, commitments, lastSwitchAt, counterDate>>
beliefs   == <<lastRequested, lastConfirmed, originalMode, unconfirmed>>
sent      == <<routineSent, commitmentSent, lastCounted, taken>>
vars == <<now, faults, up, counters, beliefs, command, commandAt, disk, sent,
          commandUnknown, lost>>

(* state_snapshot() *)
Snapshot ==
    [switches |-> switches, commitments |-> commitments,
     lastSwitchAt |-> lastSwitchAt, counterDate |-> counterDate,
     lastRequested |-> lastRequested, lastConfirmed |-> lastConfirmed,
     originalMode |-> originalMode, unconfirmed |-> unconfirmed]

(* The fields of a controller that has nothing to restore; an absent row   *)
(* in the store is the same as this one.                                   *)
Fresh ==
    [switches |-> 0, commitments |-> 0, lastSwitchAt |-> Never, counterDate |-> Never,
     lastRequested |-> NoMode, lastConfirmed |-> NoMode,
     originalMode |-> NoMode, unconfirmed |-> FALSE]

Init ==
    /\ now = 0
    /\ up = TRUE
    /\ switches = 0
    /\ commitments = 0
    /\ lastSwitchAt = Never
    /\ counterDate = Never
    /\ lastRequested = NoMode
    /\ lastConfirmed = NoMode
    /\ originalMode = NoMode
    /\ unconfirmed = FALSE
    /\ command = NoCommand
    /\ commandAt = Never
    /\ disk = Fresh
    /\ faults = 0
    /\ routineSent = [d \in Day |-> 0]
    /\ commitmentSent = [d \in Day |-> 0]
    /\ lastCounted = Never
    /\ taken = FALSE
    /\ commandUnknown = FALSE
    /\ lost = FALSE
-----------------------------------------------------------------------------
Fault == faults < MaxFaults /\ faults' = faults + 1

Today == LocalDate[now]

(* _effective_switches(), _effective_commitment_switches() *)
NewDay == counterDate # Today
Effective(count) == IF NewDay /\ counterDate # Never THEN 0 ELSE count

DwellElapsed == lastSwitchAt = Never \/ now - lastSwitchAt >= MinDwell

(* Mutant: the write that exceeds the cap still passes. *)
MutCapReached(desired) ==
    IF desired = CHARGE THEN Effective(commitments) > CommitmentCap
                        ELSE Effective(switches) > RoutineCap

CapReached(desired) ==
    IF desired = CHARGE THEN Effective(commitments) >= CommitmentCap
                        ELSE Effective(switches) >= RoutineCap

(* The planner's own churn, which the gates are for. *)
Automatic(cmd) == ~cmd.bypass /\ cmd.desired # AUTO

(* A confirmed charge the vendor reports as IDLE is not sent again. *)
HoldsCharge(cmd, observed) ==
    /\ ~cmd.force
    /\ cmd.desired = CHARGE
    /\ observed = IDLE
    /\ lastRequested = CHARGE
    /\ lastConfirmed = CHARGE

(* _gate(): observed may be stale or a transient the vendor shows. *)
GateOpen(cmd, observed) ==
    /\ cmd.desired # observed \/ cmd.force
    /\ ~HoldsCharge(cmd, observed)
    /\ Automatic(cmd) => DwellElapsed /\ ~CapReached(cmd.desired)

Count(sentPerDay, isOne) ==
    IF isOne THEN [sentPerDay EXCEPT ![Today] = @ + 1] ELSE sentPerDay

SendCommand(cmd) ==
    /\ command' = cmd
    /\ commandAt' = now
    /\ commandUnknown' = TRUE
    /\ routineSent' = Count(routineSent, Automatic(cmd) /\ cmd.desired # CHARGE)
    /\ commitmentSent' = Count(commitmentSent, Automatic(cmd) /\ cmd.desired = CHARGE)
    /\ lastCounted' = IF cmd.counts THEN now ELSE lastCounted
    /\ taken' = (taken \/ cmd.desired # AUTO)

(* Whose choice driver.current_mode() finds on the battery; reading it may *)
(* fail.                                                                   *)
CurrentMode == IF taken THEN "ems" ELSE "vendor"

CaptureOriginal ==
    \/ originalMode = NoMode /\ originalMode' = CurrentMode /\ UNCHANGED faults
    \/ originalMode = NoMode /\ Fault /\ UNCHANGED originalMode
    \/ originalMode # NoMode /\ UNCHANGED <<originalMode, faults>>

(* decide() up to driver.apply(). *)
Decide(cmd, observed) ==
    /\ up
    /\ command = NoCommand
    /\ Effective(switches) < MaxCount /\ Effective(commitments) < MaxCount
    /\ GateOpen(cmd, observed)
    /\ switches' = IF NewDay THEN 0 ELSE switches
    /\ commitments' = IF NewDay THEN 0 ELSE commitments
    /\ counterDate' = Today
    /\ CaptureOriginal
    /\ lastRequested' = cmd.desired
    /\ SendCommand(cmd)
    /\ UNCHANGED <<now, up, lastSwitchAt, lastConfirmed, unconfirmed,
                   disk, lost>>

(* An AUTO worker (service.py _overrun_auto_worker) or                     *)
(* _startup_safe_auto_if_needed() calls driver.apply(AUTO).                *)
SendAuto ==
    /\ up
    /\ command = NoCommand
    /\ SendCommand(DirectAuto)
    /\ UNCHANGED <<now, faults, up, counters, beliefs, disk, lost>>

(* _persist() is best-effort: after its last attempt the store gives up    *)
(* without raising.                                                        *)
Persist ==
    \/ disk' = Snapshot' /\ UNCHANGED faults
    \/ disk' = disk /\ Fault

RecordSwitch ==
    IF ~command.counts
    THEN UNCHANGED <<switches, commitments, lastSwitchAt>>
    ELSE /\ lastSwitchAt' = commandAt
         /\ switches' = IF command.desired \in {AUTO, CHARGE} THEN switches
                                                              ELSE switches + 1
         /\ commitments' = IF command.desired = CHARGE THEN commitments + 1
                                                       ELSE commitments

Answered ==
    /\ up
    /\ command # NoCommand
    /\ command' = NoCommand
    /\ commandAt' = Never
    /\ UNCHANGED <<now, up, counterDate, lastRequested, originalMode, sent, lost>>

Accepted ==
    /\ Answered
    /\ RecordSwitch
    /\ lastConfirmed' = command.desired
    /\ unconfirmed' = FALSE
    /\ commandUnknown' = FALSE
    /\ Persist

(* A timeout: the command is left as it is.  For a DirectAuto a rejection  *)
(* is recorded the same way, by note_overrun_recovery().                   *)
Unconfirmed ==
    /\ Answered
    /\ RecordSwitch
    /\ unconfirmed' = TRUE
    /\ UNCHANGED <<lastConfirmed, commandUnknown>>
    /\ Persist

(* Mutant: an AUTO fallback that failed as well raises no flag. *)
MutRejected ==
    /\ Answered
    /\ command # DirectAuto
    /\ RecordSwitch
    /\ \/ /\ lastConfirmed' = AUTO
          /\ commandUnknown' = FALSE
       \/ /\ lastConfirmed' = NoMode
          /\ UNCHANGED commandUnknown
    /\ unconfirmed' = FALSE
    /\ Persist

(* A rejection, answered by AUTO; the AUTO may fail as well. *)
Rejected ==
    /\ Answered
    /\ command # DirectAuto
    /\ RecordSwitch
    /\ \/ /\ lastConfirmed' = AUTO
          /\ unconfirmed' = FALSE
          /\ commandUnknown' = FALSE
       \/ /\ lastConfirmed' = NoMode
          /\ unconfirmed' = TRUE
          /\ UNCHANGED commandUnknown
    /\ Persist

(* The process dies, perhaps while the driver works.                       *)
Crash ==
    /\ up
    /\ Fault
    /\ up' = FALSE
    /\ lost' = (lost \/ command # NoCommand \/ disk # Snapshot)
    /\ command' = NoCommand
    /\ commandAt' = Never
    /\ UNCHANGED <<now, counters, beliefs, disk, sent, commandUnknown>>

(* Mutant: a restart forgets the dwell. *)
MutRestore(state) ==
    /\ switches' = state.switches
    /\ commitments' = state.commitments
    /\ lastSwitchAt' = Never
    /\ counterDate' = state.counterDate
    /\ lastRequested' = state.lastRequested
    /\ lastConfirmed' = state.lastConfirmed
    /\ originalMode' = state.originalMode
    /\ unconfirmed' = state.unconfirmed

Restore(state) ==
    /\ switches' = state.switches
    /\ commitments' = state.commitments
    /\ lastSwitchAt' = state.lastSwitchAt
    /\ counterDate' = state.counterDate
    /\ lastRequested' = state.lastRequested
    /\ lastConfirmed' = state.lastConfirmed
    /\ originalMode' = state.originalMode
    /\ unconfirmed' = state.unconfirmed

(* CONTROL_STATE_CORRUPT, a row or a database that cannot be read: only    *)
(* that the last command is not known to hold.                             *)
Corrupt == [Fresh EXCEPT !.unconfirmed = TRUE]

(* restore_state(load()) at boot. *)
Boot ==
    /\ ~up
    /\ up' = TRUE
    /\ \/ Restore(disk) /\ UNCHANGED <<faults, lost>>
       \/ /\ Restore(Corrupt)
          /\ Fault
          /\ lost' = TRUE
    /\ UNCHANGED <<now, command, commandAt, disk, sent, commandUnknown>>

TimePasses ==
    /\ now < MaxTime
    /\ now' = now + 1
    /\ UNCHANGED <<faults, up, counters, beliefs, command, commandAt,
                   disk, sent, commandUnknown, lost>>

Next ==
    \/ \E cmd \in PlanCommand \cup CarCommand, observed \in Mode : Decide(cmd, observed)
    \/ SendAuto
    \/ Accepted \/ Unconfirmed \/ Rejected
    \/ Crash \/ Boot
    \/ TimePasses

Spec == Init /\ [][Next]_vars
-----------------------------------------------------------------------------
State ==
    [switches : Nat, commitments : Nat, lastSwitchAt : Time \cup {Never},
     counterDate : Day \cup {Never}, lastRequested : Mode \cup {NoMode},
     lastConfirmed : Mode \cup {NoMode}, originalMode : {NoMode, "vendor", "ems"},
     unconfirmed : BOOLEAN]

TypeOK ==
    /\ now \in Time
    /\ faults \in Nat
    /\ taken \in BOOLEAN
    /\ up \in BOOLEAN
    /\ Snapshot \in State
    /\ disk \in State
    /\ command \in Command \cup {NoCommand}
    /\ commandAt \in Time \cup {Never}
    /\ routineSent \in [Day -> Nat]
    /\ commitmentSent \in [Day -> Nat]
    /\ lastCounted \in Time \cup {Never}
    /\ commandUnknown \in BOOLEAN
    /\ lost \in BOOLEAN

(* However often the process restarts, the planner sends at most so many   *)
(* routine commands on a local day, and so many committed charges, as long *)
(* as no process died without saving what it had sent.                     *)
WithinCaps ==
    \A d \in Day : routineSent[d] <= RoutineCap /\ commitmentSent[d] <= CommitmentCap
DailyCapsHold == ~lost => WithinCaps

(* An automatic command comes at least the dwell after the last counted    *)
(* one, whoever sent that, also across a restart and across midnight.      *)
AutomaticCommandsDwell ==
    [][\A cmd \in PlanCommand :
          command = NoCommand /\ command' = cmd /\ Automatic(cmd) /\ ~lost =>
              lastCounted = Never \/ now - lastCounted >= MinDwell]_vars

(* The restart gate's flag is raised whenever the fate of the last command *)
(* is not known, also by the process that restored it from the store.      *)
UnknownFateFlagged == up /\ command = NoCommand /\ commandUnknown => unconfirmed
UnknownRemembered == ~lost => UnknownFateFlagged
-----------------------------------------------------------------------------
(***************************************************************************)
(* The inductive invariant (proved in ModeController_proofs): what the     *)
(* running process remembers, or else the row it will restore, accounts    *)
(* for every command sent.                                                 *)
(***************************************************************************)
PendingRoutine ==
    IF command.counts /\ command.desired \notin {AUTO, CHARGE} THEN 1 ELSE 0
PendingCommitment == IF command.counts /\ command.desired = CHARGE THEN 1 ELSE 0

Accounts(date, routine, committed) ==
    /\ date <= Today
    /\ \A d \in Day : d > date => routineSent[d] = 0 /\ commitmentSent[d] = 0
    /\ \A d \in Day : d = date => routineSent[d] <= routine /\ commitmentSent[d] <= committed

CountsRemembered ==
    ~lost => IF up THEN Accounts(counterDate, switches + PendingRoutine,
                                 commitments + PendingCommitment)
                   ELSE Accounts(disk.counterDate, disk.switches, disk.commitments)

DwellRemembered ==
    ~lost => lastCounted = IF ~up THEN disk.lastSwitchAt
                           ELSE IF command.counts THEN commandAt ELSE lastSwitchAt

FateRemembered ==
    ~lost /\ commandUnknown =>
        IF up THEN command # NoCommand \/ unconfirmed ELSE disk.unconfirmed

CommandWhileUp == ~up => command = NoCommand

IInv ==
    /\ TypeOK
    /\ CommandWhileUp
    /\ CountsRemembered
    /\ DwellRemembered
    /\ FateRemembered
    /\ DailyCapsHold
=============================================================================
