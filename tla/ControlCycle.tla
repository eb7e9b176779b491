---------------------------- MODULE ControlCycle ----------------------------
(***************************************************************************)
(* ControlService.run_cycle() and everything that can write to the battery *)
(* while the service is up (src/ems/control/service.py): the periodic      *)
(* tick, the cycles spawned by operator overrides, and the AUTO recovery   *)
(* of a cycle that outlived its budget.                                    *)
(*                                                                         *)
(* Cycles are coroutines on one event loop: what a cycle does between two  *)
(* awaits is one action.  The writes themselves happen in worker threads   *)
(* (asyncio.to_thread), which a timeout abandons but never stops; they go  *)
(* through the command fence (module CommandFence, whose variables these   *)
(* are).  A wait_for() timeout may fire at any time.                       *)
(*                                                                         *)
(* pc of a cycle:                                                          *)
(*   idle      not running: the periodic loop sleeps, or no request yet    *)
(*   saved     override stored in the box, the request awaits its audit    *)
(*   task      run_cycle task exists, up to the end of its first await     *)
(*   lock      queued for control_lock, or holding it and refreshing       *)
(*   running   awaits its tick worker                                      *)
(*   overrun   awaits the audit row of its overrun                         *)
(*   recovering awaits its AUTO worker                                     *)
(*   done      an override cycle that ended                                *)
(***************************************************************************)
EXTENDS Naturals, Sequences, FiniteSets

CONSTANTS MaxGeneration,   \* bound on the tickets issued in a behaviour
          MaxTicks,        \* bound on the periodic ticks
          Overrides,       \* operator requests, each submitted at most once
          Mode,            \* the battery's logical modes considered
          Outcome          \* what the driver may make of a command

Periodic == "periodic"
Cycles == {Periodic} \cup Overrides

ASSUME OverridesAreFinite == IsFiniteSet(Overrides) /\ Periodic \notin Overrides

ASSUME BoundsAreNat == MaxTicks \in Nat /\ MaxGeneration \in Nat

(* A cycle uses at most two tickets, its own and a recovery: with so many  *)
(* the bound on tickets never stops a cycle half-way (liveness needs it).  *)
EnoughTickets == MaxGeneration >= 2 * (MaxTicks + Cardinality(Overrides))

AUTO == "auto"
NoMode == "none"           \* None in the code: nothing confirmed yet
Undecided == "undecided"   \* the tick worker has not read the intent yet
NoCommand == "no_command"  \* the tick ends without reaching its write

(* Outcome of decide() in the fence: nothing written because a gate (dwell, *)
(* cap, idempotency) held; applied; rejected, with the AUTO fallback        *)
(* confirmed or not; or no answer in time.                                  *)
ASSUME ModesAndOutcomes ==
    /\ AUTO \in Mode /\ {NoMode, Undecided, NoCommand} \cap Mode = {}
    /\ Outcome \subseteq {"gated", "applied", "recovered", "unrecovered",
                          "unconfirmed"}
    /\ "applied" \in Outcome

VARIABLES
    \* the command fence
    generation, tickets, commandClass, superseded, active, recoveries,
    recoveryForToken, draining, thread, lastEntered, givenUp,
    \* the event loop
    pc,              \* where each cycle is
    token,           \* cycle_token: the ticket of the cycle's tick worker
    recovery,        \* recovery_token of the cycle's overrun
    suppressed,      \* recovery_suppressed
    lockQueue,       \* control_lock: its holder first, then the waiters
    spawned,         \* tickets whose worker thread has been created
    ticks,           \* periodic ticks started
    version,         \* override_box: the number of the override it holds
    controlling,     \* lifecycle.can_command()
    \* the tick worker, the controller and the device
    target,          \* the mode the worker of a ticket is about to apply
    outcome,         \* what the driver made of it
    device,          \* the battery's real mode
    lastConfirmed,   \* controller.last_confirmed_action
    unconfirmed,     \* controller.last_command_unconfirmed
    \* history
    reservedVersion, \* version when the newest override slot was reserved
    seen             \* version a ticket's worker read from the box

F == INSTANCE CommandFence

fenceVars  == <<generation, tickets, commandClass, superseded, active, recoveries,
                recoveryForToken, draining, thread, lastEntered, givenUp>>
loopVars   == <<pc, token, recovery, suppressed, lockQueue, spawned>>
boxVars    == <<ticks, version, controlling>>
deviceVars == <<target, outcome, device, lastConfirmed, unconfirmed>>
history    == <<reservedVersion, seen>>
vars == <<fenceVars, loopVars, boxVars, deviceVars, history>>

Gen  == F!Gen
None == F!None

Pending == "pending"       \* no outcome yet

Init ==
    /\ F!Init
    /\ pc = [c \in Cycles |-> "idle"]
    /\ token = [c \in Cycles |-> None]
    /\ recovery = [c \in Cycles |-> None]
    /\ suppressed = [c \in Cycles |-> FALSE]
    /\ lockQueue = <<>>
    /\ spawned = {}
    /\ ticks = 0
    /\ version = 0
    /\ controlling \in BOOLEAN
    /\ target = [g \in Gen |-> Undecided]
    /\ outcome = [g \in Gen |-> Pending]
    /\ device \in Mode
    /\ lastConfirmed = NoMode
    /\ unconfirmed = FALSE
    /\ reservedVersion = 0
    /\ seen = [g \in Gen |-> 0]
-----------------------------------------------------------------------------
(* Operator requests (web/api.py set_override).                            *)

(* The new intent (or its absence) is put in the box, then the request     *)
(* awaits the audit store.                                                 *)
SaveOverride(c) ==
    /\ pc[c] = "idle"
    /\ version' = version + 1
    /\ pc' = [pc EXCEPT ![c] = "saved"]
    /\ UNCHANGED <<fenceVars, token, recovery, suppressed, lockQueue, spawned,
                   ticks, controlling, deviceVars, history>>

(* spawn_override_cycle(): the slot is reserved before the task exists; a  *)
(* draining fence refuses it and nothing runs.                             *)
SpawnOverride(c) ==
    /\ pc[c] = "saved"
    /\ \/ /\ F!Reserve(F!OVERRIDE)
          /\ token' = [token EXCEPT ![c] = generation + 1]
          /\ pc' = [pc EXCEPT ![c] = "task"]
          /\ reservedVersion' = version
       \/ /\ draining
          /\ pc' = [pc EXCEPT ![c] = "done"]
          /\ UNCHANGED <<fenceVars, token, reservedVersion>>
    /\ UNCHANGED <<recovery, suppressed, lockQueue, spawned, boxVars, deviceVars,
                   seen>>

(* Mutant: the done-callback forgets the slot. *)
MutCancelOverride(c) ==
    /\ pc[c] = "task"
    /\ pc' = [pc EXCEPT ![c] = "done"]
    /\ UNCHANGED <<fenceVars, token, recovery, suppressed, lockQueue, spawned,
                   boxVars, deviceVars, history>>

(* The task is cancelled before it owns a worker: the done-callback, or    *)
(* run_cycle's own finally, gives the slot back.                           *)
CancelOverride(c) ==
    /\ pc[c] = "task"
    /\ F!Release(token[c])
    /\ pc' = [pc EXCEPT ![c] = "done"]
    /\ UNCHANGED <<token, recovery, suppressed, lockQueue, spawned, boxVars,
                   deviceVars, history>>
-----------------------------------------------------------------------------
(* run_cycle()                                                             *)

Ended(c) == IF c = Periodic THEN "idle" ELSE "done"

(* Leaves `async with control_lock` and returns. *)
EndCycle(c) ==
    /\ pc' = [pc EXCEPT ![c] = Ended(c)]
    /\ lockQueue' = Tail(lockQueue)

(* The periodic loop wakes up and enters run_cycle without a token. *)
StartPeriodic ==
    /\ pc[Periodic] = "idle"
    /\ ticks < MaxTicks
    /\ ticks' = ticks + 1
    /\ pc' = [pc EXCEPT ![Periodic] = "task"]
    /\ token' = [token EXCEPT ![Periodic] = None]
    /\ recovery' = [recovery EXCEPT ![Periodic] = None]
    /\ suppressed' = [suppressed EXCEPT ![Periodic] = FALSE]
    /\ UNCHANGED <<fenceVars, lockQueue, spawned, version, controlling,
                   deviceVars, history>>

(* _expire_resident_must_charge() returns: go on, unless draining, to      *)
(* control_lock, which asyncio grants in the order it was asked for.       *)
QueueForLock(c) ==
    /\ pc[c] = "task"
    /\ ~draining
    /\ pc' = [pc EXCEPT ![c] = "lock"]
    /\ lockQueue' = Append(lockQueue, c)
    /\ UNCHANGED <<fenceVars, token, recovery, suppressed, spawned, boxVars,
                   deviceVars, history>>

RefuseDraining(c) ==
    /\ pc[c] = "task"
    /\ draining
    /\ IF token[c] = None THEN UNCHANGED fenceVars ELSE F!Release(token[c])
    /\ pc' = [pc EXCEPT ![c] = Ended(c)]
    /\ UNCHANGED <<token, recovery, suppressed, lockQueue, spawned, boxVars,
                   deviceVars, history>>

HoldsLock(c) == lockQueue # <<>> /\ Head(lockQueue) = c

(* After its refreshes the holder of the lock spawns its worker: the       *)
(* override with the slot it has, the periodic tick with one it is         *)
(* admitted to only when no other command is outstanding.                  *)
SpawnTick(c) ==
    /\ pc[c] = "lock"
    /\ HoldsLock(c)
    /\ IF c = Periodic THEN /\ F!AdmitRoutine
                            /\ token' = [token EXCEPT ![c] = generation + 1]
                       ELSE UNCHANGED <<fenceVars, token>>
    /\ spawned' = spawned \cup {token'[c]}
    /\ pc' = [pc EXCEPT ![c] = "running"]
    /\ UNCHANGED <<recovery, suppressed, lockQueue, boxVars, deviceVars, history>>

Coalesce ==
    /\ pc[Periodic] = "lock"
    /\ HoldsLock(Periodic)
    /\ draining \/ tickets # {}
    /\ EndCycle(Periodic)
    /\ UNCHANGED <<fenceVars, token, recovery, suppressed, spawned, boxVars,
                   deviceVars, history>>

(* The worker returned (or raised) in time and within its budget. *)
CycleReturns(c) ==
    /\ pc[c] = "running"
    /\ thread[token[c]] = "released"
    /\ EndCycle(c)
    /\ UNCHANGED <<fenceVars, token, recovery, suppressed, spawned, boxVars,
                   deviceVars, history>>

(* The worker returned, but the cycle measured more than its budget. *)
CycleOverBudget(c) ==
    /\ pc[c] = "running"
    /\ thread[token[c]] = "released"
    /\ pc' = [pc EXCEPT ![c] = "overrun"]
    /\ UNCHANGED <<fenceVars, token, recovery, suppressed, lockQueue, spawned,
                   boxVars, deviceVars, history>>

(* wait_for() gives up, perhaps just after the worker released its slot:   *)
(* the recovery is reserved at once, before anything is awaited.           *)
CycleTimeout(c) ==
    /\ pc[c] = "running"
    /\ \/ /\ F!IssueRecovery(token[c])
          /\ recovery' = [recovery EXCEPT ![c] = generation + 1]
          /\ UNCHANGED suppressed
       \/ /\ \/ F!SuppressRecovery(token[c])
             \/ draining /\ UNCHANGED fenceVars
          /\ suppressed' = [suppressed EXCEPT ![c] = TRUE]
          /\ UNCHANGED recovery
    /\ pc' = [pc EXCEPT ![c] = "overrun"]
    /\ UNCHANGED <<token, lockQueue, spawned, boxVars, deviceVars, history>>

(* _handle_overrun() after its audit await, while commanding is allowed:   *)
(* a cycle that only exceeded its budget reserves its recovery now.        *)
SpawnRecovery(c) ==
    /\ pc[c] = "overrun"
    /\ controlling
    /\ IF recovery[c] = None
       THEN /\ ~suppressed[c]
            /\ F!Reserve(F!RECOVERY)
            /\ recovery' = [recovery EXCEPT ![c] = generation + 1]
       ELSE UNCHANGED <<fenceVars, recovery>>
    /\ spawned' = spawned \cup {recovery'[c]}
    /\ pc' = [pc EXCEPT ![c] = "recovering"]
    /\ UNCHANGED <<token, suppressed, lockQueue, boxVars, deviceVars, history>>

(* ... or no AUTO write is due: not commanding, suppressed, or draining. *)
SkipRecovery(c) ==
    /\ pc[c] = "overrun"
    /\ \/ ~controlling
       \/ recovery[c] = None /\ (suppressed[c] \/ draining)
    /\ IF recovery[c] = None THEN UNCHANGED fenceVars ELSE F!Release(recovery[c])
    /\ EndCycle(c)
    /\ UNCHANGED <<token, recovery, suppressed, spawned, boxVars, deviceVars,
                   history>>

(* The AUTO worker ended, or its wait_for() timed out. *)
RecoveryAwaited(c) ==
    /\ pc[c] = "recovering"
    /\ EndCycle(c)
    /\ UNCHANGED <<fenceVars, token, recovery, suppressed, spawned, boxVars,
                   deviceVars, history>>
-----------------------------------------------------------------------------
(* Worker threads                                                          *)

IsTick(g) == commandClass[g] \in {F!ROUTINE, F!OVERRIDE}

(* control_tick() up to its physical write: it reads the override box (the *)
(* intent itself is left open).  Without the right to command it can at    *)
(* most return the battery to AUTO (_startup_safe_auto_if_needed).         *)
TickDecides(g) ==
    /\ g \in spawned /\ IsTick(g)
    /\ target[g] = Undecided
    /\ \E m \in Mode \cup {NoCommand} :
          /\ ~controlling => m \in {AUTO, NoCommand}
          /\ target' = [target EXCEPT ![g] = m]
    /\ seen' = [seen EXCEPT ![g] = version]
    /\ UNCHANGED <<fenceVars, loopVars, boxVars, outcome, device, lastConfirmed,
                   unconfirmed, reservedVersion>>

(* _overrun_auto_worker() goes for AUTO unconditionally. *)
WantsFence(g) ==
    g \in spawned /\ (IsTick(g) => target[g] \in Mode)

WorkerEnters(g) ==
    /\ WantsFence(g)
    /\ F!Enter(g) \/ F!EnterRefused(g) \/ F!EnterWait(g)
    /\ UNCHANGED <<loopVars, boxVars, deviceVars, history>>

(* The device acts on the POSTs of the active worker.  An AUTO worker      *)
(* applies AUTO, which has no gate and no fallback.                        *)
Applied(g) == IF IsTick(g) THEN target[g] ELSE AUTO

DriverWrites(g) ==
    /\ thread[g] = "writing"
    /\ outcome[g] = Pending
    /\ \E o \in Outcome :
          /\ ~IsTick(g) => o \in {"applied", "unconfirmed"}
          /\ outcome' = [outcome EXCEPT ![g] = o]
          /\ device' \in CASE o = "gated"       -> {device}
                           [] o = "applied"     -> {Applied(g)}
                           [] o = "recovered"   -> {AUTO}
                           [] o = "unrecovered" -> {device, Applied(g), AUTO}
                           [] o = "unconfirmed" -> {device, Applied(g)}
    /\ UNCHANGED <<fenceVars, loopVars, boxVars, target, lastConfirmed, unconfirmed,
                   history>>

(* Mutant: a command without an answer is not flagged. *)
MutWorkerRecords(g) ==
    /\ g \in spawned
    /\ outcome[g] # Pending
    /\ F!Leave(g)
    /\ lastConfirmed' = CASE outcome[g] = "applied"     -> Applied(g)
                          [] outcome[g] = "recovered"   -> AUTO
                          [] outcome[g] = "unrecovered" -> NoMode
                          [] OTHER                      -> lastConfirmed
    /\ unconfirmed' = CASE outcome[g] \in {"gated", "unconfirmed"} -> unconfirmed
                        [] outcome[g] \in {"applied", "recovered"} -> FALSE
                        [] OTHER -> TRUE
    /\ UNCHANGED <<loopVars, boxVars, target, outcome, device, history>>

(* The controller records the outcome: decide() for a tick,                *)
(* note_confirmed_auto() or note_overrun_recovery() for an AUTO worker;    *)
(* then the worker leaves the fence.                                       *)
WorkerRecords(g) ==
    /\ g \in spawned
    /\ outcome[g] # Pending
    /\ F!Leave(g)
    /\ lastConfirmed' = CASE outcome[g] = "applied"     -> Applied(g)
                          [] outcome[g] = "recovered"   -> AUTO
                          [] outcome[g] = "unrecovered" -> NoMode
                          [] OTHER                      -> lastConfirmed
    /\ unconfirmed' = CASE outcome[g] = "gated" -> unconfirmed
                        [] outcome[g] \in {"applied", "recovered"} -> FALSE
                        [] OTHER -> TRUE
    /\ UNCHANGED <<loopVars, boxVars, target, outcome, device, history>>

(* The worker's finally clause. *)
WorkerEnds(g) ==
    /\ g \in spawned
    /\ thread[g] = "reserved" => IsTick(g) /\ target[g] = NoCommand
    /\ F!Release(g)
    /\ UNCHANGED <<loopVars, boxVars, deviceVars, history>>

Worker(g) ==
    \/ TickDecides(g) \/ WorkerEnters(g) \/ DriverWrites(g) \/ WorkerRecords(g)
    \/ WorkerEnds(g)

(* Sensors, battery and plan are all in and the grace time is over: the    *)
(* lifecycle becomes CONTROLLING and stays so.                             *)
TakeControl ==
    /\ ~controlling
    /\ controlling' = TRUE
    /\ UNCHANGED <<fenceVars, loopVars, ticks, version, deviceVars, history>>

(* mark_draining(): at any moment a stop of the process begins.  What goes  *)
(* with it, and a restart that is called off, is in module SystemRestart.  *)
Drain ==
    /\ ~draining
    /\ F!MarkDraining
    /\ UNCHANGED <<loopVars, boxVars, deviceVars, history>>

Cycle(c) ==
    \/ QueueForLock(c) \/ RefuseDraining(c) \/ SpawnTick(c)
    \/ CycleReturns(c) \/ CycleOverBudget(c) \/ CycleTimeout(c)
    \/ SpawnRecovery(c) \/ SkipRecovery(c) \/ RecoveryAwaited(c)

(* Everything that goes on without a new request or a new tick. *)
Ongoing ==
    \/ \E c \in Overrides : SpawnOverride(c) \/ CancelOverride(c)
    \/ \E c \in Cycles : Cycle(c)
    \/ Coalesce
    \/ \E g \in Gen : Worker(g)
    \/ TakeControl

Next ==
    \/ \E c \in Overrides : SaveOverride(c)
    \/ StartPeriodic
    \/ Drain
    \/ Ongoing

Spec == Init /\ [][Next]_vars

(* asyncio runs every ready coroutine, a wait_for() timeout fires, and a   *)
(* worker thread ends because the driver's HTTP calls do.  Requests, the   *)
(* next tick and readiness are never promised.                             *)
Fairness ==
    /\ \A c \in Overrides : WF_vars(SpawnOverride(c))
    /\ \A c \in Cycles : WF_vars(Cycle(c))
    /\ WF_vars(Coalesce)
    /\ \A g \in Gen : WF_vars(Worker(g))

FairSpec == Spec /\ Fairness
-----------------------------------------------------------------------------
TypeOK ==
    /\ F!TypeOK
    /\ pc \in [Cycles -> {"idle", "saved", "task", "lock", "running", "overrun",
                          "recovering", "done"}]
    /\ token \in [Cycles -> F!GenOrNone]
    /\ recovery \in [Cycles -> F!GenOrNone]
    /\ suppressed \in [Cycles -> BOOLEAN]
    /\ lockQueue \in Seq(Cycles)
    /\ spawned \subseteq Gen
    /\ ticks \in 0 .. MaxTicks
    /\ version \in 0 .. Cardinality(Overrides)
    /\ controlling \in BOOLEAN
    /\ target \in [Gen -> Mode \cup {Undecided, NoCommand}]
    /\ outcome \in [Gen -> Outcome \cup {Pending}]
    /\ device \in Mode
    /\ lastConfirmed \in Mode \cup {NoMode}
    /\ unconfirmed \in BOOLEAN
    /\ reservedVersion \in Nat
    /\ seen \in [Gen -> Nat]

(* The callers keep the fence's protocol: only whoever owns a ticket       *)
(* enters, leaves and releases with it, in that order, so that everything  *)
(* proved of CommandFence holds of the running service.                    *)
FenceProtocol == F!Spec

(* A slot can never be orphaned: every outstanding ticket still belongs to *)
(* a live worker thread or to a cycle that will hand it to one or give it  *)
(* back.  An orphan would coalesce every later tick and refuse every       *)
(* restart.                                                                *)
NoOrphanSlot ==
    \A g \in tickets :
        \/ g \in spawned
        \/ \E c \in Cycles : token[c] = g /\ pc[c] \in {"task", "lock"}
        \/ \E c \in Cycles : recovery[c] = g /\ pc[c] = "overrun"

(* What the controller calls confirmed is what the battery does: whatever  *)
(* the order in which ticks and recoveries of timed-out ticks land, once   *)
(* nobody writes and the last command is not flagged unconfirmed, the      *)
(* device is in last_confirmed_action.                                     *)
ConfirmedIsReal ==
    active = None /\ ~unconfirmed /\ lastConfirmed # NoMode =>
        device = lastConfirmed

(* No slot and no belief goes astray between the actors of a cycle.        *)
CycleConsistent == TypeOK /\ NoOrphanSlot /\ ConfirmedIsReal

(* The driver started an override newer than ticket g. *)
OverriddenSince(g) ==
    lastEntered > g /\ commandClass[lastEntered] = F!OVERRIDE

(* The newest wish wins.  A routine tick that starts to write never acts   *)
(* on an override box older than the newest override for which a slot was  *)
(* reserved, and the recovery of a timed-out cycle never overwrites an     *)
(* override that was submitted after that cycle and has been written.      *)
NewestWins ==
    [][\A g \in Gen : F!Starts(g) =>
          /\ commandClass[g] = F!ROUTINE => seen[g] >= reservedVersion
          /\ recoveryForToken[g] # None => ~OverriddenSince(recoveryForToken[g])]_vars

(* The same for every recovery, as command_fence.py says of it: queuing    *)
(* AUTO behind a newer operator command would overwrite it.                *)
RecoveryYields ==
    [][\A c \in Cycles : recovery[c] # None /\ F!Starts(recovery[c]) =>
          ~OverriddenSince(token[c])]_vars

(* Whatever waits for what (control_lock, the fence, a worker), every slot *)
(* is eventually free again.                                               *)
SlotsFreed == EnoughTickets => []<>(tickets = {})
-----------------------------------------------------------------------------
(***************************************************************************)
(* The inductive invariant behind CycleConsistent and NewestWins (proved   *)
(* in SystemRestart_proofs, on top of the fence's IInv): who owns which    *)
(* ticket, what a writer's outcome says of the device, and what was        *)
(* decided, reserved and written in which order.                           *)
(***************************************************************************)
Submitted == {c \in Overrides : pc[c] # "idle"}
RequestsCounted == version = Cardinality(Submitted)

(* Tokens are tickets of the right class. *)
TokensKept ==
    /\ spawned \subseteq 1 .. generation
    /\ \A c \in Cycles : token[c] <= generation /\ recovery[c] <= generation
    /\ \A c \in Cycles : recovery[c] # None => commandClass[recovery[c]] = F!RECOVERY
    /\ \A c \in Overrides : token[c] # None => commandClass[token[c]] = F!OVERRIDE
    /\ pc[Periodic] \in {"task", "lock"} => token[Periodic] = None
    /\ \A c \in Cycles : pc[c] = "running" => token[c] \in spawned

(* An override without a worker yet still has its slot, untouched, alone.  *)
Waits(c) == c \in Overrides /\ pc[c] \in {"task", "lock"}
WaitersKeepSlots ==
    \A c \in Overrides : Waits(c) =>
        /\ token[c] \in (tickets \ superseded) \ spawned
        /\ thread[token[c]] = "reserved"
        /\ \A d \in Overrides : Waits(d) /\ token[d] = token[c] => d = c

LockHeld ==
    \A c \in Cycles : pc[c] \in {"running", "overrun", "recovering"} => HoldsLock(c)

(* Who is in enter() or beyond has decided; nothing is sent before enter(). *)
WritersDecided ==
    /\ \A g \in Gen \ spawned : target[g] = Undecided
    /\ \A g \in Gen : thread[g] \in {"entering", "asleep", "writing"} /\ IsTick(g) =>
          g \in spawned /\ target[g] \in Mode
    /\ \A g \in Gen : thread[g] \in {"unborn", "reserved", "entering", "asleep"} =>
          outcome[g] = Pending

(* What is believed is so until the active writer's outcome is in, and is  *)
(* so again when that outcome is recorded.                                 *)
BeliefHolds == ~unconfirmed /\ lastConfirmed # NoMode => device = lastConfirmed
OutcomesAreReal ==
    /\ active = None \/ outcome[active] \in {Pending, "gated"} => BeliefHolds
    /\ active # None /\ outcome[active] = "applied" => device = Applied(active)
    /\ active # None /\ outcome[active] = "recovered" => device = AUTO

(* A routine ticket that no override has superseded read the box after the *)
(* newest reservation.                                                     *)
DecidedLate ==
    /\ reservedVersion <= version
    /\ \A g \in F!RoutineTickets \ superseded :
          target[g] # Undecided => seen[g] >= reservedVersion

(* Unless the process drains: an override that may still write is the one  *)
(* that holds control_lock, and nothing newer than a running cycle's ticket*)
(* has been written.                                                       *)
OverridesRun ==
    ~draining =>
        \A g \in spawned \cap tickets :
            commandClass[g] = F!OVERRIDE /\ g \notin superseded =>
                \E c \in Cycles : pc[c] = "running" /\ token[c] = g
NothingNewer ==
    ~draining => \A c \in Cycles : pc[c] = "running" => ~OverriddenSince(token[c])

(* Between a timed-out command and its recovery no override is left to     *)
(* write.                                                                  *)
RecoveriesFirst ==
    \A r \in Gen : recoveryForToken[r] # None =>
        /\ OverriddenSince(recoveryForToken[r]) => lastEntered > r
        /\ \A h \in tickets : recoveryForToken[r] < h /\ h < r => commandClass[h] = F!ROUTINE

Owned ==
    /\ TypeOK /\ RequestsCounted /\ TokensKept /\ WaitersKeepSlots /\ LockHeld
    /\ WritersDecided

CInv ==
    /\ Owned /\ NoOrphanSlot /\ OutcomesAreReal /\ DecidedLate
    /\ OverridesRun /\ NothingNewer /\ RecoveriesFirst
=============================================================================
