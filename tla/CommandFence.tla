---------------------------- MODULE CommandFence ----------------------------
(***************************************************************************)
(* BatteryCommandFence (src/ems/control/command_fence.py): the monitor     *)
(* that orders every battery-affecting write of the process.               *)
(*                                                                         *)
(* A ticket is identified by its generation: the code's token object and   *)
(* its generation are created together and neither is ever reused.  Every  *)
(* method body runs under one threading.Condition, so a method is one      *)
(* atomic action; only enter() can block, and it blocks in                 *)
(* Condition.wait(), modelled by the thread state "asleep", which only a   *)
(* notify_all() ends (a timed wait may also end by itself).                *)
(*                                                                         *)
(* thread[g] is the progress of whoever holds ticket g:                    *)
(*   unborn -> reserved -> (entering <-> asleep) -> writing -> left        *)
(*                      \-> refused                                        *)
(* and from reserved, left or refused -> released.                         *)
(***************************************************************************)
EXTENDS Naturals, FiniteSets

CONSTANT MaxGeneration   \* bound on the tickets issued in a behaviour

ASSUME MaxGenerationIsNat == MaxGeneration \in Nat

ROUTINE  == "routine"
OVERRIDE == "override"
RECOVERY == "recovery"
SHUTDOWN == "shutdown"
CommandClass == {ROUTINE, OVERRIDE, RECOVERY, SHUTDOWN}

Gen    == 1 .. MaxGeneration
None   == 0              \* "no ticket" where the code has None
GenOrNone == 0 .. MaxGeneration

ThreadState == {"unborn", "reserved", "entering", "asleep",
                "writing", "left", "refused", "released"}

VARIABLES
    generation,        \* _generation
    tickets,           \* generations of the outstanding tickets, _tickets
    commandClass,      \* command_class of every ticket issued so far
    superseded,        \* _superseded
    active,            \* generation of _active
    recoveries,        \* _recoveries: stale generation -> recovery ticket
    recoveryForToken,  \* _recovery_for_token: recovery ticket -> stale one
    draining,          \* _draining
    thread,            \* progress of each ticket's holder
    lastEntered,       \* history: the last ticket let through to the driver
    givenUp            \* history: tickets begin_recovery() declared stale

fence == <<generation, tickets, commandClass, superseded, active,
           recoveries, recoveryForToken, draining>>
history == <<lastEntered, givenUp>>
vars  == <<fence, thread, history>>

(* The states in which the holder of a ticket still has it. *)
Holding == {"reserved", "entering", "asleep", "writing", "left", "refused"}
-----------------------------------------------------------------------------
Init ==
    /\ generation = 0
    /\ tickets = {}
    /\ commandClass = [g \in Gen |-> ROUTINE]
    /\ superseded = {}
    /\ active = None
    /\ recoveries = [g \in Gen |-> None]
    /\ recoveryForToken = [g \in Gen |-> None]
    /\ draining = FALSE
    /\ thread = [g \in Gen |-> "unborn"]
    /\ lastEntered = None
    /\ givenUp = {}

(* Condition.notify_all(): every thread asleep in wait() re-tests the loop. *)
NotifyAll(th) ==
    [g \in Gen |-> IF th[g] = "asleep" THEN "entering" ELSE th[g]]

RoutineTickets == {g \in tickets : commandClass[g] = ROUTINE}

NewTicket(cls) ==
    /\ generation < MaxGeneration
    /\ generation' = generation + 1
    /\ tickets' = tickets \cup {generation + 1}
    /\ commandClass' = [commandClass EXCEPT ![generation + 1] = cls]

(* reserve(): never refused except by draining; it supersedes every        *)
(* routine ticket outstanding, even the active one (which is not           *)
(* interrupted: see EnterRefused).  The program reserves the three classes *)
(* below; a ROUTINE ticket only ever comes from admit_routine().           *)
ReservedClass == {OVERRIDE, RECOVERY, SHUTDOWN}

(* Mutant: an operator command supersedes nothing. *)
MutReserve(cls) ==
    /\ draining => cls = SHUTDOWN
    /\ NewTicket(cls)
    /\ thread' = [NotifyAll(thread) EXCEPT ![generation + 1] = "reserved"]
    /\ UNCHANGED <<superseded, active, recoveries, recoveryForToken, draining, history>>

Reserve(cls) ==
    /\ draining => cls = SHUTDOWN
    /\ NewTicket(cls)
    /\ superseded' = superseded \cup RoutineTickets
    /\ thread' = [NotifyAll(thread) EXCEPT ![generation + 1] = "reserved"]
    /\ UNCHANGED <<active, recoveries, recoveryForToken, draining, history>>

(* admit_routine(): single admission of the periodic tick. *)
AdmitRoutine ==
    /\ ~draining
    /\ tickets = {}
    /\ NewTicket(ROUTINE)
    /\ thread' = [thread EXCEPT ![generation + 1] = "reserved"]
    /\ UNCHANGED <<superseded, active, recoveries, recoveryForToken,
                   draining, history>>

(* begin_recovery(stale), the three ways it changes something or not: an   *)
(* outstanding recovery is returned again and a draining fence refuses,    *)
(* both without a change of state.  Its only caller is run_cycle(), for    *)
(* the tick or override command whose worker outlived the budget; by then  *)
(* that worker may already have released the ticket.                       *)
RecoveryOutstanding(stale) == recoveries[stale] \in tickets

(* Mutant: only a newer command that already writes suppresses the recovery. *)
MutNewerCommand(stale) == active > stale /\ commandClass[active] # ROUTINE

NewerCommand(stale) ==
    \E g \in tickets : g > stale /\ commandClass[g] # ROUTINE

CanBeginRecovery(stale) ==
    /\ stale \in 1 .. generation
    /\ commandClass[stale] \in {ROUTINE, OVERRIDE}
    /\ ~RecoveryOutstanding(stale)
    /\ ~draining

SuppressRecovery(stale) ==
    /\ CanBeginRecovery(stale)
    /\ NewerCommand(stale)
    /\ superseded' = superseded \cup {stale}
    /\ givenUp' = givenUp \cup {stale}
    /\ thread' = NotifyAll(thread)
    /\ UNCHANGED <<generation, tickets, commandClass, active, recoveries,
                   recoveryForToken, draining, lastEntered>>

IssueRecovery(stale) ==
    /\ CanBeginRecovery(stale)
    /\ ~NewerCommand(stale)
    /\ NewTicket(RECOVERY)
    /\ superseded' = superseded \cup {stale}
    /\ givenUp' = givenUp \cup {stale}
    /\ recoveries' = [recoveries EXCEPT ![stale] = generation + 1]
    /\ recoveryForToken' = [recoveryForToken EXCEPT ![generation + 1] = stale]
    /\ thread' = [NotifyAll(thread) EXCEPT ![generation + 1] = "reserved"]
    /\ UNCHANGED <<active, draining, lastEntered>>

BeginRecovery(stale) == SuppressRecovery(stale) \/ IssueRecovery(stale)
-----------------------------------------------------------------------------
(* enter(ticket): one action per way out of an iteration of its loop. *)
Eligible == tickets \ superseded

(* Mutant: whoever wakes up first goes first. *)
MutIsNext(g) == g \in Eligible

IsNext(g) == g \in Eligible /\ \A h \in Eligible : g <= h

CallsEnter(g) == thread[g] \in {"reserved", "entering"}

Enter(g) ==
    /\ CallsEnter(g)
    /\ g \in tickets
    /\ g \notin superseded
    /\ active = None
    /\ IsNext(g)
    /\ active' = g
    /\ lastEntered' = g
    /\ thread' = [thread EXCEPT ![g] = "writing"]
    /\ UNCHANGED <<generation, tickets, commandClass, superseded,
                   recoveries, recoveryForToken, draining, givenUp>>

EnterRefused(g) ==
    /\ CallsEnter(g)
    /\ g \notin tickets \/ (g \in superseded /\ active # g)
    /\ thread' = [thread EXCEPT ![g] = "refused"]
    /\ UNCHANGED <<fence, history>>

EnterWait(g) ==
    /\ CallsEnter(g)
    /\ g \in tickets
    /\ g \notin superseded
    /\ active # None \/ ~IsNext(g)
    /\ thread' = [thread EXCEPT ![g] = "asleep"]
    /\ UNCHANGED <<fence, history>>

(* Only the shutdown restore passes a timeout (service.py, 120 s). *)
EnterTimeout(g) ==
    /\ commandClass[g] = SHUTDOWN
    /\ thread[g] = "asleep"
    /\ thread' = [thread EXCEPT ![g] = "refused"]
    /\ UNCHANGED <<fence, history>>

ClearActive(g) == active' = IF active = g THEN None ELSE active

Leave(g) ==
    /\ thread[g] = "writing"
    /\ ClearActive(g)
    /\ thread' = [NotifyAll(thread) EXCEPT ![g] = "left"]
    /\ UNCHANGED <<generation, tickets, commandClass, superseded,
                   recoveries, recoveryForToken, draining, history>>

(* Mutants: the end of a recovery forgives the command it was for; nobody  *)
(* is told that the ticket is gone.                                        *)
MutReleaseForgives(g) ==
    /\ thread[g] \in {"reserved", "left", "refused"}
    /\ ClearActive(g)
    /\ tickets' = tickets \ {g}
    /\ superseded' = superseded \ {g, recoveryForToken[g]}
    /\ recoveryForToken' = [recoveryForToken EXCEPT ![g] = None]
    /\ recoveries' = IF recoveryForToken[g] = None THEN recoveries
                     ELSE [recoveries EXCEPT ![recoveryForToken[g]] = None]
    /\ thread' = [NotifyAll(thread) EXCEPT ![g] = "released"]
    /\ UNCHANGED <<generation, commandClass, draining, history>>

MutReleaseSilently(g) ==
    /\ thread[g] \in {"reserved", "left", "refused"}
    /\ ClearActive(g)
    /\ tickets' = tickets \ {g}
    /\ superseded' = superseded \ {g}
    /\ recoveryForToken' = [recoveryForToken EXCEPT ![g] = None]
    /\ recoveries' = IF recoveryForToken[g] = None THEN recoveries
                     ELSE [recoveries EXCEPT ![recoveryForToken[g]] = None]
    /\ thread' = [thread EXCEPT ![g] = "released"]
    /\ UNCHANGED <<generation, commandClass, draining, history>>

(* release(): called once by the holder when its work is really over: it   *)
(* left, was refused, or never reached the physical write.                 *)
Release(g) ==
    /\ thread[g] \in {"reserved", "left", "refused"}
    /\ ClearActive(g)
    /\ tickets' = tickets \ {g}
    /\ superseded' = superseded \ {g}
    /\ recoveryForToken' = [recoveryForToken EXCEPT ![g] = None]
    /\ recoveries' = IF recoveryForToken[g] = None THEN recoveries
                     ELSE [recoveries EXCEPT ![recoveryForToken[g]] = None]
    /\ thread' = [NotifyAll(thread) EXCEPT ![g] = "released"]
    /\ UNCHANGED <<generation, commandClass, draining, history>>

MarkDraining ==
    /\ draining' = TRUE
    /\ superseded' = superseded \cup RoutineTickets
    /\ thread' = NotifyAll(thread)
    /\ UNCHANGED <<generation, tickets, commandClass, active, recoveries,
                   recoveryForToken, history>>

ClearDraining ==
    /\ draining' = FALSE
    /\ thread' = NotifyAll(thread)
    /\ UNCHANGED <<generation, tickets, commandClass, superseded, active,
                   recoveries, recoveryForToken, history>>

Holder(g) ==
    \/ Enter(g) \/ EnterRefused(g) \/ EnterWait(g) \/ EnterTimeout(g)
    \/ Leave(g) \/ Release(g)

Next ==
    \/ \E cls \in ReservedClass : Reserve(cls)
    \/ AdmitRoutine
    \/ \E g \in Gen : BeginRecovery(g)
    \/ \E g \in Gen : Holder(g)
    \/ MarkDraining
    \/ ClearDraining

Spec == Init /\ [][Next]_vars

(* Every holder keeps running: a thread in enter() is scheduled when it is *)
(* awake, the driver's HTTP calls are bounded by their own timeouts so a   *)
(* write ends, and each finally clause runs.  Nothing is assumed of the    *)
(* callers that reserve, recover or drain.                                 *)
Fairness == \A g \in Gen : WF_vars(Holder(g))

FairSpec == Spec /\ Fairness
-----------------------------------------------------------------------------
TypeOK ==
    /\ generation \in GenOrNone
    /\ tickets \subseteq 1 .. generation
    /\ commandClass \in [Gen -> CommandClass]
    /\ superseded \subseteq 1 .. generation
    /\ active \in GenOrNone
    /\ recoveries \in [Gen -> GenOrNone]
    /\ recoveryForToken \in [Gen -> GenOrNone]
    /\ draining \in BOOLEAN
    /\ thread \in [Gen -> ThreadState]
    /\ lastEntered \in GenOrNone
    /\ givenUp \subseteq 1 .. generation

(* A holder that has left or never entered keeps no grip on the driver:    *)
(* at most one thread is ever inside the physical write, and it is the one *)
(* the fence calls active.                                                 *)
OneWriter ==
    \A g \in Gen : thread[g] = "writing" <=> (active = g)

(* The recovery bookkeeping never outlives its ticket: both directions of  *)
(* the map agree, and only outstanding recovery tickets are in it, so a    *)
(* finished recovery can never be handed out again by begin_recovery().    *)
RecoveryMapsAgree ==
    \A s, r \in Gen :
        (recoveries[s] = r) <=> (recoveryForToken[r] = s)
RecoveriesOutstanding ==
    \A r \in Gen : recoveryForToken[r] # None =>
        r \in tickets /\ commandClass[r] = RECOVERY
RecoveryBookkeeping == RecoveryMapsAgree /\ RecoveriesOutstanding

(* No lost wake-up: whoever sleeps in enter() really has to wait, because  *)
(* the driver is busy or an older command has not had its turn.            *)
NoLostWakeup ==
    \A g \in Gen : thread[g] = "asleep" =>
        g \in Eligible /\ (active # None \/ ~IsNext(g))

(* Ticket g starts its physical write in this step. *)
Starts(g) == thread[g] # "writing" /\ thread'[g] = "writing"

(* Once an operator or shutdown command has been reserved, no routine tick *)
(* that was reserved before it may start writing: a plan computed before   *)
(* the operator spoke never overwrites the operator (SAF-01).              *)
OperatorNotOvertaken ==
    [][\A g \in Gen : Starts(g) /\ commandClass[g] = ROUTINE =>
          \A h \in g + 1 .. generation :
              commandClass[h] \notin {OVERRIDE, SHUTDOWN}]_vars

(* A timed-out command whose recovery has been ordered (or suppressed for  *)
(* a newer command) never starts afterwards, however late its thread gets  *)
(* to the fence: not even when the recovery has already come and gone.     *)
StaleNeverStarts ==
    [][\A g \in givenUp : ~Starts(g)]_vars

(* An operator command or a recovery is never turned away by the fence: it *)
(* waits for its turn, and only its own cycle giving it up can refuse it.  *)
OperatorNeverDropped ==
    [][\A g \in Gen :
          /\ thread[g] # "refused" /\ thread'[g] = "refused"
          /\ commandClass[g] \in {OVERRIDE, RECOVERY}
          => g \in givenUp]_vars

(* While the process drains for a restart or a shutdown no routine write   *)
(* starts, not even one reserved before draining was marked.               *)
DrainStopsRoutine ==
    [][\A g \in Gen : Starts(g) /\ draining => commandClass[g] # ROUTINE]_vars

(* No wedge: every ticket is eventually given back, so neither the         *)
(* single-admission rule nor the restart gate is blocked for ever by a     *)
(* ticket whose thread sleeps in enter().                                  *)
EveryTicketReleased ==
    \A g \in Gen : (g \in tickets) ~> (g \notin tickets)

(* The fence implements its abstract promise: one command at a time, and   *)
(* never an older one after a newer one.                                   *)
Writer == INSTANCE OrderedWriter WITH
              issued <- generation, holder <- active, newest <- lastEntered
OrderedWriting == Writer!Spec
-----------------------------------------------------------------------------
(***************************************************************************)
(* The inductive invariant behind the safety properties (proved in         *)
(* CommandFence_proofs): each part says what the fence's fields must mean  *)
(* for the next step to be right.                                          *)
(***************************************************************************)
CanStillEnter(g) == thread[g] \in {"reserved", "entering", "asleep"}

BornInOrder == \A g \in Gen : (thread[g] = "unborn") <=> (generation < g)

HeldTickets == \A g \in Gen : g \in tickets <=> thread[g] \in Holding

EntryOrder ==
    /\ lastEntered <= generation
    /\ \A g \in Eligible : CanStillEnter(g) => lastEntered < g

StaleSuperseded == givenUp \cap tickets \subseteq superseded

DrainSupersedes == draining => RoutineTickets \subseteq superseded

OperatorSupersedes ==
    \A g \in RoutineTickets : \A h \in g + 1 .. generation :
        commandClass[h] \in {OVERRIDE, SHUTDOWN} => g \in superseded

OnlyGivenUpSuperseded ==
    \A g \in superseded : commandClass[g] \in {OVERRIDE, RECOVERY} => g \in givenUp

IInv ==
    /\ TypeOK
    /\ BornInOrder
    /\ HeldTickets
    /\ OneWriter
    /\ EntryOrder
    /\ StaleSuperseded
    /\ DrainSupersedes
    /\ OperatorSupersedes
    /\ OnlyGivenUpSuperseded
    /\ NoLostWakeup
    /\ RecoveryBookkeeping
=============================================================================
