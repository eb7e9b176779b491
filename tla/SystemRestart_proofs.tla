------------------------ MODULE SystemRestart_proofs ------------------------
(***************************************************************************)
(* Proofs about the control service, and about its restart and graceful    *)
(* stop, for any number of ticks, requests, overrides and tickets, any     *)
(* modes and any outcomes.                                                 *)
(*                                                                         *)
(* The service on its own (ControlCycle): it uses the fence as the fence's *)
(* specification allows, no slot and no belief goes astray                 *)
(* (CycleConsistent), and the newest wish wins (NewestWins).               *)
(*                                                                         *)
(* With restarts: what the restart gate saw stays true until the process   *)
(* goes down or the restart is called off, the next process reads back     *)
(* what the battery was left in (RestartConsistent), and the stop is the   *)
(* last word (StopIsFinal).                                                *)
(***************************************************************************)
EXTENDS SystemRestart, FiniteSetTheorems, TLAPS

USE DEF Gen, None, F!Gen, F!None, F!GenOrNone, Cycles, Periodic,
        F!ROUTINE, F!OVERRIDE, F!RECOVERY, F!SHUTDOWN, F!CommandClass,
        Undecided, NoCommand, NoMode, AUTO, Pending

(* What is proved of the fence, with the service's variables. *)
FP == INSTANCE CommandFence_proofs

LEMMA SameNames ==
    /\ FP!Gen = Gen /\ FP!GenOrNone = F!GenOrNone /\ FP!None = None
    /\ FP!CommandClass = F!CommandClass /\ FP!ReservedClass = F!ReservedClass
    /\ FP!ThreadState = F!ThreadState /\ FP!Holding = F!Holding
    /\ FP!ROUTINE = F!ROUTINE /\ FP!OVERRIDE = F!OVERRIDE
    /\ FP!RECOVERY = F!RECOVERY /\ FP!SHUTDOWN = F!SHUTDOWN
  BY DEF FP!Gen, FP!GenOrNone, FP!None, FP!CommandClass, FP!ReservedClass, F!ReservedClass,
         FP!ThreadState, F!ThreadState, FP!Holding, F!Holding,
         FP!ROUTINE, FP!OVERRIDE, FP!RECOVERY, FP!SHUTDOWN

LEMMA SameInit == F!Init <=> FP!Init
  BY SameNames DEF F!Init, FP!Init

LEMMA SameVars == F!vars = FP!vars
  BY DEF F!vars, FP!vars, F!fence, FP!fence, F!history, FP!history

LEMMA SameIssue ==
    /\ \A cls : F!NewTicket(cls) <=> FP!NewTicket(cls)
    /\ F!NotifyAll(thread) = FP!NotifyAll(thread)
    /\ F!RoutineTickets = FP!RoutineTickets
    /\ F!history = FP!history /\ F!fence = FP!fence
  BY SameNames DEF F!NewTicket, FP!NewTicket, F!NotifyAll, FP!NotifyAll, F!RoutineTickets,
     FP!RoutineTickets, F!history, FP!history, F!fence, FP!fence

LEMMA SameReserve ==
    /\ \A cls : F!Reserve(cls) <=> FP!Reserve(cls)
    /\ F!AdmitRoutine <=> FP!AdmitRoutine
<1> USE SameNames DEF F!NewTicket, FP!NewTicket, F!NotifyAll, FP!NotifyAll, F!RoutineTickets,
        FP!RoutineTickets, F!history, FP!history
<1>1. ASSUME NEW cls PROVE F!Reserve(cls) <=> FP!Reserve(cls)
  BY DEF F!Reserve, FP!Reserve
<1>2. F!AdmitRoutine <=> FP!AdmitRoutine
  BY DEF F!AdmitRoutine, FP!AdmitRoutine
<1> QED
  BY <1>1, <1>2

LEMMA SameRecovery == \A g : F!BeginRecovery(g) <=> FP!BeginRecovery(g)
  BY SameNames, SameIssue
     DEF F!BeginRecovery, FP!BeginRecovery, F!SuppressRecovery, FP!SuppressRecovery,
         F!IssueRecovery, FP!IssueRecovery, F!CanBeginRecovery, FP!CanBeginRecovery,
         F!NewerCommand, FP!NewerCommand, F!RecoveryOutstanding, FP!RecoveryOutstanding

LEMMA SameHolder == \A g : F!Holder(g) <=> FP!Holder(g)
<1> SUFFICES ASSUME NEW g PROVE F!Holder(g) <=> FP!Holder(g)
  OBVIOUS
<1> USE SameNames DEF F!NotifyAll, FP!NotifyAll, F!history, FP!history, F!fence, FP!fence,
        F!CallsEnter, FP!CallsEnter, F!IsNext, FP!IsNext, F!Eligible, FP!Eligible,
        F!ClearActive, FP!ClearActive
<1>1. F!Enter(g) <=> FP!Enter(g)
  BY DEF F!Enter, FP!Enter
<1>2. F!EnterRefused(g) <=> FP!EnterRefused(g)
  BY DEF F!EnterRefused, FP!EnterRefused
<1>3. F!EnterWait(g) <=> FP!EnterWait(g)
  BY DEF F!EnterWait, FP!EnterWait
<1>4. F!EnterTimeout(g) <=> FP!EnterTimeout(g)
  BY DEF F!EnterTimeout, FP!EnterTimeout
<1>5. F!Leave(g) <=> FP!Leave(g)
  BY DEF F!Leave, FP!Leave
<1>6. F!Release(g) <=> FP!Release(g)
  BY DEF F!Release, FP!Release
<1> QED
  BY <1>1, <1>2, <1>3, <1>4, <1>5, <1>6 DEF F!Holder, FP!Holder

LEMMA SameDrain ==
    (F!MarkDraining <=> FP!MarkDraining) /\ (F!ClearDraining <=> FP!ClearDraining)
  BY SameNames DEF F!MarkDraining, FP!MarkDraining, F!ClearDraining, FP!ClearDraining,
     F!NotifyAll, FP!NotifyAll, F!RoutineTickets, FP!RoutineTickets, F!history, FP!history

LEMMA SameNext == F!Next <=> FP!Next
  BY SameNames, SameReserve, SameRecovery, SameHolder, SameDrain DEF F!Next, FP!Next

LEMMA SameInvariant == F!IInv <=> FP!IInv
  BY SameNames, SameIssue
     DEF F!IInv, FP!IInv, F!TypeOK, FP!TypeOK, F!BornInOrder, FP!BornInOrder,
         F!HeldTickets, FP!HeldTickets, F!OneWriter, FP!OneWriter, F!EntryOrder, FP!EntryOrder,
         F!StaleSuperseded, FP!StaleSuperseded, F!DrainSupersedes, FP!DrainSupersedes,
         F!OperatorSupersedes, FP!OperatorSupersedes,
         F!OnlyGivenUpSuperseded, FP!OnlyGivenUpSuperseded, F!NoLostWakeup, FP!NoLostWakeup,
         F!RecoveryBookkeeping, FP!RecoveryBookkeeping, F!RecoveryMapsAgree, FP!RecoveryMapsAgree,
         F!RecoveriesOutstanding, FP!RecoveriesOutstanding, F!Eligible, FP!Eligible,
         F!IsNext, FP!IsNext, F!CanStillEnter, FP!CanStillEnter

LEMMA FenceProved == F!Spec => []F!IInv
<1>1. [F!Next]_(F!vars) <=> [FP!Next]_(FP!vars)
  BY SameNext, SameVars DEF F!vars, FP!vars, F!fence, FP!fence, F!history, FP!history
<1>2. F!Spec <=> FP!Spec
  BY <1>1, SameInit, PTL DEF F!Spec, FP!Spec
<1> QED
  BY <1>2, FP!FenceInvariant, BoundsAreNat, SameInvariant, PTL
-----------------------------------------------------------------------------
(* What the steps of the fence do to the tickets of others. *)

(* The progress of a ticket after notify_all(). *)
Woken(g) == IF thread[g] = "asleep" THEN "entering" ELSE thread[g]

LEMMA FenceTypes ==
    ASSUME F!IInv
    PROVE  /\ generation \in F!GenOrNone /\ tickets \subseteq 1 .. generation
           /\ commandClass \in [Gen -> F!CommandClass] /\ thread \in [Gen -> F!ThreadState]
           /\ \A g \in Gen : thread[g] = "unborn" <=> generation < g
           /\ \A g \in Gen : g \in tickets <=> thread[g] \in F!Holding
           /\ \A g \in Gen : thread[g] = "writing" <=> active = g
           /\ active \in F!GenOrNone
           /\ F!TypeOK
  BY DEF F!IInv, F!TypeOK, F!BornInOrder, F!HeldTickets, F!OneWriter

LEMMA Issued ==
    ASSUME F!IInv, NEW cls \in F!CommandClass,
           \/ F!Reserve(cls)
           \/ F!AdmitRoutine /\ cls = F!ROUTINE
           \/ (\E s : F!IssueRecovery(s)) /\ cls = F!RECOVERY
    PROVE  LET new == generation + 1 IN
           /\ new \in Gen /\ generation' = new /\ tickets' = tickets \cup {new}
           /\ new \notin tickets /\ thread[new] = "unborn" /\ thread'[new] = "reserved"
           /\ commandClass'[new] = cls
           /\ \A g \in Gen \ {new} : commandClass'[g] = commandClass[g]
           /\ \A g \in Gen \ {new} : thread'[g] = Woken(g)
           /\ active' = active /\ draining' = draining /\ lastEntered' = lastEntered
<1> DEFINE new == generation + 1
<1>1. generation \in F!GenOrNone /\ generation < MaxGeneration /\ new \in Gen
  BY FenceTypes, BoundsAreNat DEF F!Reserve, F!AdmitRoutine, F!IssueRecovery, F!NewTicket
<1>2. /\ generation' = new /\ tickets' = tickets \cup {new}
      /\ commandClass' = [commandClass EXCEPT ![new] = cls]
      /\ active' = active /\ draining' = draining /\ lastEntered' = lastEntered
  BY DEF F!Reserve, F!AdmitRoutine, F!IssueRecovery, F!NewTicket, F!history
<1>3. \/ thread' = [F!NotifyAll(thread) EXCEPT ![new] = "reserved"]
      \/ thread' = [thread EXCEPT ![new] = "reserved"] /\ tickets = {}
  BY DEF F!Reserve, F!AdmitRoutine, F!IssueRecovery
<1>4. new \notin tickets /\ thread[new] = "unborn"
  BY <1>1, FenceTypes
<1>5. thread'[new] = "reserved" /\ \A g \in Gen \ {new} : thread'[g] = Woken(g)
  <2>1. tickets = {} => \A g \in Gen : thread[g] # "asleep"
    BY FenceTypes DEF F!Holding
  <2> QED
    BY <1>1, <1>3, <2>1, FenceTypes DEF F!NotifyAll, Woken
<1> QED
  BY <1>1, <1>2, <1>4, <1>5, FenceTypes

LEMMA Released ==
    ASSUME F!IInv, NEW h \in Gen, F!Release(h)
    PROVE  /\ tickets' = tickets \ {h} /\ superseded' = superseded \ {h}
           /\ thread[h] \in {"reserved", "left", "refused"} /\ thread'[h] = "released"
           /\ \A g \in Gen \ {h} : thread'[g] = Woken(g)
           /\ active' = active
           /\ UNCHANGED <<generation, commandClass, draining, lastEntered>>
<1>1. active # h
  BY FenceTypes DEF F!Release
<1> QED
  BY <1>1, FenceTypes DEF F!Release, F!ClearActive, F!NotifyAll, F!history, Woken

LEMMA Superseded ==
    ASSUME F!IInv,
           F!MarkDraining \/ F!ClearDraining \/ (\E s : F!SuppressRecovery(s))
    PROVE  /\ \A g \in Gen : thread'[g] = Woken(g)
           /\ UNCHANGED <<generation, tickets, commandClass, active, lastEntered>>
  BY FenceTypes DEF F!MarkDraining, F!ClearDraining, F!SuppressRecovery, F!NotifyAll, F!history, Woken

LEMMA Entered ==
    ASSUME F!IInv, NEW h \in Gen, F!Enter(h) \/ F!EnterRefused(h) \/ F!EnterWait(h)
    PROVE  /\ thread[h] \in {"reserved", "entering"}
           /\ thread'[h] \in {"writing", "refused", "asleep"}
           /\ \A g \in Gen \ {h} : thread'[g] = thread[g]
           /\ UNCHANGED <<generation, tickets, commandClass, superseded, draining>>
  BY FenceTypes DEF F!Enter, F!EnterRefused, F!EnterWait, F!CallsEnter, F!fence, F!history

LEMMA LeftFence ==
    ASSUME F!IInv, NEW h \in Gen, F!Leave(h)
    PROVE  /\ thread[h] = "writing" /\ thread'[h] = "left" /\ active = h /\ active' = None
           /\ \A g \in Gen \ {h} : thread'[g] = Woken(g)
           /\ UNCHANGED <<generation, tickets, commandClass, superseded, draining, lastEntered>>
  BY FenceTypes DEF F!Leave, F!ClearActive, F!NotifyAll, F!history, Woken
-----------------------------------------------------------------------------
(* The service only does to the fence what the fence's specification says. *)

LEMMA TokenIsTicket ==
    ASSUME Owned, NEW c \in Cycles
    PROVE  /\ token[c] \in F!GenOrNone /\ recovery[c] \in F!GenOrNone
           /\ pc[c] = "running" => token[c] \in Gen
           /\ Waits(c) => token[c] \in Gen
  BY DEF Owned, TypeOK, F!TypeOK, TokensKept, WaitersKeepSlots, Waits

(* What the fence may do while nobody is in enter(). *)
Calm ==
    \/ \E cls \in F!ReservedClass : F!Reserve(cls)
    \/ F!AdmitRoutine
    \/ \E s \in Gen : F!BeginRecovery(s)
    \/ \E g \in Gen : F!Leave(g) \/ F!Release(g)
    \/ F!MarkDraining \/ F!ClearDraining
    \/ UNCHANGED F!vars

LEMMA ServiceCalls ==
    ASSUME Owned, [Next]_vars
    PROVE  Calm \/ \E g \in Gen : WorkerEnters(g)
<1>0. UNCHANGED fenceVars => Calm
  BY DEF fenceVars, F!vars, F!fence, F!history, Calm
<1>1. ASSUME NEW c \in Overrides, SaveOverride(c) \/ SpawnOverride(c) \/ CancelOverride(c)
      PROVE  Calm
  <2>1. CancelOverride(c) => token[c] \in Gen
    BY TokenIsTicket DEF CancelOverride, Waits
  <2> QED
    BY <1>0, <1>1, <2>1 DEF SaveOverride, SpawnOverride, CancelOverride, Calm, F!ReservedClass
<1>2. ASSUME NEW c \in Cycles, Cycle(c) PROVE Calm
  <2>1. CASE RefuseDraining(c) \/ SkipRecovery(c)
    BY <1>0, <2>1, TokenIsTicket DEF RefuseDraining, SkipRecovery, Calm
  <2>2. CASE SpawnTick(c)
    BY <1>0, <2>2 DEF SpawnTick, Calm
  <2>3. CASE CycleTimeout(c)
    <3>1. token[c] \in Gen /\ (F!BeginRecovery(token[c]) \/ UNCHANGED fenceVars)
      BY <2>3, TokenIsTicket DEF CycleTimeout, F!BeginRecovery
    <3> QED
      BY <1>0, <3>1 DEF Calm
  <2>4. CASE SpawnRecovery(c)
    BY <1>0, <2>4 DEF SpawnRecovery, Calm, F!ReservedClass
  <2> QED
    BY <1>0, <1>2, <2>1, <2>2, <2>3, <2>4
       DEF Cycle, QueueForLock, CycleReturns, CycleOverBudget, RecoveryAwaited
<1>3. ASSUME NEW g \in Gen, Worker(g), ~WorkerEnters(g) PROVE Calm
  BY <1>0, <1>3 DEF Worker, TickDecides, DriverWrites, WorkerRecords, WorkerEnds, Calm
<1>4. CASE Drain
  BY <1>4 DEF Drain, Calm
<1>5. CASE StartPeriodic \/ Coalesce \/ TakeControl \/ UNCHANGED vars
  BY <1>0, <1>5 DEF StartPeriodic, Coalesce, TakeControl, vars
<1> QED
  BY <1>1, <1>2, <1>3, <1>4, <1>5 DEF Next, Ongoing

LEMMA FenceStep == Owned /\ [Next]_vars => [F!Next]_(F!vars)
<1>1. Calm => [F!Next]_(F!vars)
  BY DEF Calm, F!Next, F!Holder
<1>2. ASSUME NEW g \in Gen, WorkerEnters(g) PROVE F!Next
  BY <1>2 DEF WorkerEnters, F!Next, F!Holder
<1> QED
  BY <1>1, <1>2, ServiceCalls

LEMMA FenceKept == Owned /\ F!IInv /\ [Next]_vars => F!IInv'
<1>1. F!IInv' <=> FP!IInv'
  BY SameInvariant, PTL
<1>2. [F!Next]_(F!vars) => [FP!Next]_(FP!vars)
  BY SameNext DEF F!vars, FP!vars, F!fence, FP!fence, F!history, FP!history
<1> QED
  BY <1>1, <1>2, FenceStep, FP!NextIInv, BoundsAreNat, SameInvariant

(* A calm step moves threads on, but lets nobody into enter(). *)
LEMMA CalmThreads ==
    ASSUME F!IInv, Calm, NEW g \in Gen
    PROVE  \/ thread'[g] = Woken(g)
           \/ thread[g] = "unborn" /\ g = generation + 1 /\ thread'[g] = "reserved"
           \/ thread[g] = "writing" /\ thread'[g] = "left"
           \/ thread[g] \in {"reserved", "left", "refused"} /\ thread'[g] = "released"
           \/ thread'[g] = thread[g]
<1>1. ASSUME NEW cls \in F!ReservedClass, F!Reserve(cls)
      PROVE  thread'[g] = Woken(g)
             \/ (thread[g] = "unborn" /\ g = generation + 1 /\ thread'[g] = "reserved")
  BY <1>1, Issued DEF F!ReservedClass
<1>2. CASE F!AdmitRoutine
  BY <1>2, Issued
<1>3. ASSUME NEW s \in Gen, F!BeginRecovery(s)
      PROVE  thread'[g] = Woken(g)
             \/ (thread[g] = "unborn" /\ g = generation + 1 /\ thread'[g] = "reserved")
  <2>1. CASE F!SuppressRecovery(s)
    BY <2>1, Superseded
  <2>2. CASE F!IssueRecovery(s)
    BY <2>2, Issued
  <2> QED
    BY <1>3, <2>1, <2>2 DEF F!BeginRecovery
<1>4. ASSUME NEW h \in Gen, F!Leave(h)
      PROVE  thread'[g] = Woken(g) \/ (thread[g] = "writing" /\ thread'[g] = "left")
  BY <1>4, LeftFence
<1>5. ASSUME NEW h \in Gen, F!Release(h)
      PROVE  thread'[g] = Woken(g)
             \/ (thread[g] \in {"reserved", "left", "refused"} /\ thread'[g] = "released")
  BY <1>5, Released
<1>6. CASE F!MarkDraining \/ F!ClearDraining
  BY <1>6, Superseded
<1>7. CASE UNCHANGED F!vars
  BY <1>7 DEF F!vars
<1> QED
  BY <1>1, <1>2, <1>3, <1>4, <1>5, <1>6, <1>7 DEF Calm

(* A ticket whose holder has not moved yet, and which is no routine's,     *)
(* stays as it is until it is released, recovered from, or entered with.   *)
LEMMA SlotKept ==
    ASSUME F!IInv, NEW h \in tickets \ superseded, thread[h] = "reserved",
           commandClass[h] # F!ROUTINE,
           \/ Calm /\ ~F!Release(h) /\ ~F!BeginRecovery(h)
           \/ \E g \in Gen \ {h} : F!Enter(g) \/ F!EnterRefused(g) \/ F!EnterWait(g)
    PROVE  h \in tickets' \ superseded' /\ thread'[h] = "reserved"
<1>0. h \in Gen /\ h \notin F!RoutineTickets /\ h # generation + 1
  BY FenceTypes, BoundsAreNat DEF F!RoutineTickets
<1>1. ASSUME Calm, ~F!Release(h) PROVE thread'[h] = "reserved"
  <2>1. thread'[h] # "released"
    <3>1. ASSUME NEW g \in Gen, F!Leave(g) \/ F!Release(g) PROVE thread'[h] # "released"
      BY <1>0, <1>1, <3>1, LeftFence, Released DEF Woken
    <3>2. ASSUME NEW cls \in F!ReservedClass, F!Reserve(cls) PROVE thread'[h] # "released"
      BY <1>0, <3>2, Issued DEF F!ReservedClass, Woken
    <3>3. ASSUME NEW s \in Gen, F!BeginRecovery(s) PROVE thread'[h] # "released"
      BY <1>0, <3>3, Issued, Superseded DEF F!BeginRecovery, Woken
    <3>4. CASE F!AdmitRoutine \/ F!MarkDraining \/ F!ClearDraining \/ UNCHANGED F!vars
      BY <1>0, <3>4, Issued, Superseded DEF F!vars, Woken
    <3> QED
      BY <1>1, <3>1, <3>2, <3>3, <3>4 DEF Calm
  <2> QED
    BY <1>0, <1>1, <2>1, CalmThreads DEF Woken
<1>2. ASSUME NEW g \in Gen \ {h}, F!Enter(g) \/ F!EnterRefused(g) \/ F!EnterWait(g)
      PROVE  h \in tickets' \ superseded' /\ thread'[h] = "reserved"
  BY <1>0, <1>2, Entered
<1>3. ASSUME Calm, ~F!Release(h), ~F!BeginRecovery(h) PROVE h \in tickets' \ superseded'
  <2>1. ASSUME NEW g \in Gen, F!Leave(g) \/ F!Release(g) PROVE h \in tickets' \ superseded'
    BY <1>0, <1>3, <2>1, LeftFence, Released
  <2>2. ASSUME NEW cls \in F!ReservedClass, F!Reserve(cls) PROVE h \in tickets' \ superseded'
    BY <1>0, <2>2 DEF F!Reserve, F!NewTicket
  <2>3. ASSUME NEW s \in Gen, F!BeginRecovery(s) PROVE h \in tickets' \ superseded'
    BY <1>0, <1>3, <2>3 DEF F!BeginRecovery, F!SuppressRecovery, F!IssueRecovery, F!NewTicket
  <2>4. CASE F!AdmitRoutine \/ F!MarkDraining \/ F!ClearDraining \/ UNCHANGED F!vars
    BY <1>0, <2>4 DEF F!AdmitRoutine, F!MarkDraining, F!ClearDraining, F!vars, F!fence, F!NewTicket
  <2> QED
    BY <1>3, <2>1, <2>2, <2>3, <2>4 DEF Calm
<1> QED
  BY <1>1, <1>2, <1>3

(* Tickets are only added, and each keeps its class. *)
LEMMA FenceGrows ==
    ASSUME F!IInv, F!IInv', [F!Next]_(F!vars)
    PROVE  /\ generation <= generation'
           /\ \A g \in 1 .. generation : g \in Gen /\ commandClass'[g] = commandClass[g]
<1> USE FenceTypes, BoundsAreNat
<1>1. ASSUME NEW cls \in F!ReservedClass, F!Reserve(cls)
      PROVE  generation' = generation + 1 /\ \A g \in Gen \ {generation + 1} : commandClass'[g] = commandClass[g]
  BY <1>1, Issued DEF F!ReservedClass
<1>2. CASE F!AdmitRoutine
  BY <1>2, Issued
<1>3. ASSUME NEW s \in Gen, F!BeginRecovery(s)
      PROVE  /\ generation' \in {generation, generation + 1}
             /\ \A g \in Gen \ {generation + 1} : commandClass'[g] = commandClass[g]
  <2>1. CASE F!SuppressRecovery(s)
    BY <2>1, Superseded
  <2>2. CASE F!IssueRecovery(s)
    BY <2>2, Issued
  <2> QED
    BY <1>3, <2>1, <2>2 DEF F!BeginRecovery
<1>4. ASSUME NEW g \in Gen, F!Holder(g) PROVE UNCHANGED <<generation, commandClass>>
  BY <1>4 DEF F!Holder, F!Enter, F!EnterRefused, F!EnterWait, F!EnterTimeout, F!Leave, F!Release, F!fence
<1>5. CASE F!MarkDraining \/ F!ClearDraining
  BY <1>5, Superseded
<1>6. CASE UNCHANGED F!vars
  BY <1>6 DEF F!vars, F!fence
<1> QED
  BY <1>1, <1>2, <1>3, <1>4, <1>5, <1>6 DEF F!Next
-----------------------------------------------------------------------------
(* Who owns which ticket: Owned is preserved part by part. *)

LEMMA RequestsKept ==
    ASSUME Owned, [Next]_vars
    PROVE  RequestsCounted'
<1> USE DEF Submitted
<1>1. IsFiniteSet(Submitted) /\ version = Cardinality(Submitted) /\ Periodic \notin Overrides
  BY OverridesAreFinite, FS_Subset DEF Owned, RequestsCounted
<1>2. pc \in [Cycles -> {"idle", "saved", "task", "lock", "running", "overrun", "recovering", "done"}]
  BY DEF Owned, TypeOK
<1>3. ASSUME NEW c \in Overrides, SaveOverride(c) PROVE RequestsCounted'
  <2>1. Submitted' = Submitted \cup {c} /\ c \notin Submitted /\ version' = version + 1
    BY <1>2, <1>3 DEF SaveOverride
  <2>2. Cardinality(Submitted \cup {c}) = Cardinality(Submitted) + 1
    BY <1>1, <2>1, FS_AddElement
  <2> QED
    BY <1>1, <2>1, <2>2 DEF RequestsCounted
<1>4. ASSUME version' = version, Submitted' = Submitted PROVE RequestsCounted'
  BY <1>1, <1>4 DEF RequestsCounted
<1>5. ASSUME NEW c \in Overrides, SpawnOverride(c) \/ CancelOverride(c)
      PROVE  version' = version /\ Submitted' = Submitted
  BY <1>2, <1>5 DEF SpawnOverride, CancelOverride, boxVars
<1>6. StartPeriodic => version' = version /\ Submitted' = Submitted
  BY <1>1, <1>2 DEF StartPeriodic
<1>7. Coalesce => version' = version /\ Submitted' = Submitted
  BY <1>1, <1>2 DEF Coalesce, EndCycle, boxVars, Ended
<1>8. ASSUME NEW c \in Cycles, Cycle(c)
      PROVE  version' = version /\ Submitted' = Submitted
  <2>1. version' = version
    BY <1>8 DEF Cycle, QueueForLock, RefuseDraining, SpawnTick, CycleReturns, CycleOverBudget,
       CycleTimeout, SpawnRecovery, SkipRecovery, RecoveryAwaited, boxVars
  <2>2. pc[c] # "idle" /\ \E v : pc' = [pc EXCEPT ![c] = v] /\ (c # Periodic => v # "idle")
    BY <1>8 DEF Cycle, QueueForLock, RefuseDraining, SpawnTick, CycleReturns, CycleOverBudget,
       CycleTimeout, SpawnRecovery, SkipRecovery, RecoveryAwaited, EndCycle, Ended
  <2> QED
    BY <1>1, <1>2, <2>1, <2>2
<1>9. CASE Drain \/ TakeControl \/ UNCHANGED vars \/ \E g \in Gen : Worker(g)
  BY <1>4, <1>9 DEF Drain, TakeControl, vars, loopVars, boxVars, Worker, TickDecides, WorkerEnters,
     DriverWrites, WorkerRecords, WorkerEnds
<1> QED
  BY <1>3, <1>4, <1>5, <1>6, <1>7, <1>8, <1>9 DEF Next, Ongoing

LEMMA VersionBounded ==
    ASSUME RequestsCounted
    PROVE  version \in 0 .. Cardinality(Overrides)
  BY OverridesAreFinite, FS_Subset, FS_CardinalityType DEF RequestsCounted, Submitted

(* The part of TypeOK that is about the event loop and its box. *)
LoopTypes ==
    /\ pc \in [Cycles -> {"idle", "saved", "task", "lock", "running", "overrun",
                          "recovering", "done"}]
    /\ token \in [Cycles -> F!GenOrNone]
    /\ recovery \in [Cycles -> F!GenOrNone]
    /\ suppressed \in [Cycles -> BOOLEAN]
    /\ lockQueue \in Seq(Cycles)
    /\ spawned \subseteq Gen
    /\ ticks \in 0 .. MaxTicks
    /\ controlling \in BOOLEAN
    /\ reservedVersion \in Nat

(* ... and about the workers, the controller and the device. *)
DeviceTypes ==
    /\ target \in [Gen -> Mode \cup {Undecided, NoCommand}]
    /\ outcome \in [Gen -> Outcome \cup {Pending}]
    /\ device \in Mode
    /\ lastConfirmed \in Mode \cup {NoMode}
    /\ unconfirmed \in BOOLEAN
    /\ seen \in [Gen -> Nat]

LEMMA TypeParts ==
    TypeOK <=> /\ F!TypeOK /\ LoopTypes /\ DeviceTypes
               /\ version \in 0 .. Cardinality(Overrides)
  BY DEF TypeOK, LoopTypes, DeviceTypes

LEMMA LoopTypesKept ==
    ASSUME Owned, F!IInv, F!IInv', [Next]_vars
    PROVE  LoopTypes'
<1>0. LoopTypes /\ version \in Nat
  BY TypeParts, FS_CardinalityType, OverridesAreFinite DEF Owned
<1>1. generation' \in F!GenOrNone /\ (generation' # None => generation' \in Gen)
  BY DEF F!IInv, F!TypeOK
<1> USE DEF LoopTypes
<1>2. ASSUME NEW c \in Overrides, SaveOverride(c) \/ SpawnOverride(c) \/ CancelOverride(c)
      PROVE  LoopTypes'
  <2>1. CASE SpawnOverride(c)
    <3>1. /\ token' = token \/ token' = [token EXCEPT ![c] = generation']
          /\ pc' = [pc EXCEPT ![c] = "task"] \/ pc' = [pc EXCEPT ![c] = "done"]
          /\ reservedVersion' = reservedVersion \/ reservedVersion' = version
      BY <2>1 DEF SpawnOverride, F!Reserve, F!NewTicket
    <3>2. /\ pc' \in [Cycles -> {"idle", "saved", "task", "lock", "running", "overrun",
                                "recovering", "done"}]
          /\ token' \in [Cycles -> F!GenOrNone] /\ reservedVersion' \in Nat
      BY <1>0, <1>1, <3>1
    <3>3. UNCHANGED <<recovery, suppressed, lockQueue, spawned, ticks, controlling>>
      BY <2>1 DEF SpawnOverride, boxVars
    <3> QED
      BY <1>0, <3>2, <3>3
  <2>2. CASE SaveOverride(c)
    BY <1>0, <2>2 DEF SaveOverride, boxVars, history
  <2>3. CASE CancelOverride(c)
    BY <1>0, <2>3 DEF CancelOverride, boxVars, history
  <2> QED
    BY <1>2, <2>1, <2>2, <2>3
<1>3. CASE StartPeriodic
  BY <1>0, <1>3, BoundsAreNat DEF StartPeriodic, history
<1>4. ASSUME NEW c \in Cycles, Cycle(c) PROVE LoopTypes'
  <2>1. lockQueue # <<>> => Tail(lockQueue) \in Seq(Cycles)
    BY <1>0
  <2>2. CASE QueueForLock(c) \/ RefuseDraining(c)
    <3>1. Append(lockQueue, c) \in Seq(Cycles)
      BY <1>0
    <3> QED
      BY <1>0, <2>2, <3>1 DEF QueueForLock, RefuseDraining, Ended, boxVars, history
  <2>3. CASE SpawnTick(c)
    <3>1. c = Periodic \/ token'[c] = token[c]
      BY <2>3 DEF SpawnTick
    <3>2. \/ token' = token
          \/ token' = [token EXCEPT ![c] = generation'] /\ generation' # None
      BY <1>0, <2>3, FenceTypes DEF SpawnTick, F!AdmitRoutine, F!NewTicket
    <3>3. token'[c] \in Gen
      <4>1. CASE c # Periodic
        BY <2>3, <4>1, TokenIsTicket DEF SpawnTick, Waits
      <4>2. CASE c = Periodic
        BY <1>0, <2>3, <4>2, Issued DEF SpawnTick
      <4> QED
        BY <4>1, <4>2
    <3> QED
      BY <1>0, <1>1, <2>3, <3>2, <3>3 DEF SpawnTick, boxVars, history
  <2>4. CASE CycleReturns(c) \/ CycleOverBudget(c) \/ RecoveryAwaited(c) \/ SkipRecovery(c)
    <3>1. lockQueue # <<>>
      BY <2>4 DEF Owned, LockHeld, HoldsLock, CycleReturns, CycleOverBudget, RecoveryAwaited, SkipRecovery
    <3> QED
      BY <1>0, <2>1, <2>4, <3>1
         DEF CycleReturns, CycleOverBudget, RecoveryAwaited, SkipRecovery, EndCycle, Ended, boxVars, history
  <2>5. CASE CycleTimeout(c)
    <3>1. recovery' = recovery \/ recovery' = [recovery EXCEPT ![c] = generation']
      BY <2>5 DEF CycleTimeout, F!IssueRecovery, F!NewTicket
    <3>2. suppressed' = suppressed \/ suppressed' = [suppressed EXCEPT ![c] = TRUE]
      BY <2>5 DEF CycleTimeout
    <3> QED
      BY <1>0, <1>1, <2>5, <3>1, <3>2 DEF CycleTimeout, boxVars, history
  <2>6. CASE SpawnRecovery(c)
    <3>1. \/ recovery' = recovery /\ recovery[c] \in Gen
          \/ recovery' = [recovery EXCEPT ![c] = generation'] /\ generation' # None
      BY <1>0, <2>6, FenceTypes DEF SpawnRecovery, F!Reserve, F!NewTicket
    <3> QED
      BY <1>0, <1>1, <2>6, <3>1 DEF SpawnRecovery, boxVars, history
  <2> QED
    BY <1>4, <2>2, <2>3, <2>4, <2>5, <2>6 DEF Cycle
<1>5. CASE Coalesce
  BY <1>0, <1>5 DEF Coalesce, HoldsLock, EndCycle, Ended, boxVars, history
<1>6. CASE Drain \/ TakeControl \/ UNCHANGED vars \/ \E g \in Gen : Worker(g)
  BY <1>0, <1>6 DEF Drain, TakeControl, vars, loopVars, boxVars, history, Worker, TickDecides,
     WorkerEnters, DriverWrites, WorkerRecords, WorkerEnds
<1> QED
  BY <1>2, <1>3, <1>4, <1>5, <1>6 DEF Next, Ongoing

LEMMA DeviceTypesKept ==
    ASSUME Owned, F!IInv, [Next]_vars
    PROVE  DeviceTypes'
<1>0. DeviceTypes /\ version \in Nat
  BY TypeParts, FS_CardinalityType, OverridesAreFinite DEF Owned
<1> USE DEF DeviceTypes
<1>1. ASSUME NEW g \in Gen, TickDecides(g) PROVE DeviceTypes'
  BY <1>0, <1>1 DEF TickDecides
<1>2. ASSUME NEW g \in Gen, DriverWrites(g) PROVE DeviceTypes'
  <2>1. Applied(g) \in Mode
    BY <1>2, ModesAndOutcomes DEF DriverWrites, Owned, WritersDecided, Applied
  <2>2. device' \in Mode
    BY <1>0, <1>2, <2>1, ModesAndOutcomes DEF DriverWrites
  <2> QED
    BY <1>0, <1>2, <2>2 DEF DriverWrites, history
<1>3. ASSUME NEW g \in Gen, WorkerRecords(g) PROVE DeviceTypes'
  <2>1. thread[g] = "writing"
    BY <1>3 DEF WorkerRecords, F!Leave
  <2>2. Applied(g) \in Mode
    BY <2>1, ModesAndOutcomes DEF Owned, WritersDecided, Applied
  <2>3. lastConfirmed' \in Mode \cup {NoMode} /\ unconfirmed' \in BOOLEAN
    BY <1>0, <1>3, <2>2, ModesAndOutcomes DEF WorkerRecords
  <2> QED
    BY <1>0, <1>3, <2>3 DEF WorkerRecords, history
<1>4. ASSUME UNCHANGED <<deviceVars, seen>> PROVE DeviceTypes'
  BY <1>0, <1>4 DEF deviceVars
<1>5. ASSUME NEW g \in Gen, WorkerEnters(g) \/ WorkerEnds(g) PROVE UNCHANGED <<deviceVars, seen>>
  BY <1>5 DEF WorkerEnters, WorkerEnds, history
<1>6. ASSUME NEW c \in Cycles, Cycle(c) PROVE UNCHANGED <<deviceVars, seen>>
  BY <1>6 DEF Cycle, QueueForLock, RefuseDraining, SpawnTick, CycleReturns, CycleOverBudget,
     CycleTimeout, SpawnRecovery, SkipRecovery, RecoveryAwaited, history
<1>7. CASE Drain \/ TakeControl \/ UNCHANGED vars \/ StartPeriodic \/ Coalesce
  BY <1>4, <1>7 DEF Drain, TakeControl, vars, StartPeriodic, Coalesce, history
<1>8. ASSUME NEW c \in Overrides, SaveOverride(c) \/ SpawnOverride(c) \/ CancelOverride(c)
      PROVE  UNCHANGED <<deviceVars, seen>>
  BY <1>8 DEF SaveOverride, SpawnOverride, CancelOverride, history
<1> QED
  BY <1>1, <1>2, <1>3, <1>4, <1>5, <1>6, <1>7, <1>8 DEF Next, Ongoing, Worker

(* What a step may do to the tokens for them to stay tickets of their class. *)
TokensMove ==
    /\ \A g \in spawned' : g \in spawned \/ g \in 1 .. generation'
    /\ \A c \in Cycles :
          \/ token'[c] = token[c] \/ token'[c] = None
          \/ /\ token'[c] \in 1 .. generation'
             /\ c \in Overrides => commandClass'[token'[c]] = F!OVERRIDE
    /\ \A c \in Cycles :
          \/ recovery'[c] = recovery[c] \/ recovery'[c] = None
          \/ recovery'[c] \in 1 .. generation' /\ commandClass'[recovery'[c]] = F!RECOVERY
    /\ pc'[Periodic] \in {"task", "lock"} => token'[Periodic] = None
    /\ \A c \in Cycles : pc'[c] = "running" => token'[c] \in spawned'

LEMMA TokensMoved ==
    ASSUME Owned, F!IInv, F!IInv', [F!Next]_(F!vars), TokensMove
    PROVE  TokensKept'
<1>0. LoopTypes /\ TokensKept
  BY TypeParts DEF Owned
<1>1. /\ generation <= generation' /\ generation \in Nat /\ generation' \in Nat
      /\ \A g \in 1 .. generation : g \in Gen /\ commandClass'[g] = commandClass[g]
  BY FenceGrows DEF F!IInv, F!TypeOK
<1>2. \A c \in Cycles : /\ token[c] # None => token[c] \in 1 .. generation
                        /\ recovery[c] # None => recovery[c] \in 1 .. generation
  BY <1>0 DEF TokensKept, LoopTypes
<1>3. spawned' \subseteq 1 .. generation'
  <2>1. \A g \in spawned : g \in 1 .. generation'
    BY <1>0, <1>1 DEF TokensKept
  <2> QED
    BY <2>1 DEF TokensMove
<1>4. \A c \in Cycles : token'[c] <= generation' /\ recovery'[c] <= generation'
  BY <1>1, <1>2 DEF TokensMove
<1>5. \A c \in Cycles : recovery'[c] # None => commandClass'[recovery'[c]] = F!RECOVERY
  BY <1>0, <1>1, <1>2 DEF TokensMove, TokensKept
<1>6. \A c \in Overrides : token'[c] # None => commandClass'[token'[c]] = F!OVERRIDE
  <2>1. \A c \in Overrides : token[c] # None => commandClass'[token[c]] = F!OVERRIDE
    BY <1>0, <1>1, <1>2 DEF TokensKept
  <2> QED
    BY <2>1 DEF TokensMove
<1> QED
  BY <1>3, <1>4, <1>5, <1>6 DEF TokensMove, TokensKept

LEMMA TokensStep ==
    ASSUME Owned, F!IInv, F!IInv', [Next]_vars
    PROVE  TokensKept'
<1> SUFFICES TokensMove
  BY TokensMoved, FenceStep
<1>0. LoopTypes /\ TokensKept /\ generation \in Nat
  BY TypeParts DEF Owned, F!IInv, F!TypeOK
<1> USE DEF LoopTypes
<1>3. ASSUME UNCHANGED <<token, recovery, spawned>>,
             \A c \in Cycles : pc'[c] = "running" => pc[c] = "running",
             pc'[Periodic] \in {"task", "lock"} => pc[Periodic] \in {"task", "lock"}
      PROVE  TokensMove
  BY <1>0, <1>3 DEF TokensKept, TokensMove
<1>4. ASSUME NEW c \in Overrides, SaveOverride(c) \/ CancelOverride(c) PROVE TokensMove
  BY <1>0, <1>3, <1>4, OverridesAreFinite DEF SaveOverride, CancelOverride
<1>5. ASSUME NEW c \in Overrides, SpawnOverride(c) PROVE TokensMove
  <2>1. CASE F!Reserve(F!OVERRIDE) /\ token' = [token EXCEPT ![c] = generation + 1]
             /\ pc' = [pc EXCEPT ![c] = "task"]
    <3>1. /\ generation' = generation + 1 /\ commandClass'[generation + 1] = F!OVERRIDE
          /\ generation + 1 \in 1 .. generation'
      BY <1>0, <2>1, Issued
    <3>2. c # Periodic /\ UNCHANGED <<recovery, spawned>>
      BY <1>5, OverridesAreFinite DEF SpawnOverride
    <3> QED
      BY <1>0, <2>1, <3>1, <3>2 DEF TokensKept, TokensMove
  <2>2. CASE UNCHANGED fenceVars /\ token' = token /\ pc' = [pc EXCEPT ![c] = "done"]
    BY <1>0, <1>3, <1>5, <2>2, OverridesAreFinite DEF SpawnOverride
  <2> QED
    BY <1>5, <2>1, <2>2 DEF SpawnOverride
<1>6. CASE StartPeriodic
  BY <1>0, <1>6, OverridesAreFinite DEF StartPeriodic, TokensKept, TokensMove
<1>7. ASSUME NEW c \in Cycles, SpawnTick(c) PROVE TokensMove
  <2>1. CASE c = Periodic
    <3>1. generation' = generation + 1 /\ generation + 1 \in 1 .. generation'
      BY <1>0, <1>7, <2>1, Issued DEF SpawnTick
    <3>2. /\ token' = [token EXCEPT ![Periodic] = generation'] /\ recovery' = recovery
          /\ pc' = [pc EXCEPT ![Periodic] = "running"] /\ spawned' = spawned \cup {token'[Periodic]}
      BY <1>7, <2>1, <3>1 DEF SpawnTick
    <3> QED
      BY <1>0, <2>1, <3>1, <3>2, OverridesAreFinite DEF TokensKept, TokensMove
  <2>2. CASE c # Periodic
    <3>1. token[c] \in Gen /\ token[c] <= generation
      BY <1>0, <1>7, <2>2, TokenIsTicket DEF SpawnTick, Waits, TokensKept
    <3>2. generation' = generation
      BY <1>7, <2>2 DEF SpawnTick, fenceVars
    <3> QED
      BY <1>0, <1>7, <2>2, <3>1, <3>2 DEF SpawnTick, TokensKept, TokensMove
  <2> QED
    BY <2>1, <2>2
<1>8. ASSUME NEW c \in Cycles, CycleTimeout(c) \/ SpawnRecovery(c) PROVE TokensMove
  <2>1. /\ \/ recovery' = recovery /\ generation' \in {generation, generation + 1}
           \/ /\ recovery' = [recovery EXCEPT ![c] = generation']
              /\ commandClass'[generation'] = F!RECOVERY
              /\ generation' \in 1 .. generation'
        /\ token' = token
        /\ pc' = [pc EXCEPT ![c] = "overrun"] \/ pc' = [pc EXCEPT ![c] = "recovering"]
    <3>1. CASE CycleTimeout(c)
      <4>1. CASE F!IssueRecovery(token[c]) /\ recovery' = [recovery EXCEPT ![c] = generation + 1]
        <5>1. generation' = generation + 1 /\ commandClass'[generation + 1] = F!RECOVERY
          BY <4>1, Issued
        <5> QED
          BY <1>0, <3>1, <4>1, <5>1 DEF CycleTimeout
      <4>2. CASE recovery' = recovery /\ (F!SuppressRecovery(token[c]) \/ UNCHANGED fenceVars)
        BY <1>0, <3>1, <4>2, Superseded DEF CycleTimeout, fenceVars
      <4> QED
        BY <3>1, <4>1, <4>2 DEF CycleTimeout
    <3>2. CASE SpawnRecovery(c)
      <4>1. CASE recovery[c] # None
        BY <1>0, <3>2, <4>1 DEF SpawnRecovery, fenceVars
      <4>2. CASE recovery[c] = None
        <5>1. F!Reserve(F!RECOVERY) /\ recovery' = [recovery EXCEPT ![c] = generation + 1]
          BY <3>2, <4>2 DEF SpawnRecovery
        <5>2. generation' = generation + 1 /\ commandClass'[generation + 1] = F!RECOVERY
          BY <5>1, Issued
        <5> QED
          BY <1>0, <3>2, <5>1, <5>2 DEF SpawnRecovery
      <4> QED
        BY <4>1, <4>2
    <3> QED
      BY <1>8, <3>1, <3>2
  <2>2. spawned' = spawned \/ (spawned' = spawned \cup {recovery'[c]} /\ recovery'[c] # None)
    <3>1. CASE CycleTimeout(c)
      BY <3>1 DEF CycleTimeout
    <3>2. CASE SpawnRecovery(c)
      <4>1. recovery[c] = None => recovery' = [recovery EXCEPT ![c] = generation + 1] /\ generation + 1 # None
        BY <1>0, <3>2 DEF SpawnRecovery
      <4> QED
        BY <1>0, <3>2, <4>1 DEF SpawnRecovery
    <3> QED
      BY <1>8, <3>1, <3>2
  <2>3. recovery'[c] # None => recovery'[c] \in 1 .. generation'
    BY <1>0, <2>1 DEF TokensKept
  <2> QED
    BY <1>0, <2>1, <2>2, <2>3 DEF TokensKept, TokensMove
<1>9. ASSUME NEW c \in Cycles, \/ QueueForLock(c) \/ RefuseDraining(c) \/ CycleReturns(c)
                               \/ CycleOverBudget(c) \/ SkipRecovery(c) \/ RecoveryAwaited(c)
      PROVE  TokensMove
  <2>1. /\ pc[c] \notin {"idle", "done"} /\ UNCHANGED <<token, recovery, spawned>>
        /\ \E v \in {"lock", "idle", "done", "overrun"} :
              pc' = [pc EXCEPT ![c] = v] /\ (v = "lock" => pc[c] = "task")
    BY <1>9 DEF QueueForLock, RefuseDraining, CycleReturns, CycleOverBudget, SkipRecovery,
       RecoveryAwaited, EndCycle, Ended
  <2> QED
    BY <1>0, <1>3, <2>1
<1>10. CASE Coalesce
  BY <1>0, <1>3, <1>10 DEF Coalesce, EndCycle, Ended
<1>11. CASE Drain \/ TakeControl \/ UNCHANGED vars \/ \E g \in Gen : Worker(g)
  BY <1>3, <1>11 DEF Drain, TakeControl, vars, loopVars, Worker, TickDecides, WorkerEnters,
     DriverWrites, WorkerRecords, WorkerEnds
<1> QED
  BY <1>4, <1>5, <1>6, <1>7, <1>8, <1>9, <1>10, <1>11 DEF Next, Ongoing, Cycle

(* asyncio.Lock hands itself on in order. *)
LEMMA QueueHead ==
    ASSUME NEW S, NEW q \in Seq(S), NEW e \in S, q # <<>>
    PROVE  Append(q, e) # <<>> /\ Head(Append(q, e)) = Head(q)
<1>1. Len(q) > 0 /\ Len(Append(q, e)) = Len(q) + 1 /\ Append(q, e)[1] = q[1]
  OBVIOUS
<1> QED
  BY <1>1

LEMMA LockStep ==
    ASSUME Owned, [Next]_vars
    PROVE  LockHeld'
<1>0. LoopTypes /\ LockHeld /\ lockQueue \in Seq(Cycles)
  BY TypeParts DEF Owned, LoopTypes
<1> DEFINE Inside(c) == pc[c] \in {"running", "overrun", "recovering"}
<1>1. \A c, d \in Cycles : Inside(c) /\ HoldsLock(d) => c = d
  BY <1>0 DEF LockHeld, HoldsLock
<1> USE DEF LoopTypes, LockHeld
<1>2. ASSUME lockQueue' = lockQueue, \A c \in Cycles : Inside(c)' => Inside(c) PROVE LockHeld'
  BY <1>0, <1>2 DEF HoldsLock
<1>3. ASSUME NEW c \in Overrides, SaveOverride(c) \/ SpawnOverride(c) \/ CancelOverride(c) PROVE LockHeld'
  BY <1>0, <1>2, <1>3 DEF SaveOverride, SpawnOverride, CancelOverride
<1>4. ASSUME NEW c \in Cycles, QueueForLock(c) PROVE LockHeld'
  <2>1. \A d \in Cycles : HoldsLock(d) => HoldsLock(d)'
    BY <1>0, <1>4, QueueHead DEF QueueForLock, HoldsLock
  <2> QED
    BY <1>0, <1>4, <2>1 DEF QueueForLock
<1>5. ASSUME NEW c \in Cycles, RefuseDraining(c) PROVE LockHeld'
  BY <1>0, <1>2, <1>5 DEF RefuseDraining, Ended
<1>6. ASSUME NEW c \in Cycles,
             SpawnTick(c) \/ CycleOverBudget(c) \/ CycleTimeout(c) \/ SpawnRecovery(c)
      PROVE  LockHeld'
  <2>1. HoldsLock(c) /\ lockQueue' = lockQueue
    BY <1>0, <1>6 DEF SpawnTick, CycleOverBudget, CycleTimeout, SpawnRecovery
  <2>2. \A d \in Cycles : Inside(d)' => Inside(d) \/ d = c
    BY <1>0, <1>6 DEF SpawnTick, CycleOverBudget, CycleTimeout, SpawnRecovery
  <2> QED
    BY <1>0, <2>1, <2>2 DEF HoldsLock
<1>7. ASSUME NEW c \in Cycles, HoldsLock(c), EndCycle(c) PROVE LockHeld'
  <2>1. \A d \in Cycles : ~Inside(d)'
    BY <1>0, <1>1, <1>7 DEF EndCycle, Ended
  <2> QED
    BY <2>1
<1>8. ASSUME NEW c \in Cycles, CycleReturns(c) \/ SkipRecovery(c) \/ RecoveryAwaited(c)
      PROVE  LockHeld'
  BY <1>0, <1>7, <1>8 DEF CycleReturns, SkipRecovery, RecoveryAwaited
<1>9. CASE Coalesce
  BY <1>7, <1>9 DEF Coalesce
<1>10. CASE StartPeriodic
  BY <1>0, <1>2, <1>10 DEF StartPeriodic
<1>11. CASE Drain \/ TakeControl \/ UNCHANGED vars \/ \E g \in Gen : Worker(g)
  BY <1>2, <1>11 DEF Drain, TakeControl, vars, loopVars, Worker, TickDecides, WorkerEnters,
     DriverWrites, WorkerRecords, WorkerEnds
<1> QED
  BY <1>3, <1>4, <1>5, <1>6, <1>8, <1>9, <1>10, <1>11 DEF Next, Ongoing, Cycle

(* The ticket of an override that waits. *)
LEMMA WaiterSlot ==
    ASSUME Owned, NEW w \in Overrides, Waits(w)
    PROVE  /\ token[w] \in Gen /\ token[w] <= generation
           /\ token[w] \in (tickets \ superseded) \ spawned /\ thread[token[w]] = "reserved"
           /\ commandClass[token[w]] = F!OVERRIDE
<1>0. token[w] \in Gen
  BY TokenIsTicket
<1>1. token[w] \in Gen /\ token[w] # None
  BY <1>0
<1>2. token[w] \in (tickets \ superseded) \ spawned /\ thread[token[w]] = "reserved"
  BY DEF Owned, WaitersKeepSlots
<1>3. TokensKept
  BY DEF Owned
<1>4. commandClass[token[w]] = F!OVERRIDE
  BY <1>1, <1>3 DEF TokensKept
<1>5. token[w] <= generation
  BY <1>3 DEF TokensKept
<1> QED
  BY <1>1, <1>2, <1>4, <1>5

(* A ticket that waits is nobody else's: no cycle and no worker that acts  *)
(* on a ticket of its own touches it.                                      *)
Untouched(w) == token[w] \in (tickets' \ superseded') \ spawned' /\ thread'[token[w]] = "reserved"

LEMMA WaiterUntouched ==
    ASSUME Owned, F!IInv, NEW w \in Overrides, Waits(w),
           token[w] \notin spawned' \ spawned,
           \/ Calm /\ ~F!Release(token[w]) /\ ~F!BeginRecovery(token[w])
           \/ \E g \in Gen \ {token[w]} : F!Enter(g) \/ F!EnterRefused(g) \/ F!EnterWait(g)
    PROVE  Untouched(w)
<1>1. token[w] \in (tickets \ superseded) \ spawned /\ thread[token[w]] = "reserved"
  BY DEF Owned, WaitersKeepSlots
<1>2. commandClass[token[w]] # F!ROUTINE
  BY <1>1, FenceTypes DEF Owned, TokensKept
<1> QED
  BY <1>1, <1>2, SlotKept DEF Untouched

(* The slots of the overrides that wait in a step, and of no others.       *)
LEMMA WaitersRemain ==
    ASSUME Owned, F!IInv,
           \A w \in Overrides : Waits(w)' => Waits(w) /\ token'[w] = token[w] /\ Untouched(w)
    PROVE  WaitersKeepSlots'
  BY DEF Owned, WaitersKeepSlots, Waits, Untouched

LEMMA WaitersStep ==
    ASSUME Owned, F!IInv, F!IInv', [Next]_vars
    PROVE  WaitersKeepSlots'
<1>0. LoopTypes /\ TokensKept /\ WaitersKeepSlots /\ generation \in Nat
  BY TypeParts DEF Owned, F!IInv, F!TypeOK
<1>1. \A w \in Overrides : Waits(w) =>
         /\ w \in Cycles /\ token[w] \in Gen /\ token[w] \in tickets /\ token[w] \notin spawned
         /\ token[w] # None /\ commandClass[token[w]] = F!OVERRIDE
         /\ thread[token[w]] = "reserved" /\ token[w] <= generation
  BY WaiterSlot
<1>2. \A w, v \in Overrides : Waits(w) /\ Waits(v) /\ token[w] = token[v] => w = v
  BY <1>0 DEF WaitersKeepSlots
<1>3. UNCHANGED fenceVars => UNCHANGED F!vars
  BY DEF fenceVars, F!vars, F!fence, F!history
<1> USE DEF LoopTypes
<1>4. ASSUME UNCHANGED <<token, spawned>>, \A w \in Overrides : Waits(w)' => Waits(w),
             UNCHANGED fenceVars \/ F!MarkDraining
      PROVE  WaitersKeepSlots'
  <2>1. ASSUME NEW w \in Overrides, Waits(w) PROVE Untouched(w)
    BY <1>1, <1>3, <1>4, <2>1 DEF WaitersKeepSlots, Untouched, F!MarkDraining, fenceVars, F!NotifyAll,
       F!RoutineTickets, Owned
  <2> QED
    BY <1>4, <2>1, WaitersRemain DEF Waits
<1>5. ASSUME NEW c \in Overrides, SaveOverride(c) PROVE WaitersKeepSlots'
  BY <1>0, <1>4, <1>5 DEF SaveOverride, Waits
<1>6. ASSUME NEW c \in Overrides, SpawnOverride(c) PROVE WaitersKeepSlots'
  <2>1. CASE F!Reserve(F!OVERRIDE) /\ token' = [token EXCEPT ![c] = generation + 1]
             /\ pc' = [pc EXCEPT ![c] = "task"]
    <3>1. /\ generation + 1 \in tickets' /\ thread'[generation + 1] = "reserved"
          /\ superseded' = superseded \cup F!RoutineTickets /\ generation + 1 \notin tickets
      BY <2>1, Issued DEF F!Reserve
    <3>2. spawned' = spawned /\ generation + 1 \notin spawned /\ generation + 1 \notin superseded'
      <4>1. superseded \subseteq 1 .. generation /\ spawned \subseteq 1 .. generation
        BY <1>0 DEF F!IInv, F!TypeOK, TokensKept
      <4> QED
        BY <1>0, <1>6, <3>1, <4>1 DEF SpawnOverride, F!RoutineTickets
    <3>3. ASSUME NEW w \in Overrides, Waits(w) PROVE Untouched(w)
      <4>1. Calm /\ ~F!Release(token[w]) /\ ~F!BeginRecovery(token[w])
        <5>1. Calm
          BY <2>1 DEF Calm, F!ReservedClass
        <5>2. generation' = generation + 1 /\ commandClass'[generation + 1] = F!OVERRIDE
          BY <2>1, Issued
        <5>3. ~F!Release(token[w])
          BY <1>0, <5>2 DEF F!Release
        <5>4. ~F!BeginRecovery(token[w])
          <6>1. ~F!SuppressRecovery(token[w])
            BY <1>0, <5>2 DEF F!SuppressRecovery
          <6>2. ~F!IssueRecovery(token[w])
            BY <5>2, Issued
          <6> QED
            BY <6>1, <6>2 DEF F!BeginRecovery
        <5> QED
          BY <5>1, <5>3, <5>4
      <4> QED
        BY <3>2, <3>3, <4>1, WaiterUntouched
    <3>4. \A w \in Overrides \ {c} : Waits(w)' => Waits(w) /\ token'[w] = token[w] /\ token[w] # generation + 1
      BY <1>0, <1>1, <2>1 DEF Waits
    <3>5. token'[c] = generation + 1 /\ ~Waits(c)
      BY <1>0, <1>6, <2>1 DEF SpawnOverride, Waits
    <3>6. ASSUME NEW w \in Overrides, Waits(w)'
          PROVE  /\ token'[w] \in (tickets' \ superseded') \ spawned' /\ thread'[token'[w]] = "reserved"
                 /\ w # c => Waits(w) /\ token'[w] = token[w] /\ token[w] # generation + 1
      BY <3>1, <3>2, <3>3, <3>4, <3>5, <3>6 DEF Untouched
    <3> QED
      BY <1>2, <3>5, <3>6 DEF WaitersKeepSlots
  <2>2. CASE UNCHANGED fenceVars /\ token' = token /\ pc' = [pc EXCEPT ![c] = "done"]
    BY <1>0, <1>4, <1>6, <2>2 DEF SpawnOverride, Waits
  <2> QED
    BY <1>6, <2>1, <2>2 DEF SpawnOverride
<1>7. ASSUME NEW c \in Overrides, Waits(c), F!Release(token[c]), UNCHANGED <<token, spawned>>,
             pc' = [pc EXCEPT ![c] = "done"]
      PROVE  WaitersKeepSlots'
  <2>1. ASSUME NEW w \in Overrides, Waits(w), w # c PROVE Untouched(w)
    <3>1. token[w] # token[c]
      BY <1>2, <1>7, <2>1
    <3>2. tickets' = tickets \ {token[c]} /\ superseded' = superseded \ {token[c]}
          /\ thread'[token[w]] = Woken(token[w])
      BY <1>1, <1>7, <2>1, <3>1, Released
    <3> QED
      BY <1>0, <1>7, <2>1, <3>1, <3>2 DEF WaitersKeepSlots, Untouched, Woken
  <2> QED
    BY <1>0, <1>7, <2>1, WaitersRemain DEF Waits
<1>8. ASSUME NEW c \in Overrides, CancelOverride(c) PROVE WaitersKeepSlots'
  BY <1>7, <1>8 DEF CancelOverride, Waits
<1>9. ASSUME NEW c \in Cycles, RefuseDraining(c) PROVE WaitersKeepSlots'
  <2>1. CASE c = Periodic
    BY <1>0, <1>4, <1>9, <2>1, OverridesAreFinite DEF RefuseDraining, Waits, TokensKept, Ended
  <2>2. CASE c # Periodic
    <3>1. c \in Overrides /\ Waits(c)
      BY <1>9, <2>2 DEF RefuseDraining, Waits
    <3> QED
      BY <1>1, <1>7, <1>9, <2>2, <3>1 DEF RefuseDraining, Ended
  <2> QED
    BY <2>1, <2>2
<1>10. ASSUME NEW c \in Cycles, QueueForLock(c) \/ CycleReturns(c) \/ CycleOverBudget(c) \/ RecoveryAwaited(c)
      PROVE  WaitersKeepSlots'
  <2>1. /\ UNCHANGED <<fenceVars, token, spawned>>
        /\ \E v \in {"lock", "idle", "done", "overrun"} :
              pc' = [pc EXCEPT ![c] = v] /\ (v = "lock" => pc[c] = "task")
    BY <1>10 DEF QueueForLock, CycleReturns, CycleOverBudget, RecoveryAwaited, EndCycle, Ended
  <2> QED
    BY <1>0, <1>4, <2>1 DEF Waits
<1>11. ASSUME NEW c \in Cycles, SpawnTick(c) PROVE WaitersKeepSlots'
  <2>1. CASE c = Periodic
    <3>1. \A w \in Overrides : ~Waits(w)
      BY <1>1, <1>11, <2>1 DEF SpawnTick, F!AdmitRoutine
    <3>2. \A w \in Overrides : ~Waits(w)'
      BY <1>0, <1>11, <2>1, <3>1, OverridesAreFinite DEF SpawnTick, Waits
    <3> QED
      BY <3>2 DEF WaitersKeepSlots
  <2>2. CASE c # Periodic
    <3>1. Waits(c) /\ c \in Overrides /\ UNCHANGED <<fenceVars, token>>
          /\ spawned' = spawned \cup {token[c]} /\ pc' = [pc EXCEPT ![c] = "running"]
      BY <1>11, <2>2 DEF SpawnTick, Waits
    <3>2. ASSUME NEW w \in Overrides, Waits(w), w # c PROVE Untouched(w)
      BY <1>0, <1>2, <3>1, <3>2 DEF Untouched, WaitersKeepSlots, fenceVars
    <3> QED
      BY <1>0, <3>1, <3>2, WaitersRemain DEF Waits
  <2> QED
    BY <2>1, <2>2
<1>12. ASSUME NEW c \in Cycles, CycleTimeout(c) PROVE WaitersKeepSlots'
  <2>1. token[c] \in spawned /\ token[c] \in Gen /\ UNCHANGED <<token, spawned>>
        /\ pc' = [pc EXCEPT ![c] = "overrun"]
    BY <1>0, <1>12 DEF CycleTimeout, TokensKept
  <2>2. ASSUME NEW w \in Overrides, Waits(w) PROVE Untouched(w)
    <3>0. token[w] # token[c]
      BY <1>1, <2>1, <2>2
    <3>1. CASE UNCHANGED fenceVars
      BY <1>0, <2>1, <2>2, <3>1 DEF Untouched, WaitersKeepSlots, fenceVars
    <3>2. CASE F!BeginRecovery(token[c])
      <4>1. superseded' = superseded \cup {token[c]} /\ tickets \subseteq tickets'
        BY <3>2 DEF F!BeginRecovery, F!SuppressRecovery, F!IssueRecovery, F!NewTicket
      <4>2. thread'[token[w]] = "reserved"
        <5>1. Calm
          BY <2>1, <3>2 DEF Calm
        <5>2. CASE F!SuppressRecovery(token[c])
          BY <1>1, <2>2, <5>2, Superseded DEF Woken
        <5>3. CASE F!IssueRecovery(token[c])
          BY <1>0, <1>1, <2>2, <5>3, Issued DEF Woken
        <5> QED
          BY <3>2, <5>2, <5>3 DEF F!BeginRecovery
      <4> QED
        BY <1>0, <2>1, <2>2, <3>0, <4>1, <4>2 DEF Untouched, WaitersKeepSlots
    <3> QED
      BY <1>12, <3>1, <3>2 DEF CycleTimeout, F!BeginRecovery
  <2> QED
    BY <1>0, <2>1, <2>2, WaitersRemain DEF Waits
<1>13. ASSUME NEW c \in Cycles, SpawnRecovery(c) PROVE WaitersKeepSlots'
  <2>1. token' = token /\ pc' = [pc EXCEPT ![c] = "recovering"]
    BY <1>13 DEF SpawnRecovery
  <2>2. ASSUME NEW w \in Overrides, Waits(w) PROVE Untouched(w)
    <3>1. CASE recovery[c] # None
      <4>1. token[w] # recovery[c] /\ UNCHANGED fenceVars /\ spawned' = spawned \cup {recovery[c]}
        BY <1>0, <1>1, <1>13, <2>2, <3>1 DEF SpawnRecovery, TokensKept
      <4> QED
        BY <1>0, <2>2, <4>1 DEF Untouched, WaitersKeepSlots, fenceVars
    <3>2. CASE recovery[c] = None
      <4>1. F!Reserve(F!RECOVERY) /\ spawned' = spawned \cup {generation + 1}
        BY <1>0, <1>13, <3>2 DEF SpawnRecovery
      <4>2. token[w] # generation + 1
        BY <1>0, <1>1, <2>2
      <4>3. tickets \subseteq tickets' /\ superseded' = superseded \cup F!RoutineTickets
            /\ token[w] \notin F!RoutineTickets
        BY <1>1, <2>2, <4>1 DEF F!Reserve, F!NewTicket, F!RoutineTickets
      <4>4. thread'[token[w]] = "reserved"
        BY <1>1, <2>2, <4>1, <4>2, Issued DEF Woken
      <4> QED
        BY <1>0, <2>2, <4>1, <4>2, <4>3, <4>4 DEF Untouched, WaitersKeepSlots
    <3> QED
      BY <3>1, <3>2
  <2> QED
    BY <1>0, <2>1, <2>2, WaitersRemain DEF Waits
<1>14. ASSUME NEW c \in Cycles, SkipRecovery(c) PROVE WaitersKeepSlots'
  <2>1. /\ UNCHANGED <<token, spawned>>
        /\ \E v \in {"idle", "done"} : pc' = [pc EXCEPT ![c] = v]
    BY <1>14 DEF SkipRecovery, EndCycle, Ended
  <2>2. ASSUME NEW w \in Overrides, Waits(w) PROVE Untouched(w)
    <3>1. CASE recovery[c] # None
      <4>1. token[w] # recovery[c] /\ F!Release(recovery[c]) /\ recovery[c] \in Gen
        BY <1>0, <1>1, <1>14, <2>2, <3>1 DEF SkipRecovery, TokensKept
      <4>2. token[w] \in (tickets \ superseded) \ spawned /\ token[w] \in Gen
            /\ thread[token[w]] = "reserved"
        BY <1>0, <1>1, <2>2 DEF WaitersKeepSlots
      <4>3. tickets' = tickets \ {recovery[c]} /\ superseded' = superseded \ {recovery[c]}
            /\ thread'[token[w]] = Woken(token[w])
        BY <4>1, <4>2, Released
      <4> QED
        BY <2>1, <4>1, <4>2, <4>3 DEF Untouched, Woken
    <3>2. CASE recovery[c] = None
      BY <1>0, <1>14, <2>1, <2>2, <3>2 DEF SkipRecovery, Untouched, WaitersKeepSlots, fenceVars
    <3> QED
      BY <3>1, <3>2
  <2> QED
    BY <1>0, <2>1, <2>2, WaitersRemain DEF Waits
<1>15. ASSUME NEW g \in Gen, Worker(g) PROVE WaitersKeepSlots'
  <2>1. UNCHANGED <<pc, token, spawned>>
    BY <1>15 DEF Worker, TickDecides, WorkerEnters, DriverWrites, WorkerRecords, WorkerEnds, loopVars
  <2>2. CASE UNCHANGED fenceVars
    BY <1>4, <2>1, <2>2 DEF Waits
  <2>3. CASE WorkerEnters(g) \/ WorkerRecords(g) \/ WorkerEnds(g)
    <3>1. g \in spawned
      BY <2>3 DEF WorkerEnters, WantsFence, WorkerRecords, WorkerEnds
    <3>2. ASSUME NEW w \in Overrides, Waits(w) PROVE Untouched(w)
      <4>1. token[w] # g /\ token[w] \in Gen /\ thread[token[w]] = "reserved"
            /\ token[w] \in (tickets \ superseded) \ spawned
        BY <1>0, <1>1, <3>1, <3>2 DEF WaitersKeepSlots
      <4>2. CASE WorkerEnters(g)
        BY <2>1, <4>1, <4>2, Entered DEF Untouched, WorkerEnters
      <4>3. CASE WorkerRecords(g)
        BY <2>1, <4>1, <4>3, LeftFence DEF Untouched, WorkerRecords, Woken
      <4>4. CASE WorkerEnds(g)
        BY <2>1, <4>1, <4>4, Released DEF Untouched, WorkerEnds, Woken
      <4> QED
        BY <2>3, <4>2, <4>3, <4>4
    <3> QED
      BY <2>1, <3>2, WaitersRemain DEF Waits
  <2> QED
    BY <1>15, <2>2, <2>3 DEF Worker, TickDecides, DriverWrites
<1>16. CASE StartPeriodic
  <2>1. \A w \in Overrides : Waits(w)' => Waits(w) /\ token'[w] = token[w]
    BY <1>0, <1>16, OverridesAreFinite DEF StartPeriodic, Waits
  <2>2. \A w \in Overrides : Waits(w) => Untouched(w)
    BY <1>0, <1>16 DEF StartPeriodic, Untouched, WaitersKeepSlots, fenceVars
  <2> QED
    BY <2>1, <2>2, WaitersRemain
<1>17. CASE Coalesce
  BY <1>0, <1>4, <1>17, OverridesAreFinite DEF Coalesce, EndCycle, Ended, Waits
<1>18. CASE Drain \/ TakeControl \/ UNCHANGED vars
  BY <1>4, <1>18 DEF Drain, TakeControl, vars, loopVars, Waits
<1> QED
  BY <1>5, <1>6, <1>8, <1>9, <1>10, <1>11, <1>12, <1>13, <1>14, <1>15, <1>16, <1>17, <1>18
     DEF Next, Ongoing, Cycle

(* What a calm step may do to the workers without confusing who decided. *)
LEMMA WritersStay ==
    ASSUME Owned, F!IInv, F!IInv', Calm, spawned \subseteq spawned',
           \A g \in Gen : target'[g] = target[g] \/ (g \in spawned /\ target[g] = Undecided),
           \A g \in Gen : outcome'[g] = outcome[g] \/ thread'[g] = "writing"
    PROVE  WritersDecided'
<1>0. DeviceTypes /\ WritersDecided
  BY TypeParts DEF Owned
<1>1. \A g \in Gen : thread[g] # "unborn" => commandClass'[g] = commandClass[g]
  <2>1. [F!Next]_(F!vars)
    BY DEF Calm, F!Next, F!Holder
  <2> QED
    BY <2>1, FenceTypes, FenceGrows
<1>2. ASSUME NEW g \in Gen
      PROVE  /\ thread'[g] \in {"entering", "asleep", "writing"} =>
                    thread[g] \in {"entering", "asleep", "writing"}
             /\ thread'[g] \in {"unborn", "reserved", "entering", "asleep"} =>
                    thread[g] \in {"unborn", "reserved", "entering", "asleep"}
  BY CalmThreads DEF Woken
<1>3. \A g \in Gen \ spawned' : target'[g] = Undecided
  BY <1>0 DEF WritersDecided
<1>4. ASSUME NEW g \in Gen, thread'[g] \in {"entering", "asleep", "writing"}, IsTick(g)'
      PROVE  g \in spawned' /\ target'[g] \in Mode
  <2>1. thread[g] \in {"entering", "asleep", "writing"}
    BY <1>2, <1>4
  <2>2. g \in spawned /\ target[g] \in Mode
    BY <1>0, <1>1, <1>4, <2>1 DEF WritersDecided, IsTick
  <2> QED
    BY <2>2, ModesAndOutcomes
<1>5. ASSUME NEW g \in Gen, thread'[g] \in {"unborn", "reserved", "entering", "asleep"}
      PROVE  outcome'[g] = Pending
  BY <1>0, <1>2, <1>5 DEF WritersDecided
<1> QED
  BY <1>3, <1>4, <1>5 DEF WritersDecided

LEMMA WritersStep ==
    ASSUME Owned, F!IInv, F!IInv', [Next]_vars
    PROVE  WritersDecided'
<1>0. LoopTypes /\ DeviceTypes /\ WritersDecided
  BY TypeParts DEF Owned
<1>5. ASSUME NEW g \in Gen, WorkerEnters(g) PROVE WritersDecided'
  <2>1. /\ thread[g] \in {"reserved", "entering"} /\ thread'[g] \in {"writing", "refused", "asleep"}
        /\ \A h \in Gen \ {g} : thread'[h] = thread[h]
        /\ UNCHANGED <<commandClass, spawned, target, outcome>>
        /\ g \in spawned /\ (IsTick(g) => target[g] \in Mode)
    BY <1>5, Entered DEF WorkerEnters, WantsFence, loopVars, deviceVars
  <2> QED
    BY <1>0, <2>1 DEF WritersDecided, IsTick
<1>6. ASSUME NEW g \in Gen, TickDecides(g) PROVE WritersDecided'
  <2>1. Calm
    BY <1>6 DEF TickDecides, Calm, fenceVars, F!vars, F!fence, F!history
  <2> QED
    BY <1>0, <1>6, <2>1, WritersStay DEF TickDecides, loopVars, DeviceTypes
<1>7. ASSUME NEW g \in Gen, DriverWrites(g) PROVE WritersDecided'
  <2>1. Calm /\ thread' = thread
    BY <1>7 DEF DriverWrites, Calm, fenceVars, F!vars, F!fence, F!history
  <2>2. \A h \in Gen : outcome'[h] = outcome[h] \/ h = g
    BY <1>0, <1>7 DEF DriverWrites, DeviceTypes
  <2>3. thread'[g] = "writing" /\ target' = target /\ spawned' = spawned
    BY <1>7, <2>1 DEF DriverWrites, loopVars
  <2> QED
    BY <2>1, <2>2, <2>3, WritersStay
<1>8. ASSUME NEW g \in Gen, WorkerRecords(g) \/ WorkerEnds(g) PROVE WritersDecided'
  BY <1>8, WritersStay DEF WorkerRecords, WorkerEnds, Calm, loopVars, deviceVars
<1>9. ASSUME Calm, spawned \subseteq spawned', target' = target, outcome' = outcome PROVE WritersDecided'
  BY <1>9, WritersStay
<1>10. ASSUME ~\E g \in Gen : Worker(g)
       PROVE  Calm /\ spawned \subseteq spawned' /\ target' = target /\ outcome' = outcome
  <2>1. Calm
    BY <1>10, ServiceCalls DEF Worker
  <2>2. ASSUME NEW c \in Cycles, Cycle(c) PROVE spawned \subseteq spawned' /\ target' = target /\ outcome' = outcome
    BY <2>2 DEF Cycle, QueueForLock, RefuseDraining, SpawnTick, CycleReturns, CycleOverBudget,
       CycleTimeout, SpawnRecovery, SkipRecovery, RecoveryAwaited, deviceVars
  <2>3. ASSUME NEW c \in Overrides, SaveOverride(c) \/ SpawnOverride(c) \/ CancelOverride(c)
        PROVE  spawned \subseteq spawned' /\ target' = target /\ outcome' = outcome
    BY <2>3 DEF SaveOverride, SpawnOverride, CancelOverride, deviceVars
  <2>4. CASE Drain \/ TakeControl \/ UNCHANGED vars \/ StartPeriodic \/ Coalesce
    BY <2>1, <2>4 DEF Drain, TakeControl, vars, loopVars, deviceVars, StartPeriodic, Coalesce
  <2>5. spawned \subseteq spawned' /\ target' = target /\ outcome' = outcome
    <3>1. CASE UNCHANGED vars
      BY <2>4, <3>1
    <3>2. CASE Next
      BY <1>10, <2>2, <2>3, <2>4, <3>2 DEF Next, Ongoing
    <3> QED
      BY <3>1, <3>2
  <2> QED
    BY <2>1, <2>5
<1> QED
  BY <1>5, <1>6, <1>7, <1>8, <1>9, <1>10 DEF Worker

(* Who owns which ticket stays so, whatever the service does. *)
LEMMA OwnedStep == Owned /\ F!IInv /\ [Next]_vars => Owned' /\ F!IInv'
<1> SUFFICES ASSUME Owned, F!IInv, [Next]_vars PROVE Owned' /\ F!IInv'
  OBVIOUS
<1>1. F!IInv'
  BY FenceKept
<1>2. RequestsCounted'
  BY RequestsKept
<1>3. TypeOK'
  <2>1. LoopTypes' /\ DeviceTypes'
    BY <1>1, LoopTypesKept, DeviceTypesKept
  <2>2. (version \in 0 .. Cardinality(Overrides))'
    BY <1>2, VersionBounded, PTL
  <2>3. F!TypeOK'
    BY <1>1 DEF F!IInv
  <2> QED
    BY <2>1, <2>2, <2>3 DEF TypeOK, LoopTypes, DeviceTypes
<1> QED
  BY <1>1, <1>2, <1>3, TokensStep, LockStep, WaitersStep, WritersStep DEF Owned
-----------------------------------------------------------------------------
(* What was decided, reserved and written in which order.                  *)

(* A calm step writes nothing, issues at most one ticket and forgives none.*)
LEMMA CalmTickets ==
    ASSUME F!IInv, Calm
    PROVE  /\ lastEntered' = lastEntered
           /\ \A g \in tickets' : g \in tickets \/ (g = generation + 1 /\ generation' = generation + 1)
           /\ \A g \in tickets' \ superseded' : g \in tickets => g \notin superseded
           /\ active' = active \/ (\E h \in Gen : F!Leave(h) /\ active = h /\ active' = None)
           /\ draining' = draining \/ F!MarkDraining \/ F!ClearDraining
<1>1. ASSUME NEW cls \in F!ReservedClass, F!Reserve(cls)
      PROVE  /\ UNCHANGED <<lastEntered, active, draining>>
             /\ generation' = generation + 1 /\ tickets' = tickets \cup {generation + 1}
             /\ superseded \subseteq superseded'
  BY <1>1 DEF F!Reserve, F!NewTicket, F!history
<1>2. CASE F!AdmitRoutine
  BY <1>2 DEF F!AdmitRoutine, F!NewTicket, F!history
<1>3. ASSUME NEW s \in Gen, F!BeginRecovery(s)
      PROVE  /\ UNCHANGED <<lastEntered, active, draining>>
             /\ \/ generation' = generation + 1 /\ tickets' = tickets \cup {generation + 1}
                \/ tickets' = tickets
             /\ superseded \subseteq superseded'
  BY <1>3 DEF F!BeginRecovery, F!SuppressRecovery, F!IssueRecovery, F!NewTicket
<1>4. ASSUME NEW h \in Gen, F!Leave(h)
      PROVE  UNCHANGED <<lastEntered, draining, tickets, superseded>> /\ active = h /\ active' = None
  BY <1>4, LeftFence
<1>5. ASSUME NEW h \in Gen, F!Release(h)
      PROVE  /\ UNCHANGED <<lastEntered, active, draining>>
             /\ tickets' = tickets \ {h} /\ superseded' = superseded \ {h}
  BY <1>5, Released
<1>6. ASSUME F!MarkDraining \/ F!ClearDraining
      PROVE  UNCHANGED <<lastEntered, tickets, active>> /\ superseded \subseteq superseded'
  BY <1>6 DEF F!MarkDraining, F!ClearDraining, F!history
<1>7. CASE UNCHANGED F!vars
  BY <1>7 DEF F!vars, F!fence, F!history
<1> QED
  BY <1>1, <1>2, <1>3, <1>4, <1>5, <1>6, <1>7 DEF Calm

(* Tickets keep their class and only grow in number. *)
LEMMA ClassesKept ==
    ASSUME Owned, F!IInv, [Next]_vars
    PROVE  /\ generation \in F!GenOrNone /\ generation' \in F!GenOrNone /\ generation <= generation'
           /\ \A g \in 1 .. generation : g \in Gen /\ commandClass'[g] = commandClass[g]
           /\ tickets \subseteq 1 .. generation /\ spawned \subseteq 1 .. generation
           /\ lastEntered \in 0 .. generation
           /\ \A g \in Gen : g \in spawned /\ IsTick(g)' => IsTick(g)
<1>1. F!IInv' /\ F!IInv
  BY FenceKept
<1>2. generation \in F!GenOrNone /\ generation' \in F!GenOrNone /\ tickets \subseteq 1 .. generation
  BY <1>1 DEF F!IInv, F!TypeOK
<1>3. generation <= generation' /\ \A g \in 1 .. generation : g \in Gen /\ commandClass'[g] = commandClass[g]
  BY <1>1, FenceStep, FenceGrows
<1>4. spawned \subseteq 1 .. generation
  BY DEF Owned, TokensKept
<1>5. lastEntered \in 0 .. generation
  BY <1>1, <1>2 DEF F!IInv, F!TypeOK, F!EntryOrder
<1> QED
  BY <1>2, <1>3, <1>4, <1>5 DEF IsTick

LEMMA OrphansStep ==
    ASSUME Owned, F!IInv, NoOrphanSlot, [Next]_vars
    PROVE  NoOrphanSlot'
<1>0. LoopTypes /\ TokensKept
  BY TypeParts DEF Owned
<1>1. generation \in Nat /\ tickets \subseteq 1 .. generation /\ 0 \notin tickets
  BY ClassesKept
<1>2. UNCHANGED fenceVars => tickets' = tickets
  BY DEF fenceVars
<1> DEFINE Kept(g) == \/ g \in spawned
                      \/ \E c \in Cycles : token[c] = g /\ pc[c] \in {"task", "lock"}
                      \/ \E c \in Cycles : recovery[c] = g /\ pc[c] = "overrun"
<1>3. \A g \in tickets : Kept(g)
  BY DEF NoOrphanSlot
<1> SUFFICES ASSUME NEW g \in tickets' PROVE Kept(g)'
  BY DEF NoOrphanSlot
<1> USE DEF LoopTypes
<1>4. ASSUME g \in tickets, spawned \subseteq spawned',
             \A c \in Cycles : token[c] = g /\ pc[c] \in {"task", "lock"} =>
                                  token'[c] = g /\ pc'[c] \in {"task", "lock"},
             \A c \in Cycles : recovery[c] = g /\ pc[c] = "overrun" =>
                                  recovery'[c] = g /\ pc'[c] = "overrun"
      PROVE  Kept(g)'
  BY <1>3, <1>4
<1>5. ASSUME NEW c \in Overrides, SaveOverride(c) PROVE Kept(g)'
  BY <1>0, <1>2, <1>4, <1>5 DEF SaveOverride
<1>6. ASSUME NEW c \in Overrides, SpawnOverride(c) PROVE Kept(g)'
  <2>1. CASE F!Reserve(F!OVERRIDE) /\ token' = [token EXCEPT ![c] = generation + 1]
             /\ pc' = [pc EXCEPT ![c] = "task"]
    <3>1. g \in tickets \/ g = generation + 1
      BY <2>1 DEF F!Reserve, F!NewTicket
    <3>2. g = generation + 1 => token'[c] = g /\ pc'[c] = "task"
      BY <1>0, <2>1
    <3> QED
      BY <1>0, <1>4, <1>6, <2>1, <3>1, <3>2 DEF SpawnOverride
  <2>2. CASE UNCHANGED fenceVars /\ token' = token /\ pc' = [pc EXCEPT ![c] = "done"]
    BY <1>0, <1>2, <1>4, <1>6, <2>2 DEF SpawnOverride
  <2> QED
    BY <1>6, <2>1, <2>2 DEF SpawnOverride
<1>7. ASSUME NEW c \in Overrides, CancelOverride(c) PROVE Kept(g)'
  <2>1. token[c] \in Gen /\ F!Release(token[c])
    BY <1>7, TokenIsTicket DEF CancelOverride, Waits
  <2>2. g \in tickets /\ g # token[c]
    BY <2>1, Released
  <2> QED
    BY <1>0, <1>4, <1>7, <2>2 DEF CancelOverride
<1>8. CASE StartPeriodic
  BY <1>0, <1>2, <1>4, <1>8 DEF StartPeriodic
<1>9. ASSUME NEW c \in Cycles, QueueForLock(c) \/ CycleReturns(c) \/ CycleOverBudget(c) \/ RecoveryAwaited(c)
      PROVE  Kept(g)'
  BY <1>0, <1>2, <1>4, <1>9 DEF QueueForLock, CycleReturns, CycleOverBudget, RecoveryAwaited, EndCycle
<1>10. ASSUME NEW c \in Cycles, RefuseDraining(c) PROVE Kept(g)'
  <2>1. g \in tickets /\ g # token[c]
    <3>1. CASE token[c] = None
      BY <1>1, <1>2, <1>10, <3>1 DEF RefuseDraining
    <3>2. CASE token[c] # None
      <4>1. token[c] \in Gen /\ F!Release(token[c])
        BY <1>10, <3>2, TokenIsTicket DEF RefuseDraining
      <4> QED
        BY <4>1, Released
    <3> QED
      BY <3>1, <3>2
  <2> QED
    BY <1>0, <1>4, <1>10, <2>1 DEF RefuseDraining
<1>11. ASSUME NEW c \in Cycles, SpawnTick(c) PROVE Kept(g)'
  <2>1. CASE g = token'[c]
    BY <1>11, <2>1 DEF SpawnTick
  <2>2. CASE g # token'[c]
    <3>1. g \in tickets /\ token' = token
      BY <1>0, <1>2, <1>11, <2>2 DEF SpawnTick, F!AdmitRoutine, F!NewTicket
    <3> QED
      BY <1>0, <1>4, <1>11, <2>2, <3>1 DEF SpawnTick
  <2> QED
    BY <2>1, <2>2
<1>12. CASE Coalesce
  BY <1>0, <1>1, <1>2, <1>4, <1>12 DEF Coalesce, EndCycle, TokensKept
<1>13. ASSUME NEW c \in Cycles, CycleTimeout(c) PROVE Kept(g)'
  <2>1. \/ recovery'[c] = g
        \/ g \in tickets /\ recovery' = recovery
        \/ g \in tickets /\ g # generation + 1
    <3>1. CASE F!IssueRecovery(token[c]) /\ recovery' = [recovery EXCEPT ![c] = generation + 1]
      BY <1>0, <1>1, <3>1 DEF F!IssueRecovery, F!NewTicket
    <3>2. CASE recovery' = recovery /\ (F!SuppressRecovery(token[c]) \/ UNCHANGED fenceVars)
      BY <1>2, <3>2 DEF F!SuppressRecovery
    <3> QED
      BY <1>13, <3>1, <3>2 DEF CycleTimeout
  <2> QED
    BY <1>0, <1>4, <1>13, <2>1 DEF CycleTimeout
<1>14. ASSUME NEW c \in Cycles, SpawnRecovery(c) PROVE Kept(g)'
  <2>1. CASE g = recovery'[c]
    BY <1>14, <2>1 DEF SpawnRecovery
  <2>2. CASE g # recovery'[c]
    <3>1. g \in tickets /\ \A d \in Cycles : (recovery'[d] = recovery[d] \/ d = c)
      BY <1>0, <1>2, <1>14, <2>2 DEF SpawnRecovery, F!Reserve, F!NewTicket
    <3>2. recovery[c] # g
      BY <1>0, <1>1, <1>14, <2>2, <3>1 DEF SpawnRecovery
    <3> QED
      BY <1>0, <1>4, <1>14, <3>1, <3>2 DEF SpawnRecovery
  <2> QED
    BY <2>1, <2>2
<1>15. ASSUME NEW c \in Cycles, SkipRecovery(c) PROVE Kept(g)'
  <2>1. g \in tickets /\ g # recovery[c]
    BY <1>1, <1>2, <1>15, Released, TokenIsTicket DEF SkipRecovery
  <2> QED
    BY <1>0, <1>4, <1>15, <2>1 DEF SkipRecovery, EndCycle
<1>16. ASSUME NEW h \in Gen, Worker(h) PROVE Kept(g)'
  <2>1. tickets' \subseteq tickets /\ UNCHANGED <<spawned, token, recovery, pc>>
    BY <1>2, <1>16, Entered, LeftFence, Released
       DEF Worker, TickDecides, WorkerEnters, DriverWrites, WorkerRecords, WorkerEnds, loopVars
  <2> QED
    BY <1>4, <2>1
<1>17. CASE Drain \/ TakeControl \/ UNCHANGED vars
  BY <1>2, <1>4, <1>17, Superseded DEF Drain, TakeControl, vars, loopVars
<1> QED
  BY <1>5, <1>6, <1>7, <1>8, <1>9, <1>10, <1>11, <1>12, <1>13, <1>14, <1>15, <1>16, <1>17
     DEF Next, Ongoing, Cycle

(* A step in which no worker has its turn sends and records nothing. *)
LEMMA OthersSendNothing ==
    ASSUME Owned, [Next]_vars, ~\E g \in Gen : Worker(g)
    PROVE  Calm /\ UNCHANGED <<deviceVars, seen>>
<1>1. Calm
  BY ServiceCalls DEF Worker
<1>2. ASSUME NEW c \in Cycles, Cycle(c) PROVE UNCHANGED <<deviceVars, seen>>
  BY <1>2 DEF Cycle, QueueForLock, RefuseDraining, SpawnTick, CycleReturns, CycleOverBudget,
     CycleTimeout, SpawnRecovery, SkipRecovery, RecoveryAwaited, history
<1>3. ASSUME NEW c \in Overrides, SaveOverride(c) \/ SpawnOverride(c) \/ CancelOverride(c)
      PROVE  UNCHANGED <<deviceVars, seen>>
  BY <1>3 DEF SaveOverride, SpawnOverride, CancelOverride, history
<1>4. ASSUME Drain \/ TakeControl \/ UNCHANGED vars \/ StartPeriodic \/ Coalesce
      PROVE  UNCHANGED <<deviceVars, seen>>
  BY <1>4 DEF Drain, TakeControl, vars, StartPeriodic, Coalesce, history
<1>5. CASE UNCHANGED vars
  BY <1>1, <1>4, <1>5
<1>6. CASE Next
  BY <1>1, <1>2, <1>3, <1>4, <1>6 DEF Next, Ongoing
<1> QED
  BY <1>5, <1>6

(* Only a worker that holds its ticket leaves the driver. *)
LEMMA NobodyLeaves ==
    ASSUME Owned, F!IInv, [Next]_vars, ~\E g \in Gen : Worker(g)
    PROVE  active' = active
<1>1. ASSUME NEW c \in Cycles, Cycle(c) PROVE active' = active
  <2>1. \A g \in Gen : F!Release(g) => active' = active
    BY Released
  <2> QED
    BY <1>1, <2>1, TokenIsTicket
       DEF Cycle, QueueForLock, RefuseDraining, SpawnTick, CycleReturns, CycleOverBudget, CycleTimeout,
           SpawnRecovery, SkipRecovery, RecoveryAwaited, fenceVars, F!AdmitRoutine, F!Reserve,
           F!SuppressRecovery, F!IssueRecovery
<1>2. ASSUME NEW c \in Overrides, SaveOverride(c) \/ SpawnOverride(c) \/ CancelOverride(c)
      PROVE  active' = active
  <2>1. CancelOverride(c) => active' = active
    BY Released, TokenIsTicket DEF CancelOverride, Waits
  <2> QED
    BY <1>2, <2>1 DEF SaveOverride, SpawnOverride, fenceVars, F!Reserve
<1>3. CASE Drain \/ TakeControl \/ UNCHANGED vars \/ StartPeriodic \/ Coalesce
  BY <1>3 DEF Drain, TakeControl, vars, StartPeriodic, Coalesce, fenceVars, F!MarkDraining
<1>4. CASE UNCHANGED vars
  BY <1>3, <1>4
<1>5. CASE Next
  BY <1>1, <1>2, <1>3, <1>5 DEF Next, Ongoing
<1> QED
  BY <1>4, <1>5

LEMMA OutcomesStep ==
    ASSUME Owned, F!IInv, OutcomesAreReal, [Next]_vars
    PROVE  OutcomesAreReal'
<1>0. LoopTypes /\ DeviceTypes /\ WritersDecided
  BY TypeParts DEF Owned
<1>1. /\ active \in F!GenOrNone /\ \A g \in Gen : thread[g] = "writing" <=> active = g
      /\ \A g \in Gen : thread[g] = "unborn" <=> generation < g
  BY FenceTypes
<1>2. active # None => active \in Gen /\ thread[active] = "writing" /\ active \in 1 .. generation
  BY <1>1, ClassesKept
<1>3. active # None => commandClass'[active] = commandClass[active]
  BY <1>2, ClassesKept
<1> USE DEF DeviceTypes
<1>4. ASSUME active' = active, UNCHANGED <<outcome, device, lastConfirmed, unconfirmed>>,
             active # None => Applied(active)' = Applied(active)
      PROVE  OutcomesAreReal'
  BY <1>4 DEF OutcomesAreReal, BeliefHolds
<1>5. ASSUME NEW g \in Gen, WorkerEnters(g) PROVE OutcomesAreReal'
  <2>1. CASE F!Enter(g)
    <3>1. active = None /\ active' = g /\ outcome[g] = Pending
      BY <1>0, <2>1 DEF F!Enter, F!CallsEnter, WritersDecided
    <3>2. BeliefHolds
      BY <3>1 DEF OutcomesAreReal
    <3> QED
      BY <1>5, <3>1, <3>2 DEF OutcomesAreReal, BeliefHolds, WorkerEnters, deviceVars
  <2>2. CASE F!EnterRefused(g) \/ F!EnterWait(g)
    BY <1>4, <1>5, <2>2
       DEF WorkerEnters, deviceVars, F!EnterRefused, F!EnterWait, F!fence, Applied, IsTick
  <2> QED
    BY <1>5, <2>1, <2>2 DEF WorkerEnters
<1>6. ASSUME NEW g \in Gen, TickDecides(g) PROVE OutcomesAreReal'
  <2>1. active = g => ~IsTick(g)
    BY <1>0, <1>2, <1>6, ModesAndOutcomes DEF TickDecides, WritersDecided
  <2>2. active # g /\ active # None => target'[active] = target[active]
    BY <1>0, <1>2, <1>6 DEF TickDecides
  <2> QED
    BY <1>4, <1>6, <2>1, <2>2 DEF TickDecides, fenceVars, Applied, IsTick
<1>7. ASSUME NEW g \in Gen, DriverWrites(g) PROVE OutcomesAreReal'
  <2>1. active = g /\ active' = g /\ commandClass' = commandClass /\ target' = target /\ outcome[g] = Pending
    BY <1>1, <1>7 DEF DriverWrites, fenceVars
  <2>2. BeliefHolds /\ Applied(g)' = Applied(g)
    BY <2>1 DEF OutcomesAreReal, Applied, IsTick
  <2>3. UNCHANGED <<lastConfirmed, unconfirmed>>
    BY <1>7 DEF DriverWrites
  <2>4. PICK o \in Outcome :
          /\ outcome' = [outcome EXCEPT ![g] = o]
          /\ device' \in CASE o = "gated"       -> {device}
                           [] o = "applied"     -> {Applied(g)}
                           [] o = "recovered"   -> {AUTO}
                           [] o = "unrecovered" -> {device, Applied(g), AUTO}
                           [] o = "unconfirmed" -> {device, Applied(g)}
    BY <1>7 DEF DriverWrites
  <2>5. outcome'[g] = o /\ o # Pending
    BY <1>0, <2>4, ModesAndOutcomes
  <2>6. o = "gated" => device' = device
    BY <2>4
  <2>7. o = "applied" => device' = Applied(g)
    BY <2>4
  <2>8. o = "recovered" => device' = AUTO
    BY <2>4
  <2> QED
    BY <2>1, <2>2, <2>3, <2>5, <2>6, <2>7, <2>8 DEF OutcomesAreReal, BeliefHolds
<1>8. ASSUME NEW g \in Gen, WorkerRecords(g) PROVE OutcomesAreReal'
  <2>1. active = g /\ active' = None /\ outcome[g] \in Outcome /\ device' = device
    BY <1>0, <1>8, LeftFence DEF WorkerRecords
  <2>2. CASE outcome[g] = "gated"
    BY <1>8, <2>1, <2>2 DEF OutcomesAreReal, BeliefHolds, WorkerRecords
  <2>3. CASE outcome[g] = "applied"
    BY <1>8, <2>1, <2>3 DEF OutcomesAreReal, BeliefHolds, WorkerRecords
  <2>4. CASE outcome[g] = "recovered"
    BY <1>8, <2>1, <2>4 DEF OutcomesAreReal, BeliefHolds, WorkerRecords
  <2>5. CASE outcome[g] \in {"unrecovered", "unconfirmed"}
    BY <1>8, <2>1, <2>5 DEF OutcomesAreReal, BeliefHolds, WorkerRecords
  <2> QED
    BY <2>1, <2>2, <2>3, <2>4, <2>5, ModesAndOutcomes
<1>9. ASSUME NEW g \in Gen, WorkerEnds(g) PROVE OutcomesAreReal'
  <2>1. active' = active /\ commandClass' = commandClass
    BY <1>9, Released DEF WorkerEnds
  <2> QED
    BY <1>4, <1>9, <2>1 DEF WorkerEnds, deviceVars, Applied, IsTick
<1>10. CASE ~\E g \in Gen : Worker(g)
  BY <1>3, <1>4, <1>10, OthersSendNothing, NobodyLeaves DEF deviceVars, Applied, IsTick
<1> QED
  BY <1>5, <1>6, <1>7, <1>8, <1>9, <1>10 DEF Worker

LEMMA DecidedStep ==
    ASSUME Owned, F!IInv, DecidedLate, [Next]_vars
    PROVE  DecidedLate'
<1>0. LoopTypes /\ DeviceTypes /\ WritersDecided /\ version \in Nat /\ generation \in Nat
  BY TypeParts, FS_CardinalityType, OverridesAreFinite, ClassesKept DEF Owned
<1> DEFINE Live == F!RoutineTickets \ superseded
<1>1. /\ reservedVersion <= version
      /\ \A g \in Live : target[g] # Undecided => seen[g] >= reservedVersion
      /\ Live \subseteq Gen
  BY ClassesKept DEF DecidedLate, F!RoutineTickets
<1>2. ASSUME NEW g \in Live' PROVE g \in Live \/ (g \notin spawned /\ g \in Gen)
  <2>1. g \in tickets' /\ g \notin superseded' /\ commandClass'[g] = F!ROUTINE
    BY <1>2 DEF F!RoutineTickets
  <2>2. CASE Calm
    <3>1. CASE g \in tickets
      BY <2>1, <2>2, <3>1, CalmTickets, ClassesKept DEF F!RoutineTickets
    <3>2. CASE g \notin tickets
      <4>1. g = generation + 1 /\ generation' = generation + 1
        BY <2>1, <2>2, <3>2, CalmTickets
      <4> QED
        BY <1>0, <4>1, ClassesKept
    <3> QED
      BY <3>1, <3>2
  <2>3. ASSUME NEW h \in Gen, WorkerEnters(h) PROVE g \in Live
    BY <2>1, <2>3, Entered DEF WorkerEnters, F!RoutineTickets
  <2> QED
    BY <2>2, <2>3, ServiceCalls
<1>3. ASSUME version <= version', version' \in Nat, reservedVersion' = reservedVersion,
             UNCHANGED <<target, seen>>
      PROVE  DecidedLate'
  <2>1. \A g \in Gen : g \notin spawned => target[g] = Undecided
    BY <1>0 DEF WritersDecided
  <2>2. reservedVersion' <= version'
    BY <1>0, <1>1, <1>3 DEF LoopTypes
  <2> QED
    BY <1>1, <1>2, <1>3, <2>1, <2>2 DEF DecidedLate
<1>4. ASSUME NEW c \in Overrides, SaveOverride(c) PROVE DecidedLate'
  BY <1>0, <1>3, <1>4 DEF SaveOverride, deviceVars, history
<1>5. ASSUME NEW c \in Overrides, SpawnOverride(c) PROVE DecidedLate'
  <2>1. CASE F!Reserve(F!OVERRIDE) /\ reservedVersion' = version
    <3>1. Live' = {}
      <4>1. ASSUME NEW g \in Live' PROVE FALSE
        <5>1. g \in tickets' /\ g \notin superseded' /\ commandClass'[g] = F!ROUTINE
          BY <4>1 DEF F!RoutineTickets
        <5>2. g # generation + 1
          BY <2>1, <5>1, Issued
        <5>3. g \in tickets /\ superseded' = superseded \cup F!RoutineTickets
          BY <2>1, <5>1, <5>2 DEF F!Reserve, F!NewTicket
        <5> QED
          BY <5>1, <5>3, ClassesKept DEF F!RoutineTickets
      <4> QED
        BY <4>1
    <3> QED
      BY <1>0, <1>5, <2>1, <3>1 DEF DecidedLate, SpawnOverride, boxVars
  <2>2. CASE reservedVersion' = reservedVersion
    BY <1>0, <1>3, <1>5, <2>2 DEF SpawnOverride, boxVars, deviceVars
  <2> QED
    BY <1>5, <2>1, <2>2 DEF SpawnOverride
<1>6. ASSUME NEW h \in Gen, TickDecides(h) PROVE DecidedLate'
  <2>1. /\ reservedVersion' = reservedVersion /\ version' = version /\ h \in spawned
        /\ seen' = [seen EXCEPT ![h] = version]
        /\ \A g \in Gen \ {h} : target'[g] = target[g]
    BY <1>0, <1>6 DEF TickDecides, boxVars, DeviceTypes
  <2>2. \A g \in Gen : g \notin spawned => target[g] = Undecided
    BY <1>0 DEF WritersDecided
  <2>3. ASSUME NEW g \in Live', target'[g] # Undecided PROVE seen'[g] >= reservedVersion
    BY <1>0, <1>1, <1>2, <2>1, <2>2, <2>3 DEF DeviceTypes, LoopTypes
  <2> QED
    BY <1>1, <2>1, <2>3 DEF DecidedLate
<1>7. ASSUME NEW h \in Gen, Worker(h), ~TickDecides(h) PROVE DecidedLate'
  <2>1. version' = version /\ reservedVersion' = reservedVersion /\ UNCHANGED <<target, seen>>
    BY <1>7 DEF Worker, WorkerEnters, DriverWrites, WorkerRecords, WorkerEnds, boxVars, deviceVars, history
  <2> QED
    BY <1>0, <1>3, <2>1
<1>8. ASSUME NEW c \in Cycles, Cycle(c) PROVE DecidedLate'
  <2>1. version' = version /\ reservedVersion' = reservedVersion /\ UNCHANGED <<target, seen>>
    BY <1>8 DEF Cycle, QueueForLock, RefuseDraining, SpawnTick, CycleReturns, CycleOverBudget,
       CycleTimeout, SpawnRecovery, SkipRecovery, RecoveryAwaited, history, boxVars, deviceVars
  <2> QED
    BY <1>0, <1>3, <2>1
<1>9. CASE Drain \/ TakeControl \/ UNCHANGED vars \/ StartPeriodic \/ Coalesce
  <2>1. version' = version /\ reservedVersion' = reservedVersion /\ UNCHANGED <<target, seen>>
    BY <1>9 DEF Drain, TakeControl, vars, StartPeriodic, Coalesce, history, boxVars, deviceVars
  <2> QED
    BY <1>0, <1>3, <2>1
<1>10. ASSUME NEW c \in Overrides, CancelOverride(c) PROVE DecidedLate'
  BY <1>0, <1>3, <1>10 DEF CancelOverride, boxVars, deviceVars, history
<1> QED
  BY <1>4, <1>5, <1>6, <1>7, <1>8, <1>9, <1>10 DEF Next, Ongoing

(* An override's ticket that may still write stays the running cycle's.    *)
LEMMA OverridesRunStep ==
    ASSUME Owned, F!IInv, OverridesRun, [Next]_vars
    PROVE  OverridesRun'
<1>0. LoopTypes /\ TokensKept /\ generation \in Nat
  BY TypeParts, ClassesKept DEF Owned
<1> USE DEF LoopTypes
<1> DEFINE Live == {g \in spawned \cap tickets : commandClass[g] = F!OVERRIDE /\ g \notin superseded}
           Runs(g) == \E c \in Cycles : pc[c] = "running" /\ token[c] = g
<1>1. draining => draining'
  BY Entered DEF Next, Ongoing, SaveOverride, SpawnOverride, CancelOverride, StartPeriodic, Cycle,
     QueueForLock, RefuseDraining, SpawnTick, CycleReturns, CycleOverBudget, CycleTimeout,
     SpawnRecovery, SkipRecovery, RecoveryAwaited, Coalesce, Worker, TickDecides, WorkerEnters,
     DriverWrites, WorkerRecords, WorkerEnds, TakeControl, Drain, vars, fenceVars, F!AdmitRoutine,
     F!Reserve, F!SuppressRecovery, F!IssueRecovery, F!Release, F!Leave, F!MarkDraining
<1> SUFFICES ASSUME ~draining, ~draining', NEW g \in Live' PROVE Runs(g)'
  BY <1>1 DEF OverridesRun
<1>2. \A h \in Live : Runs(h)
  BY DEF OverridesRun
<1>3. g \in tickets' /\ g \notin superseded' /\ commandClass'[g] = F!OVERRIDE /\ g \in spawned'
  OBVIOUS
<1>4. ASSUME g \in spawned PROVE g \in Live /\ g \in tickets /\ Runs(g)
  <2>1. commandClass[g] = F!OVERRIDE /\ g \in 1 .. generation
    BY <1>3, <1>4, ClassesKept
  <2>2. g \in tickets \ superseded
    <3>1. CASE Calm
      BY <1>0, <1>3, <2>1, <3>1, CalmTickets
    <3>2. ASSUME NEW h \in Gen, WorkerEnters(h) PROVE g \in tickets \ superseded
      BY <1>3, <3>2, Entered DEF WorkerEnters
    <3> QED
      BY <3>1, <3>2, ServiceCalls
  <2> QED
    BY <1>2, <1>4, <2>1, <2>2
<1>5. ASSUME g \in spawned, \A c \in Cycles : pc[c] = "running" /\ token[c] = g =>
                                               pc'[c] = "running" /\ token'[c] = token[c]
      PROVE  Runs(g)'
  BY <1>4, <1>5
<1>6. ASSUME NEW c \in Overrides, SaveOverride(c) \/ SpawnOverride(c) \/ CancelOverride(c)
      PROVE  Runs(g)'
  BY <1>0, <1>3, <1>5, <1>6 DEF SaveOverride, SpawnOverride, CancelOverride
<1>7. CASE StartPeriodic
  BY <1>0, <1>3, <1>5, <1>7 DEF StartPeriodic
<1>8. ASSUME NEW c \in Cycles, QueueForLock(c) \/ RefuseDraining(c) \/ SkipRecovery(c) \/ RecoveryAwaited(c)
      PROVE  Runs(g)'
  BY <1>0, <1>3, <1>5, <1>8 DEF QueueForLock, RefuseDraining, SkipRecovery, RecoveryAwaited, EndCycle
<1>9. ASSUME NEW c \in Cycles, CycleReturns(c) \/ CycleOverBudget(c) PROVE Runs(g)'
  <2>1. token[c] # g /\ g \in spawned
    BY <1>0, <1>3, <1>4, <1>9, FenceTypes DEF CycleReturns, CycleOverBudget, F!Holding
  <2> QED
    BY <1>0, <1>5, <1>9, <2>1 DEF CycleReturns, CycleOverBudget, EndCycle
<1>10. ASSUME NEW c \in Cycles, SpawnTick(c) PROVE Runs(g)'
  <2>1. CASE g = token'[c]
    BY <1>0, <1>10, <2>1 DEF SpawnTick
  <2>2. CASE g # token'[c]
    BY <1>0, <1>3, <1>5, <1>10, <2>2 DEF SpawnTick
  <2> QED
    BY <2>1, <2>2
<1>11. CASE Coalesce
  BY <1>0, <1>3, <1>5, <1>11 DEF Coalesce, EndCycle
<1>12. ASSUME NEW c \in Cycles, CycleTimeout(c) PROVE Runs(g)'
  <2>1. token[c] \in superseded' /\ spawned' = spawned
    BY <1>12 DEF CycleTimeout, F!IssueRecovery, F!SuppressRecovery
  <2> QED
    BY <1>0, <1>3, <1>5, <1>12, <2>1 DEF CycleTimeout
<1>13. ASSUME NEW c \in Cycles, SpawnRecovery(c) PROVE Runs(g)'
  <2>1. commandClass'[recovery'[c]] = F!RECOVERY
    <3>1. CASE recovery[c] # None
      BY <1>0, <1>13, <3>1 DEF SpawnRecovery, TokensKept, fenceVars
    <3>2. CASE recovery[c] = None
      <4>1. F!Reserve(F!RECOVERY) /\ recovery' = [recovery EXCEPT ![c] = generation + 1]
        BY <1>13, <3>2 DEF SpawnRecovery
      <4> QED
        BY <1>0, <4>1, Issued
    <3> QED
      BY <3>1, <3>2
  <2> QED
    BY <1>0, <1>3, <1>5, <1>13, <2>1 DEF SpawnRecovery
<1>14. CASE Drain \/ TakeControl \/ UNCHANGED vars \/ \E h \in Gen : Worker(h)
  BY <1>3, <1>5, <1>14 DEF Drain, TakeControl, vars, loopVars, Worker, TickDecides, WorkerEnters,
     DriverWrites, WorkerRecords, WorkerEnds
<1> QED
  BY <1>6, <1>7, <1>8, <1>9, <1>10, <1>11, <1>12, <1>13, <1>14 DEF Next, Ongoing, Cycle

(* A drain is never taken back by the service itself. *)
LEMMA StaysDrained ==
    ASSUME Owned, F!IInv, [Next]_vars, draining
    PROVE  draining'
  BY Entered DEF Next, Ongoing, SaveOverride, SpawnOverride, CancelOverride, StartPeriodic, Cycle,
     QueueForLock, RefuseDraining, SpawnTick, CycleReturns, CycleOverBudget, CycleTimeout,
     SpawnRecovery, SkipRecovery, RecoveryAwaited, Coalesce, Worker, TickDecides, WorkerEnters,
     DriverWrites, WorkerRecords, WorkerEnds, TakeControl, Drain, vars, fenceVars, F!AdmitRoutine,
     F!Reserve, F!SuppressRecovery, F!IssueRecovery, F!Release, F!Leave, F!MarkDraining

(* OverriddenSince(g) after the step. *)
OverriddenNow(g) == lastEntered' > g /\ commandClass'[lastEntered'] = F!OVERRIDE

(* What was written last is as new as before, unless a worker enters. *)
LEMMA OverriddenBefore ==
    ASSUME Owned, F!IInv, [Next]_vars, Calm, NEW g \in Gen, OverriddenNow(g)
    PROVE  OverriddenSince(g) /\ lastEntered' = lastEntered
  BY CalmTickets, ClassesKept DEF OverriddenSince, OverriddenNow

(* A ticket whose thread is not through enter() yet is newer than whatever *)
(* was written last, as long as it is not superseded.                      *)
LEMMA NotYetEntered ==
    ASSUME F!IInv, NEW g \in tickets \ superseded, F!CanStillEnter(g)
    PROVE  lastEntered < g
  BY DEF F!IInv, F!EntryOrder, F!Eligible

LEMMA NothingNewerStep ==
    ASSUME Owned, F!IInv, OverridesRun, NothingNewer, [Next]_vars
    PROVE  NothingNewer'
<1>0. LoopTypes /\ TokensKept /\ LockHeld /\ generation \in Nat /\ lastEntered \in 0 .. generation
  BY TypeParts, ClassesKept DEF Owned
<1> USE DEF LoopTypes
<1>1. F!IInv' /\ Owned'
  BY OwnedStep
<1> SUFFICES ASSUME ~draining, ~draining', NEW c \in Cycles, pc'[c] = "running", OverriddenNow(token'[c])
             PROVE  FALSE
  BY StaysDrained DEF NothingNewer, OverriddenSince, OverriddenNow
<1>2. token'[c] \in Gen
  BY <1>1 DEF Owned, TokensKept, TypeOK
<1>3. pc[c] = "running" => ~OverriddenSince(token[c]) /\ token[c] \in Gen
  BY TokenIsTicket DEF NothingNewer
<1>4. ASSUME Calm, pc[c] = "running", token'[c] = token[c] PROVE FALSE
  BY <1>2, <1>3, <1>4, OverriddenBefore DEF OverriddenSince, OverriddenNow
<1>5. ASSUME SpawnTick(c) PROVE FALSE
  <2>1. CASE c = Periodic
    <3>1. token'[c] = generation + 1 /\ lastEntered' = lastEntered
      BY <1>0, <1>5, <2>1, Issued DEF SpawnTick
    <3> QED
      BY <1>0, <3>1 DEF OverriddenSince, OverriddenNow
  <2>2. CASE c # Periodic
    <3>1. Waits(c) /\ token'[c] = token[c] /\ lastEntered' = lastEntered
      BY <1>5, <2>2 DEF SpawnTick, Waits, fenceVars
    <3>2. token[c] \in tickets \ superseded /\ F!CanStillEnter(token[c])
      BY <3>1 DEF Owned, WaitersKeepSlots, F!CanStillEnter, Waits
    <3>3. lastEntered < token[c] /\ token[c] \in Gen
      BY <3>1, <3>2, NotYetEntered, TokenIsTicket
    <3> QED
      BY <1>0, <3>1, <3>3 DEF OverriddenSince, OverriddenNow
  <2> QED
    BY <2>1, <2>2
<1>6. ASSUME NEW g \in Gen, WorkerEnters(g) PROVE FALSE
  <2>1. pc[c] = "running" /\ token'[c] = token[c] /\ commandClass' = commandClass
    BY <1>6, Entered DEF WorkerEnters, loopVars
  <2>2. CASE F!Enter(g)
    <3>1. lastEntered' = g /\ g \in tickets \ superseded
      BY <2>2 DEF F!Enter
    <3>2. commandClass[g] = F!OVERRIDE /\ g > token[c]
      BY <2>1, <3>1 DEF OverriddenSince, OverriddenNow
    <3>3. g \in spawned
      BY <1>6 DEF WorkerEnters, WantsFence
    <3>4. PICK d \in Cycles : pc[d] = "running" /\ token[d] = g
      BY <3>1, <3>2, <3>3 DEF OverridesRun
    <3>5. d = c
      BY <1>0, <2>1, <3>4 DEF LockHeld, HoldsLock
    <3> QED
      BY <1>3, <2>1, <3>2, <3>4, <3>5
  <2>3. CASE F!EnterRefused(g) \/ F!EnterWait(g)
    BY <1>3, <2>1, <2>3 DEF F!EnterRefused, F!EnterWait, F!history, OverriddenSince, OverriddenNow
  <2> QED
    BY <1>6, <2>2, <2>3 DEF WorkerEnters
<1>7. ASSUME ~SpawnTick(c), ~\E g \in Gen : WorkerEnters(g)
      PROVE  Calm /\ pc[c] = "running" /\ token'[c] = token[c]
  <2>1. Calm
    BY <1>7, ServiceCalls
  <2>2. pc[c] = "running" /\ token'[c] = token[c]
    <3>1. ASSUME NEW d \in Overrides, SaveOverride(d) \/ SpawnOverride(d) \/ CancelOverride(d)
          PROVE  pc[c] = "running" /\ token'[c] = token[c]
      BY <1>0, <3>1 DEF SaveOverride, SpawnOverride, CancelOverride
    <3>2. ASSUME NEW d \in Cycles, Cycle(d) PROVE pc[c] = "running" /\ token'[c] = token[c]
      BY <1>0, <1>7, <3>2 DEF Cycle, QueueForLock, RefuseDraining, SpawnTick, CycleReturns,
         CycleOverBudget, CycleTimeout, SpawnRecovery, SkipRecovery, RecoveryAwaited, EndCycle, Ended
    <3>3. CASE StartPeriodic
      BY <1>0, <3>3 DEF StartPeriodic
    <3>4. CASE Coalesce
      BY <1>0, <3>4 DEF Coalesce, EndCycle, Ended
    <3>5. CASE Drain \/ TakeControl \/ UNCHANGED vars \/ \E h \in Gen : Worker(h)
      BY <3>5 DEF Drain, TakeControl, vars, loopVars, Worker, TickDecides, WorkerEnters,
         DriverWrites, WorkerRecords, WorkerEnds
    <3> QED
      BY <3>1, <3>2, <3>3, <3>4, <3>5 DEF Next, Ongoing
  <2> QED
    BY <2>1, <2>2
<1> QED
  BY <1>4, <1>5, <1>6, <1>7

(* A step that times a cycle out may order a recovery; no other step does. *)
LEMMA RecoveryOrdered ==
    ASSUME Owned, F!IInv, [Next]_vars, NEW r \in Gen, recoveryForToken'[r] # None
    PROVE  \/ recoveryForToken'[r] = recoveryForToken[r]
           \/ \E c \in Cycles : /\ pc[c] = "running" /\ F!IssueRecovery(token[c])
                                /\ r = generation + 1 /\ recoveryForToken'[r] = token[c]
<1>0. recoveryForToken \in [Gen -> F!GenOrNone] /\ generation \in Nat
  BY ClassesKept DEF F!IInv, F!TypeOK
<1>1. ASSUME NEW c \in Cycles, CycleTimeout(c), F!IssueRecovery(token[c])
      PROVE  \/ recoveryForToken'[r] = recoveryForToken[r]
             \/ r = generation + 1 /\ recoveryForToken'[r] = token[c]
  BY <1>0, <1>1 DEF F!IssueRecovery
<1>2. ASSUME NEW g \in Gen, F!Release(g) PROVE recoveryForToken'[r] = recoveryForToken[r]
  BY <1>0, <1>2 DEF F!Release
<1>3. ASSUME NEW c \in Cycles, CycleTimeout(c)
      PROVE  \/ recoveryForToken'[r] = recoveryForToken[r]
             \/ F!IssueRecovery(token[c]) /\ pc[c] = "running"
  BY <1>3 DEF CycleTimeout, F!SuppressRecovery, fenceVars
<1>4. ASSUME NEW c \in Cycles, Cycle(c), ~CycleTimeout(c) PROVE recoveryForToken'[r] = recoveryForToken[r]
  <2>1. token[c] \in F!GenOrNone /\ recovery[c] \in F!GenOrNone
    BY TokenIsTicket
  <2> QED
    BY <1>2, <1>4, <2>1 DEF Cycle, QueueForLock, RefuseDraining, SpawnTick, CycleReturns, CycleOverBudget,
       SpawnRecovery, SkipRecovery, RecoveryAwaited, fenceVars, F!AdmitRoutine, F!Reserve
<1>5. ASSUME NEW c \in Overrides, SaveOverride(c) \/ SpawnOverride(c) \/ CancelOverride(c)
      PROVE  recoveryForToken'[r] = recoveryForToken[r]
  <2>1. CancelOverride(c) => token[c] \in Gen
    BY TokenIsTicket DEF CancelOverride, Waits
  <2> QED
    BY <1>2, <1>5, <2>1 DEF SaveOverride, SpawnOverride, CancelOverride, fenceVars, F!Reserve
<1>6. ASSUME NEW g \in Gen, Worker(g) PROVE recoveryForToken'[r] = recoveryForToken[r]
  BY <1>2, <1>6 DEF Worker, TickDecides, WorkerEnters, DriverWrites, WorkerRecords, WorkerEnds, fenceVars,
     F!Enter, F!EnterRefused, F!EnterWait, F!fence, F!Leave
<1>7. CASE Drain \/ TakeControl \/ UNCHANGED vars \/ StartPeriodic \/ Coalesce
  BY <1>7 DEF Drain, TakeControl, vars, fenceVars, StartPeriodic, Coalesce, F!MarkDraining
<1> QED
  BY <1>1, <1>3, <1>4, <1>5, <1>6, <1>7 DEF Next, Ongoing

LEMMA RecoveriesStep ==
    ASSUME Owned, F!IInv, NothingNewer, RecoveriesFirst, [Next]_vars
    PROVE  RecoveriesFirst'
<1>0. generation \in Nat /\ lastEntered \in 0 .. generation /\ tickets \subseteq 1 .. generation
  BY ClassesKept
<1>1. F!IInv'
  BY FenceKept
<1> SUFFICES ASSUME NEW r \in Gen, recoveryForToken'[r] # None
             PROVE  /\ OverriddenNow(recoveryForToken'[r]) => lastEntered' > r
                    /\ \A h \in tickets' : recoveryForToken'[r] < h /\ h < r => commandClass'[h] = F!ROUTINE
  BY DEF RecoveriesFirst, OverriddenSince, OverriddenNow
<1> DEFINE s == recoveryForToken'[r]
<1>2. s \in Gen /\ r \in tickets'
  BY <1>1 DEF F!IInv, F!TypeOK, F!RecoveryBookkeeping, F!RecoveriesOutstanding
<1>3. CASE recoveryForToken'[r] = recoveryForToken[r]
  <2>1. r \in tickets /\ commandClass[r] = F!RECOVERY /\ r <= generation
    BY <1>0, <1>2, <1>3 DEF F!IInv, F!RecoveryBookkeeping, F!RecoveriesOutstanding
  <2>2. /\ OverriddenSince(s) => lastEntered > r
        /\ \A h \in tickets : s < h /\ h < r => commandClass[h] = F!ROUTINE
    BY <1>2, <1>3 DEF RecoveriesFirst
  <2>3. CASE Calm
    <3>1. ASSUME NEW h \in tickets', s < h, h < r PROVE commandClass'[h] = F!ROUTINE
      <4>1. h \in tickets
        BY <1>0, <2>1, <2>3, <3>1, CalmTickets
      <4> QED
        BY <2>2, <3>1, <4>1, ClassesKept
    <3>2. OverriddenNow(s) => lastEntered' > r
      BY <1>2, <2>2, <2>3, OverriddenBefore DEF OverriddenSince, OverriddenNow
    <3> QED
      BY <3>1, <3>2
  <2>4. ASSUME NEW g \in Gen, WorkerEnters(g)
        PROVE  /\ OverriddenNow(s) => lastEntered' > r
               /\ \A h \in tickets' : s < h /\ h < r => commandClass'[h] = F!ROUTINE
    <3>1. tickets' = tickets /\ commandClass' = commandClass
      BY <2>4, Entered DEF WorkerEnters
    <3>2. CASE F!Enter(g)
      <4>1. lastEntered' = g /\ g \in tickets
        BY <3>2 DEF F!Enter
      <4> QED
        BY <1>2, <2>1, <2>2, <3>1, <4>1 DEF OverriddenSince, OverriddenNow
    <3>3. CASE F!EnterRefused(g) \/ F!EnterWait(g)
      BY <1>3, <2>2, <3>1, <3>3 DEF F!EnterRefused, F!EnterWait, F!history, OverriddenSince, OverriddenNow
    <3> QED
      BY <2>4, <3>2, <3>3 DEF WorkerEnters
  <2> QED
    BY <2>3, <2>4, ServiceCalls
<1>4. ASSUME NEW c \in Cycles, pc[c] = "running", F!IssueRecovery(token[c]), r = generation + 1, s = token[c]
      PROVE  /\ OverriddenNow(s) => lastEntered' > r
             /\ \A h \in tickets' : s < h /\ h < r => commandClass'[h] = F!ROUTINE
  <2>1. Calm /\ ~draining /\ ~F!NewerCommand(s) /\ tickets' = tickets \cup {r}
    BY <1>2, <1>4 DEF Calm, F!BeginRecovery, F!IssueRecovery, F!CanBeginRecovery, F!NewTicket
  <2>2. ~OverriddenSince(s)
    BY <1>4, <2>1 DEF NothingNewer
  <2>3. ~OverriddenNow(s)
    BY <1>2, <2>1, <2>2, OverriddenBefore DEF OverriddenSince, OverriddenNow
  <2>4. ASSUME NEW h \in tickets', s < h, h < r PROVE commandClass'[h] = F!ROUTINE
    <3>1. h \in tickets /\ commandClass[h] = F!ROUTINE
      BY <1>0, <1>4, <2>1, <2>4 DEF F!NewerCommand
    <3> QED
      BY <1>0, <3>1, ClassesKept
  <2> QED
    BY <2>3, <2>4
<1> QED
  BY <1>3, <1>4, RecoveryOrdered
-----------------------------------------------------------------------------
LEMMA InitCInv == Init => CInv /\ F!IInv
<1> SUFFICES ASSUME Init PROVE CInv /\ F!IInv
  OBVIOUS
<1>1. F!IInv
  BY SameInit, SameInvariant, FP!InitIInv, BoundsAreNat DEF Init
<1> USE DEF Init, F!Init
<1>2. generation = 0 /\ tickets = {} /\ spawned = {} /\ active = None /\ lastEntered = None
  OBVIOUS
<1>3. TypeOK
  <2>1. LoopTypes
    BY BoundsAreNat DEF LoopTypes
  <2>2. DeviceTypes
    BY DEF DeviceTypes
  <2>3. version \in 0 .. Cardinality(Overrides)
    BY OverridesAreFinite, FS_CardinalityType
  <2> QED
    BY <1>1, <2>1, <2>2, <2>3, TypeParts DEF F!IInv
<1>4. RequestsCounted
  <2>1. Submitted = {}
    BY DEF Submitted
  <2> QED
    BY <2>1, FS_EmptySet DEF RequestsCounted
<1>5. TokensKept /\ WaitersKeepSlots /\ LockHeld
  BY OverridesAreFinite DEF TokensKept, WaitersKeepSlots, LockHeld, Waits
<1>6. WritersDecided
  BY DEF WritersDecided
<1>7. NoOrphanSlot /\ OutcomesAreReal /\ OverridesRun /\ NothingNewer
  BY DEF NoOrphanSlot, OutcomesAreReal, BeliefHolds, OverridesRun, NothingNewer
<1>8. DecidedLate /\ RecoveriesFirst
  BY DEF DecidedLate, F!RoutineTickets, RecoveriesFirst
<1> QED
  BY <1>1, <1>3, <1>4, <1>5, <1>6, <1>7, <1>8 DEF CInv, Owned

LEMMA NextCInv == CInv /\ F!IInv /\ [Next]_vars => CInv' /\ F!IInv'
  BY OwnedStep, OrphansStep, OutcomesStep, DecidedStep, OverridesRunStep, NothingNewerStep, RecoveriesStep
     DEF CInv

(* The inductive invariant of the service, together with the fence's own.  *)
THEOREM CycleInvariant == Spec => [](CInv /\ F!IInv)
  BY InitCInv, NextCInv, PTL DEF Spec

(* Whatever the cycles, requests, timeouts and recoveries do, in any order *)
(* (run_cycle, _handle_overrun, spawn_override_cycle): every outstanding   *)
(* ticket still has an owner who will give it back, and what the           *)
(* controller calls confirmed is what the battery does.                    *)
THEOREM NothingAstray == Spec => []CycleConsistent
<1>1. CInv => CycleConsistent
  BY DEF CInv, Owned, CycleConsistent, OutcomesAreReal, BeliefHolds, ConfirmedIsReal
<1> QED
  BY <1>1, CycleInvariant, PTL

(* Whoever starts a write in a step of the service is a worker that enters *)
(* the fence with an eligible ticket.                                      *)
LEMMA StartsEnters ==
    ASSUME Owned, F!IInv, [Next]_vars, NEW g \in Gen, F!Starts(g)
    PROVE  F!Enter(g) /\ WantsFence(g)
<1>1. ~Calm
  BY CalmThreads DEF F!Starts, Woken
<1>2. PICK h \in Gen : WorkerEnters(h)
  BY <1>1, ServiceCalls
<1>3. h = g
  BY <1>2, Entered DEF WorkerEnters, F!Starts
<1> QED
  BY <1>2, <1>3, FenceTypes DEF WorkerEnters, F!Starts, F!EnterRefused, F!EnterWait

(* The newest wish wins, for any number of ticks, requests and recoveries: *)
(* no routine tick acts on an override box older than the newest request,  *)
(* and no recovery of a timed-out cycle overwrites a newer override.       *)
THEOREM NewestWishWins == Spec => NewestWins
<1>1. ASSUME CInv, F!IInv, [Next]_vars, NEW g \in Gen, F!Starts(g)
      PROVE  /\ commandClass[g] = F!ROUTINE => seen[g] >= reservedVersion
             /\ recoveryForToken[g] # None => ~OverriddenSince(recoveryForToken[g])
  <2>1. F!Enter(g) /\ WantsFence(g)
    BY <1>1, StartsEnters DEF CInv
  <2>2. g \in tickets \ superseded /\ F!CanStillEnter(g)
    BY <2>1 DEF F!Enter, F!CallsEnter, F!CanStillEnter
  <2>3. lastEntered < g /\ lastEntered \in Nat
    BY <1>1, <2>2, NotYetEntered DEF F!IInv, F!TypeOK
  <2>4. commandClass[g] = F!ROUTINE => seen[g] >= reservedVersion
    BY <1>1, <2>1, <2>2, ModesAndOutcomes
       DEF CInv, DecidedLate, F!RoutineTickets, WantsFence, IsTick
  <2>5. recoveryForToken[g] # None => ~OverriddenSince(recoveryForToken[g])
    BY <1>1, <2>3 DEF CInv, RecoveriesFirst
  <2> QED
    BY <2>4, <2>5
<1>2. CInv /\ F!IInv /\ [Next]_vars =>
         [\A g \in Gen : F!Starts(g) =>
             /\ commandClass[g] = F!ROUTINE => seen[g] >= reservedVersion
             /\ recoveryForToken[g] # None => ~OverriddenSince(recoveryForToken[g])]_vars
  BY <1>1
<1> QED
  BY <1>2, CycleInvariant, PTL DEF Spec, NewestWins

(* The service keeps the fence's protocol (only who owns a ticket enters,  *)
(* leaves and releases with it, in that order), so that everything proved  *)
(* of the fence (CommandFence_proofs) holds of the running service.        *)
THEOREM ServiceFollowsFence == Spec => FenceProtocol
<1>1. Init => F!Init
  BY DEF Init
<1>2. CInv /\ [Next]_vars => [F!Next]_(F!vars)
  BY FenceStep DEF CInv
<1> QED
  BY <1>1, <1>2, CycleInvariant, PTL DEF Spec, FenceProtocol, F!Spec
-----------------------------------------------------------------------------
(* Restart and graceful stop.                                              *)

(* What the steps of this module do to the fence. *)
RestartCalls ==
    \/ F!MarkDraining \/ F!ClearDraining \/ F!Reserve(F!SHUTDOWN)
    \/ \E g \in Gen : commandClass[g] = F!SHUTDOWN /\ F!Holder(g)
    \/ UNCHANGED fenceVars

LEMMA RestartFence == RestartCalls => [F!Next]_(F!vars)
  BY DEF RestartCalls, F!Next, F!ReservedClass, fenceVars, F!vars, F!fence, F!history

(* Beside the service, a step of the fence disturbs nobody's ticket.       *)
LEMMA OwnedBeside ==
    ASSUME Owned, F!IInv, RestartCalls,
           UNCHANGED <<loopVars, boxVars, target, outcome, device, history>>,
           lastConfirmed' \in Mode \cup {NoMode}, unconfirmed' \in BOOLEAN
    PROVE  Owned' /\ F!IInv'
<1>0. /\ UNCHANGED <<pc, token, recovery, suppressed, lockQueue, spawned, ticks, version, controlling>>
      /\ UNCHANGED <<target, outcome, device, reservedVersion, seen>>
  BY DEF loopVars, boxVars, history
<1>1. F!IInv'
  <2>1. F!IInv' <=> FP!IInv'
    BY SameInvariant, PTL
  <2>2. [F!Next]_(F!vars) => [FP!Next]_(FP!vars)
    BY SameNext DEF F!vars, FP!vars, F!fence, FP!fence, F!history, FP!history
  <2> QED
    BY <2>1, <2>2, RestartFence, FP!NextIInv, BoundsAreNat, SameInvariant
<1>2. TypeOK' /\ RequestsCounted' /\ LockHeld'
  <2>1. F!TypeOK' /\ TypeOK
    BY <1>1 DEF F!IInv, Owned
  <2>2. TypeOK'
    BY <1>0, <2>1 DEF TypeOK
  <2> QED
    BY <1>0, <2>2 DEF Owned, RequestsCounted, Submitted, LockHeld, HoldsLock
<1>3. TokensKept'
  <2>1. TokensMove
    BY <1>0 DEF TokensMove, Owned, TokensKept
  <2> QED
    BY <1>1, <2>1, RestartFence, TokensMoved
<1>4. \A g \in Gen : commandClass[g] = F!SHUTDOWN =>
         \A w \in Overrides : Waits(w) => token[w] # g /\ token[w] \in Gen
  BY WaiterSlot
<1>5. CASE F!MarkDraining \/ F!ClearDraining \/ F!Reserve(F!SHUTDOWN) \/ UNCHANGED fenceVars
  <2>1. Calm
    BY <1>5 DEF Calm, F!ReservedClass, fenceVars, F!vars, F!fence, F!history
  <2>2. WritersDecided'
    BY <1>0, <1>1, <2>1, WritersStay
  <2>3. ASSUME NEW w \in Overrides, Waits(w) PROVE Untouched(w)
    <3>1. /\ token[w] \in (tickets \ superseded) \ spawned /\ thread[token[w]] = "reserved"
          /\ token[w] \in Gen /\ commandClass[token[w]] = F!OVERRIDE
      BY <2>3, WaiterSlot
    <3>2. thread'[token[w]] = "reserved"
      <4>1. CASE F!MarkDraining \/ F!ClearDraining
        BY <3>1, <4>1, Superseded DEF Woken
      <4>2. CASE F!Reserve(F!SHUTDOWN)
        BY <3>1, <4>2, Issued DEF Woken
      <4> QED
        BY <1>5, <3>1, <4>1, <4>2 DEF fenceVars
    <3>3. tickets \subseteq tickets' /\ superseded' \subseteq superseded \cup F!RoutineTickets
      BY <1>5 DEF F!MarkDraining, F!ClearDraining, F!Reserve, F!NewTicket, fenceVars
    <3> QED
      BY <1>0, <3>1, <3>2, <3>3 DEF Untouched, F!RoutineTickets
  <2>4. WaitersKeepSlots'
    BY <1>0, <2>3, WaitersRemain DEF Waits
  <2> QED
    BY <1>1, <1>2, <1>3, <2>2, <2>4 DEF Owned
<1>6. ASSUME NEW g \in Gen, commandClass[g] = F!SHUTDOWN, F!Holder(g)
      PROVE  WritersDecided' /\ WaitersKeepSlots'
  <2>1. thread \in [Gen -> F!ThreadState] /\ commandClass' = commandClass
    BY <1>6, FenceTypes
       DEF F!Holder, F!Enter, F!EnterRefused, F!EnterWait, F!EnterTimeout, F!Leave, F!Release, F!fence
  <2>2. \A h \in Gen \ {g} : thread'[h] = thread[h] \/ thread'[h] = Woken(h)
    BY <1>6, <2>1, Entered, LeftFence, Released DEF F!Holder, F!EnterTimeout
  <2>3. thread'[g] \in {"entering", "asleep"} => thread[g] \in {"reserved", "entering"}
    <3>1. CASE F!Enter(g) \/ F!EnterRefused(g) \/ F!EnterWait(g)
      BY <3>1, Entered
    <3>2. CASE F!Leave(g) \/ F!Release(g)
      BY <3>2, LeftFence, Released
    <3>3. CASE F!EnterTimeout(g)
      BY <2>1, <3>3 DEF F!EnterTimeout
    <3> QED
      BY <1>6, <3>1, <3>2, <3>3 DEF F!Holder
  <2>4. WritersDecided'
    <3>1. WritersDecided
      BY DEF Owned
    <3>2. \A h \in Gen : thread'[h] \in {"entering", "asleep", "writing"} /\ IsTick(h)' =>
             h \in spawned /\ target[h] \in Mode
      BY <1>6, <2>1, <2>2, <3>1 DEF WritersDecided, IsTick, Woken
    <3>3. thread'[g] \notin {"unborn", "reserved"}
      <4>1. CASE F!Enter(g) \/ F!EnterRefused(g) \/ F!EnterWait(g)
        BY <4>1, Entered
      <4>2. CASE F!Leave(g) \/ F!Release(g)
        BY <4>2, LeftFence, Released
      <4>3. CASE F!EnterTimeout(g)
        BY <2>1, <4>3 DEF F!EnterTimeout
      <4> QED
        BY <1>6, <4>1, <4>2, <4>3 DEF F!Holder
    <3>4. \A h \in Gen : thread'[h] \in {"unborn", "reserved", "entering", "asleep"} => outcome[h] = Pending
      BY <2>2, <2>3, <3>1, <3>3 DEF WritersDecided, Woken
    <3> QED
      BY <1>0, <3>1, <3>2, <3>4 DEF WritersDecided
  <2>5. ASSUME NEW w \in Overrides, Waits(w) PROVE Untouched(w)
    <3>1. /\ token[w] \in (tickets \ superseded) \ spawned /\ thread[token[w]] = "reserved"
          /\ token[w] \in Gen \ {g}
      BY <1>4, <1>6, <2>5 DEF Owned, WaitersKeepSlots
    <3>2. thread'[token[w]] = "reserved"
      BY <2>2, <3>1 DEF Woken
    <3>3. \A h \in tickets \ superseded : h # g => h \in tickets' \ superseded'
      BY <1>6 DEF F!Holder, F!Enter, F!EnterRefused, F!EnterWait, F!EnterTimeout, F!Leave, F!Release, F!fence
    <3> QED
      BY <1>0, <3>1, <3>2, <3>3 DEF Untouched
  <2>6. WaitersKeepSlots'
    BY <1>0, <2>5, WaitersRemain DEF Waits
  <2> QED
    BY <2>4, <2>6
<1> QED
  BY <1>1, <1>2, <1>3, <1>5, <1>6 DEF Owned, RestartCalls
-----------------------------------------------------------------------------
(* A step of the service, seen from the restart: it neither drains nor     *)
(* stops draining, and while the process drains no ticket is issued.       *)
LEMMA ServiceDrains ==
    ASSUME Owned, F!IInv, Service
    PROVE  /\ Next /\ UNCHANGED restartVars
           /\ draining' = draining
           /\ draining => generation' = generation /\ tickets' \subseteq tickets
                          /\ commandClass' = commandClass
<1>1. Next /\ UNCHANGED restartVars
  BY DEF Service, Next
<1> DEFINE Steady == /\ draining' = draining
                     /\ draining => generation' = generation /\ tickets' \subseteq tickets
                                    /\ commandClass' = commandClass
<1>2. ASSUME UNCHANGED fenceVars PROVE Steady
  BY <1>2 DEF fenceVars
<1>3. ASSUME NEW g \in Gen,
             F!Release(g) \/ F!Leave(g) \/ F!Enter(g) \/ F!EnterRefused(g) \/ F!EnterWait(g)
      PROVE  Steady
  BY <1>3 DEF F!Release, F!Leave, F!Enter, F!EnterRefused, F!EnterWait, F!fence
<1>4. ASSUME NEW c \in Cycles, Cycle(c) PROVE Steady
  <2>1. CASE SkipRecovery(c) \/ RefuseDraining(c)
    BY <1>2, <1>3, <2>1, TokenIsTicket DEF SkipRecovery, RefuseDraining
  <2>2. CASE SpawnTick(c)
    BY <1>2, <2>2 DEF SpawnTick, F!AdmitRoutine
  <2>3. CASE SpawnRecovery(c)
    BY <1>2, <2>3 DEF SpawnRecovery, F!Reserve
  <2>4. CASE CycleTimeout(c)
    BY <1>2, <2>4 DEF CycleTimeout, F!IssueRecovery, F!SuppressRecovery, F!CanBeginRecovery
  <2> QED
    BY <1>2, <1>4, <2>1, <2>2, <2>3, <2>4
       DEF Cycle, QueueForLock, CycleReturns, CycleOverBudget, RecoveryAwaited
<1>5. ASSUME NEW c \in Overrides, SaveOverride(c) \/ SpawnOverride(c) \/ CancelOverride(c) PROVE Steady
  <2>1. CancelOverride(c) => token[c] \in Gen
    BY TokenIsTicket DEF CancelOverride, Waits
  <2> QED
    BY <1>2, <1>3, <1>5, <2>1 DEF SaveOverride, SpawnOverride, CancelOverride, F!Reserve
<1>6. ASSUME NEW g \in Gen, Worker(g) PROVE Steady
  BY <1>2, <1>3, <1>6 DEF Worker, TickDecides, WorkerEnters, DriverWrites, WorkerRecords, WorkerEnds
<1>7. ASSUME StartPeriodic \/ Coalesce \/ TakeControl PROVE Steady
  BY <1>2, <1>7 DEF StartPeriodic, Coalesce, TakeControl
<1>8. Steady
  BY <1>4, <1>5, <1>6, <1>7 DEF Service, Ongoing
<1> QED
  BY <1>1, <1>8

(* ... and what is known of the device changes only with a worker's turn.  *)
LEMMA ServiceWrites ==
    ASSUME Owned, F!IInv, Service,
           ~\E g \in Gen : WorkerEnters(g) \/ DriverWrites(g) \/ WorkerRecords(g)
    PROVE  UNCHANGED <<outcome, device, lastConfirmed, unconfirmed, active, lastEntered>>
<1>1. Next
  BY DEF Service, Next
<1>2. Calm
  BY <1>1, ServiceCalls
<1>3. CASE ~\E g \in Gen : Worker(g)
  BY <1>1, <1>2, <1>3, OthersSendNothing, NobodyLeaves, CalmTickets DEF deviceVars
<1>4. ASSUME NEW g \in Gen, TickDecides(g) \/ WorkerEnds(g)
      PROVE  UNCHANGED <<outcome, device, lastConfirmed, unconfirmed, active>>
  BY <1>4, Released DEF TickDecides, WorkerEnds, deviceVars, fenceVars
<1> QED
  BY <1>2, <1>3, <1>4, CalmTickets DEF Worker

(* With no ticket out, nothing that is known of the device changes.        *)
LEMMA IdleStaysIdle ==
    ASSUME Owned, F!IInv, Service, draining, tickets = {}
    PROVE  tickets' = {} /\ draining' /\ UNCHANGED <<lastConfirmed, unconfirmed>>
<1>1. tickets' = {} /\ draining'
  BY ServiceDrains
<1>2. ASSUME NEW g \in Gen, WorkerEnters(g) PROVE UNCHANGED <<lastConfirmed, unconfirmed>>
  BY <1>2 DEF WorkerEnters, deviceVars
<1>3. \A g \in Gen : ~DriverWrites(g) /\ ~WorkerRecords(g)
  BY FenceTypes DEF DriverWrites, WorkerRecords, F!Leave, F!Holding
<1> QED
  BY <1>1, <1>2, <1>3, ServiceWrites
-----------------------------------------------------------------------------
(* Steps of the service keep what a restart and a stop rely on.            *)

(* The SHUTDOWN ticket is the newest there is, so whoever enters the fence *)
(* after it has been through is not older, and there is nobody.            *)
LEMMA RestoreWasLast ==
    ASSUME RestoreComesLast, F!IInv, restoreTicket # None,
           outcome[restoreTicket] # Pending,
           NEW g \in tickets \ superseded, F!CanStillEnter(g)
    PROVE  FALSE
<1>1. lastEntered = generation /\ generation \in Nat
  BY FenceTypes DEF RestoreComesLast
<1>2. lastEntered < g /\ g \in 1 .. generation
  BY NotYetEntered, FenceTypes
<1> QED
  BY <1>1, <1>2

LEMMA ServiceKeepsRestore ==
    ASSUME RInv, F!IInv, Service
    PROVE  RestoreComesLast'
<1>1. UNCHANGED restartVars
  BY ServiceDrains DEF RInv
<1>2. CASE restoreTicket = None
  BY <1>1, <1>2 DEF restartVars, RInv, RestoreComesLast
<1>3. CASE restoreTicket # None
  <2>1. /\ restoreTicket \in Gen /\ phase \in Stopping /\ restoreTicket = generation
        /\ commandClass[restoreTicket] = F!SHUTDOWN /\ RestoreComesLast
    BY <1>3 DEF RInv, SRTypeOK, RestoreComesLast
  <2>2. generation' = generation /\ commandClass' = commandClass /\ restoreTicket' = restoreTicket /\ phase' = phase
    BY <1>1, <2>1, ServiceDrains DEF RInv, StopStaysDrained, restartVars
  <2> SUFFICES /\ active' = restoreTicket \/ outcome'[restoreTicket] # Pending =>
                    lastEntered' = restoreTicket /\ active' \in {None, restoreTicket}
               /\ outcome'[restoreTicket] = "applied" => device' = AUTO
               /\ outcome[restoreTicket] = "applied" => outcome'[restoreTicket] = "applied"
    BY <2>1, <2>2, <1>3 DEF RestoreComesLast
  <2>3. CASE \E g \in Gen : WorkerEnters(g)
    <3>1. PICK g \in Gen : WorkerEnters(g)
      BY <2>3
    <3>2. UNCHANGED <<outcome, device>>
      BY <3>1 DEF WorkerEnters, deviceVars
    <3>3. CASE F!Enter(g)
      <4>1. g \in tickets \ superseded /\ F!CanStillEnter(g)
        BY <3>3 DEF F!Enter, F!CallsEnter, F!CanStillEnter
      <4>2. outcome[restoreTicket] = Pending
        BY <1>3, <2>1, <4>1, RestoreWasLast
      <4>3. active' = g /\ lastEntered' = g
        BY <3>3 DEF F!Enter
      <4> QED
        BY <3>2, <4>2, <4>3
    <3>4. CASE F!EnterRefused(g) \/ F!EnterWait(g)
      BY <1>3, <2>1, <3>2, <3>4 DEF RestoreComesLast, F!EnterRefused, F!EnterWait, F!fence, F!history
    <3> QED
      BY <3>1, <3>3, <3>4 DEF WorkerEnters
  <2>4. CASE \E g \in Gen : DriverWrites(g)
    <3>1. PICK g \in Gen : DriverWrites(g)
      BY <2>4
    <3>2. /\ UNCHANGED <<active, lastEntered>> /\ active = g /\ outcome[g] = Pending
          /\ \A h \in Gen \ {g} : outcome'[h] = outcome[h]
      <4>1. outcome \in [Gen -> Outcome \cup {Pending}]
        BY DEF RInv, SRTypeOK, TypeOK
      <4> QED
        BY <3>1, <4>1, FenceTypes DEF DriverWrites, fenceVars
    <3>3. CASE g = restoreTicket
      <4>1. ~IsTick(g)
        BY <2>1, <3>3 DEF IsTick
      <4>2. outcome'[g] = "applied" => device' = AUTO
        BY <3>1, <4>1 DEF DriverWrites, Applied, RInv, SRTypeOK, TypeOK
      <4> QED
        BY <1>3, <2>1, <3>2, <3>3, <4>2 DEF RestoreComesLast
    <3>4. CASE g # restoreTicket
      BY <1>3, <2>1, <3>2, <3>4 DEF RestoreComesLast
    <3> QED
      BY <3>3, <3>4
  <2>5. CASE \E g \in Gen : WorkerRecords(g)
    <3>1. PICK g \in Gen : WorkerRecords(g)
      BY <2>5
    <3>2. active' = None /\ active = g /\ UNCHANGED <<lastEntered, outcome, device>>
      BY <3>1, LeftFence DEF WorkerRecords
    <3> QED
      BY <1>3, <2>1, <3>2 DEF RestoreComesLast
  <2>6. CASE ~\E g \in Gen : WorkerEnters(g) \/ DriverWrites(g) \/ WorkerRecords(g)
    BY <1>3, <2>1, <2>6, ServiceWrites DEF RInv, RestoreComesLast
  <2> QED
    BY <2>3, <2>4, <2>5, <2>6
<1> QED
  BY <1>2, <1>3

LEMMA ServiceStep ==
    ASSUME RInv, F!IInv, Service
    PROVE  RInv' /\ F!IInv'
<1>1. Next /\ UNCHANGED restartVars /\ draining' = draining /\ (draining => tickets' \subseteq tickets)
  BY ServiceDrains DEF RInv
<1>2. Owned' /\ F!IInv'
  BY <1>1, OwnedStep DEF RInv
<1>3. SRTypeOK'
  BY <1>1, <1>2 DEF RInv, SRTypeOK, Owned, restartVars
<1>4. RestartKeepsQuiet'
  BY <1>1, IdleStaysIdle DEF RInv, RestartKeepsQuiet, BelievedAuto, restartVars
<1>5. StopStaysDrained'
  BY <1>1 DEF RInv, StopStaysDrained, restartVars
<1> QED
  BY <1>2, <1>3, <1>4, <1>5, ServiceKeepsRestore DEF RInv
-----------------------------------------------------------------------------
(* The steps of a restart and of a stop themselves.                        *)
RestartsOwn ==
    \/ \E r \in Restarts :
          RequestRestart(r) \/ AbortRequest(r) \/ TriggerRestart(r) \/ TriggerFails(r)
    \/ WatchdogFires \/ ExternalSigterm \/ BeginShutdown \/ ReserveShutdown
    \/ RestoreRuns \/ RestoreReturns \/ RestoreTimeout

LEMMA OwnIsBeside ==
    ASSUME RInv, F!IInv, RestartsOwn
    PROVE  /\ RestartCalls
           /\ UNCHANGED <<loopVars, boxVars, target, outcome, device, history>>
           /\ lastConfirmed' \in Mode \cup {NoMode} /\ unconfirmed' \in BOOLEAN
<1>0. lastConfirmed \in Mode \cup {NoMode} /\ unconfirmed \in BOOLEAN /\ AUTO \in Mode
  BY ModesAndOutcomes DEF RInv, SRTypeOK, TypeOK
<1>1. ASSUME NEW r \in Restarts,
             RequestRestart(r) \/ AbortRequest(r) \/ TriggerRestart(r) \/ TriggerFails(r)
      PROVE  RestartCalls /\ UNCHANGED serviceVars
  BY <1>1 DEF RequestRestart, AbortRequest, TriggerRestart, TriggerFails, RestartCalls
<1>2. CASE WatchdogFires \/ ExternalSigterm \/ BeginShutdown \/ ReserveShutdown \/ RestoreTimeout
  <2>1. RestartCalls /\ UNCHANGED serviceVars
    BY <1>2 DEF WatchdogFires, ExternalSigterm, BeginShutdown, ReserveShutdown, RestoreTimeout, RestartCalls
  <2> QED
    BY <1>0, <2>1 DEF serviceVars, deviceVars
<1>3. CASE RestoreRuns
  <2>1. restoreTicket \in Gen /\ commandClass[restoreTicket] = F!SHUTDOWN
    BY <1>3 DEF RestoreRuns, RInv, SRTypeOK, RestoreComesLast
  <2>2. F!Holder(restoreTicket)
    BY <1>3 DEF RestoreRuns, F!Holder
  <2> QED
    BY <1>0, <1>3, <2>1, <2>2 DEF RestoreRuns, RestartCalls, serviceVars, deviceVars
<1>4. CASE RestoreReturns
  BY <1>0, <1>4 DEF RestoreReturns, RestartCalls
<1> QED
  BY <1>0, <1>1, <1>2, <1>3, <1>4 DEF RestartsOwn, serviceVars, deviceVars

(* While the process still serves, no restore is under way.                *)
LEMMA ServesStill ==
    ASSUME RInv
    PROVE  /\ phase \notin Stopping => restoreTicket = None
           /\ \A r \in Restarts : request[r] = "auditing" => phase \in {"up", "signalled"}
  BY DEF RInv, RestoreComesLast, StopStaysDrained

LEMMA RequestsStep ==
    ASSUME RInv, F!IInv, NEW r \in Restarts,
           RequestRestart(r) \/ AbortRequest(r) \/ TriggerRestart(r) \/ TriggerFails(r)
    PROVE  RestartKeepsQuiet' /\ StopStaysDrained' /\ RestoreComesLast'
<1>0. request \in [Restarts -> {"idle", "auditing", "over"}]
  BY DEF RInv, SRTypeOK
<1> USE ServesStill DEF RInv, RestartKeepsQuiet, StopStaysDrained, RestoreComesLast, Stopping,
        BelievedAuto, serviceVars, deviceVars
<1>1. CASE RequestRestart(r)
  <2>1. tickets' = tickets
    BY <1>1, Superseded DEF RequestRestart
  <2>2. draining'
    BY <1>1 DEF RequestRestart, F!MarkDraining
  <2> QED
    BY <1>0, <1>1, <2>1, <2>2 DEF RequestRestart, IdleForRestart
<1>2. CASE AbortRequest(r)
  BY <1>0, <1>2 DEF AbortRequest, fenceVars
<1>3. CASE TriggerRestart(r)
  BY <1>0, <1>3 DEF TriggerRestart, fenceVars
<1>4. CASE TriggerFails(r)
  BY <1>0, <1>4 DEF TriggerFails
<1> QED
  BY <1>1, <1>2, <1>3, <1>4

LEMMA SignalsStep ==
    ASSUME RInv, F!IInv, WatchdogFires \/ ExternalSigterm \/ BeginShutdown
    PROVE  RestartKeepsQuiet' /\ StopStaysDrained' /\ RestoreComesLast'
<1> USE ServesStill DEF RInv, RestartKeepsQuiet, StopStaysDrained, RestoreComesLast, Stopping,
        BelievedAuto, serviceVars, deviceVars
<1>1. CASE WatchdogFires /\ committed
  BY <1>1 DEF WatchdogFires, fenceVars
<1>2. CASE WatchdogFires /\ ~committed
  BY <1>2 DEF WatchdogFires, F!ClearDraining
<1>3. CASE ExternalSigterm
  BY <1>3 DEF ExternalSigterm, fenceVars
<1>4. CASE BeginShutdown
  <2>1. tickets' = tickets
    BY <1>4, Superseded DEF BeginShutdown
  <2>2. draining'
    BY <1>4 DEF BeginShutdown, F!MarkDraining
  <2> QED
    BY <1>4, <2>1, <2>2 DEF BeginShutdown
<1> QED
  BY <1>1, <1>2, <1>3, <1>4

LEMMA RestoreStep ==
    ASSUME RInv, F!IInv, ReserveShutdown \/ RestoreRuns \/ RestoreReturns \/ RestoreTimeout
    PROVE  RestartKeepsQuiet' /\ StopStaysDrained' /\ RestoreComesLast'
<1> USE DEF Stopping
<1>1. CASE ReserveShutdown
  <2> DEFINE new == generation + 1
  <2>1. /\ new \in Gen /\ generation' = new /\ commandClass'[new] = F!SHUTDOWN /\ thread[new] = "unborn"
        /\ restoreTicket' = new /\ new # None
    BY <1>1, Issued, FenceTypes DEF ReserveShutdown, F!CommandClass
  <2>2. active' = active /\ draining' = draining /\ UNCHANGED <<outcome, device, phase, request, restartRequested, watchdog>>
    BY <1>1 DEF ReserveShutdown, F!Reserve, serviceVars, deviceVars
  <2>3. active # new
    BY <2>1, FenceTypes
  <2>4. outcome[new] = Pending
    BY <2>1 DEF RInv, Owned, WritersDecided
  <2>5. RestoreComesLast'
    BY <1>1, <2>1, <2>2, <2>3, <2>4 DEF RestoreComesLast, ReserveShutdown
  <2> QED
    BY <1>1, <2>2, <2>5 DEF RInv, RestartKeepsQuiet, StopStaysDrained, ReserveShutdown
<1>2. CASE RestoreRuns
  <2>1. /\ restoreTicket \in Gen /\ phase \in Stopping /\ UNCHANGED serviceVars /\ UNCHANGED restartVars
        /\ restoreTicket # None
    BY <1>2 DEF RestoreRuns, RInv, SRTypeOK, RestoreComesLast
  <2>2. /\ UNCHANGED <<generation, commandClass, draining>>
        /\ \/ active' = restoreTicket /\ lastEntered' = restoreTicket
           \/ active' \in {active, None} /\ lastEntered' = lastEntered
    BY <1>2, <2>1, Released DEF RestoreRuns, F!Enter, F!EnterRefused, F!EnterWait, F!EnterTimeout,
       F!Leave, F!ClearActive, F!fence, F!history
  <2>3. RestoreComesLast'
    BY <2>1, <2>2 DEF RInv, RestoreComesLast, serviceVars, deviceVars, restartVars
  <2> QED
    BY <2>1, <2>2, <2>3 DEF RInv, RestartKeepsQuiet, StopStaysDrained, restartVars
<1>3. CASE RestoreReturns \/ RestoreTimeout
  BY <1>3 DEF RestoreReturns, RestoreTimeout, RInv, RestartKeepsQuiet, StopStaysDrained, RestoreComesLast,
     serviceVars, deviceVars, fenceVars
<1> QED
  BY <1>1, <1>2, <1>3

LEMMA OwnStep ==
    ASSUME RInv, F!IInv, RestartsOwn
    PROVE  RInv' /\ F!IInv'
<1>1. Owned' /\ F!IInv'
  BY OwnIsBeside, OwnedBeside DEF RInv
<1>2. RestartKeepsQuiet' /\ StopStaysDrained' /\ RestoreComesLast'
  BY RequestsStep, SignalsStep, RestoreStep DEF RestartsOwn
<1>3. SRTypeOK'
  <2>1. SRTypeOK /\ TypeOK' /\ generation' \in F!GenOrNone
    BY <1>1 DEF RInv, Owned, TypeOK, F!TypeOK
  <2>2. ASSUME NEW r \in Restarts,
               RequestRestart(r) \/ AbortRequest(r) \/ TriggerRestart(r) \/ TriggerFails(r)
        PROVE  SRTypeOK'
    BY <2>1, <2>2 DEF SRTypeOK, RequestRestart, AbortRequest, TriggerRestart, TriggerFails
  <2>3. CASE ReserveShutdown
    <3>1. generation' = generation + 1
      BY <2>3 DEF ReserveShutdown, F!Reserve, F!NewTicket
    <3> QED
      BY <2>1, <2>3, <3>1 DEF SRTypeOK, ReserveShutdown
  <2>4. CASE WatchdogFires \/ ExternalSigterm \/ BeginShutdown \/ RestoreReturns \/ RestoreTimeout
    BY <2>1, <2>4 DEF SRTypeOK, WatchdogFires, ExternalSigterm, BeginShutdown, RestoreReturns, RestoreTimeout
  <2>5. CASE RestoreRuns
    BY <2>1, <2>5 DEF SRTypeOK, RestoreRuns, restartVars
  <2> QED
    BY <2>2, <2>3, <2>4, <2>5 DEF RestartsOwn
<1> QED
  BY <1>1, <1>2, <1>3 DEF RInv
-----------------------------------------------------------------------------
LEMMA InitRInv == SRInit => RInv /\ F!IInv
<1> SUFFICES ASSUME SRInit PROVE RInv /\ F!IInv
  OBVIOUS
<1>1. Owned /\ F!IInv
  BY InitCInv DEF SRInit, CInv
<1>2. SRTypeOK
  <2>1. TypeOK
    BY <1>1 DEF Owned
  <2>2. restoreTicket \in F!GenOrNone
    BY BoundsAreNat DEF SRInit
  <2>3. request \in [Restarts -> {"idle", "auditing", "over"}]
    BY DEF SRInit
  <2> QED
    BY <2>1, <2>2, <2>3 DEF SRInit, SRTypeOK
<1>3. RestartKeepsQuiet /\ StopStaysDrained /\ RestoreComesLast
  BY DEF SRInit, RestartKeepsQuiet, StopStaysDrained, RestoreComesLast, Stopping
<1> QED
  BY <1>1, <1>2, <1>3 DEF RInv

LEMMA NextRInv == RInv /\ F!IInv /\ [SRNext]_srVars => RInv' /\ F!IInv'
<1> SUFFICES ASSUME RInv, F!IInv, [SRNext]_srVars PROVE RInv' /\ F!IInv'
  OBVIOUS
<1>1. CASE SRNext
  BY <1>1, ServiceStep, OwnStep DEF SRNext, RestartsOwn
<1>2. CASE UNCHANGED srVars
  <2>1. Owned' /\ F!IInv'
    BY <1>2, OwnedStep DEF RInv, srVars
  <2>2. SRTypeOK'
    BY <1>2, <2>1 DEF RInv, Owned, SRTypeOK, srVars, restartVars
  <2>3. RestartKeepsQuiet' /\ StopStaysDrained' /\ RestoreComesLast'
    BY <1>2 DEF RInv, RestartKeepsQuiet, StopStaysDrained, RestoreComesLast,
       BelievedAuto, srVars, restartVars, vars, fenceVars, deviceVars
  <2> QED
    BY <2>1, <2>2, <2>3 DEF RInv
<1> QED
  BY <1>1, <1>2

(* The inductive invariant of restart and stop, with the fence's own.      *)
THEOREM RestartInvariant == SRSpec => [](RInv /\ F!IInv)
  BY InitRInv, NextRInv, PTL DEF SRSpec

(* What system_restart's gate and _shutdown_restore act on is so, however  *)
(* ticks, overrides, recoveries, vanishing clients and signals interleave: *)
(* a standing restart keeps its quiet, and a confirmed restore leaves the  *)
(* battery in AUTO.                                                        *)
THEOREM RestartHolds == SRSpec => []RestartConsistent
<1>1. RInv => RestartConsistent
  BY DEF RInv, RestartConsistent, QuietWhileRestarting, RestoredIsAuto, RestartKeepsQuiet,
     RestoreComesLast, Stopping
<1> QED
  BY <1>1, RestartInvariant, PTL

(* After a confirmed restore_for_shutdown() nobody writes to the battery   *)
(* any more, whoever is still asleep in enter(), and after a stop that had *)
(* nothing to restore nobody does while its drain is in force.             *)
THEOREM StopIsLastWord == SRSpec => StopIsFinal
<1>1. ASSUME RInv, F!IInv, SRNext, NEW g \in Gen, F!Starts(g)
      PROVE  phase # "restored" /\ (phase = "skipped" => ~draining)
  <2>1. F!Enter(g)
    <3>1. CASE Service
      BY <1>1, <3>1, StartsEnters, ServiceDrains DEF RInv
    <3>2. CASE RestoreRuns
      <4>1. restoreTicket \in Gen
        BY <1>1, <3>2 DEF RestoreRuns, RInv, SRTypeOK
      <4>2. ~(F!Leave(restoreTicket) \/ F!Release(restoreTicket))
        BY <1>1, <4>1, LeftFence, Released DEF F!Starts, Woken
      <4>3. ~(F!EnterRefused(restoreTicket) \/ F!EnterWait(restoreTicket) \/ F!EnterTimeout(restoreTicket))
        BY <1>1, <4>1, FenceTypes DEF F!Starts, F!EnterRefused, F!EnterWait, F!EnterTimeout
      <4>4. F!Enter(restoreTicket)
        BY <3>2, <4>2, <4>3 DEF RestoreRuns
      <4> QED
        BY <1>1, <4>1, <4>4, Entered DEF F!Starts
    <3>3. CASE RestartsOwn /\ ~RestoreRuns
      <4>1. F!MarkDraining \/ F!ClearDraining \/ F!Reserve(F!SHUTDOWN) \/ UNCHANGED fenceVars
        BY <3>3 DEF RestartsOwn, RequestRestart, AbortRequest, TriggerRestart, TriggerFails,
           WatchdogFires, ExternalSigterm, BeginShutdown, ReserveShutdown, RestoreReturns, RestoreTimeout
      <4>2. Calm
        BY <4>1 DEF Calm, F!ReservedClass, fenceVars, F!vars, F!fence, F!history
      <4> QED
        BY <1>1, <4>2, CalmThreads DEF F!Starts, Woken
    <3> QED
      BY <1>1, <3>1, <3>2, <3>3 DEF SRNext, RestartsOwn
  <2>2. g \in tickets \ superseded /\ F!CanStillEnter(g)
    BY <2>1 DEF F!Enter, F!CallsEnter, F!CanStillEnter
  <2>3. phase # "restored"
    BY <1>1, <2>2, RestoreWasLast DEF RInv, RestoreComesLast
  <2> QED
    BY <1>1, <2>2, <2>3 DEF RInv, StopStaysDrained
<1>2. RInv /\ F!IInv /\ [SRNext]_srVars =>
         [\A g \in Gen : F!Starts(g) =>
             phase # "restored" /\ (phase = "skipped" => ~draining)]_srVars
  BY <1>1
<1> QED
  BY <1>2, RestartInvariant, PTL DEF SRSpec, StopIsFinal
=============================================================================
