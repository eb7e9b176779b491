------------------------ MODULE CommandFence_proofs ------------------------
(***************************************************************************)
(* Proofs about the command fence, for every MaxGeneration: the inductive  *)
(* invariant IInv, the safety properties that follow from it, and that the *)
(* fence implements OrderedWriter.                                         *)
(***************************************************************************)
EXTENDS CommandFence, TLAPS

USE DEF Gen, GenOrNone, None, CommandClass, ReservedClass,
        ROUTINE, OVERRIDE, RECOVERY, SHUTDOWN

(* What a fence step may do to the threads: notify_all() only moves a      *)
(* sleeper back to the test of enter()'s loop.                             *)
LEMMA NotifyAllWakes ==
    ASSUME NEW th \in [Gen -> ThreadState]
    PROVE  /\ NotifyAll(th) \in [Gen -> ThreadState]
           /\ \A g \in Gen : NotifyAll(th)[g] # "asleep"
           /\ \A g \in Gen : th[g] # "asleep" => NotifyAll(th)[g] = th[g]
           /\ \A g \in Gen : th[g] = "asleep" => NotifyAll(th)[g] = "entering"
  BY DEF NotifyAll, ThreadState

(* The fence starts with no ticket, so every part of IInv holds of it. *)
LEMMA InitIInv == Init => IInv
<1> SUFFICES ASSUME Init PROVE IInv
  OBVIOUS
<1> USE MaxGenerationIsNat DEF Init
<1>1. TypeOK
  <2>1. draining \in BOOLEAN
    OBVIOUS
  <2>2. thread \in [Gen -> ThreadState]
    BY DEF ThreadState
  <2>3. commandClass \in [Gen -> CommandClass]
    OBVIOUS
  <2>4. recoveries \in [Gen -> GenOrNone] /\ recoveryForToken \in [Gen -> GenOrNone]
    OBVIOUS
  <2> QED
    BY <2>1, <2>2, <2>3, <2>4 DEF TypeOK
<1>2. BornInOrder /\ HeldTickets /\ OneWriter
  BY DEF BornInOrder, HeldTickets, OneWriter, Holding
<1>3. EntryOrder /\ NoLostWakeup
  BY DEF EntryOrder, NoLostWakeup, Eligible
<1>4. StaleSuperseded /\ DrainSupersedes /\ OperatorSupersedes /\ OnlyGivenUpSuperseded
  BY DEF StaleSuperseded, DrainSupersedes, OperatorSupersedes,
         OnlyGivenUpSuperseded, RoutineTickets
<1>5. RecoveryBookkeeping
  BY DEF RecoveryBookkeeping, RecoveryMapsAgree, RecoveriesOutstanding
<1> QED
  BY <1>1, <1>2, <1>3, <1>4, <1>5 DEF IInv

(* A reservation adds one ticket, newer than all, and overrules routines. *)
LEMMA ReserveIInv ==
    ASSUME IInv, NEW cls \in ReservedClass, Reserve(cls)
    PROVE  IInv'
<1> USE MaxGenerationIsNat DEF Reserve, NewTicket, history, IInv
<1>0. /\ TypeOK
      /\ generation + 1 \in Gen
      /\ generation + 1 \notin tickets
  BY DEF TypeOK
<1>1. thread \in [Gen -> ThreadState] /\ thread' \in [Gen -> ThreadState]
  BY <1>0, NotifyAllWakes DEF TypeOK, ThreadState
<1>2. /\ thread'[generation + 1] = "reserved"
      /\ \A g \in Gen : g # generation + 1 =>
            thread'[g] = IF thread[g] = "asleep" THEN "entering" ELSE thread[g]
  BY <1>0, <1>1 DEF NotifyAll
<1>3. /\ commandClass' \in [Gen -> CommandClass]
      /\ commandClass'[generation + 1] = cls
      /\ \A g \in Gen : g # generation + 1 => commandClass'[g] = commandClass[g]
  BY <1>0 DEF TypeOK
<1>4. TypeOK'
  <2>1. (generation \in GenOrNone)' /\ (tickets \subseteq 1 .. generation)'
    BY <1>0 DEF TypeOK
  <2>2. (superseded \subseteq 1 .. generation)' /\ (givenUp \subseteq 1 .. generation)'
    <3>1. RoutineTickets \subseteq tickets
      BY DEF RoutineTickets
    <3> QED
      BY <1>0, <3>1 DEF TypeOK
  <2>3. (draining \in BOOLEAN)'
    BY <1>0 DEF TypeOK
  <2>4. (active \in GenOrNone)' /\ (lastEntered \in GenOrNone)'
    BY <1>0 DEF TypeOK
  <2>5. (recoveries \in [Gen -> GenOrNone])' /\ (recoveryForToken \in [Gen -> GenOrNone])'
    BY <1>0 DEF TypeOK
  <2> QED
    BY <1>1, <1>3, <2>1, <2>2, <2>3, <2>4, <2>5 DEF TypeOK
<1>5. BornInOrder'
  <2> SUFFICES ASSUME NEW g \in Gen PROVE (thread[g] = "unborn" <=> generation < g)'
    BY DEF BornInOrder
  <2>1. CASE g = generation + 1
    BY <1>0, <1>2, <2>1 DEF BornInOrder, TypeOK
  <2>2. CASE g # generation + 1
    BY <1>0, <1>2, <2>2 DEF BornInOrder, TypeOK
  <2> QED
    BY <2>1, <2>2
<1>6. HeldTickets'
  BY <1>0, <1>2 DEF HeldTickets, Holding, TypeOK
<1>7. OneWriter'
  <2> SUFFICES ASSUME NEW g \in Gen PROVE (thread[g] = "writing" <=> active = g)'
    BY DEF OneWriter
  <2>1. CASE g = generation + 1
    BY <1>0, <1>2, <2>1 DEF OneWriter, HeldTickets, Holding, TypeOK
  <2>2. CASE g # generation + 1
    BY <1>0, <1>2, <2>2 DEF OneWriter, TypeOK
  <2> QED
    BY <2>1, <2>2
<1>8. EntryOrder'
  BY <1>0, <1>2 DEF EntryOrder, Eligible, CanStillEnter, TypeOK
<1>9. StaleSuperseded'
  BY <1>0 DEF StaleSuperseded, TypeOK
<1>10. DrainSupersedes'
  BY <1>0, <1>3 DEF DrainSupersedes, RoutineTickets, TypeOK
<1>11. OperatorSupersedes'
  BY <1>0, <1>3 DEF OperatorSupersedes, RoutineTickets, TypeOK
<1>12. OnlyGivenUpSuperseded'
  BY <1>0, <1>3 DEF OnlyGivenUpSuperseded, RoutineTickets, TypeOK
<1>13. NoLostWakeup'
  BY <1>0, <1>2 DEF NoLostWakeup
<1>14. RecoveryBookkeeping'
  BY <1>0, <1>3 DEF RecoveryBookkeeping, RecoveryMapsAgree,
                    RecoveriesOutstanding, TypeOK
<1> QED
  BY <1>4, <1>5, <1>6, <1>7, <1>8, <1>9, <1>10, <1>11, <1>12, <1>13, <1>14

(* admit_routine() adds the only ticket there is. *)
LEMMA AdmitRoutineIInv ==
    ASSUME IInv, AdmitRoutine
    PROVE  IInv'
<1> USE MaxGenerationIsNat DEF AdmitRoutine, NewTicket, history, IInv
<1>0. /\ TypeOK
      /\ generation + 1 \in Gen
      /\ tickets' = {generation + 1}
  BY DEF TypeOK
<1>1. /\ thread \in [Gen -> ThreadState] /\ thread' \in [Gen -> ThreadState]
      /\ thread'[generation + 1] = "reserved"
      /\ \A g \in Gen : g # generation + 1 => thread'[g] = thread[g]
  BY <1>0 DEF TypeOK, ThreadState
<1>2. \A g \in Gen : thread[g] \notin Holding
  BY <1>0 DEF HeldTickets
<1>3. /\ commandClass' \in [Gen -> CommandClass]
      /\ commandClass'[generation + 1] = ROUTINE
      /\ \A g \in Gen : g # generation + 1 => commandClass'[g] = commandClass[g]
  BY <1>0 DEF TypeOK
<1>4. TypeOK'
  <2>1. /\ (generation \in GenOrNone)' /\ (tickets \subseteq 1 .. generation)'
        /\ (superseded \subseteq 1 .. generation)'
        /\ (givenUp \subseteq 1 .. generation)'
    BY <1>0 DEF TypeOK
  <2>2. (draining \in BOOLEAN)'
    BY <1>0 DEF TypeOK
  <2>3. /\ (active \in GenOrNone)' /\ (lastEntered \in GenOrNone)'
        /\ (recoveries \in [Gen -> GenOrNone])'
        /\ (recoveryForToken \in [Gen -> GenOrNone])'
    BY <1>0 DEF TypeOK
  <2> QED
    BY <1>1, <1>3, <2>1, <2>2, <2>3 DEF TypeOK
<1>5. BornInOrder'
  <2> SUFFICES ASSUME NEW g \in Gen PROVE (thread[g] = "unborn" <=> generation < g)'
    BY DEF BornInOrder
  <2>1. CASE g = generation + 1
    BY <1>0, <1>1, <2>1 DEF TypeOK
  <2>2. CASE g # generation + 1
    BY <1>0, <1>1, <2>2 DEF BornInOrder, TypeOK
  <2> QED
    BY <2>1, <2>2
<1>6. HeldTickets'
  BY <1>0, <1>1, <1>2 DEF HeldTickets, Holding
<1>7. OneWriter' /\ NoLostWakeup'
  BY <1>0, <1>1, <1>2 DEF OneWriter, NoLostWakeup, Holding, TypeOK
<1>8. EntryOrder'
  BY <1>0 DEF EntryOrder, Eligible, TypeOK
<1>9. StaleSuperseded'
  BY <1>0 DEF StaleSuperseded, TypeOK
<1>10. DrainSupersedes'
  BY <1>0 DEF DrainSupersedes
<1>11. OperatorSupersedes'
  BY <1>0 DEF OperatorSupersedes, RoutineTickets, TypeOK
<1>12. OnlyGivenUpSuperseded'
  BY <1>0, <1>3 DEF OnlyGivenUpSuperseded, TypeOK
<1>13. RecoveryBookkeeping'
  BY <1>0 DEF RecoveryBookkeeping, RecoveryMapsAgree, RecoveriesOutstanding, TypeOK
<1> QED
  BY <1>4, <1>5, <1>6, <1>7, <1>8, <1>9, <1>10, <1>11, <1>12, <1>13

(* Suppressing a recovery only supersedes the stale ticket and wakes all. *)
LEMMA SuppressRecoveryIInv ==
    ASSUME IInv, NEW s \in Gen, SuppressRecovery(s)
    PROVE  IInv'
<1> USE MaxGenerationIsNat DEF SuppressRecovery, CanBeginRecovery, history, IInv
<1>0. TypeOK
  OBVIOUS
<1>1. /\ thread \in [Gen -> ThreadState] /\ thread' \in [Gen -> ThreadState]
      /\ \A g \in Gen :
            thread'[g] = IF thread[g] = "asleep" THEN "entering" ELSE thread[g]
  BY <1>0, NotifyAllWakes DEF TypeOK, NotifyAll
<1>2. TypeOK'
  <2>1. (superseded \subseteq 1 .. generation)' /\ (givenUp \subseteq 1 .. generation)'
    BY <1>0 DEF TypeOK
  <2> QED
    BY <1>0, <1>1, <2>1 DEF TypeOK
<1>3. BornInOrder' /\ HeldTickets'
  BY <1>1 DEF BornInOrder, HeldTickets, Holding
<1>4. OneWriter' /\ NoLostWakeup'
  BY <1>1 DEF OneWriter, NoLostWakeup
<1>5. EntryOrder'
  BY <1>0, <1>1 DEF EntryOrder, Eligible, CanStillEnter, TypeOK
<1>6. StaleSuperseded' /\ DrainSupersedes' /\ OperatorSupersedes' /\ OnlyGivenUpSuperseded'
  BY DEF StaleSuperseded, DrainSupersedes, OperatorSupersedes,
         OnlyGivenUpSuperseded, RoutineTickets
<1>7. RecoveryBookkeeping'
  BY DEF RecoveryBookkeeping, RecoveryMapsAgree, RecoveriesOutstanding
<1> QED
  BY <1>2, <1>3, <1>4, <1>5, <1>6, <1>7

(* A recovery is one more ticket; its stale command is superseded and the  *)
(* two maps gain one pair.                                                 *)
LEMMA IssueRecoveryIInv ==
    ASSUME IInv, NEW s \in Gen, IssueRecovery(s)
    PROVE  IInv'
<1> USE MaxGenerationIsNat
    DEF IssueRecovery, CanBeginRecovery, NewTicket, history, IInv
<1>0. /\ TypeOK
      /\ generation + 1 \in Gen
      /\ generation + 1 \notin tickets
      /\ s # generation + 1
  BY DEF TypeOK
<1>1. thread \in [Gen -> ThreadState] /\ thread' \in [Gen -> ThreadState]
  BY <1>0, NotifyAllWakes DEF TypeOK, ThreadState
<1>2. /\ thread'[generation + 1] = "reserved"
      /\ \A g \in Gen : g # generation + 1 =>
            thread'[g] = IF thread[g] = "asleep" THEN "entering" ELSE thread[g]
  BY <1>0, <1>1 DEF NotifyAll
<1>3. /\ commandClass' \in [Gen -> CommandClass]
      /\ commandClass'[generation + 1] = RECOVERY
      /\ \A g \in Gen : g # generation + 1 => commandClass'[g] = commandClass[g]
  BY <1>0 DEF TypeOK
<1>4. TypeOK'
  <2>1. /\ (generation \in GenOrNone)' /\ (tickets \subseteq 1 .. generation)'
        /\ (superseded \subseteq 1 .. generation)'
        /\ (givenUp \subseteq 1 .. generation)'
    BY <1>0 DEF TypeOK
  <2>2. (draining \in BOOLEAN)'
    BY <1>0 DEF TypeOK
  <2>3. /\ (active \in GenOrNone)' /\ (lastEntered \in GenOrNone)'
        /\ (recoveries \in [Gen -> GenOrNone])'
        /\ (recoveryForToken \in [Gen -> GenOrNone])'
    BY <1>0 DEF TypeOK
  <2> QED
    BY <1>1, <1>3, <2>1, <2>2, <2>3 DEF TypeOK
<1>5. BornInOrder'
  <2> SUFFICES ASSUME NEW g \in Gen PROVE (thread[g] = "unborn" <=> generation < g)'
    BY DEF BornInOrder
  <2>1. CASE g = generation + 1
    BY <1>0, <1>2, <2>1 DEF TypeOK
  <2>2. CASE g # generation + 1
    BY <1>0, <1>2, <2>2 DEF BornInOrder, TypeOK
  <2> QED
    BY <2>1, <2>2
<1>6. HeldTickets'
  BY <1>0, <1>2 DEF HeldTickets, Holding, TypeOK
<1>7. OneWriter'
  <2> SUFFICES ASSUME NEW g \in Gen PROVE (thread[g] = "writing" <=> active = g)'
    BY DEF OneWriter
  <2>1. CASE g = generation + 1
    BY <1>0, <1>2, <2>1 DEF OneWriter, HeldTickets, Holding, TypeOK
  <2>2. CASE g # generation + 1
    BY <1>0, <1>2, <2>2 DEF OneWriter, TypeOK
  <2> QED
    BY <2>1, <2>2
<1>8. EntryOrder'
  BY <1>0, <1>2 DEF EntryOrder, Eligible, CanStillEnter, TypeOK
<1>9. StaleSuperseded'
  BY <1>0 DEF StaleSuperseded, TypeOK
<1>10. DrainSupersedes'
  BY <1>0, <1>3 DEF DrainSupersedes, RoutineTickets, TypeOK
<1>11. OperatorSupersedes'
  BY <1>0, <1>3 DEF OperatorSupersedes, RoutineTickets, TypeOK
<1>12. OnlyGivenUpSuperseded'
  BY <1>0, <1>3 DEF OnlyGivenUpSuperseded, TypeOK
<1>13. NoLostWakeup'
  BY <1>0, <1>2 DEF NoLostWakeup
<1>14. recoveries[s] = None
  BY <1>0 DEF RecoveryOutstanding, RecoveryBookkeeping, RecoveryMapsAgree,
              RecoveriesOutstanding, TypeOK
<1>15. recoveryForToken[generation + 1] = None
  BY <1>0 DEF RecoveryBookkeeping, RecoveriesOutstanding
<1>16. RecoveryMapsAgree'
  <2> SUFFICES ASSUME NEW a \in Gen, NEW r \in Gen
               PROVE  (recoveries'[a] = r) <=> (recoveryForToken'[r] = a)
    BY DEF RecoveryMapsAgree
  <2>1. (recoveries[a] = r) <=> (recoveryForToken[r] = a)
    BY DEF RecoveryBookkeeping, RecoveryMapsAgree
  <2>2. /\ recoveries'[a] = IF a = s THEN generation + 1 ELSE recoveries[a]
        /\ recoveryForToken'[r] = IF r = generation + 1 THEN s ELSE recoveryForToken[r]
    BY <1>0 DEF TypeOK
  <2>3. CASE a = s
    BY <1>0, <1>14, <2>1, <2>2, <2>3
  <2>4. CASE a # s
    BY <1>0, <1>15, <2>1, <2>2, <2>4
  <2> QED
    BY <2>3, <2>4
<1>17. RecoveriesOutstanding'
  BY <1>0, <1>3 DEF RecoveryBookkeeping, RecoveriesOutstanding, TypeOK
<1> QED
  BY <1>4, <1>5, <1>6, <1>7, <1>8, <1>9, <1>10, <1>11, <1>12, <1>13, <1>16, <1>17
     DEF RecoveryBookkeeping

(* Entering takes the driver while it is free and it is this ticket's turn. *)
LEMMA EnterIInv ==
    ASSUME IInv, NEW e \in Gen, Enter(e)
    PROVE  IInv'
<1> USE MaxGenerationIsNat DEF Enter, history, IInv
<1>0. TypeOK /\ CanStillEnter(e) /\ CallsEnter(e) /\ e \in Eligible
  BY DEF CallsEnter, CanStillEnter, IsNext
<1>1. /\ thread \in [Gen -> ThreadState] /\ thread' \in [Gen -> ThreadState]
      /\ thread'[e] = "writing"
      /\ \A g \in Gen : g # e => thread'[g] = thread[g]
  BY <1>0 DEF TypeOK, ThreadState
<1>2. TypeOK'
  BY <1>0, <1>1 DEF TypeOK
<1>3. BornInOrder'
  <2> SUFFICES ASSUME NEW g \in Gen PROVE (thread[g] = "unborn" <=> generation < g)'
    BY DEF BornInOrder
  <2>1. CASE g = e
    BY <1>0, <1>1, <2>1 DEF BornInOrder, CallsEnter
  <2>2. CASE g # e
    BY <1>1, <2>2 DEF BornInOrder
  <2> QED
    BY <2>1, <2>2
<1>4. HeldTickets'
  BY <1>0, <1>1 DEF HeldTickets, Holding, CallsEnter
<1>5. OneWriter'
  <2> SUFFICES ASSUME NEW g \in Gen PROVE (thread[g] = "writing" <=> active = g)'
    BY DEF OneWriter
  <2>1. CASE g = e
    BY <1>1, <2>1
  <2>2. CASE g # e
    BY <1>1, <2>2 DEF OneWriter
  <2> QED
    BY <2>1, <2>2
<1>6. EntryOrder'
  <2>1. e <= generation
    BY <1>0 DEF TypeOK
  <2>2. ASSUME NEW g \in Eligible, CanStillEnter(g)' PROVE e < g
    <3>1. g \in Gen /\ g # e
      BY <1>0, <1>1, <2>2 DEF Eligible, CanStillEnter, TypeOK
    <3> QED
      BY <1>0, <3>1, <2>2 DEF IsNext
  <2> QED
    BY <2>1, <2>2 DEF EntryOrder, Eligible
<1>7. StaleSuperseded' /\ DrainSupersedes' /\ OperatorSupersedes' /\ OnlyGivenUpSuperseded'
  BY DEF StaleSuperseded, DrainSupersedes, OperatorSupersedes,
         OnlyGivenUpSuperseded, RoutineTickets
<1>8. NoLostWakeup'
  BY <1>1 DEF NoLostWakeup, Eligible
<1>9. RecoveryBookkeeping'
  BY DEF RecoveryBookkeeping, RecoveryMapsAgree, RecoveriesOutstanding
<1> QED
  BY <1>2, <1>3, <1>4, <1>5, <1>6, <1>7, <1>8, <1>9

(* The three other outcomes of enter() change nothing but their thread. *)
LEMMA EnterFailsIInv ==
    ASSUME IInv, NEW e \in Gen, EnterRefused(e) \/ EnterWait(e) \/ EnterTimeout(e)
    PROVE  IInv'
<1> USE MaxGenerationIsNat DEF history, fence, IInv
<1>0. /\ TypeOK
      /\ UNCHANGED <<fence, history>>
      /\ thread[e] \in {"reserved", "entering", "asleep"}
      /\ \/ thread' = [thread EXCEPT ![e] = "refused"]
         \/ EnterWait(e) /\ thread' = [thread EXCEPT ![e] = "asleep"]
  BY DEF EnterRefused, EnterWait, EnterTimeout, CallsEnter
<1>1. /\ thread \in [Gen -> ThreadState] /\ thread' \in [Gen -> ThreadState]
      /\ thread'[e] = "refused" \/ (thread'[e] = "asleep" /\ EnterWait(e))
      /\ \A g \in Gen : g # e => thread'[g] = thread[g]
  BY <1>0 DEF TypeOK, ThreadState
<1>2. TypeOK'
  BY <1>0, <1>1 DEF TypeOK
<1>3. BornInOrder'
  <2> SUFFICES ASSUME NEW g \in Gen PROVE (thread[g] = "unborn" <=> generation < g)'
    BY DEF BornInOrder
  <2>1. CASE g = e
    BY <1>0, <1>1, <2>1 DEF BornInOrder
  <2>2. CASE g # e
    BY <1>0, <1>1, <2>2 DEF BornInOrder
  <2> QED
    BY <2>1, <2>2
<1>4. HeldTickets'
  BY <1>0, <1>1 DEF HeldTickets, Holding
<1>5. OneWriter'
  BY <1>0, <1>1 DEF OneWriter
<1>6. EntryOrder'
  BY <1>0, <1>1 DEF EntryOrder, Eligible, CanStillEnter, TypeOK
<1>7. StaleSuperseded' /\ DrainSupersedes' /\ OperatorSupersedes' /\ OnlyGivenUpSuperseded'
  BY <1>0 DEF StaleSuperseded, DrainSupersedes, OperatorSupersedes,
              OnlyGivenUpSuperseded, RoutineTickets
<1>8. NoLostWakeup'
  <2> SUFFICES ASSUME NEW g \in Gen, thread'[g] = "asleep"
               PROVE  (g \in Eligible /\ (active # None \/ ~IsNext(g)))'
    BY DEF NoLostWakeup
  <2>1. g \in Eligible /\ (active # None \/ ~IsNext(g))
    BY <1>1 DEF NoLostWakeup, EnterWait, Eligible
  <2> QED
    BY <1>0, <2>1 DEF Eligible, IsNext
<1>9. RecoveryBookkeeping'
  BY <1>0 DEF RecoveryBookkeeping, RecoveryMapsAgree, RecoveriesOutstanding
<1> QED
  BY <1>2, <1>3, <1>4, <1>5, <1>6, <1>7, <1>8, <1>9

(* Leaving frees the driver, but the ticket stays outstanding. *)
LEMMA LeaveIInv ==
    ASSUME IInv, NEW e \in Gen, Leave(e)
    PROVE  IInv'
<1> USE MaxGenerationIsNat DEF Leave, ClearActive, history, IInv
<1>0. TypeOK /\ active = e /\ active' = None
  BY DEF OneWriter
<1>1. thread \in [Gen -> ThreadState] /\ thread' \in [Gen -> ThreadState]
  BY <1>0, NotifyAllWakes DEF TypeOK, ThreadState
<1>2. /\ thread'[e] = "left"
      /\ \A g \in Gen : g # e =>
            thread'[g] = IF thread[g] = "asleep" THEN "entering" ELSE thread[g]
  BY <1>0, <1>1 DEF NotifyAll
<1>3. TypeOK'
  BY <1>0, <1>1 DEF TypeOK
<1>4. BornInOrder'
  <2> SUFFICES ASSUME NEW g \in Gen PROVE (thread[g] = "unborn" <=> generation < g)'
    BY DEF BornInOrder
  <2>1. CASE g = e
    BY <1>0, <1>2, <2>1 DEF BornInOrder
  <2>2. CASE g # e
    BY <1>2, <2>2 DEF BornInOrder
  <2> QED
    BY <2>1, <2>2
<1>5. HeldTickets'
  BY <1>2 DEF HeldTickets, Holding
<1>6. OneWriter' /\ NoLostWakeup'
  BY <1>0, <1>2 DEF OneWriter, NoLostWakeup
<1>7. EntryOrder'
  BY <1>0, <1>2 DEF EntryOrder, Eligible, CanStillEnter, TypeOK
<1>8. StaleSuperseded' /\ DrainSupersedes' /\ OperatorSupersedes' /\ OnlyGivenUpSuperseded'
  BY DEF StaleSuperseded, DrainSupersedes, OperatorSupersedes,
         OnlyGivenUpSuperseded, RoutineTickets
<1>9. RecoveryBookkeeping'
  BY DEF RecoveryBookkeeping, RecoveryMapsAgree, RecoveriesOutstanding
<1> QED
  BY <1>3, <1>4, <1>5, <1>6, <1>7, <1>8, <1>9

(* Releasing forgets the ticket everywhere; it held nothing any more. *)
LEMMA ReleaseIInv ==
    ASSUME IInv, NEW e \in Gen, Release(e)
    PROVE  IInv'
<1> USE MaxGenerationIsNat DEF Release, ClearActive, history, IInv
<1>0. TypeOK /\ active # e /\ active' = active
  BY DEF OneWriter
<1>1. thread \in [Gen -> ThreadState] /\ thread' \in [Gen -> ThreadState]
  BY <1>0, NotifyAllWakes DEF TypeOK, ThreadState
<1>2. /\ thread'[e] = "released"
      /\ \A g \in Gen : g # e =>
            thread'[g] = IF thread[g] = "asleep" THEN "entering" ELSE thread[g]
  BY <1>0, <1>1 DEF NotifyAll
<1>3. /\ \A r \in Gen : recoveryForToken'[r] =
                            IF r = e THEN None ELSE recoveryForToken[r]
      /\ recoveryForToken' \in [Gen -> GenOrNone]
  BY <1>0 DEF TypeOK
<1>4. /\ \A s \in Gen : recoveries'[s] =
                            IF s = recoveryForToken[e] THEN None ELSE recoveries[s]
      /\ recoveries' \in [Gen -> GenOrNone]
  <2>1. CASE recoveryForToken[e] = None
    BY <1>0, <2>1 DEF TypeOK
  <2>2. CASE recoveryForToken[e] # None
    BY <1>0, <2>2 DEF TypeOK
  <2> QED
    BY <2>1, <2>2
<1>5. TypeOK'
  BY <1>0, <1>1, <1>3, <1>4 DEF TypeOK
<1>6. BornInOrder'
  <2> SUFFICES ASSUME NEW g \in Gen PROVE (thread[g] = "unborn" <=> generation < g)'
    BY DEF BornInOrder
  <2>1. CASE g = e
    BY <1>0, <1>2, <2>1 DEF BornInOrder
  <2>2. CASE g # e
    BY <1>2, <2>2 DEF BornInOrder
  <2> QED
    BY <2>1, <2>2
<1>7. HeldTickets'
  BY <1>2 DEF HeldTickets, Holding
<1>8. OneWriter' /\ NoLostWakeup'
  BY <1>0, <1>2 DEF OneWriter, NoLostWakeup
<1>9. EntryOrder'
  BY <1>0, <1>2 DEF EntryOrder, Eligible, CanStillEnter, TypeOK
<1>10. StaleSuperseded' /\ DrainSupersedes' /\ OperatorSupersedes' /\ OnlyGivenUpSuperseded'
  BY DEF StaleSuperseded, DrainSupersedes, OperatorSupersedes,
         OnlyGivenUpSuperseded, RoutineTickets
<1>11. RecoveryMapsAgree'
  <2> SUFFICES ASSUME NEW s \in Gen, NEW r \in Gen
               PROVE  (recoveries'[s] = r) <=> (recoveryForToken'[r] = s)
    BY DEF RecoveryMapsAgree
  <2>1. /\ (recoveries[s] = r) <=> (recoveryForToken[r] = s)
        /\ (recoveries[s] = e) <=> (recoveryForToken[e] = s)
    BY DEF RecoveryBookkeeping, RecoveryMapsAgree
  <2>2. CASE r = e
    BY <1>3, <1>4, <2>1, <2>2
  <2>3. CASE r # e
    BY <1>3, <1>4, <2>1, <2>3
  <2> QED
    BY <2>2, <2>3
<1>12. RecoveriesOutstanding'
  BY <1>3 DEF RecoveryBookkeeping, RecoveriesOutstanding
<1> QED
  BY <1>5, <1>6, <1>7, <1>8, <1>9, <1>10, <1>11, <1>12 DEF RecoveryBookkeeping

(* Draining supersedes every routine ticket; clearing it restores nothing. *)
LEMMA DrainingIInv ==
    ASSUME IInv, MarkDraining \/ ClearDraining
    PROVE  IInv'
<1> USE MaxGenerationIsNat DEF history, IInv
<1>0. /\ TypeOK
      /\ UNCHANGED <<generation, tickets, commandClass, active, recoveries,
                     recoveryForToken, lastEntered, givenUp>>
      /\ thread' = NotifyAll(thread)
      /\ draining' \in BOOLEAN
      /\ \/ superseded' = superseded \cup RoutineTickets
         \/ draining' = FALSE /\ superseded' = superseded
  BY DEF MarkDraining, ClearDraining
<1>1. /\ thread \in [Gen -> ThreadState] /\ thread' \in [Gen -> ThreadState]
      /\ \A g \in Gen :
            thread'[g] = IF thread[g] = "asleep" THEN "entering" ELSE thread[g]
  BY <1>0, NotifyAllWakes DEF TypeOK, NotifyAll
<1>2. TypeOK'
  <2>1. RoutineTickets \subseteq tickets
    BY DEF RoutineTickets
  <2>2. superseded' \subseteq 1 .. generation
    BY <1>0, <2>1 DEF TypeOK
  <2> QED
    BY <1>0, <1>1, <2>2 DEF TypeOK
<1>3. BornInOrder' /\ HeldTickets'
  BY <1>0, <1>1 DEF BornInOrder, HeldTickets, Holding
<1>4. OneWriter' /\ NoLostWakeup'
  BY <1>0, <1>1 DEF OneWriter, NoLostWakeup
<1>5. EntryOrder'
  BY <1>0, <1>1 DEF EntryOrder, Eligible, CanStillEnter, TypeOK
<1>6. StaleSuperseded' /\ OperatorSupersedes' /\ OnlyGivenUpSuperseded'
  BY <1>0 DEF StaleSuperseded, OperatorSupersedes, OnlyGivenUpSuperseded,
              RoutineTickets
<1>7. DrainSupersedes'
  BY <1>0 DEF DrainSupersedes, RoutineTickets
<1>8. RecoveryBookkeeping'
  BY <1>0 DEF RecoveryBookkeeping, RecoveryMapsAgree, RecoveriesOutstanding
<1> QED
  BY <1>2, <1>3, <1>4, <1>5, <1>6, <1>7, <1>8

LEMMA StutterIInv ==
    ASSUME IInv, UNCHANGED vars
    PROVE  IInv'
  BY DEF IInv, vars, fence, history, TypeOK, BornInOrder, HeldTickets, OneWriter,
         EntryOrder, Eligible, CanStillEnter, StaleSuperseded, DrainSupersedes,
         OperatorSupersedes, RoutineTickets, OnlyGivenUpSuperseded, NoLostWakeup,
         IsNext, RecoveryBookkeeping, RecoveryMapsAgree, RecoveriesOutstanding

(* No step of the fence's API or of a ticket's holder breaks IInv. *)
LEMMA NextIInv == IInv /\ [Next]_vars => IInv'
<1> SUFFICES ASSUME IInv, [Next]_vars PROVE IInv'
  OBVIOUS
<1>1. CASE \E cls \in ReservedClass : Reserve(cls)
  BY <1>1, ReserveIInv
<1>2. CASE AdmitRoutine
  BY <1>2, AdmitRoutineIInv
<1>3. CASE \E g \in Gen : BeginRecovery(g)
  BY <1>3, SuppressRecoveryIInv, IssueRecoveryIInv DEF BeginRecovery
<1>4. CASE \E g \in Gen : Holder(g)
  <2> PICK g \in Gen : Holder(g)
    BY <1>4
  <2>1. CASE Enter(g)
    BY <2>1, EnterIInv
  <2>2. CASE EnterRefused(g) \/ EnterWait(g) \/ EnterTimeout(g)
    BY <2>2, EnterFailsIInv
  <2>3. CASE Leave(g)
    BY <2>3, LeaveIInv
  <2>4. CASE Release(g)
    BY <2>4, ReleaseIInv
  <2> QED
    BY <2>1, <2>2, <2>3, <2>4 DEF Holder
<1>5. CASE MarkDraining \/ ClearDraining
  BY <1>5, DrainingIInv
<1>6. CASE UNCHANGED vars
  BY <1>6, StutterIInv
<1> QED
  BY <1>1, <1>2, <1>3, <1>4, <1>5, <1>6 DEF Next

(* The strengthening is an invariant of every behaviour of the fence. *)
THEOREM FenceInvariant == Spec => []IInv
<1>1. IInv /\ [Next]_vars => IInv'
  BY NextIInv
<1> QED
  BY InitIInv, <1>1, PTL DEF Spec

(* Types, mutual exclusion at the driver, no lost wake-up, and recovery    *)
(* bookkeeping that never outlives its ticket.                             *)
THEOREM FenceSafe == Spec => [](TypeOK /\ OneWriter /\ NoLostWakeup /\ RecoveryBookkeeping)
<1>1. IInv => TypeOK /\ OneWriter /\ NoLostWakeup /\ RecoveryBookkeeping
  BY DEF IInv
<1> QED
  BY FenceInvariant, <1>1, PTL
-----------------------------------------------------------------------------
(* The way a thread's state changes is the way its holder acts: a thread   *)
(* starts writing only through Enter and is refused only inside enter().   *)
LEMMA ThreadMoves ==
    ASSUME IInv, [Next]_vars, NEW g \in Gen
    PROVE  /\ Starts(g) => Enter(g)
           /\ thread[g] # "refused" /\ thread'[g] = "refused"
                => EnterRefused(g) \/ EnterTimeout(g)
<1>0. thread \in [Gen -> ThreadState]
  BY DEF IInv, TypeOK
<1>1. \A h \in Gen : NotifyAll(thread)[h] =
                        IF thread[h] = "asleep" THEN "entering" ELSE thread[h]
  BY DEF NotifyAll
<1>2. NotifyAll(thread) \in [Gen -> ThreadState]
  BY <1>0, NotifyAllWakes
<1>3. CASE \E cls \in ReservedClass : Reserve(cls)
  BY <1>0, <1>1, <1>2, <1>3 DEF Reserve, Starts
<1>4. CASE AdmitRoutine
  BY <1>0, <1>4 DEF AdmitRoutine, Starts
<1>5. CASE \E s \in Gen : BeginRecovery(s)
  BY <1>0, <1>1, <1>2, <1>5
     DEF BeginRecovery, SuppressRecovery, IssueRecovery, Starts
<1>6. CASE \E h \in Gen : Holder(h)
  <2> PICK h \in Gen : Holder(h)
    BY <1>6
  <2>1. CASE Enter(h)
    BY <1>0, <2>1 DEF Enter, Starts
  <2>2. CASE EnterRefused(h)
    BY <1>0, <2>2 DEF EnterRefused, Starts
  <2>3. CASE EnterWait(h)
    BY <1>0, <2>3 DEF EnterWait, Starts
  <2>4. CASE EnterTimeout(h)
    BY <1>0, <2>4 DEF EnterTimeout, Starts
  <2>5. CASE Leave(h)
    BY <1>0, <1>1, <1>2, <2>5 DEF Leave, Starts
  <2>6. CASE Release(h)
    BY <1>0, <1>1, <1>2, <2>6 DEF Release, Starts
  <2> QED
    BY <2>1, <2>2, <2>3, <2>4, <2>5, <2>6 DEF Holder
<1>7. CASE MarkDraining \/ ClearDraining
  BY <1>1, <1>7 DEF MarkDraining, ClearDraining, Starts
<1>8. CASE UNCHANGED vars
  BY <1>8 DEF vars, Starts
<1> QED
  BY <1>3, <1>4, <1>5, <1>6, <1>7, <1>8 DEF Next

(* No routine starts once a newer operator or shutdown command is issued:  *)
(* OperatorSupersedes keeps every such routine out of enter().             *)
THEOREM OperatorFirst == Spec => OperatorNotOvertaken
<1>1. ASSUME IInv, [Next]_vars
      PROVE  \A g \in Gen : Starts(g) /\ commandClass[g] = ROUTINE =>
                \A h \in g + 1 .. generation :
                    commandClass[h] \notin {OVERRIDE, SHUTDOWN}
  <2> SUFFICES ASSUME NEW g \in Gen, Starts(g), commandClass[g] = ROUTINE,
                      NEW h \in g + 1 .. generation
               PROVE  commandClass[h] \notin {OVERRIDE, SHUTDOWN}
    OBVIOUS
  <2>1. Enter(g)
    BY <1>1, ThreadMoves
  <2>2. g \in RoutineTickets /\ g \notin superseded
    BY <2>1 DEF Enter, RoutineTickets
  <2> QED
    BY <1>1, <2>2 DEF IInv, OperatorSupersedes
<1> QED
  BY <1>1, FenceInvariant, PTL DEF Spec, OperatorNotOvertaken

(* A command given up by its cycle never starts: its ticket, while it has  *)
(* one, is superseded.                                                     *)
THEOREM StaleStaysOut == Spec => StaleNeverStarts
<1>1. ASSUME IInv, [Next]_vars
      PROVE  \A g \in givenUp : ~Starts(g)
  <2> SUFFICES ASSUME NEW g \in givenUp, Starts(g) PROVE FALSE
    OBVIOUS
  <2>1. g \in Gen
    BY <1>1, MaxGenerationIsNat DEF IInv, TypeOK
  <2>2. Enter(g)
    BY <1>1, <2>1, ThreadMoves
  <2> QED
    BY <1>1, <2>2 DEF Enter, IInv, StaleSuperseded
<1> QED
  BY <1>1, FenceInvariant, PTL DEF Spec, StaleNeverStarts

(* Overrides and recoveries are refused only after being given up. *)
THEOREM OperatorKept == Spec => OperatorNeverDropped
<1>1. ASSUME IInv, [Next]_vars
      PROVE  \A g \in Gen :
                /\ thread[g] # "refused" /\ thread'[g] = "refused"
                /\ commandClass[g] \in {OVERRIDE, RECOVERY}
                => g \in givenUp
  <2> SUFFICES ASSUME NEW g \in Gen,
                      thread[g] # "refused", thread'[g] = "refused",
                      commandClass[g] \in {OVERRIDE, RECOVERY}
               PROVE  g \in givenUp
    OBVIOUS
  <2>1. EnterRefused(g)
    BY <1>1, ThreadMoves DEF EnterTimeout
  <2>2. g \in tickets
    BY <1>1, <2>1 DEF EnterRefused, CallsEnter, IInv, HeldTickets, Holding
  <2> QED
    BY <1>1, <2>1, <2>2 DEF EnterRefused, IInv, OnlyGivenUpSuperseded
<1> QED
  BY <1>1, FenceInvariant, PTL DEF Spec, OperatorNeverDropped

(* A draining fence lets no routine command start. *)
THEOREM DrainQuiet == Spec => DrainStopsRoutine
<1>1. ASSUME IInv, [Next]_vars
      PROVE  \A g \in Gen : Starts(g) /\ draining => commandClass[g] # ROUTINE
  <2> SUFFICES ASSUME NEW g \in Gen, Starts(g), draining, commandClass[g] = ROUTINE
               PROVE  FALSE
    OBVIOUS
  <2>1. Enter(g)
    BY <1>1, ThreadMoves
  <2> QED
    BY <1>1, <2>1 DEF Enter, IInv, DrainSupersedes, RoutineTickets
<1> QED
  BY <1>1, FenceInvariant, PTL DEF Spec, DrainStopsRoutine

(* The fence implements OrderedWriter: Enter is Start, Leave is Finish, a  *)
(* new ticket is Issue, and everything else stutters.                      *)
THEOREM Refinement == Spec => OrderedWriting
<1> USE MaxGenerationIsNat
<1>1. Init => Writer!Init
  BY DEF Init, Writer!Init
<1>2. ASSUME IInv, [Next]_vars
      PROVE  [Writer!Next]_(Writer!vars)
  <2> USE DEF Writer!Next, Writer!vars, Writer!Issue, Writer!Start, Writer!Finish,
              history
  <2>0. TypeOK
    BY <1>2 DEF IInv
  <2>1. CASE \E cls \in ReservedClass : Reserve(cls)
    BY <2>1 DEF Reserve, NewTicket
  <2>2. CASE AdmitRoutine
    BY <2>2 DEF AdmitRoutine, NewTicket
  <2>3. CASE \E g \in Gen : BeginRecovery(g)
    BY <2>3 DEF BeginRecovery, SuppressRecovery, IssueRecovery, NewTicket
  <2>4. CASE \E g \in Gen : Holder(g)
    <3> PICK g \in Gen : Holder(g)
      BY <2>4
    <3>1. CASE Enter(g)
      <4>1. g \in 1 .. generation
        BY <2>0, <3>1 DEF Enter, TypeOK
      <4>2. lastEntered < g
        BY <1>2, <3>1 DEF Enter, IInv, EntryOrder, Eligible, CallsEnter, CanStillEnter
      <4> QED
        BY <3>1, <4>1, <4>2 DEF Enter
    <3>2. CASE EnterRefused(g) \/ EnterWait(g) \/ EnterTimeout(g)
      BY <3>2 DEF EnterRefused, EnterWait, EnterTimeout, fence
    <3>3. CASE Leave(g)
      <4>1. active = g
        BY <1>2, <3>3 DEF Leave, IInv, OneWriter
      <4> QED
        BY <3>3, <4>1 DEF Leave, ClearActive
    <3>4. CASE Release(g)
      <4>1. active # g
        BY <1>2, <3>4 DEF Release, IInv, OneWriter
      <4> QED
        BY <3>4, <4>1 DEF Release, ClearActive
    <3> QED
      BY <3>1, <3>2, <3>3, <3>4 DEF Holder
  <2>5. CASE MarkDraining \/ ClearDraining
    BY <2>5 DEF MarkDraining, ClearDraining
  <2>6. CASE UNCHANGED vars
    BY <2>6 DEF vars, fence
  <2> QED
    BY <1>2, <2>1, <2>2, <2>3, <2>4, <2>5, <2>6 DEF Next
<1> QED
  BY <1>1, <1>2, FenceInvariant, PTL DEF Spec, OrderedWriting, Writer!Spec
=============================================================================
