-------------------------- MODULE WriterGate_proofs --------------------------
(***************************************************************************)
(* Proofs about WriterGate for any writers, stores, number of attempts and *)
(* number of cancellations.                                                *)
(*                                                                         *)
(* IInv says that every writer's place agrees with the acquire made for it *)
(* and that a held gate is the gate of exactly one writer.  Typed is the   *)
(* part of TypeOK an update of one writer's entry needs: the count of      *)
(* waiting critical writers plays no part in mutual exclusion.             *)
(***************************************************************************)
EXTENDS WriterGate, FiniteSetTheorems, TLAPS

Typed ==
    /\ held \in BOOLEAN
    /\ call \in [Writers -> {"none", "calling", "asleep", "awake", "returned"}]
    /\ write \in [Writers -> {"idle", "queued", "acquiring", "writing", "unwinding", "backoff"}]
    /\ cancels \in [Writers -> Nat]

Inv == Typed /\ IInv

LEMMA InitEstablishes == Init => Inv
<1> SUFFICES ASSUME Init PROVE Inv
  OBVIOUS
<1>1. Typed
  BY DEF Init, Typed
<1>2. \A w \in Writers : ~HasGate(w)
  BY DEF Init, HasGate
<1>3. \A w \in Writers : Agrees(w)
  BY DEF Init, Agrees
<1> QED
  BY <1>1, <1>2, <1>3 DEF Init, Inv, IInv, OneWriterPerFile

(* acquire() hands the gate out only when nobody holds it.                 *)
LEMMA AcquireKeeps ==
    ASSUME Inv, NEW w \in Writers, Acquire(w)
    PROVE  Inv'
<1> USE DEF Inv, IInv, Acquire, HasGate
<1>1. CASE call' = [call EXCEPT ![w] = "asleep"] /\ UNCHANGED <<held, write, attempt, cancels>>
  <2>1. call[w] \in {"calling", "awake"}
    OBVIOUS
  <2>2. Typed'
    BY <1>1 DEF Typed
  <2>3. \A v \in Writers : HasGate(v)' <=> HasGate(v)
    BY <1>1, <2>1 DEF Typed
  <2>4. OneWriterPerFile'
    BY <2>3 DEF OneWriterPerFile
  <2>5. \A v \in Writers : Agrees(v)'
    BY <1>1, <2>1 DEF Typed, Agrees
  <2> QED
    BY <1>1, <2>2, <2>3, <2>4, <2>5
<1>2. CASE /\ call' = [call EXCEPT ![w] = "returned"] /\ held' = TRUE /\ ~held
           /\ UNCHANGED <<write, attempt, cancels>>
  <2>1. call[w] \in {"calling", "awake"}
    OBVIOUS
  <2>2. Typed'
    BY <1>2 DEF Typed
  <2>3. \A v \in Writers : HasGate(v)' <=> v = w
    BY <1>2 DEF Typed
  <2>4. OneWriterPerFile'
    BY <2>3 DEF OneWriterPerFile
  <2>5. \A v \in Writers : Agrees(v)'
    BY <1>2, <2>1 DEF Typed, Agrees
  <2> QED
    BY <1>2, <2>2, <2>3, <2>4, <2>5
<1> QED
  BY <1>1, <1>2 DEF Test, MustWait

(* release(): the gate is free and no writer has it.                       *)
LEMMA GiveBackKeeps ==
    ASSUME Inv, NEW w \in Writers, HasGate(w), GiveBack(w),
           NEW next \in {"idle", "backoff"},
           write' = [write EXCEPT ![w] = next],
           cancels' \in [Writers -> Nat],
           \A v \in Writers : cancels'[v] >= cancels[v]
    PROVE  Inv'
<1> USE DEF Inv, IInv, GiveBack, HasGate
<1>1. Typed'
  BY DEF Typed
<1>2. \A v \in Writers : ~HasGate(v)'
  BY DEF Typed, OneWriterPerFile
<1>3. ASSUME NEW v \in Writers PROVE Agrees(v)'
  <2>1. CASE v = w
    BY <2>1 DEF Typed, Agrees
  <2>2. CASE v # w
    <3>1. /\ write'[v] = write[v]
          /\ call'[v] = IF call[v] = "asleep" THEN "awake" ELSE call[v]
      BY <2>2 DEF Typed
    <3>2. cancels[v] \in Nat /\ cancels'[v] \in Nat /\ cancels'[v] >= cancels[v]
      BY DEF Typed
    <3>3. Agrees(v)
      OBVIOUS
    <3> QED
      BY <3>1, <3>2, <3>3 DEF Agrees
  <2> QED
    BY <2>1, <2>2
<1> QED
  BY <1>1, <1>2, <1>3 DEF OneWriterPerFile

LEMMA NextPreserves == Inv /\ [Next]_vars => Inv'
<1> SUFFICES ASSUME Inv, [Next]_vars PROVE Inv'
  OBVIOUS
<1>1. ASSUME NEW w \in Writers, StartWrite(w) PROVE Inv'
  <2>1. Typed'
    BY <1>1 DEF StartWrite, gate, Inv, Typed
  <2>2. \A v \in Writers : HasGate(v)' <=> HasGate(v)
    BY <1>1 DEF StartWrite, gate, Inv, Typed, HasGate
  <2>3. \A v \in Writers : Agrees(v)'
    BY <1>1 DEF StartWrite, gate, Inv, IInv, Typed, Agrees, Writers
  <2>4. held' = held
    BY <1>1 DEF StartWrite, gate
  <2> QED
    BY <2>1, <2>2, <2>3, <2>4 DEF Inv, IInv, OneWriterPerFile
<1>2. ASSUME NEW w \in Writers, Acquire(w) PROVE Inv'
  BY <1>2, AcquireKeeps
<1>3. ASSUME NEW w \in Writers, BeginBody(w) PROVE Inv'
  <2>1. Typed'
    BY <1>3 DEF BeginBody, gate, Inv, Typed
  <2>2. \A v \in Writers : Agrees(v)'
    BY <1>3 DEF BeginBody, gate, Inv, IInv, Typed, Agrees
  <2> QED
    BY <1>3, <2>1, <2>2 DEF BeginBody, gate, Inv, IInv, OneWriterPerFile, HasGate
<1>4. ASSUME NEW w \in Writers, BodyEnds(w) \/ BodyLocked(w) PROVE Inv'
  <2>1. HasGate(w) /\ GiveBack(w) /\ cancels' = cancels
    BY <1>4 DEF BodyEnds, BodyLocked, Inv, IInv, Agrees, HasGate
  <2>2. cancels' \in [Writers -> Nat] /\ \A v \in Writers : cancels'[v] >= cancels[v]
    BY <2>1 DEF Inv, Typed
  <2>3. PICK next \in {"idle", "backoff"} : write' = [write EXCEPT ![w] = next]
    BY <1>4 DEF BodyEnds, BodyLocked
  <2> QED
    BY <2>1, <2>2, <2>3, GiveBackKeeps
<1>5. ASSUME NEW w \in Writers, Retry(w) PROVE Inv'
  <2>1. Typed'
    BY <1>5 DEF Retry, gate, Inv, Typed
  <2>2. \A v \in Writers : HasGate(v)' <=> HasGate(v)
    BY <1>5 DEF Retry, gate, Inv, IInv, Typed, HasGate, Agrees
  <2>3. \A v \in Writers : Agrees(v)'
    BY <1>5 DEF Retry, gate, Inv, IInv, Typed, Agrees
  <2>4. held' = held
    BY <1>5 DEF Retry, gate
  <2> QED
    BY <2>1, <2>2, <2>3, <2>4 DEF Inv, IInv, OneWriterPerFile
<1>6. ASSUME NEW t \in Tasks, TakeStoreLock(t) PROVE Inv'
  <2>1. Typed'
    BY <1>6 DEF TakeStoreLock, Inv, Typed, Writers
  <2>2. \A v \in Writers : HasGate(v)' <=> HasGate(v)
    BY <1>6 DEF TakeStoreLock, Inv, IInv, Typed, HasGate, Agrees, Writers
  <2>3. \A v \in Writers : Agrees(v)'
    BY <1>6 DEF TakeStoreLock, Inv, IInv, Typed, Agrees, Writers
  <2>4. held' = held
    BY <1>6 DEF TakeStoreLock
  <2> QED
    BY <2>1, <2>2, <2>3, <2>4 DEF Inv, IInv, OneWriterPerFile
<1>7. ASSUME NEW t \in Tasks, Cancel(t) PROVE Inv'
  <2>1. t \in Writers
    BY DEF Writers
  <2>2. /\ cancels' \in [Writers -> Nat]
        /\ cancels'[t] = cancels[t] + 1
        /\ \A v \in Writers : v # t => cancels'[v] = cancels[v]
        /\ \A v \in Writers : cancels'[v] >= cancels[v]
    BY <1>7, <2>1 DEF Cancel, Inv, Typed
  <2>3. CASE CancelBody(t)
    <3>1. HasGate(t)
      BY <2>1, <2>3 DEF CancelBody, Inv, IInv, Agrees, HasGate
    <3> QED
      BY <2>1, <2>2, <2>3, <3>1, GiveBackKeeps DEF CancelBody
  <2>4. CASE CancelUnlocked(t) \/ CancelAcquire(t) \/ CancelUnwinding(t)
    <3>1. Typed'
      BY <2>1, <2>2, <2>4
      DEF CancelUnlocked, CancelAcquire, CancelUnwinding, gate, Inv, Typed
    <3>2. \A v \in Writers : Agrees(v)'
      BY <1>7, <2>1, <2>2, <2>4
      DEF CancelUnlocked, CancelAcquire, CancelUnwinding, gate, Inv, IInv, Typed, Agrees
    <3> QED
      BY <2>4, <3>1, <3>2
      DEF CancelUnlocked, CancelAcquire, CancelUnwinding, gate, Inv, IInv,
          OneWriterPerFile, HasGate
  <2> QED
    BY <1>7, <2>3, <2>4 DEF Cancel
<1>8. ASSUME NEW t \in Tasks, Unwind(t) PROVE Inv'
  <2>1. t \in Writers /\ HasGate(t) /\ GiveBack(t) /\ cancels' = cancels
    BY <1>8 DEF Unwind, HasGate, Writers
  <2>2. cancels' \in [Writers -> Nat] /\ \A v \in Writers : cancels'[v] >= cancels[v]
    BY <2>1 DEF Inv, Typed
  <2> QED
    BY <1>8, <2>1, <2>2, GiveBackKeeps DEF Unwind
<1>9. CASE UNCHANGED vars
  BY <1>9 DEF vars, gate, Inv, Typed, IInv, OneWriterPerFile, HasGate, Agrees
<1> QED
  BY <1>1, <1>2, <1>3, <1>4, <1>5, <1>6, <1>7, <1>8, <1>9 DEF Next, Proceed

(* The writers and the gate always agree (sqlite_guard.py WriterGate and   *)
(* _AsyncWriter).                                                          *)
THEOREM GateInvariant == Spec => []IInv
<1>1. Init => Inv
  BY InitEstablishes
<1>2. Inv /\ [Next]_vars => Inv'
  BY NextPreserves
<1>3. Inv => IInv
  BY DEF Inv
<1> QED
  BY <1>1, <1>2, <1>3, PTL DEF Spec

(* At most one writer per database file, and a gate that is held will be   *)
(* given back, whatever is cancelled once (_AsyncWriter.__aenter__).       *)
THEOREM GateSafe == Spec => [](OneWriterPerFile /\ GateHasAnOwner)
<1>1. IInv => OneWriterPerFile /\ GateHasAnOwner
  BY DEF IInv, GateHasAnOwner, Agrees
<1> QED
  BY <1>1, GateInvariant, PTL
-----------------------------------------------------------------------------
(* The queue before the gate: the count is that of the critical writers    *)
(* that wait, and nobody sleeps without a reason.                          *)

Waiting == {w \in Critical : call[w] \in {"asleep", "awake"}}
QueueInv == CriticalCounted /\ NoSleeperForgotten

LEMMA WaitingIsCounted ==
    /\ IsFiniteSet(Waiting) /\ Cardinality(Waiting) \in Nat
    /\ Cardinality(Waiting) = 0 <=> Waiting = {}
    /\ CriticalCounted <=> criticalWaiting = Cardinality(Waiting)
<1>1. Waiting \subseteq Threads
  BY WritersAreKnown DEF Waiting
<1>2. IsFiniteSet(Waiting)
  BY <1>1, WritersAreKnown, FS_Subset
<1> QED
  BY <1>2, FS_EmptySet, FS_CardinalityType DEF CriticalCounted, Waiting

LEMMA InitQueue == Init => QueueInv
<1> SUFFICES ASSUME Init PROVE QueueInv
  OBVIOUS
<1>1. Waiting = {} /\ criticalWaiting = 0
  BY WritersAreKnown DEF Init, Waiting, Writers
<1>2. NoSleeperForgotten
  BY DEF Init, NoSleeperForgotten
<1> QED
  BY <1>1, <1>2, WaitingIsCounted, FS_EmptySet DEF QueueInv

(* A pass of acquire()'s loop counts its writer as long as it waits.       *)
LEMMA AcquireQueues ==
    ASSUME Inv, QueueInv, NEW w \in Writers, Acquire(w)
    PROVE  QueueInv'
<1> DEFINE n == IF call[w] = "calling" THEN criticalWaiting + Count(w) ELSE criticalWaiting
<1>1. Test(w, n) /\ call[w] \in {"calling", "awake"}
  BY DEF Acquire
<1>2. /\ call \in [Writers -> {"none", "calling", "asleep", "awake", "returned"}]
      /\ criticalWaiting = Cardinality(Waiting) /\ criticalWaiting \in Nat
      /\ Critical \subseteq Writers
  BY WaitingIsCounted, WritersAreKnown DEF Inv, Typed, QueueInv, Writers
<1>3. w \in Waiting <=> w \in Critical /\ call[w] = "awake"
  BY <1>1 DEF Waiting
<1>4. n = Cardinality(Waiting \union (IF w \in Critical THEN {w} ELSE {}))
  <2>1. CASE w \in Critical
    BY <1>1, <1>2, <1>3, <2>1, WaitingIsCounted, FS_AddElement DEF Count
  <2>2. CASE w \notin Critical
    BY <1>1, <1>2, <2>2 DEF Count
  <2> QED
    BY <2>1, <2>2
<1>5. CASE MustWait(w, n)
  <2>1. call' = [call EXCEPT ![w] = "asleep"] /\ criticalWaiting' = n /\ held' = held
    BY <1>1, <1>5 DEF Test
  <2>2. Waiting' = Waiting \union (IF w \in Critical THEN {w} ELSE {})
    BY <1>2, <2>1 DEF Waiting
  <2>3. CriticalCounted'
    BY <1>4, <2>1, <2>2 DEF CriticalCounted, Waiting
  <2>4. ASSUME NEW v \in Writers, call'[v] = "asleep"
        PROVE  held' \/ \E u \in Critical : call'[u] = "awake"
    <3>1. CASE held
      BY <2>1, <3>1
    <3>2. CASE ~held
      <4>1. w \notin Critical /\ n > 0
        BY <1>5, <3>2 DEF MustWait
      <4>2. Waiting # {}
        BY <1>4, <4>1, WaitingIsCounted
      <4>3. PICK u \in Critical : call[u] = "awake"
        BY <1>2, <3>2, <4>2 DEF Waiting, QueueInv, NoSleeperForgotten
      <4> QED
        BY <1>2, <2>1, <4>1, <4>3
    <3> QED
      BY <3>1, <3>2
  <2> QED
    BY <2>3, <2>4 DEF QueueInv, NoSleeperForgotten
<1>6. CASE ~MustWait(w, n)
  <2>1. call' = [call EXCEPT ![w] = "returned"] /\ criticalWaiting' = n - Count(w) /\ held' = TRUE
    BY <1>1, <1>6 DEF Test
  <2>2. Waiting' = Waiting \ {w}
    BY <1>2, <2>1 DEF Waiting
  <2>3. criticalWaiting' = Cardinality(Waiting')
    <3>1. CASE w \in Critical
      <4>1. Waiting' = (Waiting \union {w}) \ {w}
        BY <2>2
      <4>2. IsFiniteSet(Waiting \union {w})
        BY WaitingIsCounted, FS_AddElement
      <4> QED
        BY <1>4, <2>1, <3>1, <4>1, <4>2, FS_RemoveElement DEF Count
    <3>2. CASE w \notin Critical
      <4>1. Waiting' = Waiting
        BY <1>3, <2>2, <3>2
      <4> QED
        BY <1>1, <1>2, <2>1, <3>2, <4>1 DEF Count
    <3> QED
      BY <3>1, <3>2
  <2> QED
    BY <2>1, <2>3 DEF QueueInv, CriticalCounted, NoSleeperForgotten, Waiting
<1> QED
  BY <1>5, <1>6

(* release() wakes every sleeper, and those who wait go on waiting.        *)
LEMMA GiveBackQueues ==
    ASSUME Inv, QueueInv, NEW w \in Writers, HasGate(w), GiveBack(w)
    PROVE  QueueInv'
<1>1. Waiting' = Waiting
  BY WritersAreKnown DEF GiveBack, HasGate, Waiting, Writers
<1>2. NoSleeperForgotten'
  BY DEF GiveBack, NoSleeperForgotten
<1> QED
  BY <1>1, <1>2 DEF GiveBack, QueueInv, CriticalCounted, Waiting

(* Other steps leave the queue alone, or start to call acquire().          *)
LEMMA CallsQueue ==
    ASSUME Inv, QueueInv, UNCHANGED <<held, criticalWaiting>>,
           \/ call' = call
           \/ \E w \in Writers : call[w] = "none" /\ call' = [call EXCEPT ![w] = "calling"]
    PROVE  QueueInv'
<1>1. CASE call' = call
  BY <1>1 DEF QueueInv, CriticalCounted, NoSleeperForgotten
<1>2. CASE \E w \in Writers : call[w] = "none" /\ call' = [call EXCEPT ![w] = "calling"]
  <2>1. PICK w \in Writers : call[w] = "none" /\ call' = [call EXCEPT ![w] = "calling"]
    BY <1>2
  <2>2. Waiting' = Waiting
    BY <2>1, WritersAreKnown DEF Waiting, Inv, Typed, Writers
  <2>3. NoSleeperForgotten'
    BY <2>1, WritersAreKnown DEF NoSleeperForgotten, QueueInv, Inv, Typed, Writers
  <2> QED
    BY <2>2, <2>3 DEF QueueInv, CriticalCounted, Waiting
<1> QED
  BY <1>1, <1>2

LEMMA NextQueue == Inv /\ QueueInv /\ [Next]_vars => QueueInv'
<1> SUFFICES ASSUME Inv, QueueInv, [Next]_vars PROVE QueueInv'
  OBVIOUS
<1>1. ASSUME NEW w \in Writers, StartWrite(w) PROVE QueueInv'
  BY <1>1, CallsQueue DEF StartWrite, gate
<1>2. ASSUME NEW w \in Writers, Acquire(w) PROVE QueueInv'
  BY <1>2, AcquireQueues
<1>3. ASSUME NEW w \in Writers, BeginBody(w) PROVE QueueInv'
  BY <1>3, CallsQueue DEF BeginBody, gate
<1>4. ASSUME NEW w \in Writers, BodyEnds(w) \/ BodyLocked(w) PROVE QueueInv'
  <2>1. HasGate(w) /\ GiveBack(w)
    BY <1>4 DEF BodyEnds, BodyLocked, Inv, IInv, Agrees, HasGate
  <2> QED
    BY <2>1, GiveBackQueues
<1>5. ASSUME NEW w \in Writers, Retry(w) PROVE QueueInv'
  <2>1. call[w] = "none"
    BY <1>5 DEF Retry, Inv, IInv, Agrees
  <2> QED
    BY <1>5, <2>1, CallsQueue DEF Retry, gate
<1>6. ASSUME NEW t \in Tasks, TakeStoreLock(t) PROVE QueueInv'
  <2>1. t \in Writers /\ call[t] = "none"
    BY <1>6 DEF TakeStoreLock, Inv, IInv, Agrees, Writers
  <2> QED
    BY <1>6, <2>1, CallsQueue DEF TakeStoreLock
<1>7. ASSUME NEW t \in Tasks, Cancel(t) PROVE QueueInv'
  <2>1. CASE CancelBody(t)
    <3>1. t \in Writers /\ HasGate(t) /\ GiveBack(t)
      BY <2>1 DEF CancelBody, Inv, IInv, Agrees, HasGate, Writers
    <3> QED
      BY <3>1, GiveBackQueues
  <2>2. CASE CancelUnlocked(t) \/ CancelAcquire(t) \/ CancelUnwinding(t)
    BY <2>2, CallsQueue DEF CancelUnlocked, CancelAcquire, CancelUnwinding, gate
  <2> QED
    BY <1>7, <2>1, <2>2 DEF Cancel
<1>8. ASSUME NEW t \in Tasks, Unwind(t) PROVE QueueInv'
  <2>1. t \in Writers /\ HasGate(t) /\ GiveBack(t)
    BY <1>8 DEF Unwind, HasGate, Writers
  <2> QED
    BY <2>1, GiveBackQueues
<1>9. CASE UNCHANGED vars
  BY <1>9, CallsQueue DEF vars, gate
<1> QED
  BY <1>1, <1>2, <1>3, <1>4, <1>5, <1>6, <1>7, <1>8, <1>9 DEF Next, Proceed

(* Who sleeps in acquire() will be woken: the gate is held, or a critical  *)
(* writer is awake that will take it; and the count that keeps the others  *)
(* back is never left behind (_critical_waiting of WriterGate).            *)
THEOREM QueueSafe == Spec => [](CriticalCounted /\ NoSleeperForgotten)
<1>1. Inv /\ QueueInv /\ [Next]_vars => (Inv /\ QueueInv)'
  BY NextPreserves, NextQueue
<1> QED
  BY <1>1, InitEstablishes, InitQueue, PTL DEF Spec, QueueInv

(* control_state is served first: no other writer gets the gate while a    *)
(* critical one waits for it, for any number of writers of either kind.    *)
THEOREM CriticalFirst == Spec => CriticalAhead
<1>1. ASSUME Inv, QueueInv, Next, NEW w \in Writers \ Critical, ~HasGate(w), HasGate(w)'
      PROVE  criticalWaiting = 0
  <2>1. criticalWaiting \in Nat
    BY <1>1, WaitingIsCounted DEF QueueInv
  <2>2. PICK v \in Writers : Acquire(v)
    BY <1>1, WritersAreKnown
    DEF Next, Proceed, StartWrite, BeginBody, BodyEnds, BodyLocked, Retry, TakeStoreLock, Cancel,
        CancelUnlocked, CancelBody, CancelAcquire, CancelUnwinding, Unwind, GiveBack, gate, HasGate,
        Inv, Typed, Writers
  <2>3. v = w /\ ~MustWait(w, criticalWaiting + 0)
    BY <1>1, <2>1, <2>2 DEF Acquire, Test, Count, HasGate, Inv, Typed
  <2> QED
    BY <1>1, <2>1, <2>3 DEF MustWait
<1>2. ASSUME Inv, QueueInv, [Next]_vars
      PROVE  [\A w \in Writers \ Critical :
                ~HasGate(w) /\ HasGate(w)' => criticalWaiting = 0]_vars
  BY <1>1, <1>2
<1>3. Inv /\ QueueInv /\ [Next]_vars => (Inv /\ QueueInv)'
  BY NextPreserves, NextQueue
<1> QED
  BY <1>2, <1>3, InitEstablishes, InitQueue, PTL DEF Spec, CriticalAhead
=============================================================================
