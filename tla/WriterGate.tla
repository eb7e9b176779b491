----------------------------- MODULE WriterGate -----------------------------
(***************************************************************************)
(* The cross-store SQLite writer gate (src/ems/storage/sqlite_guard.py):   *)
(* one writer per database file, with control_state ahead of the rest.     *)
(*                                                                         *)
(* Two kinds of writers share it.  A thread writer (control_state, cache,  *)
(* checkpoint: run_sync_write) blocks in acquire() itself.  A task writer  *)
(* (history, audit, settings: run_async_write around _write_conn) first    *)
(* takes its store's asyncio lock and then lets a pool thread block in     *)
(* acquire() for it, which nobody can cancel: a task that is cancelled     *)
(* must wait for that thread and give the gate back.                       *)
(*                                                                         *)
(* write[w], the writer:                                                   *)
(*   idle -> (queued ->) acquiring -> writing -> idle | backoff            *)
(*   backoff -> (queued ->) acquiring; a cancelled task goes from          *)
(*   acquiring to unwinding and only then to idle.                         *)
(* call[w], the acquire() made for it, blocked in Condition.wait() when    *)
(* asleep:  none -> calling -> (asleep <-> awake) -> returned -> none      *)
(***************************************************************************)
EXTENDS Naturals, FiniteSets

CONSTANTS
    Threads,         \* thread writers
    Critical,        \* those that pass critical=True: control_state
    Stores,          \* stores with a shared connection and an asyncio lock
    Tasks,           \* task writers
    StoreOf,         \* the store each task writes to
    Attempts,        \* LOCK_ATTEMPTS
    MaxCancels       \* bound on the cancellations one write meets

ASSUME WritersAreKnown ==
    /\ IsFiniteSet(Threads) /\ IsFiniteSet(Tasks)
    /\ Threads \cap Tasks = {}
    /\ Critical \subseteq Threads
    /\ StoreOf \in [Tasks -> Stores]

ASSUME BoundsAreNat == Attempts \in Nat \ {0} /\ MaxCancels \in Nat

Writers == Threads \cup Tasks

VARIABLES
    held,              \* _held
    criticalWaiting,   \* _critical_waiting
    call,              \* progress of the acquire() made for each writer
    write,             \* progress of each writer
    attempt,           \* attempts its write has made
    cancels            \* cancellations its write has met

gate == <<held, criticalWaiting, call>>
vars == <<gate, write, attempt, cancels>>

Init ==
    /\ held = FALSE
    /\ criticalWaiting = 0
    /\ call = [w \in Writers |-> "none"]
    /\ write = [w \in Writers |-> "idle"]
    /\ attempt = [w \in Writers |-> 0]
    /\ cancels = [w \in Writers |-> 0]
-----------------------------------------------------------------------------
(* The gate                                                                *)

Count(w) == IF w \in Critical THEN 1 ELSE 0

(* Mutant: critical writers have no priority.                             *)
MutMustWait(w, n) == held

(* The condition of acquire()'s loop, with n critical writers counted.     *)
MustWait(w, n) == held \/ (w \notin Critical /\ n > 0)

(* One pass of the loop, the writer itself counted when it is critical: it *)
(* returns with the gate and is no longer counted, or it sleeps.           *)
Test(w, n) ==
    IF MustWait(w, n)
    THEN /\ call' = [call EXCEPT ![w] = "asleep"]
         /\ criticalWaiting' = n
         /\ UNCHANGED held
    ELSE /\ call' = [call EXCEPT ![w] = "returned"]
         /\ criticalWaiting' = n - Count(w)
         /\ held' = TRUE

Acquire(w) ==
    /\ \/ call[w] = "calling" /\ Test(w, criticalWaiting + Count(w))
       \/ call[w] = "awake"   /\ Test(w, criticalWaiting)
    /\ UNCHANGED <<write, attempt, cancels>>

(* release() by the writer w, which notifies every waiter. *)
GiveBack(w) ==
    /\ held' = FALSE
    /\ call' = [v \in Writers |->
                  IF v = w THEN "none"
                  ELSE IF call[v] = "asleep" THEN "awake" ELSE call[v]]
    /\ UNCHANGED criticalWaiting
-----------------------------------------------------------------------------
(* A write and its attempts                                                *)

(* A task that left an acquire behind writes no more under its old name.   *)
StartWrite(w) ==
    /\ write[w] = "idle"
    /\ call[w] = "none"
    /\ attempt' = [attempt EXCEPT ![w] = 1]
    /\ cancels' = [cancels EXCEPT ![w] = 0]
    /\ IF w \in Tasks
       THEN write' = [write EXCEPT ![w] = "queued"] /\ UNCHANGED gate
       ELSE /\ write' = [write EXCEPT ![w] = "acquiring"]
            /\ call' = [call EXCEPT ![w] = "calling"]
            /\ UNCHANGED <<held, criticalWaiting>>

HasStoreLock(t) == t \in Tasks /\ write[t] \in {"acquiring", "writing", "unwinding"}

(* async with self._write_lock, then hold_db_writer().__aenter__(). *)
TakeStoreLock(t) ==
    /\ write[t] = "queued"
    /\ \A u \in Tasks : StoreOf[u] = StoreOf[t] => ~HasStoreLock(u)
    /\ write' = [write EXCEPT ![t] = "acquiring"]
    /\ call' = [call EXCEPT ![t] = "calling"]
    /\ UNCHANGED <<held, criticalWaiting, attempt, cancels>>

BeginBody(w) ==
    /\ write[w] = "acquiring"
    /\ call[w] = "returned"
    /\ write' = [write EXCEPT ![w] = "writing"]
    /\ UNCHANGED <<gate, attempt, cancels>>

(* The body commits, or raises an error that is no lock error. *)
BodyEnds(w) ==
    /\ write[w] = "writing"
    /\ GiveBack(w)
    /\ write' = [write EXCEPT ![w] = "idle"]
    /\ UNCHANGED <<attempt, cancels>>

(* Mutant: the gate is kept during the backoff. *)
MutBodyLocked(w) ==
    /\ write[w] = "writing"
    /\ IF attempt[w] < Attempts
       THEN write' = [write EXCEPT ![w] = "backoff"] /\ UNCHANGED gate
       ELSE write' = [write EXCEPT ![w] = "idle"] /\ GiveBack(w)
    /\ UNCHANGED <<attempt, cancels>>

(* The body meets a lock of a writer outside the gate (the auth store, a   *)
(* backup): another attempt follows, or the write is given up.             *)
BodyLocked(w) ==
    /\ write[w] = "writing"
    /\ GiveBack(w)
    /\ write' = [write EXCEPT ![w] = IF attempt[w] < Attempts THEN "backoff" ELSE "idle"]
    /\ UNCHANGED <<attempt, cancels>>

(* The sleep between two attempts ends. *)
Retry(w) ==
    /\ write[w] = "backoff"
    /\ attempt' = [attempt EXCEPT ![w] = @ + 1]
    /\ IF w \in Tasks
       THEN write' = [write EXCEPT ![w] = "queued"] /\ UNCHANGED gate
       ELSE /\ write' = [write EXCEPT ![w] = "acquiring"]
            /\ call' = [call EXCEPT ![w] = "calling"]
            /\ UNCHANGED <<held, criticalWaiting>>
    /\ UNCHANGED cancels
-----------------------------------------------------------------------------
(* Cancellation of a task writer, at whichever await it is                 *)

(* Awaiting the store lock or the backoff it holds nothing; in the body it *)
(* leaves through __aexit__.                                               *)
CancelUnlocked(t) ==
    /\ write[t] \in {"queued", "backoff"}
    /\ write' = [write EXCEPT ![t] = "idle"]
    /\ UNCHANGED gate

CancelBody(t) ==
    /\ write[t] = "writing"
    /\ GiveBack(t)
    /\ write' = [write EXCEPT ![t] = "idle"]

(* Mutant: __aenter__ does not wait for the acquire it leaves behind. *)
MutCancelAcquire(t) ==
    /\ write[t] = "acquiring"
    /\ write' = [write EXCEPT ![t] = "idle"]
    /\ UNCHANGED gate

(* Awaiting acquire(), whose thread may already have returned: __aenter__  *)
(* awaits the thread once more before it lets the cancellation out.        *)
CancelAcquire(t) ==
    /\ write[t] = "acquiring"
    /\ write' = [write EXCEPT ![t] = "unwinding"]
    /\ UNCHANGED gate

(* A second cancellation ends that await too: nobody is left to release    *)
(* the gate that the thread will return with.                              *)
CancelUnwinding(t) ==
    /\ write[t] = "unwinding"
    /\ write' = [write EXCEPT ![t] = "idle"]
    /\ UNCHANGED gate

Cancel(t) ==
    /\ cancels[t] < MaxCancels
    /\ cancels' = [cancels EXCEPT ![t] = @ + 1]
    /\ \/ CancelUnlocked(t)
       \/ CancelBody(t)
       \/ CancelAcquire(t)
       \/ CancelUnwinding(t)
    /\ UNCHANGED attempt

Unwind(t) ==
    /\ write[t] = "unwinding"
    /\ call[t] = "returned"
    /\ GiveBack(t)
    /\ write' = [write EXCEPT ![t] = "idle"]
    /\ UNCHANGED <<attempt, cancels>>
-----------------------------------------------------------------------------
(* What a writer does on its own once its write has begun. *)
Proceed(w) ==
    \/ Acquire(w)
    \/ BeginBody(w)
    \/ BodyEnds(w)
    \/ BodyLocked(w)
    \/ Retry(w)

Next ==
    \/ \E w \in Writers : StartWrite(w) \/ Proceed(w)
    \/ \E t \in Tasks : TakeStoreLock(t) \/ Cancel(t) \/ Unwind(t)

Spec == Init /\ [][Next]_vars

(* Threads are scheduled, statements end (busy_timeout bounds the wait for *)
(* another connection's lock) and sleeps end.  Nothing is assumed of the   *)
(* asyncio lock of a store, nor of who asks for a write.                   *)
Fairness ==
    /\ \A w \in Writers : WF_vars(Proceed(w))
    /\ \A t \in Tasks : WF_vars(Unwind(t))

FairSpec == Spec /\ Fairness
-----------------------------------------------------------------------------
TypeOK ==
    /\ held \in BOOLEAN
    /\ criticalWaiting \in 0 .. Cardinality(Critical)
    /\ call \in [Writers -> {"none", "calling", "asleep", "awake", "returned"}]
    /\ write \in [Writers -> {"idle", "queued", "acquiring", "writing", "unwinding", "backoff"}]
    /\ attempt \in [Writers -> 0 .. Attempts]
    /\ cancels \in [Writers -> 0 .. MaxCancels]

HasGate(w) == call[w] = "returned"

(* At most one writer per database file is past acquire() (WriterGate: one *)
(* writer at a time per database file).                                    *)
OneWriterPerFile == \A v, w \in Writers : HasGate(v) /\ HasGate(w) => v = w

(* A gate that is held, or that a thread will still come back with, has a  *)
(* writer that will give it back, unless the writer was cancelled a second *)
(* time while it waited for just that (test_cancelled_async_waiter_        *)
(* releases_gate: cancellation cannot leave an acquisition holding the DB  *)
(* for ever).                                                              *)
GateHasAnOwner ==
    /\ held => \E w \in Writers : HasGate(w)
    /\ \A w \in Writers :
          call[w] # "none" => write[w] # "idle" \/ (w \in Tasks /\ cancels[w] > 1)

(* The count that keeps the others back is that of the critical writers    *)
(* that really wait: none is left behind to shut them out for ever.        *)
CriticalCounted ==
    criticalWaiting = Cardinality({w \in Critical : call[w] \in {"asleep", "awake"}})

(* Nobody sleeps through the release of the gate.                          *)
NoSleeperForgotten ==
    \A w \in Writers : call[w] = "asleep" =>
        held \/ \E v \in Critical : call[v] = "awake"

(* control_state runs ahead: no other writer gets the gate while a         *)
(* critical one waits for it.                                              *)
CriticalAhead ==
    [][\A w \in Writers \ Critical :
          ~HasGate(w) /\ HasGate(w)' => criticalWaiting = 0]_vars

(* What makes it so: each writer's place agrees with the acquire made for  *)
(* it, and a held gate is the gate of exactly one of them.                 *)
Agrees(w) ==
    /\ write[w] \in {"queued", "backoff"} => call[w] = "none"
    /\ write[w] \in {"acquiring", "unwinding"} => call[w] # "none"
    /\ write[w] = "writing" => call[w] = "returned"
    /\ write[w] \in {"queued", "unwinding"} => w \in Tasks
    /\ write[w] = "unwinding" => cancels[w] > 0
    /\ call[w] # "none" => write[w] # "idle" \/ (w \in Tasks /\ cancels[w] > 1)

IInv ==
    /\ held <=> \E w \in Writers : HasGate(w)
    /\ OneWriterPerFile
    /\ \A w \in Writers : Agrees(w)

Abandoned(t) == call[t] # "none" /\ write[t] = "idle"

(* A save of control_state ends, written or given up, however often the    *)
(* other stores write, are locked out or are cancelled meanwhile, as long  *)
(* as no acquire was abandoned.                                            *)
CriticalWriteEnds ==
    \A w \in Critical :
        write[w] # "idle" ~> (write[w] = "idle" \/ \E t \in Tasks : Abandoned(t))
=============================================================================
