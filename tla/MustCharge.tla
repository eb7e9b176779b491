------------------------------ MODULE MustCharge ------------------------------
(***************************************************************************)
(* The resident's must-charge override and the plan that carries it.  The  *)
(* override lives twice: in memory, where the planner reads it, and in the *)
(* key-value store, from which a restart rebuilds it.  The requests that   *)
(* set and cancel it and the settling of one that has ended are tasks of   *)
(* the event loop (src/ems/web/api.py), suspended at every store write.    *)
(* The plan is built once per coalescing window, under plan_lock, and kept *)
(* under a key that names the override (src/ems/control/service.py,        *)
(* plan_with_recovery); worker threads and the loop ask for it, and when   *)
(* the key fits they take it without the lock.                             *)
(*                                                                         *)
(* The model lives in one window: in the next one every key is new, and no *)
(* reading of the battery is taken twice in one.                           *)
(*                                                                         *)
(* An override is known by its creation time, a number that never returns. *)
(***************************************************************************)
EXTENDS Integers, FiniteSets

CONSTANTS
    Tasks,              \* requests and settlings under way at once
    Threads,            \* worker threads that ask for the plan
    MaxPosts,           \* bound: overrides created
    MaxTroubles         \* bound: failed writes and restarts

ASSUME MustChargeAssumption ==
    /\ {MaxPosts, MaxTroubles} \subseteq Nat
    /\ {"free", "loop"} \intersect Threads = {}

None == 0
Posts == 1 .. MaxPosts
Levels == {"low", "full", "unknown"}        \* state of charge against the target

VARIABLES
    rec,                \* must_charge_box
    stored,             \* the rows of the override in the key-value store
    posts,              \* overrides created so far
    ended,              \* those whose deadline has passed
    soc, reread,        \* the battery's level, and whether it was read anew
    memo,               \* plan_cache
    lock,               \* who holds plan_lock
    task, asker,
    troubles,
    since,              \* what was in force all the time since a thread asked
    misplanned,         \* a thread was given a plan without the override in force
    cancelled           \* a cancel returned, and no request was made since it began

override == <<rec, stored, posts>>
world == <<ended, soc, reread>>
ghosts == <<since, misplanned, cancelled>>
vars == <<override, world, memo, lock, task, asker, troubles, ghosts>>

NoPlan == -1
Idle == [at |-> "idle", kind |-> "none", rec |-> None, alone |-> FALSE]
NoKey == [at |-> "nothing", rec |-> None]
Resting == [at |-> "idle", key |-> NoKey, plan |-> NoPlan]
NoMemo == [key |-> NoKey, plan |-> NoPlan]

\* engages and end_cause; an unknown level neither ends it nor charges.
Ends(r) == soc = "full" \/ r \in ended
Engages(r) == soc = "low" /\ r \notin ended

\* What the planner is asked to charge for now.
InForce == IF rec # None /\ Engages(rec) THEN rec ELSE None

(* Mutant: the key does not name the override. *)
MutKey == [at |-> "window", rec |-> None]

\* _resident_override_token; the window is part of the key too.
Key ==
    [rec |-> rec,
     at |-> IF rec = None THEN "none" ELSE IF Ends(rec) THEN "ended"
            ELSE IF Engages(rec) THEN "active" ELSE "idle"]

Init ==
    /\ rec = None /\ stored = None /\ posts = 0
    /\ ended = {} /\ soc = "low" /\ reread = FALSE
    /\ memo = NoMemo /\ lock = "free"
    /\ task = [t \in Tasks |-> Idle] /\ asker = [a \in Threads |-> Resting]
    /\ troubles = 0
    /\ since = [a \in Threads |-> None] /\ misplanned = FALSE /\ cancelled = FALSE

\* What was in force ever since a thread asked.
Noted == since' = [a \in Threads |-> IF since[a] = InForce' THEN since[a] ELSE None]
-----------------------------------------------------------------------------
(* The tasks of the loop.  invalidate_plan_cache waits for plan_lock on    *)
(* the loop itself: meanwhile no other task moves.                         *)

Blocked == \E t \in Tasks : task[t].at \in {"lock", "clear_key", "clear_plan"}
Goes(t, place) == task' = [task EXCEPT ![t].at = place]
Ready(t, place) == task[t].at = place /\ ~Blocked

StoreOp(ok) ==
    /\ ~ok => troubles < MaxTroubles
    /\ troubles' = IF ok THEN troubles ELSE troubles + 1

\* set_must_charge, up to its write: there must be a reading.
Post(t) ==
    /\ Ready(t, "idle") /\ soc # "unknown" /\ posts < MaxPosts
    /\ posts' = posts + 1
    /\ task' = [u \in Tasks |->
                  IF u = t THEN [Idle EXCEPT !.at = "put", !.kind = "post", !.rec = posts + 1]
                  ELSE [task[u] EXCEPT !.alone = FALSE]]
    /\ cancelled' = FALSE
    /\ UNCHANGED <<rec, stored, world, memo, lock, asker, troubles, since, misplanned>>

Put(t, ok) ==
    /\ task[t].at = "put"
    /\ StoreOp(ok)
    /\ stored' = IF ok THEN task[t].rec ELSE stored
    /\ IF ok THEN Goes(t, "kept") ELSE task' = [task EXCEPT ![t] = Idle]
    /\ UNCHANGED <<rec, posts, world, memo, lock, asker, ghosts>>

Kept(t) ==
    /\ Ready(t, "kept")
    /\ rec' = task[t].rec
    /\ Goes(t, "lock")
    /\ UNCHANGED <<stored, posts, world, memo, lock, asker, troubles, misplanned, cancelled>>
    /\ Noted

(* Mutant: with nothing in memory there is nothing to delete. *)
MutCancel(t) ==
    /\ Ready(t, "idle")
    /\ task' = [task EXCEPT ![t] =
                  [at |-> IF rec = None THEN "deleted" ELSE "delete", kind |-> "cancel", rec |-> None,
                   alone |-> \A u \in Tasks : task[u].kind # "post"]]
    /\ UNCHANGED <<override, world, memo, lock, asker, troubles, ghosts>>

\* cancel_must_charge: the rows go first, whatever is in memory.
Cancel(t) ==
    /\ Ready(t, "idle") /\ posts > 0
    /\ task' = [task EXCEPT ![t] =
                  [at |-> "delete", kind |-> "cancel", rec |-> None,
                   alone |-> \A u \in Tasks : task[u].kind # "post"]]
    /\ UNCHANGED <<override, world, memo, lock, asker, troubles, ghosts>>

\* _settle_must_charge, at the start of a tick or of a look: memory first.
Settle(t) ==
    /\ Ready(t, "idle") /\ rec # None /\ Ends(rec)
    /\ rec' = None
    /\ task' = [task EXCEPT ![t] = [Idle EXCEPT !.at = "delete", !.kind = "settle"]]
    /\ UNCHANGED <<stored, posts, world, memo, lock, asker, troubles, misplanned, cancelled>>
    /\ Noted

Delete(t, ok) ==
    /\ task[t].at = "delete"
    /\ StoreOp(ok)
    /\ stored' = IF ok THEN None ELSE stored
    /\ IF ok THEN Goes(t, "deleted") ELSE task' = [task EXCEPT ![t] = Idle]
    /\ UNCHANGED <<rec, posts, world, memo, lock, asker, ghosts>>

Deleted(t) ==
    /\ Ready(t, "deleted")
    /\ rec' = IF task[t].kind = "cancel" THEN None ELSE rec
    /\ Goes(t, "lock")
    /\ UNCHANGED <<stored, posts, world, memo, lock, asker, troubles, misplanned, cancelled>>
    /\ Noted

\* invalidate_plan_cache: the key first, then the plan.
Lock(t) ==
    /\ task[t].at = "lock" /\ lock = "free"
    /\ lock' = "loop" /\ Goes(t, "clear_key")
    /\ UNCHANGED <<override, world, memo, asker, troubles, ghosts>>

ClearKey(t) ==
    /\ task[t].at = "clear_key"
    /\ memo' = [memo EXCEPT !.key = NoKey] /\ Goes(t, "clear_plan")
    /\ UNCHANGED <<override, world, lock, asker, troubles, ghosts>>

\* The audit row that follows changes nothing here: the request is answered.
ClearPlan(t) ==
    /\ task[t].at = "clear_plan"
    /\ memo' = NoMemo /\ lock' = "free"
    /\ task' = [task EXCEPT ![t] = Idle]
    /\ cancelled' = (cancelled \/ (task[t].kind = "cancel" /\ task[t].alone))
    /\ UNCHANGED <<override, world, asker, troubles, since, misplanned>>
-----------------------------------------------------------------------------
(* plan_with_recovery, on a worker thread.                                 *)

Given(a, plan) ==
    /\ asker' = [asker EXCEPT ![a] = Resting]
    /\ misplanned' = (misplanned \/ (since[a] # None /\ plan \notin {since[a], NoPlan}))
    /\ since' = [since EXCEPT ![a] = None]
    /\ UNCHANGED cancelled

Ask(a) ==
    /\ asker[a].at = "idle"
    /\ asker' = [asker EXCEPT ![a] = [Resting EXCEPT !.key = Key,
                    !.at = IF memo.key = Key THEN "take" ELSE "want"]]
    /\ since' = [since EXCEPT ![a] = InForce]
    /\ UNCHANGED <<override, world, memo, lock, task, troubles, misplanned, cancelled>>

\* The key fitted a moment ago; the plan is taken as it is now.
Take(a) ==
    /\ asker[a].at = "take"
    /\ Given(a, memo.plan)
    /\ UNCHANGED <<override, world, memo, lock, task, troubles>>

\* Under the lock: another thread may have built it meanwhile.
Want(a) ==
    /\ asker[a].at = "want" /\ lock = "free"
    /\ IF memo.key = asker[a].key
       THEN Given(a, memo.plan) /\ UNCHANGED lock
       ELSE /\ lock' = a /\ asker' = [asker EXCEPT ![a].at = "build"]
            /\ UNCHANGED ghosts
    /\ UNCHANGED <<override, world, memo, task, troubles>>

\* build_plan_now: no plan without a reading; the first one after backup
\* prices drops what is kept.
Build(a, recovered) ==
    /\ asker[a].at = "build"
    /\ memo' = IF recovered THEN NoMemo ELSE memo
    /\ IF soc = "unknown"
       THEN Given(a, NoPlan) /\ lock' = "free"
       ELSE /\ asker' = [asker EXCEPT ![a].at = "publish", ![a].plan = InForce]
            /\ UNCHANGED <<lock, ghosts>>
    /\ UNCHANGED <<override, world, task, troubles>>

\* The plan is published before its key.
PublishPlan(a) ==
    /\ asker[a].at = "publish"
    /\ memo' = [memo EXCEPT !.plan = asker[a].plan]
    /\ asker' = [asker EXCEPT ![a].at = "publish_key"]
    /\ UNCHANGED <<override, world, lock, task, troubles, ghosts>>

PublishKey(a) ==
    /\ asker[a].at = "publish_key"
    /\ memo' = [memo EXCEPT !.key = asker[a].key] /\ lock' = "free"
    /\ Given(a, asker[a].plan)
    /\ UNCHANGED <<override, world, task, troubles>>
-----------------------------------------------------------------------------
(* Time, the battery and restarts.                                         *)

\* The battery is read once in a window at most.
Reading(level) ==
    /\ ~reread /\ level # soc
    /\ soc' = level /\ reread' = TRUE
    /\ UNCHANGED <<override, ended, memo, lock, task, asker, troubles, misplanned, cancelled>>
    /\ Noted

Deadline(r) ==
    /\ r \in {rec, stored} \ {None} /\ r \notin ended
    /\ ended' = ended \union {r}
    /\ UNCHANGED <<override, soc, reread, memo, lock, task, asker, troubles, misplanned, cancelled>>
    /\ Noted

\* The process dies, and the next one reads the rows.
Restart ==
    /\ troubles < MaxTroubles /\ troubles' = troubles + 1
    /\ rec' = stored
    /\ memo' = NoMemo /\ lock' = "free"
    /\ task' = [t \in Tasks |-> Idle] /\ asker' = [a \in Threads |-> Resting]
    /\ since' = [a \in Threads |-> None]
    /\ UNCHANGED <<stored, posts, world, misplanned, cancelled>>

Next ==
    \/ \E t \in Tasks :
          \/ Post(t) \/ Kept(t) \/ Cancel(t) \/ Settle(t) \/ Deleted(t)
          \/ Lock(t) \/ ClearKey(t) \/ ClearPlan(t)
          \/ \E ok \in BOOLEAN : Put(t, ok) \/ Delete(t, ok)
    \/ \E a \in Threads :
          \/ Ask(a) \/ Take(a) \/ Want(a) \/ PublishPlan(a) \/ PublishKey(a)
          \/ \E recovered \in BOOLEAN : Build(a, recovered)
    \/ Restart
    \/ \E level \in Levels : Reading(level)
    \/ \E r \in Posts : Deadline(r)

Spec == Init /\ [][Next]_vars
-----------------------------------------------------------------------------
\* A thread that asks while one override is in force, from its asking to its
\* answer, is given a plan for that override: whoever built it, for whatever
\* key, before or while the caches are cleared (plan_with_recovery takes a plan
\* without the lock when its key fits).
OverrideIsPlanned == ~misplanned

\* A cancel that was answered and met no other request is final: the override
\* is neither in memory nor in the store, now and after any restart.
CancelIsFinal == cancelled => rec = None /\ stored = None

\* docs/control-model.md on POST /api/override/must-charge: it stores the
\* override in the KV.  With no task under way memory and the store agree.
StoredIsInForce == (\A t \in Tasks : task[t].at = "idle") => rec = stored
-----------------------------------------------------------------------------
(* The inductive invariant behind the first two (proved in Caches_proofs). *)
Recs == Posts \union {None}
Plans == Recs \union {NoPlan}
Keys == [at : {"nothing", "none", "ended", "active", "idle"}, rec : Recs]

MTypeOK ==
    /\ rec \in Recs /\ stored \in Recs /\ posts \in 0 .. MaxPosts
    /\ ended \subseteq Posts /\ soc \in Levels /\ reread \in BOOLEAN
    /\ memo \in [key : Keys, plan : Plans]
    /\ task \in [Tasks -> [at : {"idle", "put", "kept", "delete", "deleted", "lock",
                                 "clear_key", "clear_plan"},
                           kind : {"none", "post", "cancel", "settle"},
                           rec : Recs, alone : BOOLEAN]]
    /\ asker \in [Threads -> [at : {"idle", "take", "want", "build", "publish", "publish_key"},
                              key : Keys, plan : Plans]]
    /\ troubles \in Nat
    /\ since \in [Threads -> Recs] /\ misplanned \in BOOLEAN /\ cancelled \in BOOLEAN

Posting(t) == task[t].at \in {"put", "kept"}
Builds(a) == asker[a].at \in {"build", "publish", "publish_key"}
Publishes(a) == asker[a].at \in {"publish", "publish_key"}
Active(r) == [at |-> "active", rec |-> r]

\* An override that is still to come into memory is one that no key names and
\* that was never there: an override that went does not come back.
PostsAreNew ==
    /\ rec <= posts /\ stored <= posts
    /\ memo.key.rec <= posts /\ \A a \in Threads : asker[a].key.rec <= posts
    /\ \A t \in Tasks : Posting(t) =>
          /\ task[t].kind = "post"
          /\ task[t].rec \in 1 .. posts /\ task[t].rec # rec
          /\ task[t].rec # memo.key.rec /\ \A a \in Threads : task[t].rec # asker[a].key.rec
          /\ \A u \in Tasks : Posting(u) /\ task[u].rec = task[t].rec => u = t
    /\ ~reread => soc = "low"

Clears(t) == task[t].at \in {"clear_key", "clear_plan"}
OneBuilder ==
    /\ \A a \in Threads :
          /\ Builds(a) => lock = a
          /\ asker[a].at = "publish_key" => memo.plan \in {asker[a].plan, NoPlan}
    /\ \A t \in Tasks : Clears(t) =>
          lock = "loop" /\ \A u \in Tasks : Clears(u) => u = t

\* A plan made before what is now in force is not filed under its key.
PlansAreFiled ==
    LET r == InForce
    IN  r # None =>
            /\ memo.key = Active(r) => memo.plan \in {r, NoPlan}
            /\ \A b \in Threads : Publishes(b) /\ asker[b].plan # r =>
                  asker[b].key # Active(r) /\ memo.key # Active(r)

\* Who asked with this override in force will be given its plan, also one who
\* takes it without the lock.
AskersWillSee ==
    \A a \in Threads : since[a] # None =>
        /\ since[a] = InForce /\ asker[a].at # "idle" /\ asker[a].key = Active(since[a])
        /\ asker[a].at = "take" =>
              /\ memo.plan \in {since[a], NoPlan}
              /\ \A b \in Threads : Publishes(b) => asker[b].plan = since[a]

NoPostUnderWay == \A t \in Tasks : task[t].kind # "post"

CancelsTakeHold ==
    /\ cancelled => NoPostUnderWay /\ rec = None /\ stored = None
    /\ \A t \in Tasks : task[t].kind = "cancel" /\ task[t].alone =>
          /\ NoPostUnderWay
          /\ task[t].at # "delete" => stored = None
          /\ task[t].at \notin {"delete", "deleted"} => rec = None

MInv ==
    /\ MTypeOK /\ PostsAreNew /\ OneBuilder /\ PlansAreFiled /\ AskersWillSee /\ CancelsTakeHold
    /\ OverrideIsPlanned
=============================================================================
