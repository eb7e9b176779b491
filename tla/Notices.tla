------------------------------- MODULE Notices --------------------------------
(***************************************************************************)
(* The notification loop of the web app (src/ems/web/api.py, _notify_loop) *)
(* and what it keeps to say everything once: the rows of the notifications *)
(* table with their dedupe keys, the marks in the cache, the forecast      *)
(* ledger, and the boxes in memory that a restart empties.  A cycle looks  *)
(* at a device that may be silent, at a missed charge window, at the       *)
(* canonical day-ahead forecast, at the weekly digest and at the health of *)
(* the store.  Everything in between is an await: the process may die, the *)
(* store may break or be locked, and time goes on.                         *)
(*                                                                         *)
(* A notice is known by its dedupe key: its kind and what it is on (the    *)
(* local day, the target day, the week or the start of the incident).      *)
(***************************************************************************)
EXTENDS Integers, Sequences, FiniteSets

CONSTANTS
    Start, PerDay,      \* the tick of the first boot; ticks of a local day
    Evening, Late,      \* ticks of a day in 18:00 .. 20:00, and from 20:00 on
    Sundays,            \* days whose evening sends the digest
    Threshold,          \* silence that opens an incident, in ticks
    Stable,             \* contact that closes it
    RestoreLimit,       \* rows read to rebuild open incidents
    MaxTick, MaxFaults, MaxCrashes,     \* bounds
    MaxFound            \* bound: days with a missed charge window

ASSUME NoticesAssumption ==
    /\ {PerDay, Threshold, Stable, RestoreLimit} \subseteq Nat \ {0}
    /\ {Start, MaxTick, MaxFaults, MaxCrashes, MaxFound} \subseteq Nat /\ Start <= MaxTick
    /\ Evening \union Late \subseteq 0 .. PerDay - 1
    /\ \A e \in Evening, l \in Late : e < l

VARIABLES
    tick,
    pc,                 \* where the loop is
    lastFresh,          \* freshness: the device's last reading
    device,             \* DeviceUnreachableState with the restored flag
    success,            \* _canonical_forecast_state.last_success_date
    alerted,            \* _store_unhealthy_state.alerted_date
    rows,               \* notifications, in the order of their time stamps
    marks,              \* cache: what is remembered as done
    ledger,             \* canonical sets per target day and kind
    sending,            \* the notice in hand and where the loop goes on
    storeDown,          \* the history store cannot write or read
    faults, crashes,
    \* What really happened, for the properties.
    pushed, repeated,   \* pushes handed to ntfy, and whether one was twice
    unsaid,             \* notices the store did not take
    blind,              \* a restore that failed, or did not read every row
    misread,            \* an idempotency check of the ledger that failed
    lateDone,           \* days whose window was found closed
    crashedOn           \* days that a crash broke into

memory == <<lastFresh, device, success, alerted>>
stored == <<rows, marks, ledger>>
truth == <<pushed, repeated, unsaid, blind, misread, lateDone, crashedOn>>
vars == <<tick, pc, memory, stored, sending, storeDown, faults, crashes, truth>>

None == -1
Nothing == [kind |-> "none", on |-> None, then |-> "idle"]
Notice(kind, on) == [kind |-> kind, on |-> on]
Forgotten == [since |-> None, sent |-> FALSE, contact |-> None, restored |-> FALSE]

Day(t) == t \div PerDay
Hour(t) == t % PerDay
Days == {Day(t) + 1 : t \in 0 .. MaxTick}  \* days that have a day before
Said == {rows[i] : i \in DOMAIN rows}

Init ==
    /\ tick = Start /\ pc = "off"
    /\ lastFresh = None /\ device = Forgotten /\ success = None /\ alerted = None
    /\ rows = <<>> /\ marks = {} /\ ledger = [d \in Days |-> [load |-> 0, solar |-> 0]]
    /\ sending = Nothing /\ storeDown = FALSE
    /\ faults = 0 /\ crashes = 0
    /\ pushed = {} /\ repeated = FALSE /\ unsaid = {} /\ blind = FALSE /\ misread = FALSE
    /\ lateDone = {} /\ crashedOn = {}
-----------------------------------------------------------------------------
(* The store and the cache share a file; a write or a read of either may   *)
(* find it locked, and the history store's own connection may be dead.     *)

StoreOp(ok) ==
    /\ ok => ~storeDown
    /\ ~ok /\ ~storeDown => faults < MaxFaults
    /\ faults' = IF ok \/ storeDown THEN faults ELSE faults + 1

CacheOp(ok) ==
    /\ ~ok => faults < MaxFaults
    /\ faults' = IF ok THEN faults ELSE faults + 1

At(place) == pc = place
Goto(place) == pc' = place

\* Bound: days on which a missed charge window is caught up.
Found == {n \in Said \union unsaid \union marks : n.kind = "recovered"}
Room(notice) == notice \in Found \/ Cardinality(Found) < MaxFound

\* Notifier.send: the row first, and only a new row is pushed; the alarm
\* about the store itself is pushed without one.
SendThen(notice, place) ==
    /\ pc' = "insert"
    /\ sending' = [kind |-> notice.kind, on |-> notice.on, then |-> place]

IsNew(notice) == notice \notin Said

InsertRow(ok) ==
    LET notice == Notice(sending.kind, sending.on)
        new == ok /\ IsNew(notice)
    IN  /\ At("insert")
        /\ StoreOp(ok)
        /\ rows' = IF new THEN Append(rows, notice) ELSE rows
        /\ unsaid' = IF ok THEN unsaid ELSE unsaid \union {notice}
        /\ IF new \/ (~ok /\ notice.kind = "store_unhealthy")
           THEN Goto("push") /\ UNCHANGED sending
           ELSE Goto(sending.then) /\ sending' = Nothing
        /\ UNCHANGED <<tick, memory, marks, ledger, storeDown, crashes, pushed, repeated,
                       blind, misread, lateDone, crashedOn>>

\* The push reaches ntfy or it does not: nobody waits for it or tries again.
Push ==
    LET told == [kind |-> sending.kind, on |-> sending.on,
                 run |-> IF sending.kind = "store_unhealthy" THEN crashes ELSE 0]
    IN  /\ At("push")
        /\ pushed' = pushed \union {told}
        /\ repeated' = (repeated \/ told \in pushed)
        /\ Goto(sending.then) /\ sending' = Nothing
        /\ UNCHANGED <<tick, memory, stored, storeDown, faults, crashes, unsaid, blind, misread,
                       lateDone, crashedOn>>
-----------------------------------------------------------------------------
(* The detectors.                                                          *)

Begin ==
    /\ At("idle") /\ Goto("detect")
    /\ UNCHANGED <<tick, memory, stored, sending, storeDown, faults, crashes, truth>>

(* Mutant: the table is not looked at after a boot. *)
MutRebuilt(read) == device

\* open_incidents_from_notifications: the latest incident that was told and
\* not closed, in the rows that were read.
Rebuilt(read) ==
    LET On(kind) == {read[i].on : i \in {j \in DOMAIN read : read[j].kind = kind}}
        open == On("down") \ On("up")
    IN  IF open = {} THEN device
        ELSE [device EXCEPT !.since = CHOOSE s \in open : \A o \in open : o <= s, !.sent = TRUE]

\* The first cycle of a process reads the oldest rows, once, whether that
\* works or not.
Restore(ok) ==
    LET n == IF Len(rows) < RestoreLimit THEN Len(rows) ELSE RestoreLimit
    IN  /\ At("detect") /\ ~device.restored
        /\ StoreOp(ok)
        /\ device' = [(IF ok THEN Rebuilt(SubSeq(rows, 1, n)) ELSE device) EXCEPT !.restored = TRUE]
        /\ blind' = (blind \/ ~ok \/ n < Len(rows))
        /\ UNCHANGED <<tick, pc, lastFresh, success, alerted, stored, sending, storeDown,
                       crashes, pushed, repeated, unsaid, misread, lateDone, crashedOn>>

IsDown ==
    \/ lastFresh # None /\ tick - lastFresh >= Threshold
    \/ lastFresh = None /\ device.since # None

Silent ==
    LET since == IF device.since = None THEN tick ELSE device.since
    IN  /\ device' = [device EXCEPT !.since = since, !.sent = TRUE, !.contact = None]
        /\ SendThen(Notice("down", since), "recover")

InContact ==
    LET contact == IF device.contact = None THEN tick ELSE device.contact
        closes == device.since # None /\ tick - contact >= Stable
    IN  /\ device' = IF device.since = None THEN device
                     ELSE IF closes THEN [Forgotten EXCEPT !.restored = TRUE]
                     ELSE [device EXCEPT !.contact = contact]
        /\ IF closes /\ device.sent
           THEN SendThen(Notice("up", device.since), "recover")
           ELSE Goto("recover") /\ UNCHANGED sending

\* device_unreachable
DeviceDetector ==
    /\ At("detect") /\ device.restored
    /\ IF IsDown THEN Silent ELSE InContact
    /\ UNCHANGED <<tick, lastFresh, success, alerted, stored, storeDown, faults, crashes, truth>>
-----------------------------------------------------------------------------
(* _run_recovery, once a day: a catch-up of a missed charge window is told  *)
(* and then marked.                                                        *)

Recovery(ok) ==
    LET recovered == Notice("recovered", Day(tick))
    IN  /\ At("recover")
        /\ CacheOp(ok) /\ Room(recovered)
        /\ IF ok /\ recovered \in marks THEN Goto("canonical") /\ UNCHANGED sending
           ELSE SendThen(recovered, "mark_recovered")
        /\ UNCHANGED <<tick, memory, stored, storeDown, crashes, truth>>

NothingMissed ==
    /\ At("recover") /\ Goto("canonical")
    /\ UNCHANGED <<tick, memory, stored, sending, storeDown, faults, crashes, truth>>

MarkRecovery(ok) ==
    /\ At("mark_recovered")
    /\ CacheOp(ok)
    /\ marks' = IF ok THEN marks \union {Notice("recovered", Day(tick))} ELSE marks
    /\ Goto("canonical")
    /\ UNCHANGED <<tick, memory, rows, ledger, sending, storeDown, crashes, truth>>
-----------------------------------------------------------------------------
(* _run_canonical_forecast_cycle: between 18:00 and 20:00 tomorrow's       *)
(* forecast is put on record, once; afterwards a missing one is told.      *)

Tomorrow(t) == Day(t) + 1

TooEarly ==
    /\ At("canonical") /\ Hour(tick) \notin Evening \union Late
    /\ Goto("digest")
    /\ UNCHANGED <<tick, memory, stored, sending, storeDown, faults, crashes, truth>>

\* What is remembered is what this process did.
WindowClosed ==
    /\ At("canonical") /\ Hour(tick) \in Late
    /\ lateDone' = lateDone \union {Day(tick)}
    /\ IF success # Tomorrow(tick)
       THEN SendThen(Notice("missed", Tomorrow(tick)), "digest")
       ELSE pc' = "digest" /\ UNCHANGED sending
    /\ UNCHANGED <<tick, memory, stored, storeDown, faults, crashes, pushed, repeated, unsaid,
                   blind, misread, crashedOn>>

CheckMark(ok) ==
    LET done == ok /\ Notice("canonical", Tomorrow(tick)) \in marks
    IN  /\ At("canonical") /\ Hour(tick) \in Evening
        /\ CacheOp(ok)
        /\ Goto(IF done THEN "digest" ELSE "canonical_ledger")
        /\ success' = IF done THEN Tomorrow(tick) ELSE success
        /\ UNCHANGED <<tick, lastFresh, device, alerted, stored, sending, storeDown, crashes, truth>>

\* Gathering what the forecast is made from may fail, and ends the stage; a
\* store that is down does not get further than this.
GatherFails ==
    /\ At("canonical_ledger")
    /\ StoreOp(FALSE)
    /\ Goto("digest")
    /\ UNCHANGED <<tick, memory, stored, sending, storeDown, crashes, truth>>

(* Mutant: the cache alone is asked whether tomorrow is on record. *)
MutOnRecord(day) == FALSE

OnRecord(day) == ledger[day].solar > 0

CheckLedger(ok) ==
    LET done == ok /\ OnRecord(Tomorrow(tick))
    IN  /\ At("canonical_ledger") /\ ~storeDown
        /\ StoreOp(ok)
        /\ misread' = (misread \/ ~ok)
        /\ Goto(IF done THEN "canonical_mark" ELSE "canonical_append")
        /\ UNCHANGED <<tick, memory, stored, sending, storeDown, crashes, pushed, repeated, unsaid,
                       blind, lateDone, crashedOn>>

\* A set has a load row for each slot, and solar rows when there is a
\* solar forecast.
AppendLedger(ok, solar) ==
    /\ At("canonical_append")
    /\ StoreOp(ok)
    /\ ledger' = IF ~ok THEN ledger
                 ELSE [ledger EXCEPT ![Tomorrow(tick)] =
                         [load |-> @.load + 1, solar |-> @.solar + (IF solar THEN 1 ELSE 0)]]
    /\ Goto(IF ok THEN "canonical_mark" ELSE "digest")
    /\ UNCHANGED <<tick, memory, rows, marks, sending, storeDown, crashes, truth>>

(* Mutant: the evening counts as done only if the cache took the mark. *)
MutMarkCanonical(ok) ==
    /\ At("canonical_mark")
    /\ CacheOp(ok)
    /\ marks' = IF ok THEN marks \union {Notice("canonical", Tomorrow(tick))} ELSE marks
    /\ success' = IF ok THEN Tomorrow(tick) ELSE success
    /\ Goto("digest")
    /\ UNCHANGED <<tick, lastFresh, device, alerted, rows, ledger, sending, storeDown, crashes, truth>>

MarkCanonical(ok) ==
    /\ At("canonical_mark")
    /\ CacheOp(ok)
    /\ marks' = IF ok THEN marks \union {Notice("canonical", Tomorrow(tick))} ELSE marks
    /\ success' = Tomorrow(tick)
    /\ Goto("digest")
    /\ UNCHANGED <<tick, lastFresh, device, alerted, rows, ledger, sending, storeDown, crashes, truth>>
-----------------------------------------------------------------------------
(* _run_weekly_digest, on Sunday evenings: sent, then marked.              *)

NoDigest ==
    /\ At("digest")
    /\ Day(tick) \notin Sundays \/ Hour(tick) \notin Evening \union Late
    /\ Goto("health")
    /\ UNCHANGED <<tick, memory, stored, sending, storeDown, faults, crashes, truth>>

Digest(ok) ==
    LET digest == Notice("digest", Day(tick))
    IN  /\ At("digest") /\ Day(tick) \in Sundays /\ Hour(tick) \in Evening \union Late
        /\ CacheOp(ok)
        /\ \/ ok /\ digest \in marks /\ pc' = "health" /\ UNCHANGED sending
           \/ (ok => digest \notin marks) /\ ~storeDown /\ SendThen(digest, "digest_mark")
        /\ UNCHANGED <<tick, memory, stored, storeDown, crashes, truth>>

\* What the digest is made from cannot be read: nothing is sent or marked.
DigestFails ==
    /\ At("digest") /\ Day(tick) \in Sundays /\ Hour(tick) \in Evening \union Late
    /\ Notice("digest", Day(tick)) \notin marks
    /\ StoreOp(FALSE)
    /\ Goto("health")
    /\ UNCHANGED <<tick, memory, stored, sending, storeDown, crashes, truth>>

MarkDigest(ok) ==
    /\ At("digest_mark")
    /\ CacheOp(ok)
    /\ marks' = IF ok THEN marks \union {Notice("digest", Day(tick))} ELSE marks
    /\ Goto("health")
    /\ UNCHANGED <<tick, memory, rows, ledger, sending, storeDown, crashes, truth>>
-----------------------------------------------------------------------------
\* _run_store_health_check: the box is set before the alarm is sent.
StoreHealth ==
    /\ At("health")
    /\ IF storeDown /\ alerted # Day(tick)
       THEN alerted' = Day(tick) /\ SendThen(Notice("store_unhealthy", Day(tick)), "idle")
       ELSE pc' = "idle" /\ UNCHANGED <<alerted, sending>>
    /\ UNCHANGED <<tick, lastFresh, device, success, stored, storeDown, faults, crashes, truth>>
-----------------------------------------------------------------------------
(* The world.                                                              *)

\* A stage that meets a broken store fails like one that meets a locked one:
\* the store breaks and heals between two stages.
BetweenStages == pc \in {"idle", "off", "recover", "canonical", "digest", "health"}

\* Time passes, and the device is heard or not.  A stage reads the clock once,
\* when it begins: it counts as a moment.
Clock(heard) ==
    /\ tick < MaxTick
    /\ BetweenStages
    /\ tick' = tick + 1
    /\ lastFresh' = IF heard /\ pc # "off" THEN tick' ELSE lastFresh
    /\ UNCHANGED <<pc, device, success, alerted, stored, sending, storeDown, faults,
                   crashes, truth>>

\* The recorder's writes fail until its store connection is reset.
StoreBreaks ==
    /\ BetweenStages /\ ~storeDown /\ faults < MaxFaults
    /\ storeDown' = TRUE /\ faults' = faults + 1
    /\ UNCHANGED <<tick, pc, memory, stored, sending, crashes, truth>>

StoreHeals ==
    /\ BetweenStages /\ storeDown /\ storeDown' = FALSE
    /\ UNCHANGED <<tick, pc, memory, stored, sending, faults, crashes, truth>>

Crash ==
    /\ pc # "off" /\ crashes < MaxCrashes
    /\ pc' = "off" /\ sending' = Nothing
    /\ lastFresh' = None /\ device' = Forgotten /\ success' = None /\ alerted' = None
    /\ storeDown' = FALSE
    /\ crashes' = crashes + 1 /\ crashedOn' = crashedOn \union {Day(tick)}
    /\ UNCHANGED <<tick, stored, faults, pushed, repeated, unsaid, blind, misread, lateDone>>

Boot(heard) ==
    /\ pc = "off" /\ Goto("idle")
    /\ lastFresh' = IF heard THEN tick ELSE lastFresh
    /\ UNCHANGED <<tick, device, success, alerted, stored, sending, storeDown, faults, crashes, truth>>

Loop ==
    \/ Begin \/ Push
    \/ \E ok \in BOOLEAN : InsertRow(ok) \/ Restore(ok) \/ Recovery(ok) \/ MarkRecovery(ok) \/ CheckMark(ok)
          \/ CheckLedger(ok) \/ MarkCanonical(ok) \/ Digest(ok) \/ MarkDigest(ok)
    \/ DeviceDetector
    \/ NothingMissed \/ TooEarly \/ WindowClosed \/ GatherFails
    \/ \E ok, solar \in BOOLEAN : AppendLedger(ok, solar)
    \/ NoDigest \/ DigestFails \/ StoreHealth

Next ==
    \/ Loop
    \/ \E heard \in BOOLEAN : Clock(heard) \/ Boot(heard)
    \/ StoreBreaks \/ StoreHeals \/ Crash

Spec == Init /\ [][Next]_vars
-----------------------------------------------------------------------------
\* Tomorrow's solar forecast is put on record at most once, so that the
\* scorer counts it once, whatever mark was lost and wherever the process
\* died; only a failed look at the ledger itself may add another.
OneCanonicalForecast == ~misread => \A d \in Days : ledger[d].solar <= 1

\* A mark that says a job is done never outlives the job: the forecast is on
\* record, the digest and the catch-up were said or refused by the store.
MarksAreTrue ==
    /\ \A d \in Days : (Notice("canonical", d) \in marks \/ success = d) => ledger[d].load > 0
    /\ \A mark \in marks : mark.kind \in {"digest", "recovered"} => mark \in Said \union unsaid

\* The two marks, the memory and the ledger tell one story of the canonical
\* forecast: done exactly when it was done, and done once.
ForecastOnRecord == OneCanonicalForecast /\ MarksAreTrue

\* Of a day whose window closed, the resident is told that the forecast is
\* missing exactly when it is, unless the process was new that day.
GapsAreTold ==
    \A d \in lateDone \ crashedOn :
        LET missed == Notice("missed", d + 1)
        IN  /\ missed \in Said => ledger[d + 1].load = 0
            /\ ledger[d + 1].load = 0 =>
                  \/ missed \in Said \union unsaid
                  \/ pc = "insert" /\ sending.kind = "missed" /\ sending.on = d + 1

OfDevice(i) == rows[i].kind \in {"down", "up"}

\* Every end of an outage follows on its beginning, with nothing else said of
\* the device between the two, and an outage is told only when the one before
\* has ended.
ToldInTurns ==
    \A i \in DOMAIN rows :
        /\ rows[i].kind = "up" =>
              \E j \in 1 .. i - 1 : /\ rows[j] = Notice("down", rows[i].on)
                                    /\ \A k \in j + 1 .. i - 1 : ~OfDevice(k)
        /\ rows[i].kind = "down" =>
              \A j \in 1 .. i - 1 :
                  rows[j].kind = "down" => \E k \in j + 1 .. i - 1 : rows[k].kind = "up"

DeviceNoticesKept == ~blind /\ \A notice \in unsaid : notice.kind \notin {"down", "up"}

\* An outage is told once and its end once, over restarts at any moment, as
\* long as the store took what there was to say of the device and the restore
\* could read it all; and whatever is retried, rebuilt or sent while the store
\* is dead, nobody is pushed the same thing twice.
ToldOnce ==
    /\ DeviceNoticesKept => ToldInTurns
    /\ ~repeated

\* The forecast is reported missing only when it is (_CANONICAL_MISSED_BODY:
\* tonight's snapshot did not complete).
MissedMeansMissed ==
    \A d \in Days : Notice("missed", d) \in Said => ledger[d].load = 0
-----------------------------------------------------------------------------
(* The inductive invariant behind the three (proved in Daily_proofs).      *)

Places == {"off", "idle", "detect", "insert", "push", "recover", "mark_recovered", "canonical",
           "canonical_ledger", "canonical_append", "canonical_mark", "digest", "digest_mark",
           "health"}
Kinds == {"down", "up", "recovered", "missed", "canonical", "digest", "store_unhealthy"}
Notes == [kind : Kinds, on : Int]
Moments == Nat \union {None}

NTypeOK ==
    /\ tick \in 0 .. MaxTick /\ pc \in Places /\ lastFresh \in Moments
    /\ device \in [since : Moments, sent : BOOLEAN, contact : Moments, restored : BOOLEAN]
    /\ success \in Int /\ alerted \in Int
    /\ rows \in Seq(Notes) /\ marks \subseteq Notes /\ unsaid \subseteq Notes
    /\ ledger \in [Days -> [load : Nat, solar : Nat]]
    /\ sending \in [kind : Kinds \union {"none"}, on : Int, then : Places]
    /\ {storeDown, repeated, blind, misread} \subseteq BOOLEAN
    /\ crashes \in Nat /\ pushed \subseteq [kind : Kinds, on : Int, run : Nat]
    /\ lateDone \subseteq Int /\ crashedOn \subseteq Int

\* A notice in hand is about now, and known by where the loop goes with it.
InHand ==
    /\ pc \in {"insert", "push"} =>
          \/ sending.kind \in {"down", "up"} /\ sending.then = "recover"
          \/ sending.kind = "recovered" /\ sending.on = Day(tick) /\ sending.then = "mark_recovered"
          \/ /\ sending.kind = "missed" /\ sending.on = Tomorrow(tick) /\ sending.then = "digest"
             /\ Day(tick) \in lateDone
             /\ Day(tick) \notin crashedOn => ledger[Tomorrow(tick)].load = 0
          \/ sending.kind = "digest" /\ sending.on = Day(tick) /\ sending.then = "digest_mark"
          \/ sending.kind = "store_unhealthy" /\ sending.on = Day(tick) /\ sending.then = "idle"
    /\ pc = "push" =>
          sending.kind = "store_unhealthy" \/ Notice(sending.kind, sending.on) \in Said

\* How far the evening's forecast has come.
ForecastStages ==
    /\ \A d \in Days : /\ ledger[d].solar <= ledger[d].load
                       /\ ledger[d].load > 0 => d <= Tomorrow(tick)
    /\ pc \in {"canonical_ledger", "canonical_append", "canonical_mark"} => Hour(tick) \in Evening
    /\ pc = "canonical_append" /\ ~misread => ledger[Tomorrow(tick)].solar = 0
    /\ pc = "canonical_mark" => ledger[Tomorrow(tick)].load > 0
    /\ ledger[Tomorrow(tick)].load > 0 =>
          success = Tomorrow(tick) \/ pc = "canonical_mark" \/ Day(tick) \in crashedOn

\* Marks are about to be set for what was said; a window found closed is past.
StagesAreTrue ==
    /\ pc = "mark_recovered" => Notice("recovered", Day(tick)) \in Said \union unsaid
    /\ pc = "digest_mark" => Notice("digest", Day(tick)) \in Said \union unsaid
    /\ \A d \in lateDone : /\ d + 1 \in Days /\ d <= Day(tick)
                           /\ d = Day(tick) => \E late \in Late : late <= Hour(tick)
    /\ \A notice \in Said : notice.kind = "missed" => notice.on - 1 \in lateDone

On(kind) == {notice.on : notice \in {said \in Said : said.kind = kind}}
OpenNow == On("down") \ On("up")
Tells(kind) == pc = "insert" /\ sending.kind = kind

\* The box in memory knows how long the incident has been.
DeviceTimes ==
    /\ ~device.restored => device = Forgotten
    /\ pc = "off" => ~device.restored
    /\ pc \notin {"off", "idle", "detect"} => device.restored
    /\ device.since # None =>
          /\ device.sent /\ device.since <= tick
          /\ device.contact # None => device.since <= device.contact /\ device.contact <= tick
    /\ \A s \in On("up") : s < tick
    /\ \A s \in On("down") : s \in 0 .. tick
    /\ Tells("down") => device.since # None /\ sending.on = device.since
    /\ Tells("up") => device.since = None /\ sending.on < tick

\* Nothing was said of the device since an incident began that is still open.
OpenIsLast ==
    \A i \in DOMAIN rows : rows[i].kind = "down" /\ rows[i].on \notin On("up") =>
        \A k \in i + 1 .. Len(rows) : ~OfDevice(k)

\* The box and the rows tell one incident, but for the row in hand.
BoxIsRight ==
    device.restored =>
        \/ Tells("up") /\ OpenNow = {sending.on}
        \/ Tells("down") /\ OpenNow = {} /\ sending.on = tick
        \/ device.since = None /\ ~Tells("up") /\ OpenNow = {}
        \/ device.since # None /\ OpenNow = {device.since}

DeviceStory ==
    /\ \A i, j \in DOMAIN rows : rows[i] = rows[j] => i = j
    /\ DeviceNoticesKept => ToldInTurns /\ OpenIsLast /\ BoxIsRight

\* Who was pushed what: the alarm about the store once a day and process, all
\* else with its row.
Told(run) == [kind |-> sending.kind, on |-> sending.on, run |-> run]
PushesOnce ==
    /\ ~repeated /\ alerted <= Day(tick)
    /\ \A told \in pushed :
          IF told.kind = "store_unhealthy"
          THEN told.run <= crashes /\ (told.run = crashes => told.on <= alerted)
          ELSE Notice(told.kind, told.on) \in Said
    /\ pc \in {"insert", "push"} /\ sending.kind = "store_unhealthy" =>
          Told(crashes) \notin pushed /\ alerted = Day(tick)
    /\ pc = "push" /\ sending.kind # "store_unhealthy" => Told(0) \notin pushed

NInv ==
    /\ NTypeOK /\ InHand /\ ForecastStages /\ OneCanonicalForecast /\ MarksAreTrue
    /\ StagesAreTrue /\ GapsAreTold /\ DeviceTimes /\ DeviceStory /\ PushesOnce
=============================================================================
