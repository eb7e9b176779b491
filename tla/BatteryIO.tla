------------------------------- MODULE BatteryIO -------------------------------
(***************************************************************************)
(* Between decide() and the battery.  The driver turns a mode into a       *)
(* sequence of register writes to the towers of a cluster                  *)
(* (src/ems/sources/indevolt_driver.py), each retried and each perhaps     *)
(* lost, landed without an answer, or rejected.  What decide() knows of    *)
(* the battery comes back through two caches: that of the cluster reader,  *)
(* which is silent while a write is under way and shortly after            *)
(* (src/ems/sources/indevolt.py), and that of the service                  *)
(* (current_towers in src/ems/control/service.py).                         *)
(*                                                                         *)
(* The towers are a master and one slave.  The fence lets one command at a *)
(* time through.  Gates of decide() that may hold a command back are       *)
(* ModeController's; here it is sent unless the battery is thought to be   *)
(* in the mode already.  Nobody but EMS commands the battery.              *)
(*                                                                         *)
(* Time is counted in ages, which a step of the clock makes older.         *)
(***************************************************************************)
EXTENDS Integers, Sequences

CONSTANTS
    SettleTime,         \* how long reads are kept away after a write
    ReaderCache,        \* how long the cluster reader reuses a reading
    Window,             \* control.live_read_seconds
    ReadTime,           \* bound: how long a read may take
    Attempts            \* posts of one register before the driver gives up

ASSUME BatteryAssumption ==
    /\ {SettleTime, ReaderCache, Window, ReadTime, Attempts} \subseteq Nat
    /\ Attempts > 0

Modes == {"auto", "idle", "charge"}         \* discharging is as charging
Forced == Modes \ {"auto"}
Eldest == Window + ReaderCache      \* bound: ages are not told apart beyond

VARIABLES
    master,             \* its working mode and its state of real-time control
    slave,              \* its working mode
    setpoints,          \* which setpoints of the last command the master has
    driver,             \* the command under way
    quiet,              \* time left of the settle tail
    belief,             \* what the controller keeps of its commands
    cluster,            \* the reader's cache
    read,               \* the read of current_towers, one at a time under tower_lock
    towers,             \* the service's cache
    tick                \* the control tick and what it looked at

battery == <<master, slave, setpoints>>
commanding == <<driver, quiet, belief>>
bvars == <<battery, commanding, cluster, read, towers, tick>>

\* What a reading of the cluster says: the mode seen, whether the master told
\* it, how long ago that was, whether it was handed out because reads were
\* suppressed, and whether a register has been written since.
Unread == [mode |-> "none", direct |-> FALSE, taken |-> 0, hushed |-> FALSE, old |-> FALSE]
NoReading == [age |-> Eldest, what |-> Unread]
NotReading == [at |-> "idle", age |-> 0, what |-> Unread]
NoTick == [at |-> "idle", want |-> "none", what |-> Unread]
NoDuty == [busy |-> FALSE, want |-> "none", done |-> 0, left |-> 0, fallback |-> FALSE]

InForceOn(m) == IF m.rt THEN m.state ELSE "auto"
Actual == InForceOn(master)
Labels(mode) == IF mode = "charge" THEN {"charge", "idle"} ELSE {mode}
Suppressed == driver.busy \/ quiet > 0

BInit ==
    /\ master \in [rt : BOOLEAN, state : Forced] /\ slave \in {"auto", "charge"}
    /\ setpoints = {}
    /\ driver = NoDuty /\ quiet = 0
    /\ belief = [requested |-> "none", confirmed |-> "none", unconfirmed |-> FALSE]
    /\ cluster = NoReading /\ towers = NoReading
    /\ read = NotReading
    /\ tick = NoTick
-----------------------------------------------------------------------------
(* The driver.                                                             *)

(* Mutant: AUTO, too, is left to the master to pass on. *)
MutCommands(want) ==
    CASE want = "auto" -> <<"auto">>
      [] want = "idle" -> <<"realtime", "idle">>
      [] want = "charge" -> <<"realtime", "power", "soc", "charge">>

\* setdata_writes, over the towers apply() chooses: AUTO to all of them, a
\* real-time mode to the master, with the state last.  A write is known by what
\* it sets: the mode of the master, that of the slave, a setpoint, the state.
Commands(want) ==
    CASE want = "auto" -> <<"auto", "slave">>
      [] want = "idle" -> <<"realtime", "idle">>
      [] want = "charge" -> <<"realtime", "power", "soc", "charge">>

\* The device executes a write.  Back in real-time control it resumes what it
\* did there, or stands by.
Lands(w) ==
    /\ master' \in CASE w = "auto" -> {[master EXCEPT !.rt = FALSE]}
                     [] w = "realtime" -> {[rt |-> TRUE, state |-> s] : s \in {master.state, "idle"}}
                     [] w \in Forced -> {[master EXCEPT !.state = w]}
                     [] OTHER -> {master}
    /\ slave' = IF w = "slave" THEN "auto" ELSE slave
    /\ setpoints' = setpoints \union ({w} \intersect {"power", "soc"})

\* Whoever has read, or is reading, may hold what was true before.
Outdated(c) == IF c.what = Unread THEN c ELSE [c EXCEPT !.what.old = TRUE]
ReadingsAge ==
    /\ cluster' = Outdated(cluster) /\ towers' = Outdated(towers)
    /\ read' = Outdated(read)

Duty(want, fallback) ==
    [busy |-> TRUE, want |-> want, done |-> 0, left |-> Attempts, fallback |-> fallback]
NextWrite == Commands(driver.want)[driver.done + 1]

\* What decide() makes of the answer of apply(); a rejected command is
\* followed by AUTO.  The tick ends with it, but for that AUTO.
Conclude(answer) ==
    IF answer = "rejected" /\ ~driver.fallback
    THEN driver' = Duty("auto", TRUE) /\ quiet' = SettleTime /\ UNCHANGED belief
    ELSE /\ driver' = NoDuty /\ quiet' = SettleTime
         /\ belief' =
              IF answer = "accepted"
              THEN [belief EXCEPT !.confirmed = driver.want, !.unconfirmed = FALSE]
              ELSE IF driver.fallback
              THEN [belief EXCEPT !.confirmed = "none", !.unconfirmed = TRUE]
              ELSE [belief EXCEPT !.unconfirmed = TRUE]

\* A post is answered: the next one, or all were.
PostAccepted ==
    /\ driver.busy
    /\ Lands(NextWrite) /\ ReadingsAge
    /\ IF driver.done + 1 = Len(Commands(driver.want)) THEN Conclude("accepted")
       ELSE /\ driver' = [driver EXCEPT !.done = @ + 1, !.left = Attempts]
            /\ UNCHANGED <<quiet, belief>>
    /\ UNCHANGED tick

PostRejected ==
    /\ driver.busy
    /\ Conclude("rejected")
    /\ UNCHANGED <<battery, cluster, read, towers, tick>>

\* No answer in time: the write has landed or is lost.  Tried again, or given
\* up with everything that was to follow.
PostTimesOut(landed) ==
    /\ driver.busy
    /\ IF landed THEN Lands(NextWrite) /\ ReadingsAge
       ELSE UNCHANGED <<battery, cluster, read, towers>>
    /\ IF driver.left = 1 THEN Conclude("unconfirmed")
       ELSE driver' = [driver EXCEPT !.left = @ - 1] /\ UNCHANGED <<quiet, belief>>
    /\ UNCHANGED tick
-----------------------------------------------------------------------------
(* The readers.                                                            *)

(* Mutant: the age of what is kept is not looked at. *)
MutReusable == cluster # NoReading

Reusable == cluster # NoReading /\ cluster.age < ReaderCache

\* IndevoltClusterReader.read_towers: a reading of a moment ago, or, while
\* reads are suppressed, whatever there is; else the device is asked.
\* current_towers calls it when its own cache has run out.
StartRead ==
    /\ read.at = "idle" /\ towers = NoReading
    /\ read' = IF Reusable \/ (Suppressed /\ cluster # NoReading)
               THEN [at |-> "got", age |-> 0,
                     what |-> [cluster.what EXCEPT !.hushed = ~Reusable]]
               ELSE [read EXCEPT !.at = "asking"]
    /\ UNCHANGED <<battery, commanding, cluster, towers, tick>>

(* Mutant: whichever tower answers tells the mode. *)
MutSeen(online) ==
    IF "slave" \in online THEN {slave} ELSE IF "master" \in online THEN Labels(Actual) ELSE {"none"}

\* current_mode: that of the master, else that of any tower that answers.  A
\* charging battery may report that it stands by.
Seen(online) ==
    IF "master" \in online THEN Labels(Actual) ELSE IF "slave" \in online THEN {slave} ELSE {"none"}

Readings(online) ==
    {[Unread EXCEPT !.mode = mode, !.direct = "master" \in online] : mode \in Seen(online)}

Measure(online) ==
    /\ read.at = "asking"
    /\ \E what \in Readings(online) : read' = [read EXCEPT !.at = "measured", !.what = what]
    /\ UNCHANGED <<battery, commanding, cluster, towers, tick>>

\* The reader's cache, stamped with the time the read began.
KeepReading ==
    /\ read.at = "measured"
    /\ cluster' = [age |-> read.age, what |-> read.what]
    /\ read' = [read EXCEPT !.at = "got"]
    /\ UNCHANGED <<battery, commanding, towers, tick>>

\* The service's cache, stamped with the time of the call.
Deliver ==
    /\ read.at = "got"
    /\ towers' = [age |-> read.age, what |-> read.what]
    /\ read' = NotReading
    /\ UNCHANGED <<battery, commanding, cluster, tick>>

\* Samples and the recorder go through the same reader; only their effect on
\* its cache matters here.
OthersRead(online) ==
    /\ ~Reusable /\ (~Suppressed \/ cluster = NoReading)
    /\ \E what \in Readings(online) : cluster' = [age |-> 0, what |-> what]
    /\ UNCHANGED <<battery, commanding, read, towers, tick>>
-----------------------------------------------------------------------------
(* The tick.                                                               *)

Look ==
    /\ tick.at = "idle" /\ ~driver.busy
    /\ towers # NoReading
    /\ tick' = [at |-> "looked", want |-> "none",
                what |-> [towers.what EXCEPT !.taken = 0, !.hushed = FALSE]]
    /\ UNCHANGED <<battery, commanding, cluster, read, towers>>

\* With no tower online decide() asks the master itself; when that fails there
\* is no tick.
AskMaster(answers) ==
    /\ tick.at = "looked" /\ tick.what.mode = "none"
    /\ IF answers
       THEN \E mode \in Labels(Actual) :
              tick' = [tick EXCEPT !.what = [Unread EXCEPT !.mode = mode, !.direct = TRUE]]
       ELSE tick' = NoTick
    /\ UNCHANGED <<battery, commanding, cluster, read, towers>>

\* _gate: idempotent, or a confirmed charge that the battery reports as idle.
Already(want) ==
    \/ tick.what.mode = want
    \/ /\ want = "charge" /\ tick.what.mode = "idle"
       /\ belief.requested = "charge" /\ belief.confirmed = "charge"

Skip(want) ==
    /\ tick.at = "looked" /\ tick.what.mode # "none"
    /\ Already(want)
    /\ tick' = [tick EXCEPT !.at = "skipped", !.want = want]
    /\ UNCHANGED <<battery, commanding, cluster, read, towers>>

Skipped ==
    /\ tick.at = "skipped" /\ tick' = NoTick
    /\ UNCHANGED <<battery, commanding, cluster, read, towers>>

Send(want) ==
    /\ tick.at = "looked" /\ tick.what.mode # "none"
    /\ ~Already(want)
    /\ driver' = Duty(want, FALSE)
    /\ belief' = [belief EXCEPT !.requested = want]
    /\ setpoints' = {}
    /\ tick' = NoTick
    /\ UNCHANGED <<master, slave, quiet, cluster, read, towers>>
-----------------------------------------------------------------------------
Older(n) == IF n < Eldest THEN n + 1 ELSE n
Aged(c) == [c EXCEPT !.age = Older(@), !.what.taken = Older(@)]

Expired(c, limit) == c.age + 1 >= limit

\* A read that is under way ends within ReadTime.  What has expired in the
\* service's cache is never used again; in the reader's cache it serves while
\* reads are suppressed.
Later ==
    /\ read.at # "idle" => read.age < ReadTime
    /\ quiet' = IF driver.busy \/ quiet = 0 THEN quiet ELSE quiet - 1
    /\ cluster' = IF cluster = NoReading THEN cluster
                  ELSE IF Expired(cluster, ReaderCache)
                  THEN [age |-> ReaderCache, what |-> [cluster.what EXCEPT !.taken = Eldest]]
                  ELSE Aged(cluster)
    /\ towers' = IF towers = NoReading \/ Expired(towers, Window) THEN NoReading ELSE Aged(towers)
    /\ read' = IF read.at = "idle" THEN read ELSE Aged(read)
    /\ UNCHANGED <<battery, driver, belief, tick>>

BNext ==
    \/ PostAccepted \/ PostRejected
    \/ \E landed \in BOOLEAN : PostTimesOut(landed)
    \/ \E online \in SUBSET {"master", "slave"} : Measure(online) \/ OthersRead(online)
    \/ StartRead \/ KeepReading
    \/ Deliver \/ Look \/ Skipped
    \/ \E answers \in BOOLEAN : AskMaster(answers)
    \/ \E want \in Modes : Skip(want) \/ Send(want)
    \/ Later

BSpec == BInit /\ [][BNext]_bvars
-----------------------------------------------------------------------------
\* The answer apply() gives is about the whole cluster: once a command is
\* confirmed and none is under way, a confirmed AUTO has every tower in
\* self-consumption, and a forced mode is in force on the master with the
\* setpoints of that very command, whatever was lost, retried, rejected or left
\* half done before.
ClusterFollows ==
    ~driver.busy /\ ~belief.unconfirmed /\ belief.confirmed # "none" =>
        /\ Actual = belief.confirmed
        /\ belief.confirmed = "auto" => slave = "auto"
        /\ belief.confirmed = "charge" => setpoints = {"power", "soc"}

\* What a tick is shown was true less than the two caches' times ago, unless
\* it was handed out because reads were suppressed: no chain of reuse makes it
\* older.
ReadsAreRecent ==
    towers # NoReading =>
        \/ towers.what.taken < Window + ReaderCache
        \/ towers.what.hushed

\* A charge is held although the battery reports standby.
HeldCharge == tick.at = "skipped" /\ tick.want = "charge" /\ tick.what.mode = "idle"

\* Sending nothing is right when the master itself told the mode and nothing
\* was written since; but a charging battery that reports standby is left so
\* when standby is wanted, and see UnconfirmedChargeRetried.
FreshLookIsRight ==
    tick.at = "skipped" /\ tick.what.direct /\ ~tick.what.old =>
        \/ Actual = tick.want
        \/ Actual = "charge" /\ tick.want = "idle"
        \/ HeldCharge /\ belief.unconfirmed

\* mode_controller.py on the hold of an active charge: unconfirmed charges are
\* excluded, so that they are tried again.  A battery that stands by, and is
\* freshly seen to, is then not left so for a charge it never confirmed.
UnconfirmedChargeRetried ==
    HeldCharge /\ belief.unconfirmed /\ ~tick.what.old => Actual = "charge"

\* mode_controller.py on observed_mode: a stale observation can at worst cause
\* one redundant write.
StaleObservationHarmless ==
    tick.at = "skipped" /\ tick.what.direct =>
        \/ Actual = tick.want
        \/ Actual = "charge" /\ tick.want = "idle"
        \/ HeldCharge
-----------------------------------------------------------------------------
(* The inductive invariants behind the three (proved in Caches_proofs).    *)
Known == Modes \union {"none"}
What == [mode : Known, direct : BOOLEAN, taken : 0 .. Eldest, hushed : BOOLEAN, old : BOOLEAN]
Snapshot == [age : 0 .. Eldest, what : What]

BTypeOK ==
    /\ master \in [rt : BOOLEAN, state : Forced] /\ slave \in Modes
    /\ setpoints \subseteq {"power", "soc"}
    /\ belief \in [requested : Known, confirmed : Known, unconfirmed : BOOLEAN]
    /\ driver \in [busy : BOOLEAN, want : Known, done : 0 .. 3, left : 0 .. Attempts, fallback : BOOLEAN]
    /\ quiet \in Nat
    /\ cluster \in Snapshot /\ towers \in Snapshot
    /\ read \in [at : {"idle", "asking", "measured", "got"}, age : 0 .. Eldest, what : What]
    /\ tick \in [at : {"idle", "looked", "skipped"}, want : Known, what : What]

\* A command is of a mode, with a write of it still to be made, ...
DutyIsReal ==
    driver.busy =>
        /\ driver.want \in Modes
        /\ driver.fallback => driver.want = "auto"
        /\ driver.done < Len(Commands(driver.want)) /\ driver.left > 0

\* ... and what was accepted of it is in force, whatever was tried twice.
AcceptedHolds ==
    driver.busy /\ driver.done > 0 =>
        /\ master.rt <=> driver.want # "auto"
        /\ driver.want = "charge" /\ driver.done > 1 => "power" \in setpoints
        /\ driver.want = "charge" /\ driver.done > 2 => "soc" \in setpoints

\* Nothing is written between the look of a tick and its end.
TickIsQuiet ==
    tick.at # "idle" =>
        /\ ~driver.busy
        /\ tick.at = "skipped" => tick.want \in Modes /\ tick.what.mode # "none" /\ Already(tick.want)

\* What the master itself told is so until something is written.
IsTrue(what) == what.direct /\ ~what.old => what.mode \in Labels(Actual)
ReadingsAreTrue ==
    /\ IsTrue(cluster.what) /\ IsTrue(towers.what) /\ IsTrue(read.what)
    /\ tick.at # "idle" => IsTrue(tick.what)

BInv == BTypeOK /\ DutyIsReal /\ AcceptedHolds /\ ClusterFollows /\ TickIsQuiet /\ ReadingsAreTrue

\* A reading is no older than its cache says; one of the service's cache may
\* have been as old as the reader's when it was taken from there.
Recent(r) == r.what.taken <= r.age
Passed(r) == r.what.hushed \/ Recent(r) \/ r.what.taken < r.age + ReaderCache
AgesAreTrue ==
    /\ cluster.age < ReaderCache => Recent(cluster)
    /\ read.age <= ReadTime
    /\ read.at = "measured" => Recent(read)
    /\ read.at = "got" => Passed(read)
    /\ towers # NoReading => Passed(towers) /\ towers.age < Window
=============================================================================
