----------------------------- MODULE ControlTick -----------------------------
(***************************************************************************)
(* The body of one control tick (src/ems/control/service.py                *)
(* _control_tick_body and what it calls): who is heard - the operator, the *)
(* plan, a stored charge commitment, the fail-safe, the car guard - and    *)
(* what the memory kept between two ticks does to the answer.              *)
(*                                                                         *)
(* A tick has two halves.  Observe fixes what the tick will see: the       *)
(* intent the decision engine starts from, the coalesced reads, the car.   *)
(* Tick then takes one of the branches of _control_tick_body; the battery  *)
(* may have moved in between, since the observed mode is a cached read.    *)
(* What decide() does with a wish is module ModeController's subject; here *)
(* it holds, confirms or sends, and a send has every outcome the driver    *)
(* can produce.  Export is not armed, so EXPORT_FOR_PROFIT is left out.    *)
(***************************************************************************)
EXTENDS Naturals

CONSTANTS
    EndCycles,          \* control.car_session_end_cycles
    IntentCycles,       \* control.intent_persistence_cycles
    MaxCommands         \* _CAR_SESSION_MAX_COMMANDS

ASSUME TickAssumption ==
    /\ EndCycles \in Nat \ {0}
    /\ IntentCycles \in Nat \ {0}
    /\ MaxCommands \in Nat \ {0}

VARIABLES
    session,            \* ctx.car_session
    holding,            \* ctx.floor_anti_flap_box["holding"]
    pending,            \* ctx.intent_persist_box["count"]; its mode can only be IDLE
    committed,          \* controller.charge_commitment: on whose wish, or nobody's
    controlling,        \* the lifecycle is CONTROLLING
    device,             \* the mode the battery is in
    looking,            \* between Observe and Tick
    obs,                \* what this tick sees
    answer              \* the last tick's decide(): mode and outcome

memory == <<session, holding, pending>>
vars == <<session, holding, pending, committed, controlling, device, looking, obs,
          answer>>

AUTO == "auto"
IDLE == "idle"
CHARGE == "charge"
DISCHARGE == "discharge"
Mode == {AUTO, IDLE, CHARGE, DISCHARGE}
Unread == "unread"
Nobody == "nobody"

(* BatteryIntent: allow_self_consumption, hold_reserve,                    *)
(* grid_charge_to_target, discharge_for_load; "none" when there is no plan.*)
Intent == {"self", "hold", "charge", "load", "none"}

(* intent_to_mode() outside a car session. *)
ModeOf(intent) ==
    CASE intent = "hold" -> IDLE
      [] intent = "charge" -> CHARGE
      [] OTHER -> AUTO

(* SoC against min_reserve_soc: at or below it, within 1 pp, within 3 pp. *)
Reserve == {"floor", "reserve"}
Band == Reserve \cup {"low"}
Soc == Band \cup {"ok", "unknown"}

Bad == {"unconfirmed", "recovered", "unrecovered"}
Attempted == Bad \cup {"applied"}
Silent == [mode |-> Nobody, outcome |-> "none"]

(* age: since the last car command - under one cycle, under the car dwell, *)
(* or longer; bad: last_outcome may not have taken.                        *)
Session == [active: BOOLEAN, age: {"fresh", "cycle", "dwell"},
            commands: 0..MaxCommands, below: 0..(EndCycles - 1),
            reserveHold: BOOLEAN, bad: BOOLEAN]

NoSession == [active |-> FALSE, age |-> "dwell", commands |-> 0, below |-> 0,
              reserveHold |-> FALSE, bad |-> FALSE]

(* wish   the intent before the car guard; by: an active override or not   *)
(* unsafe the data are; a rejected plan or override is a wish for "self"   *)
(* car    not drawing; drawing with the master switch off; or on, with the *)
(*        "hold" or a discharge behaviour chosen                           *)
(* over   the commitment expired, reached its target or lost its prices    *)
Observation ==
    [wish: Intent, by: {"plan", "operator"}, unsafe: BOOLEAN, soc: Soc,
     car: {"away", "unmanaged", "hold", "discharge"}, seen: Mode \cup {Unread},
     over: BOOLEAN]

Blank == [wish |-> "none", by |-> "plan", unsafe |-> FALSE, soc |-> "ok",
          car |-> "away", seen |-> Unread, over |-> FALSE]

(* The validator turns every plan and override on unsafe data or unknown   *)
(* SoC into self-consumption.                                              *)
Possible(o) ==
    /\ (o.unsafe \/ o.soc = "unknown") => o.wish \in {"self", "none"}
    /\ o.by = "operator" => o.wish # "none"
    /\ o.seen \in {device, Unread}
    /\ o.over => committed # Nobody

Init ==
    /\ session = NoSession
    /\ holding = FALSE
    /\ pending = 0
    /\ committed = Nobody
    /\ controlling = FALSE
    /\ device = AUTO
    /\ looking = FALSE
    /\ obs = Blank
    /\ answer = Silent
-----------------------------------------------------------------------------
(* Whose intent the tick acts on                                           *)

Operator == obs.by = "operator"
Draws == obs.car # "away"
Managed == obs.car \in {"hold", "discharge"}

(* decide_car_mode_action() *)
CarAction ==
    IF ~Managed \/ obs.soc = "unknown" THEN "none"
    ELSE IF obs.car = "hold" THEN "hold"
    ELSE IF obs.soc \in (IF session.reserveHold THEN Band ELSE Reserve) THEN "reserve"
    ELSE "discharge"

(* _car_guard(): only what would drain the battery into the car.  *)
Guards == obs.wish \in {"self", "load"} /\ CarAction # "none"

Covers == Guards /\ CarAction = "discharge" /\ ~obs.unsafe
AtReserve == Guards /\ CarAction = "reserve" /\ session.active

Guarded == IF ~Guards THEN obs.wish ELSE IF Covers THEN "load" ELSE "hold"

(* Mutants: a commitment also ends when the plan wants something else; it  *)
(* is resumed on unsafe data.                                              *)
MutAbandoned ==
    /\ committed # Nobody
    /\ IF Operator THEN obs.wish # "charge"
                   ELSE obs.over \/ obs.unsafe \/ obs.wish # "charge"

MutResumed == committed # Nobody /\ ~Operator /\ ~obs.over

(* _apply_charge_commitment_to_intent(): an operator who wants something   *)
(* else ends the commitment, and so does evaluate_commitment().            *)
Abandoned ==
    /\ committed # Nobody
    /\ IF Operator THEN obs.wish # "charge" ELSE obs.over \/ obs.unsafe

Resumed == committed # Nobody /\ ~Operator /\ ~obs.over /\ ~obs.unsafe

Wanted == IF Resumed THEN "charge" ELSE Guarded

Kept == IF Abandoned THEN Nobody ELSE committed

(* Whose contract _persist_charge_commitment() leaves: an unchanged one is *)
(* not replaced.                                                           *)
Committers ==
    LET wisher == IF Operator THEN "operator" ELSE "plan"
    IN IF Kept = Nobody THEN {wisher}
       ELSE IF obs.wish = "charge" THEN {Kept, wisher}
       ELSE {Kept}
-----------------------------------------------------------------------------
(* decide() *)

Actual == IF obs.seen = Unread THEN device ELSE obs.seen

Reached(mode, outcome) ==
    CASE outcome = "applied" -> {mode}
      [] outcome = "unconfirmed" -> {device, mode}
      [] outcome = "recovered" -> {AUTO}
      [] OTHER -> {device, mode, AUTO}

Says(mode, outcome) == answer' = [mode |-> mode, outcome |-> outcome]

(* decide() raises before it sends: superseded in the fence, or the fresh  *)
(* read of a mode nobody observed fails.                                   *)
Superseded(mode) == Says(mode, "superseded") /\ UNCHANGED device

Sends(mode, outcome) ==
    /\ outcome \in Attempted
    /\ Says(mode, outcome)
    /\ device' \in Reached(mode, outcome)

(* Nothing is sent to a battery that is in the mode already, nor to one    *)
(* that reports standby while a confirmed charge is in effect; dwell and   *)
(* the daily caps hold back what is not exempt.                            *)
Decides(mode, exempt, outcome) ==
    \/ /\ outcome = "idempotent"
       /\ mode = Actual \/ (mode = CHARGE /\ Actual = IDLE)
       /\ Says(mode, outcome)
       /\ UNCHANGED device
    \/ /\ outcome = "held"
       /\ mode \notin {AUTO, Actual}
       /\ ~exempt
       /\ Says(mode, outcome)
       /\ UNCHANGED device
    \/ /\ mode # Actual
       /\ Sends(mode, outcome)

Outcome == Attempted \cup {"idempotent", "held"}

Quiet == Says(Nobody, "none") /\ UNCHANGED device

(* The tick's thread ends; what the tick saw is gone. *)
Ends == looking' = FALSE /\ obs' = Blank /\ UNCHANGED controlling

Ticking == looking /\ controlling
-----------------------------------------------------------------------------
(* The branches of _control_tick_body                                      *)

(* car_session_end_if_active(): a dip below the threshold gets a grace. *)
InGrace == session.active /\ ~Draws /\ session.below + 1 < EndCycles

Bridged == [session EXCEPT !.below = @ + 1]

(* No intent: only a dangling session is ended. *)
NothingWanted ==
    /\ Ticking
    /\ Wanted = "none"
    /\ session' = IF InGrace THEN Bridged ELSE NoSession
    /\ committed' = Kept
    /\ Quiet
    /\ Ends
    /\ UNCHANGED <<holding, pending>>

(* Mutant: only a bad answer counts, not what the battery is seen to do. *)
MutReconcile == session.active /\ session.age # "fresh" /\ session.bad

(* _decide_car_command() *)
Reconcile ==
    /\ session.active
    /\ session.age # "fresh"
    /\ obs.seen \notin {DISCHARGE, Unread} \/ session.bad

(* moved: the covered load left the setpoint by more than 500 W. *)
Recommand(moved) == session.active => moved /\ session.age = "dwell"

Spent == session.commands >= MaxCommands

Covering == [session EXCEPT !.below = 0, !.reserveHold = FALSE]

CarCommand ==
    /\ Ticking
    /\ Wanted # "none"
    /\ Covers
    /\ committed' = Kept
    /\ \E moved \in BOOLEAN :
          \/ /\ Reconcile \/ Recommand(moved)
             /\ ~Spent
             /\ \E outcome \in Attempted :
                   /\ Sends(DISCHARGE, outcome)
                   /\ session' = [Covering EXCEPT !.active = TRUE, !.age = "fresh",
                                     !.commands = @ + 1, !.bad = outcome \in Bad]
          \/ /\ Reconcile
             /\ Spent
             /\ \E outcome \in Outcome :
                   /\ Decides(IDLE, TRUE, outcome)
                   /\ session' = [Covering EXCEPT !.bad = outcome \in Bad]
          \/ /\ Reconcile \/ Recommand(moved)
             /\ ~Spent \/ Reconcile
             /\ Superseded(IF Spent THEN IDLE ELSE DISCHARGE)
             /\ session' = Covering
          \/ /\ ~Reconcile
             /\ Recommand(moved) => Spent
             /\ Quiet
             /\ session' = [Covering EXCEPT !.active = TRUE]
    /\ Ends
    /\ UNCHANGED <<holding, pending>>

(* The reserve floor interrupts a session and does not end it. *)
ReserveHold ==
    /\ Ticking
    /\ Wanted # "none"
    /\ AtReserve
    /\ committed' = Kept
    /\ LET held == [session EXCEPT !.below = 0, !.reserveHold = TRUE]
       IN \/ \E outcome \in Outcome :
                /\ Decides(IDLE, TRUE, outcome)
                /\ session' = [held EXCEPT !.bad = outcome \in Bad]
          \/ /\ Superseded(IDLE)
             /\ session' = held
    /\ Ends
    /\ UNCHANGED <<holding, pending>>

(* A planned charge waits until the car is done. *)
Defers == session.active /\ ~Operator /\ Wanted = "charge" /\ Managed

Defer ==
    /\ Ticking
    /\ Defers
    /\ ~Covers
    /\ ~AtReserve
    /\ committed' = Kept
    /\ Quiet
    /\ Ends
    /\ UNCHANGED memory

Ordinary == Wanted # "none" /\ ~Covers /\ ~AtReserve /\ ~Defers

(* Mutant: the grace swallows an override. *)
MutFallsThrough == obs.unsafe \/ obs.soc = "unknown"

(* _decide_grace_action(): what ends the grace for certain.  A plan or      *)
(* prices that failed their validation end it too, and look like any wish  *)
(* for "self" here.                                                        *)
FallsThrough == Operator \/ obs.unsafe \/ obs.soc = "unknown"

Bridge ==
    /\ Ticking
    /\ Ordinary
    /\ InGrace
    /\ ~FallsThrough
    /\ obs.soc \notin Reserve
    /\ session' = Bridged
    /\ committed' = Kept
    /\ Quiet
    /\ Ends
    /\ UNCHANGED <<holding, pending>>

GraceAtFloor ==
    /\ Ticking
    /\ Ordinary
    /\ InGrace
    /\ ~FallsThrough
    /\ obs.soc \in Reserve
    /\ session' = NoSession
    /\ committed' = Kept
    /\ Superseded(IDLE) \/ \E outcome \in Outcome : Decides(IDLE, TRUE, outcome)
    /\ Ends
    /\ UNCHANGED <<holding, pending>>

(* resolve_floor_anti_flap() *)
Latched ==
    /\ ~Operator
    /\ Wanted \in {"self", "hold"}
    /\ obs.soc \in (IF holding THEN Band ELSE {"floor"})

Routed ==
    IF Latched THEN IF obs.seen = IDLE THEN "hold" ELSE "self" ELSE Wanted

(* _confirm_routine_intent(): a routine change has to last. *)
Unconvinced ==
    /\ ~Operator
    /\ ~Draws
    /\ Routed = "hold"
    /\ obs.seen # IDLE
    /\ pending + 1 < IntentCycles

Resolve ==
    /\ Ticking
    /\ Ordinary
    /\ InGrace => FallsThrough \/ obs.wish = "self"
    /\ session' = NoSession
    /\ holding' = IF Operator THEN holding ELSE Latched
    /\ IF Unconvinced
       THEN pending' = pending + 1 /\ committed' = Kept /\ Quiet
       ELSE /\ pending' = 0
            /\ \/ /\ Superseded(ModeOf(Routed))
                  /\ committed' = Kept
               \/ \E outcome \in Outcome :
                     /\ Decides(ModeOf(Routed), Operator \/ Draws, outcome)
                     /\ IF /\ Routed = "charge"
                           /\ outcome = "applied" \/ (outcome = "idempotent" /\ Kept = Nobody)
                        THEN committed' \in Committers
                        ELSE committed' = Kept
    /\ Ends

Tick ==
    \/ NothingWanted
    \/ CarCommand
    \/ ReserveHold
    \/ Defer
    \/ Bridge
    \/ GraceAtFloor
    \/ Resolve
-----------------------------------------------------------------------------
(* Around the ticks                                                        *)

Observe ==
    /\ ~looking
    /\ answer = Silent
    /\ looking' = TRUE
    /\ obs' \in {o \in Observation : Possible(o)}
    /\ UNCHANGED <<memory, committed, controlling, device, answer>>

(* control_tick() returns, and what decide() said is counted and audited. *)
Report ==
    /\ answer # Silent
    /\ answer' = Silent
    /\ UNCHANGED <<memory, committed, controlling, device, looking, obs>>

(* Lifecycle.tick() *)
TakeControl ==
    /\ ~controlling
    /\ controlling' = TRUE
    /\ UNCHANGED <<memory, committed, device, looking, obs, answer>>

(* A tick that may not command: _resolve_charge_commitment(), and after    *)
(* the startup grace _startup_safe_auto_if_needed().                       *)
ObservingTick ==
    /\ looking
    /\ ~controlling
    /\ committed' = IF obs.over \/ obs.unsafe THEN Nobody ELSE committed
    /\ \/ Quiet
       \/ /\ ~Operator
          /\ obs.seen \notin {AUTO, Unread}
          /\ \E outcome \in {"applied", "unconfirmed"} : Sends(AUTO, outcome)
    /\ Ends
    /\ UNCHANGED memory

TimePasses ==
    /\ ~looking
    /\ answer = Silent
    /\ session.age # "dwell"
    /\ session' = [session EXCEPT !.age = IF @ = "fresh" THEN "cycle" ELSE "dwell"]
    /\ UNCHANGED <<holding, pending, committed, controlling, device, looking, obs, answer>>

(* The vendor, the app or a late command moves the battery. *)
Drift ==
    /\ answer = Silent
    /\ device' \in {AUTO, IDLE} \ {device}
    /\ UNCHANGED <<memory, committed, controlling, looking, obs, answer>>

(* Only the commitment is persisted.  (A tick cut off before its command   *)
(* leaves nothing behind.)                                                 *)
Restart ==
    /\ ~looking
    /\ answer = Silent
    /\ session' = NoSession
    /\ holding' = FALSE
    /\ pending' = 0
    /\ controlling' = FALSE
    /\ UNCHANGED <<committed, device, looking, obs, answer>>

(* One turn of the periodic loop, step by step. *)
Cycle == Observe \/ Tick \/ ObservingTick \/ Report

Next ==
    \/ Cycle
    \/ TakeControl
    \/ TimePasses
    \/ Drift
    \/ Restart

Spec == Init /\ [][Next]_vars

(* The periodic loop keeps running ticks, and a tick's thread ends. *)
FairSpec == Spec /\ WF_vars(Cycle)

(* A step of Tick, told by what it alone changes. *)
Ticked == looking /\ ~looking' /\ controlling'
-----------------------------------------------------------------------------
TypeOK ==
    /\ session \in Session
    /\ ~session.active => session = NoSession
    /\ holding \in BOOLEAN
    /\ pending \in 0..(IntentCycles - 1)
    /\ committed \in {"plan", "operator", Nobody}
    /\ controlling \in BOOLEAN
    /\ device \in Mode
    /\ looking \in BOOLEAN
    /\ obs \in Observation
    /\ answer \in [mode: Mode \cup {Nobody},
                   outcome: Outcome \cup {"none", "superseded"}]

(* With it, what the validator guarantees of every observation, which the  *)
(* steps rest on: a wish on unsafe data or unknown SoC is self-consumption *)
(* and an override always has a wish.                                      *)
Validated ==
    /\ (obs.unsafe \/ obs.soc = "unknown") => obs.wish \in {"self", "none"}
    /\ obs.by = "operator" => obs.wish # "none"

IInv == TypeOK /\ Validated

(* An operator is heard in the very next tick: nothing the controller      *)
(* remembers - a car session's grace or deferral, the floor latch, the     *)
(* persistence count, dwell, caps, a commitment - swallows or changes an   *)
(* override, except the car guard, which turns self-consumption into a     *)
(* hold or a bounded discharge (service.py: never swallowed by the hold).  *)
OperatorActs ==
    [][Ticked /\ Operator /\ ~Guards =>
          answer'.mode = ModeOf(obs.wish) /\ answer'.outcome \notin {"none", "held"}]_vars

(* On unsafe data a tick that has any plan or override to go by takes the  *)
(* battery out of a forced mode at once, whatever session, commitment or   *)
(* grace is open (failsafe.py).                                            *)
UnsafeActs ==
    [][Ticked /\ obs.unsafe /\ obs.wish # "none" =>
          /\ answer'.mode \in {AUTO, IDLE}
          /\ Actual \in {CHARGE, DISCHARGE} => answer'.outcome \in Attempted \cup {"superseded"}]_vars

(* While the car draws under the guard and the battery is above the floor  *)
(* band, no tick sends it to self-consumption, and one that finds it there *)
(* sends it elsewhere at once, unless the last car command is less than a  *)
(* cycle old (F1: never left silently draining into the car).              *)
CarNeverFed ==
    [][Ticked /\ Managed /\ obs.soc = "ok" /\ Wanted \notin {"none", "charge"} =>
          /\ answer'.mode # AUTO
          /\ obs.seen = AUTO /\ ~(session.active /\ session.age = "fresh") =>
                answer'.outcome \in Attempted \cup {"superseded"}]_vars

(* A stored commitment is acted on by the first tick that may command,     *)
(* after a restart too, or is given up for a reason; only a car session    *)
(* makes it wait (charge_commitment.py: cannot silently erase it).         *)
CommitmentActs ==
    [][committed # Nobody =>
          /\ Ticked /\ Resumed =>
                committed' # Nobody /\ (session.active \/ Covers \/ answer'.mode = CHARGE)
          /\ committed' = Nobody => looking /\ (obs.over \/ obs.unsafe \/ Operator)]_vars

(* Every commanding tick that finds the car away brings the session closer *)
(* to its end, whatever the plan, the SoC, the prices and the driver say:  *)
(* within EndCycles of them it is over (car_session_end_cycles).           *)
AbsenceCounts ==
    [][Ticked /\ session.active /\ ~Draws =>
          ~session'.active \/ session'.below = session.below + 1]_vars

(* When an override lapses, the system returns to following the plan       *)
(* (override.py): it does not go on charging on the operator's behalf.     *)
OverrideLapses ==
    [][Ticked /\ committed = "operator" /\ ~Operator /\ obs.wish # "charge" =>
          answer'.mode # CHARGE \/ answer'.outcome \in {"superseded", "held"}]_vars
=============================================================================
