------------------------------ MODULE PlanBuild ------------------------------
(***************************************************************************)
(* From a request to the plan that is acted on: build_plan and the caution *)
(* of a stale meter (strategy.py, base.py), the missed-window catch-up     *)
(* (recovery.py) and the order the service calls them in, then the hard    *)
(* validator (validator.py) that stands between a plan and the battery.    *)
(***************************************************************************)
EXTENDS TradingPlan

Limits(q, p) == ClampGridCharge(q, p)
Cycles(q, p) == IF p.strategy = "trading" THEN p ELSE ClampCycleBudget(q, p)

Precautions(q, p) == ApplyResidentOverlay(q, ApplyMustCharge(q, p))

\* build_plan: the season's plan or the trading plan, then what every plan
\* has to pass, the precautions before the last of it.
BuildPlan(q) ==
    LET traded == MaybeTrade(q, SeasonPlan(q))
        cautious == Precautions(q, Cycles(q, Limits(q, traded)))
    IN  SavingsFloor(q, Cycles(q, Limits(q, cautious)))

\* RuleBasedPlanner.plan
Careful(q, p) == IF q.stale THEN StaleCaution(q, p) ELSE p
PlanFor(q) == Careful(q, BuildPlan(q))
-----------------------------------------------------------------------------
(* Missed-window recovery.  The clock is counted in half slots, so that a  *)
(* plan may be made half way through one.                                  *)

Clock(q) == 2 * q.now + (IF q.half THEN 1 ELSE 0)

\* check_charge_completion: short by more than the margin, and either out of
\* time, out of charging, or further behind than the ramp to the deadline.
Missed(q, p) ==
    LET gap == p.target - q.soc
        ahead == {i \in With(p, Charge) : i < p.deadline}
        start == 2 * Min(With(p, Charge))
        span == 2 * p.deadline - start
        gone == Lesser(span, AtLeast0(Clock(q) - start))
        offPace == IF span <= 0 THEN gap > p.target
                   ELSE gap * span > Margin * span + (span - gone) * (p.target - Margin)
    IN  /\ p.target # Unset /\ p.deadline # Unset /\ gap > Margin
        /\ \/ Clock(q) >= 2 * p.deadline
           \/ ahead = {}
           \/ offPace

LastPeak(p) == Max({p.deadline} \union With(p, ForLoad))

\* The slots a catch-up may buy in, cheapest first when they are counted off.
CatchUpSlots(q, p) ==
    LET peaks == With(p, ForLoad)
        peak == Min({q.price[i] : i \in peaks})
    IN  {i \in Slots(q) \ peaks : /\ i < LastPeak(p)
                                  /\ peaks # {} => WithinMaxBuy(q.price[i], peak)
                                  /\ WithinBuyCap(q, q.price[i])}

\* build_catch_up_plan: the cheapest slots left, all the other charging goes.
CaughtUp(q, p) ==
    LET needed == Slices(p.target - q.soc)
        chosen == Cheapest(CatchUpSlots(q, p), needed, q.price)
        reached == IF Cardinality(chosen) >= needed THEN p.target
                   ELSE Lesser(p.target, Greater(Floor, q.soc + Cardinality(chosen) * SlotDC))
        Recovered(i) ==
            IF i \in chosen THEN Slot(Charge, reached, ChargeAC, Floor, LastPeak(p), "catch_up")
            ELSE IF i \in With(p, Charge)
                 THEN Slot(SelfUse, Unset, Unset, p.slots[i].floor, Unset, "superseded")
            ELSE p.slots[i]
    IN  [p EXCEPT !.slots = [i \in DOMAIN p.slots |-> Recovered(i)],
                  !.target = reached, !.deadline = LastPeak(p)]

(* Mutant: a catch-up is not clamped to the day cap. *)
MutCatchUp(q, p) == CaughtUp(q, p)

CatchUp(q, p) == ClampGridCharge(q, CaughtUp(q, p))

CatchesUp(q, p) ==
    q.recovery /\ p.strategy = "winter" /\ Missed(q, p) /\ Clock(q) < 2 * LastPeak(p)

Recover(q, p) == IF CatchesUp(q, p) THEN CatchUp(q, p) ELSE p

(* Mutant: the cycles are counted before the catch-up and not again. *)
MutSettled(q, p, soc) == HonestPartial(q, MarkFloorHolds(q, p, soc), soc)

\* _plan_with_recovery_uncached: the plan to act on.
Settled(q, p, soc) == ClampCycleBudget(q, HonestPartial(q, MarkFloorHolds(q, p, soc), soc))
Shown(q, p) == Settled(q, p, Project(q, p))
FinalPlan(q) == Shown(q, Recover(q, PlanFor(q)))
-----------------------------------------------------------------------------
(* validate_plan: what makes a plan unsafe, so that the controller holds   *)
(* AUTO.  MinTarget is the lowest target the device takes, exportReady     *)
(* whether it was probed with a discharge service.                         *)

TargetRefused(p, minTarget) ==
    \E i \in With(p, Charge) :
        LET slot == p.slots[i]
        IN  /\ slot.target # Unset
            /\ \/ slot.target \notin 0 .. Usable
               \/ slot.target < minTarget
               \/ slot.target < (IF slot.floor # Unset THEN slot.floor ELSE Floor)

PowerRefused(p) ==
    \E i \in DOMAIN p.slots :
        p.slots[i].power > (IF p.slots[i].intent = Charge THEN ChargeAC ELSE OutAC)

ExportRefused(q, p, exportReady) ==
    LET exports == With(p, Export)
    IN  \/ exports # {} /\ ~exportReady
        \/ \E i \in exports : p.slots[i].floor # Unset /\ p.slots[i].floor < Floor
        \/ /\ q.trade.cap > 0
           /\ SumFunction([i \in exports |-> p.slots[i].power]) > q.trade.cap

DayCapRefused(q, p) ==
    LET planned(d) == GridEnergy(q, p, {i \in With(p, Charge) : Day(i) = d})
        bought == IF q.bought = Unset THEN q.cap ELSE q.bought
    IN  q.cap > 0 /\ \E d \in {Day(i) : i \in With(p, Charge)} :
            planned(d) > q.cap - (IF d = Day(q.now) THEN bought ELSE 0)

MustChargeRefused(p) ==
    \E i \in DOMAIN p.slots :
        /\ IsMustCharge(p.slots[i])
        /\ \/ p.slots[i].target = Unset \/ p.slots[i].deadline = Unset
           \/ i > p.slots[i].deadline

ProjectionRefused(q, p) ==
    \E i \in Slots(q) : Project(q, p)[i] < Lesser(Floor, q.soc)

Unsafe(q, p, minTarget, exportReady) ==
    \/ TargetRefused(p, minTarget)
    \/ PowerRefused(p)
    \/ ExportRefused(q, p, exportReady)
    \/ DayCapRefused(q, p)
    \/ MustChargeRefused(p)
    \/ ProjectionRefused(q, p)
=============================================================================
