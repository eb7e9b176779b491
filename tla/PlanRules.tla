------------------------------ MODULE PlanRules ------------------------------
(***************************************************************************)
(* The shared rules of the planner (src/ems/planner): the prices that pay, *)
(* the choice of the slots to buy in, and the passes every plan goes       *)
(* through whatever the season that made it: daily grid cap, cycle budget, *)
(* must-charge, the resident's "fill to X before T" and the savings floor. *)
(*                                                                         *)
(* Energy is in battery units: a state of charge, a target or a floor is   *)
(* the energy it stands for.  An efficiency of EtaNum / EtaDen lies        *)
(* between the meter (AC) and the battery (DC) each way.  Slots of the     *)
(* price horizon are numbered; q is the request a plan is built from, and  *)
(* a plan maps the slots from q.now to q.known to what they ask for.       *)
(***************************************************************************)
EXTENDS Integers, FiniteSets, FiniteSetsExt

CONSTANTS
    Midnight,           \* the first slot of the next local day
    EveningStart,       \* slots that start at 15:00 local or later
    EveningPeak,        \* slots that start between 17:00 and 22:00 local
    PeakHorizon,        \* the twelve hours a must-charge looks ahead, in slots
    Usable,             \* the battery's usable energy
    Floor,              \* the effective floor: reserve setting or device minimum
    Margin,             \* five percentage points
    ChargeAC,           \* what a slot of charging at full power takes from the meter
    OutAC,              \* what a slot of discharging at full power delivers
    EtaNum, EtaDen,     \* the one-way efficiency
    Wear,               \* degradation and risk per unit, in the prices' unit
    Fee,                \* import fee on top of the spot price
    SavingsAC,          \* the discharge a slot is credited with in a savings estimate
    Buffer              \* must_charge_buffer_pp and stale_reserve_buffer_pp

ASSUME PlanAssumption ==
    /\ {Midnight, PeakHorizon, Usable, ChargeAC, OutAC, EtaNum, EtaDen} \subseteq Nat \ {0}
    /\ {Floor, Margin, Wear, Fee, SavingsAC, Buffer} \subseteq Nat
    /\ Floor <= Usable /\ EtaNum <= EtaDen
    /\ (ChargeAC * EtaNum) % (2 * EtaDen) = 0

Unset == -1
Charge == "grid_charge_to_target"
SelfUse == "allow_self_consumption"
ForLoad == "discharge_for_load"
Hold == "hold_reserve"
Export == "export_for_profit"

Stored(ac) == (ac * EtaNum) \div EtaDen
Drawn(ac) == (ac * EtaDen) \div EtaNum
SlotDC == Stored(ChargeAC)

AtLeast0(x) == IF x > 0 THEN x ELSE 0
Lesser(x, y) == IF x < y THEN x ELSE y
Greater(x, y) == IF x > y THEN x ELSE y
(* Mutant: a part of a slot is no slot. *)
MutSlices(energy) == IF energy <= 0 THEN 0 ELSE energy \div SlotDC

Slices(energy) == IF energy <= 0 THEN 0 ELSE (energy + SlotDC - 1) \div SlotDC

Day(i) == IF i < Midnight THEN 0 ELSE 1
Slots(q) == q.now .. q.known
With(p, intent) == {i \in DOMAIN p.slots : p.slots[i].intent = intent}
NoPool == [state |-> "none", shortfall |-> 0]
-----------------------------------------------------------------------------
(* Prices.  A cost is compared through the round trip without dividing:    *)
(* breakeven(c) = c / rte + wear, max_buy(peak) = (peak - wear) * rte.     *)

ImportPrice(q, i) == q.price[i] + Fee
AboveBreakeven(price, cost) == EtaNum * EtaNum * (price - Wear) > EtaDen * EtaDen * cost
WithinMaxBuy(price, peak) == EtaDen * EtaDen * price <= EtaNum * EtaNum * (peak - Wear)
WithinBuyCap(q, price) == q.maxBuy <= 0 \/ price <= q.maxBuy

\* The n cheapest slots of S, the earlier one first among equals.
Cheapest(S, n, price) ==
    {i \in S : Cardinality({j \in S : price[j] < price[i] \/ (price[j] = price[i] /\ j < i)}) < n}

\* The n dearest slots of S, the earlier one first among equals.
Dearest(S, n, price) ==
    {i \in S : Cardinality({j \in S : price[j] > price[i] \/ (price[j] = price[i] /\ j < i)}) < n}

\* The cheapest unbroken run of n slots of S, the latest among equals; the
\* n cheapest slots when S holds no such run.
LatePack(S, n, price) ==
    LET Run(i) == i .. (i + n - 1)
        Cost(i) == SumFunction([j \in Run(i) |-> price[j]])
        Runs == {i \in S : Run(i) \subseteq S}
        Best == {i \in Runs : \A j \in Runs : Cost(i) <= Cost(j)}
    IN  IF n <= 0 THEN {} ELSE IF Runs # {} THEN Run(Max(Best)) ELSE Cheapest(S, n, price)
-----------------------------------------------------------------------------
(* The passes that take charging out of a plan again.                      *)

\* What of a slot's energy is still ahead: a plan made half way through a
\* slot can only buy the other half.
Ahead(q, i, energy) == IF i = q.now /\ q.half THEN energy \div 2 ELSE energy

\* What the slots of S still take from the grid when they charge.
GridEnergy(q, p, S) == SumFunction([i \in S |-> Ahead(q, i, p.slots[i].power)])

Refused(slot, why) == [slot EXCEPT !.intent = SelfUse, !.power = Unset, !.why = why]

Without(p, refused, why) ==
    [p EXCEPT !.slots = [i \in DOMAIN p.slots |->
        IF i \in refused THEN Refused(p.slots[i], why) ELSE p.slots[i]]]

(* Mutant: what was bought before the plan is forgotten. *)
MutDayBudget(q, d) == IF d = Day(q.now) /\ q.bought = Unset THEN 0 ELSE q.cap

\* What may still be bought on a day; today nothing when the counter is unknown.
DayBudget(q, d) ==
    IF d # Day(q.now) THEN q.cap ELSE IF q.bought = Unset THEN 0 ELSE q.cap - q.bought

\* Per local day the first slot of charging over the budget and all that
\* follow it go.
ClampGridCharge(q, p) ==
    LET UpTo(i) == GridEnergy(q, p, {j \in With(p, Charge) : j <= i /\ Day(j) = Day(i)})
        Over == {i \in With(p, Charge) : UpTo(i) > DayBudget(q, Day(i))}
        capped == Without(p, Over, "cap")
    IN  IF q.cap <= 0 \/ Over = {} THEN p
        ELSE IF p.pool = NoPool THEN capped ELSE [capped EXCEPT !.pool.state = "cap"]

SlotCycle(q, i, slot) ==
    CASE slot.intent = Charge -> Ahead(q, i, Stored(slot.power))
      [] slot.intent \in {Export, ForLoad} /\ slot.power > 0 -> Ahead(q, i, Drawn(slot.power))
      [] OTHER -> 0

\* Charging and exporting that would push the day's throughput over the
\* cycle budget go; discharging for the house counts first and stays.
ClampCycleBudget(q, p) ==
    LET Restricted == With(p, Charge) \union With(p, Export)
        Cycle(S) == SumFunction([j \in S |-> SlotCycle(q, j, p.slots[j])])
        SameDay(i, S) == {j \in S : Day(j) = Day(i)}
        History(i) == IF Day(i) = Day(q.now) /\ q.throughput # Unset THEN q.throughput ELSE 0
        Free(i) == Cycle(SameDay(i, DOMAIN p.slots \ Restricted)) + History(i)
        Kept[i \in (q.now - 1) .. q.known] ==
            IF i < q.now THEN {}
            ELSE IF i \in Restricted
                    /\ Free(i) + Cycle(SameDay(i, Kept[i - 1])) + SlotCycle(q, i, p.slots[i])
                       <= q.cycles
                 THEN Kept[i - 1] \union {i}
                 ELSE Kept[i - 1]
    IN  Without(p, Restricted \ Kept[q.known], "cycles")

IsMustCharge(slot) == slot.why \in {"must", "resident"}

\* The euros a plan is expected to save, scaled by EtaNum ^ 2: what its
\* discharging and exporting earn over the dearest slot it buys in.
Savings(q, p) ==
    LET scale == EtaNum * EtaNum
        Cost(c) == EtaDen * EtaDen * c + scale * Wear
        charges == {ImportPrice(q, i) : i \in With(p, Charge)}
        exports == {ImportPrice(q, i) : i \in With(p, Export)}
        house == IF charges = {} THEN 0
                 ELSE SumFunction([i \in With(p, ForLoad) |->
                        AtLeast0(scale * ImportPrice(q, i) - Cost(Max(charges))) * SavingsAC])
        paid == Cost(IF charges # {} THEN Max(charges) ELSE Min(exports))
        sold == SumFunction([i \in With(p, Export) |->
                               (scale * q.price[i] - paid) * p.slots[i].power])
    IN  house + (IF exports = {} THEN 0 ELSE sold)

\* A plan that saves less than the minimum keeps only the charging that is
\* a precaution or is paid for.
SavingsFloor(q, p) ==
    LET Dropped == {i \in With(p, Charge) : ~IsMustCharge(p.slots[i]) /\ q.price[i] >= 0}
    IN  IF q.minSavings <= 0 \/ Savings(q, p) >= EtaNum * EtaNum * q.minSavings
        THEN p ELSE Without(p, Dropped, "savings")
-----------------------------------------------------------------------------
(* The passes that put charging into a plan.                               *)

ChargeSlot(slot, target, deadline, why) ==
    [intent |-> Charge, target |-> target, power |-> ChargeAC,
     floor |-> IF slot.floor # Unset THEN slot.floor ELSE Floor,
     deadline |-> deadline, why |-> why]

\* The slots that bring the battery to a target before a deadline under a
\* price of its own; none when the prices up to the deadline are not all known.
FillBefore(q, target, deadline, maxPrice) ==
    LET affordable == {i \in Slots(q) : i < deadline /\ q.price[i] <= maxPrice}
    IN  IF deadline > q.known + 1 \/ ~q.probed \/ target < Floor THEN {}
        ELSE LatePack(affordable, Slices(target - Greater(Floor, q.soc)), q.price)

\* The deadline of the precaution: the first evening peak ahead, when the
\* season's plan found nothing to buy for a battery that is near its floor.
PrecautionPeaks(q, p) ==
    LET arbitrage == {i \in With(p, Charge) : ~IsMustCharge(p.slots[i])}
        short == p.pool # NoPool /\ p.pool.shortfall > 0
                 /\ (p.pool.state = "empty" \/ arbitrage = {})
    IN  {i \in With(p, ForLoad) : /\ short /\ q.soc < Floor + Buffer
                                  /\ i > q.now /\ i <= q.now + PeakHorizon
                                  /\ i \in EveningPeak}

ApplyMustCharge(q, p) ==
    LET peaks == PrecautionPeaks(q, p)
        deadline == Min(peaks)
        target == Greater(Floor, q.mustTarget)
        starts == IF q.mustTarget = Unset \/ peaks = {} THEN {}
                  ELSE FillBefore(q, target, deadline, q.mustMax)
    IN  IF starts = {} THEN p
        ELSE [p EXCEPT !.target = target, !.deadline = deadline,
                       !.slots = [i \in DOMAIN p.slots |->
                          IF i \in starts THEN ChargeSlot(p.slots[i], target, deadline, "must")
                          ELSE p.slots[i]]]

ApplyResidentOverlay(q, p) ==
    LET starts == IF q.resident = Unset THEN {}
                  ELSE FillBefore(q, q.resident, q.residentBy, q.mustMax)
    IN  [p EXCEPT !.slots = [i \in DOMAIN p.slots |->
            IF i \in starts THEN ChargeSlot(p.slots[i], q.resident, q.residentBy, "resident")
            ELSE p.slots[i]]]
=============================================================================
