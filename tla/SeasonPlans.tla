----------------------------- MODULE SeasonPlans -----------------------------
(***************************************************************************)
(* The two seasonal planners: winter arbitrage (rule_based.py) buys the    *)
(* energy of the coming peaks, the adaptive planner of the summer season   *)
(* (adaptive.py) what the sun will not bring.  Both decide who charges,    *)
(* who discharges and who waits, and say up to where and until when.       *)
(***************************************************************************)
EXTENDS PlanProjection

CONSTANTS
    ChargeSlots,        \* planner.charge_slots: the cheap slots the break-even is taken from
    DischargeSlots,     \* planner.discharge_slots: how many dear slots may discharge
    ConfNum, ConfDen    \* planner.solar_confidence

ASSUME SeasonAssumption ==
    /\ {ChargeSlots, DischargeSlots, ConfDen} \subseteq Nat \ {0}
    /\ ConfNum \in 0 .. ConfDen

Slot(intent, target, power, floor, deadline, why) ==
    [intent |-> intent, target |-> target, power |-> power, floor |-> floor,
     deadline |-> deadline, why |-> why]

Spare(q) == AtLeast0(q.soc - Floor)

\* build_buy_pool_info: what the buying looked like to the planner.
PoolOf(n, shortfall, pool) ==
    [state |-> IF n = 0 \/ shortfall = 0 THEN "not_needed" ELSE IF pool = {} THEN "empty" ELSE "open",
     shortfall |-> shortfall]

AllAuto(q) ==
    [slots |-> [i \in Slots(q) |-> Slot(SelfUse, Unset, Unset, Unset, Unset, "no_trade")],
     strategy |-> "winter", target |-> Unset, deadline |-> Unset, pool |-> NoPool]
-----------------------------------------------------------------------------
(* Winter.                                                                 *)

WinterPeaks(q) ==
    LET cost == Max({ImportPrice(q, i) : i \in Cheapest(Slots(q), ChargeSlots, q.price)})
    IN  {i \in Dearest(Slots(q), DischargeSlots, q.price) : AboveBreakeven(ImportPrice(q, i), cost)}

(* Mutant: a purchase at any price under the resident's ceiling. *)
MutWinterPool(q, peaks) ==
    {i \in Slots(q) : i < Max(peaks) /\ WithinBuyCap(q, ImportPrice(q, i))}

\* The slots a winter plan may buy in: before its last peak, under what the
\* cheapest of the peaks earns back and under the resident's own ceiling.
WinterPool(q, peaks) ==
    LET peak == Min({ImportPrice(q, i) : i \in peaks})
    IN  {i \in Slots(q) : /\ i < Max(peaks)
                          /\ WithinMaxBuy(ImportPrice(q, i), peak)
                          /\ WithinBuyCap(q, ImportPrice(q, i))}

WinterSlot(q, peaks, buys, target, i) ==
    LET later == {d \in peaks : d > i}
    IN  CASE i \in buys /\ later # {} -> Slot(Charge, target, ChargeAC, Floor, Min(later), "cheap")
          [] i \in peaks /\ i \notin buys -> Slot(ForLoad, Unset, Unset, Floor, Unset, "peak")
          [] i \notin buys \union peaks /\ later # {} /\ (\E c \in buys : c < i) ->
                Slot(Hold, Unset, Unset, Floor, Unset, "keep")
          [] OTHER -> Slot(SelfUse, Unset, Unset, Floor, Unset, "self")

PlanWinter(q) ==
    LET peaks == WinterPeaks(q)
        load == SumFunction([i \in peaks |-> q.load[i]])
        shortfall == AtLeast0(Drawn(load + q.ev) - Spare(q))
        pool == WinterPool(q, peaks)
        buys == LatePack(pool, Slices(shortfall), q.price)
        stored == Lesser(shortfall, Cardinality(buys) * SlotDC)
        target == Lesser(Usable, Floor + Spare(q) + stored)
        plan == [slots |-> [i \in Slots(q) |-> WinterSlot(q, peaks, buys, target, i)],
                 strategy |-> "winter", target |-> target, deadline |-> Min(peaks),
                 pool |-> PoolOf(Slices(shortfall), shortfall, pool)]
    IN  IF peaks = {} \/ load = 0 THEN AllAuto(q) ELSE EveningReserve(q, plan, ChargeAC)
-----------------------------------------------------------------------------
(* The adaptive planner.                                                   *)

Net(q, i) == q.load[i] - q.solar[i]

\* The sun a commitment may count on: scaled by the confidence, and no more
\* than the pessimistic forecast where the provider delivers one.
CountedSolar(q, i) ==
    LET scaled == (q.solar[i] * ConfNum) \div ConfDen
    IN  IF q.lowSolar[i] # Unset THEN Lesser(scaled, q.lowSolar[i]) ELSE scaled

\* The price a quarter of the way up the ranking.
QuartilePrice(q) ==
    LET n == Cardinality(Slots(q)) \div 4
        at == CHOOSE i \in Cheapest(Slots(q), n + 1, q.price) : i \notin Cheapest(Slots(q), n, q.price)
    IN  q.price[at]

AdaptivePeaks(q) ==
    {i \in Slots(q) : Net(q, i) > 0 /\ AboveBreakeven(q.price[i], QuartilePrice(q))}

AdaptivePool(q, peaks) ==
    LET peak == Min({q.price[i] : i \in peaks})
        pays(i) == IF peaks = {} THEN ~(EtaNum * EtaNum * (q.price[i] - Wear)
                                          > EtaDen * EtaDen * QuartilePrice(q))
                   ELSE i < Max(peaks) /\ WithinMaxBuy(q.price[i], peak)
    IN  {i \in Slots(q) : pays(i) /\ WithinBuyCap(q, q.price[i])}

AdaptiveIntent(q, peaks, buys, soc, i) ==
    LET deficit == Drawn(AtLeast0(Net(q, i)))
    IN  CASE i \in buys -> Charge
          [] i \notin buys /\ deficit > 0 /\ soc - deficit < Floor -> Hold
          [] i \notin buys /\ ~(deficit > 0 /\ soc - deficit < Floor) /\ i \in peaks -> ForLoad
          [] OTHER -> SelfUse

AdaptiveNext(q, intent, soc, target, i) ==
    CASE intent = Charge -> Lesser(target, soc + SlotDC)
      [] intent = Hold -> soc
      [] intent \notin {Charge, Hold} /\ Net(q, i) < 0 -> Lesser(Usable, soc + Stored(-Net(q, i)))
      [] OTHER -> Greater(Floor, soc - Drawn(AtLeast0(Net(q, i))))

AdaptiveSlot(q, intent, target, deadline, i) ==
    CASE intent = Charge -> Slot(Charge, target, ChargeAC, Floor, deadline, "cheap")
      [] intent = ForLoad -> Slot(ForLoad, Unset, Net(q, i), Floor, deadline, "shave")
      [] OTHER -> Slot(intent, target, Unset, Floor, deadline, "self")

PlanAdaptive(q) ==
    LET peaks == AdaptivePeaks(q)
        deficit == SumFunction([i \in Slots(q) |-> AtLeast0(Net(q, i))])
        surplus == SumFunction([i \in Slots(q) |-> AtLeast0(CountedSolar(q, i) - q.load[i])])
        coverable == Lesser(Drawn(deficit), Usable - Floor)
        sun == Stored(surplus)
        shortfall == AtLeast0(coverable - Spare(q) - sun)
        pool == AdaptivePool(q, peaks)
        buys == LatePack(pool, Slices(shortfall), q.price)
        target == Lesser(Usable, Floor + coverable)
        deadline == IF peaks = {} THEN Unset ELSE Max(peaks)
        soc[i \in (q.now - 1) .. q.known] ==
            IF i < q.now THEN q.soc
            ELSE AdaptiveNext(q, AdaptiveIntent(q, peaks, buys, soc[i - 1], i), soc[i - 1], target, i)
    IN  [slots |-> [i \in Slots(q) |->
                      AdaptiveSlot(q, AdaptiveIntent(q, peaks, buys, soc[i - 1], i),
                                   target, deadline, i)],
         strategy |-> "summer", target |-> target, deadline |-> deadline,
         pool |-> PoolOf(Slices(shortfall), shortfall, pool)]
-----------------------------------------------------------------------------
\* _soak_negative: a slot that pays for charging charges to the brim.
Soak(q, p) ==
    LET Paid(slot) == Slot(Charge, Usable, ChargeAC,
                           IF q.strategy = "winter" THEN slot.floor ELSE Floor,
                           slot.deadline, "paid")
    IN  IF ~q.soak THEN p
        ELSE [p EXCEPT !.slots = [i \in DOMAIN p.slots |->
                IF q.price[i] < 0 THEN Paid(p.slots[i]) ELSE p.slots[i]]]

SeasonPlan(q) ==
    LET plan == IF q.strategy = "winter" THEN PlanWinter(q) ELSE PlanAdaptive(q)
    IN  ClampCycleBudget(q, ClampGridCharge(q, Soak(q, plan)))
=============================================================================
