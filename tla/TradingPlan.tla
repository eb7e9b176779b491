----------------------------- MODULE TradingPlan -----------------------------
(***************************************************************************)
(* The trading overlay (src/ems/planner/trading.py): buying to sell back.  *)
(* The day's best export slots are filled as far as the battery, the day   *)
(* cap and the cycles allow; the plan they make replaces the season's plan *)
(* when it earns more by a margin, and a day that earns too little to be   *)
(* worth the wear is no day for trading at all.                            *)
(*                                                                         *)
(* q.trade is the resident's trading settings: on, dump (full_dump or      *)
(* peak_slice), the cap on a day's export (0 for none), the least export   *)
(* and the least gain over the season's plan.                              *)
(***************************************************************************)
EXTENDS SeasonPlans

CONSTANTS
    Deg,                \* degradation alone, the wear of energy already stored
    Tax                 \* what a sold unit earns less than the spot price

ASSUME TradingAssumption == Deg \in 0 .. Wear /\ Tax \in Nat

Scale == EtaNum * EtaNum
Credit(q, i) == q.price[i] - Tax

\* The break-even of a purchase, times Scale.
Breakeven(cost) == EtaDen * EtaDen * cost + Scale * Wear

TradePool(q) == Cheapest(Slots(q), ChargeSlots, q.price)

\* The slots worth exporting in, in the order they are filled.
ExportRank(q) ==
    LET cost == Max({ImportPrice(q, i) : i \in TradePool(q)})
        profitable == {i \in Slots(q) : Scale * Credit(q, i) > Breakeven(cost) /\ Credit(q, i) > 0}
    IN  IF q.trade.dump THEN profitable ELSE Dearest(profitable, DischargeSlots, q.price)

\* The throughput the budget still allows; an unread counter counts as none.
Throughput(q) == IF q.throughput = Unset THEN 0 ELSE q.throughput
SpentCycles(q) == q.throughput > 0 /\ q.throughput >= q.cycles

Exportable(q, n) ==
    /\ q.trade.cap = 0 \/ n * OutAC <= q.trade.cap
    /\ 2 * n * OutAC <= AtLeast0(q.cycles - Throughput(q))
    /\ Drawn(n * OutAC) <= Spare(q) + AtLeast0(Usable - Floor - Spare(q))

BuyDC(q, n) ==
    AtLeast0(Lesser(Drawn(n * OutAC) - Spare(q), AtLeast0(Usable - Floor - Spare(q))))

\* The cheapest slots before the first export candidate chosen.
BuySlots(q, first, n) ==
    Cheapest({i \in TradePool(q) : i < first}, Slices(BuyDC(q, n)), q.price)

StoredDC(q, first, n) ==
    Lesser(BuyDC(q, n), Cardinality(BuySlots(q, first, n)) * SlotDC)

\* How many of the ranked slots are exported in, and the first of those that
\* were taken before the energy and the cycles trimmed them.
NoExport == [slots |-> 0, first |-> 0]
Deliverable(q, stored) == (EtaNum * (Spare(q) + stored)) \div EtaDen
Fits(q, n, stored) ==
    /\ n * OutAC <= Deliverable(q, stored)
    /\ Throughput(q) + stored + Drawn(n * OutAC) <= q.cycles

Taken(q, ranked) ==
    Max({n \in 0 .. Cardinality(ranked) : \A k \in 1 .. n : Exportable(q, k)})

Trimmed(q, first, taken, stored) ==
    LET kept == Max({n \in 0 .. taken : n = 0 \/ Fits(q, n, stored)})
    IN  IF Deliverable(q, stored) < q.trade.least \/ kept * OutAC < q.trade.least
        THEN NoExport ELSE [slots |-> kept, first |-> first]

Filled(q, first, taken) == Trimmed(q, first, taken, StoredDC(q, first, taken))

ExportCount(q) ==
    LET ranked == ExportRank(q)
        taken == Taken(q, ranked)
    IN  IF taken = 0 \/ taken * OutAC < q.trade.least THEN NoExport
        ELSE Filled(q, Min(Dearest(ranked, taken, q.price)), taken)

\* What trading earns, times Scale and the number of slots it buys in.
TradeWorth(q, exports, buys, stored) ==
    LET n == Greater(1, Cardinality(buys))
        paid == IF buys = {} THEN Min({ImportPrice(q, i) : i \in 0 .. q.known})
                ELSE SumFunction([i \in buys |-> ImportPrice(q, i)])
        sold == Cardinality(exports) * OutAC
        bought == Lesser(sold, (stored * EtaNum) \div EtaDen)
        revenue == Scale * n * OutAC * SumFunction([i \in exports |-> Credit(q, i)])
    IN  revenue - (EtaDen * EtaDen * paid + Scale * n * Wear) * bought
                - Scale * n * Deg * (sold - bought)

\* What the season's plan earns, times Scale: its peaks over its dearest
\* purchase, or the best the house could do with the energy trading sells.
SeasonWorth(q, z, energy) ==
    LET Discharges == With(z, ForLoad)
        prices == {ImportPrice(q, i) : i \in 0 .. q.known}
        bought == {ImportPrice(q, i) : i \in With(z, Charge)}
        cost == IF bought = {} THEN Min(prices) ELSE Max(bought)
        peaks == SumFunction([i \in Discharges |->
                    AtLeast0(Scale * ImportPrice(q, i) - Breakeven(cost)) * OutAC])
        Demand(i) == Lesser(q.load[i], OutAC)
        Before(i) == {j \in 0 .. q.known : q.price[j] > q.price[i] \/ (q.price[j] = q.price[i] /\ j < i)}
        Dearer(i) == SumFunction([j \in Before(i) |-> Demand(j)])
        Served(i) == Lesser(Demand(i), AtLeast0(energy - Dearer(i)))
        house == SumFunction([i \in 0 .. q.known |-> Scale * (ImportPrice(q, i) - Deg) * Served(i)])
    IN  Greater(peaks, house)

TradeSlot(q, exports, buys, target, first, i) ==
    CASE i \in buys -> Slot(Charge, target, ChargeAC, Floor, first, "trade")
      [] i \in exports -> Slot(Export, Unset, OutAC, Floor, Unset, "trade")
      [] i \notin buys \union exports /\ (\E b \in buys : b < i) /\ (\E e \in exports : e > i)
           -> Slot(Hold, Unset, Unset, Floor, Unset, "trade")
      [] OTHER -> Slot(SelfUse, Unset, Unset, Floor, Unset, "self")

\* Path T: the trading plan, what it earns and in which units, if there is one.
Traded(q, count, exports, buys, stored) ==
    LET target == Lesser(Usable, Floor + Spare(q) + stored)
    IN  [trades |-> ~SpentCycles(q) /\ count.slots > 0,
         worth |-> TradeWorth(q, exports, buys, stored),
         scale |-> Scale * Greater(1, Cardinality(buys)),
         energy |-> Lesser(count.slots * OutAC, (Spare(q) * EtaNum) \div EtaDen),
         plan |-> [slots |-> [i \in Slots(q) |->
                                TradeSlot(q, exports, buys, target, count.first, i)],
                   strategy |-> "trading", target |-> target, deadline |-> count.first,
                   pool |-> NoPool]]

Path(q, count) ==
    Traded(q, count, Dearest(ExportRank(q), count.slots, q.price),
           BuySlots(q, count.first, count.slots), StoredDC(q, count.first, count.slots))

PathT(q) == Path(q, ExportCount(q))

\* A day that saves too little: the whole day in self-consumption.
NoTrade(q) == [AllAuto(q) EXCEPT !.strategy = "auto",
                                 !.slots = [i \in DOMAIN @ |-> [@[i] EXCEPT !.floor = Floor]]]

Poor(q, t) ==
    \/ t.worth < t.scale * q.minSavings
    \/ q.minSavings > 0 /\ Savings(q, t.plan) < Scale * q.minSavings

Better(q, z, t) ==
    t.worth * Scale - SeasonWorth(q, z, t.energy) * t.scale >= Scale * t.scale * q.trade.gain

Overlay(q, z, t) ==
    CASE ~t.trades -> z
      [] t.trades /\ Poor(q, t) -> NoTrade(q)
      [] t.trades /\ ~Poor(q, t) -> IF Better(q, z, t) THEN t.plan ELSE z

MaybeTrade(q, z) == IF q.trade.on THEN Overlay(q, z, PathT(q)) ELSE z
=============================================================================
