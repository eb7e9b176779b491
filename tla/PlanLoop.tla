------------------------------ MODULE PlanLoop -------------------------------
(***************************************************************************)
(* The planner in its loop: plans are made from what the meters counted,   *)
(* the battery follows them for half a slot, the house and the sun do not  *)
(* keep to the forecast, EMS is down for a while, a counter cannot be      *)
(* read, tomorrow's prices come in, and the next plan starts from there.   *)
(* What holds of one plan is PlanBuild's; here it has to hold of the day.  *)
(***************************************************************************)
EXTENDS PlanBuild

CONSTANTS
    Scenarios,          \* forecasts and settings a day may be lived with
    Surprise,           \* how far the house may be off its forecast, per half slot
    MaxSurprises,       \* bound: half slots off the forecast
    MaxOutages,         \* bound: half slots without EMS
    MaxBlind            \* bound: replans with a counter that cannot be read

\* Prices, forecasts and settings as the feeds and the settings pages let
\* them in: a target lies on the battery's scale, a limit is no debt.
ASSUME ScenarioAssumption ==
    /\ Surprise \in Nat
    /\ \A d \in Scenarios :
        LET last == Max(DOMAIN d.price)
        IN  /\ last \in Nat /\ Midnight <= last + 1
            /\ d.price \in [0 .. last -> Int]
            /\ {d.load, d.solar} \subseteq [0 .. last -> Nat]
            /\ d.lowSolar \in [0 .. last -> Nat \union {Unset}]
            /\ d.soc \in 0 .. Usable
            /\ {d.must, d.resident} \subseteq {Unset} \union 0 .. Usable
            /\ {d.ev, d.cap, d.cycles, d.trade.cap} \subseteq Nat
            /\ {d.maxBuy, d.minSavings, d.mustMax, d.residentBy} \subseteq Int
            /\ d.strategy \in {"winter", "summer"}

VARIABLES
    day,                \* the scenario
    now, half,          \* the slot and which half of it
    known,              \* the last slot whose price is known
    soc,
    counted,            \* grid charging of today's ended slots, as the samples tell
    sampled,            \* the running slot's samples: what the battery and the grid gave
    bought,             \* what really went from the grid into the battery today
    throughput,         \* charged and discharged today
    wanted,             \* the resident's override is on
    request, plan,      \* the last request and the plan made from it
    mode,               \* what the battery was last told
    due,                \* a plan is due before the next half slot
    surprises, outages, blind

vars == <<day, now, half, known, soc, counted, sampled, bought, throughput, wanted,
          request, plan, mode, due, surprises, outages, blind>>
world == <<day, now, half, soc, counted, sampled, bought, throughput>>

Last == Max(DOMAIN day.price)
NoSample == [battery |-> 0, grid |-> 0, n |-> 0]
Idle == [intent |-> SelfUse, target |-> Unset, floor |-> Unset]

\* grid_charge_kwh_from_samples: a slot's charging is its mean battery power
\* against its mean grid power; a slot without samples bought nothing.
SlotBought(samples, halves) ==
    IF samples.n = 0 THEN 0
    ELSE (halves * Lesser(AtLeast0(-samples.battery), AtLeast0(samples.grid))) \div samples.n

BoughtToday == counted + SlotBought(sampled, IF half THEN 1 ELSE 0)

Engaged == wanted /\ 2 * day.residentBy > 2 * now + (IF half THEN 1 ELSE 0) /\ soc < day.resident

RequestFor(readable, cyclesReadable, stale) ==
    [now |-> now, half |-> half, known |-> known, price |-> day.price, load |-> day.load,
     solar |-> day.solar, lowSolar |-> day.lowSolar, soc |-> soc, ev |-> day.ev, soak |-> day.soak,
     strategy |-> day.strategy, stale |-> stale, recovery |-> day.recovery,
     bought |-> IF readable THEN BoughtToday ELSE Unset,
     throughput |-> IF cyclesReadable THEN throughput ELSE Unset,
     cap |-> day.cap, cycles |-> day.cycles, maxBuy |-> day.maxBuy, minSavings |-> day.minSavings,
     probed |-> TRUE, mustTarget |-> day.must, mustMax |-> day.mustMax,
     resident |-> IF Engaged THEN day.resident ELSE Unset, residentBy |-> day.residentBy,
     trade |-> day.trade]

Init ==
    /\ day \in Scenarios
    /\ now = 0 /\ half = FALSE /\ known = Midnight - 1
    /\ soc = day.soc
    /\ counted = 0 /\ sampled = NoSample /\ bought = 0 /\ throughput = 0
    /\ wanted = (day.resident # Unset)
    /\ request = [now |-> -1] /\ plan = [slots |-> <<>>, strategy |-> "none"]
    /\ mode = Idle /\ due = TRUE
    /\ surprises = 0 /\ outages = 0 /\ blind = 0

\* Tomorrow's prices are published.
Publish ==
    /\ known < Last
    /\ known' = Last /\ due' = TRUE
    /\ UNCHANGED <<world, wanted, request, plan, mode, surprises, outages, blind>>

\* A plan for the running half slot; an override that ended is dropped.
Replan(readable, cyclesReadable, stale) ==
    /\ due /\ now <= known
    /\ (readable /\ cyclesReadable /\ ~stale) \/ blind < MaxBlind
    /\ blind' = IF readable /\ cyclesReadable /\ ~stale THEN blind ELSE blind + 1
    /\ request' = RequestFor(readable, cyclesReadable, stale)
    /\ plan' = FinalPlan(request')
    /\ mode' = plan'.slots[now]
    /\ wanted' = Engaged
    /\ due' = FALSE
    /\ UNCHANGED <<world, known, surprises, outages>>

\* Without prices there is no plan, and the battery looks after itself.
NoPlan ==
    /\ due /\ now <= Last /\ now > known
    /\ mode' = Idle /\ due' = FALSE
    /\ UNCHANGED <<world, known, wanted, request, plan, surprises, outages, blind>>

\* What half a slot does to the battery: the device charges to its target at
\* full power, and otherwise covers the house down to the floor or stores
\* what is left of the sun.
Moved(told, net) ==
    LET room == Usable - soc
        above == AtLeast0(soc - Floor)
        chargeDC == SlotDC \div 2
        outAC == OutAC \div 2
    IN  CASE told.intent = Charge -> Lesser(chargeDC, Lesser(room, AtLeast0(told.target - soc)))
          [] told.intent = Export -> -Lesser(Drawn(outAC), above)
          [] told.intent \in {SelfUse, ForLoad} /\ net > 0 -> -Lesser(Drawn(Lesser(net, outAC)), above)
          [] told.intent \notin {Charge, Export} /\ net < 0 ->
                Lesser(Stored(-net), Lesser(chargeDC, room))
          [] OTHER -> 0

\* Battery power as it is metered: what comes out of it, or goes in.
AtMeter(moved) == IF moved > 0 THEN -Drawn(moved) ELSE Stored(-moved)

Live(told, net, sampling) ==
    LET moved == Moved(told, net)
        battery == AtMeter(moved)
        grid == net - battery
        real == Lesser(AtLeast0(-battery), AtLeast0(grid))
        samples == IF sampling
                   THEN [battery |-> sampled.battery + battery, grid |-> sampled.grid + grid,
                         n |-> sampled.n + 1]
                   ELSE sampled
        newDay == half /\ now + 1 = Midnight
    IN  /\ soc' = soc + moved
        /\ half' = ~half
        /\ now' = IF half THEN now + 1 ELSE now
        /\ sampled' = IF half THEN NoSample ELSE samples
        /\ counted' = IF newDay THEN 0
                      ELSE IF half THEN counted + SlotBought(samples, 2) ELSE counted
        /\ bought' = IF newDay THEN 0 ELSE bought + real
        /\ throughput' = IF newDay THEN 0
                         ELSE throughput + (IF moved > 0 THEN moved ELSE -moved)
        /\ due' = TRUE
        /\ UNCHANGED <<day, known, wanted, request, plan, blind>>

Forecast == (day.load[now] - day.solar[now]) \div 2

\* Half a slot under the plan.
Follow(off) ==
    /\ ~due /\ now <= Last
    /\ off # 0 => surprises < MaxSurprises
    /\ surprises' = IF off # 0 THEN surprises + 1 ELSE surprises
    /\ Live(mode, Forecast + off, TRUE)
    /\ UNCHANGED <<mode, outages>>

\* Half a slot without EMS: nothing is sampled.  A crash leaves the battery
\* on what it was told last, a graceful stop looking after itself.
Outage ==
    /\ due /\ now <= Last /\ outages < MaxOutages
    /\ outages' = outages + 1
    /\ mode' \in {mode, Idle}
    /\ Live(mode', Forecast, FALSE)
    /\ UNCHANGED surprises

Next ==
    \/ Publish
    \/ \E readable, cyclesReadable, stale \in BOOLEAN : Replan(readable, cyclesReadable, stale)
    \/ NoPlan
    \/ \E off \in {-Surprise, 0, Surprise} : Follow(off)
    \/ Outage

Spec == Init /\ [][Next]_vars
-----------------------------------------------------------------------------
Planned == ~due /\ request.now = now /\ request.half = half
RefusedFor(why) == \E i \in DOMAIN plan.slots : plan.slots[i].why \in why
Projected == Project(request, plan)

\* As long as EMS is up, what is really bought in a day stays under the
\* resident's daily cap: over all the plans of the day, whatever the house
\* does, with tomorrow's prices or without, and with an unreadable counter.
CapIsReal == (day.cap > 0 /\ outages = 0) => bought <= day.cap

\* The validator never has to stop a plan of the planner's own, for all that
\* the passes do to it one after the other, but for one reason: a summer peak
\* asks for the whole of the house's load, the battery's power or not.
PlansValidate ==
    Planned =>
        /\ ~TargetRefused(plan, Floor) /\ ~ExportRefused(request, plan, TRUE)
        /\ ~DayCapRefused(request, plan) /\ ~MustChargeRefused(plan)
        /\ ~ProjectionRefused(request, plan)
        /\ PowerRefused(plan) =>
              plan.strategy = "summer" /\ \E i \in Slots(request) : Net(request, i) > OutAC

\* Nothing is charged or exported now that takes the day over its cycles,
\* recovered purchases and the trading plan's included.
CyclesHold ==
    (Planned /\ request.throughput # Unset /\ mode.intent \in {Charge, Export})
        => request.throughput + SlotCycle(request, now, mode) <= request.cycles

\* A winter plan that charges promises what its own projection reaches, the
\* floor at the least, unless the cycle budget took charging out of it
\* afterwards.
HonestPromise ==
    (Planned /\ plan.strategy = "winter" /\ plan.target # Unset /\ plan.deadline # Unset
        /\ ~RefusedFor({"cycles"})) =>
        \A i \in With(plan, Charge) :
            LET d == CommitDeadline(plan, i)
            IN  d > now => \/ Projected[Lesser(d - 1, request.known)] >= CommitTarget(plan, i) - Margin
                           \/ CommitTarget(plan, i) = Floor

\* What is spent before the evening leaves the evening what it needs, unless
\* a limit took purchases out of the plan.
EveningIsKept ==
    (Planned /\ plan.strategy = "winter" /\ EveningSlots(plan) # {}
        /\ ~RefusedFor({"cap", "cycles", "savings"})) =>
        \A i \in With(plan, ForLoad) :
            (i < Min(EveningSlots(plan)) /\ request.load[i] > 0 /\ Projected[i] < Projected[i - 1])
              => Projected[i] >= Floor + EveningNeed(request, plan, OutAC)

\* Every winter purchase that is no precaution has a later slot it pays for,
\* the catch-up's included as long as the plan it makes up for has a peak.
BoughtForAPeak ==
    (Planned /\ plan.strategy = "winter" /\ mode.intent = Charge
        /\ \/ mode.why = "cheap"
           \/ mode.why = "catch_up" /\ With(PlanFor(request), ForLoad) # {}) =>
        \E d \in Slots(request) : d > now /\ WithinMaxBuy(request.price[now], ImportPrice(request, d))

\* An override the resident asked for is met at its deadline when nothing
\* goes wrong and the day cap leaves room to fill the battery.
ResidentServed ==
    (wanted /\ now = day.residentBy /\ ~half /\ surprises = 0 /\ outages = 0 /\ blind = 0
        /\ day.cap >= Drawn(Usable))
        => soc >= day.resident

\* A trading plan sells nothing it will not have: every export finds its
\* energy above the floor when the purchases before it are made.
TradeIsBacked ==
    (Planned /\ plan.strategy = "trading" /\ ~RefusedFor({"cap"})) =>
        \A i \in With(plan, Export) : Projected[i - 1] - Floor >= Drawn(OutAC)

\* With a stale meter nothing discharges into the raised floor, unless the
\* plan is recharged after the caution was applied.
StaleKeepsBuffer ==
    (Planned /\ request.stale /\ ~CatchesUp(request, PlanFor(request)) /\ ~RefusedFor({"cycles"})) =>
        \A i \in Slots(request) :
            Projected[i] < Projected[i - 1] => Projected[i] >= Lesser(Usable, Floor + Buffer)

\* What a plan keeps back and what it sells is in the battery: the evening's
\* need, with a stale meter the raised floor, and the energy of every export.
EnergyIsThere == EveningIsKept /\ StaleKeepsBuffer /\ TradeIsBacked

\* No plan of the planner's own is ever stopped by the validator
\* (validator.py says of the power check that a caller that ran
\* clamp_plan_power normally does not hit it).
NeverRefused == Planned => ~Unsafe(request, plan, Floor, TRUE)

\* The shared savings estimate does not undercut the trading plan's own gate
\* (economics.py says of the export term that it does not by itself).
TradeGateAgrees ==
    Planned => LET t == PathT(request) IN
        (day.trade.on /\ t.trades /\ t.worth >= t.scale * request.minSavings)
          => Savings(request, t.plan) >= Scale * request.minSavings

\* A day whose plan saves less than the minimum buys nothing on speculation
\* (SPEC.md, no-trade mode: AUTO all day).
NoTradeStays ==
    (Planned /\ request.minSavings > 0
        /\ Savings(request, BuildPlan(request)) < Scale * request.minSavings)
        => \A i \in With(plan, Charge) : IsMustCharge(plan.slots[i]) \/ request.price[i] < 0
=============================================================================
