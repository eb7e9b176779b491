----------------------------- MODULE MCPlanLoop ------------------------------
(* Small values for PlanLoop: six slots, the last two of them tomorrow's.  *)
EXTENDS PlanLoop

Base == [strategy |-> "winter", price |-> [i \in 0 .. 5 |-> <<4, 10, 2, 12, 3, 9>>[i + 1]],
         load |-> [i \in 0 .. 5 |-> <<0, 16, 0, 32, 16, 16>>[i + 1]],
         solar |-> [i \in 0 .. 5 |-> 0], lowSolar |-> [i \in 0 .. 5 |-> Unset],
         soc |-> 20, ev |-> 0, soak |-> FALSE, recovery |-> TRUE,
         cap |-> 100, cycles |-> 300, maxBuy |-> 0, minSavings |-> 0,
         must |-> Unset, mustMax |-> 0, resident |-> Unset, residentBy |-> 0,
         trade |-> [on |-> FALSE, dump |-> FALSE, cap |-> 0, least |-> 20, gain |-> 10]]

Tight == [Base EXCEPT !.cap = 60, !.minSavings = 20]
Worn == [Base EXCEPT !.cap = 0, !.cycles = 50, !.soc = 30]
Frugal == [Base EXCEPT !.minSavings = 2000, !.soc = 12]
Flat == [Base EXCEPT !.price = [i \in 0 .. 5 |-> <<4, 10, 6, 7, 3, 3>>[i + 1]], !.soc = 12]
Near == [Base EXCEPT !.must = 50, !.mustMax = 9, !.maxBuy = 1, !.soc = 12]
Asked == [Base EXCEPT !.resident = 60, !.residentBy = 3, !.mustMax = 9, !.cap = 150]
Sunny == [Base EXCEPT !.strategy = "summer", !.soak = TRUE,
                      !.price = [i \in 0 .. 5 |-> <<4, 10, -1, 12, 3, 9>>[i + 1]],
                      !.solar = [i \in 0 .. 5 |-> <<0, 0, 20, 0, 0, 36>>[i + 1]],
                      !.lowSolar = [i \in 0 .. 5 |-> <<0, 0, 10, 0, 0, 16>>[i + 1]]]
Heavy == [Sunny EXCEPT !.load = [i \in 0 .. 5 |-> <<0, 48, 0, 48, 16, 16>>[i + 1]]]
Held == [Base EXCEPT !.minSavings = 20000, !.soc = 12,
                     !.price = [i \in 0 .. 5 |-> <<9, 12, 2, 13, 2, 10>>[i + 1]],
                     !.load = [i \in 0 .. 5 |-> <<0, 16, 0, 32, 0, 16>>[i + 1]]]
Drained == [Base EXCEPT !.soc = 0, !.must = 50, !.mustMax = 20, !.load = [i \in 0 .. 5 |-> 16]]
Trader == [Base EXCEPT !.trade.on = TRUE, !.trade.cap = 80,
                       !.price = [i \in 0 .. 5 |-> <<1, 10, 2, 18, 3, 2>>[i + 1]],
                       !.load = [i \in 0 .. 5 |-> IF i = 5 THEN 8 ELSE 0]]
Lean == [Trader EXCEPT !.minSavings = 5]

MCScenarios == {Base, Tight, Worn, Frugal, Flat, Near, Asked, Sunny, Heavy, Held,
                Drained, Trader, Lean}
MCEvening == {3}
=============================================================================
