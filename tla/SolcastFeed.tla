------------------------------ MODULE SolcastFeed ------------------------------
(***************************************************************************)
(* The Solcast forecast source, src/ems/sources/solcast.py, and the stamp  *)
(* that says whether its slots carry a real P10                            *)
(* (src/ems/sources/forecast_factory.py).  Requests are paid for: one is   *)
(* made when a refresh time has gone by since the last forecast, and a     *)
(* ledger of the day, in memory and in the cache table, refuses those over *)
(* the budget.  When nothing comes, the last forecast serves, or that of   *)
(* another provider.                                                       *)
(*                                                                         *)
(* A forecast is known by the time it was asked for; day d is the times    *)
(* from d * DayLength on.                                                  *)
(***************************************************************************)
EXTENDS Integers, FiniteSets

CONSTANTS
    SunAskers,          \* threads
    DayLength,
    RefreshTimes,       \* hours of the day at which a refresh falls due
    DailyBudget,
    SunEnd              \* bound: the last hour looked at

ASSUME SolcastAssumption ==
    /\ DayLength \in Nat \ {0} /\ RefreshTimes \subseteq 0 .. DayLength - 1
    /\ {DailyBudget, SunEnd} \subseteq Nat

NoForecast == -1
Hours == 0 .. SunEnd
DayOf(h) == h \div DayLength

VARIABLES
    hour,
    forecast,           \* the forecast in memory
    forecastRow,        \* and in the cache table
    provider,           \* of whatever was served last
    ledger, ledgerRow,  \* requests of a day: in memory, in the cache table
    sunAsker,           \* the threads in slots()
    forecasts,          \* when those were asked for that this process can know of
    requests            \* how many were made today, counted to one over the budget

svars == <<hour, forecast, forecastRow, provider, ledger, ledgerRow, sunAsker, forecasts, requests>>

NoLedger == [day |-> -1, n |-> 0]
Away == [at |-> "idle", since |-> NoForecast, own |-> FALSE, loaded |-> NoLedger]

SInit ==
    /\ hour = 0
    /\ forecast = NoForecast /\ forecastRow = NoForecast /\ provider = "solcast"
    /\ ledger = NoLedger /\ ledgerRow = NoLedger
    /\ sunAsker = [a \in SunAskers |-> Away]
    /\ forecasts = {} /\ requests = 0

\* refresh_due: a refresh time of today has gone by since the last forecast.
DueSince(last) ==
    \E t \in RefreshTimes :
        LET due == DayOf(hour) * DayLength + t IN due <= hour /\ last < due
Due == forecast = NoForecast \/ DueSince(forecast)

\* SolcastBudgetLedger._load, which a new day or a restart makes read the row.
Loaded == IF ledger.day = DayOf(hour) THEN ledger
          ELSE IF ledgerRow.day = DayOf(hour) THEN ledgerRow
          ELSE [day |-> DayOf(hour), n |-> 0]
CanCall == Loaded.n < DailyBudget

\* _serve_cache and _use_fallback leave the provider in the source, where the
\* stamp finds it when slots() has returned.
ServeCache(a) ==
    /\ forecast # NoForecast
    /\ provider' = "solcast"
    /\ sunAsker' = [sunAsker EXCEPT ![a] = [Away EXCEPT !.at = "served", !.since = forecast, !.own = TRUE]]
UseFallback(a) ==
    /\ forecast = NoForecast
    /\ provider' = "fallback"
    /\ sunAsker' = [sunAsker EXCEPT ![a] = [Away EXCEPT !.at = "served"]]
Serve(a) == ServeCache(a) \/ UseFallback(a)

\* slots(), before the lock: nothing is due, or the ledger is looked at.
AskForecast(a) ==
    /\ sunAsker[a].at = "idle"
    /\ IF ~Due THEN ServeCache(a)
       ELSE /\ sunAsker' = [sunAsker EXCEPT ![a] = [@ EXCEPT !.at = "loading", !.loaded = Loaded]]
            /\ UNCHANGED provider
    /\ UNCHANGED <<hour, forecast, forecastRow, ledger, ledgerRow, forecasts, requests>>

\* can_call loads the ledger without the ledger's lock: what it has read
\* overwrites what record_call may have counted since.
LookAtLedger(a) ==
    /\ sunAsker[a].at = "loading"
    /\ ledger' = sunAsker[a].loaded
    /\ IF sunAsker[a].loaded.n < DailyBudget
       THEN /\ sunAsker' = [sunAsker EXCEPT ![a] = [Away EXCEPT !.at = "waiting"]]
            /\ UNCHANGED provider
       ELSE Serve(a)
    /\ UNCHANGED <<hour, forecast, forecastRow, ledgerRow, forecasts, requests>>

(* Mutant: who has waited for the lock asks the service in any case. *)
MutStillWanted == TRUE
StillWanted == Due

LockForecast(a) ==
    /\ sunAsker[a].at = "waiting"
    /\ \A b \in SunAskers : sunAsker[b].at # "asking"
    /\ IF StillWanted /\ CanCall
       THEN /\ sunAsker' = [sunAsker EXCEPT ![a] = [Away EXCEPT !.at = "asking", !.since = hour]]
            /\ requests' = IF requests > DailyBudget THEN requests ELSE requests + 1
            /\ UNCHANGED provider
       ELSE Serve(a) /\ UNCHANGED requests
    /\ ledger' = IF StillWanted THEN Loaded ELSE ledger
    /\ UNCHANGED <<hour, forecast, forecastRow, ledgerRow, forecasts>>

Counted(n, saved) ==
    /\ ledger' = n
    /\ ledgerRow' = IF saved THEN n ELSE ledgerRow

\* A forecast came: record_call, then the cache and its row.  Either save may
\* fail, and goes unnoticed.
ForecastComes(a, counted, saved) ==
    /\ sunAsker[a].at = "asking"
    /\ IF CanCall THEN Counted([Loaded EXCEPT !.n = @ + 1], counted)
       ELSE ledger' = Loaded /\ UNCHANGED ledgerRow
    /\ forecast' = sunAsker[a].since
    /\ forecastRow' = IF saved THEN sunAsker[a].since ELSE forecastRow
    /\ forecasts' = forecasts \union {sunAsker[a].since}
    /\ provider' = "solcast"
    /\ sunAsker' = [sunAsker EXCEPT ![a] = [@ EXCEPT !.at = "served", !.own = TRUE]]
    /\ UNCHANGED <<hour, requests>>

\* A failure is not counted, and nothing puts the next request off.
ForecastFails(a) ==
    /\ sunAsker[a].at = "asking"
    /\ Serve(a)
    /\ UNCHANGED <<hour, forecast, forecastRow, ledger, ledgerRow, forecasts, requests>>

\* _stamp_delivered_real_p10, after slots() has returned.
Stamp(a) ==
    /\ sunAsker[a].at = "served"
    /\ sunAsker' = [sunAsker EXCEPT ![a].at = IF provider = "solcast" THEN "stamped" ELSE "plain"]
    /\ UNCHANGED <<hour, forecast, forecastRow, provider, ledger, ledgerRow, forecasts, requests>>

TakeForecast(a) ==
    /\ sunAsker[a].at \in {"stamped", "plain"}
    /\ sunAsker' = [sunAsker EXCEPT ![a] = Away]
    /\ UNCHANGED <<hour, forecast, forecastRow, provider, ledger, ledgerRow, forecasts, requests>>

\* _warm_start.
SunRestart ==
    /\ forecast' = forecastRow
    /\ provider' = "solcast"
    /\ ledger' = NoLedger
    /\ sunAsker' = [a \in SunAskers |-> Away]
    /\ forecasts' = {f \in forecasts : f <= forecastRow}
    /\ UNCHANGED <<hour, forecastRow, ledgerRow, requests>>

\* A request is answered, or given up, within the hour.
SunLater ==
    /\ hour < SunEnd
    /\ \A a \in SunAskers : sunAsker[a].at # "asking"
    /\ hour' = hour + 1
    /\ requests' = IF DayOf(hour + 1) = DayOf(hour) THEN requests ELSE 0
    /\ UNCHANGED <<forecast, forecastRow, provider, ledger, ledgerRow, sunAsker, forecasts>>

SNext ==
    \/ \E a \in SunAskers :
          \/ AskForecast(a) \/ LookAtLedger(a) \/ LockForecast(a) \/ ForecastFails(a) \/ Stamp(a) \/ TakeForecast(a)
          \/ \E counted, saved \in BOOLEAN : ForecastComes(a, counted, saved)
    \/ SunRestart \/ SunLater

SSpec == SInit /\ [][SNext]_svars
-----------------------------------------------------------------------------
\* However many ask at once, and over restarts: no forecast is paid for when
\* there is one of after the last refresh time (SPEC 6.3: a fixed daylight
\* schedule), unless that one was lost with the process.
OneForecastPerRefresh ==
    [][\A a \in SunAskers :
          sunAsker[a].at # "asking" /\ sunAsker'[a].at = "asking" =>
              \A f \in forecasts : \E h \in f + 1 .. hour : h % DayLength \in RefreshTimes]_svars

\* SPEC 6.3: a refresh that would exceed the budget is refused, so that no retry
\* can burn it.
RequestsWithinBudget == requests <= DailyBudget

\* The ledger of the running process has counted every forecast of the day.
LedgerCounts ==
    ledger.day = DayOf(hour) =>
        Cardinality({f \in forecasts : DayOf(f) = DayOf(hour)}) <= ledger.n

\* forecast_factory.py: slots are stamped by the adapter that delivered them.
RealP10IsOwn == \A a \in SunAskers : sunAsker[a].at = "stamped" => sunAsker[a].own
-----------------------------------------------------------------------------
(* The inductive invariant behind OneForecastPerRefresh (proved in         *)
(* Caches_proofs).                                                         *)
Forecasts == Nat \union {NoForecast}
Ledgers == [day : Int, n : Nat]
SunPlaces == {"idle", "loading", "waiting", "asking", "served", "stamped", "plain"}

STypeOK ==
    /\ hour \in Nat
    /\ {forecast, forecastRow} \subseteq Forecasts
    /\ {ledger, ledgerRow} \subseteq Ledgers
    /\ sunAsker \in [SunAskers -> [at : SunPlaces, since : Forecasts, own : BOOLEAN, loaded : Ledgers]]
    /\ forecasts \subseteq Nat

\* A request is answered in the hour it was made.
AskedNow == \A a \in SunAskers : sunAsker[a].at = "asking" => sunAsker[a].since = hour

\* Whoever decides on a request looks at the newest forecast there is.
NewestServes ==
    /\ forecast <= hour /\ forecastRow <= hour
    /\ \A f \in forecasts : f <= forecast

SInv == STypeOK /\ AskedNow /\ NewestServes
=============================================================================
