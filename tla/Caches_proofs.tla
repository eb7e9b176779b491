---------------------------- MODULE Caches_proofs ----------------------------
(***************************************************************************)
(* Proofs about what is handed out of a cache, for any number of askers    *)
(* and any of the times the modules have as constants: the price curve     *)
(* (PriceFeed), the sun forecast (SolcastFeed), the battery's readings and *)
(* the commands they follow (BatteryIO), and the memoized plan that        *)
(* carries a must-charge override (MustCharge).  The four share nothing    *)
(* but the form of the argument: what was looked up before a wait is       *)
(* related to what is there when it is used.                               *)
(***************************************************************************)
EXTENDS MustCharge, BatteryIO, PriceFeed, SolcastFeed, TLAPS
-----------------------------------------------------------------------------
(* Prices.                                                                 *)

PriceState ==
    [cached : Moments, lastOk : Moments, lastError : Moments,
     failures : Nat, fixed : BOOLEAN, next : Moments]

(* What a failure leaves to be served from.                                *)
Failed(p, t) ==
    [p EXCEPT !.next = t + RetryTtl,
              !.failures = IF @ < OutageMinFailures THEN @ + 1 ELSE @,
              !.lastError = IF @ = Never THEN t ELSE @]

LEMMA NoteFailure ==
    ASSUME NEW p \in PriceState, NEW t \in Nat
    PROVE  /\ Failed(p, t) \in PriceState
           /\ Failed(p, t).cached = p.cached /\ Failed(p, t).lastOk = p.lastOk
           /\ Failed(p, t).next = t + RetryTtl /\ t + RetryTtl \in Nat
<1> DEFINE n == IF p.failures < OutageMinFailures THEN p.failures + 1 ELSE p.failures
           e == IF p.lastError = Never THEN t ELSE p.lastError
<1>1. t + RetryTtl \in Moments /\ t + RetryTtl \in Nat /\ n \in Nat /\ e \in Moments
  BY PriceFeedAssumption DEF PriceState, Moments
<1>2. Failed(p, t) = [p EXCEPT !.next = t + RetryTtl, !.failures = n, !.lastError = e]
  BY DEF Failed
<1> HIDE DEF n, e
<1> DEFINE q == [p EXCEPT !.next = t + RetryTtl, !.failures = n, !.lastError = e]
<1>3. q \in PriceState /\ q.cached = p.cached /\ q.lastOk = p.lastOk /\ q.next = t + RetryTtl
  BY <1>1 DEF PriceState
<1> QED
  BY <1>1, <1>2, <1>3

LEMMA ServedKeeps ==
    ASSUME NEW p \in PriceState,
           NEW q \in Served(p)
    PROVE  /\ q \in PriceState
           /\ q.cached = p.cached /\ q.lastOk = p.lastOk /\ q.next = p.next
           /\ q.fixed => p.cached = Never
  BY DEF Served, PriceState

LEMMA FreshIs ==
    ASSUME PTypeOK
    PROVE  LET p == WarmStart(priceRow) IN
           /\ p \in PriceState
           /\ p.cached = p.lastOk /\ ~p.fixed
           /\ priceRow # Never =>
                 \/ moment >= priceRow + CacheTtl
                 \/ p.next # Never /\ p.next = priceRow + CacheTtl
  BY PriceFeedAssumption DEF PTypeOK, PriceState, WarmStart, Fresh, Moments, Never

LEMMA InitPInv == PInit => PInv
  BY PriceFeedAssumption
     DEF PInit, PInv, PTypeOK, RequestIsPolled, CurveIsSuccess, PutOff, WarmStart, Fresh, Moments, Never

LEMMA NextPInv == PInv /\ [PNext]_pvars => PInv'
<1> SUFFICES ASSUME PInv, [PNext]_pvars PROVE PInv'
  OBVIOUS
<1> USE PriceFeedAssumption DEF PInv, PTypeOK, RequestIsPolled, CurveIsSuccess, PutOff, NobodyAsks, Moments, Never, PriceState
<1>1. ASSUME NEW a \in PriceAskers, AskPrices(a) PROVE PInv'
  <2>1. CASE Throttled
    BY <1>1, <2>1, ServedKeeps DEF AskPrices
  <2>2. CASE ~Throttled
    BY <1>1, <2>2 DEF AskPrices
  <2> QED
    BY <2>1, <2>2
<1>2. ASSUME NEW a \in PriceAskers, LockPrices(a) PROVE PInv'
  <2>1. CASE StillDue
    BY <1>2, <2>1 DEF LockPrices, StillDue, Throttled
  <2>2. CASE ~StillDue
    BY <1>2, <2>2, ServedKeeps DEF LockPrices
  <2> QED
    BY <2>1, <2>2
<1>3. ASSUME NEW a \in PriceAskers, PricesCome(a) PROVE PInv'
  BY <1>3 DEF PricesCome
<1>4. ASSUME NEW a \in PriceAskers, PricesFail(a) PROVE PInv'
  <2>0. priceAsker[a].since = polled /\ polled \in Nat
    BY <1>4 DEF PricesFail
  <2>1. prices' \in Served(Failed(prices, polled))
    BY <1>4, <2>0 DEF PricesFail, Failed
  <2>2. /\ Failed(prices, polled) \in PriceState
        /\ Failed(prices, polled).cached = prices.cached /\ Failed(prices, polled).lastOk = prices.lastOk
        /\ Failed(prices, polled).next = polled + RetryTtl /\ polled + RetryTtl \in Nat
    BY <2>0, NoteFailure
  <2>3. /\ prices' \in PriceState
        /\ prices'.cached = prices.cached /\ prices'.lastOk = prices.lastOk
        /\ prices'.next = polled + RetryTtl /\ prices'.next \in Nat
        /\ prices'.fixed => prices.cached = Never
    BY <2>1, <2>2, ServedKeeps
  <2> QED
    BY <1>4, <2>3 DEF PricesFail
<1>5. CASE PriceRestart
  BY <1>5, FreshIs DEF PriceRestart
<1>6. CASE PriceLater
  BY <1>6 DEF PriceLater
<1>7. CASE UNCHANGED pvars
  BY <1>7 DEF pvars
<1> QED
  BY <1>1, <1>2, <1>3, <1>4, <1>5, <1>6, <1>7 DEF PNext

(* Whatever fails, comes late or is restarted, control hears of an outage  *)
(* only without a curve or with one older than the grace (slots,           *)
(* unavailable_since of the Tibber source).                                *)
THEOREM OutagesAreReal == PSpec => []NoPhantomOutage
<1>1. PInv => NoPhantomOutage
  BY DEF PInv, CurveIsSuccess, NoPhantomOutage, Unavailable
<1> QED
  BY <1>1, InitPInv, NextPInv, PTL DEF PSpec

(* However many threads ask for prices at once, the service is asked no    *)
(* sooner than the windows allow, over failures and restarts.              *)
THEOREM PollsAreSpaced == PSpec => PollsSpaced
<1>1. ASSUME PInv, PNext, NEW a \in PriceAskers,
             priceAsker[a].at # "asking", priceAsker'[a].at = "asking"
      PROVE  /\ polled # Never => moment - polled >= RetryTtl
             /\ polledWell # Never => moment - polledWell >= CacheTtl
  <2>1. LockPrices(a) /\ StillDue
    <3> USE DEF PInv, PTypeOK
    <3>1. PICK b \in PriceAskers : AskPrices(b) \/ LockPrices(b) \/ PricesCome(b) \/ PricesFail(b)
      BY <1>1 DEF PNext, PriceRestart, PriceLater
    <3>2. LockPrices(b) /\ b = a
      BY <1>1, <3>1 DEF AskPrices, LockPrices, PricesCome, PricesFail
    <3> QED
      BY <1>1, <3>2 DEF LockPrices
  <2> QED
    BY <1>1, <2>1, PriceFeedAssumption
       DEF LockPrices, StillDue, Throttled, PInv, PTypeOK, PutOff, NobodyAsks, Moments, Never
<1>2. PInv /\ [PNext]_pvars =>
         [\A a \in PriceAskers :
            priceAsker[a].at # "asking" /\ priceAsker'[a].at = "asking" =>
                /\ polled # Never => moment - polled >= RetryTtl
                /\ polledWell # Never => moment - polledWell >= CacheTtl]_pvars
  BY <1>1
<1> QED
  BY <1>2, InitPInv, NextPInv, PTL DEF PSpec, PollsSpaced
-----------------------------------------------------------------------------
(* The sun forecast.                                                       *)

Waiting == [at : SunPlaces, since : Forecasts, own : BOOLEAN, loaded : Ledgers]

LEMMA LoadedIsLedger ==
    ASSUME STypeOK
    PROVE  Loaded \in Ledgers /\ [Loaded EXCEPT !.n = @ + 1] \in Ledgers
<1>1. DayOf(hour) \in Int
  BY SolcastAssumption DEF STypeOK, DayOf
<1>2. Loaded \in Ledgers
  BY <1>1 DEF STypeOK, Ledgers, Loaded
<1> QED
  BY <1>2 DEF Ledgers

(* Serving what there is asks for nothing.                                 *)
LEMMA ServeAsksNothing ==
    ASSUME STypeOK, NEW a \in SunAskers, Serve(a)
    PROVE  /\ sunAsker' \in [SunAskers -> Waiting] /\ sunAsker'[a].at = "served"
           /\ \A b \in SunAskers \ {a} : sunAsker'[b] = sunAsker[b]
<1> DEFINE own == [Away EXCEPT !.at = "served", !.since = forecast, !.own = TRUE]
           other == [Away EXCEPT !.at = "served"]
<1>0. Away \in Waiting /\ forecast \in Forecasts /\ "served" \in SunPlaces
  BY DEF STypeOK, Waiting, Away, SunPlaces, Forecasts, NoForecast, NoLedger, Ledgers
<1>1. own \in Waiting /\ own.at = "served" /\ other \in Waiting /\ other.at = "served"
  BY <1>0 DEF Waiting
<1>2. sunAsker \in [SunAskers -> Waiting]
  BY DEF STypeOK, Waiting
<1> HIDE DEF own, other
<1>3. sunAsker' = [sunAsker EXCEPT ![a] = own] \/ sunAsker' = [sunAsker EXCEPT ![a] = other]
  BY DEF Serve, ServeCache, UseFallback, own, other
<1> QED
  BY <1>1, <1>2, <1>3

LEMMA OneAskerMoves ==
    ASSUME STypeOK, NEW a \in SunAskers, NEW w \in Waiting, sunAsker' = [sunAsker EXCEPT ![a] = w]
    PROVE  /\ sunAsker' \in [SunAskers -> Waiting] /\ sunAsker'[a] = w
           /\ \A b \in SunAskers \ {a} : sunAsker'[b] = sunAsker[b]
  BY DEF STypeOK, Waiting

LEMMA InitSInv == SInit => SInv
  BY DEF SInit, SInv, STypeOK, AskedNow, NewestServes, Away, NoLedger, NoForecast, Ledgers,
     SunPlaces, Forecasts

LEMMA NextSInv == SInv /\ [SNext]_svars => SInv'
<1> SUFFICES ASSUME SInv, [SNext]_svars PROVE SInv'
  OBVIOUS
<1>0. Loaded \in Ledgers /\ [Loaded EXCEPT !.n = @ + 1] \in Ledgers /\ NoLedger \in Ledgers
  BY LoadedIsLedger DEF SInv, NoLedger, Ledgers
<1>i. /\ Away \in Waiting /\ Away.at = "idle"
      /\ [Away EXCEPT !.at = "waiting"] \in Waiting /\ [Away EXCEPT !.at = "waiting"].at = "waiting"
      /\ LET w == [Away EXCEPT !.at = "asking", !.since = hour] IN w \in Waiting /\ w.since = hour
  <2>1. Away \in Waiting /\ Away.at = "idle" /\ hour \in Forecasts
    BY <1>0 DEF SInv, STypeOK, Waiting, Away, Forecasts, NoForecast, SunPlaces
  <2> QED
    BY <2>1 DEF Waiting, SunPlaces
<1>t. STypeOK /\ {ledger, ledgerRow} \subseteq Ledgers /\ sunAsker \in [SunAskers -> Waiting]
  BY DEF SInv, STypeOK, Waiting
(* One asker moves, and the forecasts stay as they are.                    *)
<1>a. ASSUME NEW a \in SunAskers, sunAsker' \in [SunAskers -> Waiting],
             sunAsker'[a].at = "asking" => sunAsker'[a].since = hour,
             \A b \in SunAskers \ {a} : sunAsker'[b] = sunAsker[b],
             UNCHANGED <<hour, forecast, forecastRow, forecasts>>, {ledger', ledgerRow'} \subseteq Ledgers
      PROVE  SInv'
  <2>1. STypeOK'
    BY <1>a DEF SInv, STypeOK, Waiting
  <2>2. AskedNow' /\ NewestServes'
    BY <1>a DEF SInv, AskedNow, NewestServes
  <2> QED
    BY <2>1, <2>2 DEF SInv
<1>1. ASSUME NEW a \in SunAskers, AskForecast(a) PROVE SInv'
  <2>1. CASE ~Due
    <3>1. Serve(a) /\ UNCHANGED <<hour, forecast, forecastRow, ledger, ledgerRow, forecasts>>
      BY <1>1, <2>1 DEF AskForecast, Serve
    <3> QED
      BY <1>a, <1>t, <3>1, ServeAsksNothing
  <2>2. CASE Due
    <3> DEFINE w == [sunAsker[a] EXCEPT !.at = "loading", !.loaded = Loaded]
    <3>1. w \in Waiting /\ w.at = "loading"
      BY <1>0, <1>t DEF Waiting, SunPlaces
    <3>2. sunAsker' = [sunAsker EXCEPT ![a] = w]
          /\ UNCHANGED <<hour, forecast, forecastRow, ledger, ledgerRow, forecasts>>
      BY <1>1, <2>2 DEF AskForecast
    <3> QED
      BY <1>a, <1>t, <3>1, <3>2, OneAskerMoves
  <2> QED
    BY <2>1, <2>2
<1>2. ASSUME NEW a \in SunAskers, LookAtLedger(a) PROVE SInv'
  <2>0. /\ UNCHANGED <<hour, forecast, forecastRow, forecasts, ledgerRow>>
        /\ ledger' \in Ledgers
    BY <1>2, <1>t DEF LookAtLedger, Waiting
  <2>1. CASE sunAsker' = [sunAsker EXCEPT ![a] = [Away EXCEPT !.at = "waiting"]]
    BY <1>a, <1>i, <1>t, <2>0, <2>1, OneAskerMoves
  <2>2. CASE Serve(a)
    BY <1>a, <1>t, <2>0, <2>2, ServeAsksNothing
  <2> QED
    BY <1>2, <2>1, <2>2 DEF LookAtLedger
<1>3. ASSUME NEW a \in SunAskers, LockForecast(a) PROVE SInv'
  <2>0. /\ UNCHANGED <<hour, forecast, forecastRow, forecasts, ledgerRow>>
        /\ ledger' \in Ledgers
    BY <1>0, <1>3, <1>t DEF LockForecast
  <2>1. CASE sunAsker' = [sunAsker EXCEPT ![a] = [Away EXCEPT !.at = "asking", !.since = hour]]
    BY <1>a, <1>i, <1>t, <2>0, <2>1, OneAskerMoves
  <2>2. CASE Serve(a)
    BY <1>a, <1>t, <2>0, <2>2, ServeAsksNothing
  <2> QED
    BY <1>3, <2>1, <2>2 DEF LockForecast
<1>4. ASSUME NEW a \in SunAskers, NEW counted \in BOOLEAN, NEW saved \in BOOLEAN,
             ForecastComes(a, counted, saved)
      PROVE  SInv'
  <2>1. sunAsker[a].since = hour /\ hour' = hour
    BY <1>4 DEF ForecastComes, SInv, AskedNow
  <2>2. {ledger', ledgerRow'} \subseteq Ledgers
    BY <1>0, <1>4, <1>t DEF ForecastComes, Counted
  <2>3. /\ sunAsker' \in [SunAskers -> Waiting] /\ sunAsker'[a].at = "served"
        /\ \A b \in SunAskers \ {a} : sunAsker'[b] = sunAsker[b]
    BY <1>t, <1>4 DEF ForecastComes, Waiting, SunPlaces
  <2>4. /\ forecast' = hour /\ forecastRow' \in {hour, forecastRow}
        /\ forecasts' = forecasts \union {hour}
    BY <1>4, <2>1 DEF ForecastComes
  <2>5. STypeOK'
    BY <2>1, <2>2, <2>3, <2>4 DEF Waiting, SInv, STypeOK, Forecasts
  <2>6. AskedNow'
    BY <2>1, <2>3 DEF SInv, AskedNow
  <2>7. NewestServes'
    BY <2>1, <2>4 DEF SInv, STypeOK, NewestServes, Forecasts, NoForecast
  <2> QED
    BY <2>5, <2>6, <2>7 DEF SInv
<1>5. ASSUME NEW a \in SunAskers, ForecastFails(a) PROVE SInv'
  BY <1>5, <1>a, <1>t, ServeAsksNothing DEF ForecastFails
<1>6. ASSUME NEW a \in SunAskers, Stamp(a) \/ TakeForecast(a) PROVE SInv'
  <2>1. /\ sunAsker' \in [SunAskers -> Waiting] /\ sunAsker'[a].at # "asking"
        /\ \A b \in SunAskers \ {a} : sunAsker'[b] = sunAsker[b]
    <3>1. CASE Stamp(a)
      BY <1>t, <3>1 DEF Stamp, Waiting, SunPlaces
    <3>2. CASE TakeForecast(a)
      BY <1>i, <1>t, <3>2, OneAskerMoves DEF TakeForecast
    <3> QED
      BY <1>6, <3>1, <3>2
  <2> QED
    BY <1>6, <1>a, <1>t, <2>1 DEF Stamp, TakeForecast
<1> USE DEF SInv, STypeOK, AskedNow, NewestServes, NoForecast, Forecasts, SunPlaces
<1>7. CASE SunRestart
  BY <1>0, <1>7 DEF SunRestart, Away
<1>8. CASE SunLater
  BY <1>8 DEF SunLater
<1>9. CASE UNCHANGED svars
  BY <1>9 DEF svars
<1> QED
  BY <1>1, <1>2, <1>3, <1>4, <1>5, <1>6, <1>7, <1>8, <1>9 DEF SNext

(* A refresh that is due falls on a refresh time after the last forecast.  *)
LEMMA DueIsRefresh ==
    ASSUME STypeOK, NEW f \in Nat, DueSince(f)
    PROVE  \E h \in f + 1 .. hour : h % DayLength \in RefreshTimes
<1>1. PICK t \in RefreshTimes :
         DayOf(hour) * DayLength + t <= hour /\ f < DayOf(hour) * DayLength + t
  BY DEF DueSince
<1> DEFINE d == DayOf(hour)
<1>2. d \in Nat /\ t \in 0 .. DayLength - 1 /\ DayLength \in Nat \ {0}
  BY SolcastAssumption DEF STypeOK, DayOf
<1> HIDE DEF d
<1>3. (d * DayLength + t) % DayLength = t
  BY <1>2
<1>4. d * DayLength \in Nat /\ hour \in Nat
  BY <1>2 DEF STypeOK
<1>5. d * DayLength + t \in f + 1 .. hour
  BY <1>1, <1>2, <1>4 DEF d
<1> QED
  BY <1>3, <1>5

(* However many threads find a refresh due at once, and whatever was lost  *)
(* with a process, one forecast is paid for per refresh time (slots,       *)
(* refresh_due of the Solcast source).                                     *)
THEOREM RefreshesArePaidOnce == SSpec => OneForecastPerRefresh
<1>1. ASSUME SInv, SNext, NEW a \in SunAskers,
             sunAsker[a].at # "asking", sunAsker'[a].at = "asking", NEW f \in forecasts
      PROVE  \E h \in f + 1 .. hour : h % DayLength \in RefreshTimes
  <2>1. Due
    <3> USE DEF SInv
    <3>1. CASE SunRestart \/ SunLater
      BY <1>1, <3>1 DEF SunRestart, SunLater, Away
    <3>2. ASSUME NEW b \in SunAskers, NEW counted \in BOOLEAN, NEW saved \in BOOLEAN,
                 ForecastComes(b, counted, saved)
          PROVE  FALSE
      BY <1>1, <3>2 DEF ForecastComes, STypeOK
    <3>3. ASSUME NEW b \in SunAskers, ForecastFails(b) \/ Stamp(b) \/ TakeForecast(b)
          PROVE  FALSE
      BY <1>1, <3>3, ServeAsksNothing DEF ForecastFails, Stamp, TakeForecast, STypeOK, Away
    <3>4. ASSUME NEW b \in SunAskers, AskForecast(b) PROVE FALSE
      <4>1. CASE Serve(b)
        BY <1>1, <4>1, ServeAsksNothing
      <4>2. CASE ~Serve(b)
        BY <1>1, <3>4, <4>2 DEF AskForecast, STypeOK, Serve
      <4> QED
        BY <4>1, <4>2
    <3>5. ASSUME NEW b \in SunAskers, LookAtLedger(b) PROVE FALSE
      <4>1. CASE Serve(b)
        BY <1>1, <4>1, ServeAsksNothing
      <4>2. CASE ~Serve(b)
        BY <1>1, <3>5, <4>2 DEF LookAtLedger, STypeOK, Away
      <4> QED
        BY <4>1, <4>2
    <3>6. ASSUME NEW b \in SunAskers, LockForecast(b) PROVE Due
      <4>1. CASE Serve(b)
        BY <1>1, <4>1, ServeAsksNothing
      <4>2. CASE ~Serve(b)
        BY <1>1, <3>6, <4>2 DEF LockForecast, StillWanted
      <4> QED
        BY <4>1, <4>2
    <3> QED
      BY <1>1, <3>1, <3>2, <3>3, <3>4, <3>5, <3>6 DEF SNext
  <2>2. forecast # NoForecast /\ f <= forecast /\ f \in Nat /\ forecast \in Nat
    BY <1>1 DEF SInv, STypeOK, NewestServes, NoForecast, Forecasts
  <2>3. PICK h \in forecast + 1 .. hour : h % DayLength \in RefreshTimes
    BY <1>1, <2>1, <2>2, DueIsRefresh DEF SInv, Due
  <2>4. h \in f + 1 .. hour
    BY <2>2, <2>3
  <2> QED
    BY <2>3, <2>4
<1>2. SInv /\ [SNext]_svars =>
         [\A a \in SunAskers :
            sunAsker[a].at # "asking" /\ sunAsker'[a].at = "asking" =>
                \A f \in forecasts : \E h \in f + 1 .. hour : h % DayLength \in RefreshTimes]_svars
  BY <1>1
<1> QED
  BY <1>2, InitSInv, NextSInv, PTL DEF SSpec, OneForecastPerRefresh
-----------------------------------------------------------------------------
(* The battery.                                                            *)

BeliefState == [requested : Known, confirmed : Known, unconfirmed : BOOLEAN]
MasterState == [rt : BOOLEAN, state : Forced]
ReadState == [at : {"idle", "asking", "measured", "got"}, age : 0 .. Eldest, what : What]
TickState == [at : {"idle", "looked", "skipped"}, want : Known, what : What]
DriverState == [busy : BOOLEAN, want : Known, done : 0 .. 3, left : 0 .. Attempts, fallback : BOOLEAN]

(* What each mode takes to write.                                          *)
LEMMA CommandsAre ==
    ASSUME NEW want \in Modes
    PROVE  LET all == Commands(want)
           IN  /\ Len(all) = IF want = "charge" THEN 4 ELSE 2
               /\ want = "auto" => all[1] = "auto" /\ all[2] = "slave"
               /\ want = "idle" => all[1] = "realtime" /\ all[2] = "idle"
               /\ want = "charge" =>
                     all[1] = "realtime" /\ all[2] = "power" /\ all[3] = "soc" /\ all[4] = "charge"
<1>1. CASE want = "auto"
  <2>1. Commands(want) = <<"auto", "slave">>
    BY <1>1 DEF Commands
  <2> QED
    BY <1>1, <2>1
<1>2. CASE want = "idle"
  <2>1. Commands(want) = <<"realtime", "idle">>
    BY <1>2 DEF Commands
  <2> QED
    BY <1>2, <2>1
<1>3. CASE want = "charge"
  <2>1. Commands(want) = <<"realtime", "power", "soc", "charge">>
    BY <1>3 DEF Commands
  <2> QED
    BY <1>3, <2>1
<1> QED
  BY <1>1, <1>2, <1>3 DEF Modes

(* What each write does.                                                   *)
LEMMA WritesDo ==
    ASSUME BTypeOK
    PROVE  /\ Lands("slave") =>
                 slave' = "auto" /\ master' = master /\ setpoints' = setpoints
           /\ Lands("auto") =>
                 /\ slave' = slave /\ setpoints' = setpoints
                 /\ master' \in MasterState /\ ~master'.rt
           /\ Lands("realtime") =>
                 /\ slave' = slave /\ setpoints' = setpoints
                 /\ master' \in MasterState /\ master'.rt
           /\ Lands("power") =>
                 slave' = slave /\ setpoints' = setpoints \union {"power"} /\ master' = master
           /\ Lands("soc") =>
                 slave' = slave /\ setpoints' = setpoints \union {"soc"} /\ master' = master
           /\ \A state \in Forced : Lands(state) =>
                 /\ slave' = slave /\ setpoints' = setpoints
                 /\ master' \in MasterState /\ master'.state = state /\ master'.rt = master.rt
<1> USE DEF BTypeOK, MasterState, Forced, Modes
<1>1. Lands("slave") =>
         slave' = "auto" /\ master' = master /\ setpoints' = setpoints
  BY DEF Lands
<1>2. ASSUME Lands("auto")
      PROVE  /\ slave' = slave /\ setpoints' = setpoints
             /\ master' \in MasterState /\ ~master'.rt
  <2>1. master' = [master EXCEPT !.rt = FALSE]
    BY <1>2 DEF Lands
  <2> QED
    BY <1>2, <2>1 DEF Lands
<1>3. ASSUME Lands("realtime")
      PROVE  /\ slave' = slave /\ setpoints' = setpoints
             /\ master' \in MasterState /\ master'.rt
  <2>1. PICK s \in {master.state, "idle"} : master' = [rt |-> TRUE, state |-> s]
    BY <1>3 DEF Lands
  <2> QED
    BY <1>3, <2>1 DEF Lands
<1>4. Lands("power") =>
         slave' = slave /\ setpoints' = setpoints \union {"power"} /\ master' = master
  BY DEF Lands
<1>5. Lands("soc") =>
         slave' = slave /\ setpoints' = setpoints \union {"soc"} /\ master' = master
  BY DEF Lands
<1>6. ASSUME NEW state \in Forced, Lands(state)
      PROVE  /\ slave' = slave /\ setpoints' = setpoints
             /\ master' \in MasterState /\ master'.state = state /\ master'.rt = master.rt
  BY <1>6 DEF Lands
<1> QED
  BY <1>1, <1>2, <1>3, <1>4, <1>5, <1>6

(* What the cluster is like when a write has landed, the first time or     *)
(* again.                                                                  *)
LEMMA WriteLands ==
    ASSUME BTypeOK, DutyIsReal, AcceptedHolds, driver.busy, Lands(NextWrite)
    PROVE  /\ master' \in MasterState /\ slave' \in Modes
           /\ setpoints' \subseteq {"power", "soc"} /\ setpoints \subseteq setpoints'
           /\ master'.rt <=> driver.want # "auto"
           /\ driver.want = "charge" /\ driver.done > 0 => "power" \in setpoints'
           /\ driver.want = "charge" /\ driver.done > 1 => "soc" \in setpoints'
           /\ driver.done + 1 = Len(Commands(driver.want)) =>
                 /\ driver.want = "auto" => slave' = "auto"
                 /\ driver.want # "auto" => master'.state = driver.want
                 /\ driver.want = "charge" => setpoints' = {"power", "soc"}
<1>1. /\ driver.want \in {"auto", "idle", "charge"} /\ driver.done \in 0 .. 3
      /\ driver.done < Len(Commands(driver.want))
      /\ slave \in Modes /\ master \in MasterState /\ setpoints \subseteq {"power", "soc"}
  BY DEF BTypeOK, DutyIsReal, Modes, MasterState
<1>2. /\ driver.done > 0 => (master.rt <=> driver.want # "auto")
      /\ driver.want = "charge" /\ driver.done > 1 => "power" \in setpoints
      /\ driver.want = "charge" /\ driver.done > 2 => "soc" \in setpoints
  BY <1>1 DEF AcceptedHolds
<1> DEFINE Done ==
             /\ master' \in MasterState /\ slave' \in Modes
             /\ master'.rt <=> driver.want # "auto"
             /\ driver.want = "charge" /\ driver.done = 1 => "power" \in setpoints'
             /\ driver.want = "charge" /\ driver.done = 2 => "soc" \in setpoints'
             /\ driver.done + 1 = Len(Commands(driver.want)) =>
                   /\ driver.want = "auto" => slave' = "auto"
                   /\ driver.want # "auto" => master'.state = driver.want
<1>3. ASSUME driver.want = "auto" PROVE Done
  <2>0. Len(Commands(driver.want)) = 2
    BY <1>3, CommandsAre DEF Modes
  <2>1. driver.done \in {0, 1}
    BY <1>1, <2>0
  <2>2. CASE driver.done = 0
    <3>1. Lands("auto")
      BY <1>3, <2>2, CommandsAre DEF NextWrite, Modes
    <3>2. slave' = slave /\ setpoints' = setpoints /\ master' \in MasterState /\ ~master'.rt
      BY <3>1, WritesDo
    <3>3. slave' \in Modes /\ driver.done + 1 # Len(Commands(driver.want))
      BY <1>1, <2>0, <2>2, <3>2
    <3> QED
      BY <1>3, <2>2, <3>2, <3>3
  <2>3. CASE driver.done = 1
    <3>1. Lands("slave")
      BY <1>3, <2>3, CommandsAre DEF NextWrite, Modes
    <3>2. slave' = "auto" /\ setpoints' = setpoints /\ master' = master
      BY <3>1, WritesDo
    <3> QED
      BY <1>1, <1>2, <1>3, <2>0, <2>1, <2>3, <3>2 DEF Modes
  <2> QED
    BY <2>1, <2>2, <2>3
<1>4. ASSUME driver.want = "idle" PROVE Done
  <2>0. Len(Commands(driver.want)) = 2
    BY <1>4, CommandsAre DEF Modes
  <2>1. driver.done \in {0, 1}
    BY <1>1, <2>0
  <2>2. CASE driver.done = 0
    <3>1. Lands("realtime")
      BY <1>4, <2>2, CommandsAre DEF NextWrite, Modes
    <3>2. slave' = slave /\ setpoints' = setpoints /\ master' \in MasterState /\ master'.rt
      BY <3>1, WritesDo
    <3> QED
      BY <1>1, <1>2, <1>4, <2>0, <2>1, <2>2, <3>2
  <2>3. CASE driver.done = 1
    <3>1. Lands("idle") /\ "idle" \in Forced
      BY <1>4, <2>3, CommandsAre DEF NextWrite, Modes, Forced
    <3>2. /\ slave' = slave /\ setpoints' = setpoints
          /\ master' \in MasterState /\ master'.state = "idle" /\ master'.rt = master.rt
      BY <3>1, WritesDo
    <3> QED
      BY <1>1, <1>2, <1>4, <2>0, <2>1, <2>3, <3>2 DEF Modes
  <2> QED
    BY <2>1, <2>2, <2>3
<1>5. ASSUME driver.want = "charge" PROVE Done
  <2>0. Len(Commands(driver.want)) = 4
    BY <1>5, CommandsAre DEF Modes
  <2>1. driver.done \in {0, 1, 2, 3}
    BY <1>1, <2>0
  <2>2. CASE driver.done = 0
    <3>1. Lands("realtime")
      BY <1>5, <2>2, CommandsAre DEF NextWrite, Modes
    <3>2. slave' = slave /\ setpoints' = setpoints /\ master' \in MasterState /\ master'.rt
      BY <3>1, WritesDo
    <3> QED
      BY <1>1, <1>2, <1>5, <2>0, <2>1, <2>2, <3>2
  <2>3. CASE driver.done = 1
    <3>1. Lands("power")
      BY <1>5, <2>3, CommandsAre DEF NextWrite, Modes
    <3>2. slave' = slave /\ setpoints' = setpoints \union {"power"} /\ master' = master
      BY <3>1, WritesDo
    <3> QED
      BY <1>1, <1>2, <1>5, <2>0, <2>1, <2>3, <3>2
  <2>4. CASE driver.done = 2
    <3>1. Lands("soc")
      BY <1>5, <2>4, CommandsAre DEF NextWrite, Modes
    <3>2. slave' = slave /\ setpoints' = setpoints \union {"soc"} /\ master' = master
      BY <3>1, WritesDo
    <3> QED
      BY <1>1, <1>2, <1>5, <2>0, <2>1, <2>4, <3>2
  <2>5. CASE driver.done = 3
    <3>1. Lands("charge") /\ "charge" \in Forced
      BY <1>5, <2>5, CommandsAre DEF NextWrite, Modes, Forced
    <3>2. /\ slave' = slave /\ setpoints' = setpoints
          /\ master' \in MasterState /\ master'.state = "charge" /\ master'.rt = master.rt
      BY <3>1, WritesDo
    <3> QED
      BY <1>1, <1>2, <1>5, <2>0, <2>1, <2>5, <3>2 DEF Modes
  <2> QED
    BY <2>1, <2>2, <2>3, <2>4, <2>5
<1>6. Done
  BY <1>1, <1>3, <1>4, <1>5
<1>7. setpoints' \subseteq {"power", "soc"} /\ setpoints \subseteq setpoints'
  BY <1>1 DEF Lands
<1> HIDE DEF Done
<1>8. /\ driver.want = "charge" /\ driver.done > 0 => "power" \in setpoints'
      /\ driver.want = "charge" /\ driver.done > 1 => "soc" \in setpoints'
  BY <1>1, <1>2, <1>6, <1>7 DEF Done
<1>9. driver.want = "charge" => Len(Commands(driver.want)) = 4
  BY CommandsAre DEF Modes
<1>10. ASSUME driver.done + 1 = Len(Commands(driver.want)), driver.want = "charge"
       PROVE  setpoints' = {"power", "soc"}
  <2>0. driver.done = 3
    <3>1. driver.done + 1 = 4
      BY <1>9, <1>10
    <3>2. driver.done \in 0 .. 3
      BY <1>1
    <3> QED
      BY <3>1, <3>2
  <2>1. "power" \in setpoints' /\ "soc" \in setpoints'
    BY <1>8, <1>10, <2>0
  <2> QED
    BY <1>7, <2>1
<1> QED
  BY <1>6, <1>7, <1>8, <1>10 DEF Done

(* How the answer of apply() leaves the controller.                        *)
LEMMA ConcludeIs ==
    ASSUME BTypeOK, DutyIsReal, driver.busy,
           NEW answer \in {"accepted", "rejected", "unconfirmed"}, Conclude(answer)
    PROVE  /\ driver' \in DriverState /\ quiet' \in Nat /\ belief' \in BeliefState
           /\ DutyIsReal' /\ AcceptedHolds'
           /\ ~driver'.busy /\ ~belief'.unconfirmed =>
                 answer = "accepted" /\ belief'.confirmed = driver.want
<1>1. /\ NoDuty \in DriverState /\ ~NoDuty.busy
      /\ Duty("auto", TRUE) \in DriverState /\ Duty("auto", TRUE).want = "auto" /\ Duty("auto", TRUE).done = 0
      /\ Duty("auto", TRUE).left > 0
      /\ SettleTime \in Nat /\ "auto" \in Modes /\ driver.want \in Known /\ "none" \in Known
  BY BatteryAssumption DEF NoDuty, Duty, DriverState, Known, Modes, BTypeOK
<1>d. ASSUME driver'.busy => driver'.want = "auto" /\ driver'.done = 0 /\ driver'.left > 0
      PROVE  DutyIsReal' /\ AcceptedHolds'
  <2>1. "auto" \in Modes /\ Len(Commands("auto")) = 2
    BY CommandsAre DEF Modes
  <2>2. driver'.busy => driver'.want = "auto" /\ driver'.done = 0 /\ Len(Commands(driver'.want)) = 2
    BY <1>d, <2>1
  <2>3. DutyIsReal'
    <3>0. 0 < 2
      OBVIOUS
    <3>1. driver'.busy => driver'.want \in Modes /\ driver'.done < Len(Commands(driver'.want))
      BY <2>1, <2>2, <3>0, Zenon
    <3> QED
      BY <1>d, <2>2, <3>1 DEF DutyIsReal
  <2>4. AcceptedHolds'
    BY <2>2 DEF AcceptedHolds
  <2> QED
    BY <2>3, <2>4
<1>2. belief \in BeliefState
  BY DEF BTypeOK, BeliefState
<1>3. CASE answer = "rejected" /\ ~driver.fallback
  <2>1. driver' = Duty("auto", TRUE) /\ quiet' = SettleTime /\ belief' = belief
    BY <1>3 DEF Conclude
  <2>2. Duty("auto", TRUE).busy
    BY DEF Duty
  <2> QED
    BY <1>1, <1>2, <1>d, <2>1, <2>2
<1>4. CASE ~(answer = "rejected" /\ ~driver.fallback)
  <2>1. driver' = NoDuty /\ quiet' = SettleTime
    BY <1>4 DEF Conclude
  <2>2. CASE answer = "accepted"
    <3>1. belief' = [belief EXCEPT !.confirmed = driver.want, !.unconfirmed = FALSE]
      BY <1>4, <2>2 DEF Conclude
    <3>2. belief' \in BeliefState /\ belief'.confirmed = driver.want
      BY <1>1, <1>2, <3>1 DEF BeliefState
    <3> QED
      BY <1>1, <1>d, <2>1, <2>2, <3>2
  <2>3. CASE answer # "accepted"
    <3>1. \/ belief' = [belief EXCEPT !.confirmed = "none", !.unconfirmed = TRUE]
          \/ belief' = [belief EXCEPT !.unconfirmed = TRUE]
      BY <1>4, <2>3 DEF Conclude
    <3>2. belief' \in BeliefState /\ belief'.unconfirmed
      BY <1>1, <1>2, <3>1 DEF BeliefState
    <3> QED
      BY <1>1, <1>d, <2>1, <3>2
  <2> QED
    BY <2>2, <2>3
<1> QED
  BY <1>3, <1>4

(* A write that has landed makes every reading old.                        *)
LEMMA OutdatedIs ==
    /\ \A c \in Snapshot :
          Outdated(c) \in Snapshot /\ (Outdated(c).what.direct => Outdated(c).what.old)
    /\ \A c \in ReadState :
          Outdated(c) \in ReadState /\ (Outdated(c).what.direct => Outdated(c).what.old)
<1>1. \A w \in What : [w EXCEPT !.old = TRUE] \in What /\ [w EXCEPT !.old = TRUE].old
  BY DEF What
<1>2. ~Unread.direct
  BY DEF Unread
<1> HIDE DEF What, Unread
<1>3. \A c \in Snapshot : c.what # Unread =>
         /\ Outdated(c) = [c EXCEPT !.what = [c.what EXCEPT !.old = TRUE]]
         /\ Outdated(c) \in Snapshot /\ Outdated(c).what = [c.what EXCEPT !.old = TRUE]
  BY <1>1 DEF Outdated, Snapshot
<1>4. \A c \in ReadState : c.what # Unread =>
         /\ Outdated(c) = [c EXCEPT !.what = [c.what EXCEPT !.old = TRUE]]
         /\ Outdated(c) \in ReadState /\ Outdated(c).what = [c.what EXCEPT !.old = TRUE]
  BY <1>1 DEF Outdated, ReadState
<1> QED
  BY <1>1, <1>2, <1>3, <1>4 DEF Outdated, Snapshot, ReadState

(* What a post leaves behind, lost or landed: readings that say nothing    *)
(* of the master any more, or are as they were.                            *)
LEMMA AfterPost ==
    ASSUME BInv, driver.busy, UNCHANGED tick,
           \/ Lands(NextWrite) /\ ReadingsAge
           \/ UNCHANGED <<battery, cluster, read, towers>>
    PROVE  /\ master' \in MasterState /\ slave' \in Modes /\ setpoints' \subseteq {"power", "soc"}
           /\ cluster' \in Snapshot /\ towers' \in Snapshot /\ read' \in ReadState
           /\ tick' \in TickState /\ tick'.at = "idle"
           /\ ReadingsAreTrue' /\ TickIsQuiet'
<1>1. /\ master \in MasterState /\ slave \in Modes /\ setpoints \subseteq {"power", "soc"}
      /\ cluster \in Snapshot /\ towers \in Snapshot /\ read \in ReadState
      /\ tick \in TickState /\ tick.at = "idle"
  BY DEF BInv, BTypeOK, MasterState, ReadState, TickState, TickIsQuiet
<1>2. TickIsQuiet'
  BY <1>1 DEF TickIsQuiet
<1>3. CASE Lands(NextWrite) /\ ReadingsAge
  <2>1. /\ cluster' \in Snapshot /\ towers' \in Snapshot /\ read' \in ReadState
        /\ cluster'.what.direct => cluster'.what.old
        /\ towers'.what.direct => towers'.what.old
        /\ read'.what.direct => read'.what.old
    BY <1>1, <1>3, OutdatedIs DEF ReadingsAge
  <2>2. ReadingsAreTrue'
    BY <1>1, <2>1 DEF ReadingsAreTrue, IsTrue
  <2>3. /\ master' \in MasterState /\ slave' \in Modes /\ setpoints' \subseteq {"power", "soc"}
    BY <1>3, WriteLands DEF BInv
  <2> QED
    BY <1>1, <1>2, <2>1, <2>2, <2>3
<1>4. CASE UNCHANGED <<battery, cluster, read, towers>>
  <2>1. ReadingsAreTrue'
    BY <1>4 DEF BInv, ReadingsAreTrue, IsTrue, battery, Actual, InForceOn
  <2> QED
    BY <1>1, <1>2, <1>4, <2>1 DEF battery
<1> QED
  BY <1>3, <1>4

LEMMA InitBInv == BInit => BInv /\ AgesAreTrue
<1> SUFFICES ASSUME BInit PROVE BInv /\ AgesAreTrue
  OBVIOUS
<1>1. /\ Eldest \in Nat /\ Eldest >= ReaderCache /\ Eldest >= Window
      /\ Unread \in What /\ ~Unread.direct /\ Unread.taken = 0
      /\ NoReading \in Snapshot /\ NoReading.what = Unread /\ NoReading.age = Eldest
  BY BatteryAssumption DEF Eldest, Unread, What, NoReading, Snapshot, Known
<1>2. /\ NotReading \in ReadState /\ NotReading.what = Unread /\ NotReading.at = "idle" /\ NotReading.age = 0
      /\ NoTick \in TickState /\ NoTick.at = "idle"
  BY <1>1 DEF NotReading, NoTick, ReadState, TickState, Known
<1>3. BTypeOK
  <2>1. NoDuty \in DriverState
    BY BatteryAssumption DEF NoDuty, DriverState, Known
  <2> QED
    BY <1>1, <1>2, <2>1 DEF BInit, BTypeOK, DriverState, Known, Modes, ReadState, TickState
<1>4. DutyIsReal /\ AcceptedHolds /\ ClusterFollows /\ TickIsQuiet
  BY <1>2 DEF BInit, DutyIsReal, AcceptedHolds, ClusterFollows, TickIsQuiet, NoDuty
<1>5. ReadingsAreTrue
  BY <1>1, <1>2 DEF BInit, ReadingsAreTrue, IsTrue
<1>6. AgesAreTrue
  BY <1>1, <1>2, BatteryAssumption DEF BInit, AgesAreTrue, Recent
<1> QED
  BY <1>3, <1>4, <1>5, <1>6 DEF BInv

(* A step of the readers or of the clock: the battery is left alone, and   *)
(* what is known of it stays true of it.                                   *)
LEMMA ReadersLeaveAlone ==
    ASSUME BInv, UNCHANGED <<battery, driver, belief, tick>>, quiet' \in Nat,
           cluster' \in Snapshot, towers' \in Snapshot, read' \in ReadState,
           IsTrue(cluster'.what), IsTrue(towers'.what), IsTrue(read'.what)
    PROVE  BInv'
<1>1. BTypeOK'
  BY DEF BInv, BTypeOK, battery, ReadState
<1>2. DutyIsReal' /\ AcceptedHolds' /\ ClusterFollows' /\ TickIsQuiet'
  BY DEF BInv, DutyIsReal, AcceptedHolds, ClusterFollows, TickIsQuiet, Already, battery, Actual, InForceOn
<1>3. ReadingsAreTrue'
  BY DEF BInv, ReadingsAreTrue, IsTrue, battery, Actual, InForceOn
<1> QED
  BY <1>1, <1>2, <1>3 DEF BInv

(* A step of the tick that sends nothing.                                  *)
LEMMA TicksLeaveAlone ==
    ASSUME BInv, UNCHANGED <<battery, commanding, cluster, read, towers>>,
           tick' \in TickState, TickIsQuiet', tick'.at # "idle" => IsTrue(tick'.what)
    PROVE  BInv'
<1>1. BTypeOK'
  BY DEF BInv, BTypeOK, battery, commanding, TickState
<1>2. DutyIsReal' /\ AcceptedHolds' /\ ClusterFollows'
  BY DEF BInv, DutyIsReal, AcceptedHolds, ClusterFollows, battery, commanding, Actual, InForceOn
<1>3. ReadingsAreTrue'
  BY DEF BInv, ReadingsAreTrue, IsTrue, battery, Actual, InForceOn
<1> QED
  BY <1>1, <1>2, <1>3 DEF BInv

(* What the master tells is so.                                            *)
LEMMA MasterTells ==
    ASSUME BTypeOK, NEW online \in SUBSET {"master", "slave"}, NEW what \in Readings(online)
    PROVE  what \in What /\ IsTrue(what) /\ what.taken = 0
<1> DEFINE d == "master" \in online
<1> HIDE DEF d
<1>1. PICK mode \in Seen(online) : what = [Unread EXCEPT !.mode = mode, !.direct = "master" \in online]
  BY DEF Readings
<1>2. Unread \in What /\ Unread.taken = 0
  BY BatteryAssumption DEF Unread, What, Known, Eldest
<1>3. Seen(online) \subseteq Known /\ ("master" \in online => mode \in Labels(Actual))
  BY <1>1 DEF Seen, Labels, Actual, InForceOn, Known, Modes, Forced, BTypeOK
<1>4. what = [Unread EXCEPT !.mode = mode, !.direct = d] /\ d \in BOOLEAN /\ mode \in Known
  BY <1>1, <1>3 DEF d
<1>5. what \in What /\ what.mode = mode /\ what.direct = d /\ what.taken = 0
  BY <1>2, <1>4 DEF What
<1> QED
  BY <1>3, <1>5 DEF IsTrue, d

LEMMA Ageing ==
    /\ \A n \in 0 .. Eldest : Older(n) \in 0 .. Eldest
    /\ \A c \in Snapshot : /\ Aged(c) \in Snapshot /\ Aged(c).age = Older(c.age)
                           /\ Aged(c).what = [c.what EXCEPT !.taken = Older(@)]
                           /\ IsTrue(c.what) => IsTrue(Aged(c).what)
    /\ \A c \in ReadState : /\ Aged(c) \in ReadState /\ Aged(c).at = c.at /\ Aged(c).age = Older(c.age)
                            /\ Aged(c).what = [c.what EXCEPT !.taken = Older(@)]
                            /\ IsTrue(c.what) => IsTrue(Aged(c).what)
<1>1. \A n \in 0 .. Eldest : Older(n) \in 0 .. Eldest
  BY BatteryAssumption DEF Older, Eldest
<1>2. \A w \in What : [w EXCEPT !.taken = Older(@)] \in What
  BY <1>1 DEF What
<1>3. ASSUME NEW c \in Snapshot
      PROVE  /\ Aged(c) \in Snapshot /\ Aged(c).age = Older(c.age)
             /\ Aged(c).what = [c.what EXCEPT !.taken = Older(@)]
  BY <1>1, <1>2 DEF Aged, Snapshot
<1>4. ASSUME NEW c \in ReadState
      PROVE  /\ Aged(c) \in ReadState /\ Aged(c).at = c.at /\ Aged(c).age = Older(c.age)
             /\ Aged(c).what = [c.what EXCEPT !.taken = Older(@)]
  BY <1>1, <1>2 DEF Aged, ReadState
<1>5. \A w \in What : IsTrue(w) => IsTrue([w EXCEPT !.taken = Older(@)])
  BY DEF IsTrue, What
<1>6. \A c \in Snapshot \union ReadState : c.what \in What
  BY DEF Snapshot, ReadState
<1> QED
  BY <1>1, <1>3, <1>4, <1>5, <1>6

LEMMA NextBInv == BInv /\ [BNext]_bvars => BInv'
<1> SUFFICES ASSUME BInv, [BNext]_bvars PROVE BInv'
  OBVIOUS
<1>t. /\ BTypeOK /\ DutyIsReal /\ AcceptedHolds /\ ClusterFollows /\ TickIsQuiet /\ ReadingsAreTrue
      /\ cluster \in Snapshot /\ towers \in Snapshot /\ read \in ReadState /\ tick \in TickState
      /\ belief \in BeliefState /\ driver \in DriverState /\ quiet \in Nat
  BY DEF BInv, BTypeOK, ReadState, TickState, BeliefState, DriverState
<1>n. /\ Unread \in What /\ ~Unread.direct /\ NoReading \in Snapshot /\ NoReading.what = Unread
      /\ NotReading \in ReadState /\ NotReading.what = Unread /\ NoTick \in TickState /\ NoTick.at = "idle"
      /\ IsTrue(Unread)
  BY BatteryAssumption
     DEF Unread, NoReading, NotReading, NoTick, What, Snapshot, ReadState, TickState, Known, Eldest, IsTrue
(* A post ends the command, or it goes on.                                 *)
<1>c. ASSUME driver.busy, NEW answer \in {"accepted", "rejected", "unconfirmed"}, Conclude(answer),
             UNCHANGED tick,
             \/ Lands(NextWrite) /\ ReadingsAge
             \/ UNCHANGED <<battery, cluster, read, towers>>,
             answer = "accepted" =>
                Lands(NextWrite) /\ driver.done + 1 = Len(Commands(driver.want))
      PROVE  BInv'
  <2>1. /\ master' \in MasterState /\ slave' \in Modes /\ setpoints' \subseteq {"power", "soc"}
        /\ cluster' \in Snapshot /\ towers' \in Snapshot /\ read' \in ReadState
        /\ tick' \in TickState /\ ReadingsAreTrue' /\ TickIsQuiet'
    BY <1>c, AfterPost
  <2>2. /\ driver' \in DriverState /\ quiet' \in Nat /\ belief' \in BeliefState
        /\ DutyIsReal' /\ AcceptedHolds'
        /\ ~driver'.busy /\ ~belief'.unconfirmed => answer = "accepted" /\ belief'.confirmed = driver.want
    BY <1>c, <1>t, ConcludeIs
  <2>3. ClusterFollows'
    <3> SUFFICES ASSUME ~driver'.busy, ~belief'.unconfirmed
                 PROVE  /\ Actual' = belief'.confirmed
                        /\ belief'.confirmed = "auto" => slave' = "auto"
                        /\ belief'.confirmed = "charge" => setpoints' = {"power", "soc"}
      BY DEF ClusterFollows
    <3>1. Lands(NextWrite) /\ driver.done + 1 = Len(Commands(driver.want)) /\ belief'.confirmed = driver.want
      BY <1>c, <2>2
    <3>2. /\ master'.rt <=> driver.want # "auto"
          /\ driver.want = "auto" => slave' = "auto"
          /\ driver.want # "auto" => master'.state = driver.want
          /\ driver.want = "charge" => setpoints' = {"power", "soc"}
      BY <1>c, <1>t, <3>1, WriteLands
    <3> QED
      BY <3>1, <3>2 DEF Actual, InForceOn
  <2> QED
    BY <2>1, <2>2, <2>3 DEF BInv, BTypeOK, MasterState, DriverState, BeliefState, ReadState, TickState
<1>g. ASSUME driver.busy, UNCHANGED <<belief, quiet, tick>>,
             driver' \in DriverState, driver'.busy, driver'.want = driver.want,
             driver'.fallback = driver.fallback, driver'.done < Len(Commands(driver.want)), driver'.left > 0,
             \/ Lands(NextWrite) /\ ReadingsAge /\ driver'.done \in {driver.done, driver.done + 1}
             \/ UNCHANGED <<battery, cluster, read, towers>> /\ driver'.done = driver.done
      PROVE  BInv'
  <2>1. /\ master' \in MasterState /\ slave' \in Modes /\ setpoints' \subseteq {"power", "soc"}
        /\ cluster' \in Snapshot /\ towers' \in Snapshot /\ read' \in ReadState
        /\ tick' \in TickState /\ ReadingsAreTrue' /\ TickIsQuiet'
    BY <1>g, AfterPost
  <2>2. DutyIsReal' /\ ClusterFollows'
    BY <1>g, <1>t DEF DutyIsReal, ClusterFollows
  <2>3. AcceptedHolds'
    <3>1. CASE Lands(NextWrite) /\ driver'.done \in {driver.done, driver.done + 1}
      <4>1. /\ master'.rt <=> driver.want # "auto"
            /\ driver.want = "charge" /\ driver.done > 0 => "power" \in setpoints'
            /\ driver.want = "charge" /\ driver.done > 1 => "soc" \in setpoints'
        BY <1>g, <1>t, <3>1, WriteLands
      <4>2. driver.done \in 0 .. 3
        BY <1>t DEF DriverState
      <4> QED
        BY <1>g, <3>1, <4>1, <4>2 DEF AcceptedHolds
    <3>2. CASE UNCHANGED battery /\ driver'.done = driver.done
      BY <1>g, <1>t, <3>2 DEF AcceptedHolds, battery
    <3> QED
      BY <1>g, <3>1, <3>2
  <2> QED
    BY <1>g, <1>t, <2>1, <2>2, <2>3 DEF BInv, BTypeOK, MasterState, DriverState, BeliefState, ReadState, TickState
<1>1. CASE PostAccepted
  <2>0. driver.busy /\ Lands(NextWrite) /\ ReadingsAge /\ UNCHANGED tick
    BY <1>1 DEF PostAccepted
  <2>1. CASE driver.done + 1 = Len(Commands(driver.want))
    BY <1>1, <1>c, <2>0, <2>1 DEF PostAccepted
  <2>2. CASE driver.done + 1 # Len(Commands(driver.want))
    <3>1. driver' = [driver EXCEPT !.done = @ + 1, !.left = Attempts] /\ UNCHANGED <<quiet, belief>>
      BY <1>1, <2>2 DEF PostAccepted
    <3>2. driver.done + 1 < Len(Commands(driver.want)) /\ driver.done + 1 \in 0 .. 3
      <4>1. driver.want \in Modes /\ driver.done < Len(Commands(driver.want))
        BY <1>t, <2>0 DEF DutyIsReal
      <4>2. PICK k \in {2, 4} : Len(Commands(driver.want)) = k
        BY <4>1, CommandsAre
      <4>3. driver.done < k /\ driver.done + 1 # k
        BY <2>2, <4>1, <4>2
      <4>4. driver.done \in 0 .. 3
        BY <1>t DEF DriverState
      <4>5. driver.done + 1 < k /\ driver.done + 1 \in 0 .. 3
        BY <4>3, <4>4
      <4> QED
        BY <4>2, <4>5
    <3>3. /\ driver' \in DriverState /\ driver'.busy /\ driver'.want = driver.want
          /\ driver'.fallback = driver.fallback /\ driver'.done = driver.done + 1 /\ driver'.left > 0
      <4>1. Attempts \in 0 .. Attempts /\ Attempts > 0
        BY BatteryAssumption
      <4> QED
        BY <1>t, <2>0, <3>1, <3>2, <4>1 DEF DriverState
    <3> QED
      BY <1>g, <2>0, <3>1, <3>2, <3>3
  <2> QED
    BY <2>1, <2>2
<1>2. CASE PostRejected
  BY <1>2, <1>c DEF PostRejected
<1>3. ASSUME NEW landed \in BOOLEAN, PostTimesOut(landed) PROVE BInv'
  <2>0. driver.busy /\ UNCHANGED tick
    BY <1>3 DEF PostTimesOut
  <2>1. \/ Lands(NextWrite) /\ ReadingsAge
        \/ UNCHANGED <<battery, cluster, read, towers>>
    BY <1>3 DEF PostTimesOut
  <2>2. CASE driver.left = 1
    <3>1. Conclude("unconfirmed")
      BY <1>3, <2>2 DEF PostTimesOut
    <3> QED
      BY <1>c, <2>0, <2>1, <3>1
  <2>3. CASE driver.left # 1
    <3>1. driver' = [driver EXCEPT !.left = @ - 1] /\ UNCHANGED <<quiet, belief>>
      BY <1>3, <2>3 DEF PostTimesOut
    <3>2. /\ driver' \in DriverState /\ driver'.busy /\ driver'.want = driver.want
          /\ driver'.fallback = driver.fallback /\ driver'.done = driver.done /\ driver'.left > 0
      BY <1>t, <2>0, <2>3, <3>1, BatteryAssumption DEF DriverState, DutyIsReal
    <3>3. driver.done < Len(Commands(driver.want))
      BY <1>t, <2>0 DEF DutyIsReal
    <3> QED
      BY <1>g, <2>0, <2>1, <3>1, <3>2, <3>3
  <2> QED
    BY <2>2, <2>3
<1>4. ASSUME NEW online \in SUBSET {"master", "slave"}, Measure(online) PROVE BInv'
  <2>1. PICK what \in Readings(online) : read' = [read EXCEPT !.at = "measured", !.what = what]
    BY <1>4 DEF Measure
  <2>2. what \in What /\ IsTrue(what)
    BY <1>t, MasterTells
  <2>3. read' \in ReadState /\ read'.what = what
    BY <1>t, <2>1, <2>2 DEF ReadState
  <2> QED
    BY <1>4, <1>t, <2>2, <2>3, ReadersLeaveAlone DEF Measure, commanding, ReadingsAreTrue
<1>5. ASSUME NEW online \in SUBSET {"master", "slave"}, OthersRead(online) PROVE BInv'
  <2>1. PICK what \in Readings(online) : cluster' = [age |-> 0, what |-> what]
    BY <1>5 DEF OthersRead
  <2>2. what \in What /\ IsTrue(what)
    BY <1>t, MasterTells
  <2>3. cluster' \in Snapshot /\ cluster'.what = what
    BY <2>1, <2>2, BatteryAssumption DEF Snapshot, Eldest
  <2> QED
    BY <1>5, <1>t, <2>2, <2>3, ReadersLeaveAlone DEF OthersRead, commanding, ReadingsAreTrue
<1>6. CASE StartRead
  <2>1. \/ \E h \in BOOLEAN : read' = [at |-> "got", age |-> 0, what |-> [cluster.what EXCEPT !.hushed = h]]
        \/ read' = [read EXCEPT !.at = "asking"]
    BY <1>6 DEF StartRead
  <2>2. read' \in ReadState /\ IsTrue(read'.what)
    <3>1. ASSUME NEW h \in BOOLEAN,
                 read' = [at |-> "got", age |-> 0, what |-> [cluster.what EXCEPT !.hushed = h]]
          PROVE  read' \in ReadState /\ IsTrue(read'.what)
      <4>1. cluster.what \in What /\ IsTrue(cluster.what)
        BY <1>t DEF Snapshot, ReadingsAreTrue
      <4>2. [cluster.what EXCEPT !.hushed = h] \in What /\ IsTrue([cluster.what EXCEPT !.hushed = h])
        BY <4>1 DEF What, IsTrue
      <4> QED
        BY <3>1, <4>2, BatteryAssumption DEF ReadState, Eldest
    <3>2. CASE read' = [read EXCEPT !.at = "asking"]
      BY <1>t, <3>2 DEF ReadState, ReadingsAreTrue
    <3> QED
      BY <2>1, <3>1, <3>2
  <2> QED
    BY <1>6, <1>t, <2>2, ReadersLeaveAlone DEF StartRead, commanding, ReadingsAreTrue
<1>7. CASE KeepReading
  <2>1. cluster' \in Snapshot /\ cluster'.what = read.what
    BY <1>7, <1>t DEF KeepReading, Snapshot, ReadState
  <2>2. read' \in ReadState /\ read'.what = read.what
    BY <1>7, <1>t DEF KeepReading, ReadState
  <2> QED
    BY <1>7, <1>t, <2>1, <2>2, ReadersLeaveAlone DEF KeepReading, commanding, ReadingsAreTrue
<1>8. CASE Deliver
  <2>1. towers' \in Snapshot /\ towers'.what = read.what
    BY <1>8, <1>t DEF Deliver, Snapshot, ReadState
  <2> QED
    BY <1>8, <1>t, <1>n, <2>1, ReadersLeaveAlone DEF Deliver, commanding, ReadingsAreTrue
<1>9. CASE Look
  <2>1. [towers.what EXCEPT !.taken = 0, !.hushed = FALSE] \in What
    <3>1. towers.what \in What /\ 0 \in 0 .. Eldest
      BY <1>t, BatteryAssumption DEF Snapshot, Eldest
    <3> QED
      BY <3>1 DEF What
  <2>2. IsTrue([towers.what EXCEPT !.taken = 0, !.hushed = FALSE])
    BY <1>t DEF ReadingsAreTrue, IsTrue, Snapshot, What
  <2>3. /\ tick' \in TickState /\ tick'.at = "looked" /\ IsTrue(tick'.what) /\ ~driver.busy
        /\ UNCHANGED <<battery, commanding, cluster, read, towers>>
    BY <1>9, <2>1, <2>2 DEF Look, TickState, Known
  <2>4. TickIsQuiet'
    BY <2>3 DEF TickIsQuiet, commanding
  <2> QED
    BY <2>3, <2>4, TicksLeaveAlone
<1>10. CASE Skipped
  BY <1>10, <1>n, TicksLeaveAlone DEF Skipped, TickIsQuiet
<1>11. ASSUME NEW answers \in BOOLEAN, AskMaster(answers) PROVE BInv'
  <2>0. ~driver.busy /\ UNCHANGED <<battery, commanding, cluster, read, towers>>
    BY <1>11, <1>t DEF AskMaster, TickIsQuiet
  <2>1. CASE answers
    <3>1. PICK mode \in Labels(Actual) :
             tick' = [tick EXCEPT !.what = [Unread EXCEPT !.mode = mode, !.direct = TRUE]]
      BY <1>11, <2>1 DEF AskMaster
    <3>2. mode \in Known
      BY <1>t DEF Labels, Actual, InForceOn, Known, Modes, Forced, BTypeOK
    <3>3. /\ [Unread EXCEPT !.mode = mode, !.direct = TRUE] \in What
          /\ IsTrue([Unread EXCEPT !.mode = mode, !.direct = TRUE])
      BY <1>n, <3>2 DEF What, IsTrue
    <3>4. tick' \in TickState /\ tick'.at = "looked" /\ IsTrue(tick'.what)
      BY <1>11, <1>t, <3>1, <3>3 DEF AskMaster, TickState
    <3>5. TickIsQuiet'
      BY <2>0, <3>4 DEF TickIsQuiet, commanding
    <3> QED
      BY <2>0, <3>4, <3>5, TicksLeaveAlone
  <2>2. CASE ~answers
    <3>1. tick' = NoTick
      BY <1>11, <2>2 DEF AskMaster
    <3> QED
      BY <1>n, <2>0, <3>1, TicksLeaveAlone DEF TickIsQuiet
  <2> QED
    BY <2>1, <2>2
<1>12. ASSUME NEW want \in Modes, Skip(want) PROVE BInv'
  <2>1. /\ tick' \in TickState /\ tick'.at = "skipped" /\ tick'.want = want /\ tick'.what = tick.what
        /\ ~driver.busy /\ tick.what.mode # "none" /\ Already(want)
        /\ UNCHANGED <<battery, commanding, cluster, read, towers>>
    BY <1>12, <1>t DEF Skip, TickState, Known, TickIsQuiet
  <2>2. TickIsQuiet'
    BY <2>1 DEF TickIsQuiet, Already, commanding
  <2>3. IsTrue(tick'.what)
    BY <1>12, <1>t, <2>1 DEF Skip, ReadingsAreTrue
  <2> QED
    BY <2>1, <2>2, <2>3, TicksLeaveAlone
<1>13. ASSUME NEW want \in Modes, Send(want) PROVE BInv'
  <2>1. /\ driver' \in DriverState /\ driver'.busy /\ driver'.want = want /\ driver'.done = 0
        /\ ~driver'.fallback /\ driver'.left > 0
    BY <1>13, BatteryAssumption DEF Send, Duty, DriverState, Known
  <2>2. belief' \in BeliefState
    BY <1>13, <1>t DEF Send, BeliefState, Known
  <2>3. Len(Commands(want)) \in {2, 4}
    BY CommandsAre
  <2>4. BTypeOK'
    BY <1>13, <1>t, <1>n, <2>1, <2>2 DEF Send, BTypeOK, DriverState, BeliefState, ReadState, TickState
  <2>5. DutyIsReal' /\ AcceptedHolds' /\ ClusterFollows' /\ TickIsQuiet'
    <3>1. 0 < Len(Commands(want))
      BY <2>3
    <3>2. DutyIsReal'
      BY <2>1, <3>1, Zenon DEF DutyIsReal
    <3>3. AcceptedHolds' /\ ClusterFollows' /\ TickIsQuiet'
      <4>1. tick'.at = "idle"
        BY <1>13, <1>n DEF Send
      <4> QED
        BY <2>1, <4>1 DEF AcceptedHolds, ClusterFollows, TickIsQuiet
    <3> QED
      BY <3>2, <3>3
  <2>6. ReadingsAreTrue'
    BY <1>13, <1>t, <1>n DEF Send, ReadingsAreTrue, IsTrue, Actual, InForceOn
  <2> QED
    BY <2>4, <2>5, <2>6 DEF BInv
<1>14. CASE Later
  <2>1. cluster' \in Snapshot /\ IsTrue(cluster'.what)
    <3>1. CASE cluster' = [age |-> ReaderCache, what |-> [cluster.what EXCEPT !.taken = Eldest]]
      BY <1>t, <3>1, BatteryAssumption DEF Snapshot, What, Eldest, IsTrue, ReadingsAreTrue
    <3>2. CASE cluster' = cluster \/ cluster' = Aged(cluster)
      BY <1>t, <3>2, Ageing DEF ReadingsAreTrue
    <3> QED
      BY <1>14, <3>1, <3>2 DEF Later
  <2>2. towers' \in Snapshot /\ IsTrue(towers'.what)
    BY <1>14, <1>t, <1>n, Ageing DEF Later, ReadingsAreTrue
  <2>3. read' \in ReadState /\ IsTrue(read'.what)
    BY <1>14, <1>t, Ageing DEF Later, ReadingsAreTrue
  <2>4. quiet' \in Nat
    BY <1>14, <1>t DEF Later
  <2> QED
    BY <1>14, <2>1, <2>2, <2>3, <2>4, ReadersLeaveAlone DEF Later
<1>15. CASE UNCHANGED bvars
  BY <1>15, <1>t, ReadersLeaveAlone DEF bvars, commanding, ReadingsAreTrue
<1> QED
  BY <1>1, <1>2, <1>3, <1>4, <1>5, <1>6, <1>7, <1>8, <1>9, <1>10, <1>11, <1>12, <1>13, <1>14, <1>15
     DEF BNext

(* Once a command is confirmed and none is under way, the cluster does as  *)
(* it says, whatever was lost, retried, rejected or left half done before  *)
(* (setdata_writes and apply of the driver, decide of the controller).     *)
THEOREM CommandsTakeHold == BSpec => []ClusterFollows
<1>1. BInv => ClusterFollows
  BY DEF BInv
<1> QED
  BY <1>1, InitBInv, NextBInv, PTL DEF BSpec

(* A tick that sends nothing because the battery does already what is      *)
(* wanted is right, if the master itself said so and nothing was written   *)
(* since (_gate of the controller, current_mode of the service).           *)
THEOREM FreshSkipsAreRight == BSpec => []FreshLookIsRight
<1>1. ASSUME BInv PROVE FreshLookIsRight
  <2> SUFFICES ASSUME tick.at = "skipped", tick.what.direct, ~tick.what.old
               PROVE  \/ Actual = tick.want
                      \/ Actual = "charge" /\ tick.want = "idle"
                      \/ HeldCharge /\ belief.unconfirmed
    BY DEF FreshLookIsRight
  <2>1. tick.what.mode \in Labels(Actual)
    BY <1>1 DEF BInv, ReadingsAreTrue, IsTrue
  <2>2. Already(tick.want) /\ ~driver.busy
    BY <1>1 DEF BInv, TickIsQuiet
  <2>3. CASE tick.what.mode = tick.want
    BY <2>1, <2>3 DEF Labels
  <2>4. CASE tick.what.mode # tick.want
    BY <1>1, <2>1, <2>2, <2>4 DEF Already, HeldCharge, BInv, ClusterFollows, Labels
  <2> QED
    BY <2>3, <2>4
<1> QED
  BY <1>1, InitBInv, NextBInv, PTL DEF BSpec

LEMMA NextAges ==
    ASSUME ReadTime < Window, BTypeOK, AgesAreTrue, [BNext]_bvars
    PROVE  AgesAreTrue'
<1>t. /\ cluster \in Snapshot /\ towers \in Snapshot /\ read \in ReadState
      /\ {ReaderCache, Window, ReadTime, Eldest} \subseteq Nat /\ Eldest = Window + ReaderCache
  BY BatteryAssumption DEF BTypeOK, ReadState, Eldest
<1>n. NoReading.age = Eldest /\ NoReading.what = Unread /\ Unread.taken = 0 /\ Unread \in What
      /\ NotReading.age = 0 /\ NotReading.at = "idle"
  BY <1>t DEF NoReading, NotReading, Unread, What, Known
(* Making readings old, or handing on what is there, leaves the ages.      *)
<1>o. ASSUME cluster'.age = cluster.age, cluster'.what.taken = cluster.what.taken,
             towers' # NoReading => towers # NoReading,
             towers'.age = towers.age, towers'.what.taken = towers.what.taken,
             towers'.what.hushed = towers.what.hushed,
             read'.at = read.at, read'.age = read.age, read'.what.taken = read.what.taken,
             read'.what.hushed = read.what.hushed
      PROVE  AgesAreTrue'
  BY <1>o DEF AgesAreTrue, Recent, Passed
<1>w. ASSUME ReadingsAge PROVE AgesAreTrue'
  <2>1. \A c \in Snapshot \union ReadState :
           /\ Outdated(c).age = c.age /\ Outdated(c).what.taken = c.what.taken
           /\ Outdated(c).what.hushed = c.what.hushed
    BY DEF Outdated, Snapshot, ReadState, What
  <2>2. \A c \in ReadState : Outdated(c).at = c.at
    BY DEF Outdated, ReadState, What
  <2>3. Outdated(NoReading) = NoReading
    BY <1>n DEF Outdated
  <2> QED
    BY <1>o, <1>t, <1>w, <2>1, <2>2, <2>3 DEF ReadingsAge
<1>u. ASSUME UNCHANGED <<cluster, read, towers>> PROVE AgesAreTrue'
  BY <1>o, <1>u
<1>1. CASE PostAccepted
  BY <1>1, <1>w DEF PostAccepted
<1>2. CASE PostRejected \/ Look \/ Skipped \/ UNCHANGED bvars
  BY <1>2, <1>u DEF PostRejected, Look, Skipped, bvars
<1>3. ASSUME NEW landed \in BOOLEAN, PostTimesOut(landed) PROVE AgesAreTrue'
  BY <1>3, <1>u, <1>w DEF PostTimesOut
<1>4. ASSUME NEW online \in SUBSET {"master", "slave"}, Measure(online) PROVE AgesAreTrue'
  <2>1. PICK what \in Readings(online) : read' = [read EXCEPT !.at = "measured", !.what = what]
    BY <1>4 DEF Measure
  <2>2. what \in What /\ what.taken = 0
    BY MasterTells
  <2>3. read'.at = "measured" /\ read'.age = read.age /\ read'.what.taken = 0 /\ read.age \in Nat
    BY <1>t, <2>1, <2>2 DEF ReadState
  <2> QED
    BY <1>4, <1>t, <2>3 DEF Measure, AgesAreTrue, Recent, Passed
<1>5. ASSUME NEW online \in SUBSET {"master", "slave"}, OthersRead(online) PROVE AgesAreTrue'
  <2>1. PICK what \in Readings(online) : cluster' = [age |-> 0, what |-> what]
    BY <1>5 DEF OthersRead
  <2>2. what.taken = 0
    BY MasterTells
  <2> QED
    BY <1>5, <2>1, <2>2 DEF OthersRead, AgesAreTrue, Recent, Passed
<1>6. CASE StartRead
  <2>1. CASE Reusable \/ (Suppressed /\ cluster # NoReading)
    <3>1. read' = [at |-> "got", age |-> 0, what |-> [cluster.what EXCEPT !.hushed = ~Reusable]]
      BY <1>6, <2>1 DEF StartRead
    <3>2. /\ read'.at = "got" /\ read'.age = 0 /\ read'.what.taken = cluster.what.taken
          /\ read'.what.hushed = ~Reusable
      BY <1>t, <3>1 DEF Snapshot, What
    <3>3. Reusable => cluster.what.taken <= cluster.age /\ cluster.age < ReaderCache
      BY DEF Reusable, AgesAreTrue, Recent
    <3>4. Passed(read')
      <4>1. cluster.what.taken \in 0 .. Eldest /\ cluster.age \in 0 .. Eldest
        BY <1>t DEF Snapshot, What
      <4>2. CASE Reusable
        BY <1>t, <3>2, <3>3, <4>1, <4>2 DEF Passed
      <4>3. CASE ~Reusable
        BY <3>2, <4>3 DEF Passed
      <4> QED
        BY <4>2, <4>3
    <3> QED
      BY <1>6, <1>t, <3>2, <3>4 DEF StartRead, AgesAreTrue, Recent, Passed
  <2>2. CASE ~(Reusable \/ (Suppressed /\ cluster # NoReading))
    <3>1. read' = [read EXCEPT !.at = "asking"]
      BY <1>6, <2>2 DEF StartRead
    <3>2. read'.at = "asking" /\ read'.age = read.age
      BY <1>t, <3>1 DEF ReadState
    <3> QED
      BY <1>6, <3>2 DEF StartRead, AgesAreTrue, Recent, Passed
  <2> QED
    BY <2>1, <2>2
<1>7. CASE KeepReading
  <2>1. /\ read.at = "measured" /\ UNCHANGED towers
        /\ cluster'.age = read.age /\ cluster'.what = read.what
        /\ read'.at = "got" /\ read'.age = read.age /\ read'.what = read.what
    BY <1>7, <1>t DEF KeepReading, ReadState
  <2> QED
    BY <2>1 DEF AgesAreTrue, Recent, Passed
<1>8. CASE Deliver
  <2>1. /\ read.at = "got" /\ UNCHANGED cluster
        /\ towers'.age = read.age /\ towers'.what = read.what /\ read' = NotReading
    BY <1>8 DEF Deliver
  <2> QED
    BY <1>n, <1>t, <2>1 DEF AgesAreTrue, Recent, Passed, ReadState
<1>9. ASSUME NEW answers \in BOOLEAN, AskMaster(answers) PROVE AgesAreTrue'
  BY <1>9, <1>u DEF AskMaster
<1>10. ASSUME NEW want \in Modes, Skip(want) \/ Send(want) PROVE AgesAreTrue'
  BY <1>10, <1>u DEF Skip, Send
<1>11. CASE Later
  <2>1. /\ \A m \in 0 .. Eldest : \A n \in 0 .. Eldest : m <= n => Older(m) <= Older(n)
        /\ \A n \in 0 .. Eldest : Older(n) <= n + 1 /\ n <= Older(n)
    BY <1>t DEF Older
  <2>2. \A m \in 0 .. Eldest : \A n \in 0 .. Eldest :
           m <= n \/ m < n + ReaderCache => Older(m) <= Older(n) \/ Older(m) < Older(n) + ReaderCache
    BY <1>t DEF Older
  <2>a. \A c \in Snapshot \union ReadState :
           /\ c.age \in 0 .. Eldest /\ c.what.taken \in 0 .. Eldest
           /\ Aged(c).age = Older(c.age) /\ Aged(c).what.taken = Older(c.what.taken)
           /\ Aged(c).what.hushed = c.what.hushed
    <3>1. \A w \in What :
             /\ w.taken \in 0 .. Eldest /\ [w EXCEPT !.taken = Older(@)].taken = Older(w.taken)
             /\ [w EXCEPT !.taken = Older(@)].hushed = w.hushed
      BY DEF What
    <3>2. \A c \in Snapshot \union ReadState : c.age \in 0 .. Eldest /\ c.what \in What
      BY DEF Snapshot, ReadState
    <3> QED
      BY <3>1, <3>2, Ageing
  <2>3. cluster'.age < ReaderCache => Recent(cluster')
    <3>1. CASE cluster' = [age |-> ReaderCache, what |-> [cluster.what EXCEPT !.taken = Eldest]]
      BY <1>t, <3>1
    <3>2. CASE cluster' = cluster
      BY <3>2 DEF AgesAreTrue
    <3>3. CASE cluster' = Aged(cluster)
      <4> DEFINE m == cluster.what.taken
                 n == cluster.age
      <4>1. /\ m \in 0 .. Eldest /\ n \in 0 .. Eldest
            /\ cluster'.age = Older(n) /\ cluster'.what.taken = Older(m)
            /\ n < ReaderCache => m <= n
        BY <1>t, <2>a, <3>3 DEF AgesAreTrue, Recent
      <4> HIDE DEF m, n
      <4>2. Older(n) < ReaderCache => n < ReaderCache
        BY <1>t, <4>1 DEF Older
      <4> QED
        BY <2>1, <4>1, <4>2 DEF Recent
    <3> QED
      BY <1>11, <3>1, <3>2, <3>3 DEF Later
  <2>4. /\ read'.age <= ReadTime /\ (read'.at = "measured" => Recent(read'))
        /\ read'.at = "got" => Passed(read')
    <3>1. CASE read.at = "idle"
      BY <1>11, <3>1 DEF Later, AgesAreTrue
    <3>2. CASE read.at # "idle"
      <4> DEFINE m == read.what.taken
                 n == read.age
      <4>1. /\ m \in 0 .. Eldest /\ n \in 0 .. Eldest /\ n < ReadTime
            /\ read'.age = Older(n) /\ read'.what.taken = Older(m)
            /\ read'.what.hushed = read.what.hushed /\ read'.at = read.at
        BY <1>11, <1>t, <2>a, <3>2, Ageing DEF Later
      <4>2. /\ read.at = "measured" => m <= n
            /\ read.at = "got" => read.what.hushed \/ m <= n \/ m < n + ReaderCache
        BY DEF AgesAreTrue, Passed, Recent
      <4> HIDE DEF m, n
      <4>3. Older(n) <= ReadTime
        BY <1>t, <2>1, <4>1 DEF Older
      <4> QED
        BY <2>1, <2>2, <4>1, <4>2, <4>3 DEF Passed, Recent
    <3> QED
      BY <3>1, <3>2
  <2>5. towers' # NoReading => Passed(towers') /\ towers'.age < Window
    <3> SUFFICES ASSUME towers' # NoReading PROVE Passed(towers') /\ towers'.age < Window
      OBVIOUS
    <3> DEFINE m == towers.what.taken
               n == towers.age
    <3>1. towers # NoReading /\ ~Expired(towers, Window) /\ towers' = Aged(towers)
      BY <1>11 DEF Later
    <3>2. /\ m \in 0 .. Eldest /\ n \in 0 .. Eldest /\ n + 1 < Window
          /\ towers'.age = Older(n) /\ towers'.what.taken = Older(m)
          /\ towers'.what.hushed = towers.what.hushed
          /\ towers.what.hushed \/ m <= n \/ m < n + ReaderCache
      BY <1>t, <2>a, <3>1 DEF Expired, AgesAreTrue, Passed, Recent
    <3> HIDE DEF m, n
    <3>3. Older(n) < Window
      BY <1>t, <3>2 DEF Older
    <3> QED
      BY <2>2, <3>2, <3>3 DEF Passed, Recent
  <2> QED
    BY <2>3, <2>4, <2>5 DEF AgesAreTrue
<1> QED
  BY <1>1, <1>2, <1>3, <1>4, <1>5, <1>6, <1>7, <1>8, <1>9, <1>10, <1>11 DEF BNext

(* As long as a read takes less than the service keeps its result, no      *)
(* chain of reuse shows a tick anything older than the two caches' times   *)
(* together, but for what is handed out because reads are suppressed       *)
(* (read_towers of the cluster reader, current_towers of the service).     *)
THEOREM ReuseIsBounded ==
    ASSUME ReadTime < Window
    PROVE  BSpec => []ReadsAreRecent
<1>1. BTypeOK /\ AgesAreTrue => ReadsAreRecent
  BY BatteryAssumption DEF BTypeOK, AgesAreTrue, ReadsAreRecent, Passed, Recent, Snapshot, What, Eldest
<1>2. BInit => BInv /\ AgesAreTrue
  BY InitBInv
<1>3. BInv /\ AgesAreTrue /\ [BNext]_bvars => (BInv /\ AgesAreTrue)'
  BY NextBInv, NextAges DEF BInv
<1>4. BInv => BTypeOK
  BY DEF BInv
<1> QED
  BY <1>1, <1>2, <1>3, <1>4, PTL DEF BSpec
-----------------------------------------------------------------------------
(* The must-charge override and its plan.                                  *)

TaskPlaces == {"idle", "put", "kept", "delete", "deleted", "lock", "clear_key", "clear_plan"}
TaskState ==
    [at : TaskPlaces, kind : {"none", "post", "cancel", "settle"}, rec : Recs, alone : BOOLEAN]
AskerState ==
    [at : {"idle", "take", "want", "build", "publish", "publish_key"}, key : Keys, plan : Plans]
MemoState == [key : Keys, plan : Plans]

LEMMA StartStates ==
    /\ Idle \in TaskState /\ Idle.at = "idle" /\ Idle.kind = "none" /\ Idle.rec = None /\ ~Idle.alone
    /\ Resting \in AskerState /\ Resting.at = "idle" /\ Resting.key = NoKey
    /\ NoMemo \in MemoState /\ NoMemo.key = NoKey /\ NoMemo.plan = NoPlan
    /\ NoKey \in Keys /\ NoKey.rec = None /\ NoKey.at = "nothing"
    /\ None \in Recs /\ NoPlan \in Plans /\ NoPlan \notin Recs
  BY MustChargeAssumption
     DEF Idle, TaskState, TaskPlaces, Resting, AskerState, NoMemo, MemoState, NoKey, Keys, Plans, Recs,
         None, NoPlan, Posts

(* What is in force, and the key that says so.                             *)
LEMMA InForceIs ==
    ASSUME MTypeOK
    PROVE  /\ InForce \in Recs /\ InForce \in Plans
           /\ Key \in Keys /\ Key.rec = rec
           /\ InForce # None => InForce = rec /\ Key = Active(InForce)
  BY DEF MTypeOK, InForce, Key, Keys, Recs, Plans, Ends, Engages, Active, Levels, None

LEMMA InForceStays ==
    ASSUME UNCHANGED <<rec, ended, soc>>
    PROVE  InForce' = InForce /\ Key' = Key
  BY DEF InForce, Engages, Key, Ends

(* A step of a task leaves the other tasks alone.                          *)
LEMMA OneTaskMoves ==
    ASSUME MTypeOK, NEW t \in Tasks, NEW s \in TaskState, task' = [task EXCEPT ![t] = s]
    PROVE  /\ task' \in [Tasks -> TaskState] /\ task'[t] = s
           /\ \A u \in Tasks \ {t} : task'[u] = task[u]
  BY DEF MTypeOK, TaskState, TaskPlaces

LEMMA TaskGoes ==
    ASSUME MTypeOK, NEW t \in Tasks, NEW place \in TaskPlaces, Goes(t, place)
    PROVE  /\ task' \in [Tasks -> TaskState]
           /\ task'[t].at = place /\ task'[t].kind = task[t].kind
           /\ task'[t].rec = task[t].rec /\ task'[t].alone = task[t].alone
           /\ \A u \in Tasks \ {t} : task'[u] = task[u]
  BY DEF MTypeOK, TaskState, TaskPlaces, Goes

LEMMA CancelIs ==
    ASSUME MTypeOK, NEW t \in Tasks, Cancel(t)
    PROVE  /\ task' \in [Tasks -> TaskState]
           /\ task'[t].at = "delete" /\ task'[t].kind = "cancel"
           /\ task'[t].alone = NoPostUnderWay
           /\ \A u \in Tasks \ {t} : task'[u] = task[u]
<1> DEFINE s == [at |-> "delete", kind |-> "cancel", rec |-> None, alone |-> NoPostUnderWay]
<1>1. NoPostUnderWay \in BOOLEAN
  BY DEF NoPostUnderWay
<1>2. /\ s \in TaskState /\ s.at = "delete" /\ s.kind = "cancel"
      /\ s.alone = NoPostUnderWay
  BY <1>1, StartStates DEF TaskState, TaskPlaces
<1>3. task' = [task EXCEPT ![t] = s]
  BY DEF Cancel, NoPostUnderWay
<1> HIDE DEF s
<1> QED
  BY <1>2, <1>3, OneTaskMoves

LEMMA SettleIs ==
    ASSUME MTypeOK, NEW t \in Tasks, Settle(t)
    PROVE  /\ task' \in [Tasks -> TaskState]
           /\ task'[t].at = "delete" /\ task'[t].kind = "settle" /\ ~task'[t].alone
           /\ \A u \in Tasks \ {t} : task'[u] = task[u]
<1> DEFINE s == [Idle EXCEPT !.at = "delete", !.kind = "settle"]
<1>1. s \in TaskState /\ s.at = "delete" /\ s.kind = "settle" /\ ~s.alone
  BY StartStates DEF TaskState, TaskPlaces
<1>2. task' = [task EXCEPT ![t] = s]
  BY DEF Settle
<1> HIDE DEF s
<1> QED
  BY <1>1, <1>2, OneTaskMoves

(* A thread moves on, ...                                                  *)
LEMMA OneThreadMoves ==
    ASSUME MTypeOK, NEW a \in Threads, NEW s \in AskerState, asker' = [asker EXCEPT ![a] = s]
    PROVE  /\ asker' \in [Threads -> AskerState] /\ asker'[a] = s
           /\ \A b \in Threads \ {a} : asker'[b] = asker[b]
  BY DEF MTypeOK, AskerState

(* ... asks, ...                                                           *)
LEMMA AskIs ==
    ASSUME MTypeOK, NEW a \in Threads, Ask(a)
    PROVE  /\ asker' \in [Threads -> AskerState]
           /\ asker'[a].at = IF memo.key = Key THEN "take" ELSE "want"
           /\ asker'[a].key = Key
           /\ \A b \in Threads \ {a} : asker'[b] = asker[b]
<1> DEFINE place == IF memo.key = Key THEN "take" ELSE "want"
<1>1. place \in {"take", "want"}
  OBVIOUS
<1>2. asker' = [asker EXCEPT ![a] = [Resting EXCEPT !.key = Key, !.at = place]]
  BY DEF Ask
<1> HIDE DEF place
<1> DEFINE s == [Resting EXCEPT !.key = Key, !.at = place]
<1>3. s \in AskerState /\ s.at = place /\ s.key = Key
  BY <1>1, InForceIs, StartStates DEF AskerState
<1> HIDE DEF s
<1>4. asker' = [asker EXCEPT ![a] = s]
  BY <1>2 DEF s
<1> QED
  BY <1>3, <1>4, OneThreadMoves DEF place

(* ... and gets its answer.                                                *)
LEMMA GivenIs ==
    ASSUME MTypeOK, NEW a \in Threads, NEW plan, Given(a, plan)
    PROVE  /\ asker' \in [Threads -> AskerState] /\ asker'[a] = Resting
           /\ asker'[a].at = "idle" /\ asker'[a].key = NoKey
           /\ \A b \in Threads \ {a} : asker'[b] = asker[b]
           /\ since' \in [Threads -> Recs] /\ since'[a] = None
           /\ \A b \in Threads \ {a} : since'[b] = since[b]
<1>1. asker' = [asker EXCEPT ![a] = Resting] /\ since' = [since EXCEPT ![a] = None]
  BY DEF Given
<1>2. since \in [Threads -> Recs] /\ Resting \in AskerState
  BY StartStates DEF MTypeOK
<1> QED
  BY <1>1, <1>2, StartStates, OneThreadMoves

LEMMA NotedIs ==
    ASSUME MTypeOK, Noted
    PROVE  /\ since' \in [Threads -> Recs]
           /\ \A a \in Threads : since'[a] = None \/ (since'[a] = since[a] /\ since[a] = InForce')
  BY StartStates DEF MTypeOK, Noted

LEMMA InitMInv == Init => MInv
<1> SUFFICES ASSUME Init PROVE MInv
  OBVIOUS
<1>1. MTypeOK
  <2>1. task \in [Tasks -> TaskState] /\ asker \in [Threads -> AskerState] /\ memo \in MemoState
    BY StartStates DEF Init
  <2>2. since \in [Threads -> Recs] /\ {rec, stored} \subseteq Recs /\ posts \in 0 .. MaxPosts /\ troubles \in Nat
    BY StartStates, MustChargeAssumption DEF Init
  <2>3. ended \subseteq Posts /\ soc \in Levels /\ {reread, misplanned, cancelled} \subseteq BOOLEAN
    BY DEF Init, Levels
  <2> QED
    BY <2>1, <2>2, <2>3 DEF MTypeOK, TaskState, TaskPlaces, AskerState, MemoState
<1>2. PostsAreNew /\ OneBuilder /\ CancelsTakeHold
  BY StartStates, MustChargeAssumption
     DEF Init, PostsAreNew, OneBuilder, CancelsTakeHold, NoPostUnderWay, Posting, Builds, Clears, None
<1>3. PlansAreFiled /\ AskersWillSee /\ OverrideIsPlanned
  BY DEF Init, PlansAreFiled, AskersWillSee, OverrideIsPlanned, InForce
<1> QED
  BY <1>1, <1>2, <1>3 DEF MInv

LEMMA NextMTypeOK ==
    ASSUME MTypeOK, PostsAreNew, [Next]_vars
    PROVE  MTypeOK'
<1>t. /\ rec \in Recs /\ stored \in Recs /\ posts \in 0 .. MaxPosts
      /\ task \in [Tasks -> TaskState] /\ asker \in [Threads -> AskerState] /\ memo \in MemoState
      /\ troubles \in Nat /\ MaxPosts \in Nat
      /\ None \in Recs /\ Posts \subseteq Recs
  BY StartStates, MustChargeAssumption
     DEF MTypeOK, TaskState, TaskPlaces, AskerState, MemoState, Recs
<1>a. ASSUME UNCHANGED <<ended, soc, reread>>,
             rec' \in Recs, stored' \in Recs, posts' \in 0 .. MaxPosts, memo' \in MemoState,
             task' \in [Tasks -> TaskState], asker' \in [Threads -> AskerState], troubles' \in Nat,
             since' \in [Threads -> Recs], misplanned' \in BOOLEAN, cancelled' \in BOOLEAN
      PROVE  MTypeOK'
  BY <1>a DEF MTypeOK, TaskState, TaskPlaces, AskerState, MemoState
<1>s. ASSUME NEW ok \in BOOLEAN, StoreOp(ok) PROVE troubles' \in Nat
  BY <1>s, <1>t DEF StoreOp
<1>1. ASSUME NEW t \in Tasks, Post(t) PROVE MTypeOK'
  <2>1. posts + 1 \in Posts /\ posts + 1 \in 0 .. MaxPosts /\ posts + 1 \in Recs
    BY <1>1, <1>t DEF Post, Posts
  <2>2. task' \in [Tasks -> TaskState]
    <3>1. [Idle EXCEPT !.at = "put", !.kind = "post", !.rec = posts + 1] \in TaskState
      BY <2>1, StartStates DEF TaskState, TaskPlaces
    <3>2. \A u \in Tasks : [task[u] EXCEPT !.alone = FALSE] \in TaskState
      BY <1>t DEF TaskState
    <3> QED
      BY <1>1, <3>1, <3>2 DEF Post
  <2> QED
    BY <1>1, <1>a, <1>t, <2>1, <2>2 DEF Post, world, MTypeOK
<1>2. ASSUME NEW t \in Tasks, NEW ok \in BOOLEAN, Put(t, ok) \/ Delete(t, ok) PROVE MTypeOK'
  <2>1. troubles' \in Nat
    BY <1>2, <1>s DEF Put, Delete
  <2>2. task' \in [Tasks -> TaskState]
    BY <1>2, TaskGoes, OneTaskMoves, StartStates DEF Put, Delete, TaskPlaces
  <2>3. stored' \in Recs
    BY <1>2, <1>t DEF Put, Delete, TaskState
  <2> QED
    BY <1>2, <1>a, <1>t, <2>1, <2>2, <2>3 DEF Put, Delete, world, ghosts, MTypeOK
<1>3. ASSUME NEW t \in Tasks, Kept(t) \/ Settle(t) \/ Deleted(t) PROVE MTypeOK'
  <2>1. task' \in [Tasks -> TaskState]
    BY <1>3, TaskGoes, SettleIs DEF Kept, Deleted, TaskPlaces
  <2>2. rec' \in Recs
    BY <1>3, <1>t DEF Kept, Settle, Deleted, TaskState
  <2>3. since' \in [Threads -> Recs]
    BY <1>3, NotedIs DEF Kept, Settle, Deleted
  <2> QED
    BY <1>3, <1>a, <1>t, <2>1, <2>2, <2>3 DEF Kept, Settle, Deleted, world, MTypeOK
<1>4. ASSUME NEW t \in Tasks, Cancel(t) PROVE MTypeOK'
  <2>1. task' \in [Tasks -> TaskState]
    BY <1>4, CancelIs
  <2> QED
    BY <1>4, <1>a, <1>t, <2>1 DEF Cancel, override, world, ghosts, MTypeOK
<1>5. ASSUME NEW t \in Tasks, Lock(t) \/ ClearKey(t) \/ ClearPlan(t) PROVE MTypeOK'
  <2>1. task' \in [Tasks -> TaskState]
    BY <1>5, TaskGoes, OneTaskMoves, StartStates DEF Lock, ClearKey, ClearPlan, TaskPlaces
  <2>2. memo' \in MemoState
    BY <1>5, <1>t, StartStates DEF Lock, ClearKey, ClearPlan, MemoState
  <2>3. cancelled' \in BOOLEAN
    BY <1>5, <1>t DEF Lock, ClearKey, ClearPlan, ghosts, MTypeOK
  <2> QED
    BY <1>5, <1>a, <1>t, <2>1, <2>2, <2>3 DEF Lock, ClearKey, ClearPlan, override, world, ghosts, MTypeOK
<1>g. ASSUME NEW a \in Threads, NEW plan, Given(a, plan)
      PROVE  /\ asker' \in [Threads -> AskerState] /\ since' \in [Threads -> Recs]
             /\ misplanned' \in BOOLEAN /\ cancelled' \in BOOLEAN
  BY <1>g, GivenIs DEF Given, MTypeOK
<1>6. ASSUME NEW a \in Threads, Ask(a) PROVE MTypeOK'
  <2>1. asker' \in [Threads -> AskerState]
    BY <1>6, AskIs
  <2>2. since' \in [Threads -> Recs]
    BY <1>6, InForceIs DEF Ask, MTypeOK
  <2> QED
    BY <1>6, <1>a, <1>t, <2>1, <2>2 DEF Ask, override, world, MTypeOK
<1>7. ASSUME NEW a \in Threads, Take(a) PROVE MTypeOK'
  BY <1>7, <1>a, <1>g, <1>t DEF Take, override, world
<1>8. ASSUME NEW a \in Threads, Want(a) PROVE MTypeOK'
  <2>1. /\ asker' \in [Threads -> AskerState] /\ since' \in [Threads -> Recs]
        /\ misplanned' \in BOOLEAN /\ cancelled' \in BOOLEAN
    <3>1. CASE Given(a, memo.plan)
      BY <1>g, <3>1
    <3>2. CASE asker' = [asker EXCEPT ![a].at = "build"] /\ UNCHANGED ghosts
      BY <1>t, <3>2 DEF AskerState, ghosts, MTypeOK
    <3> QED
      BY <1>8, <3>1, <3>2 DEF Want
  <2> QED
    BY <1>8, <1>a, <1>t, <2>1 DEF Want, override, world
<1>9. ASSUME NEW a \in Threads, NEW recovered \in BOOLEAN, Build(a, recovered) PROVE MTypeOK'
  <2>1. /\ asker' \in [Threads -> AskerState] /\ since' \in [Threads -> Recs]
        /\ misplanned' \in BOOLEAN /\ cancelled' \in BOOLEAN
    <3>1. CASE Given(a, NoPlan)
      BY <1>g, <3>1
    <3>2. CASE asker' = [asker EXCEPT ![a].at = "publish", ![a].plan = InForce] /\ UNCHANGED ghosts
      <4>1. asker' = [asker EXCEPT ![a] = [asker[a] EXCEPT !.at = "publish", !.plan = InForce]]
        BY <1>t, <3>2
      <4>2. [asker[a] EXCEPT !.at = "publish", !.plan = InForce] \in AskerState
        BY <1>t, InForceIs DEF AskerState
      <4> QED
        BY <3>2, <4>1, <4>2, OneThreadMoves DEF ghosts, MTypeOK
    <3> QED
      BY <1>9, <3>1, <3>2 DEF Build
  <2>2. memo' \in MemoState
    BY <1>9, <1>t, StartStates DEF Build
  <2> QED
    BY <1>9, <1>a, <1>t, <2>1, <2>2 DEF Build, override, world
<1>10. ASSUME NEW a \in Threads, PublishPlan(a) PROVE MTypeOK'
  <2>1. asker' \in [Threads -> AskerState] /\ memo' \in MemoState
    BY <1>10, <1>t DEF PublishPlan, AskerState, MemoState
  <2> QED
    BY <1>10, <1>a, <1>t, <2>1 DEF PublishPlan, override, world, ghosts, MTypeOK
<1>11. ASSUME NEW a \in Threads, PublishKey(a) PROVE MTypeOK'
  <2>1. memo' \in MemoState
    BY <1>11, <1>t DEF PublishKey, AskerState, MemoState
  <2> QED
    BY <1>11, <1>a, <1>g, <1>t, <2>1 DEF PublishKey, override, world
<1>12. CASE Restart
  BY <1>12, <1>a, <1>t, StartStates DEF Restart, world, MTypeOK
<1>13. ASSUME NEW level \in Levels, Reading(level) PROVE MTypeOK'
  BY <1>13, NotedIs DEF Reading, MTypeOK, override
<1>14. ASSUME NEW r \in Posts, Deadline(r) PROVE MTypeOK'
  BY <1>14, NotedIs DEF Deadline, MTypeOK, override
<1>15. CASE UNCHANGED vars
  BY <1>15 DEF vars, override, world, ghosts, MTypeOK
<1> QED
  BY <1>1, <1>2, <1>3, <1>4, <1>5, <1>6, <1>7, <1>8, <1>9, <1>10, <1>11, <1>12, <1>13, <1>14, <1>15
     DEF Next

(* An override that is on its way into memory was never seen there.        *)
LEMMA NextPostsAreNew ==
    ASSUME MTypeOK, PostsAreNew, [Next]_vars
    PROVE  PostsAreNew'
<1>t. /\ rec \in Recs /\ stored \in Recs /\ posts \in 0 .. MaxPosts /\ posts \in Nat
      /\ task \in [Tasks -> TaskState] /\ asker \in [Threads -> AskerState] /\ memo \in MemoState
      /\ MaxPosts \in Nat /\ Recs \subseteq Nat /\ None = 0
  BY MustChargeAssumption
     DEF MTypeOK, TaskState, TaskPlaces, AskerState, MemoState, Recs, Posts, None
<1>p. /\ rec <= posts /\ stored <= posts
      /\ memo.key.rec <= posts /\ (\A a \in Threads : asker[a].key.rec <= posts)
      /\ \A t \in Tasks : Posting(t) =>
            /\ task[t].kind = "post"
            /\ task[t].rec \in 1 .. posts /\ task[t].rec # rec
            /\ task[t].rec # memo.key.rec /\ (\A a \in Threads : task[t].rec # asker[a].key.rec)
            /\ \A u \in Tasks : Posting(u) /\ task[u].rec = task[t].rec => u = t
      /\ ~reread => soc = "low"
  BY DEF PostsAreNew
<1>k. NoKey.rec = 0 /\ NoMemo.key.rec = 0 /\ Resting.key.rec = 0
  BY <1>t, StartStates
(* Whoever takes a key from what was there before names no newcomer.       *)
<1>a. ASSUME UNCHANGED posts, rec' \in {rec, 0}, stored' <= posts, ~reread' => soc' = "low",
             memo'.key.rec \in {0, rec, memo.key.rec} \union {asker[a].key.rec : a \in Threads},
             \A a \in Threads : asker'[a].key.rec \in {0, rec, asker[a].key.rec},
             \A t \in Tasks : Posting(t)' =>
                /\ Posting(t) /\ task'[t].rec = task[t].rec /\ task'[t].kind = task[t].kind
      PROVE  PostsAreNew'
  <2>1. rec' <= posts
    BY <1>a, <1>t, <1>p
  <2>2. memo'.key.rec <= posts /\ \A a \in Threads : asker'[a].key.rec <= posts
    BY <1>a, <1>t, <1>p
  <2>3. ASSUME NEW t \in Tasks, Posting(t)'
        PROVE  /\ task'[t].kind = "post"
               /\ task'[t].rec \in 1 .. posts /\ task'[t].rec # rec'
               /\ task'[t].rec # memo'.key.rec /\ (\A a \in Threads : task'[t].rec # asker'[a].key.rec)
               /\ \A u \in Tasks : Posting(u)' /\ task'[u].rec = task'[t].rec => u = t
    BY <1>a, <1>t, <1>p, <2>3
  <2> QED
    BY <1>a, <2>1, <2>2, <2>3 DEF PostsAreNew
<1>1. ASSUME NEW t \in Tasks, Post(t) PROVE PostsAreNew'
  <2>1. /\ posts' = posts + 1 /\ task'[t].at = "put" /\ task'[t].kind = "post" /\ task'[t].rec = posts + 1
        /\ \A u \in Tasks \ {t} :
              task'[u].at = task[u].at /\ task'[u].rec = task[u].rec /\ task'[u].kind = task[u].kind
        /\ UNCHANGED <<rec, stored, memo, asker, soc, reread>>
    BY <1>1, <1>t, StartStates DEF Post, TaskState, world
  <2>2. \A u \in Tasks : Posting(u)' <=> u = t \/ Posting(u)
    BY <2>1 DEF Posting
  <2>3. ASSUME NEW u \in Tasks, Posting(u)'
        PROVE  /\ task'[u].kind = "post"
               /\ task'[u].rec \in 1 .. posts + 1 /\ task'[u].rec # rec
               /\ task'[u].rec # memo.key.rec /\ (\A a \in Threads : task'[u].rec # asker[a].key.rec)
               /\ \A v \in Tasks : Posting(v)' /\ task'[v].rec = task'[u].rec => v = u
    <3>1. CASE u = t
      BY <1>t, <1>p, <2>1, <2>2, <3>1 DEF AskerState, MemoState, Keys
    <3>2. CASE u # t
      BY <1>t, <1>p, <2>1, <2>2, <2>3, <3>2
    <3> QED
      BY <3>1, <3>2
  <2>4. /\ rec <= posts + 1 /\ stored <= posts + 1 /\ memo.key.rec <= posts + 1
        /\ \A a \in Threads : asker[a].key.rec <= posts + 1
    <3>1. \A n \in Nat : n <= posts => n <= posts + 1
      BY <1>t
    <3>2. {rec, stored, memo.key.rec} \subseteq Nat /\ \A a \in Threads : asker[a].key.rec \in Nat
      BY <1>t DEF AskerState, MemoState, Keys
    <3> QED
      BY <1>p, <3>1, <3>2
  <2> QED
    BY <1>p, <2>1, <2>3, <2>4 DEF PostsAreNew
<1>2. ASSUME NEW t \in Tasks, NEW ok \in BOOLEAN, Put(t, ok) PROVE PostsAreNew'
  <2>1. Posting(t) /\ task[t].rec <= posts
    BY <1>2, <1>t, <1>p DEF Put, Posting
  <2>2. UNCHANGED <<posts, rec, memo, asker, soc, reread>> /\ stored' \in {stored, task[t].rec}
    BY <1>2 DEF Put, world
  <2>3. \A u \in Tasks : Posting(u)' =>
           Posting(u) /\ task'[u].rec = task[u].rec /\ task'[u].kind = task[u].kind
    <3>1. CASE Goes(t, "kept")
      BY <2>1, <3>1, TaskGoes DEF Posting, TaskPlaces
    <3>2. CASE task' = [task EXCEPT ![t] = Idle]
      BY <2>1, <3>2, OneTaskMoves, StartStates DEF Posting
    <3> QED
      BY <1>2, <3>1, <3>2 DEF Put
  <2> QED
    BY <1>a, <1>p, <1>t, <2>1, <2>2, <2>3
<1>3. ASSUME NEW t \in Tasks, Kept(t) PROVE PostsAreNew'
  <2>1. Posting(t) /\ rec' = task[t].rec /\ UNCHANGED <<stored, posts, memo, asker, soc, reread>>
    BY <1>3 DEF Kept, Posting, Ready, world
  <2>2. \A u \in Tasks : Posting(u)' =>
           Posting(u) /\ u # t /\ task'[u] = task[u]
    BY <1>3, TaskGoes DEF Kept, Posting, TaskPlaces
  <2> QED
    BY <1>p, <1>t, <2>1, <2>2 DEF PostsAreNew
<1>4. ASSUME NEW t \in Tasks, NEW ok \in BOOLEAN,
             \/ Delete(t, ok) \/ Deleted(t) \/ Settle(t) \/ Cancel(t)
             \/ Lock(t) \/ ClearKey(t) \/ ClearPlan(t)
      PROVE  PostsAreNew'
  <2>1. \A u \in Tasks : Posting(u)' => Posting(u) /\ task'[u] = task[u]
    <3>1. CASE \E place \in TaskPlaces \ {"put", "kept"} : Goes(t, place)
      BY <3>1, TaskGoes DEF Posting
    <3>2. CASE \E s \in TaskState : s.at \notin {"put", "kept"} /\ task' = [task EXCEPT ![t] = s]
      BY <3>2, OneTaskMoves DEF Posting
    <3>3. CASE Cancel(t) \/ Settle(t)
      BY <3>3, CancelIs, SettleIs DEF Posting
    <3>4. CASE ~Cancel(t) /\ ~Settle(t)
      BY <1>4, <3>1, <3>2, <3>4, StartStates DEF Delete, Deleted, Lock, ClearKey, ClearPlan, TaskPlaces
    <3> QED
      BY <3>3, <3>4
  <2>2. rec' \in {rec, 0} /\ stored' \in {stored, 0} /\ UNCHANGED <<posts, asker, soc, reread>>
    BY <1>4, <1>t DEF Delete, Deleted, Settle, Cancel, Lock, ClearKey, ClearPlan, override, world
  <2>3. memo'.key.rec \in {0, memo.key.rec}
    BY <1>4, <1>t, <1>k DEF Delete, Deleted, Settle, Cancel, Lock, ClearKey, ClearPlan, MemoState
  <2> QED
    BY <1>a, <1>p, <1>t, <2>1, <2>2, <2>3
<1>5. ASSUME NEW a \in Threads, NEW recovered \in BOOLEAN,
             \/ Ask(a) \/ Take(a) \/ Want(a) \/ Build(a, recovered) \/ PublishPlan(a) \/ PublishKey(a)
      PROVE  PostsAreNew'
  <2>1. UNCHANGED <<posts, rec, stored, task, soc, reread>>
    BY <1>5 DEF Ask, Take, Want, Build, PublishPlan, PublishKey, override, world
  <2>2. \A b \in Threads : asker'[b].key.rec \in {0, rec, asker[b].key.rec}
    <3>1. Key.rec = rec /\ Resting \in AskerState
      BY InForceIs, StartStates
    <3>2. CASE Ask(a)
      BY <1>t, <3>1, <3>2 DEF Ask, AskerState
    <3>3. ASSUME NEW plan, Given(a, plan)
          PROVE \A b \in Threads : asker'[b].key.rec \in {0, rec, asker[b].key.rec}
      BY <1>k, <1>t, <3>3 DEF Given
    <3>4. CASE Take(a) \/ Want(a) \/ Build(a, recovered) \/ PublishPlan(a) \/ PublishKey(a)
      BY <1>t, <3>3, <3>4 DEF Take, Want, Build, PublishPlan, PublishKey, AskerState
    <3> QED
      BY <1>5, <3>2, <3>4
  <2>3. memo'.key.rec \in {0, memo.key.rec, asker[a].key.rec}
    BY <1>5, <1>k, <1>t DEF Ask, Take, Want, Build, PublishPlan, PublishKey, MemoState
  <2> QED
    BY <1>a, <1>p, <1>t, <2>1, <2>2, <2>3 DEF Posting
<1>6. CASE Restart
  <2>1. /\ \A t \in Tasks : task'[t].at = "idle"
        /\ \A a \in Threads : asker'[a].key.rec = 0
        /\ memo'.key.rec = 0 /\ rec' = stored /\ UNCHANGED <<stored, posts, soc, reread>>
    BY <1>6, <1>k, StartStates DEF Restart, world
  <2> QED
    BY <1>p, <1>t, <2>1 DEF PostsAreNew, Posting
<1>7. CASE (\E level \in Levels : Reading(level)) \/ (\E r \in Posts : Deadline(r)) \/ UNCHANGED vars
  <2>1. UNCHANGED <<posts, rec, stored, memo, task, asker>> /\ (~reread' => soc' = "low")
    BY <1>7, <1>p DEF Reading, Deadline, vars, override, world
  <2> QED
    BY <1>a, <1>p, <1>t, <2>1 DEF Posting
<1> QED
  BY <1>1, <1>2, <1>3, <1>4, <1>5, <1>6, <1>7 DEF Next

(* One thread builds at a time, and none while the loop clears.            *)
LEMMA NextOneBuilder ==
    ASSUME MTypeOK, OneBuilder, [Next]_vars
    PROVE  OneBuilder'
<1>t. /\ task \in [Tasks -> TaskState] /\ asker \in [Threads -> AskerState] /\ memo \in MemoState
      /\ \A a \in Threads : a # "free" /\ a # "loop"
  BY MustChargeAssumption DEF MTypeOK, TaskState, TaskPlaces, AskerState, MemoState
<1>o. /\ \A a \in Threads : (Builds(a) => lock = a)
                            /\ (asker[a].at = "publish_key" => memo.plan \in {asker[a].plan, NoPlan})
      /\ \A t \in Tasks : Clears(t) => lock = "loop" /\ \A u \in Tasks : Clears(u) => u = t
  BY DEF OneBuilder
<1>1. ASSUME NEW t \in Tasks, NEW ok \in BOOLEAN,
             \/ Post(t) \/ Put(t, ok) \/ Kept(t) \/ Cancel(t) \/ Settle(t) \/ Delete(t, ok) \/ Deleted(t)
      PROVE  OneBuilder'
  <2>1. UNCHANGED <<memo, lock, asker>>
    BY <1>1 DEF Post, Put, Kept, Cancel, Settle, Delete, Deleted
  <2>2. \A u \in Tasks : Clears(u)' => Clears(u)
    <3>2. CASE Post(t)
      <4>1. \A u \in Tasks : u # t => task'[u].at = task[u].at
        BY <1>t, <3>2 DEF Post, TaskState
      <4>2. task'[t].at = "put"
        BY <3>2, StartStates DEF Post, TaskState
      <4> QED
        BY <4>1, <4>2 DEF Clears
    <3>3. CASE Cancel(t) \/ Settle(t)
      BY <3>3, CancelIs, SettleIs DEF Clears
    <3>4. CASE Put(t, ok) \/ Kept(t) \/ Delete(t, ok) \/ Deleted(t)
      <4>1. CASE \E place \in {"kept", "lock", "deleted"} : Goes(t, place)
        BY <4>1, TaskGoes DEF Clears, TaskPlaces
      <4>2. CASE task' = [task EXCEPT ![t] = Idle]
        BY <4>2, OneTaskMoves, StartStates DEF Clears
      <4> QED
        BY <3>4, <4>1, <4>2 DEF Put, Kept, Delete, Deleted
    <3> QED
      BY <1>1, <3>2, <3>3, <3>4
  <2> QED
    BY <1>o, <2>1, <2>2 DEF OneBuilder, Builds
<1>2. ASSUME NEW t \in Tasks, Lock(t) PROVE OneBuilder'
  <2>1. lock = "free" /\ lock' = "loop" /\ UNCHANGED <<memo, asker>>
    BY <1>2 DEF Lock
  <2>2. (\A u \in Tasks : ~Clears(u)) /\ \A a \in Threads : ~Builds(a)
    BY <1>o, <1>t, <2>1
  <2>3. \A u \in Tasks : Clears(u)' => u = t
    BY <1>2, <2>2, TaskGoes DEF Lock, Clears, TaskPlaces
  <2> QED
    BY <2>1, <2>2, <2>3 DEF OneBuilder, Builds
<1>3. ASSUME NEW t \in Tasks, ClearKey(t) \/ ClearPlan(t) PROVE OneBuilder'
  <2>1. Clears(t) /\ UNCHANGED asker
    BY <1>3 DEF ClearKey, ClearPlan, Clears
  <2>2. \A a \in Threads : ~Builds(a)
    BY <1>o, <1>t, <2>1
  <2>3. CASE ClearKey(t)
    BY <1>o, <2>1, <2>2, <2>3, TaskGoes DEF ClearKey, OneBuilder, Builds, Clears, TaskPlaces
  <2>4. CASE ClearPlan(t)
    BY <1>o, <2>1, <2>2, <2>4, OneTaskMoves, StartStates DEF ClearPlan, OneBuilder, Builds, Clears
  <2> QED
    BY <1>3, <2>3, <2>4
<1>4. ASSUME NEW a \in Threads, Ask(a) \/ Take(a) PROVE OneBuilder'
  <2>1. UNCHANGED <<memo, lock, task>> /\ asker'[a].at \in {"idle", "take", "want"}
        /\ \A b \in Threads \ {a} : asker'[b] = asker[b]
    BY <1>4, AskIs, GivenIs DEF Ask, Take
  <2> QED
    BY <1>o, <2>1 DEF OneBuilder, Builds, Clears
<1>5. ASSUME NEW a \in Threads, Want(a) PROVE OneBuilder'
  <2>1. lock = "free" /\ UNCHANGED <<memo, task>> /\ lock' \in {lock, a}
        /\ \/ asker'[a].at = "idle"
           \/ asker'[a].at = "build" /\ lock' = a
        /\ \A b \in Threads \ {a} : asker'[b] = asker[b]
    BY <1>5, <1>t, StartStates DEF Want, Given, AskerState
  <2>2. (\A u \in Tasks : ~Clears(u)) /\ \A b \in Threads : ~Builds(b)
    BY <1>o, <1>t, <2>1
  <2> QED
    BY <2>1, <2>2 DEF OneBuilder, Builds, Clears
<1>6. ASSUME NEW a \in Threads, NEW recovered \in BOOLEAN,
             Build(a, recovered) \/ PublishPlan(a) \/ PublishKey(a)
      PROVE  OneBuilder'
  <2>1. Builds(a) /\ lock = a /\ UNCHANGED task
    BY <1>6, <1>o DEF Build, PublishPlan, PublishKey, Builds
  <2>2. (\A u \in Tasks : ~Clears(u)) /\ \A b \in Threads \ {a} : ~Builds(b)
    BY <1>o, <1>t, <2>1
  <2>3. /\ \A b \in Threads \ {a} : asker'[b] = asker[b]
        /\ \/ asker'[a].at = "idle"
           \/ asker'[a].at = "publish" /\ lock' = a
           \/ /\ asker'[a].at = "publish_key" /\ lock' = a
              /\ memo'.plan = asker'[a].plan
    <3>1. CASE Build(a, recovered)
      BY <1>t, <2>1, <3>1, StartStates DEF Build, Given, AskerState
    <3>2. CASE PublishPlan(a)
      BY <1>t, <2>1, <3>2 DEF PublishPlan, AskerState, MemoState
    <3>3. CASE PublishKey(a)
      BY <1>t, <2>1, <3>3, StartStates DEF PublishKey, Given, AskerState
    <3> QED
      BY <1>6, <3>1, <3>2, <3>3
  <2> QED
    BY <2>1, <2>2, <2>3 DEF OneBuilder, Builds, Clears
<1>7. CASE Restart
  BY <1>7, StartStates DEF Restart, OneBuilder, Builds, Clears
<1>8. CASE (\E level \in Levels : Reading(level)) \/ (\E r \in Posts : Deadline(r)) \/ UNCHANGED vars
  <2>1. UNCHANGED <<memo, task, asker, lock>>
    BY <1>8 DEF Reading, Deadline, vars
  <2> QED
    BY <1>o, <2>1 DEF OneBuilder, Builds, Clears
<1> QED
  BY <1>1, <1>2, <1>3, <1>4, <1>5, <1>6, <1>7, <1>8 DEF Next

(* A plan that was made before the override in force is never filed under  *)
(* its key.                                                                *)
LEMMA NextPlansAreFiled ==
    ASSUME MTypeOK, PostsAreNew, OneBuilder, PlansAreFiled, [Next]_vars
    PROVE  PlansAreFiled'
<1> DEFINE r == InForce
<1>t. /\ rec \in Recs /\ stored \in Recs /\ Recs \subseteq Nat /\ None = 0
      /\ task \in [Tasks -> TaskState] /\ asker \in [Threads -> AskerState] /\ memo \in MemoState
      /\ InForce \in Recs
  BY MustChargeAssumption, InForceIs
     DEF MTypeOK, TaskState, TaskPlaces, AskerState, MemoState, Recs, Posts, None
<1>k. NoKey \in Keys /\ NoKey.rec = 0 /\ NoMemo.key = NoKey /\ NoMemo.plan = NoPlan /\ Resting.at = "idle"
      /\ Resting \in AskerState
  BY <1>t, StartStates
<1>p. r # 0 =>
         /\ memo.key = Active(r) => memo.plan \in {r, NoPlan}
         /\ \A b \in Threads : Publishes(b) /\ asker[b].plan # r =>
               asker[b].key # Active(r) /\ memo.key # Active(r)
  BY <1>t DEF PlansAreFiled
<1>b. /\ \A a, b \in Threads : Builds(a) /\ Builds(b) => a = b
      /\ \A a \in Threads : asker[a].at = "publish_key" => memo.plan \in {asker[a].plan, NoPlan}
  BY DEF OneBuilder
<1>n. \A q \in Recs : q # 0 => NoKey # Active(q)
  BY <1>t, <1>k DEF Active
<1> HIDE DEF r
(* What is in force goes, or stays and the plans with it.                  *)
<1>s. ASSUME InForce' = 0 PROVE PlansAreFiled'
  BY <1>s, <1>t DEF PlansAreFiled
<1>u. ASSUME InForce' \in {InForce, 0}, UNCHANGED <<memo, asker>> PROVE PlansAreFiled'
  BY <1>p, <1>s, <1>t, <1>u DEF PlansAreFiled, Publishes, r
<1>1. ASSUME NEW t \in Tasks, NEW ok \in BOOLEAN,
             \/ Post(t) \/ Put(t, ok) \/ Cancel(t) \/ Delete(t, ok) \/ Lock(t)
      PROVE  PlansAreFiled'
  <2>1. UNCHANGED <<memo, asker, rec, ended, soc>>
    BY <1>1 DEF Post, Put, Cancel, Delete, Lock, override, world
  <2> QED
    BY <1>u, <2>1, InForceStays
<1>2. ASSUME NEW t \in Tasks, Settle(t) \/ Deleted(t) PROVE PlansAreFiled'
  <2>1. UNCHANGED <<memo, asker, ended, soc>> /\ rec' \in {rec, 0}
    BY <1>2, <1>t DEF Settle, Deleted, world
  <2>2. InForce' \in {InForce, 0}
    BY <1>t, <2>1 DEF InForce, Engages
  <2> QED
    BY <1>u, <2>1, <2>2
<1>3. ASSUME NEW t \in Tasks, Kept(t) PROVE PlansAreFiled'
  <2>1. /\ Posting(t) /\ rec' = task[t].rec /\ UNCHANGED <<memo, asker>>
    BY <1>3 DEF Kept, Posting, Ready
  <2>2. rec' # memo.key.rec /\ \A b \in Threads : rec' # asker[b].key.rec
    BY <2>1 DEF PostsAreNew
  <2>3. InForce' \in {rec', 0}
    BY <1>t DEF InForce
  <2>4. InForce' # 0 => memo.key # Active(InForce') /\ \A b \in Threads : asker[b].key # Active(InForce')
    BY <2>2, <2>3 DEF Active
  <2> QED
    BY <1>s, <2>1, <2>4 DEF PlansAreFiled, Publishes
<1>4. ASSUME NEW t \in Tasks, ClearKey(t) \/ ClearPlan(t) PROVE PlansAreFiled'
  <2>1. UNCHANGED <<asker, rec, ended, soc>> /\ memo'.key = NoKey
    BY <1>4, <1>t, <1>k DEF ClearKey, ClearPlan, override, world, MemoState
  <2>2. InForce' = InForce
    BY <2>1, InForceStays
  <2> QED
    BY <1>n, <1>p, <1>s, <1>t, <2>1, <2>2 DEF PlansAreFiled, Publishes, r
<1>5. ASSUME NEW a \in Threads, Ask(a) \/ Take(a) \/ Want(a) PROVE PlansAreFiled'
  <2>1. /\ UNCHANGED <<memo, rec, ended, soc>> /\ asker'[a].at \in {"idle", "take", "want", "build"}
        /\ \A b \in Threads \ {a} : asker'[b] = asker[b]
    <3>1. CASE Ask(a)
      BY <3>1, AskIs DEF Ask, override, world
    <3>2. CASE Take(a)
      BY <3>2, GivenIs DEF Take, override, world
    <3>3. CASE Want(a)
      <4>1. CASE Given(a, memo.plan)
        BY <3>3, <4>1, GivenIs DEF Want, override, world
      <4>2. CASE asker' = [asker EXCEPT ![a].at = "build"]
        BY <1>t, <3>3, <4>2 DEF Want, AskerState, override, world
      <4> QED
        BY <3>3, <4>1, <4>2 DEF Want
    <3> QED
      BY <1>5, <3>1, <3>2, <3>3
  <2>2. InForce' = InForce
    BY <2>1, InForceStays
  <2> QED
    BY <1>p, <1>s, <1>t, <2>1, <2>2 DEF PlansAreFiled, Publishes, r
<1>6. ASSUME NEW a \in Threads, NEW recovered \in BOOLEAN, Build(a, recovered) PROVE PlansAreFiled'
  <2>1. /\ UNCHANGED <<rec, ended, soc>> /\ memo' \in {memo, NoMemo}
        /\ asker'[a].at = "idle" \/ (asker'[a].at = "publish" /\ asker'[a].plan = InForce)
        /\ \A b \in Threads \ {a} : asker'[b] = asker[b]
    BY <1>6, <1>t, StartStates DEF Build, Given, AskerState, override, world
  <2>2. InForce' = InForce
    BY <2>1, InForceStays
  <2>3. \A b \in Threads : ~Publishes(b)
    BY <1>6, <1>b DEF Build, Builds, Publishes
  <2>4. \A b \in Threads : Publishes(b)' => asker'[b].plan = InForce
    BY <2>1, <2>3 DEF Publishes
  <2> QED
    BY <1>k, <1>n, <1>p, <1>s, <1>t, <2>1, <2>2, <2>4 DEF PlansAreFiled, r
<1>7. ASSUME NEW a \in Threads, PublishPlan(a) PROVE PlansAreFiled'
  <2>1. /\ UNCHANGED <<rec, ended, soc>> /\ memo'.key = memo.key /\ memo'.plan = asker[a].plan
        /\ Publishes(a) /\ asker'[a].plan = asker[a].plan /\ asker'[a].key = asker[a].key
        /\ \A b \in Threads \ {a} : asker'[b] = asker[b]
    BY <1>7, <1>t DEF PublishPlan, AskerState, MemoState, override, world, Publishes
  <2>2. InForce' = InForce
    BY <2>1, InForceStays
  <2>3. \A b \in Threads : Publishes(b)' => b = a
    BY <1>b, <2>1 DEF Publishes, Builds
  <2> QED
    BY <1>p, <1>s, <1>t, <2>1, <2>2, <2>3 DEF PlansAreFiled, r
<1>8. ASSUME NEW a \in Threads, PublishKey(a) PROVE PlansAreFiled'
  <2>1. /\ UNCHANGED <<rec, ended, soc>> /\ memo'.key = asker[a].key /\ memo'.plan = memo.plan
        /\ Publishes(a) /\ memo.plan \in {asker[a].plan, NoPlan} /\ asker'[a].at = "idle"
        /\ \A b \in Threads \ {a} : asker'[b] = asker[b]
    BY <1>8, <1>b, <1>k, <1>t DEF PublishKey, Given, AskerState, MemoState, override, world, Publishes
  <2>2. InForce' = InForce
    BY <2>1, InForceStays
  <2>3. \A b \in Threads : ~Publishes(b)'
    BY <1>b, <2>1 DEF Publishes, Builds
  <2> QED
    BY <1>p, <1>s, <1>t, <2>1, <2>2, <2>3 DEF PlansAreFiled, r
<1>9. CASE Restart
  <2>1. memo'.key = NoKey /\ \A a \in Threads : asker'[a].at = "idle"
    BY <1>9, <1>k DEF Restart
  <2>2. InForce' \in Recs
    <3>1. rec' \in Recs /\ None \in Recs
      BY <1>9, <1>t, StartStates DEF Restart
    <3> QED
      BY <3>1, Zenon DEF InForce
  <2> QED
    BY <1>n, <1>s, <2>1, <2>2 DEF PlansAreFiled, Publishes
<1>10. ASSUME NEW level \in Levels, Reading(level) PROVE PlansAreFiled'
  <2>1. soc' # "low"
    BY <1>10 DEF Reading, PostsAreNew
  <2> QED
    BY <1>s, <1>t, <2>1 DEF InForce, Engages
<1>11. ASSUME NEW d \in Posts, Deadline(d) PROVE PlansAreFiled'
  <2>1. UNCHANGED <<rec, soc, memo, asker>> /\ ended' = ended \union {d}
    BY <1>11 DEF Deadline, override
  <2>2. InForce' \in {InForce, 0}
    BY <1>t, <2>1 DEF InForce, Engages
  <2> QED
    BY <1>u, <2>1, <2>2
<1>12. CASE UNCHANGED vars
  <2>1. UNCHANGED <<memo, asker, rec, ended, soc>>
    BY <1>12 DEF vars, override, world
  <2> QED
    BY <1>u, <2>1, InForceStays
<1> QED
  BY <1>1, <1>2, <1>3, <1>4, <1>5, <1>6, <1>7, <1>8, <1>9, <1>10, <1>11, <1>12 DEF Next

(* Who asked with an override in force gets its plan.                      *)
LEMMA NextAskersWillSee ==
    ASSUME MTypeOK, PostsAreNew, OneBuilder, PlansAreFiled, AskersWillSee, OverrideIsPlanned, [Next]_vars
    PROVE  AskersWillSee' /\ OverrideIsPlanned'
<1>t. /\ rec \in Recs /\ Recs \subseteq Nat /\ None = 0
      /\ task \in [Tasks -> TaskState] /\ asker \in [Threads -> AskerState] /\ memo \in MemoState
      /\ since \in [Threads -> Recs] /\ InForce \in Recs /\ misplanned = FALSE
  BY MustChargeAssumption, InForceIs
     DEF MTypeOK, TaskState, TaskPlaces, AskerState, MemoState, Recs, Posts, None, OverrideIsPlanned
<1>f. ASSUME NEW a \in Threads, since[a] # 0
      PROVE  /\ since[a] = InForce /\ asker[a].at # "idle" /\ asker[a].key = Active(since[a])
             /\ asker[a].at = "take" =>
                   /\ memo.plan \in {since[a], NoPlan}
                   /\ \A b \in Threads : Publishes(b) => asker[b].plan = since[a]
  BY <1>f, <1>t DEF AskersWillSee
<1>p. InForce # 0 =>
         /\ memo.key = Active(InForce) => memo.plan \in {InForce, NoPlan}
         /\ \A b \in Threads : Publishes(b) /\ asker[b].plan # InForce =>
               asker[b].key # Active(InForce) /\ memo.key # Active(InForce)
  BY <1>t DEF PlansAreFiled
<1>b. \A a, b \in Threads : Builds(a) /\ Builds(b) => a = b
  BY DEF OneBuilder
(* What changes what is in force drops who asked before.                   *)
<1>n. ASSUME Noted, UNCHANGED <<memo, asker, misplanned>> PROVE AskersWillSee' /\ OverrideIsPlanned'
  <2>1. \A a \in Threads : since'[a] = 0 \/ (since'[a] = since[a] /\ since[a] = InForce')
    BY <1>n, <1>t, NotedIs
  <2> QED
    BY <1>f, <1>n, <1>t, <2>1 DEF AskersWillSee, OverrideIsPlanned, Publishes
<1>u. ASSUME UNCHANGED <<rec, ended, soc, memo, asker, since, misplanned>>
      PROVE  AskersWillSee' /\ OverrideIsPlanned'
  BY <1>f, <1>t, <1>u, InForceStays DEF AskersWillSee, OverrideIsPlanned, Publishes
(* A thread is given its answer: the others wait on.                       *)
<1>g. ASSUME NEW a \in Threads, NEW plan, Given(a, plan), UNCHANGED <<rec, ended, soc>>,
             since[a] # 0 => plan \in {since[a], NoPlan},
             \A b \in Threads \ {a} : since[b] # 0 /\ asker[b].at = "take" => memo'.plan \in {since[b], NoPlan}
      PROVE  AskersWillSee' /\ OverrideIsPlanned'
  <2>1. ~misplanned'
    BY <1>g, <1>t DEF Given
  <2>2. /\ since'[a] = 0 /\ asker'[a].at = "idle"
        /\ \A b \in Threads \ {a} : since'[b] = since[b] /\ asker'[b] = asker[b]
    BY <1>g, <1>t, StartStates DEF Given
  <2>3. InForce' = InForce
    BY <1>g, InForceStays
  <2> QED
    BY <1>f, <1>g, <1>t, <2>1, <2>2, <2>3 DEF AskersWillSee, OverrideIsPlanned, Publishes
<1>1. ASSUME NEW t \in Tasks, NEW ok \in BOOLEAN,
             \/ Post(t) \/ Put(t, ok) \/ Cancel(t) \/ Delete(t, ok) \/ Lock(t)
      PROVE  AskersWillSee' /\ OverrideIsPlanned'
  BY <1>1, <1>u DEF Post, Put, Cancel, Delete, Lock, override, world, ghosts
<1>2. ASSUME NEW t \in Tasks, Kept(t) \/ Settle(t) \/ Deleted(t)
      PROVE  AskersWillSee' /\ OverrideIsPlanned'
  BY <1>2, <1>n DEF Kept, Settle, Deleted
<1>3. CASE (\E level \in Levels : Reading(level)) \/ (\E d \in Posts : Deadline(d))
  BY <1>3, <1>n DEF Reading, Deadline
<1>4. ASSUME NEW t \in Tasks, ClearKey(t) \/ ClearPlan(t) PROVE AskersWillSee' /\ OverrideIsPlanned'
  <2>1. UNCHANGED <<asker, rec, ended, soc, since, misplanned>> /\ memo'.plan \in {memo.plan, NoPlan}
    BY <1>4, <1>t, StartStates DEF ClearKey, ClearPlan, override, world, ghosts, MemoState
  <2>2. InForce' = InForce
    BY <2>1, InForceStays
  <2> QED
    BY <1>f, <1>t, <2>1, <2>2 DEF AskersWillSee, OverrideIsPlanned, Publishes
<1>5. ASSUME NEW a \in Threads, Ask(a) PROVE AskersWillSee' /\ OverrideIsPlanned'
  <2>1. /\ UNCHANGED <<memo, rec, ended, soc, misplanned>>
        /\ since'[a] = InForce /\ asker'[a].key = Key
        /\ asker'[a].at = IF memo.key = Key THEN "take" ELSE "want"
        /\ \A b \in Threads \ {a} : since'[b] = since[b] /\ asker'[b] = asker[b]
    BY <1>5, <1>t, AskIs DEF Ask, override, world
  <2>2. InForce' = InForce /\ (InForce # 0 => Key = Active(InForce))
    BY <1>t, <2>1, InForceStays, InForceIs
  <2>3. \A b \in Threads : Publishes(b)' => b # a /\ Publishes(b)
    BY <2>1 DEF Publishes
  <2>4. ASSUME since'[a] # 0
        PROVE  /\ asker'[a].at # "idle" /\ asker'[a].key = Active(since'[a])
               /\ asker'[a].at = "take" =>
                     /\ memo.plan \in {since'[a], NoPlan}
                     /\ \A b \in Threads : Publishes(b)' => asker'[b].plan = since'[a]
    BY <1>p, <2>1, <2>2, <2>3, <2>4
  <2>5. ASSUME NEW b \in Threads \ {a}, since'[b] # 0
        PROVE  /\ since'[b] = InForce /\ asker'[b].at # "idle" /\ asker'[b].key = Active(since'[b])
               /\ asker'[b].at = "take" =>
                     /\ memo.plan \in {since'[b], NoPlan}
                     /\ \A c \in Threads : Publishes(c)' => asker'[c].plan = since'[b]
    BY <1>f, <2>1, <2>3, <2>5
  <2> QED
    BY <1>t, <2>1, <2>2, <2>4, <2>5 DEF AskersWillSee, OverrideIsPlanned
<1>6. ASSUME NEW a \in Threads, Take(a) PROVE AskersWillSee' /\ OverrideIsPlanned'
  BY <1>6, <1>f, <1>g DEF Take, override, world
<1>7. ASSUME NEW a \in Threads, Want(a) PROVE AskersWillSee' /\ OverrideIsPlanned'
  <2>0. UNCHANGED <<memo, rec, ended, soc>>
    BY <1>7 DEF Want, override, world
  <2>1. CASE memo.key = asker[a].key
    <3>1. since[a] # 0 => memo.plan \in {since[a], NoPlan}
      BY <1>f, <1>p, <2>1
    <3> QED
      BY <1>7, <1>f, <1>g, <2>0, <2>1, <3>1 DEF Want
  <2>2. CASE memo.key # asker[a].key
    <3>1. /\ UNCHANGED <<since, misplanned>>
          /\ asker'[a].at = "build" /\ asker'[a].key = asker[a].key /\ asker'[a].plan = asker[a].plan
          /\ \A b \in Threads \ {a} : asker'[b] = asker[b]
      BY <1>7, <1>t, <2>2 DEF Want, AskerState, ghosts
    <3>2. InForce' = InForce
      BY <2>0, InForceStays
    <3> QED
      BY <1>f, <1>t, <2>0, <3>1, <3>2 DEF AskersWillSee, OverrideIsPlanned, Publishes
  <2> QED
    BY <2>1, <2>2
<1>8. ASSUME NEW a \in Threads, NEW recovered \in BOOLEAN, Build(a, recovered)
      PROVE  AskersWillSee' /\ OverrideIsPlanned'
  <2>0. UNCHANGED <<rec, ended, soc>> /\ memo'.plan \in {memo.plan, NoPlan}
    BY <1>8, <1>t, StartStates DEF Build, override, world
  <2>1. CASE soc = "unknown"
    BY <1>8, <1>f, <1>g, <2>0, <2>1 DEF Build
  <2>2. CASE soc # "unknown"
    <3>1. /\ UNCHANGED <<since, misplanned>>
          /\ asker'[a].at = "publish" /\ asker'[a].key = asker[a].key /\ asker'[a].plan = InForce
          /\ \A b \in Threads \ {a} : asker'[b] = asker[b]
      BY <1>8, <1>t, <2>2 DEF Build, AskerState, ghosts
    <3>2. InForce' = InForce
      BY <2>0, InForceStays
    <3>3. \A b \in Threads : Publishes(b)' => asker'[b].plan = InForce \/ (b # a /\ Publishes(b))
      BY <3>1 DEF Publishes
    <3> QED
      BY <1>f, <1>t, <2>0, <3>1, <3>2, <3>3 DEF AskersWillSee, OverrideIsPlanned
  <2> QED
    BY <2>1, <2>2
<1>9. ASSUME NEW a \in Threads, PublishPlan(a) PROVE AskersWillSee' /\ OverrideIsPlanned'
  <2>1. /\ UNCHANGED <<rec, ended, soc, since, misplanned>> /\ memo'.plan = asker[a].plan
        /\ Publishes(a) /\ asker'[a].at = "publish_key"
        /\ asker'[a].plan = asker[a].plan /\ asker'[a].key = asker[a].key
        /\ \A b \in Threads \ {a} : asker'[b] = asker[b]
    BY <1>9, <1>t DEF PublishPlan, AskerState, MemoState, override, world, ghosts, Publishes
  <2>2. InForce' = InForce
    BY <2>1, InForceStays
  <2>3. \A b \in Threads : Publishes(b)' => Publishes(b) /\ asker'[b].plan = asker[b].plan
    BY <2>1 DEF Publishes
  <2> QED
    BY <1>f, <1>t, <2>1, <2>2, <2>3 DEF AskersWillSee, OverrideIsPlanned
<1>10. ASSUME NEW a \in Threads, PublishKey(a) PROVE AskersWillSee' /\ OverrideIsPlanned'
  <2>1. /\ UNCHANGED <<rec, ended, soc>> /\ memo'.plan = memo.plan /\ Publishes(a)
        /\ Given(a, asker[a].plan)
    BY <1>10, <1>t DEF PublishKey, MemoState, override, world, Publishes
  <2>2. since[a] # 0 => asker[a].plan = since[a]
    BY <1>f, <1>p, <2>1
  <2> QED
    BY <1>f, <1>g, <2>1, <2>2
<1>11. CASE Restart
  <2>1. \A a \in Threads : since'[a] = 0
    BY <1>11, <1>t DEF Restart
  <2> QED
    BY <1>11, <1>t, <2>1 DEF Restart, AskersWillSee, OverrideIsPlanned
<1>12. CASE UNCHANGED vars
  BY <1>12, <1>u DEF vars, override, world, ghosts
<1> QED
  BY <1>1, <1>2, <1>3, <1>4, <1>5, <1>6, <1>7, <1>8, <1>9, <1>10, <1>11, <1>12 DEF Next

(* An answered cancel that met no request has emptied memory and store.    *)
LEMMA NextCancelsTakeHold ==
    ASSUME MTypeOK, PostsAreNew, CancelsTakeHold, [Next]_vars
    PROVE  CancelsTakeHold'
<1>t. /\ task \in [Tasks -> TaskState] /\ None = 0 /\ cancelled \in BOOLEAN
  BY DEF MTypeOK, TaskState, TaskPlaces, None
<1>c. /\ cancelled => NoPostUnderWay /\ rec = 0 /\ stored = 0
      /\ \A t \in Tasks : task[t].kind = "cancel" /\ task[t].alone =>
            /\ NoPostUnderWay
            /\ task[t].at # "delete" => stored = 0
            /\ task[t].at \notin {"delete", "deleted"} => rec = 0
  BY <1>t DEF CancelsTakeHold
<1>i. Idle.kind = "none" /\ Idle \in TaskState /\ ~Idle.alone
  BY StartStates
(* A task goes on or goes home: it takes nothing back from the others.     *)
<1>a. ASSUME NEW t \in Tasks, \A u \in Tasks \ {t} : task'[u] = task[u],
             rec' \in {rec, 0}, stored' \in {stored, 0},
             task'[t].kind \in {task[t].kind, "none", "settle"},
             task'[t].kind = "cancel" /\ task'[t].alone =>
                /\ task[t].kind = "cancel" /\ task[t].alone
                /\ task'[t].at # "delete" => stored' = 0
                /\ task'[t].at \notin {"delete", "deleted"} => rec' = 0,
             cancelled' => cancelled \/ (task[t].kind = "cancel" /\ task[t].alone /\ rec' = 0 /\ stored' = 0)
      PROVE  CancelsTakeHold'
  <2>1. NoPostUnderWay => NoPostUnderWay'
    BY <1>a DEF NoPostUnderWay
  <2> QED
    BY <1>a, <1>c, <1>t, <2>1 DEF CancelsTakeHold
<1>u. ASSUME UNCHANGED <<rec, stored, task, cancelled>> PROVE CancelsTakeHold'
  BY <1>c, <1>t, <1>u DEF CancelsTakeHold, NoPostUnderWay
(* While a request is under way no cancel counts.                          *)
<1>p. ASSUME NEW t \in Tasks, task[t].kind = "post",
             \A u \in Tasks \ {t} : task'[u] = task[u],
             task'[t].kind \in {"post", "none"}, UNCHANGED cancelled
      PROVE  CancelsTakeHold'
  <2>1. ~NoPostUnderWay
    BY <1>p DEF NoPostUnderWay
  <2>2. ~cancelled /\ \A u \in Tasks : ~(task[u].kind = "cancel" /\ task[u].alone)
    BY <1>c, <2>1
  <2> QED
    BY <1>p, <2>2 DEF CancelsTakeHold
<1>1. ASSUME NEW t \in Tasks, Post(t) PROVE CancelsTakeHold'
  <2>1. ~cancelled' /\ \A u \in Tasks : ~(task'[u].kind = "cancel" /\ task'[u].alone)
    <3>1. ~[Idle EXCEPT !.at = "put", !.kind = "post", !.rec = posts + 1].alone
      BY DEF Idle
    <3>2. \A u \in Tasks : ~[task[u] EXCEPT !.alone = FALSE].alone
      BY <1>t DEF TaskState
    <3> QED
      BY <1>1, <3>1, <3>2 DEF Post
  <2> QED
    BY <2>1 DEF CancelsTakeHold
<1>2. ASSUME NEW t \in Tasks, NEW ok \in BOOLEAN, Put(t, ok) \/ Kept(t) PROVE CancelsTakeHold'
  <2>1. task[t].kind = "post"
    BY <1>2 DEF Put, Kept, Ready, PostsAreNew, Posting
  <2>2. /\ \A u \in Tasks \ {t} : task'[u] = task[u]
        /\ task'[t].kind \in {"post", "none"}
    BY <1>2, <1>i, <2>1, TaskGoes, OneTaskMoves DEF Put, Kept, TaskPlaces
  <2> QED
    BY <1>2, <1>p, <2>1, <2>2 DEF Put, Kept, ghosts
<1>3. ASSUME NEW t \in Tasks, Cancel(t) PROVE CancelsTakeHold'
  <2>1. /\ task'[t].at = "delete" /\ task'[t].kind = "cancel"
        /\ task'[t].alone = NoPostUnderWay
        /\ \A u \in Tasks \ {t} : task'[u] = task[u]
    BY <1>3, CancelIs
  <2>2. NoPostUnderWay => NoPostUnderWay'
    BY <2>1 DEF NoPostUnderWay
  <2>3. UNCHANGED <<rec, stored, cancelled>>
    BY <1>3 DEF Cancel, override, ghosts
  <2> QED
    BY <1>c, <1>t, <2>1, <2>2, <2>3 DEF CancelsTakeHold
<1>4. ASSUME NEW t \in Tasks, Settle(t) PROVE CancelsTakeHold'
  <2>1. UNCHANGED <<stored, cancelled>> /\ rec' = 0
    BY <1>4, <1>t DEF Settle
  <2> QED
    BY <1>4, <1>a, <2>1, SettleIs
<1>5. ASSUME NEW t \in Tasks, NEW ok \in BOOLEAN, Delete(t, ok) PROVE CancelsTakeHold'
  <2>1. UNCHANGED <<rec, cancelled>> /\ stored' = (IF ok THEN 0 ELSE stored) /\ task[t].at = "delete"
    BY <1>5, <1>t DEF Delete, ghosts
  <2>2. CASE ok
    <3>1. Goes(t, "deleted")
      BY <1>5, <2>2 DEF Delete
    <3> QED
      BY <1>a, <2>1, <2>2, <3>1, TaskGoes DEF TaskPlaces
  <2>3. CASE ~ok
    <3>1. task' = [task EXCEPT ![t] = Idle]
      BY <1>5, <2>3 DEF Delete
    <3> QED
      BY <1>a, <1>i, <2>1, <2>3, <3>1, OneTaskMoves
  <2> QED
    BY <2>2, <2>3
<1>6. ASSUME NEW t \in Tasks, Deleted(t) PROVE CancelsTakeHold'
  <2>1. /\ UNCHANGED <<stored, cancelled>> /\ task[t].at = "deleted"
        /\ rec' = (IF task[t].kind = "cancel" THEN 0 ELSE rec)
        /\ Goes(t, "lock")
    BY <1>6, <1>t DEF Deleted, Ready
  <2>2. /\ task'[t].at = "lock" /\ task'[t].kind = task[t].kind /\ task'[t].alone = task[t].alone
        /\ \A u \in Tasks \ {t} : task'[u] = task[u]
    BY <2>1, TaskGoes DEF TaskPlaces
  <2> QED
    BY <1>a, <1>c, <2>1, <2>2
<1>7. ASSUME NEW t \in Tasks, Lock(t) \/ ClearKey(t) PROVE CancelsTakeHold'
  <2>1. UNCHANGED <<rec, stored, cancelled>> /\ task[t].at \in {"lock", "clear_key"}
    BY <1>7 DEF Lock, ClearKey, override, ghosts
  <2>2. /\ task'[t].at \in {"clear_key", "clear_plan"}
        /\ task'[t].kind = task[t].kind /\ task'[t].alone = task[t].alone
        /\ \A u \in Tasks \ {t} : task'[u] = task[u]
    BY <1>7, TaskGoes DEF Lock, ClearKey, TaskPlaces
  <2> QED
    BY <1>a, <1>c, <2>1, <2>2
<1>8. ASSUME NEW t \in Tasks, ClearPlan(t) PROVE CancelsTakeHold'
  <2>1. /\ UNCHANGED <<rec, stored>> /\ task[t].at = "clear_plan"
        /\ cancelled' = (cancelled \/ (task[t].kind = "cancel" /\ task[t].alone))
        /\ task' = [task EXCEPT ![t] = Idle]
    BY <1>8 DEF ClearPlan, override
  <2>2. /\ task'[t] = Idle /\ \A u \in Tasks \ {t} : task'[u] = task[u]
    BY <1>i, <2>1, OneTaskMoves
  <2> QED
    BY <1>a, <1>c, <1>i, <2>1, <2>2
<1>9. CASE Restart
  <2>1. /\ \A t \in Tasks : task'[t].kind = "none"
        /\ rec' = stored /\ UNCHANGED <<stored, cancelled>>
    BY <1>9, <1>i DEF Restart
  <2> QED
    BY <1>c, <1>t, <2>1 DEF CancelsTakeHold, NoPostUnderWay
<1>10. ASSUME NEW a \in Threads, NEW recovered \in BOOLEAN,
              \/ Ask(a) \/ Take(a) \/ Want(a) \/ Build(a, recovered) \/ PublishPlan(a) \/ PublishKey(a)
       PROVE  CancelsTakeHold'
  BY <1>10, <1>u DEF Ask, Take, Want, Build, PublishPlan, PublishKey, Given, override, ghosts
<1>11. CASE (\E level \in Levels : Reading(level)) \/ (\E r \in Posts : Deadline(r)) \/ UNCHANGED vars
  BY <1>11, <1>u DEF Reading, Deadline, vars, override, ghosts
<1> QED
  BY <1>1, <1>2, <1>3, <1>4, <1>5, <1>6, <1>7, <1>8, <1>9, <1>10, <1>11 DEF Next

LEMMA NextMInv == MInv /\ [Next]_vars => MInv'
  BY NextMTypeOK, NextPostsAreNew, NextOneBuilder, NextPlansAreFiled, NextAskersWillSee, NextCancelsTakeHold
     DEF MInv

(* A thread that asks while one override is in force, until it is          *)
(* answered, is given a plan for that override or none at all, whoever     *)
(* built it and however the caches are cleared meanwhile                   *)
(* (plan_with_recovery and invalidate_plan_cache of the control service).  *)
THEOREM AskersGetThePlan == Spec => []OverrideIsPlanned
<1>1. MInv => OverrideIsPlanned
  BY DEF MInv
<1> QED
  BY <1>1, InitMInv, NextMInv, PTL DEF Spec

(* A cancel that was answered and met no other request leaves no override  *)
(* in memory or in the store, whatever write fails and however often the   *)
(* process is restarted (cancel_must_charge of the API).                   *)
THEOREM CancelsAreFinal == Spec => []CancelIsFinal
<1>1. MInv => CancelIsFinal
  BY DEF MInv, CancelsTakeHold, CancelIsFinal
<1> QED
  BY <1>1, InitMInv, NextMInv, PTL DEF Spec
=============================================================================
