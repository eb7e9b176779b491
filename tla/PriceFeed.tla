------------------------------- MODULE PriceFeed -------------------------------
(***************************************************************************)
(* The Tibber price source, src/ems/sources/tibber.py.  The dashboard, the *)
(* recorder, the planner and the control tick all ask it for the curve, on *)
(* threads of their own; it asks the service at most once per window,      *)
(* serves the last good curve while the service is down, a fixed tariff if *)
(* it never had one, and tells the tick since when prices are out.  A      *)
(* restart begins with the curve of the cache table.                       *)
(*                                                                         *)
(* A curve is known by the time it was asked for.                          *)
(***************************************************************************)
EXTENDS Integers

CONSTANTS
    PriceAskers,        \* threads
    CacheTtl, RetryTtl, \* until the next request, after a curve and after none
    OutageGrace, OutageMinFailures,
    PostTime,           \* bound: how long a request may take
    PriceEnd            \* bound: the last moment looked at

ASSUME PriceFeedAssumption ==
    /\ {CacheTtl, RetryTtl, OutageGrace, OutageMinFailures, PostTime, PriceEnd} \subseteq Nat
    /\ RetryTtl <= CacheTtl

Never == -1

VARIABLES
    moment,             \* the clock
    prices,             \* what the source keeps
    priceRow,           \* the curve in the cache table and when it was put there
    priceAsker,         \* the threads in slots()
    polled, polledWell  \* the last request of this process; the last curve on record

pvars == <<moment, prices, priceRow, priceAsker, polled, polledWell>>

Fresh(row) ==
    [cached |-> row, lastOk |-> row, lastError |-> Never, failures |-> 0, fixed |-> FALSE,
     next |-> IF row # Never /\ moment < row + CacheTtl THEN row + CacheTtl ELSE Never]

(* Mutant: a curve of an earlier process does not count as a success. *)
MutWarmStart(row) == [Fresh(row) EXCEPT !.lastOk = Never]

\* _warm_start: the stored curve serves whatever its age, and only within the
\* window does it put off the next request.
WarmStart(row) == Fresh(row)

PInit ==
    /\ moment = 0
    /\ priceRow = Never /\ prices = WarmStart(Never)
    /\ priceAsker = [a \in PriceAskers |-> [at |-> "idle", since |-> Never]]
    /\ polled = Never /\ polledWell = Never

Throttled == prices.next # Never /\ moment < prices.next

\* The last good curve, or else the fixed tariff if there is one.
Served(p) ==
    IF p.cached # Never THEN {[p EXCEPT !.fixed = FALSE]}
    ELSE {[p EXCEPT !.fixed = configured] : configured \in BOOLEAN}

\* slots(), before the lock.
AskPrices(a) ==
    /\ priceAsker[a].at = "idle"
    /\ IF Throttled
       THEN prices' \in Served(prices) /\ UNCHANGED priceAsker
       ELSE priceAsker' = [priceAsker EXCEPT ![a].at = "waiting"] /\ UNCHANGED prices
    /\ UNCHANGED <<moment, priceRow, polled, polledWell>>

(* Mutant: who has waited for the lock asks the service in any case. *)
MutStillDue == TRUE
StillDue == ~Throttled

LockPrices(a) ==
    /\ priceAsker[a].at = "waiting"
    /\ \A b \in PriceAskers : priceAsker[b].at # "asking"
    /\ IF StillDue
       THEN /\ priceAsker' = [priceAsker EXCEPT ![a] = [at |-> "asking", since |-> moment]]
            /\ polled' = moment
            /\ UNCHANGED prices
       ELSE /\ prices' \in Served(prices)
            /\ priceAsker' = [priceAsker EXCEPT ![a].at = "idle"]
            /\ UNCHANGED polled
    /\ UNCHANGED <<moment, priceRow, polledWell>>

\* A curve came; it is kept, and put on record unless that fails.
PricesCome(a) ==
    /\ priceAsker[a].at = "asking"
    /\ LET since == priceAsker[a].since
       IN  /\ prices' = [cached |-> since, lastOk |-> since, lastError |-> Never,
                         failures |-> 0, fixed |-> FALSE, next |-> since + CacheTtl]
           /\ \/ priceRow' = moment /\ polledWell' = since
              \/ UNCHANGED <<priceRow, polledWell>>
    /\ priceAsker' = [priceAsker EXCEPT ![a] = [at |-> "idle", since |-> Never]]
    /\ UNCHANGED <<moment, polled>>

\* An error, or an empty answer.
PricesFail(a) ==
    /\ priceAsker[a].at = "asking"
    /\ LET since == priceAsker[a].since
       IN  prices' \in Served([prices EXCEPT
                          !.next = since + RetryTtl,
                          !.failures = IF @ < OutageMinFailures THEN @ + 1 ELSE @,
                          !.lastError = IF @ = Never THEN since ELSE @])
    /\ priceAsker' = [priceAsker EXCEPT ![a] = [at |-> "idle", since |-> Never]]
    /\ UNCHANGED <<moment, priceRow, polled, polledWell>>

PriceRestart ==
    /\ prices' = WarmStart(priceRow)
    /\ priceAsker' = [a \in PriceAskers |-> [at |-> "idle", since |-> Never]]
    /\ polled' = Never
    /\ UNCHANGED <<moment, priceRow, polledWell>>

PriceLater ==
    /\ moment < PriceEnd
    /\ \A a \in PriceAskers : priceAsker[a].at = "asking" => moment < priceAsker[a].since + PostTime
    /\ moment' = moment + 1
    /\ UNCHANGED <<prices, priceRow, priceAsker, polled, polledWell>>

PNext ==
    \/ \E a \in PriceAskers : AskPrices(a) \/ LockPrices(a) \/ PricesCome(a) \/ PricesFail(a)
    \/ PriceRestart \/ PriceLater

PSpec == PInit /\ [][PNext]_pvars

\* unavailable_since.
Unavailable ==
    /\ prices.lastError # Never
    /\ \/ prices.fixed
       \/ /\ prices.failures >= OutageMinFailures
          /\ prices.lastOk # Never => moment - prices.lastOk > OutageGrace
-----------------------------------------------------------------------------
\* However many ask at once, and over restarts: the service is not asked again
\* within the window of a curve that is on record, nor within the retry time of
\* any request of the same process (HTTP 429 in tibber.py).
PollsSpaced ==
    [][\A a \in PriceAskers :
          priceAsker[a].at # "asking" /\ priceAsker'[a].at = "asking" =>
              /\ polled # Never => moment - polled >= RetryTtl
              /\ polledWell # Never => moment - polledWell >= CacheTtl]_pvars

\* Control is told of an outage only when no curve was ever had, or the curve
\* in use is older than the grace: SPEC section 6 keeps a cached curve usable.
NoPhantomOutage ==
    Unavailable => prices.cached = Never \/ moment - prices.cached > OutageGrace
-----------------------------------------------------------------------------
(* The inductive invariant behind the two (proved in Caches_proofs).       *)
Moments == Nat \union {Never}

PTypeOK ==
    /\ moment \in Nat
    /\ prices \in [cached : Moments, lastOk : Moments, lastError : Moments,
                   failures : Nat, fixed : BOOLEAN, next : Moments]
    /\ priceAsker \in [PriceAskers -> [at : {"idle", "waiting", "asking"}, since : Moments]]
    /\ {priceRow, polled, polledWell} \subseteq Moments

NobodyAsks == \A a \in PriceAskers : priceAsker[a].at # "asking"

\* One request at a time, and it is the last one made.
RequestIsPolled ==
    \A a \in PriceAskers : priceAsker[a].at = "asking" =>
        /\ priceAsker[a].since = polled /\ polled # Never
        /\ \A b \in PriceAskers : priceAsker[b].at = "asking" => b = a

\* The last success is the curve in use; a fixed tariff serves without one.
CurveIsSuccess == prices.lastOk = prices.cached /\ (prices.fixed => prices.cached = Never)

\* Between two requests the next one is put off far enough: after whatever
\* came of the last one, and after the last curve on record, which a restart
\* finds in the table under a later time.
PutOff ==
    /\ polled <= moment
    /\ polled # Never /\ NobodyAsks => prices.next # Never /\ prices.next >= polled + RetryTtl
    /\ polledWell # Never =>
          /\ priceRow # Never /\ priceRow >= polledWell
          /\ \/ moment >= polledWell + CacheTtl
             \/ NobodyAsks /\ prices.next # Never /\ prices.next >= polledWell + CacheTtl

PInv == PTypeOK /\ RequestIsPolled /\ CurveIsSuccess /\ PutOff
=============================================================================
