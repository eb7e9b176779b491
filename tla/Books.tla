-------------------------------- MODULE Books ---------------------------------
(***************************************************************************)
(* The daily books: what becomes of the samples of a day.  The recorder    *)
(* (src/ems/sense.py) puts samples into the history store; the roll-up     *)
(* loop (src/ems/rollups.py, src/ems/web/api.py) turns those of a finished *)
(* day into slot averages (observations), a row of daily energy and a row  *)
(* of daily finance, every day at 00:10 and once at a start; a view, the   *)
(* digest or an export (src/ems/web/api.py, _ensure_day_finance and        *)
(* _finance_window) fills the same finance rows; the maintenance loop      *)
(* deletes old samples.  All of them await the store at every step, and    *)
(* the process may die and come back, perhaps as a later version whose     *)
(* finance formula is another.                                             *)
(*                                                                         *)
(* A day has DayTicks ticks, one sample each at most; its tick 0 lies      *)
(* before 00:10.  A row is known by the samples it was made from.          *)
(***************************************************************************)
EXTENDS Integers, FiniteSets

CONSTANTS
    DayTicks,               \* ticks of a local day
    Lookback,               \* LOOKBACK_DAYS, 7 in the code
    Retention,              \* history_retention_days, 90 by default
    LastTick, MaxBoots, MaxViews,   \* bounds
    MaxTroubles             \* bound: reads and writes that fail, samples that are late or lost

ASSUME BooksAssumption ==
    /\ {DayTicks, Lookback, Retention} \subseteq Nat \ {0} /\ DayTicks > 1
    /\ Lookback < Retention
    /\ {LastTick, MaxBoots, MaxViews, MaxTroubles} \subseteq Nat

Ticks == 0 .. LastTick
DateOf(t) == t \div DayTicks
Dates == {DateOf(t) : t \in Ticks}
Blank == -1

VARIABLES
    clock,
    held,           \* the sample in the recorder's hand
    raw,            \* raw_samples and derived_samples
    obs,            \* observations: the slots that have a row
    energy,         \* daily_energy: per day, the samples in its flows and its loads
    finance,        \* daily_finance: per day, the samples it is of and its calc_v
    version,        \* _FINANCE_CALC_VERSION of the running code
    loop,           \* the roll-up loop: where it is and what it has in hand
    asks,           \* the finance requests: one of the loop, one of a view
    wake,           \* when the loop runs next
    troubles, boots, views,
    \* For the properties.
    due,            \* the samples of the days that count when the last run began
    clean           \* the last run did all it set out to do

books == <<obs, energy, finance>>
ghosts == <<due, clean>>
booksVars == <<clock, held, raw, books, version, loop, asks, wake, troubles, boots, views, ghosts>>

Unbooked == [flows |-> {Blank}, loads |-> {Blank}]
Unpriced == [of |-> {Blank}, calc_v |-> Blank]
Askers == {"loop", "view"}
NoAsk == [at |-> "idle", day |-> Blank, of |-> {}]
Asleep == [at |-> "asleep", today |-> Blank, day |-> Blank, had |-> {}, priced |-> {}]

Of(samples, d) == {t \in samples : DateOf(t) = d}
Booked == {d \in Dates : energy[d] # Unbooked}
Priced == {d \in Dates : finance[d] # Unpriced}

BooksInit ==
    /\ clock = 0 /\ held = Blank /\ raw = {} /\ obs = {}
    /\ energy = [d \in Dates |-> Unbooked] /\ finance = [d \in Dates |-> Unpriced]
    /\ version = 1 /\ loop = Asleep /\ asks = [a \in Askers |-> NoAsk] /\ wake = 0
    /\ troubles = 0 /\ boots = 0 /\ views = 0
    /\ due = {} /\ clean = FALSE
-----------------------------------------------------------------------------
(* The recorder: a sample has the time at which its cycle began, and is    *)
(* written when the sources have answered and the store lets it.  A cycle  *)
(* that fails leaves its sample out.                                       *)

Up == wake # Blank

Sample ==
    /\ Up /\ held = Blank /\ clock \notin raw
    /\ held' = clock
    /\ UNCHANGED <<clock, raw, books, version, loop, asks, wake, troubles, boots, views, ghosts>>

Record ==
    /\ held # Blank
    /\ raw' = raw \union {held} /\ held' = Blank
    /\ UNCHANGED <<clock, books, version, loop, asks, wake, troubles, boots, views, ghosts>>

-----------------------------------------------------------------------------
(* catch_up_rollups: the last completed days, one after the other.         *)

completed_lookback_days(today) == today - Lookback .. today - 1

\* seconds_until_next_rollup: the next 00:10.
seconds_until_next_rollup(now) ==
    (IF now % DayTicks = 0 THEN DateOf(now) ELSE DateOf(now) + 1) * DayTicks + 1

EndRun(whole) ==
    /\ loop' = [Asleep EXCEPT !.today = loop.today]
    /\ wake' = seconds_until_next_rollup(clock) /\ clean' = whole

\* Oldest first.
NextDay(whole) ==
    IF loop.day + 1 < loop.today
    THEN loop' = [loop EXCEPT !.at = "look", !.day = @ + 1] /\ UNCHANGED wake /\ clean' = whole
    ELSE EndRun(whole)

\* Which days have rows is asked once, when the run begins.
BeginRun ==
    /\ loop.at = "asleep" /\ Up /\ clock >= wake
    /\ due' = {t \in raw : DateOf(t) \in completed_lookback_days(DateOf(clock))}
    /\ loop' = [at |-> "look", today |-> DateOf(clock), day |-> DateOf(clock) - Lookback,
                had |-> Booked, priced |-> Priced]
    /\ clean' = TRUE
    /\ UNCHANGED <<clock, held, raw, books, version, asks, wake, troubles, boots, views>>

HasSamples == Of(raw, loop.day) # {}
IsYesterday == loop.day = loop.today - 1

(* Mutant: a day that has its row is done. *)
MutNeedsEnergy == HasSamples /\ loop.day \notin loop.had

NeedsEnergy == HasSamples /\ (loop.day \notin loop.had \/ IsYesterday)
NeedsFinance ==
    \/ HasSamples /\ (loop.day \notin loop.priced \/ IsYesterday)
    \/ ~HasSamples /\ loop.day \in loop.priced

\* One look at the samples of the day decides on both rows.
Look ==
    /\ loop.at = "look"
    /\ IF NeedsEnergy
       THEN /\ loop' = [loop EXCEPT !.at = IF NeedsFinance THEN "obs" ELSE "obs_only"]
            /\ UNCHANGED <<asks, wake, clean>>
       ELSE IF NeedsFinance
       THEN /\ loop' = [loop EXCEPT !.at = "finance"]
            /\ asks' = [asks EXCEPT !["loop"] = [NoAsk EXCEPT !.at = "raw", !.day = loop.day]]
            /\ UNCHANGED <<wake, clean>>
       ELSE NextDay(clean) /\ UNCHANGED asks
    /\ UNCHANGED <<clock, held, raw, books, version, troubles, boots, views, due>>

materialize_observations ==
    /\ loop.at \in {"obs", "obs_only"}
    /\ obs' = obs \union Of(raw, loop.day)
    /\ loop' = [loop EXCEPT !.at = IF loop.at = "obs" THEN "energy" ELSE "energy_only"]
    /\ UNCHANGED <<clock, held, raw, energy, finance, version, asks, wake, troubles, boots,
                   views, ghosts>>

\* The loads are those of the slots, the flows those of the samples.
materialize_daily_energy ==
    /\ loop.at \in {"energy", "energy_only"}
    /\ energy' = [energy EXCEPT ![loop.day] =
                    [flows |-> Of(raw, loop.day), loads |-> Of(obs, loop.day)]]
    /\ IF loop.at = "energy"
       THEN /\ loop' = [loop EXCEPT !.at = "finance"]
            /\ asks' = [asks EXCEPT !["loop"] = [NoAsk EXCEPT !.at = "raw", !.day = loop.day]]
            /\ UNCHANGED <<wake, clean>>
       ELSE NextDay(clean) /\ UNCHANGED asks
    /\ UNCHANGED <<clock, held, raw, obs, finance, version, troubles, boots, views, due>>

\* Any read or write of the run may fail; the loop tries again at 00:10.
RunFails ==
    /\ loop.at # "asleep" /\ troubles < MaxTroubles
    /\ troubles' = troubles + 1
    /\ asks' = [asks EXCEPT !["loop"] = NoAsk]
    /\ EndRun(FALSE)
    /\ UNCHANGED <<clock, held, raw, books, version, boots, views, due>>
-----------------------------------------------------------------------------
(* _ensure_day_finance, and each day of _finance_window: the samples are   *)
(* read, then the row, and a row that is missing or of another formula is  *)
(* made from those samples.                                                *)

\* A view, the digest or an export asks for a day that is over; one whose row
\* is of this formula is served as it is.
View(d) ==
    /\ Up /\ asks["view"].at = "idle" /\ d < DateOf(clock)
    /\ finance[d].calc_v # version
    /\ views < MaxViews /\ views' = views + 1
    /\ asks' = [asks EXCEPT !["view"] = [NoAsk EXCEPT !.at = "raw", !.day = d]]
    /\ UNCHANGED <<clock, held, raw, books, version, loop, wake, troubles, boots, ghosts>>

ReadRaw(a) ==
    /\ asks[a].at = "raw"
    /\ asks' = [asks EXCEPT ![a].at = "row", ![a].of = Of(raw, asks[a].day)]
    /\ UNCHANGED <<clock, held, raw, books, version, loop, wake, troubles, boots, views, ghosts>>

\* A request is answered; the loop goes on with its next day.
Answered(a, whole) ==
    /\ asks' = [asks EXCEPT ![a] = NoAsk]
    /\ IF a = "loop" THEN NextDay(clean /\ whole) ELSE UNCHANGED <<loop, wake, clean>>

(* Mutant: a row of another formula is made anew whatever there is left. *)
MutServed(ask) == finance[ask.day].calc_v = version

\* A row of this formula is served, and so is one whose samples are gone.
Served(ask) ==
    \/ finance[ask.day].calc_v = version
    \/ finance[ask.day] # Unpriced /\ ask.of = {}

ReadRow(a) ==
    /\ asks[a].at = "row"
    /\ IF Served(asks[a])
       THEN Answered(a, TRUE)
       ELSE asks' = [asks EXCEPT ![a].at = "persist"] /\ UNCHANGED <<loop, wake, clean>>
    /\ UNCHANGED <<clock, held, raw, books, version, troubles, boots, views, due>>

\* _persist_daily_finance: a store that stays locked is put up with.
Persist(a, ok) ==
    /\ asks[a].at = "persist"
    /\ ~ok => troubles < MaxTroubles
    /\ troubles' = IF ok THEN troubles ELSE troubles + 1
    /\ finance' = IF ~ok THEN finance
                  ELSE [finance EXCEPT ![asks[a].day] = [of |-> asks[a].of, calc_v |-> version]]
    /\ Answered(a, ok)
    /\ UNCHANGED <<clock, held, raw, obs, energy, version, boots, views, due>>
-----------------------------------------------------------------------------
(* Retention, time and restarts.                                           *)

Cutoff == clock - Retention * DayTicks

\* purge_older_than, by the maintenance loop, once a day and at a start.
Purge ==
    /\ Up /\ \E t \in raw : t < Cutoff
    /\ raw' = {t \in raw : t >= Cutoff}
    /\ UNCHANGED <<clock, held, books, version, loop, asks, wake, troubles, boots, views, ghosts>>

\* A tick without a sample of its own is a gap.
Gap == Up /\ clock \notin raw /\ held \in {Blank, clock}

\* A run and a request take minutes, a tick hours.  The recorder may be kept
\* waiting longer, as on a host that slept: it wakes up with a sample of before
\* at the moment the run begins.
TimePasses ==
    /\ clock < LastTick
    /\ loop.at = "asleep" /\ (Up => clock < wake) /\ asks["view"].at = "idle"
    /\ held # Blank => clock - held <= 1
    /\ Gap => troubles < MaxTroubles
    /\ troubles' = IF Gap THEN troubles + 1 ELSE troubles
    /\ clock' = clock + 1
    /\ UNCHANGED <<held, raw, books, version, loop, asks, wake, boots, views, ghosts>>

StopProcess ==
    /\ Up /\ boots < MaxBoots
    /\ wake' = Blank /\ held' = Blank /\ loop' = Asleep /\ asks' = [a \in Askers |-> NoAsk]
    /\ clean' = FALSE
    /\ UNCHANGED <<clock, raw, books, version, troubles, boots, views, due>>

\* The loop runs once at a start.
StartProcess(upgrade) ==
    /\ ~Up /\ boots' = boots + 1 /\ wake' = clock
    /\ version' = IF upgrade THEN version + 1 ELSE version
    /\ UNCHANGED <<clock, held, raw, books, loop, asks, troubles, views, ghosts>>

BooksNext ==
    \/ Sample \/ Record
    \/ BeginRun \/ Look \/ materialize_observations \/ materialize_daily_energy \/ RunFails
    \/ \E d \in Dates : View(d)
    \/ \E a \in Askers : ReadRaw(a) \/ ReadRow(a) \/ Persist(a, TRUE) \/ Persist(a, FALSE)
    \/ Purge \/ TimePasses \/ StopProcess
    \/ \E upgrade \in BOOLEAN : StartProcess(upgrade)

BooksSpec == BooksInit /\ [][BooksNext]_booksVars
-----------------------------------------------------------------------------
\* After a run that met no trouble, every day it looks back on that has
\* samples has both its rows, and yesterday's energy is made from all the
\* samples there were when the run began, those written after midnight
\* included: whatever a crash, a failed run or a view left behind.
BooksComplete ==
    (clean /\ loop.at = "asleep" /\ due # {}) =>
        /\ \A d \in completed_lookback_days(loop.today) :
              Of(due, d) # {} => d \in Booked /\ d \in Priced
        /\ LET yesterday == loop.today - 1
               last == Of(due, yesterday)
           IN  last # {} => /\ last \subseteq energy[yesterday].flows
                            /\ last \subseteq energy[yesterday].loads

\* A day that is booked is only ever booked again from at least the same
\* samples: no refresh meets a day that the retention has begun to delete.  And
\* the finance of a day gone by is never replaced by that of a day without
\* samples, also when the formula changes after its samples were deleted
\* (#131 in _ensure_day_finance).
BooksKept ==
    /\ \A d \in Booked : /\ energy[d].flows \subseteq energy'[d].flows
                         /\ energy[d].loads \subseteq energy'[d].loads
    /\ \A d \in Priced : d < DateOf(clock) - 1 /\ finance[d].of # {} => finance'[d].of # {}
DaysKept == [][BooksKept]_<<energy, finance>>

\* The comment in catch_up_rollups: "Finance: fill gaps and refresh yesterday".
YesterdayRefreshed ==
    (clean /\ loop.at = "asleep" /\ due # {}) =>
        LET yesterday == loop.today - 1
        IN  (yesterday \in Dates /\ Of(due, yesterday) # {}) =>
                Of(due, yesterday) \subseteq finance[yesterday].of
-----------------------------------------------------------------------------
(* The inductive invariant behind the two (proved in Daily_proofs).        *)

Stages == {"asleep", "look", "obs", "obs_only", "energy", "energy_only", "finance"}
Samples == SUBSET (Ticks \union {Blank})

BooksTypeOK ==
    /\ clock \in Ticks /\ held \in Ticks \union {Blank}
    /\ raw \subseteq Ticks /\ obs \subseteq Ticks /\ due \subseteq Ticks
    /\ energy \in [Dates -> [flows : Samples, loads : Samples]]
    /\ finance \in [Dates -> [of : Samples, calc_v : Int]]
    /\ version \in Nat \ {0} /\ wake \in Nat \union {Blank} /\ clean \in BOOLEAN
    /\ loop \in [at : Stages, today : Int, day : Int, had : SUBSET Dates, priced : SUBSET Dates]
    /\ asks \in [Askers -> [at : {"idle", "raw", "row", "persist"}, day : Int, of : SUBSET Ticks]]

\* A run is about the day on which it began, what it looked at when it began
\* is still there, and the loop's own request is the one it waits for.
RunsTogether ==
    /\ loop.at # "asleep" =>
          /\ loop.today = DateOf(clock)
          /\ loop.day \in completed_lookback_days(loop.today)
          /\ loop.had \subseteq Booked /\ loop.priced \subseteq Priced
          /\ due \subseteq raw /\ \A t \in due : DateOf(t) >= loop.today - Lookback
    /\ loop.at \in {"obs", "obs_only", "energy", "energy_only"} => loop.day \in Dates
    /\ loop.at = "finance" <=> asks["loop"].at # "idle"
    /\ loop.at = "finance" => asks["loop"].day = loop.day
    /\ \A a \in Askers : asks[a].at # "idle" => asks[a].day \in Dates
    /\ held # Blank => clock - held <= 2

\* Both rows of a day are there, yesterday's energy of all there was.
Refreshed(d) ==
    d = loop.today - 1 => Of(due, d) \subseteq energy[d].flows /\ Of(due, d) \subseteq energy[d].loads
Settled(d) == Of(due, d) # {} => d \in Booked /\ d \in Priced /\ Refreshed(d)

\* How far the run has come: the days behind it, and the day in hand.
RunAdvances ==
    /\ clean => \A d \in completed_lookback_days(loop.today) :
                   loop.at = "asleep" \/ d < loop.day => Settled(d)
    /\ loop.at \in {"obs_only", "energy_only"} /\ Of(due, loop.day) # {} => loop.day \in Priced
    /\ loop.at \in {"energy", "energy_only"} => Of(due, loop.day) \subseteq obs
    /\ loop.at = "finance" /\ Of(due, loop.day) # {} => loop.day \in Booked /\ Refreshed(loop.day)

\* What a row of energy is made from is still there as long as a run may meet
\* the day again.
EnergyIsBacked ==
    \A d \in Booked :
        /\ energy[d].loads \subseteq Of(obs, d)
        /\ d >= DateOf(clock) - Lookback => energy[d].flows \subseteq Of(raw, d)

\* Two requests for a day gone by have the same samples in hand, and one that
\* has none found no row.
AsksAgree ==
    \A a \in Askers : asks[a].day < DateOf(clock) - 1 =>
        /\ asks[a].at \in {"row", "persist"} /\ asks[a].day >= DateOf(clock) - Lookback =>
              asks[a].of = Of(raw, asks[a].day)
        /\ asks[a].at = "persist" /\ asks[a].of = {} =>
              finance[asks[a].day] = Unpriced \/ finance[asks[a].day].of = {}

BooksInv == BooksTypeOK /\ RunsTogether /\ RunAdvances /\ EnergyIsBacked /\ AsksAgree
=============================================================================
