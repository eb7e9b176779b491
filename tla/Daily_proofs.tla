------------------------------ MODULE Daily_proofs ------------------------------
(***************************************************************************)
(* Proofs about Notices and Books, for days of any length, any limits and  *)
(* any number of faults, crashes, views and restarts.                      *)
(***************************************************************************)
EXTENDS Notices, Books, SequenceTheorems, WellFoundedInduction, TLAPS

(* Days and hours.                                                         *)
LEMMA Calendar ==
    ASSUME NEW t \in Int, NEW p \in Nat \ {0}
    PROVE  /\ t \div p \in Int /\ t % p \in 0 .. p - 1
           /\ t = p * (t \div p) + (t % p)
  OBVIOUS

LEMMA CalendarOf ==
    ASSUME NEW p \in Nat \ {0}, NEW d \in Int, NEW h \in 0 .. p - 1, NEW t \in Int, t = p * d + h
    PROVE  t \div p = d /\ t % p = h
  OBVIOUS

(* One tick later it is the next hour, or the next day's first.            *)
LEMMA NextTick ==
    ASSUME NEW t \in Int, NEW p \in Nat \ {0}
    PROVE  \/ (t + 1) \div p = t \div p /\ (t + 1) % p = (t % p) + 1
           \/ (t + 1) \div p = t \div p + 1 /\ (t + 1) % p = 0
<1> DEFINE d == t \div p
           h == t % p
<1>1. d \in Int /\ h \in 0 .. p - 1 /\ t = p * d + h
  BY Calendar
<1> HIDE DEF d, h
<1>2. CASE h + 1 < p
  <2>1. t + 1 = p * d + (h + 1) /\ h + 1 \in 0 .. p - 1
    BY <1>1, <1>2
  <2>2. (t + 1) \div p = d /\ (t + 1) % p = h + 1
    BY <1>1, <2>1, CalendarOf
  <2> QED
    BY <2>2 DEF d, h
<1>3. CASE ~(h + 1 < p)
  <2>1. h + 1 = p
    BY <1>1, <1>3
  <2>2. t + 1 = p * (d + 1) + 0 /\ 0 \in 0 .. p - 1
    BY <1>1, <2>1
  <2>3. (t + 1) \div p = d + 1 /\ (t + 1) % p = 0
    BY <1>1, <2>2, CalendarOf
  <2> QED
    BY <2>3 DEF d, h
<1> QED
  BY <1>2, <1>3

(* A set of days between two bounds has a last one.                        *)
LEMMA Smallest ==
    ASSUME NEW S, S \subseteq Nat, S # {}
    PROVE  \E m \in S : \A s \in S : m <= s
<1> DEFINE R == OpToRel(<, Nat)
<1>1. IsWellFoundedOn(R, Nat)
  BY NatLessThanWellFounded
<1>2. R = {ss \in Nat \X Nat : ss[1] < ss[2]}
  BY DEF OpToRel
<1> HIDE DEF R
<1>3. PICK m \in S : \A s \in S : ~(<<s, m>> \in R)
  BY <1>1, WFMin
<1>4. \A s \in S : ~(s < m)
  BY <1>2, <1>3
<1> QED
  BY <1>4

LEMMA Largest ==
    ASSUME NEW S, NEW b \in Nat, S \subseteq 0 .. b, S # {}
    PROVE  \E m \in S : \A s \in S : s <= m
<1> DEFINE D == {b - s : s \in S}
<1>1. D \subseteq Nat
  <2>1. ASSUME NEW s \in S PROVE b - s \in Nat
    BY s \in 0 .. b
  <2> QED
    BY <2>1
<1>2. D # {}
  OBVIOUS
<1> HIDE DEF D
<1>3. PICK d \in D : \A e \in D : d <= e
  BY <1>1, <1>2, Smallest
<1>4. PICK m \in S : d = b - m
  BY DEF D
<1>5. \A s \in S : b - s \in D
  BY DEF D
<1>6. ASSUME NEW s \in S PROVE s <= m
  <2>1. d <= b - s
    BY <1>3, <1>5
  <2>2. s \in Int /\ m \in Int
    OBVIOUS
  <2> QED
    BY <1>4, <2>1, <2>2
<1> QED
  BY <1>6
-----------------------------------------------------------------------------
(* The notification loop.                                                  *)

LEMMA LocalDays ==
    /\ \A t \in Nat : /\ Day(t) \in Nat /\ Tomorrow(t) = Day(t) + 1 /\ Hour(t) \in 0 .. PerDay - 1
                      /\ \/ Day(t + 1) = Day(t) /\ Hour(t + 1) = Hour(t) + 1
                         \/ Day(t + 1) = Day(t) + 1 /\ Hour(t + 1) = 0
    /\ Days \subseteq Nat
    /\ \A t \in 0 .. MaxTick : Tomorrow(t) \in Days /\ Day(t) + 1 \in Days
<1>1. ASSUME NEW t \in Nat PROVE Day(t) \in Nat
  BY NoticesAssumption DEF Day
<1>2. ASSUME NEW t \in Nat
      PROVE  /\ Tomorrow(t) = Day(t) + 1 /\ Hour(t) \in 0 .. PerDay - 1
             /\ \/ Day(t + 1) = Day(t) /\ Hour(t + 1) = Hour(t) + 1
                \/ Day(t + 1) = Day(t) + 1 /\ Hour(t + 1) = 0
  <2>1. t \in Int /\ PerDay \in Nat \ {0}
    BY NoticesAssumption
  <2>2. t % PerDay \in 0 .. PerDay - 1
    BY <2>1, Calendar
  <2>3. \/ (t + 1) \div PerDay = t \div PerDay /\ (t + 1) % PerDay = (t % PerDay) + 1
        \/ (t + 1) \div PerDay = t \div PerDay + 1 /\ (t + 1) % PerDay = 0
    BY <2>1, NextTick
  <2> QED
    BY <2>2, <2>3 DEF Day, Hour, Tomorrow
<1>3. \A t \in 0 .. MaxTick : Tomorrow(t) \in Days /\ Day(t) + 1 \in Days
  BY DEF Days, Tomorrow
<1>4. Days \subseteq Nat
  BY <1>1, NoticesAssumption DEF Days
<1> QED
  BY <1>1, <1>2, <1>3, <1>4

Distinct == \A i, j \in DOMAIN rows : rows[i] = rows[j] => i = j

LEMMA RowsStay ==
    ASSUME rows' = rows
    PROVE  /\ Said' = Said /\ On("up")' = On("up") /\ On("down")' = On("down") /\ OpenNow' = OpenNow
           /\ ToldInTurns' = ToldInTurns /\ OpenIsLast' = OpenIsLast /\ Distinct' = Distinct
  BY DEF Said, On, OpenNow, ToldInTurns, OpenIsLast, OfDevice, Distinct

LEMMA RowIsAdded ==
    ASSUME NTypeOK, NEW notice \in Notes, rows' = Append(rows, notice)
    PROVE  /\ Len(rows') = Len(rows) + 1 /\ DOMAIN rows' = 1 .. Len(rows) + 1
           /\ Len(rows) \in Nat /\ DOMAIN rows = 1 .. Len(rows)
           /\ \A i \in 1 .. Len(rows) : rows'[i] = rows[i]
           /\ rows'[Len(rows) + 1] = notice /\ rows' \in Seq(Notes)
           /\ Said' = Said \union {notice}
<1>1. rows \in Seq(Notes)
  BY DEF NTypeOK
<1>2. /\ Len(rows') = Len(rows) + 1 /\ DOMAIN rows' = 1 .. Len(rows) + 1
      /\ Len(rows) \in Nat /\ DOMAIN rows = 1 .. Len(rows)
      /\ \A i \in 1 .. Len(rows) : rows'[i] = rows[i]
      /\ rows'[Len(rows) + 1] = notice /\ rows' \in Seq(Notes)
  BY <1>1
<1> QED
  BY <1>2 DEF Said

(* Places where nothing is in hand and no mark is about to be set.         *)
Plain == {"off", "idle", "detect", "recover", "canonical", "digest", "health"}

LEMMA PlainStep ==
    ASSUME NInv, UNCHANGED <<device, success, alerted, stored, crashes, truth, tick>>,
           pc \notin {"canonical_mark", "insert", "push"}, pc' \in Plain,
           device.restored \/ pc' \in {"idle", "detect"} \/ pc' = pc,
           pc' = "off" => pc = "off",
           sending' \in [kind : Kinds \union {"none"}, on : Int, then : Places],
           lastFresh' \in Moments, storeDown' \in BOOLEAN
    PROVE  NInv'
<1> USE DEF stored, truth, Plain
<1>1. NTypeOK'
  BY DEF NInv, NTypeOK, Places
<1>2. InHand' /\ OneCanonicalForecast' /\ ForecastStages'
  BY DEF NInv, InHand, ForecastStages, OneCanonicalForecast
<1>3. MarksAreTrue' /\ StagesAreTrue' /\ GapsAreTold'
  BY RowsStay DEF NInv, MarksAreTrue, StagesAreTrue, GapsAreTold
<1>4. DeviceTimes'
  BY RowsStay DEF NInv, DeviceTimes, Tells
<1>5. DeviceStory'
  BY RowsStay DEF NInv, DeviceStory, Distinct, BoxIsRight, Tells, DeviceNoticesKept
<1>6. PushesOnce'
  BY RowsStay DEF NInv, PushesOnce
<1> QED
  BY <1>1, <1>2, <1>3, <1>4, <1>5, <1>6 DEF NInv

LEMMA OnGrows ==
    ASSUME NTypeOK, NEW notice \in Notes, rows' = Append(rows, notice), NEW kind
    PROVE  On(kind)' = On(kind) \union (IF notice.kind = kind THEN {notice.on} ELSE {})
  BY RowIsAdded DEF On

(* Where a row of the device stands among the others.                      *)
LEMMA RowsOn ==
    ASSUME NTypeOK
    PROVE  /\ \A i \in DOMAIN rows : rows[i] = Notice(rows[i].kind, rows[i].on)
           /\ \A kind : \A on \in On(kind) :
                 \E i \in DOMAIN rows : rows[i] = Notice(kind, on)
           /\ \A kind : \A i \in DOMAIN rows : rows[i].kind = kind => rows[i].on \in On(kind)
           /\ \A kind, on : on \in On(kind) <=> Notice(kind, on) \in Said
<1>1. ASSUME NEW i \in DOMAIN rows PROVE rows[i] = Notice(rows[i].kind, rows[i].on)
  <2>1. rows[i] \in Notes
    BY DEF NTypeOK
  <2> QED
    BY <2>1 DEF Notes, Notice
<1> QED
  BY <1>1 DEF On, Said, Notice

(* A row that was there before tells what it told.                         *)
LEMMA TurnsBefore ==
    ASSUME NEW n \in Nat, DOMAIN rows = 1 .. n, \A i \in 1 .. n : rows'[i] = rows[i],
           ToldInTurns, NEW i \in 1 .. n
    PROVE  /\ rows'[i].kind = "up" =>
                 \E j \in 1 .. i - 1 : /\ rows'[j] = Notice("down", rows'[i].on)
                                       /\ \A k \in j + 1 .. i - 1 : ~OfDevice(k)'
           /\ rows'[i].kind = "down" =>
                 \A j \in 1 .. i - 1 :
                     rows'[j].kind = "down" => \E k \in j + 1 .. i - 1 : rows'[k].kind = "up"
<1>1. rows'[i] = rows[i] /\ i \in DOMAIN rows
  OBVIOUS
<1>2. \A k \in 1 .. i - 1 : rows'[k] = rows[k] /\ OfDevice(k)' = OfDevice(k)
  BY DEF OfDevice
<1>3. ASSUME rows[i].kind = "up"
      PROVE  \E j \in 1 .. i - 1 : /\ rows'[j] = Notice("down", rows[i].on)
                                   /\ \A k \in j + 1 .. i - 1 : ~OfDevice(k)'
  <2>1. PICK j \in 1 .. i - 1 : /\ rows[j] = Notice("down", rows[i].on)
                               /\ \A k \in j + 1 .. i - 1 : ~OfDevice(k)
    BY <1>1, <1>3 DEF ToldInTurns
  <2>2. \A k \in j + 1 .. i - 1 : k \in 1 .. i - 1
    OBVIOUS
  <2> QED
    BY <1>2, <2>1, <2>2
<1>4. ASSUME rows[i].kind = "down", NEW j \in 1 .. i - 1, rows[j].kind = "down"
      PROVE  \E k \in j + 1 .. i - 1 : rows'[k].kind = "up"
  <2>1. PICK k \in j + 1 .. i - 1 : rows[k].kind = "up"
    BY <1>1, <1>4 DEF ToldInTurns
  <2>2. k \in 1 .. i - 1
    OBVIOUS
  <2> QED
    BY <1>2, <2>1, <2>2
<1> QED
  BY <1>1, <1>2, <1>3, <1>4

(* A beginning that is told when no incident is open.                      *)
LEMMA BeginningTold ==
    ASSUME NTypeOK, Distinct, ToldInTurns, OpenIsLast, NEW on \in Int,
           rows' = Append(rows, Notice("down", on)), OpenNow = {}, on \notin On("up")
    PROVE  ToldInTurns' /\ OpenIsLast' /\ OpenNow' = {on}
<1> DEFINE notice == Notice("down", on)
<1>1. notice \in Notes /\ notice.kind = "down" /\ notice.on = on
  BY DEF Notice, Notes, Kinds
<1>2. /\ DOMAIN rows' = 1 .. Len(rows) + 1 /\ Len(rows) \in Nat /\ DOMAIN rows = 1 .. Len(rows)
      /\ \A i \in 1 .. Len(rows) : rows'[i] = rows[i]
      /\ rows'[Len(rows) + 1] = notice /\ Len(rows') = Len(rows) + 1
  BY <1>1, RowIsAdded
<1>r. rows' = Append(rows, notice)
  OBVIOUS
<1> HIDE DEF notice
<1>3. On("up")' = On("up") /\ On("down")' = On("down") \union {on}
  <2>1. \A kind : On(kind)' = On(kind) \union (IF notice.kind = kind THEN {notice.on} ELSE {})
    BY <1>1, <1>r, OnGrows, Zenon
  <2> QED
    BY <1>1, <2>1
<1>4. ASSUME NEW j \in 1 .. Len(rows), rows[j].kind = "down"
      PROVE  \E k \in j + 1 .. Len(rows) : rows[k].kind = "up"
  <2>1. rows[j].on \in On("up")
    BY <1>2, <1>4, RowsOn DEF OpenNow
  <2>2. PICK k \in 1 .. Len(rows) : rows[k] = Notice("up", rows[j].on)
    BY <1>2, <2>1, RowsOn
  <2>3. PICK i \in 1 .. k - 1 : rows[i] = Notice("down", rows[j].on)
    BY <1>2, <2>2 DEF ToldInTurns, Notice
  <2>4. i = j
    BY <1>2, <1>4, <2>3, RowsOn DEF Distinct
  <2> QED
    BY <1>2, <2>2, <2>3, <2>4 DEF Notice
<1>5. ToldInTurns'
  <2> SUFFICES ASSUME NEW i \in 1 .. Len(rows) + 1
               PROVE  /\ rows'[i].kind = "up" =>
                            \E j \in 1 .. i - 1 : /\ rows'[j] = Notice("down", rows'[i].on)
                                                  /\ \A k \in j + 1 .. i - 1 : ~OfDevice(k)'
                      /\ rows'[i].kind = "down" =>
                            \A j \in 1 .. i - 1 :
                                rows'[j].kind = "down" => \E k \in j + 1 .. i - 1 : rows'[k].kind = "up"
    BY <1>2 DEF ToldInTurns
  <2>1. CASE i \in 1 .. Len(rows)
    BY <1>2, <2>1, TurnsBefore
  <2>2. CASE i = Len(rows) + 1
    BY <1>1, <1>2, <1>4, <2>2
  <2> QED
    BY <1>2, <2>1, <2>2
<1>6. OpenIsLast'
  <2> SUFFICES ASSUME NEW i \in 1 .. Len(rows) + 1, rows'[i].kind = "down", rows'[i].on \notin On("up"),
                      NEW k \in i + 1 .. Len(rows) + 1
               PROVE  FALSE
    BY <1>2, <1>3 DEF OpenIsLast
  <2>1. i \in 1 .. Len(rows)
    BY <1>2
  <2> QED
    BY <1>2, <2>1, RowsOn DEF OpenNow
<1> QED
  BY <1>3, <1>5, <1>6 DEF OpenNow

(* An end that is told of the incident that is open.                       *)
LEMMA EndTold ==
    ASSUME NTypeOK, Distinct, ToldInTurns, OpenIsLast, NEW on \in Int,
           rows' = Append(rows, Notice("up", on)), OpenNow = {on}
    PROVE  ToldInTurns' /\ OpenIsLast' /\ OpenNow' = {}
<1> DEFINE notice == Notice("up", on)
<1>1. notice \in Notes /\ notice.kind = "up" /\ notice.on = on
  BY DEF Notice, Notes, Kinds
<1>2. /\ DOMAIN rows' = 1 .. Len(rows) + 1 /\ Len(rows) \in Nat /\ DOMAIN rows = 1 .. Len(rows)
      /\ \A i \in 1 .. Len(rows) : rows'[i] = rows[i]
      /\ rows'[Len(rows) + 1] = notice /\ Len(rows') = Len(rows) + 1
  BY <1>1, RowIsAdded
<1>r. rows' = Append(rows, notice)
  OBVIOUS
<1> HIDE DEF notice
<1>3. On("up")' = On("up") \union {on} /\ On("down")' = On("down")
  <2>1. \A kind : On(kind)' = On(kind) \union (IF notice.kind = kind THEN {notice.on} ELSE {})
    BY <1>1, <1>r, OnGrows, Zenon
  <2> QED
    BY <1>1, <2>1
<1>4. PICK j \in 1 .. Len(rows) : /\ rows[j] = Notice("down", on)
                                  /\ \A k \in j + 1 .. Len(rows) : ~OfDevice(k)
  <2>1. on \in On("down") /\ on \notin On("up")
    BY DEF OpenNow
  <2>2. PICK j \in 1 .. Len(rows) : rows[j] = Notice("down", on)
    BY <1>2, <2>1, RowsOn
  <2>3. rows[j].kind = "down" /\ rows[j].on = on
    BY <2>2 DEF Notice
  <2> QED
    BY <1>2, <2>1, <2>2, <2>3 DEF OpenIsLast
<1>5. ToldInTurns'
  <2> SUFFICES ASSUME NEW i \in 1 .. Len(rows) + 1
               PROVE  /\ rows'[i].kind = "up" =>
                            \E l \in 1 .. i - 1 : /\ rows'[l] = Notice("down", rows'[i].on)
                                                  /\ \A k \in l + 1 .. i - 1 : ~OfDevice(k)'
                      /\ rows'[i].kind = "down" =>
                            \A l \in 1 .. i - 1 :
                                rows'[l].kind = "down" => \E k \in l + 1 .. i - 1 : rows'[k].kind = "up"
    BY <1>2 DEF ToldInTurns
  <2>1. CASE i \in 1 .. Len(rows)
    BY <1>2, <2>1, TurnsBefore
  <2>2. CASE i = Len(rows) + 1
    BY <1>1, <1>2, <1>4, <2>2 DEF OfDevice
  <2> QED
    BY <1>2, <2>1, <2>2
<1>6. OpenIsLast'
  <2> SUFFICES ASSUME NEW i \in 1 .. Len(rows) + 1, rows'[i].kind = "down",
                      rows'[i].on \notin On("up") \union {on}
               PROVE  FALSE
    BY <1>2, <1>3 DEF OpenIsLast
  <2>1. i \in 1 .. Len(rows) /\ rows[i].kind = "down" /\ rows[i].on \notin On("up") \union {on}
    BY <1>1, <1>2
  <2>2. rows[i].on \in On("down")
    BY <1>2, <2>1, RowsOn
  <2> QED
    BY <2>1, <2>2 DEF OpenNow
<1> QED
  BY <1>3, <1>5, <1>6 DEF OpenNow

(* Other rows come in between.                                             *)
LEMMA OtherTold ==
    ASSUME NTypeOK, ToldInTurns, OpenIsLast, NEW notice \in Notes, notice.kind \notin {"down", "up"},
           rows' = Append(rows, notice)
    PROVE  ToldInTurns' /\ OpenIsLast' /\ OpenNow' = OpenNow
<1>2. /\ DOMAIN rows' = 1 .. Len(rows) + 1 /\ Len(rows) \in Nat /\ DOMAIN rows = 1 .. Len(rows)
      /\ \A i \in 1 .. Len(rows) : rows'[i] = rows[i]
      /\ rows'[Len(rows) + 1] = notice /\ Len(rows') = Len(rows) + 1
  BY RowIsAdded
<1>3. On("up")' = On("up") /\ On("down")' = On("down")
  BY OnGrows
<1>5. ToldInTurns'
  <2> SUFFICES ASSUME NEW i \in 1 .. Len(rows)
               PROVE  /\ rows'[i].kind = "up" =>
                            \E j \in 1 .. i - 1 : /\ rows'[j] = Notice("down", rows'[i].on)
                                                  /\ \A k \in j + 1 .. i - 1 : ~OfDevice(k)'
                      /\ rows'[i].kind = "down" =>
                            \A j \in 1 .. i - 1 :
                                rows'[j].kind = "down" => \E k \in j + 1 .. i - 1 : rows'[k].kind = "up"
    BY <1>2 DEF ToldInTurns
  <2> QED
    BY <1>2, TurnsBefore
<1>6. OpenIsLast'
  <2> SUFFICES ASSUME NEW i \in 1 .. Len(rows), rows[i].kind = "down", rows[i].on \notin On("up"),
                      NEW k \in i + 1 .. Len(rows) + 1
               PROVE  ~OfDevice(k)'
    BY <1>2, <1>3 DEF OpenIsLast
  <2> QED
    BY <1>2 DEF OpenIsLast, OfDevice
<1> QED
  BY <1>3, <1>5, <1>6 DEF OpenNow

(* Notifier.send puts the row of the notice in hand into the store, finds  *)
(* it there, or fails to.                                                  *)
LEMMA InsertOutcome ==
    ASSUME NInv, NEW ok \in BOOLEAN, InsertRow(ok)
    PROVE  LET notice == Notice(sending.kind, sending.on)
           IN  /\ notice \in Notes /\ notice.kind = sending.kind /\ notice.on = sending.on
               /\ \/ /\ notice \notin Said /\ rows' = Append(rows, notice)
                     /\ Said' = Said \union {notice} /\ unsaid' = unsaid
                     /\ pc' = "push" /\ sending' = sending
                  \/ /\ notice \in Said /\ rows' = rows /\ unsaid' = unsaid
                     /\ pc' = sending.then /\ sending' = Nothing
                  \/ /\ rows' = rows /\ unsaid' = unsaid \union {notice}
                     /\ IF notice.kind = "store_unhealthy" THEN pc' = "push" /\ sending' = sending
                        ELSE pc' = sending.then /\ sending' = Nothing
<1> DEFINE notice == Notice(sending.kind, sending.on)
<1>1. sending.kind \in Kinds /\ sending.on \in Int
  BY DEF InsertRow, At, NInv, NTypeOK, InHand, Kinds
<1>2. notice \in Notes /\ notice.kind = sending.kind /\ notice.on = sending.on
  BY <1>1 DEF Notice, Notes
<1>3. CASE ok /\ IsNew(notice)
  <2>1. rows' = Append(rows, notice) /\ unsaid' = unsaid /\ pc' = "push" /\ sending' = sending
    BY <1>3 DEF InsertRow, Goto
  <2>2. Said' = Said \union {notice}
    BY <1>2, <2>1, RowIsAdded DEF NInv
  <2> QED
    BY <1>2, <1>3, <2>1, <2>2 DEF IsNew
<1>4. CASE ok /\ ~IsNew(notice)
  BY <1>2, <1>4 DEF InsertRow, Goto, IsNew
<1>5. CASE ~ok
  BY <1>2, <1>5 DEF InsertRow, Goto
<1> QED
  BY <1>3, <1>4, <1>5

LEMMA InsertKeeps ==
    ASSUME NInv, NEW ok \in BOOLEAN, InsertRow(ok)
    PROVE  NInv'
<1> DEFINE notice == Notice(sending.kind, sending.on)
           Added == /\ notice \notin Said /\ rows' = Append(rows, notice)
                    /\ Said' = Said \union {notice} /\ unsaid' = unsaid
                    /\ pc' = "push" /\ sending' = sending
           Known == /\ notice \in Said /\ rows' = rows /\ unsaid' = unsaid
                    /\ pc' = sending.then /\ sending' = Nothing
           Refused == /\ rows' = rows /\ unsaid' = unsaid \union {notice}
                      /\ IF notice.kind = "store_unhealthy" THEN pc' = "push" /\ sending' = sending
                         ELSE pc' = sending.then /\ sending' = Nothing
<1>1. /\ notice \in Notes /\ notice.kind = sending.kind /\ notice.on = sending.on
      /\ Added \/ Known \/ Refused
  BY InsertOutcome
<1>2. /\ pc = "insert" /\ sending \in [kind : Kinds \union {"none"}, on : Int, then : Places]
      /\ UNCHANGED <<tick, lastFresh, device, success, alerted, marks, ledger, storeDown, crashes,
                     pushed, repeated, blind, misread, lateDone, crashedOn>>
  BY DEF InsertRow, At, memory, NInv, NTypeOK
<1>3. /\ Nothing \in [kind : Kinds \union {"none"}, on : Int, then : Places]
      /\ Nothing.kind = "none"
  BY DEF Nothing, None, Places
<1>4. InHand
  BY DEF NInv
<1>5. sending.then \in {"recover", "mark_recovered", "digest", "digest_mark", "idle"}
  BY <1>2, <1>4 DEF InHand
<1>n. sending.kind # "none" /\ sending.kind \in Kinds
  BY <1>2, <1>4 DEF InHand, Kinds
<1>6. Said \subseteq Said' /\ unsaid \subseteq unsaid' /\ (Known \/ Refused => Said' = Said)
  BY <1>1, RowsStay
<1>7. Added \/ Known => Notice(sending.kind, sending.on) \in Said'
  BY <1>6
<1>8. Known \/ Refused => /\ On("up")' = On("up") /\ On("down")' = On("down") /\ OpenNow' = OpenNow
                          /\ ToldInTurns' = ToldInTurns /\ OpenIsLast' = OpenIsLast
                          /\ Distinct' = Distinct
  BY RowsStay
<1>9. pc' \in {"push", "recover", "mark_recovered", "digest", "digest_mark", "idle"}
  BY <1>1, <1>5
<1>10. pc' = "push" => sending' = sending /\ (Added \/ sending.kind = "store_unhealthy")
  BY <1>1, <1>5
<1>11. NTypeOK'
  <2>1. rows' \in Seq(Notes)
    BY <1>1, RowIsAdded DEF NInv, NTypeOK
  <2> QED
    BY <1>1, <1>2, <1>3, <1>9, <2>1 DEF NInv, NTypeOK, Places
<1>a. notice \in Said' \union unsaid'
  BY <1>1, <1>6
<1> HIDE DEF notice
<1>12. InHand'
  BY <1>2, <1>4, <1>6, <1>9, <1>10, <1>1 DEF InHand, notice
<1>13. ForecastStages' /\ OneCanonicalForecast' /\ MarksAreTrue'
  BY <1>2, <1>6, <1>9 DEF NInv, ForecastStages, OneCanonicalForecast, MarksAreTrue
<1>14. StagesAreTrue'
  <2>1. pc' = "mark_recovered" => notice = Notice("recovered", Day(tick))
    BY <1>1, <1>2, <1>4, <1>9 DEF InHand, notice
  <2>2. pc' = "digest_mark" => notice = Notice("digest", Day(tick))
    BY <1>1, <1>2, <1>4, <1>9 DEF InHand, notice
  <2>3. ASSUME NEW said \in Said', said.kind = "missed" PROVE said.on - 1 \in lateDone
    <3>1. CASE said \in Said
      BY <2>3, <3>1 DEF NInv, StagesAreTrue
    <3>2. CASE said = notice
      <4>1. sending.kind = "missed" /\ said.on = Tomorrow(tick) /\ Day(tick) \in lateDone
        BY <1>1, <1>2, <1>4, <2>3, <3>2 DEF InHand
      <4> QED
        BY <4>1, LocalDays DEF NInv, NTypeOK
    <3> QED
      BY <1>1, <1>6, <3>1, <3>2
  <2> QED
    BY <1>2, <1>a, <2>1, <2>2, <2>3 DEF NInv, StagesAreTrue
<1>15. GapsAreTold'
  <2> SUFFICES ASSUME NEW d \in lateDone \ crashedOn
               PROVE  /\ Notice("missed", d + 1) \in Said' => ledger[d + 1].load = 0
                      /\ ledger[d + 1].load = 0 =>
                            \/ Notice("missed", d + 1) \in Said' \union unsaid'
                            \/ pc' = "insert" /\ sending'.kind = "missed" /\ sending'.on = d + 1
    BY <1>2 DEF GapsAreTold
  <2>1. ASSUME notice = Notice("missed", d + 1) PROVE ledger[d + 1].load = 0
    <3>1. sending.kind = "missed" /\ sending.on = d + 1
      BY <1>1, <2>1 DEF Notice
    <3>2. d + 1 = Tomorrow(tick) /\ (Day(tick) \notin crashedOn => ledger[Tomorrow(tick)].load = 0)
      BY <1>2, <1>4, <3>1 DEF InHand
    <3>3. d \in Int /\ tick \in Nat
      BY DEF NInv, NTypeOK
    <3>4. Day(tick) \in Nat /\ Tomorrow(tick) = Day(tick) + 1
      BY <3>3, LocalDays
    <3>5. d = Day(tick)
      BY <3>2, <3>3, <3>4
    <3> QED
      BY <3>2, <3>5
  <2>2. Notice("missed", d + 1) \in Said' => Notice("missed", d + 1) \in Said \/ notice = Notice("missed", d + 1)
    BY <1>1, <1>6
  <2>3. sending.kind = "missed" /\ sending.on = d + 1 => notice = Notice("missed", d + 1)
    BY DEF notice
  <2> QED
    BY <1>6, <1>a, <2>1, <2>2, <2>3 DEF NInv, GapsAreTold
<1>16. DeviceTimes'
  <2>1. /\ \A on \in On("up")' : on \in On("up") \/ (sending.kind = "up" /\ on = sending.on)
        /\ \A on \in On("down")' : on \in On("down") \/ (sending.kind = "down" /\ on = sending.on)
    BY <1>1, <1>8, OnGrows DEF NInv
  <2>2. ~Tells("down")' /\ ~Tells("up")'
    BY <1>9 DEF Tells
  <2> QED
    BY <1>2, <1>9, <2>1, <2>2 DEF NInv, NTypeOK, DeviceTimes, Tells, Moments, None
<1>17. DeviceStory'
  <2>1. Distinct'
    <3>1. CASE Added
      <4> SUFFICES ASSUME NEW i \in 1 .. Len(rows) + 1, NEW j \in 1 .. Len(rows) + 1, rows'[i] = rows'[j]
                   PROVE  i = j
        BY <1>1, <3>1, RowIsAdded DEF NInv, Distinct
      <4>1. \A k \in 1 .. Len(rows) : rows[k] # notice
        BY <1>1, <3>1, RowIsAdded DEF Said, NInv
      <4> QED
        BY <1>1, <3>1, <4>1, RowIsAdded DEF NInv, DeviceStory, Distinct
    <3> QED
      BY <1>1, <1>8, <3>1 DEF NInv, DeviceStory, Distinct
  <2> SUFFICES ASSUME DeviceNoticesKept' PROVE (ToldInTurns /\ OpenIsLast /\ BoxIsRight)'
    BY <2>1 DEF DeviceStory, Distinct
  <2>2. DeviceNoticesKept /\ (Refused => sending.kind \notin {"down", "up"})
    BY <1>1, <1>2, <1>6 DEF DeviceNoticesKept
  <2>3. ToldInTurns /\ OpenIsLast /\ BoxIsRight /\ DeviceTimes /\ NTypeOK /\ Distinct
    BY <2>2 DEF NInv, DeviceStory, Distinct
  <2>4. device.restored
    BY <1>2, <2>3 DEF DeviceTimes
  <2>5. ~Tells("up")' /\ ~Tells("down")'
    BY <1>9 DEF Tells
  <2>6. CASE sending.kind = "down"
    <3>1. /\ device.since # None /\ sending.on = device.since /\ Tells("down") /\ ~Tells("up")
      BY <1>2, <2>3, <2>6 DEF DeviceTimes, Tells
    <3>2. notice = Notice("down", sending.on) /\ sending.on \in Int
      BY <1>2, <2>6 DEF notice
    <3>3. CASE OpenNow = {} /\ sending.on = tick
      <4>1. tick \notin On("up") /\ tick \in Int
        BY <2>3 DEF DeviceTimes, NTypeOK
      <4>2. tick \notin On("down")
        BY <3>3, <4>1 DEF OpenNow
      <4>3. Added
        BY <1>1, <2>2, <2>6, <3>2, <3>3, <4>2, RowsOn, <2>3
      <4>4. (ToldInTurns /\ OpenIsLast)' /\ OpenNow' = {sending.on}
        BY <2>3, <3>2, <3>3, <4>1, <4>3, BeginningTold
      <4> QED
        BY <1>2, <2>5, <3>1, <4>4 DEF BoxIsRight
    <3>4. CASE OpenNow = {device.since}
      <4>1. notice \in Said
        <5>1. sending.on \in On("down")
          BY <3>1, <3>4 DEF OpenNow
        <5> QED
          BY <5>1, <3>2, <2>3, RowsOn
      <4>2. Known
        BY <1>1, <2>2, <2>6, <4>1
      <4> QED
        BY <1>2, <1>8, <2>3, <2>5, <3>1, <3>4, <4>2 DEF BoxIsRight
    <3> QED
      BY <2>3, <2>4, <3>1, <3>3, <3>4 DEF BoxIsRight
  <2>7. CASE sending.kind = "up"
    <3>1. device.since = None /\ Tells("up")
      BY <1>2, <2>3, <2>7 DEF DeviceTimes, Tells
    <3>2. notice = Notice("up", sending.on) /\ sending.on \in Int
      BY <1>2, <2>7 DEF notice
    <3>3. OpenNow = {sending.on}
      BY <2>3, <2>4, <2>7, <3>1 DEF BoxIsRight, Tells
    <3>4. notice \notin Said
      <4>1. sending.on \notin On("up")
        BY <3>3 DEF OpenNow
      <4> QED
        BY <4>1, <3>2, <2>3, RowsOn
    <3>5. Added
      BY <1>1, <2>2, <2>7, <3>4
    <3>6. (ToldInTurns /\ OpenIsLast)' /\ OpenNow' = {}
      BY <2>3, <3>2, <3>3, <3>5, EndTold
    <3> QED
      BY <1>2, <2>5, <3>1, <3>6 DEF BoxIsRight
  <2>8. CASE sending.kind \notin {"down", "up"}
    <3>1. (ToldInTurns /\ OpenIsLast)' /\ OpenNow' = OpenNow
      BY <1>1, <1>8, <2>3, <2>8, OtherTold
    <3> QED
      BY <1>2, <2>3, <2>4, <2>5, <2>8, <3>1 DEF BoxIsRight, Tells
  <2> QED
    BY <2>6, <2>7, <2>8
<1>18. PushesOnce'
  <2>1. PushesOnce /\ pushed \subseteq [kind : Kinds, on : Int, run : Nat]
    BY DEF NInv, NTypeOK
  <2>2. ASSUME Added, sending.kind # "store_unhealthy" PROVE Told(0) \notin pushed
    <3>1. Notice(sending.kind, sending.on) \notin Said
      BY <2>2 DEF notice
    <3> QED
      BY <2>1, <2>2, <3>1 DEF PushesOnce, Told
  <2>3. \A run : sending' = sending => Told(run)' = Told(run)
    BY DEF Told
  <2>4. \A told \in pushed : told.kind # "store_unhealthy" => Notice(told.kind, told.on) \in Said'
    BY <1>6, <2>1 DEF PushesOnce
  <2>5. pc' = "push" => sending' = sending /\ (sending.kind # "store_unhealthy" => Told(0) \notin pushed)
    BY <1>10, <2>2
  <2>6. pc' # "insert" /\ (sending.kind = "store_unhealthy" => Told(crashes) \notin pushed /\ alerted = Day(tick))
    BY <1>2, <1>9, <2>1 DEF PushesOnce
  <2> HIDE DEF Added, Known, Refused
  <2> QED
    BY <1>2, <2>1, <2>3, <2>4, <2>5, <2>6 DEF PushesOnce
<1> QED
  BY <1>11, <1>12, <1>13, <1>14, <1>15, <1>16, <1>17, <1>18 DEF NInv

LEMMA DeviceStays ==
    ASSUME NInv, UNCHANGED <<rows, device, blind, unsaid, tick>>,
           ~Tells("up"), ~Tells("down"), ~Tells("up")', ~Tells("down")',
           device.restored \/ pc' \in {"off", "idle", "detect"}, pc' = "off" => ~device.restored
    PROVE  DeviceTimes' /\ DeviceStory'
<1>1. DeviceTimes'
  BY RowsStay DEF NInv, DeviceTimes
<1>2. BoxIsRight' = BoxIsRight
  BY RowsStay DEF BoxIsRight
<1> QED
  BY <1>1, <1>2, RowsStay DEF NInv, DeviceStory, Distinct, DeviceNoticesKept

(* A push is handed to ntfy.                                               *)
LEMMA PushKeeps ==
    ASSUME NInv, Push
    PROVE  NInv'
<1>1. /\ pc = "push" /\ pc' = sending.then /\ sending' = Nothing
      /\ UNCHANGED <<tick, memory, stored, storeDown, faults, crashes, unsaid, blind, misread,
                     lateDone, crashedOn>>
  BY DEF Push, At, Goto
<1> DEFINE told == Told(IF sending.kind = "store_unhealthy" THEN crashes ELSE 0)
<1>2. pushed' = pushed \union {told} /\ repeated' = (repeated \/ told \in pushed)
  BY DEF Push, Told
<1>3. /\ sending \in [kind : Kinds \union {"none"}, on : Int, then : Places]
      /\ sending.kind \in Kinds
      /\ sending.then \in {"recover", "mark_recovered", "digest", "digest_mark", "idle"}
  BY <1>1 DEF NInv, NTypeOK, InHand, Kinds
<1>4. /\ Nothing \in [kind : Kinds \union {"none"}, on : Int, then : Places]
      /\ Nothing.kind = "none"
  BY DEF Nothing, None, Places
<1>5. told \in [kind : Kinds, on : Int, run : Nat] /\ told \notin pushed
  BY <1>1, <1>3 DEF Told, NInv, NTypeOK, PushesOnce
<1>6. told.kind = sending.kind /\ told.on = sending.on /\ (told.kind = "store_unhealthy" => told.run = crashes)
  BY DEF Told
<1> HIDE DEF told
<1>7. Said' = Said
  BY <1>1, RowsStay DEF stored
<1>8. NTypeOK'
  BY <1>1, <1>2, <1>3, <1>4, <1>5 DEF stored, memory, NInv, NTypeOK, Places
<1>9. InHand' /\ ForecastStages' /\ OneCanonicalForecast' /\ MarksAreTrue'
  BY <1>1, <1>3, <1>7
  DEF stored, memory, NInv, InHand, ForecastStages, OneCanonicalForecast, MarksAreTrue
<1>10. StagesAreTrue' /\ GapsAreTold'
  BY <1>1, <1>3, <1>7 DEF stored, memory, NInv, StagesAreTrue, GapsAreTold, InHand
<1>11. DeviceTimes' /\ DeviceStory'
  BY <1>1, <1>3, DeviceStays DEF stored, memory, NInv, Tells, DeviceTimes
<1>12. PushesOnce'
  <2>1. ~repeated'
    BY <1>2, <1>5 DEF NInv, PushesOnce
  <2>2. ASSUME NEW new \in pushed'
        PROVE  IF new.kind = "store_unhealthy"
               THEN new.run <= crashes /\ (new.run = crashes => new.on <= alerted)
               ELSE Notice(new.kind, new.on) \in Said
    <3>1. CASE new \in pushed
      BY <3>1 DEF NInv, PushesOnce
    <3>2. CASE new = told
      BY <1>1, <1>3, <1>6, <3>2 DEF NInv, NTypeOK, PushesOnce, InHand
    <3> QED
      BY <1>2, <3>1, <3>2
  <2> QED
    BY <1>1, <1>3, <1>7, <2>1, <2>2 DEF stored, memory, NInv, PushesOnce
<1> QED
  BY <1>8, <1>9, <1>10, <1>11, <1>12 DEF NInv

(* The first cycle of a process finds the open incident in the rows, if it *)
(* could read them all.                                                    *)
LEMMA RebuiltIsOpen ==
    ASSUME NTypeOK, DeviceTimes, NEW n \in Nat, n <= Len(rows), device = Forgotten
    PROVE  LET box == Rebuilt(SubSeq(rows, 1, n))
           IN  /\ \/ box = Forgotten
                  \/ /\ box.since \in On("down") /\ box = [Forgotten EXCEPT !.since = box.since, !.sent = TRUE]
               /\ n = Len(rows) /\ OpenIsLast /\ Distinct =>
                     OpenNow = IF box.since = None THEN {} ELSE {box.since}
<1> DEFINE read == SubSeq(rows, 1, n)
           ReadOn(kind) == {read[i].on : i \in {j \in DOMAIN read : read[j].kind = kind}}
           open == ReadOn("down") \ ReadOn("up")
           last == CHOOSE s \in open : \A o \in open : o <= s
<1>1. /\ rows \in Seq(Notes) /\ Len(rows) \in Nat /\ DOMAIN rows = 1 .. Len(rows)
      /\ DOMAIN read = 1 .. n /\ \A i \in 1 .. n : read[i] = rows[i]
  BY DEF NTypeOK
<1>2. Rebuilt(read) = IF open = {} THEN Forgotten ELSE [Forgotten EXCEPT !.since = last, !.sent = TRUE]
  BY DEF Rebuilt
<1>3. ReadOn("down") \subseteq On("down")
  BY <1>1, RowsOn
<1>4. On("down") \subseteq 0 .. tick /\ tick \in Nat
  BY DEF DeviceTimes, NTypeOK
<1>5. n = Len(rows) => ReadOn("down") = On("down") /\ ReadOn("up") = On("up")
  BY <1>1 DEF On, Said
<1>6. ASSUME open # {} PROVE last \in open
  <2>1. open \subseteq 0 .. tick
    BY <1>3, <1>4
  <2>2. \E s \in open : \A o \in open : o <= s
    BY <1>4, <1>6, <2>1, Largest
  <2> QED
    BY <2>2
<1>7. Forgotten.since = None /\ Forgotten \in [since : {None}, sent : BOOLEAN, contact : {None}, restored : BOOLEAN]
  BY DEF Forgotten
<1> HIDE DEF read, ReadOn, last
<1>8. CASE open = {}
  <2>1. Rebuilt(read) = Forgotten
    BY <1>2, <1>8
  <2>2. n = Len(rows) => OpenNow = {}
    BY <1>5, <1>8 DEF OpenNow
  <2> QED
    BY <1>7, <2>1, <2>2 DEF read
<1>9. CASE open # {}
  <2>1. /\ Rebuilt(read).since = last
        /\ Rebuilt(read) = [Forgotten EXCEPT !.since = last, !.sent = TRUE]
    BY <1>2, <1>7, <1>9
  <2>2. last \in open /\ last \in On("down") /\ last # None
    BY <1>3, <1>4, <1>6, <1>9 DEF None
  <2>3. ASSUME n = Len(rows), OpenIsLast, Distinct, NEW s \in OpenNow PROVE s = last
    <3>1. s \in On("down") /\ s \notin On("up") /\ last \in On("down") /\ last \notin On("up")
      BY <1>5, <2>2, <2>3 DEF OpenNow
    <3>2. PICK i \in DOMAIN rows : rows[i] = Notice("down", s)
      BY <3>1, RowsOn
    <3>3. PICK j \in DOMAIN rows : rows[j] = Notice("down", last)
      BY <3>1, RowsOn
    <3>4. ~(i < j) /\ ~(j < i)
      BY <1>1, <2>3, <3>1, <3>2, <3>3 DEF OpenIsLast, OfDevice, Notice
    <3>5. i = j
      BY <1>1, <3>4
    <3> QED
      BY <3>2, <3>3, <3>5 DEF Notice
  <2>4. n = Len(rows) => OpenNow = open
    BY <1>5 DEF OpenNow
  <2> QED
    BY <2>1, <2>2, <2>3, <2>4 DEF read
<1> QED
  BY <1>8, <1>9

LEMMA RestoreKeeps ==
    ASSUME NInv, NEW ok \in BOOLEAN, Restore(ok)
    PROVE  NInv'
<1> DEFINE n == IF Len(rows) < RestoreLimit THEN Len(rows) ELSE RestoreLimit
           box == IF ok THEN Rebuilt(SubSeq(rows, 1, n)) ELSE device
<1>1. /\ pc = "detect" /\ pc' = pc /\ ~device.restored /\ device = Forgotten
      /\ device' = [box EXCEPT !.restored = TRUE]
      /\ blind' = (blind \/ ~ok \/ n < Len(rows))
      /\ UNCHANGED <<tick, lastFresh, success, alerted, rows, marks, ledger, sending, storeDown,
                     crashes, pushed, repeated, unsaid, misread, lateDone, crashedOn>>
  BY DEF Restore, At, stored, NInv, DeviceTimes
<1>2. n \in Nat /\ n <= Len(rows) /\ Len(rows) \in Nat
  BY NoticesAssumption DEF NInv, NTypeOK
<1>3. Forgotten = [since |-> None, sent |-> FALSE, contact |-> None, restored |-> FALSE]
  BY DEF Forgotten
<1>4. \/ box = Forgotten
      \/ box.since \in On("down") /\ box = [since |-> box.since, sent |-> TRUE, contact |-> None, restored |-> FALSE]
  BY <1>1, <1>2, <1>3, RebuiltIsOpen DEF NInv
<1>5. ok /\ n = Len(rows) /\ OpenIsLast /\ Distinct => OpenNow = IF box.since = None THEN {} ELSE {box.since}
  BY <1>1, <1>2, RebuiltIsOpen DEF NInv
<1>6. On("down") \subseteq Nat /\ \A s \in On("down") : s <= tick
  BY DEF NInv, DeviceTimes
<1> HIDE DEF box, n
<1>7. /\ device'.restored /\ device'.since = box.since /\ device'.contact = None
      /\ device' \in [since : Moments, sent : BOOLEAN, contact : Moments, restored : BOOLEAN]
      /\ device'.since # None => device'.sent /\ device'.since <= tick
  <2>1. CASE box = Forgotten
    BY <1>1, <1>3, <2>1 DEF Moments, None
  <2>2. CASE /\ box.since \in On("down")
             /\ box = [since |-> box.since, sent |-> TRUE, contact |-> None, restored |-> FALSE]
    <3> DEFINE s == box.since
    <3>0. box = [since |-> s, sent |-> TRUE, contact |-> None, restored |-> FALSE]
      BY <2>2
    <3> HIDE DEF s
    <3>1. device' = [since |-> s, sent |-> TRUE, contact |-> None, restored |-> TRUE]
      BY <1>1, <3>0
    <3> QED
      BY <1>6, <2>2, <3>1 DEF Moments, None, s
  <2> QED
    BY <1>4, <2>1, <2>2
<1>8. NTypeOK'
  BY <1>1, <1>7 DEF NInv, NTypeOK
<1>9. InHand' /\ ForecastStages' /\ OneCanonicalForecast' /\ MarksAreTrue'
  BY <1>1, RowsStay DEF NInv, InHand, ForecastStages, OneCanonicalForecast, MarksAreTrue
<1>10. StagesAreTrue' /\ GapsAreTold' /\ PushesOnce'
  BY <1>1, RowsStay DEF NInv, StagesAreTrue, GapsAreTold, PushesOnce
<1>11. ~Tells("up")' /\ ~Tells("down")'
  BY <1>1 DEF Tells
<1>12. DeviceTimes'
  BY <1>1, <1>7, <1>11, RowsStay DEF NInv, DeviceTimes
<1>13. DeviceStory'
  <2> SUFFICES ASSUME DeviceNoticesKept' PROVE (ToldInTurns /\ OpenIsLast /\ BoxIsRight)'
    BY <1>1, RowsStay DEF NInv, DeviceStory, Distinct
  <2>1. DeviceNoticesKept /\ ok /\ n = Len(rows)
    <3>1. ~blind' /\ \A notice \in unsaid : notice.kind \notin {"down", "up"}
      BY <1>1 DEF DeviceNoticesKept
    <3>2. ~(blind \/ ~ok \/ n < Len(rows))
      BY <1>1, <3>1, Zenon
    <3> QED
      BY <1>2, <3>1, <3>2 DEF DeviceNoticesKept
  <2>2. ToldInTurns /\ OpenIsLast /\ Distinct
    BY <2>1 DEF NInv, DeviceStory, Distinct
  <2> QED
    BY <1>1, <1>5, <1>7, <1>11, <2>1, <2>2, RowsStay DEF BoxIsRight
<1> QED
  BY <1>8, <1>9, <1>10, <1>12, <1>13 DEF NInv

LEMMA TomorrowIsADay ==
    ASSUME NInv
    PROVE  /\ Tomorrow(tick) \in Days /\ Tomorrow(tick) \in Nat /\ Tomorrow(tick) = Day(tick) + 1
           /\ Day(tick) \in Nat /\ tick \in Nat /\ tick \in 0 .. MaxTick
           /\ ledger[Tomorrow(tick)] \in [load : Nat, solar : Nat]
           /\ ledger[Tomorrow(tick)].load \in Nat /\ ledger[Tomorrow(tick)].solar \in Nat
           /\ ledger[Tomorrow(tick)].solar <= ledger[Tomorrow(tick)].load
           /\ ledger \in [Days -> [load : Nat, solar : Nat]]
<1>1. tick \in 0 .. MaxTick /\ tick \in Nat
  BY NoticesAssumption DEF NInv, NTypeOK
<1>2. /\ Day(tick) \in Nat /\ Tomorrow(tick) = Day(tick) + 1 /\ Tomorrow(tick) \in Days
  BY <1>1, LocalDays
<1>3. ledger \in [Days -> [load : Nat, solar : Nat]]
  BY DEF NInv, NTypeOK
<1>4. ledger[Tomorrow(tick)].solar <= ledger[Tomorrow(tick)].load
  <2>1. ForecastStages
    BY DEF NInv
  <2>2. \A d \in Days : ledger[d].solar <= ledger[d].load
    BY <2>1, Zenon DEF ForecastStages
  <2> QED
    BY <1>2, <2>2, Zenon
<1> HIDE DEF NInv
<1>5. ledger[Tomorrow(tick)] \in [load : Nat, solar : Nat]
  BY <1>2, <1>3
<1> QED
  BY <1>1, <1>2, <1>3, <1>4, <1>5

(* A job of today is about to be told: the catch-up or the digest.         *)
LEMMA SendKeeps ==
    ASSUME NInv, pc \in {"recover", "digest"}, pc' = "insert",
           \/ sending' = [kind |-> "recovered", on |-> Day(tick), then |-> "mark_recovered"]
           \/ sending' = [kind |-> "digest", on |-> Day(tick), then |-> "digest_mark"],
           UNCHANGED <<tick, memory, stored, storeDown, crashes, truth>>
    PROVE  NInv'
<1> USE DEF memory, stored, truth
<1>1. NTypeOK'
  <2>1. Day(tick) \in Int
    BY TomorrowIsADay
  <2>2. sending' \in [kind : Kinds \union {"none"}, on : Int, then : Places]
    BY <2>1 DEF Kinds, Places
  <2> QED
    BY <2>2 DEF NInv, NTypeOK, Places
<1>2. InHand' /\ ForecastStages' /\ OneCanonicalForecast'
  BY RowsStay DEF NInv, InHand, ForecastStages, OneCanonicalForecast
<1>3. MarksAreTrue' /\ StagesAreTrue' /\ GapsAreTold'
  BY RowsStay DEF NInv, MarksAreTrue, StagesAreTrue, GapsAreTold
<1>4. DeviceTimes' /\ DeviceStory'
  BY DeviceStays DEF NInv, Tells, DeviceTimes
<1>5. PushesOnce'
  BY RowsStay DEF NInv, PushesOnce
<1> QED
  BY <1>1, <1>2, <1>3, <1>4, <1>5 DEF NInv

(* The mark of a job of today is set, or the cache does not take it.       *)
LEMMA MarkKeeps ==
    ASSUME NInv, NEW job \in {"recovered", "digest"},
           Notice(job, Day(tick)) \in Said \union unsaid,
           pc \in {"mark_recovered", "digest_mark"}, pc' \in {"canonical", "health"},
           marks' \in {marks, marks \union {Notice(job, Day(tick))}},
           UNCHANGED <<tick, memory, rows, ledger, sending, storeDown, crashes, truth>>
    PROVE  NInv'
<1> USE DEF memory, truth
<1>1. NTypeOK'
  <2>1. Notice(job, Day(tick)) \in Notes
    BY LocalDays DEF NInv, NTypeOK, Notice, Notes, Kinds
  <2> QED
    BY <2>1 DEF NInv, NTypeOK, Places
<1>2. InHand' /\ ForecastStages' /\ OneCanonicalForecast'
  BY RowsStay DEF NInv, InHand, ForecastStages, OneCanonicalForecast
<1>3. MarksAreTrue'
  BY RowsStay DEF NInv, MarksAreTrue, Notice
<1>4. StagesAreTrue' /\ GapsAreTold'
  BY RowsStay DEF NInv, StagesAreTrue, GapsAreTold
<1>5. DeviceTimes' /\ DeviceStory'
  BY DeviceStays DEF NInv, Tells, DeviceTimes
<1>6. PushesOnce'
  BY RowsStay DEF NInv, PushesOnce
<1> QED
  BY <1>1, <1>2, <1>3, <1>4, <1>5, <1>6 DEF NInv

(* The catch-up of a missed window.                                        *)
LEMMA RecoveryKeeps ==
    ASSUME NInv, NEW ok \in BOOLEAN, Recovery(ok) \/ MarkRecovery(ok)
    PROVE  NInv'
<1>1. CASE Recovery(ok)
  <2>1. CASE pc' = "canonical" /\ sending' = sending
    BY <1>1, <2>1, PlainStep DEF Recovery, At, NInv, NTypeOK, Plain, DeviceTimes, memory
  <2>2. CASE /\ pc' = "insert"
             /\ sending' = [kind |-> "recovered", on |-> Day(tick), then |-> "mark_recovered"]
    BY <1>1, <2>2, SendKeeps DEF Recovery, At
  <2> QED
    BY <1>1, <2>1, <2>2 DEF Recovery, SendThen, Goto, Notice
<1>2. CASE MarkRecovery(ok)
  BY <1>2, MarkKeeps DEF MarkRecovery, At, Goto, NInv, StagesAreTrue
<1> QED
  BY <1>1, <1>2

(* The weekly digest.                                                      *)
LEMMA DigestKeeps ==
    ASSUME NInv, NEW ok \in BOOLEAN, Digest(ok) \/ MarkDigest(ok)
    PROVE  NInv'
<1>1. CASE Digest(ok)
  <2>1. CASE pc' = "health" /\ sending' = sending
    BY <1>1, <2>1, PlainStep DEF Digest, At, NInv, NTypeOK, Plain, DeviceTimes, memory
  <2>2. CASE /\ pc' = "insert"
             /\ sending' = [kind |-> "digest", on |-> Day(tick), then |-> "digest_mark"]
    BY <1>1, <2>2, SendKeeps DEF Digest, At
  <2> QED
    BY <1>1, <2>1, <2>2 DEF Digest, SendThen, Notice
<1>2. CASE MarkDigest(ok)
  BY <1>2, MarkKeeps DEF MarkDigest, At, Goto, NInv, StagesAreTrue
<1> QED
  BY <1>1, <1>2

(* The canonical forecast: what every stage leaves alone.                  *)
LEMMA ForecastElsewhere ==
    ASSUME NInv, UNCHANGED <<tick, device, alerted, rows, crashes, pushed, repeated, unsaid, blind>>,
           pc \in {"canonical", "canonical_ledger", "canonical_append", "canonical_mark"},
           pc' \in {"canonical_ledger", "canonical_append", "canonical_mark", "digest"}
    PROVE  DeviceTimes' /\ DeviceStory' /\ PushesOnce'
<1>1. DeviceTimes' /\ DeviceStory'
  BY DeviceStays DEF NInv, Tells, DeviceTimes
<1>2. PushesOnce'
  BY RowsStay DEF NInv, PushesOnce
<1> QED
  BY <1>1, <1>2

(* What the evening found or did is remembered as done.                    *)
LEMMA SuccessKeeps ==
    ASSUME NInv, pc \in {"canonical", "canonical_mark"}, Hour(tick) \in Evening,
           ledger[Tomorrow(tick)].load > 0,
           pc' = "digest", success' = Tomorrow(tick),
           marks' \in {marks, marks \union {Notice("canonical", Tomorrow(tick))}},
           UNCHANGED <<tick, lastFresh, device, alerted, rows, ledger, sending, storeDown, crashes, truth>>
    PROVE  NInv'
<1> USE DEF truth
<1>1. NTypeOK'
  <2>1. Notice("canonical", Tomorrow(tick)) \in Notes
    BY TomorrowIsADay DEF Notice, Notes, Kinds
  <2> QED
    BY <2>1, TomorrowIsADay DEF NInv, NTypeOK, Places
<1>2. InHand' /\ ForecastStages' /\ OneCanonicalForecast'
  BY RowsStay DEF NInv, InHand, ForecastStages, OneCanonicalForecast
<1>3. MarksAreTrue'
  BY RowsStay DEF NInv, MarksAreTrue, Notice
<1>4. StagesAreTrue' /\ GapsAreTold'
  BY RowsStay DEF NInv, StagesAreTrue, GapsAreTold
<1>5. DeviceTimes' /\ DeviceStory' /\ PushesOnce'
  BY ForecastElsewhere
<1> QED
  BY <1>1, <1>2, <1>3, <1>4, <1>5 DEF NInv

LEMMA CheckMarkKeeps ==
    ASSUME NInv, NEW ok \in BOOLEAN, CheckMark(ok)
    PROVE  NInv'
<1>1. /\ pc = "canonical" /\ Hour(tick) \in Evening
      /\ UNCHANGED <<tick, lastFresh, device, alerted, stored, sending, storeDown, crashes, truth>>
  BY DEF CheckMark, At
<1>2. CASE pc' = "digest" /\ success' = Tomorrow(tick) /\ Notice("canonical", Tomorrow(tick)) \in marks
  <2>1. ledger[Tomorrow(tick)].load > 0
    BY <1>2, TomorrowIsADay DEF NInv, MarksAreTrue
  <2> QED
    BY <1>1, <1>2, <2>1, SuccessKeeps DEF stored
<1>3. CASE pc' = "canonical_ledger" /\ success' = success
  <2> USE DEF truth, stored
  <2>1. NTypeOK'
    BY <1>1, <1>3 DEF NInv, NTypeOK, Places
  <2>2. InHand' /\ ForecastStages' /\ OneCanonicalForecast'
    BY <1>1, <1>3, RowsStay DEF NInv, InHand, ForecastStages, OneCanonicalForecast
  <2>3. MarksAreTrue' /\ StagesAreTrue' /\ GapsAreTold'
    BY <1>1, <1>3, RowsStay DEF NInv, MarksAreTrue, StagesAreTrue, GapsAreTold
  <2>4. DeviceTimes' /\ DeviceStory' /\ PushesOnce'
    BY <1>1, <1>3, ForecastElsewhere
  <2> QED
    BY <2>1, <2>2, <2>3, <2>4 DEF NInv
<1> QED
  BY <1>2, <1>3 DEF CheckMark, Goto

LEMMA CheckLedgerKeeps ==
    ASSUME NInv, NEW ok \in BOOLEAN, CheckLedger(ok)
    PROVE  NInv'
<1>1. /\ pc = "canonical_ledger" /\ misread' = (misread \/ ~ok)
      /\ UNCHANGED <<tick, memory, stored, sending, storeDown, crashes, pushed, repeated, unsaid,
                     blind, lateDone, crashedOn>>
  BY DEF CheckLedger, At
<1>2. /\ pc' \in {"canonical_mark", "canonical_append"}
      /\ pc' = "canonical_mark" => ledger[Tomorrow(tick)].solar > 0
      /\ pc' = "canonical_append" /\ ok => ~(ledger[Tomorrow(tick)].solar > 0)
  BY DEF CheckLedger, Goto, OnRecord
<1>3. ~misread' => ~misread /\ ok
  BY <1>1
<1> USE DEF memory, stored
<1>4. NTypeOK'
  BY <1>1, <1>2 DEF NInv, NTypeOK, Places
<1>5. InHand' /\ MarksAreTrue' /\ StagesAreTrue' /\ GapsAreTold'
  BY <1>1, <1>2, RowsStay DEF NInv, InHand, MarksAreTrue, StagesAreTrue, GapsAreTold
<1>6. OneCanonicalForecast'
  BY <1>1, <1>3 DEF NInv, OneCanonicalForecast
<1>7. ForecastStages'
  <2>1. ledger[Tomorrow(tick)].solar <= ledger[Tomorrow(tick)].load
    BY TomorrowIsADay
  <2> QED
    BY <1>1, <1>2, <1>3, <2>1, TomorrowIsADay DEF NInv, ForecastStages
<1>8. DeviceTimes' /\ DeviceStory' /\ PushesOnce'
  BY <1>1, <1>2, ForecastElsewhere
<1> QED
  BY <1>4, <1>5, <1>6, <1>7, <1>8 DEF NInv

LEMMA AppendLedgerKeeps ==
    ASSUME NInv, NEW ok \in BOOLEAN, NEW solar \in BOOLEAN, AppendLedger(ok, solar)
    PROVE  NInv'
<1>1. /\ pc = "canonical_append"
      /\ UNCHANGED <<tick, memory, rows, marks, sending, storeDown, crashes, truth>>
  BY DEF AppendLedger, At
<1>2. CASE ~ok
  BY <1>1, <1>2, PlainStep
  DEF AppendLedger, Goto, NInv, NTypeOK, Plain, DeviceTimes, memory, stored
<1>3. CASE ok
  <2> DEFINE new == IF solar THEN 1 ELSE 0
             old == ledger[Tomorrow(tick)]
  <2>1. /\ pc' = "canonical_mark"
        /\ ledger' = [ledger EXCEPT ![Tomorrow(tick)] = [load |-> old.load + 1, solar |-> old.solar + new]]
    BY <1>3 DEF AppendLedger, Goto
  <2>2. /\ ledger'[Tomorrow(tick)].load = old.load + 1
        /\ ledger'[Tomorrow(tick)].solar = old.solar + new
        /\ \A d \in Days \ {Tomorrow(tick)} : ledger'[d] = ledger[d]
        /\ ledger' \in [Days -> [load : Nat, solar : Nat]]
    BY <2>1, TomorrowIsADay
  <2>3. new \in 0 .. 1 /\ old.load \in Nat /\ old.solar \in Nat /\ old.solar <= old.load
    BY TomorrowIsADay
  <2> HIDE DEF new, old
  <2> USE DEF memory, truth
  <2>4. NTypeOK'
    BY <1>1, <2>1, <2>2 DEF NInv, NTypeOK, Places
  <2>5. InHand' /\ StagesAreTrue'
    BY <1>1, <2>1, RowsStay DEF NInv, InHand, StagesAreTrue
  <2>6. ForecastStages'
    BY <1>1, <2>1, <2>2, <2>3, TomorrowIsADay DEF NInv, ForecastStages
  <2>7. OneCanonicalForecast'
    <3> SUFFICES ASSUME ~misread, NEW d \in Days PROVE ledger'[d].solar <= 1
      BY <1>1 DEF OneCanonicalForecast
    <3>1. old.solar = 0
      BY <1>1 DEF NInv, ForecastStages, old
    <3> QED
      BY <2>2, <2>3, <3>1 DEF NInv, OneCanonicalForecast
  <2>8. MarksAreTrue'
    BY <1>1, <2>2, <2>3, RowsStay DEF NInv, MarksAreTrue
  <2>9. GapsAreTold'
    <3>0. \A d \in lateDone : d + 1 \in Days /\ (d = Day(tick) => \E late \in Late : late <= Hour(tick))
      <4>1. StagesAreTrue
        BY DEF NInv
      <4> QED
        BY <4>1, Zenon DEF StagesAreTrue
    <3>1. \A d \in lateDone : d + 1 \in Days \ {Tomorrow(tick)}
      <4> SUFFICES ASSUME NEW d \in lateDone, d + 1 = Tomorrow(tick) PROVE FALSE
        BY <3>0
      <4>0. lateDone \subseteq Int
        BY DEF NInv, NTypeOK
      <4>1. d = Day(tick)
        BY <4>0, TomorrowIsADay
      <4>2. Hour(tick) \in Evening
        BY <1>1 DEF NInv, ForecastStages
      <4>3. PICK late \in Late : late <= Hour(tick)
        BY <3>0, <4>1
      <4>4. /\ \A h \in Evening \union Late : h \in Int
            /\ \A e \in Evening, l \in Late : e < l
        BY NoticesAssumption
      <4> QED
        BY <4>2, <4>3, <4>4
    <3> QED
      BY <1>1, <2>1, <2>2, <3>1, RowsStay DEF NInv, GapsAreTold
  <2>10. DeviceTimes' /\ DeviceStory' /\ PushesOnce'
    BY <1>1, <2>1, ForecastElsewhere
  <2> QED
    BY <2>4, <2>5, <2>6, <2>7, <2>8, <2>9, <2>10 DEF NInv
<1> QED
  BY <1>2, <1>3

LEMMA MarkCanonicalKeeps ==
    ASSUME NInv, NEW ok \in BOOLEAN, MarkCanonical(ok)
    PROVE  NInv'
<1>1. pc = "canonical_mark" /\ Hour(tick) \in Evening /\ ledger[Tomorrow(tick)].load > 0
  BY DEF MarkCanonical, At, NInv, ForecastStages
<1> QED
  BY <1>1, SuccessKeeps DEF MarkCanonical, Goto

(* The detector of a silent device.                                        *)
LEMMA DetectorElsewhere ==
    ASSUME NInv, pc = "detect", pc' \in {"insert", "recover"},
           UNCHANGED <<tick, lastFresh, success, alerted, stored, storeDown, faults, crashes, truth>>,
           device' \in [since : Moments, sent : BOOLEAN, contact : Moments, restored : BOOLEAN],
           sending' \in [kind : Kinds \union {"none"}, on : Int, then : Places],
           pc' = "insert" => sending'.kind \in {"down", "up"} /\ sending'.then = "recover"
    PROVE  /\ NTypeOK' /\ InHand' /\ ForecastStages' /\ OneCanonicalForecast' /\ MarksAreTrue'
           /\ StagesAreTrue' /\ GapsAreTold' /\ PushesOnce'
<1> USE DEF stored, truth
<1>1. NTypeOK'
  BY DEF NInv, NTypeOK, Places
<1>2. InHand' /\ ForecastStages' /\ OneCanonicalForecast'
  BY RowsStay DEF NInv, InHand, ForecastStages, OneCanonicalForecast
<1>3. MarksAreTrue' /\ StagesAreTrue' /\ GapsAreTold'
  BY RowsStay DEF NInv, MarksAreTrue, StagesAreTrue, GapsAreTold
<1>4. PushesOnce'
  BY RowsStay DEF NInv, PushesOnce
<1> QED
  BY <1>1, <1>2, <1>3, <1>4

(* What the detector finds in its box.                                     *)
LEMMA DetectorFinds ==
    ASSUME NInv, pc = "detect", device.restored
    PROVE  /\ device \in [since : Moments, sent : BOOLEAN, contact : Moments, restored : BOOLEAN]
           /\ tick \in Nat /\ Distinct
           /\ device.since # None =>
                 /\ device.sent /\ device.since <= tick
                 /\ device.contact # None => device.since <= device.contact /\ device.contact <= tick
           /\ (\A s \in On("up") : s < tick) /\ (\A s \in On("down") : s \in 0 .. tick)
           /\ DeviceNoticesKept =>
                 /\ ToldInTurns /\ OpenIsLast
                 /\ OpenNow = IF device.since = None THEN {} ELSE {device.since}
<1>1. /\ NTypeOK /\ DeviceTimes /\ DeviceStory
  BY DEF NInv
<1>2. ~Tells("up") /\ ~Tells("down")
  BY DEF Tells
<1>3. device \in [since : Moments, sent : BOOLEAN, contact : Moments, restored : BOOLEAN] /\ tick \in Nat
  BY <1>1, NoticesAssumption DEF NTypeOK
<1>4. BoxIsRight => OpenNow = IF device.since = None THEN {} ELSE {device.since}
  BY <1>2 DEF BoxIsRight
<1>5. Distinct /\ (DeviceNoticesKept => ToldInTurns /\ OpenIsLast /\ BoxIsRight)
  BY <1>1 DEF DeviceStory, Distinct
<1>6. /\ device.since # None =>
            /\ device.sent /\ device.since <= tick
            /\ device.contact # None => device.since <= device.contact /\ device.contact <= tick
      /\ (\A s \in On("up") : s < tick) /\ (\A s \in On("down") : s \in 0 .. tick)
  BY <1>1 DEF DeviceTimes
<1> QED
  BY <1>3, <1>4, <1>5, <1>6

LEMMA SilentKeeps ==
    ASSUME NInv, DeviceDetector, Silent
    PROVE  NInv'
<1> DEFINE since == IF device.since = None THEN tick ELSE device.since
<1>1. /\ pc = "detect" /\ device.restored
      /\ UNCHANGED <<tick, lastFresh, success, alerted, stored, storeDown, faults, crashes, truth>>
      /\ device' = [device EXCEPT !.since = since, !.sent = TRUE, !.contact = None]
      /\ pc' = "insert" /\ sending' = [kind |-> "down", on |-> since, then |-> "recover"]
  BY DEF DeviceDetector, At, Silent, SendThen, Notice
<1>2. since \in Nat /\ since <= tick /\ since # None
  BY <1>1, DetectorFinds DEF Moments, None
<1>3. device' = [since |-> since, sent |-> TRUE, contact |-> None, restored |-> TRUE]
  BY <1>1, DetectorFinds
<1>4. device.since = None => since = tick
  OBVIOUS
<1>5. device.since # None => since = device.since
  OBVIOUS
<1> HIDE DEF since
<1>6. /\ NTypeOK' /\ InHand' /\ ForecastStages' /\ OneCanonicalForecast' /\ MarksAreTrue'
      /\ StagesAreTrue' /\ GapsAreTold' /\ PushesOnce'
  <2>1. device' \in [since : Moments, sent : BOOLEAN, contact : Moments, restored : BOOLEAN]
    BY <1>2, <1>3 DEF Moments
  <2>2. sending' \in [kind : Kinds \union {"none"}, on : Int, then : Places]
    BY <1>1, <1>2 DEF Kinds, Places
  <2> QED
    BY <1>1, <2>1, <2>2, DetectorElsewhere
<1>7. rows' = rows /\ blind' = blind /\ unsaid' = unsaid /\ tick' = tick
  BY <1>1 DEF stored, truth
<1>8. ~Tells("up")' /\ Tells("down")' /\ sending'.on = since
  BY <1>1 DEF Tells
<1>9. DeviceTimes'
  BY <1>1, <1>2, <1>3, <1>7, <1>8, RowsStay, DetectorFinds DEF DeviceTimes
<1>10. DeviceStory'
  <2> SUFFICES ASSUME DeviceNoticesKept' PROVE (ToldInTurns /\ OpenIsLast /\ BoxIsRight)'
    BY <1>1, <1>7, RowsStay, DetectorFinds DEF DeviceStory, Distinct
  <2>1. /\ ToldInTurns /\ OpenIsLast
        /\ OpenNow = IF device.since = None THEN {} ELSE {device.since}
    BY <1>1, <1>7, DetectorFinds DEF DeviceNoticesKept
  <2> QED
    BY <1>2, <1>3, <1>4, <1>5, <1>7, <1>8, <2>1, RowsStay DEF BoxIsRight
<1> QED
  BY <1>6, <1>9, <1>10 DEF NInv

LEMMA InContactKeeps ==
    ASSUME NInv, DeviceDetector, InContact
    PROVE  NInv'
<1> DEFINE contact == IF device.contact = None THEN tick ELSE device.contact
           closes == device.since # None /\ tick - contact >= Stable
<1>1. /\ pc = "detect" /\ device.restored
      /\ UNCHANGED <<tick, lastFresh, success, alerted, stored, storeDown, faults, crashes, truth>>
  BY DEF DeviceDetector, At
<1>2. /\ device' = IF device.since = None THEN device
                   ELSE IF closes THEN [Forgotten EXCEPT !.restored = TRUE]
                   ELSE [device EXCEPT !.contact = contact]
      /\ IF closes /\ device.sent
         THEN pc' = "insert" /\ sending' = [kind |-> "up", on |-> device.since, then |-> "recover"]
         ELSE pc' = "recover" /\ UNCHANGED sending
  BY DEF InContact, SendThen, Goto, Notice
<1>3. contact \in Nat /\ (device.since # None => device.since <= contact /\ contact <= tick)
  BY <1>1, DetectorFinds DEF Moments, None
<1>4. rows' = rows /\ blind' = blind /\ unsaid' = unsaid /\ tick' = tick
  BY <1>1 DEF stored, truth
<1>5. sending \in [kind : Kinds \union {"none"}, on : Int, then : Places]
  BY DEF NInv, NTypeOK
<1>6. CASE closes
  <2>1. device.since # None /\ device.sent /\ device.since \in Nat /\ device.since < tick
    BY <1>1, <1>3, <1>6, DetectorFinds, NoticesAssumption DEF Moments, None
  <2>2. /\ device' = [since |-> None, sent |-> FALSE, contact |-> None, restored |-> TRUE]
        /\ pc' = "insert" /\ sending' = [kind |-> "up", on |-> device.since, then |-> "recover"]
    BY <1>2, <1>6, <2>1 DEF Forgotten
  <2>3. /\ NTypeOK' /\ InHand' /\ ForecastStages' /\ OneCanonicalForecast' /\ MarksAreTrue'
        /\ StagesAreTrue' /\ GapsAreTold' /\ PushesOnce'
    <3>1. device' \in [since : Moments, sent : BOOLEAN, contact : Moments, restored : BOOLEAN]
      BY <2>2 DEF Moments
    <3>2. sending' \in [kind : Kinds \union {"none"}, on : Int, then : Places]
      BY <2>1, <2>2 DEF Kinds, Places
    <3> QED
      BY <1>1, <2>2, <3>1, <3>2, DetectorElsewhere
  <2>4. Tells("up")' /\ ~Tells("down")' /\ sending'.on = device.since
    BY <2>2 DEF Tells
  <2>5. DeviceTimes'
    BY <1>1, <1>4, <2>1, <2>2, <2>4, RowsStay, DetectorFinds DEF DeviceTimes
  <2>6. DeviceStory'
    <3> SUFFICES ASSUME DeviceNoticesKept' PROVE (ToldInTurns /\ OpenIsLast /\ BoxIsRight)'
      BY <1>1, <1>4, RowsStay, DetectorFinds DEF DeviceStory, Distinct
    <3>1. ToldInTurns /\ OpenIsLast /\ OpenNow = {device.since}
      BY <1>1, <1>4, <2>1, DetectorFinds DEF DeviceNoticesKept
    <3> QED
      BY <1>4, <2>4, <3>1, RowsStay DEF BoxIsRight
  <2> QED
    BY <2>3, <2>5, <2>6 DEF NInv
<1>7. CASE ~closes
  <2>1. pc' = "recover" /\ sending' = sending
    BY <1>2, <1>7
  <2>2. \/ device' = device
        \/ /\ device.since # None
           /\ device' = [device EXCEPT !.contact = contact]
    BY <1>2, <1>7
  <2> HIDE DEF contact, closes
  <2>3. /\ device' \in [since : Moments, sent : BOOLEAN, contact : Moments, restored : BOOLEAN]
        /\ device'.since = device.since /\ device'.sent = device.sent /\ device'.restored
        /\ \/ device'.contact = device.contact
           \/ device.since # None /\ device'.contact = contact
    <3>1. CASE device' = device
      BY <1>1, <3>1, DetectorFinds
    <3>2. CASE device.since # None /\ device' = [device EXCEPT !.contact = contact]
      BY <1>1, <1>3, <3>2, DetectorFinds DEF Moments
    <3> QED
      BY <2>2, <3>1, <3>2
  <2>4. /\ NTypeOK' /\ InHand' /\ ForecastStages' /\ OneCanonicalForecast' /\ MarksAreTrue'
        /\ StagesAreTrue' /\ GapsAreTold' /\ PushesOnce'
    BY <1>1, <1>5, <2>1, <2>3, DetectorElsewhere
  <2>5. ~Tells("up")' /\ ~Tells("down")'
    BY <2>1 DEF Tells
  <2>6. DeviceTimes'
    BY <1>1, <1>3, <1>4, <2>1, <2>3, <2>5, RowsStay, DetectorFinds DEF DeviceTimes
  <2>7. DeviceStory'
    <3> SUFFICES ASSUME DeviceNoticesKept' PROVE (ToldInTurns /\ OpenIsLast /\ BoxIsRight)'
      BY <1>1, <1>4, RowsStay, DetectorFinds DEF DeviceStory, Distinct
    <3>1. /\ ToldInTurns /\ OpenIsLast
          /\ OpenNow = IF device.since = None THEN {} ELSE {device.since}
      BY <1>1, <1>4, DetectorFinds DEF DeviceNoticesKept
    <3> QED
      BY <1>4, <2>3, <2>5, <3>1, RowsStay DEF BoxIsRight
  <2> QED
    BY <2>4, <2>6, <2>7 DEF NInv
<1> QED
  BY <1>6, <1>7

(* The window of the evening is found closed.                              *)
LEMMA WindowClosedKeeps ==
    ASSUME NInv, WindowClosed
    PROVE  NInv'
<1>1. /\ pc = "canonical" /\ Hour(tick) \in Late
      /\ lateDone' = lateDone \union {Day(tick)}
      /\ UNCHANGED <<tick, memory, stored, storeDown, faults, crashes, pushed, repeated, unsaid,
                     blind, misread, crashedOn>>
      /\ \/ /\ success # Tomorrow(tick) /\ pc' = "insert"
            /\ sending' = [kind |-> "missed", on |-> Tomorrow(tick), then |-> "digest"]
         \/ success = Tomorrow(tick) /\ pc' = "digest" /\ sending' = sending
  BY DEF WindowClosed, At, SendThen, Notice
<1>2. /\ Tomorrow(tick) \in Days /\ Tomorrow(tick) \in Nat /\ Tomorrow(tick) = Day(tick) + 1
      /\ Day(tick) \in Nat /\ ledger[Tomorrow(tick)].load \in Nat
  BY TomorrowIsADay
<1>3. sending' \in [kind : Kinds \union {"none"}, on : Int, then : Places]
  BY <1>1, <1>2 DEF NInv, NTypeOK, Kinds, Places
<1>4. success # Tomorrow(tick) /\ Day(tick) \notin crashedOn => ledger[Tomorrow(tick)].load = 0
  BY <1>1, <1>2 DEF NInv, ForecastStages
<1>5. success = Tomorrow(tick) => ledger[Tomorrow(tick)].load > 0
  BY <1>2 DEF NInv, MarksAreTrue
<1>6. Notice("missed", Tomorrow(tick)) \in Said => Day(tick) \in lateDone
  <2>1. \A notice \in Said : notice.kind = "missed" => notice.on - 1 \in lateDone
    BY DEF NInv, StagesAreTrue
  <2> QED
    BY <1>2, <2>1 DEF Notice
<1> USE DEF memory, stored
<1>7. NTypeOK'
  <2>0. lateDone \subseteq Int
    BY DEF NInv, NTypeOK
  <2> HIDE DEF NInv
  <2>1. lateDone' \subseteq Int /\ pc' \in Places
    <3>1. Day(tick) \in Int
      BY <1>2
    <3>2. pc' \in {"insert", "digest"}
      BY <1>1
    <3>3. lateDone \union {Day(tick)} \subseteq Int
      BY <2>0, <3>1, Zenon
    <3> QED
      BY <1>1, <3>2, <3>3, Zenon DEF Places
  <2> QED
    BY <1>1, <1>3, <2>1 DEF NInv, NTypeOK
<1>8. InHand' /\ ForecastStages' /\ OneCanonicalForecast' /\ MarksAreTrue'
  BY <1>1, <1>4, RowsStay DEF NInv, InHand, ForecastStages, OneCanonicalForecast, MarksAreTrue
<1>9. StagesAreTrue'
  <2>1. Hour(tick) \in Int
    BY TomorrowIsADay, LocalDays
  <2>2. \E late \in Late : late <= Hour(tick)
    BY <1>1, <2>1
  <2> QED
    BY <1>1, <1>2, <2>2, RowsStay DEF NInv, StagesAreTrue
<1>10. GapsAreTold'
  <2> SUFFICES ASSUME NEW d \in lateDone' \ crashedOn
               PROVE  /\ Notice("missed", d + 1) \in Said => ledger[d + 1].load = 0
                      /\ ledger[d + 1].load = 0 =>
                            \/ Notice("missed", d + 1) \in Said \union unsaid
                            \/ pc' = "insert" /\ sending'.kind = "missed" /\ sending'.on = d + 1
    BY <1>1, RowsStay DEF GapsAreTold
  <2>1. CASE d \in lateDone
    BY <1>1, <2>1 DEF NInv, GapsAreTold
  <2>2. CASE d = Day(tick) /\ d \notin lateDone
    BY <1>1, <1>2, <1>4, <1>5, <1>6, <2>2
  <2> QED
    BY <1>1, <2>1, <2>2
<1>11. DeviceTimes' /\ DeviceStory'
  BY <1>1, DeviceStays DEF NInv, Tells, DeviceTimes
<1>12. PushesOnce'
  BY <1>1, RowsStay DEF NInv, PushesOnce
<1> QED
  BY <1>7, <1>8, <1>9, <1>10, <1>11, <1>12 DEF NInv

(* The alarm about the store, once a day and process.                      *)
LEMMA StoreHealthKeeps ==
    ASSUME NInv, StoreHealth
    PROVE  NInv'
<1>1. /\ pc = "health"
      /\ UNCHANGED <<tick, lastFresh, device, success, stored, storeDown, faults, crashes, truth>>
  BY DEF StoreHealth, At
<1>2. CASE pc' = "idle" /\ UNCHANGED <<alerted, sending>>
  BY <1>1, <1>2, PlainStep DEF NInv, NTypeOK, Plain
<1>3. CASE /\ alerted # Day(tick) /\ alerted' = Day(tick) /\ pc' = "insert"
           /\ sending' = [kind |-> "store_unhealthy", on |-> Day(tick), then |-> "idle"]
  <2> USE DEF stored, truth
  <2>1. Day(tick) \in Nat /\ alerted \in Int /\ alerted < Day(tick)
    BY <1>3, TomorrowIsADay DEF NInv, NTypeOK, PushesOnce
  <2>2. sending' \in [kind : Kinds \union {"none"}, on : Int, then : Places]
    BY <1>3, <2>1 DEF Kinds, Places
  <2>3. NTypeOK'
    BY <1>1, <1>3, <2>1, <2>2 DEF NInv, NTypeOK, Places
  <2>4. InHand' /\ ForecastStages' /\ OneCanonicalForecast' /\ MarksAreTrue'
    BY <1>1, <1>3, RowsStay DEF NInv, InHand, ForecastStages, OneCanonicalForecast, MarksAreTrue
  <2>5. StagesAreTrue' /\ GapsAreTold'
    BY <1>1, <1>3, RowsStay DEF NInv, StagesAreTrue, GapsAreTold
  <2>6. DeviceTimes' /\ DeviceStory'
    BY <1>1, <1>3, DeviceStays DEF NInv, Tells, DeviceTimes
  <2>7. PushesOnce'
    <3>1. PushesOnce /\ pushed \subseteq [kind : Kinds, on : Int, run : Nat]
      BY DEF NInv, NTypeOK
    <3>2. [kind |-> "store_unhealthy", on |-> Day(tick), run |-> crashes] \notin pushed
      BY <2>1, <3>1 DEF PushesOnce
    <3>3. Told(crashes)' = [kind |-> "store_unhealthy", on |-> Day(tick), run |-> crashes]
      BY <1>1, <1>3 DEF Told
    <3>4. \A told \in pushed :
             IF told.kind = "store_unhealthy"
             THEN told.run <= crashes /\ (told.run = crashes => told.on <= Day(tick))
             ELSE Notice(told.kind, told.on) \in Said
      BY <2>1, <3>1 DEF PushesOnce
    <3> QED
      BY <1>1, <1>3, <2>1, <3>1, <3>2, <3>3, <3>4, RowsStay DEF PushesOnce
  <2> QED
    BY <2>3, <2>4, <2>5, <2>6, <2>7 DEF NInv
<1> QED
  BY <1>2, <1>3 DEF StoreHealth, SendThen, Notice

(* Time passes between two stages.                                         *)
LEMMA ClockKeeps ==
    ASSUME NInv, NEW heard \in BOOLEAN, Clock(heard)
    PROVE  NInv'
<1>1. /\ tick < MaxTick /\ pc \in {"idle", "off", "recover", "canonical", "digest", "health"}
      /\ tick' = tick + 1 /\ lastFresh' \in {tick + 1, lastFresh}
      /\ UNCHANGED <<pc, device, success, alerted, rows, marks, ledger, sending, storeDown, faults,
                     crashes, pushed, repeated, unsaid, blind, misread, lateDone, crashedOn>>
  BY DEF Clock, BetweenStages, stored, truth
<1>2. tick \in Nat /\ tick \in 0 .. MaxTick /\ MaxTick \in Nat /\ tick' \in 0 .. MaxTick /\ tick' \in Nat
  BY <1>1, TomorrowIsADay, NoticesAssumption
<1>3. /\ Day(tick) \in Nat /\ Hour(tick) \in Nat
      /\ Tomorrow(tick) = Day(tick) + 1 /\ Tomorrow(tick') = Day(tick') + 1
      /\ Tomorrow(tick') \in Days /\ Tomorrow(tick) \in Days /\ Days \subseteq Nat
      /\ \/ Day(tick') = Day(tick) /\ Hour(tick') = Hour(tick) + 1
         \/ Day(tick') = Day(tick) + 1 /\ Hour(tick') = 0
  BY <1>1, <1>2, LocalDays
<1>4. NTypeOK'
  BY <1>1, <1>2 DEF NInv, NTypeOK, Moments
<1>5. InHand' /\ OneCanonicalForecast' /\ MarksAreTrue' /\ GapsAreTold'
  BY <1>1, RowsStay DEF NInv, InHand, OneCanonicalForecast, MarksAreTrue, GapsAreTold
<1>6. ForecastStages'
  <2>1. /\ \A d \in Days : ledger[d].solar <= ledger[d].load /\ (ledger[d].load > 0 => d <= Tomorrow(tick))
        /\ ledger[Tomorrow(tick)].load > 0 => success = Tomorrow(tick) \/ Day(tick) \in crashedOn
    BY <1>1 DEF NInv, ForecastStages
  <2>2. Day(tick') = Day(tick) + 1 => ~(ledger[Tomorrow(tick')].load > 0)
    BY <1>3, <2>1
  <2>3. \A d \in Days : d <= Tomorrow(tick) => d <= Tomorrow(tick')
    BY <1>3
  <2> QED
    BY <1>1, <1>3, <2>1, <2>2, <2>3 DEF ForecastStages
<1>7. StagesAreTrue'
  <2>1. \A d \in lateDone : d \in Int /\ d <= Day(tick) /\ (d = Day(tick) => \E late \in Late : late <= Hour(tick))
    BY DEF NInv, NTypeOK, StagesAreTrue
  <2>2. \A late \in Late : late \in Int
    BY NoticesAssumption
  <2>3. ASSUME NEW d \in lateDone
        PROVE  d <= Day(tick') /\ (d = Day(tick') => \E late \in Late : late <= Hour(tick'))
    <3>1. CASE Day(tick') = Day(tick) /\ Hour(tick') = Hour(tick) + 1
      <4>1. \A late \in Late : late <= Hour(tick) => late <= Hour(tick')
        BY <1>3, <2>2, <3>1
      <4> QED
        BY <2>1, <3>1, <4>1
    <3>2. CASE Day(tick') = Day(tick) + 1
      BY <1>3, <2>1, <3>2
    <3> QED
      BY <1>3, <3>1, <3>2
  <2>4. /\ \A d \in lateDone : d + 1 \in Days
        /\ \A notice \in Said : notice.kind = "missed" => notice.on - 1 \in lateDone
    BY DEF NInv, StagesAreTrue
  <2> QED
    BY <1>1, <2>3, <2>4, RowsStay DEF StagesAreTrue
<1>8. ~Tells("up") /\ ~Tells("down") /\ ~Tells("up")' /\ ~Tells("down")'
  BY <1>1 DEF Tells
<1>9. DeviceTimes'
  <2>1. DeviceTimes
    BY DEF NInv
  <2>2. device \in [since : Moments, sent : BOOLEAN, contact : Moments, restored : BOOLEAN]
    BY DEF NInv, NTypeOK
  <2>3. device.since # None =>
           /\ device.sent /\ device.since <= tick'
           /\ device.contact # None => device.since <= device.contact /\ device.contact <= tick'
    BY <1>1, <1>2, <2>1, <2>2 DEF DeviceTimes, Moments, None
  <2>4. (\A s \in On("up") : s < tick') /\ (\A s \in On("down") : s \in 0 .. tick')
    <3>1. ASSUME NEW s \in On("up") PROVE s \in Int
      <4>1. NTypeOK
        BY DEF NInv
      <4>2. PICK i \in DOMAIN rows : rows[i] = Notice("up", s)
        BY <4>1, RowsOn
      <4>3. rows[i] \in Notes
        BY <4>1 DEF NTypeOK
      <4> QED
        BY <4>2, <4>3 DEF Notice, Notes
    <3> QED
      BY <1>1, <1>2, <2>1, <3>1 DEF DeviceTimes
  <2> QED
    BY <1>1, <1>8, <2>1, <2>3, <2>4, RowsStay DEF DeviceTimes
<1>10. DeviceStory'
  <2>1. BoxIsRight' = BoxIsRight
    BY <1>1, <1>8, RowsStay DEF BoxIsRight
  <2> QED
    BY <1>1, <2>1, RowsStay DEF NInv, DeviceStory, Distinct, DeviceNoticesKept
<1>11. PushesOnce'
  <2>1. alerted \in Int /\ alerted <= Day(tick) /\ PushesOnce
    BY DEF NInv, NTypeOK, PushesOnce
  <2>2. alerted <= Day(tick')
    BY <1>3, <2>1
  <2> QED
    BY <1>1, <2>1, <2>2, RowsStay DEF PushesOnce
<1> QED
  BY <1>4, <1>5, <1>6, <1>7, <1>9, <1>10, <1>11 DEF NInv

(* The process dies: what was in memory is gone.                           *)
LEMMA CrashKeeps ==
    ASSUME NInv, Crash
    PROVE  NInv'
<1>1. /\ pc' = "off" /\ sending' = Nothing
      /\ lastFresh' = None /\ device' = Forgotten /\ success' = None /\ alerted' = None
      /\ storeDown' = FALSE /\ crashes' = crashes + 1 /\ crashedOn' = crashedOn \union {Day(tick)}
      /\ UNCHANGED <<tick, rows, marks, ledger, pushed, repeated, unsaid, blind, misread, lateDone>>
  BY DEF Crash, stored
<1>2. /\ Day(tick) \in Nat /\ Tomorrow(tick) = Day(tick) + 1 /\ tick \in Nat
      /\ Days \subseteq Nat /\ crashes \in Nat /\ lateDone \subseteq Int
  BY TomorrowIsADay, LocalDays DEF NInv, NTypeOK
<1>3. Forgotten = [since |-> None, sent |-> FALSE, contact |-> None, restored |-> FALSE]
  BY DEF Forgotten
<1>4. Nothing \in [kind : Kinds \union {"none"}, on : Int, then : Places]
  BY DEF Nothing, None, Places
<1>5. NTypeOK'
  <2>1. None \in Int /\ None \in Moments /\ "off" \in Places
    BY DEF None, Moments, Places
  <2>2. Forgotten \in [since : Moments, sent : BOOLEAN, contact : Moments, restored : BOOLEAN]
    BY <1>3, <2>1
  <2>3. crashes + 1 \in Nat /\ crashedOn \union {Day(tick)} \subseteq Int
    <3>1. crashedOn \subseteq Int
      BY DEF NInv, NTypeOK
    <3>2. Day(tick) \in Int /\ crashes + 1 \in Nat
      BY <1>2
    <3> QED
      BY <3>1, <3>2, Zenon
  <2> QED
    BY <1>1, <1>4, <2>1, <2>2, <2>3 DEF NInv, NTypeOK
<1>6. InHand' /\ ForecastStages' /\ OneCanonicalForecast'
  BY <1>1, RowsStay DEF NInv, InHand, ForecastStages, OneCanonicalForecast
<1>7. MarksAreTrue'
  <2>1. \A d \in Days : None # d
    BY <1>2 DEF None
  <2> QED
    BY <1>1, <2>1, RowsStay DEF NInv, MarksAreTrue
<1>8. StagesAreTrue'
  BY <1>1, RowsStay DEF NInv, StagesAreTrue
<1>9. GapsAreTold'
  <2> SUFFICES ASSUME NEW d \in lateDone \ crashedOn, d # Day(tick)
               PROVE  /\ Notice("missed", d + 1) \in Said => ledger[d + 1].load = 0
                      /\ ledger[d + 1].load = 0 => Notice("missed", d + 1) \in Said \union unsaid
    BY <1>1, RowsStay DEF GapsAreTold
  <2>1. ~(pc = "insert" /\ sending.kind = "missed" /\ sending.on = d + 1)
    <3>1. InHand
      BY DEF NInv
    <3>2. pc = "insert" /\ sending.kind = "missed" => sending.on = Tomorrow(tick)
      BY <3>1 DEF InHand
    <3>3. d \in Int
      BY <1>2
    <3> QED
      BY <1>2, <3>2, <3>3
  <2> QED
    BY <2>1 DEF NInv, GapsAreTold
<1>10. DeviceTimes'
  BY <1>1, <1>3, RowsStay DEF NInv, DeviceTimes, Tells
<1>11. DeviceStory'
  BY <1>1, <1>3, RowsStay DEF NInv, DeviceStory, Distinct, BoxIsRight, DeviceNoticesKept
<1>12. PushesOnce'
  <2>1. PushesOnce /\ pushed \subseteq [kind : Kinds, on : Int, run : Nat]
    BY DEF NInv, NTypeOK
  <2>2. \A told \in pushed :
           IF told.kind = "store_unhealthy" THEN told.run <= crashes + 1 /\ told.run # crashes + 1
           ELSE Notice(told.kind, told.on) \in Said
    BY <1>2, <2>1 DEF PushesOnce
  <2>3. None <= Day(tick) /\ ~repeated
    BY <1>2, <2>1 DEF None, PushesOnce
  <2> QED
    BY <1>1, <2>2, <2>3, RowsStay DEF PushesOnce
<1> QED
  BY <1>5, <1>6, <1>7, <1>8, <1>9, <1>10, <1>11, <1>12 DEF NInv

(* The steps that only go on to the next stage, or leave the loop alone.   *)
LEMMA PlainKeeps ==
    ASSUME NInv,
           \/ Begin \/ NothingMissed \/ TooEarly \/ GatherFails \/ NoDigest \/ DigestFails
           \/ StoreBreaks \/ StoreHeals \/ \E heard \in BOOLEAN : Boot(heard)
    PROVE  NInv'
<1>1. /\ sending \in [kind : Kinds \union {"none"}, on : Int, then : Places]
      /\ lastFresh \in Moments /\ storeDown \in BOOLEAN /\ tick \in Moments
      /\ pc \notin {"off", "idle", "detect"} => device.restored
  BY TomorrowIsADay DEF NInv, NTypeOK, DeviceTimes, Moments
<1> USE DEF At, Goto, memory, Plain
<1>2. CASE Begin \/ NothingMissed \/ TooEarly \/ GatherFails
  BY <1>1, <1>2, PlainStep DEF Begin, NothingMissed, TooEarly, GatherFails
<1>3. CASE NoDigest \/ DigestFails
  BY <1>1, <1>3, PlainStep DEF NoDigest, DigestFails
<1>4. CASE StoreBreaks \/ StoreHeals
  BY <1>1, <1>4, PlainStep DEF StoreBreaks, StoreHeals, BetweenStages
<1>5. CASE \E heard \in BOOLEAN : Boot(heard)
  BY <1>1, <1>5, PlainStep DEF Boot
<1> QED
  BY <1>2, <1>3, <1>4, <1>5

LEMMA NoticesInit == Init => NInv
<1> SUFFICES ASSUME Init PROVE NInv
  OBVIOUS
<1>1. /\ tick = Start /\ pc = "off"
      /\ lastFresh = None /\ device = Forgotten /\ success = None /\ alerted = None
      /\ rows = <<>> /\ marks = {} /\ ledger = [d \in Days |-> [load |-> 0, solar |-> 0]]
      /\ sending = Nothing /\ storeDown = FALSE /\ crashes = 0
      /\ pushed = {} /\ repeated = FALSE /\ unsaid = {} /\ blind = FALSE /\ misread = FALSE
      /\ lateDone = {} /\ crashedOn = {}
  BY DEF Init
<1>2. tick \in 0 .. MaxTick /\ tick \in Nat
  BY <1>1, NoticesAssumption
<1>3. Day(tick) \in Nat /\ Tomorrow(tick) \in Days /\ Days \subseteq Nat
  BY <1>2, LocalDays
<1>4. Said = {} /\ On("up") = {} /\ On("down") = {} /\ DOMAIN rows = {}
  BY <1>1 DEF Said, On
<1>5. Forgotten = [since |-> None, sent |-> FALSE, contact |-> None, restored |-> FALSE]
  BY DEF Forgotten
<1>6. Nothing \in [kind : Kinds \union {"none"}, on : Int, then : Places]
  BY DEF Nothing, None, Places
<1>7. ledger \in [Days -> [load : Nat, solar : Nat]] /\ \A d \in Days : ledger[d].load = 0 /\ ledger[d].solar = 0
  BY <1>1
<1>8. NTypeOK
  <2>1. None \in Int /\ None \in Moments /\ "off" \in Places
    BY DEF None, Moments, Places
  <2>2. Forgotten \in [since : Moments, sent : BOOLEAN, contact : Moments, restored : BOOLEAN]
    BY <1>5, <2>1
  <2>3. rows \in Seq(Notes)
    BY <1>1
  <2> QED
    BY <1>1, <1>2, <1>6, <1>7, <2>1, <2>2, <2>3 DEF NTypeOK
<1>9. InHand /\ ForecastStages /\ OneCanonicalForecast
  BY <1>1, <1>3, <1>7 DEF InHand, ForecastStages, OneCanonicalForecast
<1>10. MarksAreTrue /\ StagesAreTrue /\ GapsAreTold
  BY <1>1, <1>3, <1>4 DEF MarksAreTrue, StagesAreTrue, GapsAreTold, None
<1>11. DeviceTimes /\ DeviceStory
  BY <1>1, <1>4, <1>5 DEF DeviceTimes, DeviceStory, ToldInTurns, OpenIsLast, BoxIsRight, Tells
<1>12. PushesOnce
  BY <1>1, <1>3 DEF PushesOnce, None
<1> QED
  BY <1>8, <1>9, <1>10, <1>11, <1>12 DEF NInv

LEMMA NoticesStep == NInv /\ [Next]_vars => NInv'
<1> SUFFICES ASSUME NInv, [Next]_vars PROVE NInv'
  OBVIOUS
<1>1. CASE Push
  BY <1>1, PushKeeps
<1>2. ASSUME NEW ok \in BOOLEAN, InsertRow(ok) \/ Restore(ok)
      PROVE  NInv'
  BY <1>2, InsertKeeps, RestoreKeeps
<1>3. ASSUME NEW ok \in BOOLEAN, Recovery(ok) \/ MarkRecovery(ok) \/ Digest(ok) \/ MarkDigest(ok)
      PROVE  NInv'
  BY <1>3, RecoveryKeeps, DigestKeeps
<1>4. ASSUME NEW ok \in BOOLEAN, CheckMark(ok) \/ CheckLedger(ok) \/ MarkCanonical(ok)
      PROVE  NInv'
  BY <1>4, CheckMarkKeeps, CheckLedgerKeeps, MarkCanonicalKeeps
<1>5. ASSUME NEW ok \in BOOLEAN, NEW solar \in BOOLEAN, AppendLedger(ok, solar)
      PROVE  NInv'
  BY <1>5, AppendLedgerKeeps
<1>6. CASE DeviceDetector
  BY <1>6, SilentKeeps, InContactKeeps DEF DeviceDetector
<1>7. CASE WindowClosed \/ StoreHealth \/ Crash
  BY <1>7, WindowClosedKeeps, StoreHealthKeeps, CrashKeeps
<1>8. ASSUME NEW heard \in BOOLEAN, Clock(heard)
      PROVE  NInv'
  BY <1>8, ClockKeeps
<1>9. CASE \/ Begin \/ NothingMissed \/ TooEarly \/ GatherFails \/ NoDigest \/ DigestFails
           \/ StoreBreaks \/ StoreHeals \/ \E heard \in BOOLEAN : Boot(heard)
  BY <1>9, PlainKeeps
<1>10. CASE UNCHANGED vars
  <2> USE <1>10 DEF vars, memory, stored, truth
  <2>1. NTypeOK' /\ InHand' /\ ForecastStages' /\ OneCanonicalForecast' /\ MarksAreTrue'
    BY RowsStay DEF NInv, NTypeOK, InHand, ForecastStages, OneCanonicalForecast, MarksAreTrue
  <2>2. StagesAreTrue' /\ GapsAreTold' /\ PushesOnce'
    BY RowsStay DEF NInv, StagesAreTrue, GapsAreTold, PushesOnce, Told
  <2>3. DeviceTimes' /\ DeviceStory'
    BY RowsStay DEF NInv, DeviceTimes, DeviceStory, Distinct, BoxIsRight, Tells, DeviceNoticesKept
  <2> QED
    BY <2>1, <2>2, <2>3 DEF NInv
<1> QED
  BY <1>1, <1>2, <1>3, <1>4, <1>5, <1>6, <1>7, <1>8, <1>9, <1>10 DEF Next, Loop

(* Whatever is lost, retried or broken, and wherever the process dies: the *)
(* notification loop keeps its inductive invariant                         *)
(* (src/ems/web/api.py, _notify_loop).                                     *)
THEOREM NoticesInvariant == Spec => []NInv
<1> QED
  BY NoticesInit, NoticesStep, PTL DEF Spec

(* Tomorrow's forecast is on record at most once, and a mark that says a   *)
(* job is done is never set before the job (_run_canonical_forecast_cycle, *)
(* _run_recovery, _run_weekly_digest).                                     *)
THEOREM ForecastIsOnRecord == Spec => []ForecastOnRecord
<1>1. NInv => ForecastOnRecord
  BY DEF NInv, ForecastOnRecord
<1> QED
  BY <1>1, NoticesInvariant, PTL

(* A missing forecast is told of every day whose window closed, and of no  *)
(* other, unless the process was new that day.                             *)
THEOREM GapsAreAlwaysTold == Spec => []GapsAreTold
<1>1. NInv => GapsAreTold
  BY DEF NInv
<1> QED
  BY <1>1, NoticesInvariant, PTL

(* An outage is told once and its end once, in turns, over any number of   *)
(* restarts, and nobody is pushed the same thing twice (device_unreachable,*)
(* open_incidents_from_notifications, Notifier.send).                      *)
THEOREM OutagesAreToldOnce == Spec => []ToldOnce
<1>1. NInv => ToldOnce
  BY DEF NInv, ToldOnce, DeviceStory, PushesOnce
<1> QED
  BY <1>1, NoticesInvariant, PTL
-----------------------------------------------------------------------------
(* The daily books.                                                        *)

LEMMA TimesKeeps ==
    ASSUME NEW p \in Nat, NEW a \in Int, NEW b \in Int, a <= b
    PROVE  p * a <= p * b
<1>1. p * (b - a) \in Nat
  OBVIOUS
<1> QED
  BY <1>1

LEMMA Dated ==
    ASSUME NEW t \in Int, NEW p \in Nat \ {0}, NEW d \in Int
    PROVE  t \div p >= d <=> t >= p * d
<1> DEFINE q == t \div p
           r == t % p
<1>1. q \in Int /\ r \in 0 .. p - 1 /\ t = p * q + r
  BY Calendar
<1> HIDE DEF q, r
<1>2. CASE q >= d
  <2>1. p * d <= p * q
    BY <1>1, <1>2, TimesKeeps
  <2> QED
    BY <1>1, <1>2, <2>1 DEF q
<1>3. CASE q + 1 <= d
  <2>1. p * (q + 1) <= p * d
    BY <1>1, <1>3, TimesKeeps
  <2>2. p * (q + 1) = p * q + p
    BY <1>1
  <2> QED
    BY <1>1, <1>3, <2>1, <2>2 DEF q
<1> QED
  BY <1>1, <1>2, <1>3

LEMMA BookDays ==
    /\ \A t \in Int : DateOf(t) \in Int
    /\ Dates \subseteq Nat /\ Ticks \subseteq Nat /\ \A t \in Ticks : DateOf(t) \in Dates
    /\ \A s, t \in Int : s <= t => DateOf(s) <= DateOf(t)
<1>1. DayTicks \in Nat \ {0} /\ LastTick \in Nat
  BY BooksAssumption
<1>2. ASSUME NEW t \in Int PROVE DateOf(t) \in Int
  BY <1>1, Calendar DEF DateOf
<1>3. ASSUME NEW t \in Nat PROVE DateOf(t) \in Nat
  BY <1>1 DEF DateOf
<1>4. ASSUME NEW s \in Int, NEW t \in Int, s <= t PROVE DateOf(s) <= DateOf(t)
  <2>1. s >= DayTicks * DateOf(s) /\ DayTicks * DateOf(s) \in Int
    BY <1>1, <1>2, Dated DEF DateOf
  <2>2. t >= DayTicks * DateOf(s)
    BY <1>4, <2>1
  <2>3. DateOf(t) >= DateOf(s)
    BY <1>1, <1>2, <2>2, Dated DEF DateOf
  <2> QED
    BY <1>2, <2>3
<1>5. Ticks \subseteq Nat
  BY <1>1 DEF Ticks
<1> QED
  BY <1>2, <1>3, <1>4, <1>5 DEF Dates

(* A sample in the recorder's hand is of today or of yesterday.            *)
LEMMA HeldIsRecent ==
    ASSUME NEW h \in Int, NEW c \in Int, c - h <= 2
    PROVE  DateOf(h) >= DateOf(c) - 1
<1>1. DayTicks \in Nat \ {0} /\ DayTicks > 1
  BY BooksAssumption
<1>2. DateOf(c) \in Int
  BY BookDays
<1>3. c >= DayTicks * DateOf(c)
  BY <1>1, <1>2, Dated DEF DateOf
<1>4. DayTicks * (DateOf(c) - 1) = DayTicks * DateOf(c) - DayTicks /\ DayTicks * DateOf(c) \in Int
  BY <1>1, <1>2
<1>5. h >= DayTicks * (DateOf(c) - 1)
  BY <1>1, <1>3, <1>4
<1> QED
  BY <1>1, <1>2, <1>5, Dated DEF DateOf

(* The retention keeps the samples of every day that a run may look at.    *)
LEMMA LookbackIsKept ==
    ASSUME NEW t \in Int, NEW c \in Int, DateOf(t) >= DateOf(c) - Lookback
    PROVE  t >= c - Retention * DayTicks
<1> DEFINE D == DateOf(c)
<1>1. DayTicks \in Nat \ {0} /\ Lookback \in Nat /\ Retention \in Nat /\ Lookback + 1 <= Retention
  BY BooksAssumption
<1>2. D \in Int /\ DateOf(t) \in Int
  BY BookDays
<1>3. t >= DayTicks * (D - Lookback)
  BY <1>1, <1>2, Dated DEF DateOf
<1>4. ~(D >= D + 1)
  BY <1>2
<1>5. ~(c >= DayTicks * (D + 1))
  BY <1>1, <1>2, <1>4, Dated DEF DateOf
<1> HIDE DEF D
<1>6. DayTicks * (D + 1 - Retention) <= DayTicks * (D - Lookback)
  BY <1>1, <1>2, TimesKeeps
<1>7. /\ DayTicks * (D + 1 - Retention) = DayTicks * (D + 1) - Retention * DayTicks
      /\ DayTicks * (D + 1) \in Int /\ Retention * DayTicks \in Int /\ DayTicks * (D - Lookback) \in Int
  BY <1>1, <1>2
<1> QED
  BY <1>3, <1>5, <1>6, <1>7

Pending == [at : {"idle", "raw", "row", "persist"}, day : Int, of : SUBSET Ticks]
Running == [at : Stages, today : Int, day : Int, had : SUBSET Dates, priced : SUBSET Dates]

LEMMA NothingAsked ==
    NoAsk \in Pending /\ NoAsk.at = "idle" /\ Asleep \in Running /\ Asleep.at = "asleep"
  BY DEF NoAsk, Asleep, Pending, Running, Blank, Stages

(* The days that a run looks back on, and the samples it finds of them.    *)
LEMMA DaysInHand ==
    ASSUME BooksInv
    PROVE  /\ clock \in Int /\ DateOf(clock) \in Int /\ Lookback \in Nat \ {0} /\ Dates \subseteq Nat
           /\ loop.today \in Int /\ loop.day \in Int
           /\ loop.at # "asleep" =>
                 /\ loop.today = DateOf(clock) /\ loop.today - Lookback <= loop.day
                 /\ loop.day < loop.today /\ Of(due, loop.day) \subseteq Of(raw, loop.day)
           /\ \A samples : samples \subseteq Ticks => \A d : Of(samples, d) # {} => d \in Dates
           /\ raw \subseteq Ticks /\ obs \subseteq Ticks /\ due \subseteq Ticks
<1>1. BooksTypeOK /\ RunsTogether
  BY DEF BooksInv
<1>2. clock \in Int /\ DateOf(clock) \in Int /\ Dates \subseteq Nat
  BY <1>1, BookDays DEF BooksTypeOK
<1>3. loop.today \in Int /\ loop.day \in Int
  BY <1>1 DEF BooksTypeOK
<1>4. \A samples : samples \subseteq Ticks => \A d : Of(samples, d) # {} => d \in Dates
  BY BookDays DEF Of
<1>5. raw \subseteq Ticks /\ obs \subseteq Ticks /\ due \subseteq Ticks
  BY <1>1 DEF BooksTypeOK
<1>6. Lookback \in Nat \ {0}
  BY BooksAssumption
<1>7. loop.at # "asleep" =>
         /\ loop.today = DateOf(clock) /\ loop.day \in loop.today - Lookback .. loop.today - 1
         /\ due \subseteq raw
  BY <1>1 DEF RunsTogether, completed_lookback_days
<1> QED
  BY <1>2, <1>3, <1>4, <1>5, <1>6, <1>7 DEF Of

(* A step that leaves the roll-up loop where it is.                        *)
LEMMA LoopAside ==
    ASSUME BooksInv, UNCHANGED <<loop, due, clean, clock, energy>>,
           asks'["loop"].at # "idle" <=> asks["loop"].at # "idle",
           asks'["loop"].day = asks["loop"].day,
           \A a \in Askers : asks'[a].at # "idle" => asks'[a].day \in Dates,
           loop.at # "asleep" => due \subseteq raw',
           held' # Blank => clock - held' <= 2,
           Priced \subseteq Priced', obs \subseteq obs'
    PROVE  RunsTogether' /\ RunAdvances'
<1>1. Booked' = Booked
  BY DEF Booked
<1>2. RunsTogether'
  BY <1>1 DEF BooksInv, RunsTogether
<1>3. \A d : Settled(d) => Settled(d)'
  BY <1>1 DEF Settled, Refreshed
<1>4. \A d : Refreshed(d)' = Refreshed(d)
  BY DEF Refreshed
<1>5. RunAdvances
  BY DEF BooksInv
<1>6. RunAdvances'
  BY <1>1, <1>3, <1>4, <1>5 DEF RunAdvances
<1> QED
  BY <1>2, <1>6

LEMMA StillBacked ==
    ASSUME BooksInv, UNCHANGED <<clock, energy>>, obs \subseteq obs',
           \A t \in raw : DateOf(t) >= DateOf(clock) - Lookback => t \in raw'
    PROVE  EnergyIsBacked'
<1>1. Booked' = Booked
  BY DEF Booked
<1>2. EnergyIsBacked
  BY DEF BooksInv
<1> QED
  BY <1>1, <1>2 DEF EnergyIsBacked, Of

LEMMA StillAgree ==
    ASSUME BooksInv, UNCHANGED <<clock, finance>>,
           \A a \in Askers : asks'[a] = asks[a] \/ asks'[a].at \in {"idle", "raw"},
           \A d \in Int : d < DateOf(clock) - 1 /\ d >= DateOf(clock) - Lookback => Of(raw', d) = Of(raw, d)
    PROVE  AsksAgree'
<1>1. AsksAgree /\ asks \in [Askers -> Pending]
  BY DEF BooksInv, BooksTypeOK, Pending
<1>2. \A a \in Askers : asks[a].day \in Int
  BY <1>1 DEF Pending
<1> QED
  BY <1>1, <1>2 DEF AsksAgree

(* The recorder, a view and a restart leave the run alone.                 *)
LEMMA SampleKeeps == ASSUME BooksInv, Sample PROVE BooksInv'
<1>1. /\ held' = clock
      /\ UNCHANGED <<clock, raw, obs, energy, finance, version, loop, asks, wake, due, clean>>
  BY DEF Sample, books, ghosts
<1>2. BooksTypeOK'
  BY <1>1 DEF BooksInv, BooksTypeOK
<1>3. RunsTogether' /\ RunAdvances'
  <2>1. clock - held' <= 2
    BY <1>1, DaysInHand
  <2>2. Priced' = Priced
    BY <1>1 DEF Priced
  <2> QED
    BY <1>1, <2>1, <2>2, LoopAside DEF BooksInv, RunsTogether
<1>4. EnergyIsBacked' /\ AsksAgree'
  BY <1>1, StillBacked, StillAgree
<1> QED
  BY <1>2, <1>3, <1>4 DEF BooksInv

LEMMA RecordKeeps == ASSUME BooksInv, Record PROVE BooksInv'
<1>1. /\ held # Blank /\ raw' = raw \union {held} /\ held' = Blank
      /\ UNCHANGED <<clock, obs, energy, finance, version, loop, asks, wake, due, clean>>
  BY DEF Record, books, ghosts
<1>2. held \in Ticks /\ held \in Int /\ clock - held <= 2
  BY <1>1, BookDays DEF BooksInv, BooksTypeOK, RunsTogether
<1>3. BooksTypeOK'
  BY <1>1, <1>2 DEF BooksInv, BooksTypeOK
<1>4. RunsTogether' /\ RunAdvances'
  <2>1. Priced' = Priced
    BY <1>1 DEF Priced
  <2> QED
    BY <1>1, <2>1, LoopAside DEF BooksInv, RunsTogether
<1>5. EnergyIsBacked'
  BY <1>1, StillBacked
<1>6. AsksAgree'
  <2>1. DateOf(held) >= DateOf(clock) - 1 /\ DateOf(held) \in Int /\ DateOf(clock) \in Int
    BY <1>2, HeldIsRecent, BookDays, DaysInHand
  <2>2. \A d \in Int : d < DateOf(clock) - 1 => DateOf(held) # d
    BY <2>1
  <2>3. \A d \in Int : d < DateOf(clock) - 1 => Of(raw', d) = Of(raw, d)
    BY <1>1, <2>2 DEF Of
  <2> QED
    BY <1>1, <2>3, StillAgree
<1> QED
  BY <1>3, <1>4, <1>5, <1>6 DEF BooksInv

LEMMA PurgeKeeps == ASSUME BooksInv, Purge PROVE BooksInv'
<1>1. /\ raw' = {t \in raw : t >= Cutoff}
      /\ UNCHANGED <<clock, held, obs, energy, finance, version, loop, asks, wake, due, clean>>
  BY DEF Purge, books, ghosts
<1>2. \A t \in raw : DateOf(t) >= DateOf(clock) - Lookback => t \in raw'
  <2>1. \A t \in raw : t \in Int
    <3>1. raw \subseteq Ticks
      BY DaysInHand
    <3>2. Ticks \subseteq Nat
      BY BookDays
    <3> QED
      BY <3>1, <3>2
  <2> QED
    BY <1>1, <2>1, LookbackIsKept, DaysInHand DEF Cutoff
<1>3. raw' \subseteq raw
  BY <1>1
<1>4. BooksTypeOK'
  BY <1>1, <1>3 DEF BooksInv, BooksTypeOK
<1>5. RunsTogether' /\ RunAdvances'
  <2>1. loop.at # "asleep" => due \subseteq raw'
    BY <1>2 DEF BooksInv, RunsTogether
  <2>2. Priced' = Priced
    BY <1>1 DEF Priced
  <2> QED
    BY <1>1, <2>1, <2>2, LoopAside DEF BooksInv, RunsTogether
<1>6. EnergyIsBacked'
  BY <1>1, <1>2, StillBacked
<1>7. \A d \in Int : d >= DateOf(clock) - Lookback => Of(raw', d) = Of(raw, d)
  BY <1>2, <1>3 DEF Of
<1>8. AsksAgree'
  BY <1>1, <1>7, StillAgree
<1> QED
  BY <1>4, <1>5, <1>6, <1>8 DEF BooksInv

LEMMA StartKeeps == ASSUME BooksInv, NEW upgrade \in BOOLEAN, StartProcess(upgrade) PROVE BooksInv'
<1>1. /\ wake' = clock /\ version' \in {version, version + 1}
      /\ UNCHANGED <<clock, held, raw, obs, energy, finance, loop, asks, due, clean>>
  BY DEF StartProcess, books, ghosts
<1>2. BooksTypeOK'
  <2>1. clock \in Nat /\ version' \in Nat \ {0}
    BY <1>1, BookDays DEF BooksInv, BooksTypeOK
  <2> QED
    BY <1>1, <2>1 DEF BooksInv, BooksTypeOK
<1>3. RunsTogether' /\ RunAdvances'
  <2>1. Priced' = Priced
    BY <1>1 DEF Priced
  <2> QED
    BY <1>1, <2>1, LoopAside DEF BooksInv, RunsTogether
<1>4. EnergyIsBacked' /\ AsksAgree'
  BY <1>1, StillBacked, StillAgree
<1> QED
  BY <1>2, <1>3, <1>4 DEF BooksInv

LEMMA StopKeeps == ASSUME BooksInv, StopProcess PROVE BooksInv'
<1>1. /\ wake' = Blank /\ held' = Blank /\ loop' = Asleep /\ asks' = [a \in Askers |-> NoAsk]
      /\ clean' = FALSE
      /\ UNCHANGED <<clock, raw, obs, energy, finance, version, due>>
  BY DEF StopProcess, books
<1>2. BooksTypeOK'
  BY <1>1, NothingAsked DEF BooksInv, BooksTypeOK, Pending, Running
<1>3. RunsTogether' /\ RunAdvances'
  BY <1>1, NothingAsked DEF RunsTogether, RunAdvances, Askers
<1>4. EnergyIsBacked' /\ AsksAgree'
  BY <1>1, NothingAsked, StillBacked, StillAgree
<1> QED
  BY <1>2, <1>3, <1>4 DEF BooksInv

LEMMA TimeKeeps == ASSUME BooksInv, TimePasses PROVE BooksInv'
<1>1. /\ clock < LastTick /\ loop.at = "asleep" /\ asks["view"].at = "idle"
      /\ held # Blank => clock - held <= 1
      /\ clock' = clock + 1
      /\ UNCHANGED <<held, raw, obs, energy, finance, version, loop, asks, wake, due, clean>>
  BY DEF TimePasses, books, ghosts
<1>2. clock \in Nat /\ LastTick \in Nat /\ clock' \in Ticks /\ clock' \in Int
  BY <1>1, BookDays, BooksAssumption DEF BooksInv, BooksTypeOK, Ticks
<1>3. BooksTypeOK'
  BY <1>1, <1>2 DEF BooksInv, BooksTypeOK
<1>4. asks["loop"].at = "idle" /\ \A a \in Askers : asks[a].at = "idle"
  BY <1>1 DEF BooksInv, RunsTogether, Askers
<1>5. RunsTogether'
  <2>1. held # Blank => clock' - held <= 2
    BY <1>1, <1>2, BookDays DEF BooksInv, BooksTypeOK
  <2> QED
    BY <1>1, <1>4, <2>1 DEF BooksInv, RunsTogether
<1>6. Booked' = Booked /\ Priced' = Priced
  BY <1>1 DEF Booked, Priced
<1>7. RunAdvances'
  <2>1. \A d : Settled(d)' = Settled(d)
    BY <1>1, <1>6 DEF Settled, Refreshed
  <2> QED
    BY <1>1, <2>1 DEF BooksInv, RunAdvances
<1>8. EnergyIsBacked'
  <2>1. DateOf(clock) <= DateOf(clock') /\ DateOf(clock) \in Int /\ DateOf(clock') \in Int
    BY <1>1, <1>2, BookDays
  <2>2. \A d \in Booked : d >= DateOf(clock') - Lookback => d >= DateOf(clock) - Lookback
    BY <2>1, DaysInHand, BooksAssumption DEF Booked
  <2> QED
    BY <1>1, <1>6, <2>2 DEF BooksInv, EnergyIsBacked
<1>9. AsksAgree'
  BY <1>1, <1>4 DEF AsksAgree
<1> QED
  BY <1>3, <1>5, <1>7, <1>8, <1>9 DEF BooksInv

(* A day of a run is done: the run goes on with the next, or ends.         *)
LEMMA NextDayTo ==
    ASSUME BooksInv, loop.at # "asleep", NEW whole \in BOOLEAN, NextDay(whole)
    PROVE  /\ loop' \in Running /\ loop'.today = loop.today /\ clean' = whole
           /\ wake' \in Nat \union {Blank}
           /\ \/ /\ loop'.at = "look" /\ loop'.day = loop.day + 1 /\ loop.day + 1 < loop.today
                 /\ loop'.had = loop.had /\ loop'.priced = loop.priced
              \/ loop'.at = "asleep" /\ loop.day = loop.today - 1
<1>1. loop \in Running /\ wake \in Nat \union {Blank} /\ clock \in Ticks
  BY DEF BooksInv, BooksTypeOK, Running
<1>2. loop.today \in Int /\ loop.day \in Int /\ loop.day < loop.today
  BY DaysInHand
<1>3. CASE loop.day + 1 < loop.today
  <2>1. loop' = [loop EXCEPT !.at = "look", !.day = loop.day + 1] /\ wake' = wake /\ clean' = whole
    BY <1>3 DEF NextDay
  <2>2. "look" \in Stages /\ loop.day + 1 \in Int
    BY <1>2 DEF Stages
  <2>3. /\ loop' \in Running /\ loop'.at = "look" /\ loop'.day = loop.day + 1
        /\ loop'.today = loop.today /\ loop'.had = loop.had /\ loop'.priced = loop.priced
    BY <1>1, <2>1, <2>2 DEF Running
  <2> QED
    BY <1>1, <1>3, <2>1, <2>3
<1>4. CASE ~(loop.day + 1 < loop.today)
  <2>1. /\ loop' = [Asleep EXCEPT !.today = loop.today] /\ clean' = whole
        /\ wake' = seconds_until_next_rollup(clock)
    BY <1>4 DEF NextDay, EndRun
  <2>2. wake' \in Nat
    <3>1. DateOf(clock) \in Nat /\ DayTicks \in Nat /\ DayTicks * DateOf(clock) \in Nat
      BY <1>1, BookDays, BooksAssumption
    <3>2. \A n \in Nat : n * DayTicks + 1 \in Nat
      BY <3>1
    <3> QED
      BY <2>1, <3>1, <3>2 DEF seconds_until_next_rollup
  <2>3. loop' \in Running /\ loop'.today = loop.today /\ loop'.at = "asleep"
    BY <1>2, <2>1, NothingAsked DEF Asleep, Running
  <2> QED
    BY <1>2, <1>4, <2>1, <2>2, <2>3
<1> QED
  BY <1>3, <1>4

LEMMA NextDayKeeps ==
    ASSUME BooksInv, loop.at # "asleep", NEW whole \in BOOLEAN, NextDay(whole),
           UNCHANGED <<clock, held, raw, due>>,
           asks'["loop"].at = "idle",
           \A a \in Askers : asks'[a].at # "idle" => asks'[a].day \in Dates,
           Booked \subseteq Booked', Priced \subseteq Priced',
           \A d \in Int : d # loop.day => energy'[d] = energy[d],
           whole => clean,
           whole /\ Of(due, loop.day) # {} =>
              /\ loop.day \in Booked' /\ loop.day \in Priced'
              /\ loop.day = loop.today - 1 => /\ Of(due, loop.day) \subseteq energy'[loop.day].flows
                                              /\ Of(due, loop.day) \subseteq energy'[loop.day].loads
    PROVE  RunsTogether' /\ RunAdvances'
<1>1. /\ loop' \in Running /\ loop'.today = loop.today /\ clean' = whole
      /\ \/ /\ loop'.at = "look" /\ loop'.day = loop.day + 1 /\ loop.day + 1 < loop.today
            /\ loop'.had = loop.had /\ loop'.priced = loop.priced
         \/ loop'.at = "asleep" /\ loop.day = loop.today - 1
  BY NextDayTo
<1>2. /\ loop.today \in Int /\ loop.day \in Int /\ Lookback \in Nat
      /\ loop.today = DateOf(clock) /\ loop.today - Lookback <= loop.day /\ loop.day < loop.today
  BY DaysInHand
<1>3. RunsTogether /\ RunAdvances
  BY DEF BooksInv
<1>4. RunsTogether'
  <2>1. loop'.at # "asleep" =>
           /\ loop'.today = DateOf(clock) /\ loop'.day \in completed_lookback_days(loop'.today)
           /\ loop'.had \subseteq Booked' /\ loop'.priced \subseteq Priced'
    BY <1>1, <1>2, <1>3 DEF RunsTogether, completed_lookback_days
  <2> QED
    BY <1>1, <1>3, <2>1 DEF RunsTogether
<1>5. ASSUME whole, NEW d \in loop.today - Lookback .. loop.today - 1,
             loop'.at = "asleep" \/ d < loop'.day
      PROVE  Settled(d)'
  <2>1. d \in Int /\ (d < loop.day \/ d = loop.day)
    BY <1>1, <1>2, <1>5
  <2>2. CASE d = loop.day
    BY <1>1, <1>5, <2>2 DEF Settled, Refreshed
  <2>3. CASE d < loop.day
    <3>1. Settled(d)
      BY <1>3, <1>5, <2>3 DEF RunAdvances, completed_lookback_days
    <3>2. d # loop'.today - 1
      BY <1>1, <1>2, <2>1, <2>3
    <3> QED
      BY <3>1, <3>2 DEF Settled, Refreshed
  <2> QED
    BY <2>1, <2>2, <2>3
<1>6. RunAdvances'
  BY <1>1, <1>5 DEF RunAdvances, completed_lookback_days
<1> QED
  BY <1>4, <1>6

LEMMA BeginRunKeeps == ASSUME BooksInv, BeginRun PROVE BooksInv'
<1>1. /\ loop.at = "asleep"
      /\ due' = {t \in raw : DateOf(t) \in completed_lookback_days(DateOf(clock))}
      /\ loop' = [at |-> "look", today |-> DateOf(clock), day |-> DateOf(clock) - Lookback,
                  had |-> Booked, priced |-> Priced]
      /\ clean' = TRUE
      /\ UNCHANGED <<clock, held, raw, obs, energy, finance, version, asks, wake>>
  BY DEF BeginRun, books
<1>2. DateOf(clock) \in Int /\ Lookback \in Nat \ {0} /\ raw \subseteq Ticks
  BY DaysInHand
<1>3. Booked' = Booked /\ Priced' = Priced /\ Booked \subseteq Dates /\ Priced \subseteq Dates
  BY <1>1 DEF Booked, Priced
<1>4. BooksTypeOK'
  <2>1. loop' \in Running
    BY <1>1, <1>2, <1>3 DEF Running, Stages
  <2>2. due' \subseteq Ticks
    BY <1>1, <1>2
  <2> QED
    BY <1>1, <2>1, <2>2 DEF BooksInv, BooksTypeOK, Running
<1>5. RunsTogether'
  <2>1. due' \subseteq raw /\ \A t \in due' : DateOf(t) >= DateOf(clock) - Lookback
    BY <1>1, <1>2 DEF completed_lookback_days
  <2>2. DateOf(clock) - Lookback \in completed_lookback_days(DateOf(clock))
    BY <1>2 DEF completed_lookback_days
  <2> QED
    BY <1>1, <1>3, <2>1, <2>2 DEF BooksInv, RunsTogether
<1>6. RunAdvances'
  <2>1. \A d \in completed_lookback_days(DateOf(clock)) : ~(d < DateOf(clock) - Lookback)
    BY <1>2 DEF completed_lookback_days
  <2> QED
    BY <1>1, <2>1 DEF RunAdvances
<1>7. EnergyIsBacked' /\ AsksAgree'
  BY <1>1, StillBacked, StillAgree
<1> QED
  BY <1>4, <1>5, <1>6, <1>7 DEF BooksInv

(* The loop asks for the finance row of the day in hand.                   *)
LEMMA AskKeeps ==
    ASSUME BooksInv, loop.at \in {"look", "energy"}, loop.day \in Dates,
           loop' = [loop EXCEPT !.at = "finance"],
           asks' = [asks EXCEPT !["loop"] = [NoAsk EXCEPT !.at = "raw", !.day = loop.day]],
           UNCHANGED <<clock, held, raw, due, clean, finance, wake>>,
           Booked \subseteq Booked',
           \A d \in Int : d # loop.day => energy'[d] = energy[d],
           Of(due, loop.day) # {} =>
              /\ loop.day \in Booked'
              /\ loop.day = loop.today - 1 => /\ Of(due, loop.day) \subseteq energy'[loop.day].flows
                                              /\ Of(due, loop.day) \subseteq energy'[loop.day].loads
    PROVE  /\ loop' \in Running /\ asks' \in [Askers -> Pending]
           /\ RunsTogether' /\ RunAdvances' /\ AsksAgree'
<1>1. /\ BooksTypeOK /\ RunsTogether /\ RunAdvances
      /\ loop \in Running /\ asks \in [Askers -> Pending] /\ loop.day \in Int /\ loop.today \in Int
  BY DaysInHand DEF BooksInv, BooksTypeOK, Running, Pending
<1>2. /\ loop' \in Running /\ loop'.at = "finance" /\ loop'.today = loop.today /\ loop'.day = loop.day
      /\ loop'.had = loop.had /\ loop'.priced = loop.priced
  BY <1>1 DEF Running, Stages
<1>3. /\ asks' \in [Askers -> Pending] /\ asks'["loop"].at = "raw" /\ asks'["loop"].day = loop.day
      /\ \A a \in Askers : a # "loop" => asks'[a] = asks[a]
  BY <1>1, NothingAsked DEF Pending, Askers, NoAsk
<1>4. Priced' = Priced
  BY DEF Priced
<1>5. RunsTogether'
  BY <1>1, <1>2, <1>3, <1>4 DEF RunsTogether
<1>6. RunAdvances'
  <2>1. ASSUME NEW d \in loop.today - Lookback .. loop.today - 1, d < loop.day, Settled(d) PROVE Settled(d)'
    <3>1. d \in Int /\ d # loop.day /\ d # loop.today - 1
      BY <1>1, <2>1, DaysInHand
    <3> QED
      BY <1>2, <1>4, <2>1, <3>1 DEF Settled, Refreshed
  <2> QED
    BY <1>1, <1>2, <2>1 DEF RunAdvances, Refreshed, completed_lookback_days
<1>7. AsksAgree'
  <2>1. \A a \in Askers : asks'[a] = asks[a] \/ asks'[a].at \in {"idle", "raw"}
    BY <1>3
  <2> QED
    BY <2>1, StillAgree
<1> QED
  BY <1>2, <1>3, <1>5, <1>6, <1>7

LEMMA LookKeeps == ASSUME BooksInv, Look PROVE BooksInv'
<1>1. /\ loop.at = "look"
      /\ UNCHANGED <<clock, held, raw, obs, energy, finance, version, due>>
  BY DEF Look, books
<1>2. /\ BooksTypeOK /\ RunsTogether /\ RunAdvances /\ EnergyIsBacked /\ AsksAgree
      /\ loop \in Running /\ asks \in [Askers -> Pending]
  BY DEF BooksInv, BooksTypeOK, Running, Pending
<1>3. /\ loop.today \in Int /\ loop.day \in Int /\ Of(due, loop.day) \subseteq Of(raw, loop.day)
      /\ Of(raw, loop.day) # {} => loop.day \in Dates
      /\ loop.had \subseteq Booked /\ loop.priced \subseteq Priced
  BY <1>1, <1>2, DaysInHand DEF RunsTogether
<1>4. Booked' = Booked /\ Priced' = Priced /\ Priced \subseteq Dates
  BY <1>1 DEF Booked, Priced
<1>5. EnergyIsBacked'
  BY <1>1, StillBacked
<1>6. CASE NeedsEnergy
  <2>1. /\ loop' = [loop EXCEPT !.at = IF NeedsFinance THEN "obs" ELSE "obs_only"]
        /\ asks' = asks /\ wake' = wake /\ clean' = clean
    BY <1>6 DEF Look
  <2>2. Of(raw, loop.day) # {} /\ loop.day \in Dates
    BY <1>3, <1>6 DEF NeedsEnergy, HasSamples
  <2>3. /\ loop' \in Running /\ loop'.at \in {"obs", "obs_only"} /\ loop'.day = loop.day
        /\ loop'.today = loop.today /\ loop'.had = loop.had /\ loop'.priced = loop.priced
        /\ loop'.at = "obs_only" => ~NeedsFinance
    BY <1>2, <2>1 DEF Running, Stages
  <2>4. ~NeedsFinance => loop.day \in Priced
    BY <1>3, <2>2 DEF NeedsFinance, HasSamples
  <2>5. BooksTypeOK'
    BY <1>1, <1>2, <2>1, <2>3 DEF BooksTypeOK, Running
  <2>6. RunsTogether'
    BY <1>1, <1>2, <1>4, <2>1, <2>2, <2>3 DEF RunsTogether
  <2>7. RunAdvances'
    <3>1. \A d : Settled(d)' = Settled(d)
      BY <1>1, <1>4, <2>3 DEF Settled, Refreshed
    <3> QED
      BY <1>1, <1>2, <1>4, <2>1, <2>3, <2>4, <3>1 DEF RunAdvances
  <2>8. AsksAgree'
    BY <1>1, <2>1, StillAgree
  <2> QED
    BY <1>5, <2>5, <2>6, <2>7, <2>8 DEF BooksInv
<1>7. CASE ~NeedsEnergy
  <2>1. Of(due, loop.day) # {} => loop.day \in Booked /\ loop.day # loop.today - 1
    BY <1>3, <1>7 DEF NeedsEnergy, HasSamples, IsYesterday
  <2>2. CASE NeedsFinance
    <3>1. /\ loop' = [loop EXCEPT !.at = "finance"]
          /\ asks' = [asks EXCEPT !["loop"] = [NoAsk EXCEPT !.at = "raw", !.day = loop.day]]
          /\ UNCHANGED <<wake, clean>>
      BY <1>7, <2>2 DEF Look
    <3>2. loop.day \in Dates
      BY <1>3, <1>4, <2>2 DEF NeedsFinance, HasSamples
    <3>3. /\ loop' \in Running /\ asks' \in [Askers -> Pending]
          /\ RunsTogether' /\ RunAdvances' /\ AsksAgree'
      BY <1>1, <1>4, <2>1, <3>1, <3>2, AskKeeps
    <3>4. BooksTypeOK'
      BY <1>1, <1>2, <3>1, <3>3 DEF BooksTypeOK, Running, Pending
    <3> QED
      BY <1>5, <3>3, <3>4 DEF BooksInv
  <2>3. CASE ~NeedsFinance
    <3>1. NextDay(clean) /\ asks' = asks /\ clean \in BOOLEAN
      BY <1>2, <1>7, <2>3 DEF Look, BooksTypeOK
    <3>2. Of(due, loop.day) # {} => loop.day \in Priced
      BY <1>3, <2>3 DEF NeedsFinance, HasSamples
    <3>3. asks["loop"].at = "idle" /\ \A a \in Askers : asks[a].at # "idle" => asks[a].day \in Dates
      BY <1>1, <1>2 DEF RunsTogether
    <3>4. RunsTogether' /\ RunAdvances'
      BY <1>1, <1>4, <2>1, <3>1, <3>2, <3>3, NextDayKeeps
    <3>5. loop' \in Running /\ clean' \in BOOLEAN /\ wake' \in Nat \union {Blank}
      BY <1>1, <3>1, NextDayTo
    <3>6. BooksTypeOK'
      BY <1>1, <1>2, <3>1, <3>5 DEF BooksTypeOK, Running
    <3>7. AsksAgree'
      BY <1>1, <3>1, StillAgree
    <3> QED
      BY <1>5, <3>4, <3>6, <3>7 DEF BooksInv
  <2> QED
    BY <2>2, <2>3
<1> QED
  BY <1>6, <1>7

LEMMA ObservationsKeep == ASSUME BooksInv, materialize_observations PROVE BooksInv'
<1>1. /\ loop.at \in {"obs", "obs_only"} /\ obs' = obs \union Of(raw, loop.day)
      /\ loop' = [loop EXCEPT !.at = IF loop.at = "obs" THEN "energy" ELSE "energy_only"]
      /\ UNCHANGED <<clock, held, raw, energy, finance, version, asks, wake, due, clean>>
  BY DEF materialize_observations, ghosts
<1>2. /\ BooksTypeOK /\ RunsTogether /\ RunAdvances /\ EnergyIsBacked /\ loop \in Running
  BY DEF BooksInv, BooksTypeOK, Running
<1>3. /\ loop' \in Running /\ loop'.at \in {"energy", "energy_only"} /\ loop'.day = loop.day
      /\ loop'.today = loop.today /\ loop'.had = loop.had /\ loop'.priced = loop.priced
      /\ loop'.at = "energy_only" => loop.at = "obs_only"
  BY <1>1, <1>2 DEF Running, Stages
<1>4. Booked' = Booked /\ Priced' = Priced
  BY <1>1 DEF Booked, Priced
<1>5. BooksTypeOK'
  <2>1. obs' \subseteq Ticks
    BY <1>1, DaysInHand DEF Of
  <2> QED
    BY <1>1, <1>2, <1>3, <2>1 DEF BooksTypeOK, Running
<1>6. RunsTogether'
  BY <1>1, <1>2, <1>3, <1>4 DEF RunsTogether
<1>7. RunAdvances'
  <2>1. \A d : Settled(d)' = Settled(d)
    BY <1>1, <1>3, <1>4 DEF Settled, Refreshed
  <2>2. Of(due, loop.day) \subseteq obs'
    BY <1>1, DaysInHand
  <2> QED
    BY <1>1, <1>2, <1>3, <1>4, <2>1, <2>2 DEF RunAdvances
<1>8. EnergyIsBacked' /\ AsksAgree'
  BY <1>1, StillBacked, StillAgree
<1> QED
  BY <1>5, <1>6, <1>7, <1>8 DEF BooksInv

(* The row of energy of the day in hand, and what it replaces.             *)
LEMMA EnergyRow ==
    ASSUME BooksInv, materialize_daily_energy
    PROVE  /\ loop.day \in Dates /\ loop.day \in Int
           /\ energy' \in [Dates -> [flows : Samples, loads : Samples]]
           /\ energy'[loop.day] = [flows |-> Of(raw, loop.day), loads |-> Of(obs, loop.day)]
           /\ \A d \in Int : d # loop.day => energy'[d] = energy[d]
           /\ Booked' = Booked \union {loop.day}
           /\ Of(due, loop.day) \subseteq Of(raw, loop.day) /\ Of(due, loop.day) \subseteq Of(obs, loop.day)
<1>1. /\ loop.at \in {"energy", "energy_only"}
      /\ energy' = [energy EXCEPT ![loop.day] = [flows |-> Of(raw, loop.day), loads |-> Of(obs, loop.day)]]
  BY DEF materialize_daily_energy
<1>2. loop.day \in Dates /\ loop.day \in Int /\ raw \subseteq Ticks /\ obs \subseteq Ticks
  BY <1>1, DaysInHand DEF BooksInv, RunsTogether
<1>3. energy \in [Dates -> [flows : Samples, loads : Samples]]
  BY DEF BooksInv, BooksTypeOK
<1>4. Of(raw, loop.day) \in Samples /\ Of(obs, loop.day) \in Samples
  BY <1>2 DEF Of, Samples
<1>5. /\ energy' \in [Dates -> [flows : Samples, loads : Samples]]
      /\ energy'[loop.day] = [flows |-> Of(raw, loop.day), loads |-> Of(obs, loop.day)]
      /\ \A d : d # loop.day => energy'[d] = energy[d]
  BY <1>1, <1>2, <1>3, <1>4
<1>6. energy'[loop.day] # Unbooked
  <2>1. Of(raw, loop.day) \subseteq Nat
    BY <1>2, BookDays DEF Of
  <2>2. Blank \notin Of(raw, loop.day)
    BY <2>1 DEF Blank
  <2>3. Of(raw, loop.day) # {Blank}
    BY <2>2
  <2> QED
    BY <1>5, <2>3 DEF Unbooked
<1>7. Booked' = Booked \union {loop.day}
  BY <1>2, <1>5, <1>6 DEF Booked
<1>8. Of(due, loop.day) \subseteq Of(raw, loop.day)
  BY <1>1, DaysInHand
<1>9. Of(due, loop.day) \subseteq Of(obs, loop.day)
  BY <1>1 DEF BooksInv, RunAdvances, Of
<1> QED
  BY <1>2, <1>5, <1>7, <1>8, <1>9

LEMMA EnergyKeeps == ASSUME BooksInv, materialize_daily_energy PROVE BooksInv'
<1>1. /\ loop.at \in {"energy", "energy_only"}
      /\ UNCHANGED <<clock, held, raw, obs, finance, version, due>>
  BY DEF materialize_daily_energy
<1>2. /\ BooksTypeOK /\ RunsTogether /\ RunAdvances /\ EnergyIsBacked /\ AsksAgree
      /\ loop \in Running /\ asks \in [Askers -> Pending]
  BY DEF BooksInv, BooksTypeOK, Running, Pending
<1>3. /\ loop.day \in Dates /\ loop.day \in Int
      /\ energy' \in [Dates -> [flows : Samples, loads : Samples]]
      /\ energy'[loop.day].flows = Of(raw, loop.day) /\ energy'[loop.day].loads = Of(obs, loop.day)
      /\ \A d \in Int : d # loop.day => energy'[d] = energy[d]
      /\ Booked' = Booked \union {loop.day}
      /\ Of(due, loop.day) \subseteq energy'[loop.day].flows
      /\ Of(due, loop.day) \subseteq energy'[loop.day].loads
  BY EnergyRow
<1>4. Priced' = Priced
  BY <1>1 DEF Priced
<1>5. EnergyIsBacked'
  <2> SUFFICES ASSUME NEW d \in Booked \union {loop.day}
               PROVE  /\ energy'[d].loads \subseteq Of(obs, d)
                      /\ d >= DateOf(clock) - Lookback => energy'[d].flows \subseteq Of(raw, d)
    BY <1>1, <1>3 DEF EnergyIsBacked
  <2>1. CASE d = loop.day
    BY <1>3, <2>1
  <2>2. CASE d # loop.day
    <3>1. d \in Booked /\ d \in Int
      BY <2>2, DaysInHand DEF Booked
    <3> QED
      BY <1>2, <1>3, <2>2, <3>1 DEF EnergyIsBacked
  <2> QED
    BY <2>1, <2>2
<1>6. CASE loop.at = "energy"
  <2>1. /\ loop' = [loop EXCEPT !.at = "finance"]
        /\ asks' = [asks EXCEPT !["loop"] = [NoAsk EXCEPT !.at = "raw", !.day = loop.day]]
        /\ UNCHANGED <<wake, clean>>
    BY <1>6 DEF materialize_daily_energy
  <2>2. /\ loop' \in Running /\ asks' \in [Askers -> Pending]
        /\ RunsTogether' /\ RunAdvances' /\ AsksAgree'
    BY <1>1, <1>3, <1>6, <2>1, AskKeeps
  <2>3. BooksTypeOK'
    BY <1>1, <1>2, <1>3, <2>1, <2>2 DEF BooksTypeOK, Running, Pending
  <2> QED
    BY <1>5, <2>2, <2>3 DEF BooksInv
<1>7. CASE loop.at = "energy_only"
  <2>1. NextDay(clean) /\ asks' = asks /\ clean \in BOOLEAN
    BY <1>2, <1>7 DEF materialize_daily_energy, BooksTypeOK
  <2>2. Of(due, loop.day) # {} => loop.day \in Priced
    BY <1>2, <1>7 DEF RunAdvances
  <2>3. asks["loop"].at = "idle" /\ \A a \in Askers : asks[a].at # "idle" => asks[a].day \in Dates
    BY <1>2, <1>7 DEF RunsTogether
  <2>4. RunsTogether' /\ RunAdvances'
    BY <1>1, <1>3, <1>4, <2>1, <2>2, <2>3, NextDayKeeps
  <2>5. loop' \in Running /\ clean' \in BOOLEAN /\ wake' \in Nat \union {Blank}
    BY <1>1, <2>1, NextDayTo
  <2>6. BooksTypeOK'
    BY <1>1, <1>2, <1>3, <2>1, <2>5 DEF BooksTypeOK, Running
  <2>7. AsksAgree'
    BY <1>1, <2>1, StillAgree
  <2> QED
    BY <1>5, <2>4, <2>6, <2>7 DEF BooksInv
<1> QED
  BY <1>1, <1>6, <1>7

LEMMA RunFailsKeeps == ASSUME BooksInv, RunFails PROVE BooksInv'
<1>1. /\ loop.at # "asleep" /\ asks' = [asks EXCEPT !["loop"] = NoAsk] /\ EndRun(FALSE)
      /\ UNCHANGED <<clock, held, raw, obs, energy, finance, version, due>>
  BY DEF RunFails, books
<1>2. /\ BooksTypeOK /\ RunsTogether /\ asks \in [Askers -> Pending] /\ loop.today \in Int
  BY DaysInHand DEF BooksInv, BooksTypeOK, Pending
<1>3. /\ asks' \in [Askers -> Pending] /\ asks'["loop"].at = "idle"
      /\ \A a \in Askers : asks'[a] = asks[a] \/ asks'[a].at = "idle"
  BY <1>1, <1>2, NothingAsked DEF Askers
<1>4. loop' \in Running /\ loop'.at = "asleep" /\ clean' = FALSE
  BY <1>1, <1>2, NothingAsked DEF EndRun, Asleep, Running
<1>5. wake' \in Nat
  <2>1. clock \in Ticks
    BY <1>2 DEF BooksTypeOK
  <2>2. DateOf(clock) \in Nat /\ DayTicks \in Nat
    BY <2>1, BookDays, BooksAssumption
  <2>3. \A n \in Nat : n * DayTicks + 1 \in Nat
    BY <2>2
  <2> QED
    BY <1>1, <2>2, <2>3 DEF EndRun, seconds_until_next_rollup
<1>6. BooksTypeOK'
  BY <1>1, <1>2, <1>3, <1>4, <1>5 DEF BooksTypeOK, Running, Pending
<1>7. RunsTogether' /\ RunAdvances'
  BY <1>1, <1>2, <1>3, <1>4 DEF RunsTogether, RunAdvances
<1>8. EnergyIsBacked' /\ AsksAgree'
  BY <1>1, <1>3, StillBacked, StillAgree
<1> QED
  BY <1>6, <1>7, <1>8 DEF BooksInv

(* The finance requests.                                                   *)
LEMMA ViewKeeps == ASSUME BooksInv, NEW d \in Dates, View(d) PROVE BooksInv'
<1>1. /\ asks' = [asks EXCEPT !["view"] = [NoAsk EXCEPT !.at = "raw", !.day = d]]
      /\ UNCHANGED <<clock, held, raw, obs, energy, finance, version, loop, wake, due, clean>>
  BY DEF View, books, ghosts
<1>2. /\ BooksTypeOK /\ RunsTogether /\ asks \in [Askers -> Pending] /\ d \in Int
  BY DaysInHand DEF BooksInv, BooksTypeOK, Pending
<1>3. /\ asks' \in [Askers -> Pending] /\ asks'["view"].at = "raw" /\ asks'["view"].day = d
      /\ asks'["loop"] = asks["loop"] /\ \A a \in Askers : a # "view" => asks'[a] = asks[a]
  BY <1>1, <1>2, NothingAsked DEF Askers, Pending, NoAsk
<1>4. BooksTypeOK'
  BY <1>1, <1>2, <1>3 DEF BooksTypeOK, Pending
<1>5. Priced' = Priced
  BY <1>1 DEF Priced
<1>6. RunsTogether' /\ RunAdvances'
  BY <1>1, <1>2, <1>3, <1>5, LoopAside DEF RunsTogether
<1>7. EnergyIsBacked' /\ AsksAgree'
  <2>1. \A a \in Askers : asks'[a] = asks[a] \/ asks'[a].at \in {"idle", "raw"}
    BY <1>3
  <2> QED
    BY <1>1, <2>1, StillBacked, StillAgree
<1> QED
  BY <1>4, <1>6, <1>7 DEF BooksInv

LEMMA ReadRawKeeps == ASSUME BooksInv, NEW a \in Askers, ReadRaw(a) PROVE BooksInv'
<1>1. /\ asks[a].at = "raw"
      /\ asks' = [asks EXCEPT ![a].at = "row", ![a].of = Of(raw, asks[a].day)]
      /\ UNCHANGED <<clock, held, raw, obs, energy, finance, version, loop, wake, due, clean>>
  BY DEF ReadRaw, books, ghosts
<1>2. /\ BooksTypeOK /\ RunsTogether /\ AsksAgree /\ asks \in [Askers -> Pending] /\ raw \subseteq Ticks
  BY DaysInHand DEF BooksInv, BooksTypeOK, Pending
<1>3. /\ asks' \in [Askers -> Pending] /\ asks'[a].at = "row" /\ asks'[a].day = asks[a].day
      /\ asks'[a].of = Of(raw, asks[a].day)
      /\ \A b \in Askers : b # a => asks'[b] = asks[b]
  <2>1. Of(raw, asks[a].day) \in SUBSET Ticks
    BY <1>2 DEF Of
  <2> QED
    BY <1>1, <1>2, <2>1 DEF Pending
<1>4. BooksTypeOK'
  BY <1>1, <1>2, <1>3 DEF BooksTypeOK, Pending
<1>5. Priced' = Priced
  BY <1>1 DEF Priced
<1>6. RunsTogether' /\ RunAdvances'
  <2>1. "loop" \in Askers
    BY DEF Askers
  <2>2. asks'["loop"].at # "idle" <=> asks["loop"].at # "idle"
    BY <1>1, <1>3, <2>1
  <2>3. asks'["loop"].day = asks["loop"].day
    BY <1>3, <2>1
  <2>4. \A b \in Askers : asks'[b].at # "idle" => asks'[b].day \in Dates
    BY <1>1, <1>2, <1>3 DEF RunsTogether
  <2> QED
    BY <1>1, <1>2, <1>5, <2>2, <2>3, <2>4, LoopAside DEF RunsTogether
<1>7. EnergyIsBacked'
  BY <1>1, StillBacked
<1>8. AsksAgree'
  BY <1>1, <1>2, <1>3 DEF AsksAgree
<1> QED
  BY <1>4, <1>6, <1>7, <1>8 DEF BooksInv

LEMMA ReadRowKeeps == ASSUME BooksInv, NEW a \in Askers, ReadRow(a) PROVE BooksInv'
<1>1. /\ asks[a].at = "row"
      /\ UNCHANGED <<clock, held, raw, obs, energy, finance, version, due>>
  BY DEF ReadRow, books
<1>2. /\ BooksTypeOK /\ RunsTogether /\ RunAdvances /\ AsksAgree /\ asks \in [Askers -> Pending]
      /\ asks[a].day \in Dates /\ "loop" \in Askers
  BY <1>1 DEF BooksInv, BooksTypeOK, Pending, RunsTogether, Askers
<1>3. Priced' = Priced /\ Booked' = Booked
  BY <1>1 DEF Priced, Booked
<1>4. EnergyIsBacked'
  BY <1>1, StillBacked
<1>5. CASE Served(asks[a])
  <2>1. /\ asks' = [asks EXCEPT ![a] = NoAsk]
        /\ IF a = "loop" THEN NextDay(clean /\ TRUE) ELSE UNCHANGED <<loop, wake, clean>>
    BY <1>5 DEF ReadRow, Answered
  <2>2. /\ asks' \in [Askers -> Pending] /\ asks'[a].at = "idle"
        /\ \A b \in Askers : b # a => asks'[b] = asks[b]
    BY <1>2, <2>1, NothingAsked
  <2>3. AsksAgree'
    BY <1>1, <2>2, StillAgree
  <2>4. \A b \in Askers : asks'[b].at # "idle" => asks'[b].day \in Dates
    BY <1>2, <2>2 DEF RunsTogether
  <2>5. CASE a = "loop"
    <3>1. /\ clean \in BOOLEAN /\ NextDay(clean) /\ loop.at = "finance" /\ asks["loop"].day = loop.day
      BY <1>1, <1>2, <2>1, <2>5 DEF BooksTypeOK, RunsTogether
    <3>2. finance[loop.day] # Unpriced
      BY <1>2, <1>5, <2>5, <3>1 DEF Served, BooksTypeOK, Unpriced, Blank
    <3>3. loop.day \in Priced
      BY <1>2, <2>5, <3>1, <3>2 DEF Priced
    <3>4. RunsTogether' /\ RunAdvances'
      BY <1>1, <1>2, <1>3, <2>2, <2>4, <2>5, <3>1, <3>3, NextDayKeeps DEF RunAdvances, Refreshed
    <3>5. loop' \in Running /\ clean' \in BOOLEAN /\ wake' \in Nat \union {Blank}
      BY <3>1, NextDayTo
    <3>6. BooksTypeOK'
      BY <1>1, <1>2, <2>2, <3>5 DEF BooksTypeOK, Running, Pending
    <3> QED
      BY <1>4, <2>3, <3>4, <3>6 DEF BooksInv
  <2>6. CASE a # "loop"
    <3>1. UNCHANGED <<loop, wake, clean>> /\ asks'["loop"] = asks["loop"]
      BY <1>2, <2>1, <2>2, <2>6
    <3>2. RunsTogether' /\ RunAdvances'
      BY <1>1, <1>2, <1>3, <2>4, <3>1, LoopAside DEF RunsTogether
    <3>3. BooksTypeOK'
      BY <1>1, <1>2, <2>2, <3>1 DEF BooksTypeOK, Pending
    <3> QED
      BY <1>4, <2>3, <3>2, <3>3 DEF BooksInv
  <2> QED
    BY <2>5, <2>6
<1>6. CASE ~Served(asks[a])
  <2>1. asks' = [asks EXCEPT ![a].at = "persist"] /\ UNCHANGED <<loop, wake, clean>>
    BY <1>6 DEF ReadRow
  <2>2. /\ asks' \in [Askers -> Pending] /\ asks'[a].at = "persist" /\ asks'[a].day = asks[a].day
        /\ asks'[a].of = asks[a].of
        /\ \A b \in Askers : b # a => asks'[b] = asks[b]
    BY <1>2, <2>1 DEF Pending
  <2>3. asks[a].of = {} => finance[asks[a].day] = Unpriced
    BY <1>6 DEF Served
  <2>4. AsksAgree'
    BY <1>1, <1>2, <2>2, <2>3 DEF AsksAgree
  <2>5. \A b \in Askers : asks'[b].at # "idle" => asks'[b].day \in Dates
    BY <1>2, <2>2 DEF RunsTogether
  <2>6. (asks'["loop"].at # "idle" <=> asks["loop"].at # "idle") /\ asks'["loop"].day = asks["loop"].day
    BY <1>1, <1>2, <2>2
  <2>7. RunsTogether' /\ RunAdvances'
    BY <1>1, <1>2, <1>3, <2>1, <2>5, <2>6, LoopAside DEF RunsTogether
  <2>8. BooksTypeOK'
    BY <1>1, <1>2, <2>1, <2>2 DEF BooksTypeOK, Pending
  <2> QED
    BY <1>4, <2>4, <2>7, <2>8 DEF BooksInv
<1> QED
  BY <1>5, <1>6

(* The finance row that is written, of samples in hand for a while.        *)
LEMMA FinanceRow ==
    ASSUME BooksInv, NEW a \in Askers, NEW ok \in BOOLEAN, Persist(a, ok)
    PROVE  /\ asks[a].day \in Dates /\ asks[a].at = "persist"
           /\ finance' \in [Dates -> [of : Samples, calc_v : Int]]
           /\ \A d \in Dates : d # asks[a].day => finance'[d] = finance[d]
           /\ ~ok => finance' = finance
           /\ ok => finance'[asks[a].day].of = asks[a].of /\ asks[a].day \in Priced'
           /\ Priced \subseteq Priced'
<1>1. /\ asks[a].at = "persist"
      /\ finance' = IF ~ok THEN finance
                    ELSE [finance EXCEPT ![asks[a].day] = [of |-> asks[a].of, calc_v |-> version]]
  BY DEF Persist
<1>2. /\ asks[a].day \in Dates /\ asks[a].of \in Samples /\ version \in Nat \ {0}
      /\ finance \in [Dates -> [of : Samples, calc_v : Int]]
  BY <1>1 DEF BooksInv, BooksTypeOK, RunsTogether, Samples
<1>3. CASE ok
  <2>1. /\ finance' \in [Dates -> [of : Samples, calc_v : Int]]
        /\ finance'[asks[a].day] = [of |-> asks[a].of, calc_v |-> version]
        /\ \A d \in Dates : d # asks[a].day => finance'[d] = finance[d]
    BY <1>1, <1>2, <1>3
  <2>2. finance'[asks[a].day] # Unpriced
    BY <1>2, <2>1 DEF Unpriced, Blank
  <2> QED
    BY <1>1, <1>2, <1>3, <2>1, <2>2 DEF Priced
<1>4. CASE ~ok
  BY <1>1, <1>2, <1>4 DEF Priced
<1> QED
  BY <1>3, <1>4

(* A request that holds no samples of a day gone by meets no row that has. *)
LEMMA NothingReplaced ==
    ASSUME BooksInv, NEW a \in Askers, asks[a].at = "persist", asks[a].of = {},
           asks[a].day < DateOf(clock) - 1
    PROVE  asks[a].day \notin Priced \/ finance[asks[a].day].of = {}
BY DEF BooksInv, AsksAgree, Priced

LEMMA PersistKeeps ==
    ASSUME BooksInv, NEW a \in Askers, NEW ok \in BOOLEAN, Persist(a, ok)
    PROVE  BooksInv'
<1>1. /\ asks[a].at = "persist" /\ asks' = [asks EXCEPT ![a] = NoAsk]
      /\ IF a = "loop" THEN NextDay(clean /\ ok) ELSE UNCHANGED <<loop, wake, clean>>
      /\ UNCHANGED <<clock, held, raw, obs, energy, version, due>>
  BY DEF Persist, Answered
<1>2. /\ BooksTypeOK /\ RunsTogether /\ RunAdvances /\ AsksAgree /\ asks \in [Askers -> Pending]
      /\ "loop" \in Askers /\ "view" \in Askers /\ Askers = {"loop", "view"}
  BY <1>1 DEF BooksInv, BooksTypeOK, Pending, Askers
<1>3. /\ asks[a].day \in Dates
      /\ finance' \in [Dates -> [of : Samples, calc_v : Int]]
      /\ \A d \in Dates : d # asks[a].day => finance'[d] = finance[d]
      /\ ~ok => finance' = finance
      /\ ok => finance'[asks[a].day].of = asks[a].of /\ asks[a].day \in Priced'
      /\ Priced \subseteq Priced'
  BY FinanceRow
<1>4. /\ asks' \in [Askers -> Pending] /\ asks'[a].at = "idle"
      /\ \A b \in Askers : b # a => asks'[b] = asks[b]
  BY <1>1, <1>2, NothingAsked
<1>5. Booked' = Booked
  BY <1>1 DEF Booked
<1>6. EnergyIsBacked'
  BY <1>1, StillBacked
<1>7. \A b \in Askers : asks'[b].at # "idle" => asks'[b].day \in Dates
  BY <1>2, <1>4 DEF RunsTogether
<1>8. AsksAgree'
  <2> SUFFICES ASSUME NEW b \in Askers, b # a, asks[b].day < DateOf(clock) - 1
               PROVE  /\ asks[b].at \in {"row", "persist"} /\ asks[b].day >= DateOf(clock) - Lookback =>
                            asks[b].of = Of(raw, asks[b].day)
                      /\ asks[b].at = "persist" /\ asks[b].of = {} =>
                            finance'[asks[b].day] = Unpriced \/ finance'[asks[b].day].of = {}
    BY <1>1, <1>4 DEF AsksAgree
  <2>1. asks[b].at \in {"row", "persist"} /\ asks[b].day >= DateOf(clock) - Lookback =>
           asks[b].of = Of(raw, asks[b].day)
    BY <1>2 DEF AsksAgree
  <2>2. ASSUME asks[b].at = "persist", asks[b].of = {}
        PROVE  finance'[asks[b].day] = Unpriced \/ finance'[asks[b].day].of = {}
    <3>1. finance[asks[b].day] = Unpriced \/ finance[asks[b].day].of = {}
      BY <1>2, <2>2 DEF AsksAgree
    <3>2. asks[b].day \in Dates
      BY <1>2, <2>2 DEF RunsTogether
    <3>3. CASE asks[b].day # asks[a].day \/ ~ok
      BY <1>3, <3>1, <3>2, <3>3
    <3>4. CASE asks[b].day = asks[a].day /\ ok
      <4>1. asks["loop"].at = "persist"
        BY <1>1, <1>2, <2>2
      <4>2. asks["loop"].day >= DateOf(clock) - Lookback
        BY <1>2, <4>1, DaysInHand DEF RunsTogether
      <4>3. asks[a].day >= DateOf(clock) - Lookback
        BY <1>2, <3>4, <4>2
      <4>4. asks[a].of = Of(raw, asks[a].day) /\ asks[b].of = Of(raw, asks[a].day)
        BY <1>1, <1>2, <2>1, <2>2, <3>4, <4>3 DEF AsksAgree
      <4> QED
        BY <1>3, <2>2, <3>4, <4>4
    <3> QED
      BY <3>3, <3>4
  <2> QED
    BY <2>1, <2>2
<1>9. CASE a = "loop"
  <2>1. NextDay(clean /\ ok) /\ (clean /\ ok) \in BOOLEAN /\ loop.at = "finance" /\ asks["loop"].day = loop.day
    BY <1>1, <1>2, <1>9 DEF BooksTypeOK, RunsTogether
  <2>2. clean /\ ok => loop.day \in Priced'
    BY <1>3, <1>9, <2>1
  <2>3. RunsTogether' /\ RunAdvances'
    BY <1>1, <1>2, <1>3, <1>4, <1>5, <1>7, <1>9, <2>1, <2>2, NextDayKeeps DEF RunAdvances, Refreshed
  <2>4. loop' \in Running /\ clean' \in BOOLEAN /\ wake' \in Nat \union {Blank}
    BY <2>1, NextDayTo
  <2>5. BooksTypeOK'
    BY <1>1, <1>2, <1>3, <1>4, <2>4 DEF BooksTypeOK, Running, Pending
  <2> QED
    BY <1>6, <1>8, <2>3, <2>5 DEF BooksInv
<1>10. CASE a # "loop"
  <2>1. UNCHANGED <<loop, wake, clean>> /\ asks'["loop"] = asks["loop"]
    BY <1>1, <1>2, <1>4, <1>10
  <2>2. RunsTogether' /\ RunAdvances'
    BY <1>1, <1>2, <1>3, <1>7, <2>1, LoopAside DEF RunsTogether
  <2>3. BooksTypeOK'
    BY <1>1, <1>2, <1>3, <1>4, <2>1 DEF BooksTypeOK, Pending
  <2> QED
    BY <1>6, <1>8, <2>2, <2>3 DEF BooksInv
<1> QED
  BY <1>9, <1>10

LEMMA BooksBegin == BooksInit => BooksInv
<1> SUFFICES ASSUME BooksInit PROVE BooksInv
  OBVIOUS
<1>1. /\ clock = 0 /\ held = Blank /\ raw = {} /\ obs = {}
      /\ energy = [d \in Dates |-> Unbooked] /\ finance = [d \in Dates |-> Unpriced]
      /\ version = 1 /\ loop = Asleep /\ asks = [a \in Askers |-> NoAsk] /\ wake = 0
      /\ due = {} /\ clean = FALSE
  BY DEF BooksInit
<1>2. Booked = {} /\ \A a \in Askers : asks[a].at = "idle"
  BY <1>1, NothingAsked DEF Booked
<1>3. BooksTypeOK
  <2>1. clock \in Ticks
    BY <1>1, BooksAssumption DEF Ticks
  <2>2. Unbooked \in [flows : Samples, loads : Samples] /\ Unpriced \in [of : Samples, calc_v : Int]
    BY DEF Unbooked, Unpriced, Samples, Blank
  <2>3. loop \in Running /\ asks \in [Askers -> Pending]
    BY <1>1, NothingAsked
  <2>4. /\ energy \in [Dates -> [flows : Samples, loads : Samples]]
        /\ finance \in [Dates -> [of : Samples, calc_v : Int]]
    BY <1>1, <2>2
  <2>5. held \in Ticks \union {Blank} /\ version \in Nat \ {0} /\ wake \in Nat \union {Blank}
    BY <1>1
  <2>6. raw \subseteq Ticks /\ obs \subseteq Ticks /\ due \subseteq Ticks /\ clean \in BOOLEAN
    BY <1>1
  <2> QED
    BY <2>1, <2>3, <2>4, <2>5, <2>6 DEF BooksTypeOK, Running, Pending
<1>4. RunsTogether /\ RunAdvances
  BY <1>1, <1>2, NothingAsked DEF RunsTogether, RunAdvances, Askers
<1>5. EnergyIsBacked /\ AsksAgree
  BY <1>2 DEF EnergyIsBacked, AsksAgree
<1> QED
  BY <1>3, <1>4, <1>5 DEF BooksInv

LEMMA BooksStep == BooksInv /\ [BooksNext]_booksVars => BooksInv'
<1> SUFFICES ASSUME BooksInv, [BooksNext]_booksVars PROVE BooksInv'
  OBVIOUS
<1>1. CASE Sample \/ Record \/ Purge \/ TimePasses \/ StopProcess
  BY <1>1, SampleKeeps, RecordKeeps, PurgeKeeps, TimeKeeps, StopKeeps
<1>2. CASE BeginRun \/ Look \/ materialize_observations \/ materialize_daily_energy \/ RunFails
  BY <1>2, BeginRunKeeps, LookKeeps, ObservationsKeep, EnergyKeeps, RunFailsKeeps
<1>3. ASSUME NEW d \in Dates, View(d) PROVE BooksInv'
  BY <1>3, ViewKeeps
<1>4. ASSUME NEW a \in Askers, ReadRaw(a) \/ ReadRow(a) \/ Persist(a, TRUE) \/ Persist(a, FALSE)
      PROVE  BooksInv'
  BY <1>4, ReadRawKeeps, ReadRowKeeps, PersistKeeps
<1>5. ASSUME NEW upgrade \in BOOLEAN, StartProcess(upgrade) PROVE BooksInv'
  BY <1>5, StartKeeps
<1>6. CASE UNCHANGED booksVars
  <2> USE <1>6 DEF booksVars, books, ghosts
  <2>1. Priced' = Priced
    BY DEF Priced
  <2>2. RunsTogether' /\ RunAdvances'
    BY <2>1, LoopAside DEF BooksInv, RunsTogether
  <2>3. BooksTypeOK' /\ EnergyIsBacked' /\ AsksAgree'
    BY StillBacked, StillAgree DEF BooksInv, BooksTypeOK
  <2> QED
    BY <2>2, <2>3 DEF BooksInv
<1> QED
  BY <1>1, <1>2, <1>3, <1>4, <1>5, <1>6 DEF BooksNext

(* Whatever fails, is retried, viewed or deleted, and wherever the process *)
(* dies: the daily books keep their inductive invariant                    *)
(* (src/ems/rollups.py, catch_up_rollups).                                 *)
THEOREM BooksInvariant == BooksSpec => []BooksInv
<1> QED
  BY BooksBegin, BooksStep, PTL DEF BooksSpec

(* After a run without trouble every day it looked back on is booked and   *)
(* priced, and yesterday's energy is of all the samples there were.        *)
THEOREM BooksAreComplete == BooksSpec => []BooksComplete
<1>1. BooksInv => BooksComplete
  <2> SUFFICES ASSUME BooksInv, clean, loop.at = "asleep"
               PROVE  /\ \A d \in completed_lookback_days(loop.today) :
                            Of(due, d) # {} => d \in Booked /\ d \in Priced
                      /\ Of(due, loop.today - 1) # {} =>
                            /\ Of(due, loop.today - 1) \subseteq energy[loop.today - 1].flows
                            /\ Of(due, loop.today - 1) \subseteq energy[loop.today - 1].loads
    BY DEF BooksComplete
  <2>1. \A d \in completed_lookback_days(loop.today) : Settled(d)
    BY DEF BooksInv, RunAdvances
  <2>2. loop.today - 1 \in completed_lookback_days(loop.today)
    BY DaysInHand DEF completed_lookback_days
  <2> QED
    BY <2>1, <2>2 DEF Settled, Refreshed
<1> QED
  BY <1>1, BooksInvariant, PTL

(* No row of energy is ever made again from fewer samples, and no finance  *)
(* of a day gone by gives way to that of a day without samples (#131).     *)
THEOREM DaysAreKept == BooksSpec => DaysKept
<1>1. BooksInv /\ [BooksNext]_booksVars => [BooksKept]_<<energy, finance>>
  <2> SUFFICES ASSUME BooksInv, BooksNext, ~UNCHANGED <<energy, finance>> PROVE BooksKept
    BY DEF booksVars, books
  <2>1. CASE materialize_daily_energy
    <3>1. /\ energy'[loop.day] = [flows |-> Of(raw, loop.day), loads |-> Of(obs, loop.day)]
          /\ \A d \in Int : d # loop.day => energy'[d] = energy[d]
      BY <2>1, EnergyRow
    <3>2. loop.day >= DateOf(clock) - Lookback
      BY <2>1, DaysInHand DEF materialize_daily_energy
    <3>3. finance' = finance
      BY <2>1 DEF materialize_daily_energy
    <3>4. ASSUME NEW d \in Booked
          PROVE  energy[d].flows \subseteq energy'[d].flows /\ energy[d].loads \subseteq energy'[d].loads
      <4>1. d \in Int
        BY DaysInHand DEF Booked
      <4>2. CASE d = loop.day
        BY <3>1, <3>2, <4>2 DEF BooksInv, EnergyIsBacked
      <4>3. CASE d # loop.day
        BY <3>1, <4>1, <4>3
      <4> QED
        BY <4>2, <4>3
    <3> QED
      BY <3>3, <3>4 DEF BooksKept
  <2>2. ASSUME NEW a \in Askers, NEW ok \in BOOLEAN, Persist(a, ok) PROVE BooksKept
    <3>1. energy' = energy
      BY <2>2 DEF Persist
    <3>2. ASSUME NEW d \in Priced, d < DateOf(clock) - 1, finance[d].of # {} PROVE finance'[d].of # {}
      <4>1. d \in Dates
        BY DEF Priced
      <4>2. CASE d = asks[a].day /\ ok
        BY <2>2, <3>2, <4>2, FinanceRow, NothingReplaced
      <4>3. CASE d # asks[a].day \/ ~ok
        BY <2>2, <3>2, <4>1, <4>3, FinanceRow
      <4> QED
        BY <4>2, <4>3
    <3> QED
      BY <3>1, <3>2 DEF BooksKept
  <2>3. CASE \/ Sample \/ Record \/ BeginRun \/ Look \/ materialize_observations \/ RunFails
             \/ Purge \/ TimePasses \/ StopProcess
    BY <2>3 DEF Sample, Record, BeginRun, Look, materialize_observations, RunFails, Purge,
               TimePasses, StopProcess, books
  <2>4. ASSUME NEW d \in Dates, View(d) PROVE BooksKept
    BY <2>4 DEF View, books
  <2>5. ASSUME NEW a \in Askers, ReadRaw(a) \/ ReadRow(a) PROVE BooksKept
    BY <2>5 DEF ReadRaw, ReadRow, books
  <2>6. ASSUME NEW upgrade \in BOOLEAN, StartProcess(upgrade) PROVE BooksKept
    BY <2>6 DEF StartProcess, books
  <2> QED
    BY <2>1, <2>2, <2>3, <2>4, <2>5, <2>6 DEF BooksNext
<1> QED
  BY <1>1, BooksInvariant, PTL DEF BooksSpec, DaysKept
=================================================================================
