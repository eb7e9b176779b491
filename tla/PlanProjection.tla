--------------------------- MODULE PlanProjection ---------------------------
(***************************************************************************)
(* Where a plan takes the battery (src/ems/planner/projection.py), and the *)
(* passes that read that forecast: the evening reserve, the slots on the   *)
(* floor, the honest partial and the caution of a stale meter.             *)
(***************************************************************************)
EXTENDS PlanRules

\* The battery after one slot: charging stops at the target, discharging at
\* the floor, and a slot that holds only ever takes surplus in.
After(intent, soc, net, target, out) ==
    LET room == Usable - soc
        above == AtLeast0(soc - Floor)
    IN  CASE intent = Charge -> soc + Lesser(SlotDC, Lesser(room, AtLeast0(target - soc)))
          [] intent # Charge /\ net > 0 /\ intent # Hold ->
                soc - Lesser(Drawn(Lesser(net, out)), above)
          [] intent \notin {Charge, Export} /\ net < 0 ->
                soc + Lesser(Stored(-net), Lesser(SlotDC, room))
          [] OTHER -> soc

\* The state of charge at the end of each slot, q.soc in front of the first.
Project(q, p) ==
    LET soc[i \in (q.now - 1) .. q.known] ==
            IF i < q.now THEN q.soc
            ELSE After(p.slots[i].intent, soc[i - 1], q.load[i] - q.solar[i], Usable, OutAC)
    IN  soc
-----------------------------------------------------------------------------
(* apply_evening_reserve: what the evening's discharging needs is not      *)
(* spent on an earlier peak.  The winter planner passes it the charging    *)
(* power as discharging power, and no solar.                               *)

ClusterStart(p, i) ==
    Max({j \in With(p, ForLoad) : j <= i /\ j - 1 \notin With(p, ForLoad)
                                  /\ j .. i \subseteq With(p, ForLoad)})

EveningSlots(p) == {i \in With(p, ForLoad) : ClusterStart(p, i) \in EveningStart}

EveningNeed(q, p, out) ==
    Lesser(SumFunction([i \in EveningSlots(p) |-> Drawn(Lesser(q.load[i], out))]),
           Usable - Floor)

(* Mutant: the battery is looked at before the slot. *)
MutTouchesReserve(before, after, need) == before < Floor + need

\* A morning slot that would go into what the evening needs.
TouchesReserve(before, after, need) == after < Floor + need

EveningReserve(q, p, out) ==
    LET evening == EveningSlots(p)
        need == EveningNeed(q, p, out)
        target == IF p.target = Unset THEN Usable ELSE p.target
        Next(i, soc) == After(p.slots[i].intent, soc, q.load[i], target, out)
        Spares(i, soc) == i \in With(p, ForLoad) /\ i < Min(evening) /\ q.load[i] > 0
                          /\ TouchesReserve(soc, Next(i, soc), need)
        soc[i \in (q.now - 1) .. q.known] ==
            IF i < q.now THEN q.soc
            ELSE IF Spares(i, soc[i - 1]) THEN soc[i - 1] ELSE Next(i, soc[i - 1])
    IN  IF evening = {} \/ need = 0 THEN p
        ELSE [p EXCEPT !.slots = [i \in DOMAIN p.slots |->
                IF Spares(i, soc[i - 1]) THEN [p.slots[i] EXCEPT !.intent = Hold, !.why = "evening"]
                ELSE p.slots[i]]]
-----------------------------------------------------------------------------
\* mark_floor_holds: discharging that starts on the floor and moves nothing
\* is shown as the hold it is.
MarkFloorHolds(q, p, soc) ==
    [p EXCEPT !.slots = [i \in DOMAIN p.slots |->
        IF i \in With(p, ForLoad) /\ soc[i] = soc[i - 1] /\ soc[i - 1] <= Floor
        THEN [p.slots[i] EXCEPT !.intent = Hold, !.why = "floor",
                                !.floor = IF @ = Unset THEN Floor ELSE @]
        ELSE p.slots[i]]]

\* honest_partial_from_projection: a winter plan whose charging falls short
\* of a deadline promises what the projection reaches.
CommitDeadline(p, i) == IF p.slots[i].deadline # Unset THEN p.slots[i].deadline ELSE p.deadline
CommitTarget(p, i) == IF p.slots[i].target # Unset THEN p.slots[i].target ELSE p.target

(* Mutant: only a shortfall of twice the margin counts. *)
MutFallsShort(reached, target) == reached < target - 2 * Margin

FallsShort(reached, target) == reached < target - Margin

HonestPartial(q, p, soc) ==
    LET charge == With(p, Charge)
        Short(i) == LET d == CommitDeadline(p, i)
                    IN  d > q.now /\ FallsShort(soc[Lesser(d - 1, q.known)], CommitTarget(p, i))
        Lowered(d) == Greater(Floor, soc[Lesser(d - 1, q.known)])
        deadlines == {CommitDeadline(p, i) : i \in {j \in charge : Short(j)}}
        planTarget == IF p.deadline \in deadlines THEN Lowered(p.deadline)
                      ELSE Min({Lowered(d) : d \in deadlines})
    IN  IF p.strategy # "winter" \/ p.target = Unset \/ p.deadline = Unset \/ deadlines = {} THEN p
        ELSE [p EXCEPT !.target = planTarget,
                       !.slots = [i \in DOMAIN p.slots |->
                          IF i \in charge /\ CommitDeadline(p, i) \in deadlines
                          THEN [p.slots[i] EXCEPT !.target = Lowered(CommitDeadline(p, i))]
                          ELSE p.slots[i]]]

\* apply_stale_meter_caution: while a meter is stale a slot that would end
\* below the raised floor holds, and every other slot carries that floor.
MayDischarge(slot) ==
    slot.intent \in {Export, SelfUse} \/ (slot.intent = ForLoad /\ slot.why \in {"peak", "shave"})

StaleCaution(q, p) ==
    LET raised == Lesser(Usable, Floor + Buffer)
        Target(i) == IF p.slots[i].target # Unset THEN p.slots[i].target ELSE Usable
        Next(i, intent, soc) == After(intent, soc, q.load[i] - q.solar[i], Target(i), ChargeAC)
        Holds(i, soc) ==
            LET next == Next(i, p.slots[i].intent, soc)
            IN  /\ next < raised /\ next < soc
                /\ MayDischarge(p.slots[i])
        soc[i \in (q.now - 1) .. q.known] ==
            IF i < q.now THEN q.soc
            ELSE Next(i, IF Holds(i, soc[i - 1]) THEN Hold ELSE p.slots[i].intent, soc[i - 1])
        Cautious(i) == IF Holds(i, soc[i - 1])
                       THEN [p.slots[i] EXCEPT !.intent = Hold, !.power = Unset, !.why = "stale"]
                       ELSE p.slots[i]
    IN  [p EXCEPT !.slots = [i \in DOMAIN p.slots |->
            IF p.slots[i].intent = Charge THEN p.slots[i]
            ELSE [Cautious(i) EXCEPT !.floor = Greater(@, raised)]]]
=============================================================================
