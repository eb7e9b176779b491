-------------------------- MODULE ControlTick_proofs --------------------------
(***************************************************************************)
(* What holds of ControlTick for every number of grace cycles, of          *)
(* persistence cycles and of car commands: its invariant, and what a       *)
(* single tick may and may not do.                                         *)
(***************************************************************************)
EXTENDS ControlTick, TLAPS

USE DEF AUTO, IDLE, CHARGE, DISCHARGE, Mode, Unread, Nobody, Intent, Reserve,
        Band, Soc, Bad, Attempted, Outcome, vars, memory

(* What decide() leaves is well formed, however it answers. *)
LEMMA DecideTypes ==
    ASSUME TypeOK, NEW mode \in Mode, NEW exempt \in BOOLEAN, NEW outcome \in Outcome,
           \/ Decides(mode, exempt, outcome)
           \/ Superseded(mode)
           \/ Quiet
           \/ Sends(mode, outcome)
    PROVE  /\ device' \in Mode
           /\ answer' \in [mode: Mode \cup {Nobody},
                           outcome: Outcome \cup {"none", "superseded"}]
  BY DEF TypeOK, Decides, Superseded, Quiet, Sends, Reached, Says

LEMMA ModesOfIntents == \A i \in Intent : ModeOf(i) \in {AUTO, IDLE, CHARGE}
  BY DEF ModeOf

LEMMA BlankIsAnObservation ==
    Blank \in Observation /\ Blank.by = "plan" /\ Blank.unsafe = FALSE /\ Blank.soc = "ok"
  BY DEF Blank, Observation

LEMMA NoSessionIsASession == NoSession \in Session /\ ~NoSession.active
  BY TickAssumption DEF NoSession, Session

(* One field of the session box at a time. *)
LEMMA SessionUpdates ==
    ASSUME NEW s \in Session, NEW b \in BOOLEAN
    PROVE  /\ [s EXCEPT !.below = 0] \in Session
           /\ [s EXCEPT !.reserveHold = b] \in Session
           /\ [s EXCEPT !.bad = b] \in Session
           /\ [s EXCEPT !.active = TRUE] \in Session
           /\ [s EXCEPT !.below = 0].active = s.active
           /\ [s EXCEPT !.reserveHold = b].active = s.active
           /\ [s EXCEPT !.bad = b].active = s.active
           /\ [s EXCEPT !.active = TRUE].active = TRUE
  <1>1. [s EXCEPT !.below = 0] \in Session
    BY TickAssumption DEF Session
  <1>2. [s EXCEPT !.reserveHold = b] \in Session
    BY DEF Session
  <1>3. [s EXCEPT !.bad = b] \in Session
    BY DEF Session
  <1>4. [s EXCEPT !.active = TRUE] \in Session
    BY DEF Session
  <1>5. [s EXCEPT !.active = TRUE].active = TRUE
    BY DEF Session
  <1>6. [s EXCEPT !.below = 0].active = s.active
    BY DEF Session
  <1>7. [s EXCEPT !.reserveHold = b].active = s.active
    BY DEF Session
  <1>8. [s EXCEPT !.bad = b].active = s.active
    BY DEF Session
  <1> QED BY <1>1, <1>2, <1>3, <1>4, <1>5, <1>6, <1>7, <1>8

LEMMA Reservable ==
    ASSUME NEW s \in Session, NEW b \in BOOLEAN
    PROVE  /\ [s EXCEPT !.below = 0, !.reserveHold = b] \in Session
           /\ [s EXCEPT !.below = 0, !.reserveHold = b].active = s.active
  <1>1. [s EXCEPT !.below = 0, !.reserveHold = b]
            = [[s EXCEPT !.below = 0] EXCEPT !.reserveHold = b]
    BY DEF Session
  <1> QED BY <1>1, SessionUpdates

LEMMA Commanded ==
    ASSUME NEW s \in Session, NEW b \in BOOLEAN, s.commands < MaxCommands
    PROVE  LET c == [s EXCEPT !.active = TRUE, !.age = "fresh", !.commands = @ + 1, !.bad = b]
           IN c \in Session /\ c.active
  <1>1. [s EXCEPT !.commands = @ + 1] \in Session
    BY TickAssumption DEF Session
  <1>2. \A r \in Session : [r EXCEPT !.age = "fresh"] \in Session
    BY DEF Session
  <1>3. [s EXCEPT !.active = TRUE, !.age = "fresh", !.commands = @ + 1, !.bad = b]
            = [[[[s EXCEPT !.commands = @ + 1] EXCEPT !.age = "fresh"]
                 EXCEPT !.bad = b] EXCEPT !.active = TRUE]
    BY DEF Session
  <1> QED BY <1>1, <1>2, <1>3, SessionUpdates

(* What the branches make of it. *)
LEMMA SessionTypes ==
    ASSUME TypeOK
    PROVE  /\ Covering \in Session
           /\ Covering.active = session.active
           /\ ~session.active => Covering = NoSession
           /\ InGrace => Bridged \in Session /\ Bridged.active
  <1>1. session \in Session /\ (~session.active => session = NoSession)
    BY DEF TypeOK
  <1>2. Covering \in Session /\ Covering.active = session.active
    BY <1>1, Reservable DEF Covering
  <1>3. ASSUME ~session.active PROVE Covering = NoSession
    <2>1. session.below = 0 /\ session.reserveHold = FALSE
      BY <1>1, <1>3 DEF NoSession
    <2> QED BY <1>1, <1>3, <2>1 DEF Covering, Session
  <1>4. ASSUME InGrace PROVE Bridged \in Session /\ Bridged.active
    BY <1>1, <1>4, TickAssumption DEF InGrace, Bridged, Session
  <1> QED BY <1>2, <1>3, <1>4
-----------------------------------------------------------------------------
(* Every branch of a tick ends the same way. *)
LEMMA EndsKeeps ==
    ASSUME IInv, Ends
    PROVE  /\ looking' = FALSE /\ controlling' = controlling
           /\ obs' \in Observation /\ Validated'
  BY BlankIsAnObservation DEF IInv, Ends, Validated

LEMMA KeptTypes == TypeOK => Kept \in {"plan", "operator", Nobody}
  BY DEF TypeOK, Kept

LEMMA WantedTypes == TypeOK => Wanted \in Intent /\ Routed \in Intent
  <1> SUFFICES ASSUME TypeOK PROVE Wanted \in Intent /\ Routed \in Intent
    OBVIOUS
  <1>1. obs.wish \in Intent
    BY DEF TypeOK, Observation
  <1>2. Guarded \in Intent
    BY <1>1 DEF Guarded
  <1>3. Wanted \in Intent
    BY <1>2 DEF Wanted
  <1> QED BY <1>3 DEF Routed
-----------------------------------------------------------------------------
(* Every branch of a tick keeps the invariant, provided it leaves the      *)
(* session box and the commitment well formed.                             *)
LEMMA BranchTypes ==
    ASSUME IInv, Ends,
           session' \in Session, ~session'.active => session' = NoSession,
           holding' \in BOOLEAN, pending' \in 0..(IntentCycles - 1),
           committed' \in {"plan", "operator", Nobody}, device' \in Mode,
           answer' \in [mode: Mode \cup {Nobody},
                        outcome: Outcome \cup {"none", "superseded"}]
    PROVE  IInv'
  <1>1. looking' = FALSE /\ controlling' = controlling /\ obs' \in Observation /\ Validated'
    BY EndsKeeps
  <1>2. controlling \in BOOLEAN
    BY DEF IInv, TypeOK
  <1> QED BY <1>1, <1>2 DEF IInv, TypeOK

LEMMA NothingWantedKeeps == IInv /\ NothingWanted => IInv'
  <1> SUFFICES ASSUME IInv, NothingWanted PROVE IInv'
    OBVIOUS
  <1>1. TypeOK
    BY DEF IInv
  <1>2. session' \in Session /\ (~session'.active => session' = NoSession)
    BY <1>1, SessionTypes, NoSessionIsASession DEF NothingWanted
  <1>3. device' \in Mode
        /\ answer' \in [mode: Mode \cup {Nobody}, outcome: Outcome \cup {"none", "superseded"}]
    BY <1>1 DEF NothingWanted, Quiet, Says, TypeOK
  <1>4. committed' \in {"plan", "operator", Nobody}
    BY <1>1, KeptTypes DEF NothingWanted
  <1>5. holding' \in BOOLEAN /\ pending' \in 0..(IntentCycles - 1) /\ Ends
    BY <1>1 DEF NothingWanted, TypeOK
  <1> QED BY <1>2, <1>3, <1>4, <1>5, BranchTypes

LEMMA CarCommandKeeps == IInv /\ CarCommand => IInv'
  <1> SUFFICES ASSUME IInv, CarCommand PROVE IInv'
    OBVIOUS
  <1>0. TypeOK
    BY DEF IInv
  <1>1. /\ Covering \in Session /\ Covering.active = session.active
        /\ ~session.active => Covering = NoSession
    BY <1>0, SessionTypes
  <1> DEFINE Good == /\ session' \in Session
                     /\ ~session'.active => session' = NoSession
                     /\ device' \in Mode
                     /\ answer' \in [mode: Mode \cup {Nobody},
                                     outcome: Outcome \cup {"none", "superseded"}]
  <1>2. ASSUME ~Spent, NEW outcome \in Attempted, Sends(DISCHARGE, outcome),
               session' = [Covering EXCEPT !.active = TRUE, !.age = "fresh",
                              !.commands = @ + 1, !.bad = outcome \in Bad]
        PROVE  Good
    <2>1. session.commands < MaxCommands
      BY <1>0, <1>2, TickAssumption DEF Spent, TypeOK, Session
    <2>2. Covering.commands = session.commands
      BY <1>0 DEF Covering, TypeOK, Session
    <2> DEFINE bad == outcome \in Bad
    <2>a. session' = [Covering EXCEPT !.active = TRUE, !.age = "fresh",
                         !.commands = @ + 1, !.bad = bad] /\ bad \in BOOLEAN
      BY <1>2
    <2> HIDE DEF bad
    <2>3. session' \in Session /\ session'.active
      BY <1>1, <2>a, <2>1, <2>2, Commanded
    <2>4. device' \in Mode /\ answer' \in [mode: Mode \cup {Nobody},
                                           outcome: Outcome \cup {"none", "superseded"}]
      BY <1>0, <1>2, DecideTypes
    <2> QED BY <2>3, <2>4
  <1>3. ASSUME Reconcile, NEW outcome \in Outcome, Decides(IDLE, TRUE, outcome),
               session' = [Covering EXCEPT !.bad = outcome \in Bad]
        PROVE  Good
    <2> DEFINE bad == outcome \in Bad
    <2>a. session' = [Covering EXCEPT !.bad = bad] /\ bad \in BOOLEAN
      BY <1>3
    <2> HIDE DEF bad
    <2>1. session' \in Session /\ session'.active = Covering.active
      BY <1>1, <2>a, SessionUpdates
    <2>2. session'.active
      BY <1>1, <1>3, <2>1 DEF Reconcile
    <2>3. device' \in Mode /\ answer' \in [mode: Mode \cup {Nobody},
                                           outcome: Outcome \cup {"none", "superseded"}]
      BY <1>0, <1>3, DecideTypes
    <2> QED BY <2>1, <2>2, <2>3
  <1>4. ASSUME Superseded(IF Spent THEN IDLE ELSE DISCHARGE), session' = Covering
        PROVE  Good
    <2>1. device' \in Mode /\ answer' \in [mode: Mode \cup {Nobody},
                                           outcome: Outcome \cup {"none", "superseded"}]
      BY <1>0, <1>4, DecideTypes
    <2> QED BY <1>1, <1>4, <2>1
  <1>5. ASSUME Quiet, session' = [Covering EXCEPT !.active = TRUE]
        PROVE  Good
    <2>1. session' \in Session /\ session'.active
      BY <1>1, <1>5, SessionUpdates
    <2>2. device' \in Mode /\ answer' \in [mode: Mode \cup {Nobody},
                                           outcome: Outcome \cup {"none", "superseded"}]
      BY <1>0, <1>5 DEF Quiet, Says, TypeOK
    <2> QED BY <2>1, <2>2
  <1>6. Good
    BY <1>2, <1>3, <1>4, <1>5 DEF CarCommand
  <1>7. /\ committed' \in {"plan", "operator", Nobody}
        /\ holding' \in BOOLEAN /\ pending' \in 0..(IntentCycles - 1) /\ Ends
    BY <1>0, KeptTypes DEF CarCommand, TypeOK
  <1> QED BY <1>6, <1>7, BranchTypes

LEMMA ReserveHoldKeeps == IInv /\ ReserveHold => IInv'
  <1> SUFFICES ASSUME IInv, ReserveHold PROVE IInv'
    OBVIOUS
  <1>0. TypeOK
    BY DEF IInv
  <1> DEFINE held == [session EXCEPT !.below = 0, !.reserveHold = TRUE]
  <1>1. held \in Session /\ held.active
    BY <1>0, Reservable DEF TypeOK, ReserveHold, AtReserve
  <1>2. PICK outcome \in Outcome :
           \/ Decides(IDLE, TRUE, outcome) /\ session' = [held EXCEPT !.bad = outcome \in Bad]
           \/ Superseded(IDLE) /\ session' = held
    BY DEF ReserveHold
  <1>3. session' \in Session /\ session'.active
    <2>1. CASE session' = [held EXCEPT !.bad = outcome \in Bad]
      <3> DEFINE bad == outcome \in Bad
      <3>1. session' = [held EXCEPT !.bad = bad] /\ bad \in BOOLEAN
        BY <2>1
      <3> HIDE DEF held, bad
      <3> QED BY <1>1, <3>1, SessionUpdates
    <2> HIDE DEF held
    <2>2. CASE session' = held
      BY <1>1, <2>2
    <2> QED BY <1>2, <2>1, <2>2
  <1>4. device' \in Mode /\ answer' \in [mode: Mode \cup {Nobody},
                                         outcome: Outcome \cup {"none", "superseded"}]
    BY <1>0, <1>2, DecideTypes
  <1>5. /\ committed' \in {"plan", "operator", Nobody}
        /\ holding' \in BOOLEAN /\ pending' \in 0..(IntentCycles - 1) /\ Ends
    BY <1>0, KeptTypes DEF ReserveHold, TypeOK
  <1> QED BY <1>3, <1>4, <1>5, BranchTypes

LEMMA DeferKeeps == IInv /\ Defer => IInv'
  <1> SUFFICES ASSUME IInv, Defer PROVE IInv'
    OBVIOUS
  <1>1. TypeOK
    BY DEF IInv
  <1>2. device' \in Mode
        /\ answer' \in [mode: Mode \cup {Nobody}, outcome: Outcome \cup {"none", "superseded"}]
    BY <1>1 DEF Defer, Quiet, Says, TypeOK
  <1>3. /\ session' \in Session /\ (~session'.active => session' = NoSession)
        /\ committed' \in {"plan", "operator", Nobody}
        /\ holding' \in BOOLEAN /\ pending' \in 0..(IntentCycles - 1) /\ Ends
    BY <1>1, KeptTypes DEF Defer, TypeOK
  <1> QED BY <1>2, <1>3, BranchTypes

LEMMA BridgeKeeps == IInv /\ Bridge => IInv'
  <1> SUFFICES ASSUME IInv, Bridge PROVE IInv'
    OBVIOUS
  <1>1. TypeOK
    BY DEF IInv
  <1>2. device' \in Mode
        /\ answer' \in [mode: Mode \cup {Nobody}, outcome: Outcome \cup {"none", "superseded"}]
    BY <1>1 DEF Bridge, Quiet, Says, TypeOK
  <1>3. session' \in Session /\ session'.active
    BY <1>1, SessionTypes DEF Bridge
  <1>4. /\ committed' \in {"plan", "operator", Nobody}
        /\ holding' \in BOOLEAN /\ pending' \in 0..(IntentCycles - 1) /\ Ends
    BY <1>1, KeptTypes DEF Bridge, TypeOK
  <1> QED BY <1>2, <1>3, <1>4, BranchTypes

LEMMA GraceAtFloorKeeps == IInv /\ GraceAtFloor => IInv'
  <1> SUFFICES ASSUME IInv, GraceAtFloor PROVE IInv'
    OBVIOUS
  <1>1. TypeOK
    BY DEF IInv
  <1>2. device' \in Mode /\ answer' \in [mode: Mode \cup {Nobody},
                                         outcome: Outcome \cup {"none", "superseded"}]
    <2>1. PICK outcome \in Outcome : Superseded(IDLE) \/ Decides(IDLE, TRUE, outcome)
      BY DEF GraceAtFloor
    <2> QED BY <1>1, <2>1, DecideTypes
  <1>3. session' \in Session /\ (~session'.active => session' = NoSession)
    BY NoSessionIsASession DEF GraceAtFloor
  <1>4. /\ committed' \in {"plan", "operator", Nobody}
        /\ holding' \in BOOLEAN /\ pending' \in 0..(IntentCycles - 1) /\ Ends
    BY <1>1, KeptTypes DEF GraceAtFloor, TypeOK
  <1> QED BY <1>2, <1>3, <1>4, BranchTypes

LEMMA ResolveKeeps == IInv /\ Resolve => IInv'
  <1> SUFFICES ASSUME IInv, Resolve PROVE IInv'
    OBVIOUS
  <1>0. TypeOK
    BY DEF IInv
  <1>1. session' \in Session /\ (~session'.active => session' = NoSession)
    BY NoSessionIsASession DEF Resolve
  <1>2. holding' \in BOOLEAN
    BY <1>0 DEF Resolve, TypeOK, Latched
  <1>3. Ends
    BY DEF Resolve
  <1>4. CASE Unconvinced
    <2>1. pending' \in 0..(IntentCycles - 1)
      BY <1>0, <1>4, TickAssumption DEF Resolve, TypeOK, Unconvinced
    <2>2. device' \in Mode /\ answer' \in [mode: Mode \cup {Nobody},
                                           outcome: Outcome \cup {"none", "superseded"}]
      BY <1>0, <1>4 DEF Resolve, Quiet, Says, TypeOK
    <2>3. committed' \in {"plan", "operator", Nobody}
      BY <1>0, <1>4, KeptTypes DEF Resolve
    <2> QED BY <1>1, <1>2, <1>3, <2>1, <2>2, <2>3, BranchTypes
  <1>5. CASE ~Unconvinced
    <2>0. ModeOf(Routed) \in Mode /\ (Operator \/ Draws) \in BOOLEAN
      BY <1>0, WantedTypes, ModesOfIntents DEF Operator, Draws
    <2>1. pending' \in 0..(IntentCycles - 1)
      BY <1>5, TickAssumption DEF Resolve
    <2>2. PICK outcome \in Outcome :
             \/ Superseded(ModeOf(Routed)) /\ committed' = Kept
             \/ /\ Decides(ModeOf(Routed), Operator \/ Draws, outcome)
                /\ committed' \in Committers \/ committed' = Kept
      BY <1>5 DEF Resolve
    <2>3. device' \in Mode /\ answer' \in [mode: Mode \cup {Nobody},
                                           outcome: Outcome \cup {"none", "superseded"}]
      BY <1>0, <2>0, <2>2, DecideTypes
    <2>4. committed' \in {"plan", "operator", Nobody}
      BY <1>0, <2>2, KeptTypes DEF Committers
    <2> QED BY <1>1, <1>2, <1>3, <2>1, <2>3, <2>4, BranchTypes
  <1> QED BY <1>4, <1>5
LEMMA ObserveKeeps == IInv /\ Observe => IInv'
  <1> SUFFICES ASSUME IInv, Observe PROVE IInv'
    OBVIOUS
  <1>1. obs' \in Observation /\ Validated'
    BY DEF Observe, Possible, Validated, Operator
  <1> QED BY <1>1 DEF IInv, TypeOK, Observe

LEMMA TimePassesKeeps == IInv /\ TimePasses => IInv'
  <1> SUFFICES ASSUME IInv, TimePasses PROVE IInv'
    OBVIOUS
  <1>1. session \in Session /\ session.active
    BY DEF IInv, TypeOK, TimePasses, NoSession
  <1>2. session' \in Session /\ session'.active
    BY <1>1 DEF TimePasses, Session
  <1> QED BY <1>2 DEF IInv, TypeOK, TimePasses, Validated

LEMMA ObservingTickKeeps == IInv /\ ObservingTick => IInv'
  <1> SUFFICES ASSUME IInv, ObservingTick PROVE IInv'
    OBVIOUS
  <1>0. TypeOK
    BY DEF IInv
  <1>1. PICK outcome \in Outcome : Quiet \/ Sends(AUTO, outcome)
    BY DEF ObservingTick
  <1>2. device' \in Mode /\ answer' \in [mode: Mode \cup {Nobody},
                                         outcome: Outcome \cup {"none", "superseded"}]
    BY <1>0, <1>1, DecideTypes
  <1>3. /\ session' \in Session /\ (~session'.active => session' = NoSession)
        /\ committed' \in {"plan", "operator", Nobody}
        /\ holding' \in BOOLEAN /\ pending' \in 0..(IntentCycles - 1) /\ Ends
    BY <1>0 DEF ObservingTick, TypeOK
  <1> QED BY <1>2, <1>3, BranchTypes

(* Whatever the settings, every tick leaves the memory well formed: the    *)
(* grace never reaches EndCycles, the persistence count never reaches      *)
(* IntentCycles, the car commands never exceed their budget, and a session *)
(* that is over has left nothing behind.                                   *)
THEOREM TickInvariant == Spec => []IInv
  <1>1. Init => IInv
    <2> SUFFICES ASSUME Init PROVE IInv
      OBVIOUS
    <2>1. obs \in Observation /\ Validated
      BY BlankIsAnObservation DEF Init, Validated
    <2>2. pending \in 0..(IntentCycles - 1) /\ session \in Session /\ session = NoSession
      BY TickAssumption, NoSessionIsASession DEF Init
    <2>3. answer \in [mode: Mode \cup {Nobody}, outcome: Outcome \cup {"none", "superseded"}]
      BY DEF Init, Silent
    <2> QED BY <2>1, <2>2, <2>3 DEF Init, IInv, TypeOK
  <1>2. IInv /\ [Next]_vars => IInv'
    <2> SUFFICES ASSUME IInv, [Next]_vars PROVE IInv'
      OBVIOUS
    <2>1. CASE Tick
      BY <2>1, NothingWantedKeeps, CarCommandKeeps, ReserveHoldKeeps, DeferKeeps,
         BridgeKeeps, GraceAtFloorKeeps, ResolveKeeps DEF Tick
    <2>2. CASE Observe
      BY <2>2, ObserveKeeps
    <2>3. CASE ObservingTick
      BY <2>3, ObservingTickKeeps
    <2>4. CASE Report
      BY <2>4 DEF Report, IInv, TypeOK, Silent, Validated
    <2>5. CASE TakeControl
      BY <2>5 DEF TakeControl, IInv, TypeOK, Validated
    <2>6. CASE TimePasses
      BY <2>6, TimePassesKeeps
    <2>7. CASE Drift
      BY <2>7 DEF Drift, IInv, TypeOK, Validated
    <2>8. CASE Restart
      <3>1. pending' \in 0..(IntentCycles - 1) /\ session' \in Session /\ session' = NoSession
        BY <2>8, TickAssumption, NoSessionIsASession DEF Restart
      <3>2. /\ holding' = FALSE /\ controlling' = FALSE
            /\ UNCHANGED <<committed, device, looking, obs, answer>>
        BY <2>8 DEF Restart
      <3>3. TypeOK'
        BY <3>1, <3>2 DEF IInv, TypeOK
      <3>4. Validated'
        BY <3>2 DEF IInv, Validated
      <3> QED BY <3>3, <3>4 DEF IInv
    <2>9. CASE UNCHANGED vars
      BY <2>9 DEF IInv, TypeOK, Validated
    <2> QED BY <2>1, <2>2, <2>3, <2>4, <2>5, <2>6, <2>7, <2>8, <2>9 DEF Next, Cycle
  <1> QED BY <1>1, <1>2, PTL DEF Spec
-----------------------------------------------------------------------------
(* What one tick may do                                                    *)

(* Only a branch of the tick's body ends a tick that may command.          *)
LEMMA OnlyTicksTick == IInv /\ [Next]_vars /\ Ticked => Tick
  <1> SUFFICES ASSUME IInv, [Next]_vars, Ticked PROVE Tick
    OBVIOUS
  <1>1. ~ObservingTick
    BY DEF ObservingTick, Ends, Ticked
  <1>2. ~Observe /\ ~Report /\ ~TakeControl /\ ~TimePasses /\ ~Drift /\ ~Restart
        /\ ~UNCHANGED vars
    BY DEF Observe, Report, TakeControl, TimePasses, Drift, Restart, Ticked
  <1> QED BY <1>1, <1>2 DEF Next, Cycle

(* The answers of decide(): the mode it was asked for, and silence or a    *)
(* hold only where they are allowed.                                       *)
LEMMA DecideAnswers ==
    ASSUME NEW mode, NEW exempt \in BOOLEAN, NEW outcome \in Outcome,
           Decides(mode, exempt, outcome)
    PROVE  /\ answer'.mode = mode
           /\ answer'.outcome \in Outcome
           /\ answer'.outcome = "held" => ~exempt /\ mode # AUTO
           /\ answer'.outcome = "idempotent" =>
                 mode = Actual \/ (mode = CHARGE /\ Actual = IDLE)
  BY DEF Decides, Sends, Says

LEMMA HoldAnswers ==
    ASSUME NEW outcome \in Outcome, Decides(IDLE, TRUE, outcome)
    PROVE  /\ answer'.mode = IDLE
           /\ answer'.outcome \in Attempted \cup {"idempotent"}
           /\ answer'.outcome = "idempotent" => Actual = IDLE
  BY DEF Decides, Sends, Says

LEMMA SendAnswers ==
    ASSUME NEW mode, NEW outcome, Sends(mode, outcome)
    PROVE  answer'.mode = mode /\ answer'.outcome \in Attempted
  BY DEF Sends, Says

LEMMA SupersededAnswers ==
    ASSUME NEW mode, Superseded(mode)
    PROVE  answer'.mode = mode /\ answer'.outcome = "superseded"
  BY DEF Superseded, Says

(* The branch that acts on the wish itself. *)
LEMMA ResolveAnswers ==
    ASSUME Resolve, ~Unconvinced
    PROVE  /\ answer'.mode = ModeOf(Routed)
           /\ answer'.outcome \in Outcome \cup {"superseded"}
           /\ answer'.outcome = "held" => ~Operator /\ ~Draws /\ ModeOf(Routed) # AUTO
           /\ answer'.outcome = "idempotent" =>
                 ModeOf(Routed) = Actual \/ (ModeOf(Routed) = CHARGE /\ Actual = IDLE)
  <1> DEFINE exempt == Operator \/ Draws
  <1>1. exempt \in BOOLEAN
    BY DEF Operator, Draws
  <1>2. \/ Superseded(ModeOf(Routed))
        \/ \E outcome \in Outcome : Decides(ModeOf(Routed), exempt, outcome)
    BY DEF Resolve
  <1>3. CASE Superseded(ModeOf(Routed))
    BY <1>3, SupersededAnswers
  <1>4. CASE \E outcome \in Outcome : Decides(ModeOf(Routed), exempt, outcome)
    BY <1>1, <1>4, DecideAnswers
  <1> QED BY <1>2, <1>3, <1>4

(* An operator is never told to wait by what the controller remembers.     *)
THEOREM OperatorHeard == Spec => OperatorActs
  <1>1. ASSUME IInv, [Next]_vars, Ticked, Operator, ~Guards
        PROVE  answer'.mode = ModeOf(obs.wish) /\ answer'.outcome \notin {"none", "held"}
    <2>1. Wanted = obs.wish /\ Wanted # "none"
      BY <1>1 DEF IInv, Validated, Wanted, Resumed, Guarded, Operator
    <2>2. ~Covers /\ ~AtReserve /\ ~Defers /\ FallsThrough
      BY <1>1 DEF Covers, AtReserve, Defers, FallsThrough
    <2>3. Resolve
      BY <1>1, <2>1, <2>2, OnlyTicksTick
         DEF Tick, NothingWanted, CarCommand, ReserveHold, Defer, Bridge, GraceAtFloor
    <2>4. Routed = obs.wish /\ ~Unconvinced
      BY <1>1, <2>1 DEF Routed, Latched, Unconvinced
    <2> QED BY <1>1, <2>3, <2>4, ResolveAnswers
  <1>2. IInv /\ [Next]_vars =>
            [Ticked /\ Operator /\ ~Guards =>
                answer'.mode = ModeOf(obs.wish) /\ answer'.outcome \notin {"none", "held"}]_vars
    BY <1>1
  <1> QED BY <1>2, TickInvariant, PTL DEF Spec, OperatorActs
(* What the car guard does, it does for a car that draws.                  *)
LEMMA GuardsDraw ==
    /\ Guards => Managed /\ Draws
    /\ Covers \/ AtReserve \/ Defers => Managed /\ Draws
  <1>1. Managed => Draws
    BY DEF Managed, Draws
  <1>2. ~Managed => CarAction = "none"
    BY DEF CarAction
  <1>3. Guards => Managed
    BY <1>2 DEF Guards
  <1> QED BY <1>1, <1>3 DEF Covers, AtReserve, Defers

(* On unsafe data nothing that is remembered keeps the battery in a forced *)
(* mode.                                                                   *)
THEOREM FailSafeHeard == Spec => UnsafeActs
  <1> DEFINE Safe == /\ answer'.mode \in {AUTO, IDLE}
                     /\ Actual \in {CHARGE, DISCHARGE} =>
                           answer'.outcome \in Attempted \cup {"superseded"}
  <1>1. ASSUME IInv, [Next]_vars, Ticked, obs.unsafe, obs.wish # "none"
        PROVE  Safe
    <2>1. obs.wish = "self" /\ ~Covers /\ ~Resumed
      BY <1>1 DEF IInv, Validated, Covers, Resumed
    <2>2. Wanted \in {"self", "hold"} /\ (Wanted = "hold" => Guards)
      BY <2>1 DEF Wanted, Guarded
    <2>3. ReserveHold \/ Resolve
      BY <1>1, <2>1, <2>2, OnlyTicksTick
         DEF Tick, NothingWanted, CarCommand, Defer, Defers, Bridge, GraceAtFloor, FallsThrough
    <2>4. CASE ReserveHold
      <3>1. Superseded(IDLE) \/ \E outcome \in Outcome : Decides(IDLE, TRUE, outcome)
        BY <2>4 DEF ReserveHold
      <3>2. CASE Superseded(IDLE)
        BY <3>2, SupersededAnswers
      <3>3. CASE \E outcome \in Outcome : Decides(IDLE, TRUE, outcome)
        BY <3>3, HoldAnswers
      <3> QED BY <3>1, <3>2, <3>3
    <2>5. CASE Resolve
      <3>1. Routed \in {"self", "hold"} /\ (Routed = "hold" => Guards \/ obs.seen = IDLE)
        BY <2>2 DEF Routed
      <3>2. ~Unconvinced
        BY <3>1, GuardsDraw DEF Unconvinced
      <3>3. ModeOf(Routed) \in {AUTO, IDLE} /\ (ModeOf(Routed) = IDLE => Routed = "hold")
        BY <3>1 DEF ModeOf
      <3>4. obs.seen = IDLE => Actual = IDLE
        BY DEF Actual
      <3>5. /\ answer'.mode = ModeOf(Routed)
            /\ answer'.outcome \in Outcome \cup {"superseded"}
            /\ answer'.outcome = "held" => ~Draws /\ ModeOf(Routed) # AUTO
            /\ answer'.outcome = "idempotent" =>
                  ModeOf(Routed) = Actual \/ (ModeOf(Routed) = CHARGE /\ Actual = IDLE)
        BY <2>5, <3>2, ResolveAnswers
      <3> QED BY <3>1, <3>3, <3>4, <3>5, GuardsDraw
    <2> QED BY <2>3, <2>4, <2>5
  <1>2. IInv /\ [Next]_vars => [Ticked /\ obs.unsafe /\ obs.wish # "none" => Safe]_vars
    BY <1>1
  <1> QED BY <1>2, TickInvariant, PTL DEF Spec, UnsafeActs

(* The session of an absent car runs out.                                  *)
THEOREM AbsenceRunsOut == Spec => AbsenceCounts
  <1>1. ASSUME IInv, [Next]_vars, Ticked, session.active, ~Draws
        PROVE  ~session'.active \/ session'.below = session.below + 1
    <2>1. Bridged.below = session.below + 1
      BY DEF IInv, TypeOK, Bridged, Session
    <2>2. session' = Bridged \/ session' = NoSession
      BY <1>1, OnlyTicksTick, GuardsDraw
         DEF Tick, NothingWanted, CarCommand, ReserveHold, Defer, Bridge, GraceAtFloor,
             Resolve
    <2> QED BY <2>1, <2>2, NoSessionIsASession
  <1>2. IInv /\ [Next]_vars =>
            [Ticked /\ session.active /\ ~Draws =>
                ~session'.active \/ session'.below = session.below + 1]_vars
    BY <1>1
  <1> QED BY <1>2, TickInvariant, PTL DEF Spec, AbsenceCounts

(* A stored charge is neither forgotten nor left waiting without reason.   *)
THEOREM CommitmentHeard == Spec => CommitmentActs
  <1> DEFINE Reason == looking /\ (obs.over \/ obs.unsafe \/ Operator)
             Acted == session.active \/ Covers \/ answer'.mode = CHARGE
  <1>1. ASSUME committed # Nobody PROVE Kept = Nobody => obs.over \/ obs.unsafe \/ Operator
    <2>1. CASE Abandoned
      BY <2>1 DEF Abandoned
    <2>2. CASE ~Abandoned
      BY <1>1, <2>2 DEF Kept
    <2> QED BY <2>1, <2>2
  <1>2. ASSUME committed # Nobody, Tick
        PROVE  committed' = Nobody => Kept = Nobody /\ looking
    <2>1. committed' = Kept \/ (committed' \in Committers /\ Resolve)
      BY <1>2 DEF Tick, NothingWanted, CarCommand, ReserveHold, Defer, Bridge,
                  GraceAtFloor, Resolve
    <2>2. Nobody \in Committers => Kept = Nobody
      BY DEF Committers
    <2>3. looking
      BY <1>2 DEF Tick, NothingWanted, CarCommand, ReserveHold, Defer, Bridge,
                  GraceAtFloor, Resolve, Ticking
    <2> QED BY <2>1, <2>2, <2>3
  <1>3. ASSUME IInv, [Next]_vars, committed # Nobody, committed' = Nobody
        PROVE  Reason
    <2>1. CASE Tick
      BY <1>1, <1>2, <1>3, <2>1
    <2>2. CASE ObservingTick
      BY <1>3, <2>2 DEF ObservingTick
    <2>3. CASE ~Tick /\ ~ObservingTick
      BY <1>3, <2>3 DEF Next, Cycle, Observe, Report, TakeControl, TimePasses, Drift,
                        Restart, vars
    <2> QED BY <2>1, <2>2, <2>3
  <1>4. ASSUME IInv, [Next]_vars, committed # Nobody, Ticked, Resumed
        PROVE  committed' # Nobody /\ Acted
    <2>1. Tick
      BY <1>4, OnlyTicksTick
    <2>2. Kept # Nobody
      BY <1>1, <1>4 DEF Resumed
    <2>3. Wanted = "charge" /\ Routed = "charge" /\ ~Unconvinced
      BY <1>4 DEF Wanted, Routed, Latched, Unconvinced
    <2>4. ASSUME Resolve PROVE answer'.mode = CHARGE
      <3>1. ModeOf("charge") = CHARGE
        BY DEF ModeOf
      <3> QED BY <2>3, <2>4, <3>1, ResolveAnswers
    <2>5. ASSUME ~Resolve PROVE session.active \/ Covers
      BY <2>1, <2>3, <2>5 DEF Tick, NothingWanted, CarCommand, ReserveHold, AtReserve,
                              Defer, Defers, Bridge, GraceAtFloor, InGrace
    <2>6. committed' # Nobody
      BY <1>2, <1>4, <2>1, <2>2
    <2> QED BY <2>4, <2>5, <2>6
  <1>5. IInv /\ [Next]_vars =>
            [committed # Nobody =>
                /\ Ticked /\ Resumed => committed' # Nobody /\ Acted
                /\ committed' = Nobody => Reason]_vars
    BY <1>3, <1>4
  <1> QED BY <1>5, TickInvariant, PTL DEF Spec, CommitmentActs

(* The car is not left to drain the battery.                               *)
THEOREM CarGuarded == Spec => CarNeverFed
  <1> DEFINE Fed == /\ answer'.mode # AUTO
                    /\ obs.seen = AUTO /\ ~(session.active /\ session.age = "fresh") =>
                          answer'.outcome \in Attempted \cup {"superseded"}
  <1>1. ASSUME IInv, [Next]_vars, Ticked, Managed, obs.soc = "ok",
               Wanted \notin {"none", "charge"}
        PROVE  Fed
    <2>1. CarAction \in {"hold", "discharge"} /\ ~AtReserve /\ Draws
      BY <1>1 DEF CarAction, AtReserve, Managed, Draws
    <2>2. ~Resumed /\ Wanted = Guarded
      BY <1>1 DEF Wanted
    <2>3. CarCommand \/ Resolve
      BY <1>1, <2>1, OnlyTicksTick
         DEF Tick, NothingWanted, ReserveHold, Defer, Defers, Bridge, GraceAtFloor, InGrace
    <2>4. obs.seen = AUTO => Actual = AUTO
      BY DEF Actual
    <2>5. CASE CarCommand
      <3>1. CASE \E outcome \in Attempted : Sends(DISCHARGE, outcome)
        BY <3>1, SendAnswers
      <3>2. CASE \E outcome \in Outcome : Decides(IDLE, TRUE, outcome)
        BY <2>4, <3>2, HoldAnswers
      <3>3. CASE Superseded(IF Spent THEN IDLE ELSE DISCHARGE)
        <4>1. CASE Spent
          BY <3>3, <4>1, SupersededAnswers
        <4>2. CASE ~Spent
          BY <3>3, <4>2, SupersededAnswers
        <4> QED BY <4>1, <4>2
      <3>4. ASSUME NEW moved \in BOOLEAN, ~Reconcile, Recommand(moved) => Spent, Quiet
            PROVE  Fed
        <4>1. answer'.mode = Nobody
          BY <3>4 DEF Quiet, Says
        <4>2. ASSUME obs.seen = AUTO PROVE session.active /\ session.age = "fresh"
          <5>1. session.active
            BY <1>1, <3>4, TickAssumption
               DEF Recommand, Spent, IInv, TypeOK, NoSession
          <5> QED BY <3>4, <4>2, <5>1 DEF Reconcile
        <4> QED BY <4>1, <4>2
      <3> QED BY <2>5, <3>1, <3>2, <3>3, <3>4 DEF CarCommand
    <2>6. CASE Resolve
      <3>1. ~Covers
        BY <2>6 DEF Resolve, Ordinary
      <3>2. Routed = "hold" /\ ~Unconvinced
        BY <1>1, <2>1, <2>2, <3>1
           DEF Guarded, Guards, Routed, Latched, Unconvinced, IInv, TypeOK, Observation
      <3>3. ModeOf(Routed) = IDLE
        BY <3>2 DEF ModeOf
      <3> QED BY <2>1, <2>4, <2>6, <3>2, <3>3, ResolveAnswers
    <2> QED BY <2>3, <2>5, <2>6
  <1>2. IInv /\ [Next]_vars =>
            [Ticked /\ Managed /\ obs.soc = "ok" /\ Wanted \notin {"none", "charge"} => Fed]_vars
    BY <1>1
  <1> QED BY <1>2, TickInvariant, PTL DEF Spec, CarNeverFed
=============================================================================
