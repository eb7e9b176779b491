------------------------- MODULE ModeController_proofs -------------------------
(***************************************************************************)
(* The daily caps, the dwell and the restart gate's flag hold for every    *)
(* value of the constants of ModeController: IInv is inductive, and each   *)
(* property follows from it.                                               *)
(***************************************************************************)
EXTENDS ModeController, TLAPS

USE DEF AUTO, CHARGE, IDLE, DISCHARGE, NoMode, Never

(* NoMode is no mode, so NoCommand is no command. *)
LEMMA NoModeIsNoMode == NoMode \notin Mode
  BY ModesAreKnown

LEMMA PlanCommandFields ==
    ASSUME NEW cmd \in PlanCommand
    PROVE  cmd.desired \in Mode /\ cmd.bypass \in BOOLEAN /\ cmd.counts = TRUE
  BY DEF PlanCommand

LEMMA CarCommandFields ==
    ASSUME NEW cmd \in CarCommand
    PROVE  cmd.desired \in Mode /\ cmd.bypass = TRUE /\ cmd.counts = FALSE
  BY ModesAreKnown DEF CarCommand

LEMMA DirectAutoFields ==
    DirectAuto.desired \in Mode /\ DirectAuto.bypass = TRUE /\ DirectAuto.counts = FALSE
  BY ModesAreKnown DEF DirectAuto

LEMMA NoCommandFields ==
    NoCommand.desired = NoMode /\ NoCommand.counts = FALSE
  BY DEF NoCommand

(* Every command asks for a mode; the planner's own commands count.        *)
LEMMA CommandFields ==
    ASSUME NEW cmd \in Command
    PROVE  /\ cmd.desired \in Mode
           /\ cmd.bypass \in BOOLEAN
           /\ cmd.counts \in BOOLEAN
           /\ cmd # NoCommand
           /\ Automatic(cmd) => cmd.counts
  <1>1. CASE cmd \in PlanCommand
    BY <1>1, PlanCommandFields, NoCommandFields, NoModeIsNoMode
  <1>2. CASE cmd \in CarCommand
    BY <1>2, CarCommandFields, NoCommandFields, NoModeIsNoMode DEF Automatic
  <1>3. CASE cmd = DirectAuto
    BY <1>3, DirectAutoFields, NoCommandFields, NoModeIsNoMode DEF Automatic
  <1> QED
    BY <1>1, <1>2, <1>3 DEF Command

(* The local dates are natural numbers, today's among them. *)
LEMMA Dates ==
    /\ Day \subseteq Nat
    /\ now \in Time => Today \in Day
  BY DatesAreOrdered DEF Day, Today

LEMMA InitIInv == Init => IInv
  <1> SUFFICES ASSUME Init PROVE IInv
    OBVIOUS
  <1>1. TypeOK
    <2>1. Fresh \in State
      BY DEF Fresh, State
    <2>2. Snapshot = Fresh
      BY DEF Init, Snapshot, Fresh
    <2>3. now \in Time /\ faults \in Nat
      BY TimesAreNat DEF Init, Time
    <2>4. routineSent \in [Day -> Nat] /\ commitmentSent \in [Day -> Nat]
      BY DEF Init
    <2> QED
      BY <2>1, <2>2, <2>3, <2>4 DEF Init, TypeOK
  <1>2. Today \in Nat
    BY <1>1, Dates DEF TypeOK
  <1>3. CommandWhileUp /\ DwellRemembered /\ FateRemembered
    BY DEF Init, CommandWhileUp, DwellRemembered, FateRemembered, NoCommand
  <1>4. CountsRemembered
    BY <1>2, Dates DEF Init, CountsRemembered, Accounts, PendingRoutine, PendingCommitment, NoCommand
  <1>5. DailyCapsHold
    BY CapsAreNat DEF Init, DailyCapsHold, WithinCaps
  <1> QED
    BY <1>1, <1>3, <1>4, <1>5 DEF IInv

(* A snapshot is well-formed exactly when the fields it was taken of are. *)
LEMMA SnapshotFields ==
    (Snapshot \in State) <=>
        /\ switches \in Nat
        /\ commitments \in Nat
        /\ lastSwitchAt \in Time \cup {Never}
        /\ counterDate \in Day \cup {Never}
        /\ lastRequested \in Mode \cup {NoMode}
        /\ lastConfirmed \in Mode \cup {NoMode}
        /\ originalMode \in {NoMode, "vendor", "ems"}
        /\ unconfirmed \in BOOLEAN
  BY DEF Snapshot, State

LEMMA SnapshotFieldsNext ==
    (Snapshot' \in State) <=>
        /\ switches' \in Nat
        /\ commitments' \in Nat
        /\ lastSwitchAt' \in Time \cup {Never}
        /\ counterDate' \in Day \cup {Never}
        /\ lastRequested' \in Mode \cup {NoMode}
        /\ lastConfirmed' \in Mode \cup {NoMode}
        /\ originalMode' \in {NoMode, "vendor", "ems"}
        /\ unconfirmed' \in BOOLEAN
  BY DEF Snapshot, State

LEMMA StateFields ==
    ASSUME NEW st \in State
    PROVE  /\ st.switches \in Nat
           /\ st.commitments \in Nat
           /\ st.lastSwitchAt \in Time \cup {Never}
           /\ st.counterDate \in Day \cup {Never}
           /\ st.lastRequested \in Mode \cup {NoMode}
           /\ st.lastConfirmed \in Mode \cup {NoMode}
           /\ st.originalMode \in {NoMode, "vendor", "ems"}
           /\ st.unconfirmed \in BOOLEAN
  BY DEF State

(* Sending a command keeps the histories in their types, and counts it at  *)
(* most once, today.                                                       *)
LEMMA SendCommandCounts ==
    ASSUME TypeOK, NEW cmd \in Command, SendCommand(cmd)
    PROVE  /\ command' \in Command
           /\ commandAt' \in Time
           /\ routineSent' \in [Day -> Nat]
           /\ commitmentSent' \in [Day -> Nat]
           /\ lastCounted' \in Time \cup {Never}
           /\ taken' \in BOOLEAN
           /\ \A d \in Day \ {Today} : /\ routineSent'[d] = routineSent[d]
                                       /\ commitmentSent'[d] = commitmentSent[d]
           /\ routineSent'[Today] = routineSent[Today] +
                  (IF Automatic(cmd) /\ cmd.desired # CHARGE THEN 1 ELSE 0)
           /\ commitmentSent'[Today] = commitmentSent[Today] +
                  (IF Automatic(cmd) /\ cmd.desired = CHARGE THEN 1 ELSE 0)
  <1>1. Today \in Day /\ now \in Time
    BY Dates DEF TypeOK
  <1>2. routineSent \in [Day -> Nat] /\ commitmentSent \in [Day -> Nat]
    BY DEF TypeOK
  <1>3. command' \in Command /\ commandAt' \in Time
    BY <1>1 DEF SendCommand
  <1>4. lastCounted' \in Time \cup {Never} /\ taken' \in BOOLEAN
    BY <1>1 DEF SendCommand, TypeOK
  <1>5. /\ routineSent' \in [Day -> Nat]
        /\ \A d \in Day \ {Today} : routineSent'[d] = routineSent[d]
        /\ routineSent'[Today] = routineSent[Today] +
              (IF Automatic(cmd) /\ cmd.desired # CHARGE THEN 1 ELSE 0)
    <2> DEFINE isOne == Automatic(cmd) /\ cmd.desired # CHARGE
    <2>1. routineSent' = Count(routineSent, isOne)
      BY DEF SendCommand
    <2> HIDE DEF isOne
    <2>2. /\ routineSent' \in [Day -> Nat]
          /\ \A d \in Day \ {Today} : routineSent'[d] = routineSent[d]
          /\ routineSent'[Today] = routineSent[Today] + (IF isOne THEN 1 ELSE 0)
      BY <1>1, <1>2, <2>1 DEF Count
    <2> QED
      BY <2>2 DEF isOne
  <1>6. /\ commitmentSent' \in [Day -> Nat]
        /\ \A d \in Day \ {Today} : commitmentSent'[d] = commitmentSent[d]
        /\ commitmentSent'[Today] = commitmentSent[Today] +
              (IF Automatic(cmd) /\ cmd.desired = CHARGE THEN 1 ELSE 0)
    <2> DEFINE isOne == Automatic(cmd) /\ cmd.desired = CHARGE
    <2>1. commitmentSent' = Count(commitmentSent, isOne)
      BY DEF SendCommand
    <2> HIDE DEF isOne
    <2>2. /\ commitmentSent' \in [Day -> Nat]
          /\ \A d \in Day \ {Today} : commitmentSent'[d] = commitmentSent[d]
          /\ commitmentSent'[Today] = commitmentSent[Today] + (IF isOne THEN 1 ELSE 0)
      BY <1>1, <1>2, <2>1 DEF Count
    <2> QED
      BY <2>2 DEF isOne
  <1> QED
    BY <1>3, <1>4, <1>5, <1>6

(* Passing the gate on a new day starts from zero; on the counted day the  *)
(* counters are below their cap when the command is the planner's own.     *)
LEMMA DecideIInv ==
    ASSUME IInv, NEW cmd \in PlanCommand \cup CarCommand, NEW observed \in Mode,
           Decide(cmd, observed)
    PROVE  IInv'
  <1>1. /\ TypeOK /\ up /\ command = NoCommand
        /\ cmd \in Command
        /\ Today \in Day /\ Today' = Today
        /\ Day \subseteq Nat
    BY Dates DEF IInv, TypeOK, Decide, Command, Today
  <1>2. Snapshot \in State /\ disk \in State
    BY <1>1 DEF TypeOK
  <1>3. /\ cmd.desired \in Mode
        /\ Automatic(cmd) => cmd.counts
    BY <1>1, CommandFields
  <1>4. /\ command' \in Command
        /\ commandAt' \in Time
        /\ routineSent' \in [Day -> Nat]
        /\ commitmentSent' \in [Day -> Nat]
        /\ lastCounted' \in Time \cup {Never}
        /\ taken' \in BOOLEAN
        /\ \A d \in Day \ {Today} : /\ routineSent'[d] = routineSent[d]
                                    /\ commitmentSent'[d] = commitmentSent[d]
        /\ routineSent'[Today] = routineSent[Today] +
               (IF Automatic(cmd) /\ cmd.desired # CHARGE THEN 1 ELSE 0)
        /\ commitmentSent'[Today] = commitmentSent[Today] +
               (IF Automatic(cmd) /\ cmd.desired = CHARGE THEN 1 ELSE 0)
    BY <1>1, SendCommandCounts DEF Decide
  <1>5. TypeOK'
    <2>1. /\ switches' \in Nat /\ commitments' \in Nat
          /\ lastSwitchAt' \in Time \cup {Never} /\ counterDate' \in Day \cup {Never}
          /\ lastRequested' \in Mode \cup {NoMode}
          /\ lastConfirmed' \in Mode \cup {NoMode}
          /\ unconfirmed' \in BOOLEAN
      BY <1>1, <1>2, <1>3, SnapshotFields DEF Decide
    <2>2. originalMode' \in {NoMode, "vendor", "ems"} /\ faults' \in Nat
      BY <1>1, <1>2, SnapshotFields DEF Decide, CaptureOriginal, CurrentMode, Fault, TypeOK
    <2>3. Snapshot' \in State
      BY <2>1, <2>2, SnapshotFieldsNext
    <2>4. /\ now' \in Time /\ up' \in BOOLEAN /\ disk' \in State
          /\ commandUnknown' \in BOOLEAN /\ lost' \in BOOLEAN
      BY <1>1 DEF Decide, SendCommand, TypeOK
    <2> QED
      BY <2>2, <2>3, <2>4, <1>4 DEF TypeOK
  <1>6. CommandWhileUp' /\ DwellRemembered' /\ FateRemembered'
    <2>1. command' = cmd /\ up' /\ command' # NoCommand
      BY <1>1, CommandFields DEF Decide, SendCommand
    <2>2. DwellRemembered'
      BY <1>1, <2>1, NoCommandFields DEF IInv, DwellRemembered, Decide, SendCommand
    <2> QED
      BY <2>1, <2>2 DEF CommandWhileUp, FateRemembered
  <1>7. ASSUME ~lost'
        PROVE  /\ Accounts(counterDate, switches + PendingRoutine,
                           commitments + PendingCommitment)'
               /\ WithinCaps'
    <2>1. /\ Accounts(counterDate, switches, commitments)
          /\ WithinCaps
      <3>1. PendingRoutine = 0 /\ PendingCommitment = 0
        BY <1>1, NoCommandFields DEF PendingRoutine, PendingCommitment
      <3>2. switches \in Nat /\ commitments \in Nat
        BY <1>2, SnapshotFields
      <3>3. ~lost
        BY <1>7 DEF Decide
      <3> QED
        BY <1>1, <3>1, <3>2, <3>3 DEF IInv, CountsRemembered, DailyCapsHold
    <2>2. /\ routineSent \in [Day -> Nat] /\ commitmentSent \in [Day -> Nat]
          /\ switches \in Nat /\ commitments \in Nat
          /\ counterDate \in Day \cup {Never}
      BY <1>1, <1>2, SnapshotFields DEF TypeOK
    <2>3. /\ routineSent[Today] <= switches' /\ commitmentSent[Today] <= commitments'
          /\ \A d \in Day : d > Today => routineSent[d] = 0 /\ commitmentSent[d] = 0
      <3>1. CASE NewDay
        <4>1. switches' = 0 /\ commitments' = 0
          BY <3>1 DEF Decide
        <4>2. Today > counterDate
          BY <1>1, <2>1, <2>2, <3>1 DEF NewDay, Accounts
        <4>3. \A d \in Day : d >= Today => routineSent[d] = 0 /\ commitmentSent[d] = 0
          BY <1>1, <2>1, <2>2, <4>2 DEF Accounts
        <4> QED
          BY <1>1, <4>1, <4>3
      <3>2. CASE ~NewDay
        BY <1>1, <2>1, <2>2, <3>2 DEF NewDay, Accounts, Decide
      <3> QED
        BY <3>1, <3>2
    <2>4. /\ PendingRoutine' >= (IF Automatic(cmd) /\ cmd.desired # CHARGE THEN 1 ELSE 0)
          /\ PendingCommitment' >= (IF Automatic(cmd) /\ cmd.desired = CHARGE THEN 1 ELSE 0)
          /\ PendingRoutine' \in Nat /\ PendingCommitment' \in Nat
      <3>1. command' = cmd
        BY DEF Decide, SendCommand
      <3> QED
        BY <1>3, <3>1 DEF PendingRoutine, PendingCommitment, Automatic
    <2>5. /\ counterDate' = Today /\ switches' \in Nat /\ commitments' \in Nat
      BY <1>5, SnapshotFieldsNext DEF Decide, TypeOK
    <2>6. Accounts(counterDate, switches + PendingRoutine,
                   commitments + PendingCommitment)'
      <3>1. routineSent'[Today] <= switches' + PendingRoutine'
        BY <1>1, <1>4, <2>2, <2>3, <2>4, <2>5
      <3>2. commitmentSent'[Today] <= commitments' + PendingCommitment'
        BY <1>1, <1>4, <2>2, <2>3, <2>4, <2>5
      <3>3. \A d \in Day : d > Today => routineSent'[d] = 0 /\ commitmentSent'[d] = 0
        BY <1>1, <1>4, <2>3
      <3> QED
        BY <1>1, <2>5, <3>1, <3>2, <3>3 DEF Accounts
    <2>7. Automatic(cmd) /\ cmd.desired # CHARGE => routineSent[Today] + 1 <= RoutineCap
      <3> SUFFICES ASSUME Automatic(cmd), cmd.desired # CHARGE
                   PROVE  routineSent[Today] + 1 <= RoutineCap
        OBVIOUS
      <3>1. ~(Effective(switches) >= RoutineCap)
        BY DEF Decide, GateOpen, CapReached
      <3>2. switches' <= Effective(switches) /\ Effective(switches) \in Nat
        BY <2>2 DEF Decide, Effective, NewDay
      <3> QED
        BY <1>1, <2>2, <2>3, <2>5, <3>1, <3>2, CapsAreNat
    <2>8. Automatic(cmd) /\ cmd.desired = CHARGE => commitmentSent[Today] + 1 <= CommitmentCap
      <3> SUFFICES ASSUME Automatic(cmd), cmd.desired = CHARGE
                   PROVE  commitmentSent[Today] + 1 <= CommitmentCap
        OBVIOUS
      <3>1. ~(Effective(commitments) >= CommitmentCap)
        BY DEF Decide, GateOpen, CapReached
      <3>2. commitments' <= Effective(commitments) /\ Effective(commitments) \in Nat
        BY <2>2 DEF Decide, Effective, NewDay
      <3> QED
        BY <1>1, <2>2, <2>3, <2>5, <3>1, <3>2, CapsAreNat
    <2>9. WithinCaps'
      BY <1>1, <1>4, <2>1, <2>2, <2>7, <2>8, CapsAreNat DEF WithinCaps
    <2> QED
      BY <2>6, <2>9
  <1>8. CountsRemembered' /\ DailyCapsHold'
    BY <1>1, <1>7 DEF CountsRemembered, DailyCapsHold, Decide
  <1> QED
    BY <1>5, <1>6, <1>8 DEF IInv

(* An AUTO outside decide() counts nowhere. *)
LEMMA SendAutoIInv ==
    ASSUME IInv, SendAuto
    PROVE  IInv'
  <1>1. TypeOK /\ up /\ command = NoCommand /\ DirectAuto \in Command /\ Today' = Today
    BY DEF IInv, SendAuto, Command, Today
  <1>2. SendCommand(DirectAuto)
    BY DEF SendAuto
  <1>3. ~Automatic(DirectAuto)
    BY DirectAutoFields DEF Automatic
  <1>4. /\ command' = DirectAuto /\ commandAt' \in Time
        /\ routineSent' = routineSent /\ commitmentSent' = commitmentSent
        /\ lastCounted' = lastCounted
        /\ taken' \in BOOLEAN
    <2>1. commandAt' \in Time /\ taken' \in BOOLEAN /\ command' = DirectAuto
      BY <1>1, <1>2, SendCommandCounts DEF SendCommand
    <2> QED
      BY <1>2, <1>3, <2>1, DirectAutoFields DEF SendCommand, Count
  <1>5. TypeOK'
    <2>1. Snapshot' = Snapshot
      BY DEF SendAuto, counters, beliefs, Snapshot
    <2> QED
      BY <1>1, <1>2, <1>4, <2>1 DEF TypeOK, SendAuto, SendCommand
  <1>6. /\ PendingRoutine = 0 /\ PendingCommitment = 0
        /\ PendingRoutine' = 0 /\ PendingCommitment' = 0
    BY <1>1, <1>4, NoCommandFields, DirectAutoFields DEF PendingRoutine, PendingCommitment
  <1>7. CountsRemembered' /\ DailyCapsHold'
    BY <1>1, <1>4, <1>6
    DEF IInv, SendAuto, counters, CountsRemembered, Accounts, DailyCapsHold, WithinCaps
  <1>8. DwellRemembered'
    BY <1>1, <1>4, NoCommandFields, DirectAutoFields
    DEF IInv, SendAuto, counters, DwellRemembered
  <1>9. CommandWhileUp' /\ FateRemembered'
    BY <1>1, <1>4, CommandFields DEF SendAuto, CommandWhileUp, FateRemembered
  <1> QED
    BY <1>5, <1>7, <1>8, <1>9 DEF IInv

(* Recording an answer moves what was pending into the counters, and the   *)
(* send time into the dwell.                                               *)
LEMMA AnsweredCounts ==
    ASSUME IInv, Answered, RecordSwitch
    PROVE  /\ CommandWhileUp' /\ DwellRemembered' /\ CountsRemembered' /\ DailyCapsHold'
           /\ switches' \in Nat /\ commitments' \in Nat
           /\ lastSwitchAt' \in Time \cup {Never}
  <1>1. /\ TypeOK /\ up /\ up' /\ command # NoCommand /\ command' = NoCommand
        /\ command \in Command
        /\ Today' = Today
        /\ Snapshot \in State
        /\ lost' = lost
    BY DEF IInv, TypeOK, Answered, Today
  <1>2. /\ switches \in Nat /\ commitments \in Nat
        /\ lastSwitchAt \in Time \cup {Never} /\ commandAt \in Time \cup {Never}
        /\ command.counts \in BOOLEAN
    BY <1>1, SnapshotFields, CommandFields DEF TypeOK
  <1>3. /\ switches' = switches + PendingRoutine
        /\ commitments' = commitments + PendingCommitment
    BY <1>2 DEF RecordSwitch, PendingRoutine, PendingCommitment
  <1>4. PendingRoutine \in Nat /\ PendingCommitment \in Nat
        /\ PendingRoutine' = 0 /\ PendingCommitment' = 0
    BY <1>1, NoCommandFields DEF PendingRoutine, PendingCommitment
  <1>5. /\ switches' + PendingRoutine' = switches + PendingRoutine
        /\ commitments' + PendingCommitment' = commitments + PendingCommitment
    BY <1>2, <1>3, <1>4
  <1>6. CountsRemembered' /\ DailyCapsHold'
    BY <1>1, <1>5
    DEF IInv, Answered, sent, CountsRemembered, Accounts, DailyCapsHold, WithinCaps
  <1>7. DwellRemembered'
    BY <1>1, <1>2, NoCommandFields
    DEF IInv, Answered, sent, RecordSwitch, DwellRemembered
  <1>8. CommandWhileUp'
    BY <1>1 DEF CommandWhileUp
  <1>9. lastSwitchAt' \in Time \cup {Never}
    BY <1>2 DEF RecordSwitch
  <1> QED
    BY <1>2, <1>3, <1>4, <1>6, <1>7, <1>8, <1>9

(* Whatever the answer, the record of it has the right type and says       *)
(* whether the command's fate is known.                                    *)
LEMMA AnswerIInv ==
    ASSUME IInv, Answered, RecordSwitch, Persist,
           lastConfirmed' \in Mode \cup {NoMode},
           unconfirmed' \in BOOLEAN,
           commandUnknown' \in BOOLEAN,
           commandUnknown' => unconfirmed'
    PROVE  IInv'
  <1>1. CommandWhileUp' /\ DwellRemembered' /\ CountsRemembered' /\ DailyCapsHold'
    BY AnsweredCounts
  <1>2. FateRemembered'
    BY DEF Answered, FateRemembered
  <1>3. TypeOK'
    <2>1. TypeOK /\ Snapshot \in State
      BY DEF IInv, TypeOK
    <2>2. /\ counterDate' \in Day \cup {Never}
          /\ lastRequested' \in Mode \cup {NoMode}
          /\ originalMode' \in {NoMode, "vendor", "ems"}
      BY <2>1, SnapshotFields DEF Answered
    <2>3. Snapshot' \in State
      BY <2>2, AnsweredCounts, SnapshotFieldsNext
    <2>4. disk' \in State /\ faults' \in Nat
      BY <2>1, <2>3 DEF Persist, Fault, TypeOK
    <2> QED
      BY <2>1, <2>3, <2>4 DEF TypeOK, Answered, sent
  <1> QED
    BY <1>1, <1>2, <1>3 DEF IInv

LEMMA AcceptedIInv ==
    ASSUME IInv, Accepted
    PROVE  IInv'
  <1>1. command \in Command
    BY DEF IInv, TypeOK, Accepted, Answered
  <1>2. lastConfirmed' \in Mode \cup {NoMode}
    BY <1>1, CommandFields DEF Accepted
  <1> QED
    BY <1>2, AnswerIInv DEF Accepted

LEMMA UnconfirmedIInv ==
    ASSUME IInv, Unconfirmed
    PROVE  IInv'
  <1>1. Snapshot \in State /\ commandUnknown \in BOOLEAN
    BY DEF IInv, TypeOK
  <1>2. lastConfirmed' \in Mode \cup {NoMode} /\ commandUnknown' \in BOOLEAN
    BY <1>1, SnapshotFields DEF Unconfirmed
  <1> QED
    BY <1>2, AnswerIInv DEF Unconfirmed

LEMMA RejectedIInv ==
    ASSUME IInv, Rejected
    PROVE  IInv'
  <1>1. commandUnknown \in BOOLEAN
    BY DEF IInv, TypeOK
  <1>2. /\ lastConfirmed' \in Mode \cup {NoMode}
        /\ unconfirmed' \in BOOLEAN
        /\ commandUnknown' \in BOOLEAN
        /\ commandUnknown' => unconfirmed'
    BY <1>1, ModesAreKnown DEF Rejected
  <1> QED
    BY <1>2, AnswerIInv DEF Rejected

(* A process that dies without losing anything leaves its memory in the row. *)
LEMMA CrashIInv ==
    ASSUME IInv, Crash
    PROVE  IInv'
  <1>1. /\ TypeOK /\ up /\ ~up' /\ command' = NoCommand /\ Today' = Today
        /\ Snapshot' = Snapshot /\ disk' = disk
    BY DEF IInv, Crash, counters, beliefs, Snapshot, Today
  <1>2. TypeOK'
    <2>1. lost' \in BOOLEAN
      BY DEF Crash
    <2>2. faults' \in Nat /\ commandAt' \in Time \cup {Never}
      BY <1>1 DEF TypeOK, Crash, Fault
    <2> QED
      BY <1>1, <2>1, <2>2 DEF TypeOK, Crash, sent
  <1>3. CommandWhileUp'
    BY <1>1 DEF CommandWhileUp
  <1>4. ASSUME ~lost'
        PROVE  /\ ~lost /\ command = NoCommand
               /\ disk.counterDate = counterDate /\ disk.lastSwitchAt = lastSwitchAt
               /\ disk.switches = switches /\ disk.commitments = commitments
               /\ disk.unconfirmed = unconfirmed
    <2>1. ~lost /\ command = NoCommand /\ disk = Snapshot
      BY <1>4, Zenon DEF Crash
    <2> QED
      BY <2>1 DEF Snapshot
  <1>5. ASSUME ~lost'
        PROVE  PendingRoutine = 0 /\ PendingCommitment = 0
    BY <1>4, <1>5, NoCommandFields DEF PendingRoutine, PendingCommitment
  <1>6. CountsRemembered'
    <2> SUFFICES ASSUME ~lost'
                 PROVE  Accounts(disk.counterDate, disk.switches, disk.commitments)'
      BY <1>1 DEF CountsRemembered
    <2>1. Accounts(counterDate, switches, commitments)
      <3>1. switches \in Nat /\ commitments \in Nat
        BY <1>1, SnapshotFields DEF TypeOK
      <3> QED
        BY <1>1, <1>4, <1>5, <3>1 DEF IInv, CountsRemembered
    <2> QED
      BY <1>1, <1>4, <2>1 DEF Accounts, Crash, sent
  <1>7. DwellRemembered'
    BY <1>1, <1>4, NoCommandFields DEF IInv, DwellRemembered, Crash, sent
  <1>8. FateRemembered'
    BY <1>1, <1>4 DEF IInv, FateRemembered, Crash
  <1>9. DailyCapsHold'
    BY <1>4 DEF IInv, DailyCapsHold, WithinCaps, Crash, sent
  <1> QED
    BY <1>2, <1>3, <1>6, <1>7, <1>8, <1>9 DEF IInv

(* A process that reads the row takes its memory over; one that cannot     *)
(* read it has lost it.                                                    *)
LEMMA BootIInv ==
    ASSUME IInv, Boot
    PROVE  IInv'
  <1>1. /\ TypeOK /\ ~up /\ up' /\ command = NoCommand /\ command' = NoCommand
        /\ Today' = Today /\ disk' = disk
    BY DEF IInv, CommandWhileUp, Boot, Today
  <1>2. Corrupt \in State /\ disk \in State
    BY <1>1 DEF Corrupt, Fresh, State, TypeOK
  <1>3. Snapshot' \in State /\ faults' \in Nat /\ lost' \in BOOLEAN
    <2>1. ASSUME NEW st \in State, Restore(st)
          PROVE  Snapshot' \in State
      BY <2>1, StateFields, SnapshotFieldsNext DEF Restore
    <2>2. Snapshot' \in State
      BY <1>2, <2>1 DEF Boot
    <2>3. faults' \in Nat
      BY <1>1 DEF Boot, Fault, TypeOK
    <2>4. lost' \in BOOLEAN
      <3>1. lost' = lost \/ lost' = TRUE
        BY DEF Boot
      <3> QED
        BY <1>1, <3>1 DEF TypeOK
    <2> QED
      BY <2>2, <2>3, <2>4
  <1>4. TypeOK'
    BY <1>1, <1>3 DEF TypeOK, Boot, sent
  <1>5. CommandWhileUp'
    BY <1>1 DEF CommandWhileUp
  <1>6. PendingRoutine' = 0 /\ PendingCommitment' = 0
    BY <1>1, NoCommandFields DEF PendingRoutine, PendingCommitment
  <1>7. ASSUME ~lost'
        PROVE  /\ ~lost
               /\ counterDate' = disk.counterDate /\ lastSwitchAt' = disk.lastSwitchAt
               /\ switches' = disk.switches /\ commitments' = disk.commitments
               /\ unconfirmed' = disk.unconfirmed
    <2>1. ~lost /\ Restore(disk)
      BY <1>7 DEF Boot
    <2> QED
      BY <2>1 DEF Restore
  <1>8. CountsRemembered'
    <2> SUFFICES ASSUME ~lost'
                 PROVE  Accounts(counterDate, switches + PendingRoutine,
                                 commitments + PendingCommitment)'
      BY <1>1 DEF CountsRemembered
    <2>1. Accounts(disk.counterDate, disk.switches, disk.commitments)
      BY <1>1, <1>7 DEF IInv, CountsRemembered
    <2>2. switches' + PendingRoutine' = disk.switches
          /\ commitments' + PendingCommitment' = disk.commitments
      BY <1>2, <1>6, <1>7, StateFields
    <2> QED
      BY <1>1, <1>7, <2>1, <2>2 DEF Accounts, Boot, sent
  <1>9. DwellRemembered'
    BY <1>1, <1>7, NoCommandFields DEF IInv, DwellRemembered, Boot, sent
  <1>10. FateRemembered'
    BY <1>1, <1>7 DEF IInv, FateRemembered, Boot
  <1>11. DailyCapsHold'
    BY <1>7 DEF IInv, DailyCapsHold, WithinCaps, Boot, sent
  <1> QED
    BY <1>4, <1>5, <1>8, <1>9, <1>10, <1>11 DEF IInv

(* The local date does not go back. *)
LEMMA TimePassesIInv ==
    ASSUME IInv, TimePasses
    PROVE  IInv'
  <1>1. /\ TypeOK /\ up' = up /\ command' = command /\ disk' = disk /\ lost' = lost
        /\ Snapshot' = Snapshot
        /\ PendingRoutine' = PendingRoutine /\ PendingCommitment' = PendingCommitment
    BY DEF IInv, TimePasses, counters, beliefs, Snapshot, PendingRoutine, PendingCommitment
  <1>2. now' \in Time /\ Today \in Nat /\ Today' \in Nat /\ Today <= Today'
    <2>1. now \in Time /\ now' \in Time /\ now <= now'
      BY <1>1, TimesAreNat DEF TypeOK, TimePasses, Time
    <2> QED
      BY <2>1, DatesAreOrdered DEF Today
  <1>3. TypeOK'
    BY <1>1, <1>2 DEF TypeOK, TimePasses, sent
  <1>4. ASSUME NEW date \in Day \cup {Never}, NEW r, NEW c, Accounts(date, r, c)
        PROVE  /\ date <= Today'
               /\ \A d \in Day : d > date => routineSent'[d] = 0 /\ commitmentSent'[d] = 0
               /\ \A d \in Day : d = date => routineSent'[d] <= r /\ commitmentSent'[d] <= c
    <2>1. routineSent' = routineSent /\ commitmentSent' = commitmentSent
      BY DEF TimePasses, sent
    <2>2. date <= Today'
      BY <1>2, <1>4, Dates DEF Accounts
    <2> QED
      BY <1>4, <2>1, <2>2 DEF Accounts
  <1>5. CountsRemembered'
    <2>1. counterDate \in Day \cup {Never} /\ disk.counterDate \in Day \cup {Never}
      BY <1>1, SnapshotFields, StateFields DEF TypeOK
    <2>2. ASSUME ~lost, up
          PROVE  Accounts(counterDate, switches + PendingRoutine,
                          commitments + PendingCommitment)'
      BY <1>1, <1>4, <2>1, <2>2
      DEF IInv, CountsRemembered, Accounts, TimePasses, counters
    <2>3. ASSUME ~lost, ~up
          PROVE  Accounts(disk.counterDate, disk.switches, disk.commitments)'
      BY <1>1, <1>4, <2>1, <2>3 DEF IInv, CountsRemembered, Accounts
    <2> QED
      BY <1>1, <2>2, <2>3 DEF CountsRemembered
  <1>6. DwellRemembered'
    BY <1>1 DEF IInv, DwellRemembered, TimePasses, counters, sent
  <1>7. CommandWhileUp' /\ FateRemembered' /\ DailyCapsHold'
    BY <1>1 DEF IInv, CommandWhileUp, FateRemembered, DailyCapsHold, WithinCaps,
                TimePasses, beliefs, sent
  <1> QED
    BY <1>3, <1>5, <1>6, <1>7 DEF IInv

LEMMA StutterIInv ==
    ASSUME IInv, UNCHANGED vars
    PROVE  IInv'
  <1>1. /\ Snapshot' = Snapshot /\ Today' = Today
        /\ PendingRoutine' = PendingRoutine /\ PendingCommitment' = PendingCommitment
    BY DEF vars, counters, beliefs, Snapshot, Today, PendingRoutine, PendingCommitment
  <1>2. TypeOK'
    BY <1>1 DEF IInv, TypeOK, vars, sent
  <1>3. CountsRemembered'
    BY <1>1 DEF IInv, CountsRemembered, Accounts, vars, counters, sent
  <1>4. DwellRemembered' /\ FateRemembered' /\ CommandWhileUp' /\ DailyCapsHold'
    BY DEF IInv, DwellRemembered, FateRemembered, CommandWhileUp, DailyCapsHold,
           WithinCaps, vars, counters, beliefs, sent
  <1> QED
    BY <1>2, <1>3, <1>4 DEF IInv

LEMMA NextIInv == IInv /\ [Next]_vars => IInv'
  <1> SUFFICES ASSUME IInv, [Next]_vars PROVE IInv'
    OBVIOUS
  <1>1. CASE \E cmd \in PlanCommand \cup CarCommand, observed \in Mode : Decide(cmd, observed)
    BY <1>1, DecideIInv
  <1>2. CASE SendAuto
    BY <1>2, SendAutoIInv
  <1>3. CASE Accepted
    BY <1>3, AcceptedIInv
  <1>4. CASE Unconfirmed
    BY <1>4, UnconfirmedIInv
  <1>5. CASE Rejected
    BY <1>5, RejectedIInv
  <1>6. CASE Crash
    BY <1>6, CrashIInv
  <1>7. CASE Boot
    BY <1>7, BootIInv
  <1>8. CASE TimePasses
    BY <1>8, TimePassesIInv
  <1>9. CASE UNCHANGED vars
    BY <1>9, StutterIInv
  <1> QED
    BY <1>1, <1>2, <1>3, <1>4, <1>5, <1>6, <1>7, <1>8, <1>9 DEF Next

(* The memory of the running process, or else the saved row, accounts for  *)
(* every command sent (RecordSwitch, _persist and restore_state).          *)
THEOREM ControllerInvariant == Spec => []IInv
  BY InitIInv, NextIInv, PTL DEF Spec

(* The planner's writes stay within max_switches_per_day and               *)
(* max_commitment_switches_per_day over restarts and midnight.             *)
THEOREM CapsHold == Spec => [](TypeOK /\ DailyCapsHold)
  <1>1. IInv => TypeOK /\ DailyCapsHold
    BY DEF IInv
  <1> QED
    BY <1>1, ControllerInvariant, PTL

(* A command of unknown fate keeps last_command_unconfirmed raised, over   *)
(* restarts too.                                                           *)
THEOREM UnknownFateRemembered == Spec => []UnknownRemembered
  <1>1. IInv => UnknownRemembered
    BY DEF IInv, FateRemembered, UnknownRemembered, UnknownFateFlagged
  <1> QED
    BY <1>1, ControllerInvariant, PTL

(* min_dwell separates an automatic command from the last counted one,     *)
(* over restarts and midnight.                                             *)
THEOREM DwellHolds == Spec => AutomaticCommandsDwell
  <1> DEFINE Dwells(cmd) ==
          command = NoCommand /\ command' = cmd /\ Automatic(cmd) /\ ~lost =>
              lastCounted = Never \/ now - lastCounted >= MinDwell
  <1>1. ASSUME IInv, Next, NEW cmd \in PlanCommand
        PROVE  Dwells(cmd)
    <2> SUFFICES ASSUME command = NoCommand, command' = cmd, Automatic(cmd), ~lost
                 PROVE  lastCounted = Never \/ now - lastCounted >= MinDwell
      OBVIOUS
    <2>1. cmd # NoCommand /\ cmd # DirectAuto
      BY CommandFields, DirectAutoFields, PlanCommandFields DEF Command
    <2>2. PICK c \in PlanCommand \cup CarCommand, observed \in Mode : Decide(c, observed)
      <3>1. command' = cmd /\ cmd # command
        BY <2>1
      <3>2. ~SendAuto
        BY <2>1 DEF SendAuto, SendCommand
      <3>3. ~Accepted /\ ~Unconfirmed /\ ~Rejected
        BY <3>1 DEF Accepted, Unconfirmed, Rejected, Answered
      <3>4. ~Crash /\ ~Boot /\ ~TimePasses
        BY <2>1 DEF Crash, Boot, TimePasses
      <3> QED
        BY <1>1, <3>2, <3>3, <3>4 DEF Next
    <2>3. c = cmd
      BY <2>2 DEF Decide, SendCommand
    <2>4. DwellElapsed
      BY <2>2, <2>3 DEF Decide, GateOpen
    <2>5. lastCounted = lastSwitchAt
      <3>1. up
        BY <2>2 DEF Decide
      <3> QED
        BY <1>1, <3>1, NoCommandFields DEF IInv, DwellRemembered
    <2> QED
      BY <2>4, <2>5 DEF DwellElapsed
  <1>2. IInv /\ [Next]_vars => [\A cmd \in PlanCommand : Dwells(cmd)]_vars
    BY <1>1
  <1> QED
    BY <1>2, ControllerInvariant, PTL DEF Spec, AutomaticCommandsDwell
=============================================================================
