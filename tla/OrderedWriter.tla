--------------------------- MODULE OrderedWriter ---------------------------
(***************************************************************************)
(* What the battery-command fence promises, with nothing of how it does    *)
(* it: commands are numbered as they are issued, the driver carries out    *)
(* one command at a time, and never starts a command older than one it has *)
(* already started.  An issued command need never start: it may be         *)
(* superseded, refused or withdrawn.                                       *)
(***************************************************************************)
EXTENDS Naturals

CONSTANT MaxGeneration   \* bound on the commands issued

VARIABLES issued,        \* number of the newest command issued
          holder,        \* the command at the driver, 0 when there is none
          newest         \* the newest command ever started, 0 before the first

vars == <<issued, holder, newest>>

Init ==
    /\ issued = 0
    /\ holder = 0
    /\ newest = 0

Issue ==
    /\ issued < MaxGeneration
    /\ issued' = issued + 1
    /\ UNCHANGED <<holder, newest>>

Start(g) ==
    /\ holder = 0
    /\ newest < g
    /\ holder' = g
    /\ newest' = g
    /\ UNCHANGED issued

Finish ==
    /\ holder # 0
    /\ holder' = 0
    /\ UNCHANGED <<issued, newest>>

Next ==
    \/ Issue
    \/ \E g \in 1 .. issued : Start(g)
    \/ Finish

Spec == Init /\ [][Next]_vars
=============================================================================
