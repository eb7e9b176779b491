---------------------------- MODULE MCModeController ----------------------------
(* Values for the constants of ModeController: midnight falls between the  *)
(* times 2 and 3, so that commands come before and after it.               *)
EXTENDS ModeController

TwoDays == [t \in Time |-> t \div 3]
=============================================================================
