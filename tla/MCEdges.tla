-------------------------------- MODULE MCEdges --------------------------------
(* What the service hears of the world through caches: the battery's towers, *)
(* the prices and the sun.  They share nothing, so each is explored with the *)
(* others at rest.                                                           *)
EXTENDS BatteryIO, PriceFeed, SolcastFeed

VARIABLE focus

MCInit ==
    /\ BInit /\ PInit /\ SInit
    /\ focus \in {"towers", "prices", "sun"}
    /\ focus # "towers" => master = [rt |-> FALSE, state |-> "idle"] /\ slave = "auto"
MCNext ==
    /\ UNCHANGED focus
    /\ \/ focus = "towers" /\ BNext /\ UNCHANGED <<pvars, svars>>
       \/ focus = "prices" /\ PNext /\ UNCHANGED <<bvars, svars>>
       \/ focus = "sun" /\ SNext /\ UNCHANGED <<bvars, pvars>>
MCSpec == MCInit /\ [][MCNext]_<<bvars, pvars, svars, focus>>
=============================================================================
