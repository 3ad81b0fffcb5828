----------------------------- MODULE MCServices -----------------------------
(***************************************************************************)
(* The two services that every other service calls, srv_center and         *)
(* srv_logger, for TLC.  They share nothing, so that one of them moves in  *)
(* a behaviour: `part' says which.                                         *)
(***************************************************************************)
EXTENDS ServiceCenter, Logger, TLC

CONSTANTS a1, a2, c1, c2, c3

\* Two coroutines of one service and one of another.
MCAppenderOf == (c1 :> a1) @@ (c2 :> a1) @@ (c3 :> a2)

VARIABLE part

ServicesInit == part \in {"center", "log"} /\ Init /\ LogInit

ServicesNext ==
    /\ UNCHANGED part
    /\ \/ part = "center" /\ Next /\ UNCHANGED logVars
       \/ part = "log" /\ LogNext /\ UNCHANGED vars

ServicesSpec ==
    ServicesInit /\ [][ServicesNext]_<<part, vars, logVars>> /\ LogFairness
=============================================================================
