------------------------------ MODULE FrontDoor ------------------------------
(***************************************************************************)
(* The in-memory guards a request meets before the database: the limiters  *)
(* and the upload gate.  They share no state, so a behaviour exercises one *)
(* of them and leaves the other as it started.                             *)
(***************************************************************************)
EXTENDS RateLimiters, ImportGate

VARIABLE exercised

frontVars == <<exercised, limiterVars, gateVars>>

FrontInit ==
  /\ exercised \in {"limiter", "gate"}
  /\ LimiterInit /\ GateInit

FrontNext ==
  /\ \/ exercised = "limiter" /\ LimiterNext /\ UNCHANGED gateVars
     \/ exercised = "gate" /\ GateNext /\ UNCHANGED limiterVars
  /\ UNCHANGED exercised

FrontSpec == FrontInit /\ [][FrontNext]_frontVars /\ GateFairness
=============================================================================
