--------------------------- MODULE MCAccountClient ---------------------------
(* The retry loop around the breaker: a call that is no trial may raise an    *)
(* exception _call does not catch; what a trial that raises one does is the   *)
(* subject of MCCircuitBreakerEscape.                                         *)
EXTENDS AccountClient

NonTrialRoles == {"closed", "stale"}
=============================================================================
