-------------------------- MODULE MCCircuitBreaker --------------------------
(* The circuit breaker with four concurrent calls.  A call that is no trial *)
(* may end without reporting; a trial always reports, except in the run that *)
(* shows what happens when it does not.                                      *)
EXTENDS CircuitBreaker

NonTrialRoles == Roles \ {"trial"}

=============================================================================
