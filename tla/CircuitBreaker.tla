--------------------------- MODULE CircuitBreaker ---------------------------
(***************************************************************************)
(* The Gateway's circuit breaker (gateway/circuit_breaker.py) together     *)
(* with the calls that ask it for admission and report to it               *)
(* (gateway/account_client.py, AccountClient._call).                       *)
(*                                                                         *)
(* Every method of the breaker runs under its lock, so each is one atomic  *)
(* step; what interleaves are the calls, each of which is admitted in one  *)
(* step and reports its outcome in a later one, by which time the breaker  *)
(* may have changed state any number of times.                             *)
(***************************************************************************)
EXTENDS Naturals, FiniteSets

CONSTANTS
    Calls,              \* the request threads that may be inside _call at once
    FailureThreshold,   \* CB_FAILURE_THRESHOLD
    RecoveryTimeout,    \* CB_RECOVERY_TIMEOUT, in ticks of the clock
    HalfOpenMaxCalls,   \* CB_HALF_OPEN_MAX_CALLS
    SuccessThreshold,   \* CB_SUCCESS_THRESHOLD
    EscapingRoles       \* the roles in which a call may end without reporting

States == {"CLOSED", "OPEN", "HALF_OPEN"}

\* What a call in flight is to the breaker: admitted in the present CLOSED
\* period, a trial of the present HALF_OPEN period, or "stale", admitted before
\* the latest transition.  The code keeps no such record.
Roles == {"closed", "trial", "stale"}

ASSUME ParametersAssumption ==
    /\ IsFiniteSet(Calls)
    /\ FailureThreshold \in Nat \ {0}
    /\ RecoveryTimeout \in Nat
    /\ HalfOpenMaxCalls \in Nat \ {0}
    /\ SuccessThreshold \in Nat \ {0}
    /\ EscapingRoles \subseteq Roles

VARIABLES
    state,          \* _state
    failures,       \* _failures
    successes,      \* _successes
    halfOpenCalls,  \* _half_open_calls
    age,            \* _clock() - _opened_at, counted up to RecoveryTimeout
    role            \* the role of each call, "idle" outside _call

counters == <<failures, successes, halfOpenCalls>>
vars == <<state, counters, age, role>>

InFlight == {c \in Calls : role[c] # "idle"}
Trials   == {c \in Calls : role[c] = "trial"}
CooledDown == age >= RecoveryTimeout

Init ==
    /\ state = "CLOSED"
    /\ failures = 0
    /\ successes = 0
    /\ halfOpenCalls = 0
    /\ age = RecoveryTimeout
    /\ role = [c \in Calls |-> "idle"]

-----------------------------------------------------------------------------
(* The breaker's own steps.                                                *)

\* Mutant: the slots taken in HALF_OPEN survive the transition.
TransitionToKeepsSlots(s, taken) ==
    /\ state' = s
    /\ failures' = 0
    /\ successes' = 0
    /\ halfOpenCalls' = halfOpenCalls + taken
    /\ age' = IF s = "OPEN" THEN 0 ELSE age

\* Every transition clears the three counters, and a trip also restarts the
\* cooldown.  taken is the number of trials admitted in the same step.
TransitionTo(s, taken) ==
    /\ state' = s
    /\ failures' = 0
    /\ successes' = 0
    /\ halfOpenCalls' = taken
    /\ age' = IF s = "OPEN" THEN 0 ELSE age

\* After a transition the calls still in flight belong to an earlier period.
Outdated == [c \in Calls |-> IF role[c] = "idle" THEN "idle" ELSE "stale"]

AdmitClosed(c) ==
    /\ state = "CLOSED"
    /\ role' = [role EXCEPT ![c] = "closed"]
    /\ UNCHANGED <<state, counters, age>>

\* The first caller after the cooldown moves the breaker to HALF_OPEN and, in
\* the same critical section, takes the first trial slot.
AdmitFirstTrial(c) ==
    /\ state = "OPEN"
    /\ CooledDown
    /\ TransitionTo("HALF_OPEN", 1)
    /\ role' = [Outdated EXCEPT ![c] = "trial"]

\* Mutant: the slots are compared with > in place of >=.
SlotFreeOffByOne == halfOpenCalls <= HalfOpenMaxCalls

SlotFree == halfOpenCalls < HalfOpenMaxCalls

AdmitTrial(c) ==
    /\ state = "HALF_OPEN"
    /\ SlotFree
    /\ halfOpenCalls' = halfOpenCalls + 1
    /\ role' = [role EXCEPT ![c] = "trial"]
    /\ UNCHANGED <<state, failures, successes, age>>

\* Mutant: a refused call is reported as a failure and trips the breaker anew.
RefuseTrips(c) ==
    /\ state = "OPEN"
    /\ ~CooledDown
    /\ TransitionTo("OPEN", 0)
    /\ role' = Outdated

\* The caller is told to fail fast; nothing changes.
Refuse(c) ==
    /\ \/ state = "OPEN" /\ ~CooledDown
       \/ state = "HALF_OPEN" /\ ~SlotFree
    /\ UNCHANGED vars

AllowRequest(c) ==
    /\ role[c] = "idle"
    /\ \/ AdmitClosed(c)
       \/ AdmitFirstTrial(c)
       \/ AdmitTrial(c)
       \/ Refuse(c)

\* Mutant: the threshold is compared before the success is counted.
EnoughSuccessesLate == successes >= SuccessThreshold

EnoughSuccesses == successes + 1 >= SuccessThreshold

\* A success counts towards closing in HALF_OPEN, whatever call it comes from.
CountSuccess(c) ==
    /\ state = "HALF_OPEN"
    /\ ~EnoughSuccesses
    /\ successes' = successes + 1
    /\ role' = [role EXCEPT ![c] = "idle"]
    /\ UNCHANGED <<state, failures, halfOpenCalls, age>>

Close(c) ==
    /\ state = "HALF_OPEN"
    /\ EnoughSuccesses
    /\ TransitionTo("CLOSED", 0)
    /\ role' = [Outdated EXCEPT ![c] = "idle"]

\* Mutant: any success closes the breaker.
ForgetFailuresCloses(c) ==
    /\ state # "HALF_OPEN"
    /\ TransitionTo("CLOSED", 0)
    /\ role' = [Outdated EXCEPT ![c] = "idle"]

\* Mutant: a slot is given back without a look at the state.
ForgetFailuresFreesSlot(c) ==
    /\ state # "HALF_OPEN"
    /\ failures' = 0
    /\ halfOpenCalls' = halfOpenCalls - 1
    /\ role' = [role EXCEPT ![c] = "idle"]
    /\ UNCHANGED <<state, successes, age>>

ForgetFailures(c) ==
    /\ state # "HALF_OPEN"
    /\ failures' = 0
    /\ role' = [role EXCEPT ![c] = "idle"]
    /\ UNCHANGED <<state, successes, halfOpenCalls, age>>

RecordSuccess(c) ==
    /\ role[c] # "idle"
    /\ \/ CountSuccess(c)
       \/ Close(c)
       \/ ForgetFailures(c)

\* Mutant: the threshold is compared before the failure is counted.
EnoughFailuresLate == failures >= FailureThreshold

EnoughFailures == failures + 1 >= FailureThreshold

\* A failure is also counted in OPEN, where it can only come from a stale call,
\* and enough of them trip the breaker again: the cooldown starts anew.
CountFailure(c) ==
    /\ state # "HALF_OPEN"
    /\ ~EnoughFailures
    /\ failures' = failures + 1
    /\ role' = [role EXCEPT ![c] = "idle"]
    /\ UNCHANGED <<state, successes, halfOpenCalls, age>>

Trip(c) ==
    /\ state # "HALF_OPEN" => EnoughFailures
    /\ TransitionTo("OPEN", 0)
    /\ role' = [Outdated EXCEPT ![c] = "idle"]

RecordFailure(c) ==
    /\ role[c] # "idle"
    /\ \/ CountFailure(c)
       \/ Trip(c)

-----------------------------------------------------------------------------
(* The breaker's surroundings.                                             *)

\* _call catches TimeoutException and TransportError only: any other exception
\* (a URL or body that cannot be encoded, an undecodable response) leaves it
\* with neither record_success nor record_failure.
Escape(c) ==
    /\ role[c] \in EscapingRoles
    /\ role' = [role EXCEPT ![c] = "idle"]
    /\ UNCHANGED <<state, counters, age>>

Tick ==
    /\ ~CooledDown
    /\ age' = age + 1
    /\ UNCHANGED <<state, counters, role>>

Finish(c) == RecordSuccess(c) \/ RecordFailure(c) \/ Escape(c)

Next ==
    \/ \E c \in Calls : AllowRequest(c) \/ Finish(c)
    \/ Tick

\* Time passes; an admitted call ends, because every attempt has a timeout and
\* the attempts are counted; and clients keep sending requests.
Fairness ==
    /\ WF_vars(Tick)
    /\ \A c \in Calls : WF_vars(Finish(c)) /\ WF_vars(AllowRequest(c))

Spec == Init /\ [][Next]_vars
FairSpec == Spec /\ Fairness

-----------------------------------------------------------------------------
(* Properties.                                                             *)

TypeOK ==
    /\ state \in States
    /\ failures \in Nat
    /\ successes \in Nat
    /\ halfOpenCalls \in Nat
    /\ age \in 0 .. RecoveryTimeout
    /\ role \in [Calls -> Roles \cup {"idle"}]

\* The trials of one HALF_OPEN period that are in flight never outnumber the
\* slots allow_request has handed out in it, which never exceed the configured
\* number; outside HALF_OPEN no slot is taken and no call is a trial, whatever
\* calls of earlier periods are still running.
TrialsBounded ==
    /\ Cardinality(Trials) <= halfOpenCalls
    /\ halfOpenCalls <= HalfOpenMaxCalls
    /\ state # "HALF_OPEN" => halfOpenCalls = 0

\* No transition is overdue: between two method calls no counter stands at its
\* threshold, a success is remembered only in HALF_OPEN and a failure never in
\* it, so late outcomes of earlier periods cannot pile up unseen.
NoOverdueTransition ==
    /\ failures < FailureThreshold
    /\ successes < SuccessThreshold
    /\ state # "HALF_OPEN" => successes = 0
    /\ state = "HALF_OPEN" => failures = 0

\* An OPEN breaker admits nobody before the cooldown is over, and then exactly
\* one call, as the sole trial of a new HALF_OPEN period.  In particular a
\* success that arrives late from before the trip never closes it directly.
OpenLeftOnlyByTrial ==
    [][state = "OPEN" =>
         \/ state' = "OPEN" /\ InFlight' \subseteq InFlight
         \/ /\ state' = "HALF_OPEN"
            /\ CooledDown
            /\ \E c \in Calls \ InFlight : Trials' = {c}]_vars

\* The calls still running after a trip may fail and restart the cooldown, but
\* only finitely often: an OPEN breaker always gets to try the downstream again.
CooldownEnds == state = "OPEN" ~> state = "HALF_OPEN"

\* "enough successes close the breaker again, any failure re-opens it"
\* (circuit_breaker.py, lines 8-9): a HALF_OPEN period comes to an end.
HalfOpenResolves == state = "HALF_OPEN" ~> state # "HALF_OPEN"

\* Once calls stop failing, the breaker closes, whatever was in flight then.
Recovers ==
    <>[][\A c \in Calls : ~RecordFailure(c)]_vars => []<>(state = "CLOSED")

\* "HALF_OPEN --> CLOSED: trial success(es) >= success_threshold" (DESIGN.md,
\* line 131): the outcome that closes the breaker is that of a trial.
ClosedByTrial ==
    [][state = "HALF_OPEN" /\ state' = "CLOSED" => ~(Trials \subseteq InFlight')]_vars
=============================================================================
