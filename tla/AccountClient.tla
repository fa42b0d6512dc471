---------------------------- MODULE AccountClient ----------------------------
(***************************************************************************)
(* The Gateway's client for the Account Service                            *)
(* (gateway/account_client.py): the circuit breaker, the retry loop of     *)
(* _call inside it, and the fault that POST /test/fault injects.           *)
(*                                                                         *)
(* A call is what a thread of the Gateway does between asking the breaker  *)
(* for admission and reporting back.  _call reads the injected fault twice *)
(* in every attempt, and set_fault, which takes no lock, may come between  *)
(* the two reads.                                                          *)
(***************************************************************************)
EXTENDS Naturals

CONSTANTS
    Calls,              \* the request threads that may be inside _call at once
    MaxRetries,         \* ACCOUNT_MAX_RETRIES
    FailureThreshold, RecoveryTimeout, HalfOpenMaxCalls, SuccessThreshold,
    EscapingRoles       \* see CircuitBreaker

ASSUME ClientAssumption ==
    /\ MaxRetries \in Nat
    /\ RecoveryTimeout \in Nat

VARIABLES
    state, failures, successes, halfOpenCalls, age, role,  \* see CircuitBreaker
    pc,       \* where in _call each thread is, "idle" outside it
    retries,  \* the number of attempts each call has already seen fail
    fault     \* _fault

Breaker == INSTANCE CircuitBreaker

breakerVars == <<state, failures, successes, halfOpenCalls, age, role>>
vars == <<breakerVars, pc, retries, fault>>

\* "reading": about to compare _fault with "error"; "rereading": about to compare
\* it with "timeout"; "sent": a real request is on its way; "exhausted": the
\* last attempt has failed and is still to be reported.
PcStates == {"idle", "reading", "rereading", "sent", "exhausted"}
Faults == {"none", "error", "timeout"}

Init ==
    /\ Breaker!Init
    /\ pc = [c \in Calls |-> "idle"]
    /\ retries = [c \in Calls |-> 0]
    /\ fault = "none"

-----------------------------------------------------------------------------
(* One call.                                                               *)

Goto(c, s) == pc' = [pc EXCEPT ![c] = s]

\* An admitted call starts its first attempt; a refused one raises
\* AccountServiceUnavailable at once.
Enter(c) ==
    /\ pc[c] = "idle"
    /\ Breaker!AllowRequest(c)
    /\ Goto(c, IF role'[c] = "idle" THEN "idle" ELSE "reading")
    /\ retries' = [retries EXCEPT ![c] = 0]
    /\ UNCHANGED fault

\* Mutant: one attempt too many.
FailAttemptOffByOne(c) ==
    /\ IF retries[c] <= MaxRetries
       THEN Goto(c, "reading") /\ retries' = [retries EXCEPT ![c] = @ + 1]
       ELSE Goto(c, "exhausted") /\ UNCHANGED retries
    /\ UNCHANGED breakerVars

\* The attempt has failed: sleep and start the next one, if one is left.
FailAttempt(c) ==
    /\ IF retries[c] < MaxRetries
       THEN Goto(c, "reading") /\ retries' = [retries EXCEPT ![c] = @ + 1]
       ELSE Goto(c, "exhausted") /\ UNCHANGED retries
    /\ UNCHANGED breakerVars

\* Mutant: the injected exception is not of the caught kinds, and the call is
\* left without a report.
InjectUncaught(c) ==
    /\ Goto(c, "idle")
    /\ role' = [role EXCEPT ![c] = "idle"]
    /\ UNCHANGED <<state, failures, successes, halfOpenCalls, age, retries>>

\* The exception raised in place of a request is handled as a failed attempt.
Inject(c) == FailAttempt(c)

TestFault(c) ==
    /\ \/ /\ pc[c] = "reading"
          /\ \/ fault = "error" /\ Inject(c)
             \/ fault # "error" /\ Goto(c, "rereading") /\ UNCHANGED <<retries, breakerVars>>
       \/ /\ pc[c] = "rereading"
          /\ \/ fault = "timeout" /\ Inject(c)
             \/ fault # "timeout" /\ Goto(c, "sent") /\ UNCHANGED <<retries, breakerVars>>
    /\ UNCHANGED fault

\* Mutant: a 4xx is reported as a failure.
RespondCountsClientErrors(c) ==
    /\ pc[c] = "sent"
    /\ Breaker!RecordSuccess(c) \/ Breaker!RecordFailure(c)
    /\ Goto(c, "idle")
    /\ UNCHANGED <<retries, fault>>

\* The response has a status below 500.
Respond(c) ==
    /\ pc[c] = "sent"
    /\ Breaker!RecordSuccess(c)
    /\ Goto(c, "idle")
    /\ UNCHANGED <<retries, fault>>

\* Mutant: no timeout on the attempt; only a 5xx or a broken connection ends it,
\* which a service that hangs never sends.
UnansweredNever(c) == FALSE

\* A timeout, a transport error, or a status of 500 or above.
Unanswered(c) ==
    /\ pc[c] = "sent"
    /\ FailAttempt(c)
    /\ UNCHANGED fault

\* Any other exception of the request leaves _call at once.
Raise(c) ==
    /\ pc[c] = "sent"
    /\ Breaker!Escape(c)
    /\ Goto(c, "idle")
    /\ UNCHANGED <<retries, fault>>

Exhausted(c) ==
    /\ pc[c] = "exhausted"
    /\ Breaker!RecordFailure(c)
    /\ Goto(c, "idle")
    /\ UNCHANGED <<retries, fault>>

\* What the thread does by itself: an attempt ends at its timeout at the latest.
Advance(c) == TestFault(c) \/ Unanswered(c) \/ Exhausted(c)

-----------------------------------------------------------------------------
SetFault(m) ==
    /\ fault' = m
    /\ UNCHANGED <<breakerVars, pc, retries>>

Tick == Breaker!Tick /\ UNCHANGED <<pc, retries, fault>>

Next ==
    \/ \E c \in Calls : Enter(c) \/ Advance(c) \/ Respond(c) \/ Raise(c)
    \/ \E m \in Faults : SetFault(m)
    \/ Tick

\* Time passes, threads that are not waiting run, a wait ends at its timeout,
\* and clients keep sending requests.  Nothing is asked of the Account Service.
Fairness ==
    /\ WF_vars(Tick)
    /\ \A c \in Calls : WF_vars(Enter(c)) /\ WF_vars(Advance(c))

Spec == Init /\ [][Next]_vars
FairSpec == Spec /\ Fairness

-----------------------------------------------------------------------------
(* Properties.                                                             *)

\* A call asks at most MaxRetries + 1 times, and is inside _call exactly as long
\* as the breaker counts it in flight: none leaves without having been
\* reported or having raised, and none is reported twice.
TypeOK ==
    /\ Breaker!TypeOK
    /\ pc \in [Calls -> PcStates]
    /\ retries \in [Calls -> 0 .. MaxRetries]
    /\ fault \in Faults
    /\ \A c \in Calls : pc[c] = "idle" <=> role[c] = "idle"

\* What CircuitBreaker takes for granted of its callers: every admitted call
\* ends, however the Account Service behaves, because attempts are counted and
\* each has a timeout; and it ends with one report.
BreakerKept == Breaker!FairSpec

\* "When set, every attempt fails as if the downstream were unreachable/slow, so
\* the real retry + circuit-breaker code paths are exercised" (lines 77-80):
\* a fault that stays set opens the breaker, which then never closes.  Switching
\* from "timeout" to "error" between the two reads of one attempt lets a real
\* request through, so the fault must stay the same one.
FaultOpensBreaker ==
    (\E m \in Faults \ {"none"} : <>[](fault = m)) => <>[](state # "CLOSED")

\* Once the fault is cleared and the Account Service answers every request, be it
\* with a 4xx, the breaker closes and stays closed, whatever was in flight.
ServiceRestored ==
    (<>[](fault = "none") /\ <>[][\A c \in Calls : ~Unanswered(c)]_vars)
        => <>[](state = "CLOSED")
=============================================================================
