------------------------- MODULE AccountClientProofs -------------------------
(***************************************************************************)
(* The client uses its breaker as module CircuitBreaker expects of its     *)
(* callers, for any number of calls and retries, any thresholds and any    *)
(* injected faults: every step of _call is a step of the breaker or leaves *)
(* it alone.  What CircuitBreakerProofs proves of the breaker's            *)
(* specification therefore holds of the breaker inside the client.         *)
(*                                                                         *)
(* TypeOK is inductive: that a call reports exactly once rests on its      *)
(* being inside _call as long as the breaker counts it in flight.          *)
(***************************************************************************)
EXTENDS AccountClient, TLAPS

USE ClientAssumption
    DEF breakerVars, Goto, PcStates, Faults, Breaker!TypeOK, Breaker!States, Breaker!Roles,
        Breaker!counters, Breaker!vars

-----------------------------------------------------------------------------
(* The breaker's methods, seen from one call.                              *)

\* Everybody else stays in or out of _call over a step of the breaker.
OthersStay(c) ==
    \A d \in Calls \ {c} : role'[d] = "idle" <=> role[d] = "idle"

\* A refused call stays outside, an admitted one is inside, and nobody else moves.
LEMMA Admission ==
    ASSUME Breaker!TypeOK, NEW c \in Calls, Breaker!AllowRequest(c)
    PROVE  Breaker!TypeOK' /\ OthersStay(c)
<1> USE DEF OthersStay
<1>1. CASE Breaker!AdmitClosed(c)
  BY <1>1 DEF Breaker!AdmitClosed
<1>2. CASE Breaker!AdmitFirstTrial(c)
  BY <1>2 DEF Breaker!AdmitFirstTrial, Breaker!TransitionTo, Breaker!Outdated
<1>3. CASE Breaker!AdmitTrial(c)
  BY <1>3 DEF Breaker!AdmitTrial
<1>4. CASE Breaker!Refuse(c)
  BY <1>4 DEF Breaker!Refuse
<1> QED
  BY <1>1, <1>2, <1>3, <1>4 DEF Breaker!AllowRequest

\* A call that reports, or leaves without a report, is no longer in flight.
LEMMA Ending ==
    ASSUME Breaker!TypeOK, NEW c \in Calls, Breaker!Finish(c)
    PROVE  Breaker!TypeOK' /\ OthersStay(c) /\ role'[c] = "idle"
<1> USE DEF OthersStay
<1>1. CASE Breaker!CountSuccess(c)
  BY <1>1 DEF Breaker!CountSuccess
<1>2. CASE Breaker!ForgetFailures(c)
  BY <1>2 DEF Breaker!ForgetFailures
<1>3. CASE Breaker!CountFailure(c)
  BY <1>3 DEF Breaker!CountFailure
<1>4. CASE Breaker!Close(c)
  BY <1>4 DEF Breaker!Close, Breaker!TransitionTo, Breaker!Outdated
<1>5. CASE Breaker!Trip(c)
  BY <1>5 DEF Breaker!Trip, Breaker!TransitionTo, Breaker!Outdated
<1>6. CASE Breaker!Escape(c)
  BY <1>6 DEF Breaker!Escape
<1> QED
  BY <1>1, <1>2, <1>3, <1>4, <1>5, <1>6 DEF Breaker!Finish, Breaker!RecordSuccess, Breaker!RecordFailure

-----------------------------------------------------------------------------
(* The types.                                                              *)

LEMMA EnterKeepsTypes ==
    ASSUME TypeOK, NEW c \in Calls, Enter(c)
    PROVE  TypeOK'
<1>1. Breaker!TypeOK' /\ OthersStay(c)
  BY Admission DEF TypeOK, Enter
<1>2. pc' = [pc EXCEPT ![c] = IF role'[c] = "idle" THEN "idle" ELSE "reading"]
  BY DEF Enter
<1>3. retries' \in [Calls -> 0 .. MaxRetries] /\ fault' = fault
  BY DEF Enter, TypeOK
<1> QED
  BY <1>1, <1>2, <1>3 DEF TypeOK, OthersStay

\* A call that leaves _call has ended for the breaker in the same step.
LEMMA LeaveKeepsTypes ==
    ASSUME TypeOK, NEW c \in Calls, Respond(c) \/ Raise(c) \/ Exhausted(c)
    PROVE  TypeOK'
<1>1. Breaker!Finish(c) /\ pc' = [pc EXCEPT ![c] = "idle"] /\ UNCHANGED <<retries, fault>>
  BY DEF Respond, Raise, Exhausted, Breaker!Finish
<1>2. Breaker!TypeOK' /\ OthersStay(c) /\ role'[c] = "idle"
  BY <1>1, Ending DEF TypeOK
<1> QED
  BY <1>1, <1>2 DEF TypeOK, OthersStay

\* The attempts stay within MaxRetries + 1.
LEMMA FailAttemptKeepsTypes ==
    ASSUME TypeOK, NEW c \in Calls, pc[c] # "idle", FailAttempt(c), UNCHANGED fault
    PROVE  TypeOK'
<1>1. CASE retries[c] < MaxRetries
  <2>1. retries[c] + 1 \in 0 .. MaxRetries
    BY <1>1 DEF TypeOK
  <2> QED
    BY <1>1, <2>1 DEF FailAttempt, TypeOK
<1>2. CASE ~(retries[c] < MaxRetries)
  BY <1>2 DEF FailAttempt, TypeOK
<1> QED
  BY <1>1, <1>2

LEMMA TestFaultKeepsTypes ==
    ASSUME TypeOK, NEW c \in Calls, TestFault(c)
    PROVE  TypeOK'
<1>1. CASE Inject(c)
  BY <1>1, FailAttemptKeepsTypes DEF TestFault, Inject
<1>2. CASE ~Inject(c)
  BY <1>2 DEF TestFault, TypeOK
<1> QED
  BY <1>1, <1>2

-----------------------------------------------------------------------------
(* The theorems.                                                           *)

\* No call makes more than ACCOUNT_MAX_RETRIES + 1 attempts, and each is counted
\* in flight by the breaker exactly while it is inside _call: no path through
\* the retry loop leaves a slot behind or reports twice.
THEOREM TypeCorrect == Spec => []TypeOK
<1>1. Init => TypeOK
  BY DEF Init, Breaker!Init, TypeOK
<1>2. TypeOK /\ [Next]_vars => TypeOK'
  <2> SUFFICES ASSUME TypeOK, [Next]_vars PROVE TypeOK'
    OBVIOUS
  <2>1. ASSUME NEW c \in Calls, Enter(c) PROVE TypeOK'
    BY <2>1, EnterKeepsTypes
  <2>2. ASSUME NEW c \in Calls, Respond(c) \/ Raise(c) \/ Exhausted(c) PROVE TypeOK'
    BY <2>2, LeaveKeepsTypes
  <2>3. ASSUME NEW c \in Calls, TestFault(c) PROVE TypeOK'
    BY <2>3, TestFaultKeepsTypes
  <2>4. ASSUME NEW c \in Calls, Unanswered(c) PROVE TypeOK'
    BY <2>4, FailAttemptKeepsTypes DEF Unanswered
  <2>5. ASSUME NEW m \in Faults, SetFault(m) PROVE TypeOK'
    BY <2>5 DEF SetFault, TypeOK
  <2>6. CASE Tick
    BY <2>6 DEF Tick, Breaker!Tick, Breaker!CooledDown, TypeOK
  <2>7. CASE UNCHANGED vars
    BY <2>7 DEF vars, TypeOK
  <2> QED
    BY <2>1, <2>2, <2>3, <2>4, <2>5, <2>6, <2>7 DEF Next, Advance
<1> QED
  BY <1>1, <1>2, PTL DEF Spec

\* The client implements the specification of the breaker and its callers: it
\* asks before every call, reports each admitted one once, and in no other way.
THEOREM ClientImplementsBreaker == Spec => Breaker!Spec
<1>1. Init => Breaker!Init
  BY DEF Init
<1>2. [Next]_vars => [Breaker!Next]_(Breaker!vars)
  <2> SUFFICES ASSUME [Next]_vars PROVE [Breaker!Next]_(Breaker!vars)
    OBVIOUS
  <2>1. ASSUME NEW c \in Calls, Enter(c) PROVE Breaker!Next
    BY <2>1 DEF Enter, Breaker!Next
  <2>2. ASSUME NEW c \in Calls, Respond(c) \/ Raise(c) \/ Exhausted(c) PROVE Breaker!Next
    BY <2>2 DEF Respond, Raise, Exhausted, Breaker!Next, Breaker!Finish
  <2>3. ASSUME NEW c \in Calls, TestFault(c) \/ Unanswered(c) PROVE UNCHANGED Breaker!vars
    BY <2>3 DEF TestFault, Unanswered, Inject, FailAttempt
  <2>4. ASSUME NEW m \in Faults, SetFault(m) PROVE UNCHANGED Breaker!vars
    BY <2>4 DEF SetFault
  <2>5. CASE Tick
    BY <2>5 DEF Tick, Breaker!Next
  <2>6. CASE UNCHANGED vars
    BY <2>6 DEF vars
  <2> QED
    BY <2>1, <2>2, <2>3, <2>4, <2>5, <2>6 DEF Next, Advance
<1> QED
  BY <1>1, <1>2, PTL DEF Spec, Breaker!Spec

-----------------------------------------------------------------------------
(* What the breaker's proofs give for the breaker inside the client.       *)

Proved == INSTANCE CircuitBreakerProofs

BreakerInv == Breaker!TypeOK /\ Breaker!TrialsBounded /\ Breaker!NoOverdueTransition

\* Breaker and Proved have the same definitions under two names.
LEMMA SamePredicates ==
    /\ Breaker!Init <=> Proved!Init
    /\ BreakerInv <=> Proved!Inv
    /\ Breaker!TypeOK <=> Proved!TypeOK
<1>1. Breaker!Init <=> Proved!Init
  BY DEF Breaker!Init, Proved!Init
<1>2. Breaker!TypeOK <=> Proved!TypeOK
  BY DEF Proved!TypeOK, Proved!States, Proved!Roles
<1>3. Breaker!TrialsBounded <=> Proved!TrialsBounded
  BY DEF Breaker!TrialsBounded, Proved!TrialsBounded, Breaker!Trials, Proved!Trials,
         Breaker!Cardinality, Proved!Cardinality
<1>4. Breaker!NoOverdueTransition <=> Proved!NoOverdueTransition
  BY DEF Breaker!NoOverdueTransition, Proved!NoOverdueTransition
<1> QED
  BY <1>1, <1>2, <1>3, <1>4 DEF BreakerInv, Proved!Inv

LEMMA SameNext == Breaker!Next => Proved!Next
<1> USE DEF Breaker!TransitionTo, Proved!TransitionTo, Breaker!Outdated, Proved!Outdated,
            Breaker!CooledDown, Proved!CooledDown, Proved!vars, Proved!counters
<1>1. ASSUME NEW c \in Calls, Breaker!AllowRequest(c) PROVE Proved!AllowRequest(c)
  BY <1>1
  DEF Breaker!AllowRequest, Breaker!AdmitClosed, Breaker!AdmitFirstTrial, Breaker!AdmitTrial,
      Breaker!Refuse, Breaker!SlotFree,
      Proved!AllowRequest, Proved!AdmitClosed, Proved!AdmitFirstTrial, Proved!AdmitTrial,
      Proved!Refuse, Proved!SlotFree
<1>2. ASSUME NEW c \in Calls, Breaker!RecordSuccess(c) PROVE Proved!RecordSuccess(c)
  BY <1>2
  DEF Breaker!RecordSuccess, Breaker!CountSuccess, Breaker!Close, Breaker!ForgetFailures,
      Breaker!EnoughSuccesses,
      Proved!RecordSuccess, Proved!CountSuccess, Proved!Close, Proved!ForgetFailures,
      Proved!EnoughSuccesses
<1>3. ASSUME NEW c \in Calls, Breaker!RecordFailure(c) PROVE Proved!RecordFailure(c)
  BY <1>3
  DEF Breaker!RecordFailure, Breaker!CountFailure, Breaker!Trip, Breaker!EnoughFailures,
      Proved!RecordFailure, Proved!CountFailure, Proved!Trip, Proved!EnoughFailures
<1>4. ASSUME NEW c \in Calls, Breaker!Escape(c) PROVE Proved!Escape(c)
  BY <1>4 DEF Breaker!Escape, Proved!Escape
<1>5. Breaker!Tick => Proved!Tick
  BY DEF Breaker!Tick, Proved!Tick
<1> QED
  BY <1>1, <1>2, <1>3, <1>4, <1>5
  DEF Breaker!Next, Breaker!Finish, Proved!Next, Proved!Finish

\* However the threads of the client interleave, and whatever is injected, the
\* breaker never has more trials in flight than slots, and no counter stands at
\* its threshold.  Assumed are positive thresholds and slots, and finitely many
\* threads.
THEOREM BreakerStaysWithinBounds ==
    ASSUME Proved!ParametersAssumption
    PROVE  Spec => []BreakerInv
<1>1. Breaker!Init => BreakerInv
  BY SamePredicates, Proved!InitEstablishesInv
<1>2. BreakerInv /\ [Breaker!Next]_(Breaker!vars) => BreakerInv'
  <2> SUFFICES ASSUME BreakerInv, [Breaker!Next]_(Breaker!vars) PROVE BreakerInv'
    OBVIOUS
  <2>1. [Proved!Next]_(Proved!vars)
    BY SameNext DEF Proved!vars, Proved!counters
  <2>2. Proved!Inv'
    BY <2>1, SamePredicates, Proved!StepPreservesInv
  <2>3. BreakerInv' <=> Proved!Inv'
    BY SamePredicates, PTL
  <2> QED
    BY <2>2, <2>3
<1> QED
  BY <1>1, <1>2, ClientImplementsBreaker, PTL DEF Breaker!Spec

\* In the client, too, an OPEN breaker is left only after the cooldown and only
\* by admitting one call, whatever attempts of earlier periods still return.
THEOREM ClientLeavesOpenOnlyByTrial ==
    ASSUME Proved!ParametersAssumption
    PROVE  Spec => Breaker!OpenLeftOnlyByTrial
<1>1. Breaker!TypeOK /\ [Breaker!Next]_(Breaker!vars)
        => [Proved!KeepsOpenOrTries]_(Breaker!vars)
  BY SamePredicates, SameNext, Proved!OpenAdmitsOneTrial
<1>2. Proved!KeepsOpenOrTries =>
        (state = "OPEN" =>
           \/ state' = "OPEN" /\ Breaker!InFlight' \subseteq Breaker!InFlight
           \/ /\ state' = "HALF_OPEN"
              /\ Breaker!CooledDown
              /\ \E c \in Calls \ Breaker!InFlight : Breaker!Trials' = {c})
  BY DEF Proved!KeepsOpenOrTries, Proved!InFlight, Proved!CooledDown, Proved!Trials,
         Breaker!InFlight, Breaker!CooledDown, Breaker!Trials
<1>3. BreakerInv => Breaker!TypeOK
  BY DEF BreakerInv
<1> QED
  BY <1>1, <1>2, <1>3, BreakerStaysWithinBounds, ClientImplementsBreaker, PTL
  DEF Breaker!Spec, Breaker!OpenLeftOnlyByTrial
=============================================================================
