------------------------ MODULE CircuitBreakerProofs ------------------------
(***************************************************************************)
(* The breaker's safety properties for any number of calls, any thresholds *)
(* and any cooldown.  TypeOK, TrialsBounded and NoOverdueTransition are    *)
(* inductive together: that no trial is in flight outside HALF_OPEN needs  *)
(* no conjunct of its own, since no slot is taken there.                   *)
(***************************************************************************)
EXTENDS CircuitBreaker, FiniteSetTheorems, TLAPS

Inv == TypeOK /\ TrialsBounded /\ NoOverdueTransition

-----------------------------------------------------------------------------
(* The set of trials.                                                      *)

\* The trials are finitely many, so their number is a natural number.
LEMMA TrialsFinite ==
    /\ IsFiniteSet(Trials)
    /\ Cardinality(Trials) \in Nat
<1>1. Trials \subseteq Calls
  BY DEF Trials
<1>2. IsFiniteSet(Trials)
  BY <1>1, ParametersAssumption, FS_Subset
<1> QED
  BY <1>2, FS_CardinalityType

\* A call that ends frees nobody's place among the trials but its own.
LEMMA EndingCallRemovesTrial ==
    ASSUME TypeOK, NEW c \in Calls, role' = [role EXCEPT ![c] = "idle"]
    PROVE  /\ Cardinality(Trials') \in Nat
           /\ Cardinality(Trials') <= Cardinality(Trials)
<1>1. Trials' \subseteq Trials
  BY DEF TypeOK, Trials
<1>2. IsFiniteSet(Trials') /\ Cardinality(Trials') <= Cardinality(Trials)
  BY <1>1, TrialsFinite, FS_Subset
<1> QED
  BY <1>2, FS_CardinalityType

\* A transition leaves no trial in flight.
LEMMA TransitionEndsTrials ==
    ASSUME NEW c \in Calls, role' = [Outdated EXCEPT ![c] = "idle"]
    PROVE  Cardinality(Trials') = 0
<1>1. Trials' = {}
  BY DEF Outdated, Trials
<1> QED
  BY <1>1, FS_EmptySet

-----------------------------------------------------------------------------
(* The inductive step, one lemma per operation of the breaker.             *)

LEMMA AllowRequestPreservesInv ==
    ASSUME Inv, NEW c \in Calls, AllowRequest(c)
    PROVE  Inv'
<1> USE ParametersAssumption DEF Inv, States, Roles, SlotFree, EnoughSuccesses, EnoughFailures
<1>1. CASE AdmitClosed(c)
  <2>1. Trials' = Trials
    BY <1>1 DEF AllowRequest, AdmitClosed, Trials, TypeOK
  <2> QED
    BY <1>1, <2>1 DEF AdmitClosed, counters, TypeOK, TrialsBounded, NoOverdueTransition
<1>2. CASE AdmitFirstTrial(c)
  <2>1. Trials' = {c}
    BY <1>2 DEF AdmitFirstTrial, Outdated, Trials
  <2>2. Cardinality(Trials') = 1
    BY <2>1, FS_Singleton
  <2>3. TypeOK'
    BY <1>2 DEF AdmitFirstTrial, TransitionTo, Outdated, TypeOK
  <2> QED
    BY <1>2, <2>2, <2>3
    DEF AdmitFirstTrial, TransitionTo, TrialsBounded, NoOverdueTransition
<1>3. CASE AdmitTrial(c)
  <2>1. Trials' = Trials \cup {c}
    BY <1>3 DEF AllowRequest, AdmitTrial, Trials, TypeOK
  <2>2. c \notin Trials
    BY DEF AllowRequest, Trials
  <2>3. Cardinality(Trials') = Cardinality(Trials) + 1
    BY <2>1, <2>2, TrialsFinite, FS_AddElement
  <2> QED
    BY <1>3, <2>3, TrialsFinite DEF AdmitTrial, TypeOK, TrialsBounded, NoOverdueTransition
<1>4. CASE Refuse(c)
  BY <1>4 DEF Refuse, vars, counters, TypeOK, TrialsBounded, NoOverdueTransition, Trials
<1> QED
  BY <1>1, <1>2, <1>3, <1>4 DEF AllowRequest

LEMMA RecordSuccessPreservesInv ==
    ASSUME Inv, NEW c \in Calls, RecordSuccess(c)
    PROVE  Inv'
<1> USE ParametersAssumption DEF Inv, States, Roles, SlotFree, EnoughSuccesses, EnoughFailures
<1>1. CASE CountSuccess(c)
  <2>1. Cardinality(Trials') \in Nat /\ Cardinality(Trials') <= Cardinality(Trials)
    BY <1>1, EndingCallRemovesTrial DEF CountSuccess
  <2> QED
    BY <1>1, <2>1, TrialsFinite
    DEF CountSuccess, TypeOK, TrialsBounded, NoOverdueTransition
<1>2. CASE Close(c)
  BY <1>2, TransitionEndsTrials
  DEF Close, TransitionTo, Outdated, TypeOK, TrialsBounded, NoOverdueTransition
<1>3. CASE ForgetFailures(c)
  <2>1. Cardinality(Trials') \in Nat /\ Cardinality(Trials') <= Cardinality(Trials)
    BY <1>3, EndingCallRemovesTrial DEF ForgetFailures
  <2> QED
    BY <1>3, <2>1, TrialsFinite
    DEF ForgetFailures, TypeOK, TrialsBounded, NoOverdueTransition
<1> QED
  BY <1>1, <1>2, <1>3 DEF RecordSuccess

LEMMA RecordFailurePreservesInv ==
    ASSUME Inv, NEW c \in Calls, RecordFailure(c)
    PROVE  Inv'
<1> USE ParametersAssumption DEF Inv, States, Roles, SlotFree, EnoughSuccesses, EnoughFailures
<1>1. CASE CountFailure(c)
  <2>1. Cardinality(Trials') \in Nat /\ Cardinality(Trials') <= Cardinality(Trials)
    BY <1>1, EndingCallRemovesTrial DEF CountFailure
  <2> QED
    BY <1>1, <2>1, TrialsFinite
    DEF CountFailure, TypeOK, TrialsBounded, NoOverdueTransition
<1>2. CASE Trip(c)
  BY <1>2, TransitionEndsTrials
  DEF Trip, TransitionTo, Outdated, TypeOK, TrialsBounded, NoOverdueTransition
<1> QED
  BY <1>1, <1>2 DEF RecordFailure

LEMMA EscapePreservesInv ==
    ASSUME Inv, NEW c \in Calls, Escape(c)
    PROVE  Inv'
<1>1. c \in Calls /\ TypeOK
  BY DEF Inv
<1>2. Cardinality(Trials') \in Nat /\ Cardinality(Trials') <= Cardinality(Trials)
  BY <1>1, EndingCallRemovesTrial DEF Escape
<1> QED
  BY <1>2, TrialsFinite
  DEF Escape, counters, Roles, Inv, TypeOK, TrialsBounded, NoOverdueTransition

LEMMA TickPreservesInv ==
    ASSUME Inv, Tick
    PROVE  Inv'
  BY ParametersAssumption
  DEF Tick, CooledDown, counters, Trials, Inv, TypeOK, TrialsBounded, NoOverdueTransition

LEMMA InitEstablishesInv ==
    ASSUME Init
    PROVE  Inv
<1>1. Trials = {}
  BY DEF Init, Trials
<1>2. Cardinality(Trials) = 0
  BY <1>1, FS_EmptySet
<1> QED
  BY <1>2, ParametersAssumption
  DEF Init, Inv, TypeOK, States, Roles, TrialsBounded, NoOverdueTransition

LEMMA StepPreservesInv ==
    ASSUME Inv, [Next]_vars
    PROVE  Inv'
<1>1. ASSUME NEW c \in Calls, AllowRequest(c) PROVE Inv'
  BY <1>1, AllowRequestPreservesInv
<1>2. ASSUME NEW c \in Calls, RecordSuccess(c) PROVE Inv'
  BY <1>2, RecordSuccessPreservesInv
<1>3. ASSUME NEW c \in Calls, RecordFailure(c) PROVE Inv'
  BY <1>3, RecordFailurePreservesInv
<1>4. ASSUME NEW c \in Calls, Escape(c) PROVE Inv'
  BY <1>4, EscapePreservesInv
<1>5. CASE Tick
  BY <1>5, TickPreservesInv
<1>6. CASE UNCHANGED vars
  BY <1>6 DEF vars, counters, Trials, Inv, TypeOK, TrialsBounded, NoOverdueTransition
<1> QED
  BY <1>1, <1>2, <1>3, <1>4, <1>5, <1>6 DEF Next, Finish

\* What a step may do to an OPEN breaker.
KeepsOpenOrTries ==
    state = "OPEN" =>
      \/ state' = "OPEN" /\ InFlight' \subseteq InFlight
      \/ /\ state' = "HALF_OPEN"
         /\ CooledDown
         /\ \E c \in Calls \ InFlight : Trials' = {c}

LEMMA OpenAdmitsOneTrial ==
    ASSUME TypeOK, Next
    PROVE  KeepsOpenOrTries
<1> SUFFICES ASSUME state = "OPEN" PROVE KeepsOpenOrTries
  BY DEF KeepsOpenOrTries
<1> USE DEF KeepsOpenOrTries
<1>1. ASSUME NEW c \in Calls, AllowRequest(c) PROVE KeepsOpenOrTries
  <2>1. CASE AdmitFirstTrial(c)
    <3>1. Trials' = {c} /\ c \in Calls \ InFlight
      BY <1>1, <2>1 DEF AllowRequest, AdmitFirstTrial, Outdated, Trials, InFlight
    <3> QED
      BY <2>1, <3>1 DEF AdmitFirstTrial, TransitionTo
  <2>2. CASE Refuse(c)
    BY <2>2 DEF Refuse, vars, InFlight
  <2> QED
    BY <1>1, <2>1, <2>2 DEF AllowRequest, AdmitClosed, AdmitTrial
<1>2. ASSUME NEW c \in Calls, Finish(c) PROVE KeepsOpenOrTries
  <2>1. CASE ForgetFailures(c) \/ CountFailure(c) \/ Escape(c)
    BY <2>1 DEF ForgetFailures, CountFailure, Escape, InFlight, TypeOK
  <2>2. CASE Trip(c)
    BY <2>2 DEF Trip, TransitionTo, Outdated, InFlight, TypeOK
  <2> QED
    BY <1>2, <2>1, <2>2 DEF Finish, RecordSuccess, RecordFailure, CountSuccess, Close
<1>3. CASE Tick
  BY <1>3 DEF Tick, InFlight
<1> QED
  BY <1>1, <1>2, <1>3 DEF Next

-----------------------------------------------------------------------------
(* The theorems.                                                           *)

\* Whatever the calls do, and however many end without reporting, the breaker's
\* counters stay within their thresholds and its trials within their slots.
THEOREM Invariance == Spec => []Inv
<1>1. Init => Inv
  BY InitEstablishesInv
<1>2. Inv /\ [Next]_vars => Inv'
  BY StepPreservesInv
<1> QED
  BY <1>1, <1>2, PTL DEF Spec

\* The variables keep their types (CircuitBreaker.__init__ and every method).
THEOREM TypeCorrect == Spec => []TypeOK
  BY Invariance, PTL DEF Inv

\* allow_request never lets more trials of one HALF_OPEN period run at once than
\* CB_HALF_OPEN_MAX_CALLS, for any number of concurrent calls.
THEOREM TrialsStayBounded == Spec => []TrialsBounded
  BY Invariance, PTL DEF Inv

\* No outcome leaves a counter at its threshold without the transition it calls
\* for, stale outcomes included.
THEOREM TransitionsAreNeverOverdue == Spec => []NoOverdueTransition
  BY Invariance, PTL DEF Inv

\* An OPEN breaker is left only after the whole cooldown, and only by admitting
\* one call as the sole trial: no late outcome closes it or half-opens it.
THEOREM OpenIsLeftOnlyByTrial == Spec => OpenLeftOnlyByTrial
<1>1. TypeOK /\ [Next]_vars => [KeepsOpenOrTries]_vars
  BY OpenAdmitsOneTrial
<1> QED
  BY <1>1, TypeCorrect, PTL DEF Spec, OpenLeftOnlyByTrial, KeepsOpenOrTries
=============================================================================
