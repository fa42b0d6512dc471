------------------------- MODULE ObservabilityProofs -------------------------
(***************************************************************************)
(* The trace ids of any requests, calls and handlers: each caller is told  *)
(* the id of its trace, and one id joins what both services recorded.      *)
(*                                                                         *)
(* TraceInv states what the properties rest on: from its arrival on, the   *)
(* context of a request, the one its handler sees and the one the reset    *)
(* will restore are the same.  The counters play no part in it.            *)
(*                                                                         *)
(* CountInv does the same for the counters: what is known of a response    *)
(* when it is counted is what the caller is told.  MeterInv relates the    *)
(* three counters of a service through the request whose updates are under *)
(* way, which is what bounds the error of a report.                        *)
(***************************************************************************)
EXTENDS Observability, FiniteSetTheorems, TLAPS

TraceTypes ==
    /\ stage \in [Requests -> Stages]
    /\ context \in [Requests -> Contexts \cup {NoContext}]
    /\ current \in [Requests -> Contexts \cup {NoContext}]
    /\ saved \in [Requests -> Contexts \cup {NoContext}]
    /\ answer \in [Requests -> Nat]
    /\ echoed \in [Requests -> Ids \cup {"none"}]
    /\ audits \in [Requests -> SUBSET Ids]

\* One context per request, in a span named after it.
OneContext(r) ==
    /\ ~Started(r) => answer[r] = 0 /\ audits[r] = {}
    /\ Started(r) =>
        /\ context[r] \in Contexts
        /\ context[r].span = r
        /\ current[r] = context[r]
        /\ saved[r] = context[r]
        /\ audits[r] \subseteq {context[r].trace}

\* An answer carries the trace id, and who is done has an answer.
AnswerTraced(r) ==
    /\ answer[r] # 0 => Started(r) /\ echoed[r] = context[r].trace
    /\ stage[r] = "done" => answer[r] # 0

\* A call continues the trace of the request whose handler made it.
CallJoined(r) ==
    CallerOf[r] # Client /\ Started(r) =>
        /\ Started(CallerOf[r])
        /\ context[r].trace = context[CallerOf[r]].trace
        /\ context[r].parent = context[CallerOf[r]].span

TraceInv ==
    TraceTypes /\ \A r \in Requests : OneContext(r) /\ AnswerTraced(r) /\ CallJoined(r)

USE ObservabilityAssumption DEF Stages, Started, MoveTo, traceVars, metricVars, reportVars

-----------------------------------------------------------------------------
(* The steps.                                                              *)

\* A step that leaves the trace variables, the stages and the answers alone.
LEMMA UnseenKeepsTraceInv ==
    ASSUME TraceInv, UNCHANGED <<stage, answer, traceVars>>
    PROVE  TraceInv'
  BY DEF TraceInv, TraceTypes, OneContext, AnswerTraced, CallJoined

\* A step of r that changes no context and does not undo what r had reached.
LEMMA ProgressKeepsTraceInv ==
    ASSUME TraceInv, NEW r \in Requests, Started(r), UNCHANGED context,
           NEW s \in Stages \ {"new"}, stage' = [stage EXCEPT ![r] = s],
           UNCHANGED saved, TraceTypes', current'[r] = context[r],
           audits'[r] \subseteq {context[r].trace},
           answer'[r] # 0 => echoed'[r] = context[r].trace,
           s = "done" => answer'[r] # 0,
           \A q \in Requests \ {r} :
               /\ current'[q] = current[q] /\ audits'[q] = audits[q]
               /\ answer'[q] = answer[q] /\ echoed'[q] = echoed[q]
    PROVE  TraceInv'
<1>1. \A q \in Requests : Started(q)' <=> Started(q)
  BY DEF TraceInv, TraceTypes
<1>2. \A q \in Requests \ {r} : stage'[q] = stage[q]
  BY DEF TraceInv, TraceTypes
<1>3. stage'[r] = s
  BY DEF TraceInv, TraceTypes
<1>4. ASSUME NEW q \in Requests PROVE OneContext(q)'
  BY <1>1, <1>4 DEF TraceInv, OneContext
<1>5. ASSUME NEW q \in Requests PROVE AnswerTraced(q)'
  BY <1>1, <1>2, <1>3, <1>5 DEF TraceInv, AnswerTraced
<1>6. ASSUME NEW q \in Requests PROVE CallJoined(q)'
  BY <1>1, <1>6 DEF TraceInv, CallJoined
<1> QED
  BY <1>4, <1>5, <1>6 DEF TraceInv

\* The span of an arriving request: its own, in a new trace, in that of a client,
\* or in that of its caller.
LEMMA ArriveKeepsTraceInv ==
    ASSUME TraceInv, NEW r \in Requests, Arrive(r)
    PROVE  TraceInv'
<1> USE DEF TraceInv
<1>1. stage[r] = "new" /\ stage' = [stage EXCEPT ![r] = "handling"]
  BY DEF Arrive
<1>2. PICK incoming \in Incoming(r) :
        /\ context' = [context EXCEPT ![r] = Span(r, incoming)]
        /\ saved' = [saved EXCEPT ![r] = Span(r, incoming)]
        /\ current' = [current EXCEPT ![r] = Span(r, incoming)]
  BY DEF Arrive, SetByStartSpan
<1>3. CallerOf[r] # Client =>
        /\ CallerOf[r] \in Requests /\ Started(CallerOf[r]) /\ CallerOf[r] # r
        /\ incoming = context[CallerOf[r]]
  BY <1>1 DEF Arrive, Incoming, OneContext
<1>4. incoming = NoContext \/ incoming \in Contexts
  <2>1. CASE CallerOf[r] = Client
    BY <2>1 DEF Incoming, Contexts, Ids
  <2>2. CASE CallerOf[r] # Client
    BY <1>3, <2>2 DEF OneContext
  <2> QED
    BY <2>1, <2>2
<1>5. Span(r, incoming) \in Contexts /\ Span(r, incoming).span = r
  BY <1>4 DEF Span, Contexts, Ids
<1>6. UNCHANGED <<answer, echoed, audits>>
  BY DEF Arrive
<1>7. /\ context'[r] = Span(r, incoming) /\ stage'[r] = "handling"
      /\ current'[r] = Span(r, incoming) /\ saved'[r] = Span(r, incoming)
      /\ \A q \in Requests \ {r} :
            /\ context'[q] = context[q] /\ stage'[q] = stage[q]
            /\ current'[q] = current[q] /\ saved'[q] = saved[q]
  BY <1>1, <1>2 DEF TraceTypes
<1>8. TraceTypes'
  BY <1>1, <1>2, <1>5, <1>6 DEF TraceTypes
<1>9. ASSUME NEW q \in Requests PROVE OneContext(q)'
  BY <1>1, <1>5, <1>6, <1>7, <1>9 DEF OneContext
<1>10. ASSUME NEW q \in Requests PROVE AnswerTraced(q)'
  BY <1>1, <1>6, <1>7, <1>10 DEF AnswerTraced, OneContext
<1>11. CallJoined(r)'
  <2> SUFFICES ASSUME CallerOf[r] # Client
               PROVE  /\ Started(CallerOf[r])'
                      /\ context'[r].trace = context'[CallerOf[r]].trace
                      /\ context'[r].parent = context'[CallerOf[r]].span
    BY DEF CallJoined
  <2>1. incoming # NoContext
    <3>1. NoContext.trace = "none" /\ incoming.span = CallerOf[r] /\ NoContext.span = "none"
      BY <1>3 DEF NoContext, OneContext
    <3>2. incoming \in Contexts
      BY <1>3 DEF OneContext
    <3>3. NoContext \notin Contexts
      BY DEF NoContext, Contexts, Ids
    <3> QED
      BY <3>2, <3>3
  <2> QED
    BY <1>3, <1>7, <2>1 DEF Span
<1>12. ASSUME NEW q \in Requests, q # r PROVE CallJoined(q)'
  <2>1. CallerOf[q] # Client /\ Started(q) => CallerOf[q] \in Requests /\ CallerOf[q] # r
    BY <1>1, <1>12 DEF CallJoined
  <2> QED
    BY <1>7, <1>12, <2>1 DEF CallJoined
<1> QED
  BY <1>8, <1>9, <1>10, <1>11, <1>12

LEMMA AuditTraceKeepsTraceInv ==
    ASSUME TraceInv, NEW r \in Requests, AuditTrace(r)
    PROVE  TraceInv'
<1> USE DEF TraceInv, AuditTrace
<1>1. Started(r) /\ context[r] \in Contexts /\ current[r] = context[r] /\ audits[r] \subseteq {context[r].trace}
  BY DEF OneContext
<1>2. context[r].trace \in Ids
  BY <1>1 DEF Contexts
<1>3. audits'[r] = audits[r] \cup {context[r].trace}
  BY <1>1 DEF TraceTypes
<1>4. \A q \in Requests \ {r} : audits'[q] = audits[q]
  BY DEF TraceTypes
<1>5. TraceTypes'
  BY <1>1, <1>2 DEF TraceTypes
<1>6. \A q \in Requests : OneContext(q)'
  BY <1>1, <1>3, <1>4 DEF OneContext
<1>7. \A q \in Requests : AnswerTraced(q)' /\ CallJoined(q)'
  BY DEF AnswerTraced, CallJoined
<1> QED
  BY <1>5, <1>6, <1>7

\* Respond and the handler outside give the answer, with the trace id.
LEMMA AnswerKeepsTraceInv ==
    ASSUME TraceInv, NEW r \in Requests,
           (\E status \in {200, 503} : Respond(r, status)) \/ UnhandledException(r)
    PROVE  TraceInv'
<1> USE DEF TraceInv
<1>1. /\ Started(r) /\ context[r].trace \in Ids
      /\ current[r] = context[r] /\ audits[r] \subseteq {context[r].trace}
  BY DEF OneContext, Respond, UnhandledException, Contexts
<1>2. PICK s \in {"answered", "done"}, status \in {200, 500, 503} :
        /\ stage' = [stage EXCEPT ![r] = s]
        /\ answer' = [answer EXCEPT ![r] = status]
        /\ echoed' = [echoed EXCEPT ![r] = context[r].trace]
  BY <1>1 DEF Respond, UnhandledException
<1>3. UNCHANGED <<context, current, saved, audits>>
  BY DEF Respond, UnhandledException
<1>4. TraceTypes'
  BY <1>1, <1>2, <1>3 DEF TraceTypes
<1>5. answer'[r] = status /\ echoed'[r] = context[r].trace
  BY <1>2 DEF TraceTypes
<1>6. \A q \in Requests \ {r} :
        /\ current'[q] = current[q] /\ audits'[q] = audits[q]
        /\ answer'[q] = answer[q] /\ echoed'[q] = echoed[q]
  BY <1>2, <1>3 DEF TraceTypes
<1>7. status # 0 /\ s \in Stages \ {"new"}
  OBVIOUS
<1>8. current'[r] = context[r] /\ audits'[r] \subseteq {context[r].trace} /\ answer'[r] # 0
  BY <1>1, <1>3, <1>5, <1>7
<1>9. stage' = [stage EXCEPT ![r] = s]
  BY <1>2
<1> QED
  BY <1>1, <1>3, <1>4, <1>5, <1>6, <1>7, <1>8, <1>9, ProgressKeepsTraceInv

\* An exception on its way out, and the counting: no answer yet, or one given before.
LEMMA CountingKeepsTraceInv ==
    ASSUME TraceInv, NEW r \in Requests, Raise(r) \/ CountRequest(r) \/ Observe(r)
    PROVE  TraceInv'
<1> USE DEF TraceInv
<1>1. /\ Started(r) /\ current[r] = context[r] /\ audits[r] \subseteq {context[r].trace}
      /\ answer[r] # 0 => echoed[r] = context[r].trace
  BY DEF OneContext, AnswerTraced, Raise, CountRequest, Observe
<1>2. PICK s \in {"raised", "counted", "observed"} : stage' = [stage EXCEPT ![r] = s]
  BY DEF Raise, CountRequest, Observe
<1>3. UNCHANGED <<answer, context, current, saved, echoed, audits>>
  BY DEF Raise, CountRequest, Observe
<1>4. TraceTypes'
  BY <1>2, <1>3 DEF TraceTypes
<1>5. s \in Stages \ {"new", "done"}
  OBVIOUS
<1> QED
  BY <1>1, <1>2, <1>3, <1>4, <1>5, ProgressKeepsTraceInv

\* The reset restores the context of the request itself.
LEMMA LeaveKeepsTraceInv ==
    ASSUME TraceInv, NEW r \in Requests, Leave(r)
    PROVE  TraceInv'
<1> USE DEF TraceInv
<1>1. /\ Started(r) /\ saved[r] = context[r] /\ audits[r] \subseteq {context[r].trace}
      /\ answer[r] # 0 => echoed[r] = context[r].trace
  BY DEF OneContext, AnswerTraced, Leave
<1>2. PICK s \in {"unhandled", "done"} :
        stage' = [stage EXCEPT ![r] = s] /\ (s = "done" => answer[r] # 0)
  BY DEF Leave
<1>3. UNCHANGED <<answer, context, saved, echoed, audits>> /\ current' = [current EXCEPT ![r] = saved[r]]
  BY DEF Leave
<1>4. TraceTypes'
  BY <1>1, <1>2, <1>3 DEF TraceTypes
<1>5. current'[r] = context[r] /\ \A q \in Requests \ {r} : current'[q] = current[q]
  BY <1>1, <1>3 DEF TraceTypes
<1>6. s \in Stages \ {"new"}
  OBVIOUS
<1> QED
  BY <1>1, <1>2, <1>3, <1>4, <1>5, <1>6, ProgressKeepsTraceInv

-----------------------------------------------------------------------------
(* The theorems.                                                           *)

LEMMA InitEstablishesTraceInv == Init => TraceInv
<1> SUFFICES ASSUME Init PROVE TraceInv
  OBVIOUS
<1> USE DEF Init
<1>1. TraceTypes
  BY DEF TraceTypes, Ids
<1>2. ASSUME NEW r \in Requests PROVE OneContext(r) /\ AnswerTraced(r) /\ CallJoined(r)
  BY <1>2 DEF OneContext, AnswerTraced, CallJoined
<1> QED
  BY <1>1, <1>2 DEF TraceInv

\* TraceInv holds in every reachable state, for any requests, any calls between
\* them and any number of reports.
THEOREM Invariance == Spec => []TraceInv
<1>1. ASSUME TraceInv, [Next]_vars PROVE TraceInv'
  <2>1. ASSUME NEW r \in Requests, OnLoop(r) \/ AuditTrace(r) PROVE TraceInv'
    BY <1>1, <2>1, ArriveKeepsTraceInv, AuditTraceKeepsTraceInv, AnswerKeepsTraceInv,
       CountingKeepsTraceInv, LeaveKeepsTraceInv DEF OnLoop
  <2>2. CASE Report \/ UNCHANGED vars
    BY <1>1, <2>2, UnseenKeepsTraceInv DEF Report, vars
  <2> QED
    BY <1>1, <2>1, <2>2 DEF Next
<1> QED
  BY <1>1, InitEstablishesTraceInv, PTL DEF Spec

\* Every caller is told the trace id its handler ran under, also when the handler
\* raised and the 500 was built outside the middleware.
THEOREM ErrorsEcho == Spec => []ErrorEchoesTrace
<1>1. TraceInv => ErrorEchoesTrace
  BY DEF TraceInv, AnswerTraced, ErrorEchoesTrace
<1> QED
  BY <1>1, Invariance, PTL

\* One trace id joins what both services recorded for a request of a client.
THEOREM TracesAreJoined == Spec => []TracesJoin
<1>1. ASSUME TraceInv PROVE TracesJoin
  <2>1. ASSUME NEW r \in Requests, CallerOf[r] # Client, Started(r)
        PROVE  /\ stage[CallerOf[r]] = "done" =>
                    audits[r] \cup audits[CallerOf[r]] \subseteq {echoed[CallerOf[r]]}
               /\ context[r].parent = context[CallerOf[r]].span
    <3>1. CallerOf[r] \in Requests /\ Started(CallerOf[r])
      BY <1>1, <2>1 DEF TraceInv, CallJoined
    <3> QED
      BY <1>1, <2>1, <3>1 DEF TraceInv, CallJoined, OneContext, AnswerTraced
  <2>2. \A q, r \in Requests : Started(q) /\ Started(r) /\ q # r => context[q].span # context[r].span
    BY <1>1 DEF TraceInv, OneContext
  <2> QED
    BY <2>1, <2>2 DEF TracesJoin
<1> QED
  BY <1>1, Invariance, PTL

-----------------------------------------------------------------------------
(* The counters.  What the middleware knows of a response (seen) is what   *)
(* the caller is told, before and after the handler outside: so a request  *)
(* may be counted in between.                                              *)

CountTypes ==
    /\ stage \in [Requests -> Stages]
    /\ seen \in [Requests -> Statuses]
    /\ answer \in [Requests -> Statuses \cup {0}]
    /\ requests \in [Services -> [Statuses -> Nat]]
    /\ errors \in [Services -> Nat]

SeenIsTold(r) ==
    /\ answer[r] \in {0, seen[r]}
    /\ answer[r] = 0 => seen[r] = 500
    /\ stage[r] \in {"new", "handling", "raised", "unhandled"} => answer[r] = 0

PastCount == {"counted", "observed", "unhandled", "done"}
PastLeave == {"unhandled", "done"}

SeenIn(s, stages, statuses) ==
    {r \in Requests : ServiceOf(r) = s /\ stage[r] \in stages /\ seen[r] \in statuses}

CountsAgree ==
    \A s \in Services :
        /\ \A c \in Statuses : requests[s][c] = Cardinality(SeenIn(s, PastCount, {c}))
        /\ errors[s] = Cardinality(SeenIn(s, PastLeave, {500, 503}))

CountInv == CountTypes /\ (\A r \in Requests : SeenIsTold(r)) /\ CountsAgree

LEMMA ServiceType == \A r \in Requests : ServiceOf(r) \in Services
  BY DEF ServiceOf, Services

LEMMA OneMore ==
    ASSUME NEW A \in SUBSET Requests, NEW r \in Requests, r \notin A
    PROVE  Cardinality(A \cup {r}) = Cardinality(A) + 1
  BY FS_Subset, FS_AddElement

\* A step that counts nothing and moves no request past a counter.
LEMMA QuietKeepsCountInv ==
    ASSUME CountInv, CountTypes', \A r \in Requests : SeenIsTold(r)', UNCHANGED <<requests, errors>>,
           \A q \in Requests :
               /\ stage'[q] \in PastCount <=> stage[q] \in PastCount
               /\ stage'[q] \in PastLeave <=> stage[q] \in PastLeave
               /\ stage[q] \in PastCount => seen'[q] = seen[q]
    PROVE  CountInv'
<1>1. PastLeave \subseteq PastCount
  BY DEF PastCount, PastLeave
<1>2. ASSUME NEW s, NEW T PROVE SeenIn(s, PastCount, T)' = SeenIn(s, PastCount, T)
  BY DEF SeenIn, ServiceOf
<1>3. ASSUME NEW s, NEW T PROVE SeenIn(s, PastLeave, T)' = SeenIn(s, PastLeave, T)
  BY <1>1 DEF SeenIn, ServiceOf
<1>4. CountsAgree'
  BY <1>2, <1>3 DEF CountInv, CountsAgree
<1> QED
  BY <1>4 DEF CountInv

\* The way in, the handler, the histogram and the handler outside.
LEMMA UncountedKeepsCountInv ==
    ASSUME CountInv, NEW r \in Requests,
           \/ Arrive(r) \/ AuditTrace(r) \/ Raise(r) \/ Observe(r) \/ UnhandledException(r)
           \/ \E status \in {200, 503} : Respond(r, status)
    PROVE  CountInv'
<1> USE DEF CountInv
<1>1. UNCHANGED <<requests, errors>>
  BY DEF Arrive, AuditTrace, Raise, Observe, UnhandledException, Respond
<1>2. CountTypes'
  <2>1. PICK t \in Stages : stage' \in {stage, [stage EXCEPT ![r] = t]}
    BY DEF Arrive, AuditTrace, Raise, Observe, UnhandledException, Respond
  <2>2. seen' \in [Requests -> Statuses] /\ answer' \in [Requests -> Statuses \cup {0}]
    <3>1. ASSUME NEW status \in {200, 503}, Respond(r, status)
          PROVE  seen' \in [Requests -> Statuses] /\ answer' \in [Requests -> Statuses \cup {0}]
      <4>1. seen' = [seen EXCEPT ![r] = status] /\ answer' = [answer EXCEPT ![r] = status]
        BY <3>1 DEF Respond
      <4> QED
        BY <4>1 DEF CountTypes, Statuses
    <3>2. CASE UnhandledException(r)
      BY <3>2 DEF UnhandledException, CountTypes, Statuses
    <3>3. CASE Arrive(r) \/ AuditTrace(r) \/ Raise(r) \/ Observe(r)
      BY <3>3 DEF Arrive, AuditTrace, Raise, Observe, CountTypes
    <3> QED
      BY <3>1, <3>2, <3>3
  <2> QED
    BY <1>1, <2>1, <2>2 DEF CountTypes
<1>3. ASSUME NEW q \in Requests PROVE SeenIsTold(q)'
  BY <1>3 DEF CountTypes, SeenIsTold, Statuses,
     Arrive, AuditTrace, Raise, Observe, UnhandledException, Respond
<1>4. ASSUME NEW q \in Requests
      PROVE  /\ stage'[q] \in PastCount <=> stage[q] \in PastCount
             /\ stage'[q] \in PastLeave <=> stage[q] \in PastLeave
             /\ stage[q] \in PastCount => seen'[q] = seen[q]
  BY <1>4 DEF CountTypes, PastCount, PastLeave,
     Arrive, AuditTrace, Raise, Observe, UnhandledException, Respond
<1> QED
  BY <1>1, <1>2, <1>3, <1>4, QuietKeepsCountInv

\* One counter goes up by one, and one request passes it.
LEMMA CountRequestKeepsCountInv ==
    ASSUME CountInv, NEW r \in Requests, CountRequest(r)
    PROVE  CountInv'
<1> USE DEF CountInv
<1> DEFINE me == ServiceOf(r)
<1>1. /\ stage[r] \in {"answered", "raised"} /\ stage' = [stage EXCEPT ![r] = "counted"]
      /\ UNCHANGED <<seen, answer, errors>>
      /\ requests' = [requests EXCEPT ![me][seen[r]] = @ + 1]
  BY DEF CountRequest
<1>2. me \in Services /\ seen[r] \in Statuses
  BY ServiceType DEF CountTypes
<1>3. CountTypes'
  <2>1. requests' \in [Services -> [Statuses -> Nat]]
    BY <1>1, <1>2 DEF CountTypes
  <2> QED
    BY <1>1, <2>1 DEF CountTypes
<1>4. \A q \in Requests : SeenIsTold(q)'
  BY <1>1 DEF CountTypes, SeenIsTold
<1>5. ASSUME NEW s \in Services, NEW c \in Statuses
      PROVE  requests'[s][c] = Cardinality(SeenIn(s, PastCount, {c})')
  <2>1. CASE s = me /\ c = seen[r]
    <3>1. SeenIn(s, PastCount, {c})' = SeenIn(s, PastCount, {c}) \cup {r}
      BY <1>1, <2>1 DEF SeenIn, PastCount, CountTypes, ServiceOf
    <3>2. r \notin SeenIn(s, PastCount, {c})
      BY <1>1 DEF SeenIn, PastCount
    <3>3. SeenIn(s, PastCount, {c}) \in SUBSET Requests
      BY DEF SeenIn
    <3>4. requests'[s][c] = requests[s][c] + 1
      BY <1>1, <1>2, <2>1 DEF CountTypes
    <3>5. Cardinality(SeenIn(s, PastCount, {c}) \cup {r}) = Cardinality(SeenIn(s, PastCount, {c})) + 1
      BY <3>2, <3>3, OneMore
    <3>6. requests[s][c] = Cardinality(SeenIn(s, PastCount, {c}))
      BY DEF CountsAgree
    <3> QED
      BY <3>1, <3>4, <3>5, <3>6
  <2>2. CASE ~(s = me /\ c = seen[r])
    <3>1. SeenIn(s, PastCount, {c})' = SeenIn(s, PastCount, {c})
      BY <1>1, <2>2 DEF SeenIn, PastCount, CountTypes, ServiceOf
    <3>2. requests'[s][c] = requests[s][c]
      BY <1>1, <1>2, <2>2 DEF CountTypes
    <3> QED
      BY <3>1, <3>2 DEF CountsAgree
  <2> QED
    BY <2>1, <2>2
<1>6. ASSUME NEW s \in Services PROVE errors'[s] = Cardinality(SeenIn(s, PastLeave, {500, 503})')
  <2>1. SeenIn(s, PastLeave, {500, 503})' = SeenIn(s, PastLeave, {500, 503})
    BY <1>1 DEF SeenIn, PastLeave, CountTypes, ServiceOf
  <2> QED
    BY <1>1, <2>1 DEF CountsAgree
<1> QED
  BY <1>3, <1>4, <1>5, <1>6 DEF CountsAgree

LEMMA LeaveKeepsCountInv ==
    ASSUME CountInv, NEW r \in Requests, Leave(r)
    PROVE  CountInv'
<1> USE DEF CountInv
<1> DEFINE me == ServiceOf(r)
<1>1. PICK t \in {"unhandled", "done"} :
        stage' = [stage EXCEPT ![r] = t] /\ (t = "unhandled" => answer[r] = 0)
  BY DEF Leave
<1>2. /\ stage[r] = "observed" /\ UNCHANGED <<seen, answer, requests>>
      /\ errors' = [errors EXCEPT ![me] = IF seen[r] >= 500 THEN @ + 1 ELSE @]
  BY DEF Leave
<1>3. me \in Services /\ seen[r] \in Statuses
  BY ServiceType DEF CountTypes
<1>4. CountTypes'
  BY <1>1, <1>2, <1>3 DEF CountTypes
<1>5. \A q \in Requests : SeenIsTold(q)'
  BY <1>1, <1>2 DEF CountTypes, SeenIsTold
<1>6. ASSUME NEW s \in Services, NEW c \in Statuses
      PROVE  requests'[s][c] = Cardinality(SeenIn(s, PastCount, {c})')
  <2>1. SeenIn(s, PastCount, {c})' = SeenIn(s, PastCount, {c})
    BY <1>1, <1>2 DEF SeenIn, PastCount, CountTypes, ServiceOf
  <2> QED
    BY <1>2, <2>1 DEF CountsAgree
<1>7. ASSUME NEW s \in Services PROVE errors'[s] = Cardinality(SeenIn(s, PastLeave, {500, 503})')
  <2> DEFINE before == SeenIn(s, PastLeave, {500, 503})
  <2>1. CASE s = me /\ seen[r] \in {500, 503}
    <3>1. before' = before \cup {r}
      BY <1>1, <1>2, <2>1 DEF SeenIn, PastLeave, CountTypes, ServiceOf
    <3>2. before \in SUBSET Requests /\ r \notin before
      BY <1>2 DEF SeenIn, PastLeave
    <3>3. errors'[s] = errors[s] + 1
      BY <1>2, <1>3, <2>1 DEF CountTypes
    <3>4. Cardinality(before \cup {r}) = Cardinality(before) + 1
      BY <3>2, OneMore
    <3>5. errors[s] = Cardinality(before)
      BY DEF CountsAgree
    <3> QED
      BY <3>1, <3>3, <3>4, <3>5
  <2>2. CASE ~(s = me /\ seen[r] \in {500, 503})
    <3>1. before' = before
      BY <1>1, <1>2, <2>2 DEF SeenIn, PastLeave, CountTypes, ServiceOf
    <3>2. errors'[s] = errors[s]
      BY <1>2, <1>3, <2>2 DEF CountTypes, Statuses
    <3> QED
      BY <3>1, <3>2 DEF CountsAgree
  <2> QED
    BY <2>1, <2>2
<1> QED
  BY <1>4, <1>5, <1>6, <1>7 DEF CountsAgree

LEMMA InitEstablishesCountInv == Init => CountInv
<1> SUFFICES ASSUME Init PROVE CountInv
  OBVIOUS
<1>1. CountTypes /\ \A r \in Requests : SeenIsTold(r)
  BY DEF Init, CountTypes, SeenIsTold, Statuses
<1>2. ASSUME NEW s, NEW T PROVE SeenIn(s, PastCount, T) = {} /\ SeenIn(s, PastLeave, T) = {}
  BY DEF Init, SeenIn, PastCount, PastLeave
<1>3. ASSUME NEW s \in Services, NEW c \in Statuses
      PROVE  requests[s][c] = Cardinality(SeenIn(s, PastCount, {c}))
  <2>1. requests[s][c] = 0
    BY DEF Init
  <2> QED
    BY <1>2, <2>1, FS_EmptySet
<1>4. ASSUME NEW s \in Services PROVE errors[s] = Cardinality(SeenIn(s, PastLeave, {500, 503}))
  <2>1. errors[s] = 0
    BY DEF Init
  <2> QED
    BY <1>2, <2>1, FS_EmptySet
<1> QED
  BY <1>1, <1>3, <1>4 DEF CountInv, CountsAgree

\* CountInv holds in every reachable state, for any number of requests.
LEMMA CountInvariance == Spec => []CountInv
<1>1. ASSUME CountInv, [Next]_vars PROVE CountInv'
  <2>1. ASSUME NEW r \in Requests, OnLoop(r) \/ AuditTrace(r) PROVE CountInv'
    BY <1>1, <2>1, UncountedKeepsCountInv, CountRequestKeepsCountInv, LeaveKeepsCountInv DEF OnLoop
  <2>2. CASE Report \/ UNCHANGED vars
    <3>1. UNCHANGED <<stage, seen, answer, requests, errors>>
      BY <2>2 DEF Report, vars
    <3>2. CountTypes' /\ \A r \in Requests : SeenIsTold(r)'
      BY <1>1, <3>1 DEF CountInv, CountTypes, SeenIsTold
    <3> QED
      BY <1>1, <3>1, <3>2, QuietKeepsCountInv
  <2> QED
    BY <1>1, <2>1, <2>2 DEF Next
<1> QED
  BY <1>1, InitEstablishesCountInv, PTL DEF Spec

\* Every request is counted once, under the status its caller got or will get,
\* for any number of requests, exceptions and reports.
THEOREM EveryRequestCounted == Spec => []CountedAsAnswered
<1>1. ASSUME CountInv PROVE CountedAsAnswered
  <2>1. \A r \in Requests : Outcome(r) = seen[r]
    BY <1>1 DEF CountInv, CountTypes, SeenIsTold, Outcome
  <2>2. ASSUME NEW s, NEW S, NEW T PROVE CountedIn(s, S, T) = Cardinality(SeenIn(s, S, T))
    <3>1. {r \in Requests : ServiceOf(r) = s /\ stage[r] \in S /\ Outcome(r) \in T} = SeenIn(s, S, T)
      BY <2>1 DEF SeenIn
    <3> QED
      BY <3>1 DEF CountedIn
  <2> QED
    BY <1>1, <2>2 DEF CountInv, CountsAgree, CountedAsAnswered, PastCount, PastLeave
<1> QED
  BY <1>1, CountInvariance, PTL

-----------------------------------------------------------------------------
(* The histogram, the finally block and the reports.  One request of a     *)
(* service at a time is between its three updates, and by how much the     *)
(* three counters differ meanwhile depends on how far it has come.         *)

MeterTypes ==
    /\ counts \in [Services -> [1 .. Buckets -> Nat]]
    /\ totals \in [Services -> Nat]
    /\ loop \in [Services -> Requests \cup {"free"}]
    /\ report \in [stage : {"idle", "requests", "errors"},
                    requests : Nat, errors : Nat, observed : Nat]
    /\ reports \in 0 .. MaxReports

\* The request between its updates has the event loop of its service.
LoopHeld ==
    /\ \A r \in Requests : stage[r] \in Counting => loop[ServiceOf(r)] = r
    /\ \A s \in Services : loop[s] # "free" => stage[loop[s]] \in Counting /\ ServiceOf(loop[s]) = s

\* It is counted first, timed next, and an error last.
InStep(s) ==
    /\ loop[s] = "free" => totals[s] = RequestsTotal(s) /\ errors[s] <= RequestsTotal(s)
    /\ loop[s] # "free" =>
        /\ errors[s] + 1 <= RequestsTotal(s)
        /\ stage[loop[s]] = "counted" => totals[s] + 1 = RequestsTotal(s)
        /\ stage[loop[s]] = "observed" => totals[s] = RequestsTotal(s)

ReportWithin ==
    /\ report.requests <= RequestsTotal("gateway")
    /\ report.errors <= RequestsTotal("gateway")
    /\ report.stage = "idle" => report.requests <= report.observed + 1

MeterInv == MeterTypes /\ LoopHeld /\ (\A s \in Services : InStep(s)) /\ ReportWithin

\* A step on the event loop that updates no counter and leaves the finally block alone.
LEMMA QuietKeepsMeterInv ==
    ASSUME CountTypes, CountTypes', MeterInv, UNCHANGED <<metricVars, loop, reportVars>>,
           \A q \in Requests : stage'[q] = stage[q] \/ (stage[q] \notin Counting /\ stage'[q] \notin Counting)
    PROVE  MeterInv'
<1> USE DEF MeterInv
<1>1. MeterTypes' /\ ReportWithin'
  BY DEF MeterTypes, ReportWithin, RequestsTotal
<1>2. LoopHeld'
  BY DEF LoopHeld, MeterTypes, ServiceOf
<1>3. ASSUME NEW s \in Services PROVE InStep(s)'
  <2>1. loop[s] # "free" => stage'[loop[s]] = stage[loop[s]]
    BY <1>3 DEF LoopHeld, MeterTypes
  <2>2. RequestsTotal(s)' = RequestsTotal(s) /\ UNCHANGED <<loop, totals, errors>>
    BY DEF RequestsTotal
  <2> QED
    BY <2>1, <2>2 DEF InStep
<1> QED
  BY <1>1, <1>2, <1>3

\* The first update: the request takes the loop, and is now counted but not timed.
LEMMA CountRequestKeepsMeterInv ==
    ASSUME CountTypes, CountTypes', MeterInv, NEW r \in Requests, CountRequest(r)
    PROVE  MeterInv'
<1> USE DEF MeterInv
<1> DEFINE me == ServiceOf(r)
<1>1. /\ loop[me] = "free" /\ loop' = [loop EXCEPT ![me] = r]
      /\ stage' = [stage EXCEPT ![r] = "counted"]
      /\ requests' = [requests EXCEPT ![me][seen[r]] = @ + 1]
      /\ UNCHANGED <<errors, counts, totals, report, reports>>
  BY DEF CountRequest, LoopFree
<1>2. me \in Services /\ seen[r] \in Statuses /\ r # "free"
  BY ServiceType DEF CountTypes
<1>3. RequestsTotal(me)' = RequestsTotal(me) + 1
  <2>1. requests[me] \in [Statuses -> Nat] /\ requests'[me] = [requests[me] EXCEPT ![seen[r]] = @ + 1]
    BY <1>1, <1>2 DEF CountTypes
  <2>2. \A c \in Statuses : requests'[me][c] = IF c = seen[r] THEN requests[me][c] + 1 ELSE requests[me][c]
    BY <2>1
  <2>3. \A c \in Statuses : requests[me][c] \in Nat
    BY <2>1
  <2> QED
    BY <1>2, <2>2, <2>3 DEF RequestsTotal, Statuses
<1>4. ASSUME NEW s \in Services \ {me} PROVE RequestsTotal(s)' = RequestsTotal(s)
  BY <1>1, <1>2 DEF RequestsTotal, CountTypes
<1>5. \A s \in Services : RequestsTotal(s) \in Nat /\ errors[s] \in Nat /\ totals[s] \in Nat
  BY DEF RequestsTotal, CountTypes, MeterTypes, Statuses
<1>6. /\ stage'[r] = "counted" /\ \A q \in Requests \ {r} : stage'[q] = stage[q]
      /\ loop'[me] = r /\ \A s \in Services \ {me} : loop'[s] = loop[s]
  BY <1>1, <1>2 DEF CountTypes, MeterTypes
<1>7. MeterTypes'
  BY <1>1, <1>2 DEF MeterTypes
<1>8. LoopHeld'
  <2>1. ASSUME NEW q \in Requests, stage'[q] \in Counting PROVE loop'[ServiceOf(q)] = q
    <3>1. CASE q # r
      <4>1. stage[q] \in Counting /\ loop[ServiceOf(q)] = q /\ ServiceOf(q) \in Services
        BY <1>6, <2>1, <3>1, ServiceType DEF LoopHeld
      <4>2. ServiceOf(q) # me
        BY <1>1, <4>1
      <4> QED
        BY <1>6, <4>1, <4>2
    <3> QED
      BY <1>6, <3>1
  <2>2. ASSUME NEW s \in Services, loop'[s] # "free"
        PROVE  stage'[loop'[s]] \in Counting /\ ServiceOf(loop'[s]) = s
    <3>1. CASE s = me
      BY <1>6, <3>1 DEF Counting
    <3>2. CASE s # me
      BY <1>6, <2>2, <3>2 DEF LoopHeld, MeterTypes
    <3> QED
      BY <3>1, <3>2
  <2> QED
    BY <2>1, <2>2 DEF LoopHeld, ServiceOf
<1>9. ASSUME NEW s \in Services PROVE InStep(s)'
  <2>1. CASE s = me
    BY <1>1, <1>2, <1>3, <1>5, <1>6, <2>1 DEF InStep
  <2>2. CASE s # me
    <3>1. loop[s] # "free" => stage'[loop[s]] = stage[loop[s]]
      BY <1>6, <2>2 DEF LoopHeld, MeterTypes
    <3> QED
      BY <1>1, <1>4, <1>6, <2>2, <3>1 DEF InStep
  <2> QED
    BY <2>1, <2>2
<1>10. ReportWithin'
  <2>1. "gateway" \in Services
    BY DEF Services
  <2> DEFINE now == RequestsTotal("gateway")
  <2>2. now \in Nat /\ now' \in {now, now + 1}
    <3>1. CASE me = "gateway"
      BY <1>3, <1>5, <2>1, <3>1
    <3>2. CASE me # "gateway"
      BY <1>4, <1>5, <2>1, <3>2
    <3> QED
      BY <3>1, <3>2
  <2>3. report.errors \in Nat /\ report.requests \in Nat
    BY DEF MeterTypes
  <2> QED
    BY <1>1, <1>5, <2>1, <2>2, <2>3 DEF ReportWithin
<1> QED
  BY <1>7, <1>8, <1>9, <1>10

\* The second: it is timed.
LEMMA ObserveKeepsMeterInv ==
    ASSUME CountTypes, CountTypes', MeterInv, NEW r \in Requests, Observe(r)
    PROVE  MeterInv'
<1> USE DEF MeterInv
<1> DEFINE me == ServiceOf(r)
<1>1. /\ stage[r] = "counted" /\ stage' = [stage EXCEPT ![r] = "observed"]
      /\ totals' = [totals EXCEPT ![me] = @ + 1]
      /\ UNCHANGED <<loop, requests, errors, report, reports>>
  BY DEF Observe
<1>2. me \in Services /\ r # "free" /\ loop[me] = r
  BY <1>1, ServiceType DEF LoopHeld, Counting
<1>3. PICK b \in 1 .. Buckets + 1 :
        counts' = [counts EXCEPT ![me] = [i \in 1 .. Buckets |-> IF i >= b THEN @[i] + 1 ELSE @[i]]]
  BY DEF Observe
<1>4. counts' \in [Services -> [1 .. Buckets -> Nat]]
  <2>1. [i \in 1 .. Buckets |-> IF i >= b THEN counts[me][i] + 1 ELSE counts[me][i]] \in [1 .. Buckets -> Nat]
    BY <1>2 DEF MeterTypes
  <2> QED
    BY <1>3, <2>1 DEF MeterTypes
<1>5. MeterTypes'
  <2>1. totals' \in [Services -> Nat]
    BY <1>1, <1>2 DEF MeterTypes
  <2> QED
    BY <1>1, <1>4, <2>1 DEF MeterTypes
<1>6. stage'[r] = "observed" /\ \A q \in Requests \ {r} : stage'[q] = stage[q]
  BY <1>1 DEF CountTypes
<1>7. LoopHeld'
  BY <1>1, <1>6 DEF LoopHeld, Counting, MeterTypes, ServiceOf
<1>8. \A s \in Services : RequestsTotal(s)' = RequestsTotal(s)
  BY <1>1 DEF RequestsTotal
<1>9. ASSUME NEW s \in Services PROVE InStep(s)'
  <2>1. CASE s = me
    <3>1. totals[me] + 1 = RequestsTotal(me) /\ errors[me] + 1 <= RequestsTotal(me)
      BY <1>1, <1>2 DEF InStep
    <3>2. totals'[me] = totals[me] + 1
      BY <1>1, <1>2 DEF MeterTypes
    <3> QED
      BY <1>1, <1>2, <1>6, <1>8, <2>1, <3>1, <3>2 DEF InStep
  <2>2. CASE s # me
    <3>1. loop[s] # "free" => loop[s] # r /\ stage'[loop[s]] = stage[loop[s]]
      BY <1>6, <2>2 DEF LoopHeld, MeterTypes
    <3>2. totals'[s] = totals[s]
      BY <1>1, <1>2, <2>2 DEF MeterTypes
    <3> QED
      BY <1>1, <1>8, <3>1, <3>2 DEF InStep
  <2> QED
    BY <2>1, <2>2
<1>10. ReportWithin'
  BY <1>1, <1>8 DEF ReportWithin, RequestsTotal
<1> QED
  BY <1>5, <1>7, <1>9, <1>10

\* The third: its error is counted, and the loop is free.
LEMMA LeaveKeepsMeterInv ==
    ASSUME CountTypes, CountTypes', MeterInv, NEW r \in Requests, Leave(r)
    PROVE  MeterInv'
<1> USE DEF MeterInv
<1> DEFINE me == ServiceOf(r)
<1>1. /\ stage[r] = "observed" /\ loop' = [loop EXCEPT ![me] = "free"]
      /\ errors' = [errors EXCEPT ![me] = IF seen[r] >= 500 THEN @ + 1 ELSE @]
      /\ UNCHANGED <<requests, counts, totals, report, reports>>
  BY DEF Leave
<1>2. PICK t \in {"unhandled", "done"} : stage' = [stage EXCEPT ![r] = t]
  BY DEF Leave
<1>3. me \in Services /\ r # "free" /\ loop[me] = r
  BY <1>1, ServiceType DEF LoopHeld, Counting
<1>4. /\ stage'[r] \notin Counting /\ \A q \in Requests \ {r} : stage'[q] = stage[q]
      /\ loop'[me] = "free" /\ \A s \in Services \ {me} : loop'[s] = loop[s]
  BY <1>1, <1>2, <1>3 DEF CountTypes, MeterTypes, Counting
<1>5. MeterTypes'
  BY <1>1, <1>3 DEF MeterTypes
<1>6. LoopHeld'
  <2>1. ASSUME NEW q \in Requests, stage'[q] \in Counting PROVE loop'[ServiceOf(q)] = q
    <3>1. q # r /\ loop[ServiceOf(q)] = q /\ ServiceOf(q) \in Services
      BY <1>4, <2>1, ServiceType DEF LoopHeld
    <3> QED
      BY <1>3, <1>4, <3>1
  <2>2. ASSUME NEW s \in Services, loop'[s] # "free"
        PROVE  stage'[loop'[s]] \in Counting /\ ServiceOf(loop'[s]) = s
    <3>1. s # me /\ loop'[s] = loop[s] /\ ServiceOf(loop[s]) = s /\ loop[s] \in Requests
      BY <1>4, <2>2 DEF LoopHeld, MeterTypes
    <3> QED
      BY <1>4, <2>2, <3>1 DEF LoopHeld
  <2> QED
    BY <2>1, <2>2 DEF LoopHeld, ServiceOf
<1>7. \A s \in Services : RequestsTotal(s)' = RequestsTotal(s)
  BY <1>1 DEF RequestsTotal
<1>8. \A s \in Services : RequestsTotal(s) \in Nat /\ errors[s] \in Nat
  BY DEF RequestsTotal, CountTypes, Statuses
<1>9. ASSUME NEW s \in Services PROVE InStep(s)'
  <2>1. CASE s = me
    <3>1. totals[me] = RequestsTotal(me) /\ errors[me] + 1 <= RequestsTotal(me)
      BY <1>1, <1>3 DEF InStep
    <3>2. errors'[me] <= errors[me] + 1
      BY <1>1, <1>3, <1>8 DEF CountTypes
    <3>3. errors'[me] \in Nat
      BY <1>3 DEF CountTypes
    <3> QED
      BY <1>1, <1>3, <1>4, <1>7, <1>8, <2>1, <3>1, <3>2, <3>3 DEF InStep
  <2>2. CASE s # me
    <3>1. loop[s] # "free" => stage'[loop[s]] = stage[loop[s]]
      BY <1>4, <2>2 DEF LoopHeld, MeterTypes
    <3>2. errors'[s] = errors[s] /\ totals'[s] = totals[s] /\ loop'[s] = loop[s]
      BY <1>1, <1>3, <1>4, <2>2 DEF CountTypes
    <3> QED
      BY <1>7, <3>1, <3>2 DEF InStep
  <2> QED
    BY <2>1, <2>2
<1>10. ReportWithin'
  BY <1>1, <1>7 DEF ReportWithin, RequestsTotal
<1> QED
  BY <1>5, <1>6, <1>9, <1>10

\* What a report reads is within what has been counted, and all but one of the
\* requests counted are timed.
LEMMA ReportKeepsMeterInv ==
    ASSUME CountTypes, MeterInv, Report
    PROVE  MeterInv'
<1> USE DEF MeterInv
<1>1. UNCHANGED <<stage, loop, requests, errors, counts, totals>>
  BY DEF Report
<1>2. "gateway" \in Services
  BY DEF Services
<1>3. /\ RequestsTotal("gateway") \in Nat /\ errors["gateway"] \in Nat /\ totals["gateway"] \in Nat
      /\ RequestsTotal("gateway")' = RequestsTotal("gateway")
  BY <1>1, <1>2 DEF RequestsTotal, CountTypes, MeterTypes, Statuses
<1>4. errors["gateway"] <= RequestsTotal("gateway") /\ RequestsTotal("gateway") <= totals["gateway"] + 1
  <2>1. InStep("gateway")
    BY <1>2
  <2>2. loop["gateway"] # "free" => stage[loop["gateway"]] \in {"counted", "observed"}
    BY <1>2 DEF LoopHeld, Counting
  <2> QED
    BY <1>3, <2>1, <2>2 DEF InStep
<1>5. MeterTypes' /\ ReportWithin'
  <2> DEFINE now == RequestsTotal("gateway")
  <2>1. /\ report.requests \in Nat /\ report.errors \in Nat /\ report.observed \in Nat
        /\ report.requests <= now /\ report.errors <= now
        /\ report \in [stage : {"idle", "requests", "errors"},
                       requests : Nat, errors : Nat, observed : Nat]
    BY DEF MeterTypes, ReportWithin
  <2>2. now \in Nat /\ now' = now
    BY <1>3
  <2> HIDE DEF now
  <2>3. /\ report' \in [stage : {"idle", "requests", "errors"},
                        requests : Nat, errors : Nat, observed : Nat]
        /\ reports' \in 0 .. MaxReports
        /\ report'.requests <= now /\ report'.errors <= now
        /\ report'.stage = "idle" => report'.requests <= report'.observed + 1
    <3>1. CASE ReadRequests
      <4>1. report' = [report EXCEPT !.stage = "requests", !.requests = now] /\ reports' = reports + 1
        BY <3>1 DEF ReadRequests, now
      <4>2. reports' \in 0 .. MaxReports
        BY <3>1, <4>1 DEF ReadRequests, MeterTypes
      <4>3. /\ report'.stage = "requests" /\ report'.requests = now
            /\ report'.errors = report.errors /\ report'.observed = report.observed
        BY <2>1, <4>1
      <4>4. report' \in [stage : {"idle", "requests", "errors"},
                         requests : Nat, errors : Nat, observed : Nat]
        BY <2>1, <2>2, <4>1
      <4> QED
        BY <2>1, <2>2, <4>2, <4>3, <4>4
    <3>2. CASE ReadErrors
      <4>1. report' = [report EXCEPT !.stage = "errors", !.errors = errors["gateway"]] /\ reports' = reports
        BY <3>2 DEF ReadErrors
      <4>2. errors["gateway"] <= now /\ reports \in 0 .. MaxReports
        BY <1>4 DEF now, MeterTypes
      <4> QED
        BY <1>3, <2>1, <2>2, <4>1, <4>2
    <3>3. CASE ReadLatency
      <4>1. report' = [report EXCEPT !.stage = "idle", !.observed = totals["gateway"]] /\ reports' = reports
        BY <3>3 DEF ReadLatency
      <4>2. now <= totals["gateway"] + 1 /\ reports \in 0 .. MaxReports
        BY <1>4 DEF now, MeterTypes
      <4>3. /\ report'.stage = "idle" /\ report'.requests = report.requests
            /\ report'.errors = report.errors /\ report'.observed = totals["gateway"]
        BY <2>1, <4>1
      <4>4. report' \in [stage : {"idle", "requests", "errors"},
                         requests : Nat, errors : Nat, observed : Nat]
        BY <1>3, <2>1, <4>1
      <4>5. totals["gateway"] \in Nat
        BY <1>3
      <4>6. report.requests <= totals["gateway"] + 1
        BY <2>1, <2>2, <4>2, <4>5
      <4> QED
        BY <2>1, <4>1, <4>2, <4>3, <4>4, <4>6
    <3> QED
      BY <3>1, <3>2, <3>3 DEF Report
  <2>4. ReportWithin'
    BY <2>2, <2>3 DEF ReportWithin, now
  <2> QED
    BY <1>1, <2>3, <2>4 DEF MeterTypes
<1>6. LoopHeld'
  BY <1>1 DEF LoopHeld, ServiceOf
<1>7. \A s \in Services : InStep(s)'
  BY <1>1 DEF InStep, RequestsTotal
<1> QED
  BY <1>5, <1>6, <1>7

LEMMA InitEstablishesMeterInv == Init => MeterInv
<1> SUFFICES ASSUME Init PROVE MeterInv
  OBVIOUS
<1>1. \A s \in Services : RequestsTotal(s) = 0 /\ totals[s] = 0 /\ errors[s] = 0 /\ loop[s] = "free"
  BY DEF Init, RequestsTotal, Statuses
<1>2. MeterTypes
  BY DEF Init, MeterTypes
<1>3. LoopHeld
  BY <1>1 DEF Init, LoopHeld, Counting
<1>4. \A s \in Services : InStep(s)
  BY <1>1 DEF InStep
<1>5. ReportWithin
  BY <1>1 DEF Init, ReportWithin, Services
<1> QED
  BY <1>2, <1>3, <1>4, <1>5 DEF MeterInv

\* MeterInv holds in every reachable state.
LEMMA MeterInvariance == Spec => []MeterInv
<1>1. ASSUME CountInv, CountInv', MeterInv, [Next]_vars PROVE MeterInv'
  <2>1. ASSUME NEW r \in Requests, CountRequest(r) \/ Observe(r) \/ Leave(r) PROVE MeterInv'
    BY <1>1, <2>1, CountRequestKeepsMeterInv, ObserveKeepsMeterInv, LeaveKeepsMeterInv DEF CountInv
  <2>2. ASSUME NEW r \in Requests,
               \/ Arrive(r) \/ AuditTrace(r) \/ Raise(r) \/ UnhandledException(r)
               \/ \E status \in {200, 503} : Respond(r, status)
        PROVE  MeterInv'
    <3>1. UNCHANGED <<metricVars, loop, reportVars>>
      BY <2>2 DEF Arrive, AuditTrace, Raise, UnhandledException, Respond
    <3>2. PICK t \in Stages \ Counting : stage' \in {stage, [stage EXCEPT ![r] = t]}
      BY <2>2 DEF Arrive, AuditTrace, Raise, UnhandledException, Respond, Counting
    <3>3. stage[r] \notin Counting
      BY <2>2 DEF Arrive, AuditTrace, Raise, UnhandledException, Respond, Counting
    <3>4. \A q \in Requests : stage'[q] = stage[q] \/ (stage[q] \notin Counting /\ stage'[q] \notin Counting)
      BY <1>1, <3>2, <3>3 DEF CountInv, CountTypes
    <3> QED
      BY <1>1, <3>1, <3>4, QuietKeepsMeterInv DEF CountInv
  <2>3. CASE Report
    BY <1>1, <2>3, ReportKeepsMeterInv DEF CountInv
  <2>4. CASE UNCHANGED vars
    <3>1. UNCHANGED <<metricVars, loop, reportVars, stage>>
      BY <2>4 DEF vars
    <3> QED
      BY <1>1, <3>1, QuietKeepsMeterInv DEF CountInv
  <2> QED
    BY <1>1, <2>1, <2>2, <2>3, <2>4 DEF Next, OnLoop
<1> QED
  BY <1>1, CountInvariance, InitEstablishesMeterInv, PTL DEF Spec

\* The types of all variables: of the trace, of the counters and of the histogram.
THEOREM TypeCorrect == Spec => []TypeOK
<1>1. ASSUME TraceInv, CountInv, MeterInv PROVE TypeOK
  BY <1>1 DEF TraceInv, TraceTypes, CountInv, CountTypes, MeterInv, MeterTypes, TypeOK
<1> QED
  BY <1>1, Invariance, CountInvariance, MeterInvariance, PTL

\* A report of /health or /metrics, which reads three counters one after the other
\* while requests are counted, is never further off than the requests that went by,
\* for any number of requests in flight and of reports.
THEOREM ReportsStayClose == Spec => []ReportsAgree
<1>1. ASSUME CountInv, MeterInv PROVE ReportsAgree
  <2>1. ASSUME NEW s \in Services PROVE errors[s] <= RequestsTotal(s)
    <3>1. errors[s] \in Nat /\ RequestsTotal(s) \in Nat
      BY <1>1 DEF CountInv, CountTypes, RequestsTotal, Statuses
    <3> QED
      BY <1>1, <3>1 DEF MeterInv, InStep
  <2> QED
    BY <1>1, <2>1 DEF MeterInv, ReportWithin, ReportsAgree
<1> QED
  BY <1>1, CountInvariance, MeterInvariance, PTL
=============================================================================
