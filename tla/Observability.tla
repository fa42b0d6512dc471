---------------------------- MODULE Observability ----------------------------
(***************************************************************************)
(* What common/middleware.py, common/tracing.py, common/metrics.py and     *)
(* common/errors.py do around every request of either service: a trace     *)
(* context is set, the handler runs, the response is counted.              *)
(*                                                                         *)
(* The middleware runs on the event loop of its service, one request at a  *)
(* time between two awaits; handlers, among them GET /health and GET       *)
(* /metrics, run in threads and see the counters between any two updates.  *)
(* The handler of unhandled exceptions is installed outside the            *)
(* middleware and runs after it.  The requests for /health and /metrics    *)
(* themselves are among the Requests when they are counted; what they read *)
(* is the report below.                                                    *)
(***************************************************************************)
EXTENDS Naturals, FiniteSets, Functions

CONSTANTS
    Requests,      \* HTTP requests to either service
    CallerOf,      \* the Gateway request whose handler sends it, or Client
    Client,
    Buckets,       \* the number of buckets of the latency histogram
    MaxReports     \* bound on the reports of /health and /metrics

ASSUME ObservabilityAssumption ==
    /\ IsFiniteSet(Requests)
    /\ Client \notin Requests
    /\ "none" \notin Requests \cup {Client}   \* what stands for no id names nobody
    /\ "free" \notin Requests                \* nor does what stands for no request
    /\ CallerOf \in [Requests -> Requests \cup {Client}]
    /\ Buckets \in Nat \ {0}
    /\ MaxReports \in Nat

Services == {"gateway", "account"}
ServiceOf(r) == IF CallerOf[r] = Client THEN "gateway" ELSE "account"

\* Status 500 is the answer to an unhandled exception, 503 one a handler gives.
Statuses == {200, 500, 503}

\* A fresh trace or span id is named after the request that made it, those of a
\* client's own valid traceparent after the client.
Ids == Requests \cup {Client}
Contexts == [trace : Ids, span : Ids, parent : Ids \cup {"none"}]
NoContext == [trace |-> "none", span |-> "none", parent |-> "none"]

VARIABLES
    stage,     \* how far each request has come
    context,   \* ctx in the middleware's call for each request
    current,   \* the trace context variable of each request's task
    saved,     \* what reset_context(token) will put back
    seen,      \* state["status"]: what the middleware knows of the response
    answer,    \* the status the caller received, 0 before
    echoed,    \* the trace id in the answer's header or body
    audits,    \* trace ids of the audit rows each request has written
    requests,  \* http_requests_total by service and status
    errors,    \* http_errors_total by service
    counts,    \* _counts of the latency histogram by service
    totals,    \* _totals of the latency histogram by service
    loop,      \* the request in the finally block of each service, or "free"
    report,    \* what the Gateway's /health or /metrics has read so far
    reports    \* the number of reports begun

traceVars == <<context, current, saved, echoed, audits>>
metricVars == <<requests, errors, counts, totals>>
reportVars == <<report, reports>>
vars == <<stage, seen, answer, loop, traceVars, metricVars, reportVars>>

Stages == {"new", "handling", "answered", "raised", "counted", "observed", "unhandled", "done"}
Counting == {"counted", "observed"}

Init ==
    /\ stage = [r \in Requests |-> "new"]
    /\ context = [r \in Requests |-> NoContext]
    /\ current = [r \in Requests |-> NoContext]
    /\ saved = [r \in Requests |-> NoContext]
    /\ seen = [r \in Requests |-> 500]
    /\ answer = [r \in Requests |-> 0]
    /\ echoed = [r \in Requests |-> "none"]
    /\ audits = [r \in Requests |-> {}]
    /\ requests = [s \in Services |-> [c \in Statuses |-> 0]]
    /\ errors = [s \in Services |-> 0]
    /\ counts = [s \in Services |-> [b \in 1 .. Buckets |-> 0]]
    /\ totals = [s \in Services |-> 0]
    /\ loop = [s \in Services |-> "free"]
    /\ report = [stage |-> "idle", requests |-> 0, errors |-> 0, observed |-> 0]
    /\ reports = 0

RequestsTotal(s) == requests[s][200] + requests[s][500] + requests[s][503]

-----------------------------------------------------------------------------
(* The middleware, on the way in.                                          *)

MoveTo(r, s) == stage' = [stage EXCEPT ![r] = s]
LoopFree(r) == loop[ServiceOf(r)] = "free"

\* Mutant: the span id of the caller is taken over.
SpanOfCaller(r, incoming) ==
    IF incoming = NoContext
    THEN [trace |-> r, span |-> r, parent |-> "none"]
    ELSE [trace |-> incoming.trace, span |-> incoming.span, parent |-> incoming.span]

\* Mutant: a trace is continued whether or not a valid one arrived.
SpanUnparsed(r, incoming) == [trace |-> incoming.trace, span |-> r, parent |-> incoming.span]

\* start_span: a trace that arrives in a valid traceparent is continued in a span
\* of its own, any other request starts a trace.
Span(r, incoming) ==
    IF incoming = NoContext
    THEN [trace |-> r, span |-> r, parent |-> "none"]
    ELSE [trace |-> incoming.trace, span |-> r, parent |-> incoming.span]

\* Mutant: start_span only builds the context and leaves setting it to the caller.
SetByStartSpanNot(ctx) == NoContext

\* start_span has already set the context when the middleware sets it again, so
\* this is what its token will restore.
SetByStartSpan(ctx) == ctx

\* The header a request may carry: none or an invalid one, a client's own, or, on
\* the Gateway's calls, that of the request being handled.
Incoming(r) ==
    IF CallerOf[r] = Client
    THEN {NoContext, [trace |-> Client, span |-> Client, parent |-> "none"]}
    ELSE {current[CallerOf[r]]}

\* A call arrives while its caller's handler is at work; one that arrives after
\* the caller has given up on it is left out (its header was built before).
Arrive(r) ==
    /\ stage[r] = "new"
    /\ LoopFree(r)
    /\ CallerOf[r] # Client => stage[CallerOf[r]] = "handling"
    /\ MoveTo(r, "handling")
    /\ \E incoming \in Incoming(r) :
        LET ctx == Span(r, incoming)
        IN  /\ context' = [context EXCEPT ![r] = ctx]
            /\ saved' = [saved EXCEPT ![r] = SetByStartSpan(ctx)]
            /\ current' = [current EXCEPT ![r] = ctx]
    /\ UNCHANGED <<seen, answer, echoed, audits, loop, metricVars, reportVars>>

\* A handler writes an audit row under the trace id it finds in its context.
AuditTrace(r) ==
    /\ stage[r] = "handling"
    /\ audits' = [audits EXCEPT ![r] = @ \cup {current[r].trace}]
    /\ UNCHANGED <<stage, seen, answer, loop, context, current, saved, echoed, metricVars, reportVars>>

\* Mutant: a status of an error is counted as soon as it is sent, and again at the end.
RespondCountsError(r, status) ==
    /\ stage[r] = "handling"
    /\ LoopFree(r)
    /\ MoveTo(r, "answered")
    /\ seen' = [seen EXCEPT ![r] = status]
    /\ answer' = [answer EXCEPT ![r] = status]
    /\ echoed' = [echoed EXCEPT ![r] = context[r].trace]
    /\ errors' = [errors EXCEPT ![ServiceOf(r)] = IF status >= 500 THEN @ + 1 ELSE @]
    /\ UNCHANGED <<context, current, saved, audits, loop, requests, counts, totals, reportVars>>

\* The response passes send_wrapper, which notes its status and adds the trace id.
Respond(r, status) ==
    /\ stage[r] = "handling"
    /\ LoopFree(r)
    /\ MoveTo(r, "answered")
    /\ seen' = [seen EXCEPT ![r] = status]
    /\ answer' = [answer EXCEPT ![r] = status]
    /\ echoed' = [echoed EXCEPT ![r] = context[r].trace]
    /\ UNCHANGED <<context, current, saved, audits, loop, metricVars, reportVars>>

\* Mutant: a request that never got a response is counted as a success.
RaiseCountsOk(r) ==
    /\ stage[r] = "handling"
    /\ LoopFree(r)
    /\ MoveTo(r, "raised")
    /\ seen' = [seen EXCEPT ![r] = 200]
    /\ UNCHANGED <<answer, loop, traceVars, metricVars, reportVars>>

\* An exception nobody handles passes through the middleware with no response.
Raise(r) ==
    /\ stage[r] = "handling"
    /\ LoopFree(r)
    /\ MoveTo(r, "raised")
    /\ UNCHANGED <<seen, answer, loop, traceVars, metricVars, reportVars>>

-----------------------------------------------------------------------------
(* The finally block: three updates, each under a lock of its own.         *)

CountRequest(r) ==
    /\ stage[r] \in {"answered", "raised"}
    /\ LoopFree(r)
    /\ loop' = [loop EXCEPT ![ServiceOf(r)] = r]
    /\ requests' = [requests EXCEPT ![ServiceOf(r)][seen[r]] = @ + 1]
    /\ MoveTo(r, "counted")
    /\ UNCHANGED <<seen, answer, errors, counts, totals, traceVars, reportVars>>

\* Histogram.observe: the duration falls below the bounds of the buckets from b
\* on; b = Buckets + 1 is above all of them.
Observe(r) ==
    /\ stage[r] = "counted"
    /\ \E b \in 1 .. Buckets + 1 :
        counts' = [counts EXCEPT ![ServiceOf(r)] =
                      [i \in 1 .. Buckets |-> IF i >= b THEN @[i] + 1 ELSE @[i]]]
    /\ totals' = [totals EXCEPT ![ServiceOf(r)] = @ + 1]
    /\ MoveTo(r, "observed")
    /\ UNCHANGED <<seen, answer, loop, requests, errors, traceVars, reportVars>>

\* Errors are counted apart, and the context is reset.  Without a response the
\* exception goes on to the handler outside.
Leave(r) ==
    /\ stage[r] = "observed"
    /\ errors' = [errors EXCEPT ![ServiceOf(r)] = IF seen[r] >= 500 THEN @ + 1 ELSE @]
    /\ current' = [current EXCEPT ![r] = saved[r]]
    /\ loop' = [loop EXCEPT ![ServiceOf(r)] = "free"]
    /\ MoveTo(r, IF answer[r] = 0 THEN "unhandled" ELSE "done")
    /\ UNCHANGED <<seen, answer, context, saved, echoed, audits, requests, counts, totals, reportVars>>

\* _unhandled_exception: the trace id is whatever the reset has left.  It is in the
\* body; an answer built here, outside the middleware, has no x-trace-id header,
\* and echoed stands for whichever of the two an answer has.
UnhandledException(r) ==
    /\ stage[r] = "unhandled"
    /\ LoopFree(r)
    /\ answer' = [answer EXCEPT ![r] = 500]
    /\ echoed' = [echoed EXCEPT ![r] = current[r].trace]
    /\ MoveTo(r, "done")
    /\ UNCHANGED <<seen, context, current, saved, audits, loop, metricVars, reportVars>>

OnLoop(r) ==
    \/ Arrive(r)
    \/ \E status \in {200, 503} : Respond(r, status)
    \/ Raise(r)
    \/ CountRequest(r)
    \/ Observe(r)
    \/ Leave(r)
    \/ UnhandledException(r)

-----------------------------------------------------------------------------
(* MetricsRegistry.snapshot and render in a thread of the Gateway: each    *)
(* metric is read under its own lock, one after the other.                 *)

ReadRequests ==
    /\ report.stage = "idle"
    /\ reports < MaxReports
    /\ reports' = reports + 1
    /\ report' = [report EXCEPT !.stage = "requests", !.requests = RequestsTotal("gateway")]

ReadErrors ==
    /\ report.stage = "requests"
    /\ report' = [report EXCEPT !.stage = "errors", !.errors = errors["gateway"]]
    /\ UNCHANGED reports

ReadLatency ==
    /\ report.stage = "errors"
    /\ report' = [report EXCEPT !.stage = "idle", !.observed = totals["gateway"]]
    /\ UNCHANGED reports

Report ==
    /\ ReadRequests \/ ReadErrors \/ ReadLatency
    /\ UNCHANGED <<stage, seen, answer, loop, traceVars, metricVars>>

\* Histogram.expose: the counts, added up once more.
Exposed(s, b) == SumFunctionOnSet(counts[s], 1 .. b)

Next ==
    \/ \E r \in Requests : OnLoop(r) \/ AuditTrace(r)
    \/ Report

Spec == Init /\ [][Next]_vars

-----------------------------------------------------------------------------
(* Properties.                                                             *)

TypeOK ==
    /\ stage \in [Requests -> Stages]
    /\ \A v \in {context, current, saved} : v \in [Requests -> Contexts \cup {NoContext}]
    /\ seen \in [Requests -> Statuses]
    /\ answer \in [Requests -> Statuses \cup {0}]
    /\ echoed \in [Requests -> Ids \cup {"none"}]
    /\ audits \in [Requests -> SUBSET Ids]
    /\ requests \in [Services -> [Statuses -> Nat]]
    /\ errors \in [Services -> Nat]
    /\ counts \in [Services -> [1 .. Buckets -> Nat]]
    /\ totals \in [Services -> Nat]
    /\ loop \in [Services -> Requests \cup {"free"}]
    /\ report \in [stage : {"idle", "requests", "errors"},
                    requests : Nat, errors : Nat, observed : Nat]
    /\ reports \in 0 .. MaxReports

Started(r) == stage[r] # "new"

\* Whatever happens to a request, its caller is told the trace id its handler ran
\* under, also by the 500 built outside the middleware, after the context was
\* reset (errors.py: "a structured JSON 500 that echoes the trace ID").
ErrorEchoesTrace ==
    \A r \in Requests : stage[r] = "done" => echoed[r] = context[r].trace

\* One trace id joins what both services recorded for a client's request: the
\* audit rows of the Gateway's handler and of the calls it made carry the id the
\* client is told, and the spans of the calls are distinct children of its span.
TracesJoin ==
    /\ \A r \in Requests : CallerOf[r] # Client /\ Started(r) =>
        LET g == CallerOf[r]
        IN  /\ stage[g] = "done" => audits[r] \cup audits[g] \subseteq {echoed[g]}
            /\ context[r].parent = context[g].span
    /\ \A q, r \in Requests : Started(q) /\ Started(r) /\ q # r => context[q].span # context[r].span

\* What the caller is told, or will be told of an exception on its way out.
Outcome(r) == IF answer[r] = 0 THEN 500 ELSE answer[r]

CountedIn(s, stages, statuses) ==
    Cardinality({r \in Requests : ServiceOf(r) = s /\ stage[r] \in stages /\ Outcome(r) \in statuses})

\* Every request is counted once, under the status its caller got, errors apart;
\* an exception's 500, sent after the counting, is no exception.
CountedAsAnswered ==
    \A s \in Services :
        /\ \A c \in Statuses :
            requests[s][c] = CountedIn(s, {"counted", "observed", "unhandled", "done"}, {c})
        /\ errors[s] = CountedIn(s, {"unhandled", "done"}, {500, 503})

\* The metrics are read one after the other while requests are counted, so a report
\* may name more errors than requests.  It is never further off than the requests
\* that went by: the errors it names are within the requests counted by then, and
\* the requests it names have been timed by its end, but for one.
ReportsAgree ==
    /\ \A s \in Services : errors[s] <= RequestsTotal(s)
    /\ report.stage # "requests" => report.errors <= RequestsTotal("gateway")
    /\ report.stage = "idle" => report.requests <= report.observed + 1

\* What the Prometheus text format promises of the buckets of a histogram: each
\* is a number of observations, at most all of them (metrics.py: "Prometheus text
\* exposition").  The code adds up counts that are cumulative already.
ExposedWithinCount ==
    \A s \in Services, b \in 1 .. Buckets : Exposed(s, b) <= totals[s]
=============================================================================
