------------------------------- MODULE Gateway -------------------------------
(***************************************************************************)
(* The Event Gateway's write path: submit_event in gateway/main.py, the    *)
(* table of gateway/db.py, and the attempts of AccountClient._call.        *)
(*                                                                         *)
(* Like the Account Service's, the endpoint has one thread per request,    *)
(* and its steps are its critical sections: the lookup, the call           *)
(* downstream, the insert, the second lookup, the audit row; and then the  *)
(* answer.  All threads use one SQLite connection: a commit that fails     *)
(* leaves its row in the open transaction, where a later commit of any     *)
(* thread saves it, and a rollback or a restart drops it.                  *)
(*                                                                         *)
(* The circuit breaker is here a refusal that may come at any call; module *)
(* CircuitBreaker says when it does.                                       *)
(***************************************************************************)
EXTENDS Exchange

CONSTANT MaxFailures  \* bound on the commits that fail

ASSUME GatewayAssumption == MaxFailures \in Nat

VARIABLES
    pc,         \* where each submission's thread is
    outcome,    \* the outcome it has reached, which fixes its HTTP status
    attempt,    \* the number of attempts it has made downstream
    events,     \* rows of the table events, as a SELECT sees them: the event,
                \* and the request whose insert created the row
    eventAudit, \* the outcome each request left in the audit_log, or "none"
    open,       \* which of these rows are not saved: those of the connection's
                \* open transaction
    failures    \* the number of commits that have failed

tableVars == <<events, eventAudit, open, failures>>
gatewayVars == <<pc, outcome, attempt, tableVars>>

EventRows == [event : EventIds, by : Requests]

\* A request writes at most one row to each table.
EventRow(r) == <<"event", r>>
AuditRow(r) == <<"audit", r>>
OpenRows == {"event", "audit"} \X Requests

\* The steps of a running submission; "down" is one cut off by a crash.
Running ==
    {"lookup", "calling", "waiting", "recording", "rereading", "auditing", "answering"}
PcStates == {"unsent", "answered", "down"} \cup Running

\* AuditOutcomes are written to the audit_log; RACE_LOST (a duplicate found by
\* the insert) and ERROR (an unexpected exception) are not.  An audited outcome
\* may still turn into an ERROR when the answer is built.
AuditOutcomes ==
    {"ACCEPTED", "DUPLICATE", "DOWNSTREAM_UNAVAILABLE", "DOWNSTREAM_REJECTED", "REJECTED_VALIDATION"}
Outcomes == AuditOutcomes \cup {"none", "RACE_LOST", "ERROR"}

Status(r) ==
    CASE outcome[r] = "ACCEPTED"                   -> 201
      [] outcome[r] \in {"DUPLICATE", "RACE_LOST"} -> 200
      [] outcome[r] = "DOWNSTREAM_UNAVAILABLE"     -> 503
      [] outcome[r] \in {"DOWNSTREAM_REJECTED", "REJECTED_VALIDATION"} -> 400
      [] OTHER                                     -> 500

HasEvent(e) == \E v \in events : v.event = e

GatewayInit ==
    /\ pc = [r \in Requests |-> "unsent"]
    /\ outcome = [r \in Requests |-> "none"]
    /\ attempt = [r \in Requests |-> 0]
    /\ events = {}
    /\ eventAudit = [r \in Requests |-> "none"]
    /\ open = {}
    /\ failures = 0

GatewayTypeOK ==
    /\ pc \in [Requests -> PcStates]
    /\ outcome \in [Requests -> Outcomes]
    /\ attempt \in [Requests -> 0 .. MaxAttempts]
    /\ events \subseteq EventRows
    /\ eventAudit \in [Requests -> AuditOutcomes \cup {"none"}]
    /\ open \subseteq OpenRows
    /\ failures \in 0 .. MaxFailures

-----------------------------------------------------------------------------
(* The connection.                                                         *)

\* The tables become these, and all their rows are saved.
Commit(table, audits) ==
    /\ events' = table
    /\ eventAudit' = audits
    /\ open' = {}
    /\ UNCHANGED failures

\* The rows of the open transaction are gone.
DropOpen ==
    /\ events' = {v \in events : EventRow(v.by) \notin open}
    /\ eventAudit' = [r \in Requests |-> IF AuditRow(r) \in open THEN "none" ELSE eventAudit[r]]
    /\ open' = {}

Rollback == DropOpen /\ UNCHANGED failures

\* SQLITE_BUSY leaves the transaction open with the row in it; SQLITE_FULL and
\* SQLITE_IOERR may roll all of it back.
CommitFails(table, audits, row) ==
    /\ failures < MaxFailures
    /\ failures' = failures + 1
    /\ \/ events' = table /\ eventAudit' = audits /\ open' = open \cup {row}
       \/ DropOpen

-----------------------------------------------------------------------------
Goto(r, s) == pc' = [pc EXCEPT ![r] = s]

\* The outcome is settled and goes to the audit_log before the answer.
Conclude(r, o) ==
    /\ outcome' = [outcome EXCEPT ![r] = o]
    /\ Goto(r, "auditing")

\* The outcome is settled and is answered without an audit row.
AnswerWith(r, o) ==
    /\ outcome' = [outcome EXCEPT ![r] = o]
    /\ Goto(r, "answering")

\* A client submits an event that passes the Gateway's validation.
Submit(r) ==
    /\ pc[r] = "unsent"
    /\ Goto(r, "lookup")
    /\ UNCHANGED <<outcome, attempt, tableVars, conn>>

\* _validation_handler: an event that does not pass is audited and refused.
RejectEvent(r) ==
    /\ pc[r] = "unsent"
    /\ Conclude(r, "REJECTED_VALIDATION")
    /\ UNCHANGED <<attempt, tableVars, conn>>

\* Mutant: persist first, apply later.
LookupEventPersistsFirst(r) ==
    /\ pc[r] = "lookup"
    /\ \/ HasEvent(EventOf[r]) /\ Conclude(r, "DUPLICATE")
       \/ ~HasEvent(EventOf[r]) /\ Goto(r, "recording") /\ UNCHANGED outcome
    /\ UNCHANGED <<attempt, tableVars, conn>>

\* db.get_event: a previously seen eventId returns the stored record.
LookupEvent(r) ==
    /\ pc[r] = "lookup"
    /\ \/ HasEvent(EventOf[r]) /\ Conclude(r, "DUPLICATE")
       \/ ~HasEvent(EventOf[r]) /\ Goto(r, "calling") /\ UNCHANGED outcome
    /\ UNCHANGED <<attempt, tableVars, conn>>

\* Mutant: the attempts are counted from zero, and one too many is made.
SendOffByOne(r) ==
    /\ attempt[r] <= MaxAttempts
    /\ attempt' = [attempt EXCEPT ![r] = @ + 1]
    /\ conn' = [conn EXCEPT ![<<r, attempt[r] + 1>>] = "sent"]
    /\ Goto(r, "waiting")
    /\ UNCHANGED outcome

\* The next attempt opens an exchange of its own.  The backoff before a retry
\* is part of the time the new exchange may spend as "sent".
Send(r) ==
    /\ attempt[r] < MaxAttempts
    /\ attempt' = [attempt EXCEPT ![r] = @ + 1]
    /\ conn' = [conn EXCEPT ![<<r, attempt[r] + 1>>] = "sent"]
    /\ Goto(r, "waiting")
    /\ UNCHANGED outcome

Exhausted(r) ==
    /\ attempt[r] = MaxAttempts
    /\ Conclude(r, "DOWNSTREAM_UNAVAILABLE")
    /\ UNCHANGED <<attempt, conn>>

\* The breaker admits the call once, for all of its attempts, or refuses it.
Call(r) ==
    /\ pc[r] = "calling"
    /\ \/ Send(r)
       \/ Conclude(r, "DOWNSTREAM_UNAVAILABLE") /\ UNCHANGED <<attempt, conn>>
    /\ UNCHANGED tableVars

Answer(r) == conn[<<r, attempt[r]>>]

\* A 2xx is taken as applied: what it says is not looked at.  A 4xx ends the
\* call; a 5xx is retried.
Receive(r) ==
    /\ pc[r] = "waiting"
    /\ \/ /\ Answer(r) = "2xx"
          /\ Goto(r, "recording")
          /\ UNCHANGED <<outcome, attempt, conn>>
       \/ /\ Answer(r) = "4xx"
          /\ Conclude(r, "DOWNSTREAM_REJECTED")
          /\ UNCHANGED <<attempt, conn>>
       \/ Answer(r) = "5xx" /\ (Send(r) \/ Exhausted(r))
    /\ UNCHANGED tableVars

\* Mutant: no timeout, only a broken connection ends the wait.
GiveUpOnLossOnly(r) ==
    /\ pc[r] = "waiting"
    /\ Answer(r) = "lost"
    /\ Send(r) \/ Exhausted(r)
    /\ UNCHANGED tableVars

\* A timeout or a transport error.  It may come while the handler is still at
\* work or when its response is already under way.
GiveUp(r) ==
    /\ pc[r] = "waiting"
    /\ Send(r) \/ Exhausted(r)
    /\ UNCHANGED tableVars

\* The primary key on event_id decides what the insert does.
EventKeyFree(r) == ~HasEvent(EventOf[r])

\* Mutant: a commit that fails is taken for one that succeeded.
InsertEventIgnoresFailure(r) ==
    /\ pc[r] = "recording"
    /\ EventKeyFree(r)
    /\ LET table == events \cup {[event |-> EventOf[r], by |-> r]}
       IN  Commit(table, eventAudit) \/ CommitFails(table, eventAudit, EventRow(r))
    /\ Conclude(r, "ACCEPTED")
    /\ UNCHANGED <<attempt, conn>>

\* db.insert_event, under one lock.  Only IntegrityError is caught, and rolls
\* back whatever is open; any other failure becomes a 500, with the row left
\* where the failure left it.
InsertEvent(r) ==
    /\ pc[r] = "recording"
    /\ LET table == events \cup {[event |-> EventOf[r], by |-> r]}
       IN  \/ /\ EventKeyFree(r)
              /\ Commit(table, eventAudit)
              /\ Conclude(r, "ACCEPTED")
           \/ /\ EventKeyFree(r)
              /\ CommitFails(table, eventAudit, EventRow(r))
              /\ AnswerWith(r, "ERROR")
           \/ /\ ~EventKeyFree(r)
              /\ Rollback
              /\ Goto(r, "rereading")
              /\ UNCHANGED outcome
    /\ UNCHANGED <<attempt, conn>>

\* Mutant: the result of insert_event is not looked at.
RereadEventAccepts(r) ==
    /\ pc[r] = "rereading"
    /\ AnswerWith(r, "ACCEPTED")
    /\ UNCHANGED <<attempt, tableVars, conn>>

\* The loser of an insert race returns the winner's record, with no audit row.
\* The row it ran into may have been an open one that its own rollback dropped:
\* then there is nothing to return, and None has no to_response.
RereadEvent(r) ==
    /\ pc[r] = "rereading"
    /\ \/ HasEvent(EventOf[r]) /\ AnswerWith(r, "RACE_LOST")
       \/ ~HasEvent(EventOf[r]) /\ AnswerWith(r, "ERROR")
    /\ UNCHANGED <<attempt, tableVars, conn>>

\* AuditTrail.record swallows whatever its sink raises, be it before the row is
\* written or at the commit.
AuditEvent(r) ==
    /\ pc[r] = "auditing"
    /\ LET audits == [eventAudit EXCEPT ![r] = outcome[r]]
       IN  \/ Commit(events, audits)
           \/ CommitFails(events, audits, AuditRow(r))
           \/ UNCHANGED tableVars
    /\ Goto(r, "answering")
    /\ UNCHANGED <<outcome, attempt, conn>>

\* The answer is built and goes out.
Respond(r) ==
    /\ pc[r] = "answering"
    /\ Goto(r, "answered")
    /\ UNCHANGED <<outcome, attempt, tableVars, conn>>

\* Any other exception becomes a 500: a database error, a request that cannot be
\* encoded, a response that is not JSON, and also an answer that cannot be built
\* (metadata that does not survive the encoding), whose record and audit row are
\* there by then.  Only the audit lets nothing out.
SubmitFails(r) ==
    /\ pc[r] \in Running \ {"auditing"}
    /\ outcome' = [outcome EXCEPT ![r] = "ERROR"]
    /\ Goto(r, "answered")
    /\ UNCHANGED <<attempt, tableVars, conn>>

\* What the thread does when nothing unexpected happens.
Proceed(r) ==
    \/ LookupEvent(r)
    \/ Call(r)
    \/ Receive(r)
    \/ GiveUp(r)
    \/ InsertEvent(r)
    \/ RereadEvent(r)
    \/ AuditEvent(r)
    \/ Respond(r)

SubmitEvent(r) == Proceed(r) \/ SubmitFails(r)
=============================================================================
