-------------------------- MODULE EventLedgerProofs --------------------------
(***************************************************************************)
(* The safety properties of the write path for any requests, eventIds,     *)
(* bodies, number of attempts and number of restarts.                      *)
(*                                                                         *)
(* The properties are not inductive as they stand: why a recorded event    *)
(* was applied lies in the exchange that told the Gateway so, and why that *)
(* exchange may say so lies in the handler.  Inv follows this chain: what  *)
(* a handler's state says of the ledger, what a submission's state says of *)
(* the record, and what the Gateway may conclude from a 2xx.  The rows of  *)
(* the Gateway come and go with the open transaction of its connection, so *)
(* Inv also says which are saved, and what holds until a commit fails.     *)
(***************************************************************************)
EXTENDS EventLedger, TLAPS

\* The rows an attempt and a request would create.
TxOf(a) == [event |-> EventOf[a[1]], by |-> a]
RowOf(r) == [event |-> EventOf[r], by |-> r]

OneRowPerEvent(rows) == \A t, u \in rows : t.event = u.event => t = u

\* What the state of an attempt and its audit row say of the ledger.
HandlerOK(a) ==
    /\ conn[a] \in {"rereading", "duplicate"} => HasTx(EventOf[a[1]])
    /\ conn[a] = "applied" => TxOf(a) \in txs
    /\ txAudit[a] = "APPLIED" => TxOf(a) \in txs
    /\ txAudit[a] = "DUPLICATE" => HasTx(EventOf[a[1]])

\* The record of a submission that no rollback and no restart of the process
\* can take away.
Saved(r) == RowOf(r) \in events /\ EventRow(r) \notin open

\* A finished submission may outlive a record kept in memory.
Forgotten(r) == ~EventsSurvive /\ pc[r] # "auditing"

\* What the state of a submission and its audit row say of the record.
SubmissionOK(r) ==
    /\ pc[r] = "waiting" => attempt[r] \in 1 .. MaxAttempts
    /\ pc[r] \in {"unsent"} \cup (Running \ Concluding) => outcome[r] = "none"
    /\ pc[r] = "auditing" => outcome[r] \in AuditOutcomes
    /\ pc[r] = "rereading" /\ failures = 0 => HasEvent(EventOf[r])
    /\ RowOf(r) \in events => outcome[r] \in {"ACCEPTED", "ERROR"}
    /\ outcome[r] = "ACCEPTED" => Saved(r) \/ Forgotten(r)
    /\ outcome[r] \in {"DUPLICATE", "RACE_LOST"} /\ failures = 0 => HasEvent(EventOf[r]) \/ Forgotten(r)
    /\ eventAudit[r] = "ACCEPTED" => Saved(r)
    /\ eventAudit[r] = "DUPLICATE" /\ failures = 0 => HasEvent(EventOf[r])

AccountInv == OneRowPerEvent(txs) /\ \A a \in Attempts : HandlerOK(a)

GatewayInv ==
    /\ OneRowPerEvent(events)
    /\ failures = 0 => open = {}
    /\ \A r \in Requests : SubmissionOK(r)

\* What a 2xx proves, in a ledger that survives its restarts.
ChainInv ==
    LedgerSurvives =>
        /\ \A a \in Attempts : conn[a] = "2xx" => HasTx(EventOf[a[1]])
        /\ \A r \in Requests : pc[r] = "recording" => HasTx(EventOf[r])
        /\ \A v \in events : HasTx(v.event)

Inv == TypeOK /\ AccountInv /\ GatewayInv /\ ChainInv

USE ExchangeAssumption, GatewayAssumption, LedgerAssumption
    DEF TypeOK, AccountTypeOK, GatewayTypeOK, accountVars, gatewayVars, tableVars

-----------------------------------------------------------------------------
(* Types.                                                                  *)

LEMMA AttemptParts ==
    ASSUME NEW a \in Attempts
    PROVE  a[1] \in Requests /\ EventOf[a[1]] \in EventIds /\ TxOf(a) \in TxRows
  BY DEF Attempts, TxOf, TxRows

LEMMA TypesOfConnStates ==
    /\ Handling \cup Responses \cup {"lost"} \subseteq ConnStates
    /\ "auditing" \in Running /\ Running \subseteq PcStates
    /\ AuditOutcomes \subseteq Outcomes
  BY DEF ConnStates, Handling, Responses, Running, PcStates, Outcomes

\* Opening an exchange and giving up keep the types.
LEMMA SendTypes ==
    ASSUME TypeOK, NEW r \in Requests, Send(r) \/ Exhausted(r)
    PROVE  /\ conn' \in [Attempts -> ConnStates]
           /\ pc' \in [Requests -> PcStates]
           /\ outcome' \in [Requests -> Outcomes]
           /\ attempt' \in [Requests -> 0 .. MaxAttempts]
<1>1. CASE Send(r)
  <2>1. attempt[r] \in 0 .. MaxAttempts /\ attempt[r] + 1 \in 0 .. MaxAttempts
    BY <1>1 DEF Send
  <2> QED
    BY <1>1, <2>1 DEF Send, Goto, ConnStates, Handling, PcStates, Running
<1>2. CASE Exhausted(r)
  BY <1>2 DEF Exhausted, Conclude, Goto, PcStates, Running, Outcomes, AuditOutcomes
<1> QED
  BY <1>1, <1>2

\* Any commit and rollback of the connection, a failing one included: what is to
\* become of the tables, and the row that is written.
Writes(table, audits, row) ==
    Commit(table, audits) \/ CommitFails(table, audits, row) \/ Rollback

LEMMA WritesTypes ==
    ASSUME TypeOK, NEW table \in SUBSET EventRows,
           NEW audits \in [Requests -> AuditOutcomes \cup {"none"}], NEW row \in OpenRows,
           Writes(table, audits, row)
    PROVE  /\ events' \subseteq EventRows
           /\ eventAudit' \in [Requests -> AuditOutcomes \cup {"none"}]
           /\ open' \subseteq OpenRows
           /\ failures' \in 0 .. MaxFailures
<1>1. CASE Commit(table, audits)
  BY <1>1 DEF Commit
<1>2. CASE CommitFails(table, audits, row)
  <2>1. failures' \in 0 .. MaxFailures
    BY <1>2 DEF CommitFails
  <2> QED
    BY <1>2, <2>1 DEF CommitFails, DropOpen
<1>3. CASE Rollback
  BY <1>3 DEF Rollback, DropOpen
<1> QED
  BY <1>1, <1>2, <1>3 DEF Writes

\* Saved rows stay whatever a commit does, and until one fails nothing is open
\* and nothing goes.
LEMMA WritesKeep ==
    ASSUME TypeOK, failures = 0 => open = {}, NEW table, events \subseteq table,
           NEW audits, NEW row, Writes(table, audits, row)
    PROVE  /\ events' \subseteq table
           /\ \A v \in events : EventRow(v.by) \notin open => v \in events'
           /\ open' \subseteq open \cup {row}
           /\ \A q \in Requests : eventAudit'[q] \in {"none", eventAudit[q], audits[q]}
           /\ failures' = 0 => failures = 0 /\ open' = {} /\ events \subseteq events'
<1>1. CASE Commit(table, audits)
  BY <1>1 DEF Commit
<1>2. CASE CommitFails(table, audits, row)
  <2>1. failures' # 0
    BY <1>2 DEF CommitFails
  <2> QED
    BY <1>2, <2>1 DEF CommitFails, DropOpen
<1>3. CASE Rollback
  BY <1>3 DEF Rollback, DropOpen
<1> QED
  BY <1>1, <1>2, <1>3 DEF Writes

\* What goes to the audit_log is an audit outcome because a submission that is
\* auditing has one.
LEMMA GatewayStepTypes ==
    ASSUME TypeOK, NEW r \in Requests, SubmissionOK(r), GatewayStep(r)
    PROVE  TypeOK'
<1> USE DEF GatewayStep, Goto, Conclude, AnswerWith, PcStates, Running, Outcomes, AuditOutcomes
<1>1. CASE Submit(r)
  BY <1>1 DEF Submit
<1>2. CASE LookupEvent(r)
  BY <1>2 DEF LookupEvent
<1>3. CASE Call(r)
  <2>1. CASE Send(r)
    BY <1>3, <2>1, SendTypes DEF Call
  <2>2. CASE ~Send(r)
    BY <1>3, <2>2 DEF Call
  <2> QED
    BY <2>1, <2>2
<1>4. CASE Receive(r)
  <2>1. CASE Send(r) \/ Exhausted(r)
    BY <1>4, <2>1, SendTypes DEF Receive
  <2>2. CASE ~(Send(r) \/ Exhausted(r))
    BY <1>4, <2>2 DEF Receive
  <2> QED
    BY <2>1, <2>2
<1>5. CASE GiveUp(r)
  BY <1>5, SendTypes DEF GiveUp
<1>6. CASE InsertEvent(r)
  <2>1. events \cup {RowOf(r)} \in SUBSET EventRows /\ EventRow(r) \in OpenRows
    BY DEF EventRows, RowOf, OpenRows, EventRow
  <2>2. Writes(events \cup {RowOf(r)}, eventAudit, EventRow(r))
    BY <1>6 DEF InsertEvent, Writes, RowOf
  <2>3. /\ events' \subseteq EventRows /\ eventAudit' \in [Requests -> AuditOutcomes \cup {"none"}]
        /\ open' \subseteq OpenRows /\ failures' \in 0 .. MaxFailures
    BY <2>1, <2>2, WritesTypes
  <2> QED
    BY <1>6, <2>3 DEF InsertEvent
<1>7. CASE RereadEvent(r)
  BY <1>7 DEF RereadEvent
<1>8. CASE AuditEvent(r)
  <2> DEFINE audits == [eventAudit EXCEPT ![r] = outcome[r]]
  <2>1. audits \in [Requests -> AuditOutcomes \cup {"none"}] /\ AuditRow(r) \in OpenRows
    BY <1>8 DEF AuditEvent, SubmissionOK, OpenRows, AuditRow
  <2>2. Writes(events, audits, AuditRow(r)) \/ UNCHANGED tableVars
    BY <1>8 DEF AuditEvent, Writes
  <2> HIDE DEF audits
  <2>3. /\ events' \subseteq EventRows /\ eventAudit' \in [Requests -> AuditOutcomes \cup {"none"}]
        /\ open' \subseteq OpenRows /\ failures' \in 0 .. MaxFailures
    BY <2>1, <2>2, WritesTypes
  <2> QED
    BY <1>8, <2>3 DEF AuditEvent
<1>9. CASE SubmitFails(r) \/ Respond(r)
  BY <1>9 DEF SubmitFails, Respond
<1>10. CASE RejectEvent(r)
  BY <1>10 DEF RejectEvent
<1> QED
  BY <1>1, <1>2, <1>3, <1>4, <1>5, <1>6, <1>7, <1>8, <1>9, <1>10 DEF SubmitEvent, Proceed

LEMMA AccountStepTypes ==
    ASSUME TypeOK, NEW a \in Attempts, AccountStep(a) \/ Lose(a)
    PROVE  TypeOK'
<1> USE AttemptParts DEF AccountStep, Lose, MoveTo, ConnStates, Handling, Responses, TxOutcomes
<1>1. CASE RejectTransaction(a) \/ LookupTransaction(a) \/ RereadTransaction(a)
  BY <1>1 DEF RejectTransaction, LookupTransaction, RereadTransaction
<1>2. CASE InsertTransaction(a)
  BY <1>2 DEF InsertTransaction, TxOf
<1>3. CASE AuditTransaction(a)
  BY <1>3 DEF AuditTransaction, TxOutcome
<1>4. CASE TransactionFails(a) \/ Lose(a)
  BY <1>4 DEF TransactionFails
<1> QED
  BY <1>1, <1>2, <1>3, <1>4 DEF ApplyTransaction

LEMMA RestartTypes ==
    ASSUME TypeOK, AccountRestart \/ GatewayRestart
    PROVE  TypeOK'
<1>1. CASE AccountRestart
  BY <1>1 DEF AccountRestart, ConnStates, TxOutcomes
<1>2. CASE GatewayRestart
  BY <1>2 DEF GatewayRestart, PcStates, Commit, Rollback, DropOpen
<1> QED
  BY <1>1, <1>2

-----------------------------------------------------------------------------
(* The ledger.                                                             *)

\* An attempt that did not move keeps what it says while the ledger grows.
LEMMA OtherAttemptKept ==
    ASSUME NEW b, HandlerOK(b), txs \subseteq txs',
           conn'[b] \in {conn[b], "sent", "lost", "2xx", "4xx", "5xx", "inserting"},
           txAudit'[b] = txAudit[b]
    PROVE  HandlerOK(b)'
  BY DEF HandlerOK, HasTx, TxOf

LEMMA GatewayStepConn ==
    ASSUME TypeOK, NEW r \in Requests, GatewayStep(r), NEW b \in Attempts
    PROVE  conn'[b] \in {conn[b], "sent"}
<1>1. CASE Send(r)
  BY <1>1 DEF Send
<1>2. CASE ~Send(r)
  BY <1>2 DEF GatewayStep, Submit, RejectEvent, SubmitEvent, Proceed, LookupEvent, Call, Receive, GiveUp,
              Exhausted, InsertEvent, RereadEvent, AuditEvent, Respond, SubmitFails
<1> QED
  BY <1>1, <1>2

LEMMA GatewayStepKeepsAccountInv ==
    ASSUME TypeOK, AccountInv, NEW r \in Requests, GatewayStep(r)
    PROVE  AccountInv'
<1>1. txs' = txs /\ txAudit' = txAudit
  BY DEF GatewayStep
<1>2. ASSUME NEW b \in Attempts PROVE HandlerOK(b)'
  BY <1>1, <1>2, GatewayStepConn, OtherAttemptKept DEF AccountInv
<1> QED
  BY <1>1, <1>2 DEF AccountInv, Attempts

\* The heart of idempotency in the Account Service: between the lookup and the
\* insert any other handler may run, and only the insert decides.
LEMMA AccountStepKeepsAccountInv ==
    ASSUME TypeOK, AccountInv, NEW a \in Attempts, AccountStep(a) \/ Lose(a)
    PROVE  AccountInv'
<1> USE AttemptParts DEF AccountStep, MoveTo
<1>1. CASE InsertTransaction(a) /\ TransactionKeyFree(a)
  <2>1. txs' = txs \cup {TxOf(a)} /\ txAudit' = txAudit /\ conn' = [conn EXCEPT ![a] = "applied"]
    BY <1>1 DEF InsertTransaction, TxOf
  <2>2. OneRowPerEvent(txs)'
    BY <1>1, <2>1 DEF TransactionKeyFree, HasTx, TxOf, AccountInv, OneRowPerEvent
  <2>3. HandlerOK(a)'
    BY <1>1, <2>1 DEF InsertTransaction, AccountInv, HandlerOK, HasTx, TxOf
  <2>4. ASSUME NEW b \in Attempts, b # a PROVE HandlerOK(b)'
    BY <2>1, <2>4, OtherAttemptKept DEF AccountInv
  <2> QED
    BY <2>2, <2>3, <2>4 DEF AccountInv, Attempts
<1>2. CASE ~(InsertTransaction(a) /\ TransactionKeyFree(a))
  <2>1. txs' = txs
    BY <1>2 DEF ApplyTransaction, RejectTransaction, LookupTransaction, InsertTransaction,
       RereadTransaction, AuditTransaction, TransactionFails, Lose
  <2>2. HandlerOK(a)
    BY DEF AccountInv
  <2>3. HandlerOK(a)'
    <3>1. CASE RejectTransaction(a) \/ TransactionFails(a) \/ Lose(a)
      BY <2>1, <2>2, <3>1 DEF RejectTransaction, TransactionFails, Lose, HandlerOK, HasTx
    <3>2. CASE LookupTransaction(a) \/ RereadTransaction(a)
      BY <2>1, <2>2, <3>2 DEF LookupTransaction, RereadTransaction, HandlerOK, HasTx
    <3>3. CASE InsertTransaction(a)
      BY <1>2, <2>1, <2>2, <3>3 DEF InsertTransaction, TransactionKeyFree, HandlerOK, HasTx
    <3>4. CASE AuditTransaction(a)
      BY <2>1, <2>2, <3>4 DEF AuditTransaction, TxOutcome, HandlerOK, HasTx
    <3> QED
      BY <3>1, <3>2, <3>3, <3>4 DEF ApplyTransaction
  <2>4. ASSUME NEW b \in Attempts, b # a PROVE conn'[b] = conn[b] /\ txAudit'[b] = txAudit[b]
    BY <1>2, <2>4 DEF ApplyTransaction, RejectTransaction, LookupTransaction,
       InsertTransaction, RereadTransaction, AuditTransaction, TransactionFails, Lose
  <2>5. ASSUME NEW b \in Attempts, b # a PROVE HandlerOK(b)'
    BY <2>1, <2>4, <2>5, OtherAttemptKept DEF AccountInv
  <2> QED
    BY <2>1, <2>3, <2>5 DEF AccountInv, Attempts, OneRowPerEvent
<1> QED
  BY <1>1, <1>2

\* A restart takes every handler with it, so that no one is left to rely on a
\* row of a ledger that was kept in memory.
LEMMA RestartKeepsAccountInv ==
    ASSUME TypeOK, AccountInv, AccountRestart \/ GatewayRestart
    PROVE  AccountInv'
<1>1. CASE AccountRestart
  <2>1. OneRowPerEvent(txs)'
    BY <1>1 DEF AccountRestart, AccountInv, OneRowPerEvent
  <2>2. ASSUME NEW b \in Attempts PROVE HandlerOK(b)'
    <3>1. conn'[b] \notin {"rereading", "duplicate", "applied"}
      BY <1>1 DEF AccountRestart, Handling
    <3>2. LedgerSurvives => txs' = txs /\ txAudit' = txAudit
      BY <1>1 DEF AccountRestart
    <3>3. ~LedgerSurvives => txAudit'[b] = "none"
      BY <1>1 DEF AccountRestart
    <3>4. HandlerOK(b)
      BY DEF AccountInv
    <3> QED
      BY <3>1, <3>2, <3>3, <3>4 DEF HandlerOK, HasTx
  <2> QED
    BY <2>1, <2>2 DEF AccountInv, Attempts
<1>2. CASE GatewayRestart
  BY <1>2 DEF GatewayRestart, AccountInv, HandlerOK, HasTx, Attempts, OneRowPerEvent
<1> QED
  BY <1>1, <1>2

-----------------------------------------------------------------------------
(* The record.                                                             *)

\* A submission whose thread did not move keeps what it says while others
\* write and fail to.
LEMMA OtherSubmissionKept ==
    ASSUME NEW q, SubmissionOK(q),
           RowOf(q) \in events' => RowOf(q) \in events,
           Saved(q) => Saved(q)',
           failures' = 0 => failures = 0 /\ events \subseteq events',
           pc'[q] = pc[q], outcome'[q] = outcome[q], attempt'[q] = attempt[q],
           eventAudit'[q] \in {"none", eventAudit[q]}
    PROVE  SubmissionOK(q)'
  BY DEF SubmissionOK, HasEvent, RowOf, Forgotten

\* Concluding with anything but ACCEPTED, having recorded nothing.
LEMMA ConcludeKeepsSubmission ==
    ASSUME TypeOK, NEW r \in Requests, SubmissionOK(r), outcome[r] = "none",
           NEW o \in AuditOutcomes \ {"ACCEPTED"}, Conclude(r, o),
           o = "DUPLICATE" => HasEvent(EventOf[r]),
           UNCHANGED tableVars
    PROVE  SubmissionOK(r)'
<1>1. pc'[r] = "auditing" /\ outcome'[r] = o
  BY DEF Conclude, Goto
<1> QED
  BY <1>1 DEF SubmissionOK, Saved, HasEvent, RowOf, Forgotten, AuditOutcomes, Running, Concluding

\* Answering without an audit row.
LEMMA AnswerKeepsSubmission ==
    ASSUME TypeOK, NEW r \in Requests, SubmissionOK(r), outcome[r] = "none",
           NEW o \in {"ERROR", "RACE_LOST"}, AnswerWith(r, o),
           o = "RACE_LOST" => HasEvent(EventOf[r]),
           UNCHANGED tableVars
    PROVE  SubmissionOK(r)'
<1>1. pc'[r] = "answering" /\ outcome'[r] = o
  BY DEF AnswerWith, Goto
<1> QED
  BY <1>1 DEF SubmissionOK, Saved, HasEvent, RowOf, Forgotten, Running, Concluding

LEMMA SendKeepsSubmission ==
    ASSUME TypeOK, NEW r \in Requests, SubmissionOK(r), outcome[r] = "none",
           Send(r) \/ Exhausted(r), UNCHANGED tableVars
    PROVE  SubmissionOK(r)'
<1>1. CASE Send(r)
  <2>1. attempt'[r] \in 1 .. MaxAttempts /\ pc'[r] = "waiting" /\ outcome' = outcome
    BY <1>1 DEF Send, Goto
  <2> QED
    BY <2>1 DEF SubmissionOK, Saved, HasEvent, RowOf, Forgotten, Running
<1>2. CASE Exhausted(r)
  BY <1>2, ConcludeKeepsSubmission DEF Exhausted, AuditOutcomes
<1> QED
  BY <1>1, <1>2

\* The insert: a row that is saved is this thread's to accept, and one that the
\* commit leaves open is its to deny.
LEMMA InsertKeepsSubmission ==
    ASSUME TypeOK, GatewayInv, NEW r \in Requests, InsertEvent(r)
    PROVE  SubmissionOK(r)'
<1>1. SubmissionOK(r) /\ (failures = 0 => open = {})
  BY DEF GatewayInv
<1>2. /\ pc[r] = "recording" /\ outcome[r] = "none" /\ RowOf(r) \notin events
      /\ eventAudit[r] # "ACCEPTED"
  BY <1>1 DEF InsertEvent, SubmissionOK, Saved, Running, Concluding
<1> DEFINE table == events \cup {RowOf(r)}
<1>3. CASE Commit(table, eventAudit) /\ Conclude(r, "ACCEPTED")
  <2>1. /\ events' = table /\ open' = {} /\ eventAudit' = eventAudit /\ failures' = failures
        /\ pc'[r] = "auditing" /\ outcome'[r] = "ACCEPTED"
    BY <1>3 DEF Commit, Conclude, Goto
  <2> QED
    BY <1>1, <1>2, <2>1 DEF SubmissionOK, Saved, HasEvent, RowOf, Running, Concluding, AuditOutcomes
<1>4. CASE CommitFails(table, eventAudit, EventRow(r)) /\ AnswerWith(r, "ERROR")
  <2>1. /\ failures' # 0 /\ pc'[r] = "answering" /\ outcome'[r] = "ERROR"
        /\ eventAudit'[r] \in {"none", eventAudit[r]}
    BY <1>4 DEF CommitFails, DropOpen, AnswerWith, Goto
  <2> QED
    BY <1>1, <1>2, <2>1 DEF SubmissionOK, Running, Concluding
<1>5. CASE ~EventKeyFree(r) /\ Rollback /\ Goto(r, "rereading") /\ UNCHANGED outcome
  <2>1. /\ pc'[r] = "rereading" /\ outcome'[r] = "none" /\ failures' = failures
        /\ events' \subseteq events /\ eventAudit'[r] \in {"none", eventAudit[r]}
        /\ failures = 0 => events' = events
    BY <1>1, <1>2, <1>5 DEF Rollback, DropOpen, Goto
  <2> QED
    BY <1>1, <1>2, <1>5, <2>1 DEF SubmissionOK, EventKeyFree, HasEvent, Running, Concluding
<1> QED
  BY <1>3, <1>4, <1>5 DEF InsertEvent, RowOf

\* The audit row says what the outcome says, and no commit takes a saved record.
LEMMA AuditKeepsSubmission ==
    ASSUME TypeOK, GatewayInv, NEW r \in Requests, AuditEvent(r)
    PROVE  SubmissionOK(r)'
<1>1. SubmissionOK(r) /\ (failures = 0 => open = {})
  BY DEF GatewayInv
<1>2. pc[r] = "auditing" /\ pc'[r] = "answering" /\ outcome' = outcome
  BY DEF AuditEvent, Goto
<1> DEFINE audits == [eventAudit EXCEPT ![r] = outcome[r]]
<1>3. CASE UNCHANGED tableVars
  BY <1>1, <1>2, <1>3 DEF SubmissionOK, Saved, HasEvent, RowOf, Forgotten, Running, Concluding
<1>4. CASE Writes(events, audits, AuditRow(r))
  <2>1. /\ events' \subseteq events
        /\ \A v \in events : EventRow(v.by) \notin open => v \in events'
        /\ open' \subseteq open \cup {AuditRow(r)}
        /\ eventAudit'[r] \in {"none", eventAudit[r], audits[r]}
        /\ failures' = 0 => failures = 0 /\ events \subseteq events'
    <3> HIDE DEF audits
    <3> QED
      BY <1>1, <1>4, WritesKeep
  <2>2. audits[r] = outcome[r]
    OBVIOUS
  <2>3. Saved(r) => Saved(r)'
    BY <2>1 DEF Saved, RowOf, EventRow, AuditRow
  <2> HIDE DEF audits
  <2> QED
    BY <1>1, <1>2, <2>1, <2>2, <2>3 DEF SubmissionOK, HasEvent, Forgotten, Running, Concluding, RowOf
<1> QED
  BY <1>3, <1>4 DEF AuditEvent, Writes

\* The submission that moves.
LEMMA MovingSubmissionKept ==
    ASSUME TypeOK, GatewayInv, NEW r \in Requests, GatewayStep(r)
    PROVE  SubmissionOK(r)'
<1> USE DEF GatewayStep
<1>0. /\ SubmissionOK(r)
      /\ pc[r] \in {"unsent"} \cup (Running \ Concluding) => outcome[r] = "none"
  BY DEF GatewayInv, SubmissionOK
<1>1. CASE Submit(r)
  BY <1>0, <1>1 DEF Submit, Goto, SubmissionOK, Saved, HasEvent, RowOf, Forgotten, Running
<1>2. CASE LookupEvent(r)
  <2>1. CASE HasEvent(EventOf[r]) /\ Conclude(r, "DUPLICATE")
    BY <1>0, <1>2, <2>1, ConcludeKeepsSubmission DEF LookupEvent, Running, Concluding, AuditOutcomes
  <2>2. CASE Goto(r, "calling") /\ UNCHANGED outcome
    BY <1>0, <1>2, <2>2
       DEF LookupEvent, Goto, SubmissionOK, Saved, HasEvent, RowOf, Forgotten, Running, Concluding
  <2> QED
    BY <1>2, <2>1, <2>2 DEF LookupEvent
<1>3. CASE Call(r)
  <2>1. CASE Send(r)
    BY <1>0, <1>3, <2>1, SendKeepsSubmission DEF Call, Running, Concluding
  <2>2. CASE Conclude(r, "DOWNSTREAM_UNAVAILABLE")
    BY <1>0, <1>3, <2>2, ConcludeKeepsSubmission DEF Call, Running, Concluding, AuditOutcomes
  <2> QED
    BY <1>3, <2>1, <2>2 DEF Call
<1>4. CASE Receive(r)
  <2>1. CASE Goto(r, "recording") /\ UNCHANGED <<outcome, attempt, conn>>
    BY <1>0, <1>4, <2>1
       DEF Receive, Goto, SubmissionOK, Saved, HasEvent, RowOf, Forgotten, Running, Concluding
  <2>2. CASE Conclude(r, "DOWNSTREAM_REJECTED")
    BY <1>0, <1>4, <2>2, ConcludeKeepsSubmission DEF Receive, Running, Concluding, AuditOutcomes
  <2>3. CASE Send(r) \/ Exhausted(r)
    BY <1>0, <1>4, <2>3, SendKeepsSubmission DEF Receive, Running, Concluding
  <2> QED
    BY <1>4, <2>1, <2>2, <2>3 DEF Receive
<1>5. CASE GiveUp(r)
  BY <1>0, <1>5, SendKeepsSubmission DEF GiveUp, Running, Concluding
<1>6. CASE InsertEvent(r)
  BY <1>6, InsertKeepsSubmission
<1>7. CASE RereadEvent(r)
  <2>1. outcome[r] = "none"
    BY <1>0, <1>7 DEF RereadEvent, Running, Concluding
  <2> QED
    BY <1>0, <1>7, <2>1, AnswerKeepsSubmission DEF RereadEvent
<1>8. CASE AuditEvent(r)
  BY <1>8, AuditKeepsSubmission
<1>9. CASE Respond(r)
  BY <1>0, <1>9 DEF Respond, Goto, SubmissionOK, Saved, HasEvent, RowOf, Forgotten, Running
<1>10. CASE SubmitFails(r)
  BY <1>0, <1>10 DEF SubmitFails, Goto, SubmissionOK, Saved, HasEvent, RowOf, Running
<1>11. CASE RejectEvent(r)
  BY <1>0, <1>11, ConcludeKeepsSubmission DEF RejectEvent, AuditOutcomes
<1> QED
  BY <1>1, <1>2, <1>3, <1>4, <1>5, <1>6, <1>7, <1>8, <1>9, <1>10, <1>11 DEF SubmitEvent, Proceed

\* A step of one thread leaves the other threads where they are, adds to the
\* record no row but its own, and takes none of theirs that is saved.
LEMMA GatewayStepFrame ==
    ASSUME TypeOK, failures = 0 => open = {}, NEW r \in Requests, GatewayStep(r)
    PROVE  /\ events' \subseteq events \cup {RowOf(r)}
           /\ RowOf(r) \in events' => RowOf(r) \in events \/ (EventKeyFree(r) /\ pc[r] = "recording")
           /\ \A v \in events : EventRow(v.by) \notin open => v \in events'
           /\ open' \subseteq open \cup {EventRow(r), AuditRow(r)}
           /\ failures' = 0 => failures = 0 /\ open' = {} /\ events \subseteq events'
           /\ \A q \in Requests \ {r} :
                /\ pc'[q] = pc[q] /\ outcome'[q] = outcome[q] /\ attempt'[q] = attempt[q]
                /\ eventAudit'[q] \in {"none", eventAudit[q]}
<1>1. \A q \in Requests \ {r} :
        pc'[q] = pc[q] /\ outcome'[q] = outcome[q] /\ attempt'[q] = attempt[q]
  BY DEF GatewayStep, Submit, RejectEvent, SubmitEvent, Proceed, LookupEvent, Call, Send, Exhausted,
     Receive, GiveUp, InsertEvent, RereadEvent, AuditEvent, Respond, SubmitFails, Goto, Conclude,
     AnswerWith
<1>2. CASE InsertEvent(r) /\ EventKeyFree(r)
  <2>1. pc[r] = "recording" /\ Writes(events \cup {RowOf(r)}, eventAudit, EventRow(r))
    BY <1>2 DEF InsertEvent, Writes, RowOf
  <2> QED
    BY <1>1, <1>2, <2>1, WritesKeep
<1>3. CASE InsertEvent(r) /\ ~EventKeyFree(r)
  <2>1. Writes(events, eventAudit, EventRow(r))
    BY <1>3 DEF InsertEvent, Writes
  <2> QED
    BY <1>1, <2>1, WritesKeep
<1>4. CASE AuditEvent(r) /\ ~UNCHANGED tableVars
  <2> DEFINE audits == [eventAudit EXCEPT ![r] = outcome[r]]
  <2>1. Writes(events, audits, AuditRow(r))
    BY <1>4 DEF AuditEvent, Writes
  <2>2. \A q \in Requests \ {r} : audits[q] = eventAudit[q]
    OBVIOUS
  <2> HIDE DEF audits
  <2>3. /\ events' \subseteq events
        /\ \A v \in events : EventRow(v.by) \notin open => v \in events'
        /\ open' \subseteq open \cup {AuditRow(r)}
        /\ \A q \in Requests : eventAudit'[q] \in {"none", eventAudit[q], audits[q]}
        /\ failures' = 0 => failures = 0 /\ open' = {} /\ events \subseteq events'
    BY <2>1, WritesKeep
  <2> QED
    BY <1>1, <2>2, <2>3
<1>5. CASE UNCHANGED tableVars
  BY <1>1, <1>5
<1> QED
  BY <1>2, <1>3, <1>4, <1>5 DEF GatewayStep, Submit, RejectEvent, SubmitEvent, Proceed, LookupEvent,
     Call, Receive, GiveUp, RereadEvent, AuditEvent, Respond, SubmitFails

LEMMA GatewayStepKeepsGatewayInv ==
    ASSUME TypeOK, GatewayInv, NEW r \in Requests, GatewayStep(r)
    PROVE  GatewayInv'
<1>0. failures = 0 => open = {}
  BY DEF GatewayInv
<1>1. OneRowPerEvent(events)'
  <2>1. CASE RowOf(r) \in events' /\ RowOf(r) \notin events
    BY <1>0, <2>1, GatewayStepFrame DEF GatewayInv, OneRowPerEvent, EventKeyFree, HasEvent, RowOf
  <2>2. CASE ~(RowOf(r) \in events' /\ RowOf(r) \notin events)
    BY <1>0, <2>2, GatewayStepFrame DEF GatewayInv, OneRowPerEvent
  <2> QED
    BY <2>1, <2>2
<1>2. failures' = 0 => open' = {}
  BY <1>0, GatewayStepFrame
<1>3. SubmissionOK(r)'
  BY MovingSubmissionKept
<1>4. ASSUME NEW q \in Requests, q # r PROVE SubmissionOK(q)'
  <2>1. RowOf(q) # RowOf(r) /\ EventRow(q) \notin {EventRow(r), AuditRow(r)}
    BY <1>4 DEF RowOf, EventRow, AuditRow
  <2>2. RowOf(q) \in events' => RowOf(q) \in events
    BY <1>0, <2>1, GatewayStepFrame
  <2>3. Saved(q) => Saved(q)'
    <3>1. RowOf(q).by = q
      BY DEF RowOf
    <3>2. EventRow(q) \in open' => EventRow(q) \in open
      BY <1>0, <2>1, GatewayStepFrame
    <3> QED
      BY <1>0, <3>1, <3>2, GatewayStepFrame DEF Saved, RowOf, EventRow
  <2> QED
    BY <1>0, <1>4, <2>2, <2>3, GatewayStepFrame, OtherSubmissionKept DEF GatewayInv
<1> QED
  BY <1>1, <1>2, <1>3, <1>4 DEF GatewayInv

LEMMA AccountStepKeepsGatewayInv ==
    ASSUME GatewayInv, gatewayVars' = gatewayVars
    PROVE  GatewayInv'
  BY DEF GatewayInv, OneRowPerEvent, SubmissionOK, Saved, HasEvent, RowOf, Forgotten

\* A restart interrupts whoever was about to audit an outcome, and the audit_log
\* shares the fate of the record.
LEMMA GatewayRestartKeepsGatewayInv ==
    ASSUME TypeOK, GatewayInv, GatewayRestart
    PROVE  GatewayInv'
<1>1. /\ events' \subseteq events /\ open' = {}
      /\ EventsSurvive => failures' = failures
      /\ EventsSurvive => \A v \in events : EventRow(v.by) \notin open => v \in events'
      /\ EventsSurvive => \A q \in Requests : eventAudit'[q] \in {"none", eventAudit[q]}
      /\ ~EventsSurvive => events' = {} /\ \A q \in Requests : eventAudit'[q] = "none"
  BY DEF GatewayRestart, Commit, Rollback, DropOpen
<1>2. OneRowPerEvent(events)'
  BY <1>1 DEF GatewayInv, OneRowPerEvent
<1>3. ASSUME NEW q \in Requests PROVE SubmissionOK(q)'
  <2>1. SubmissionOK(q) /\ (failures = 0 => open = {})
    BY DEF GatewayInv
  <2>2. /\ pc'[q] = IF pc[q] \in Running THEN "down" ELSE pc[q]
        /\ outcome'[q] = outcome[q] /\ attempt'[q] = attempt[q]
    BY DEF GatewayRestart
  <2>3. CASE EventsSurvive
    <3>1. Saved(q) => Saved(q)'
      BY <1>1, <2>3 DEF Saved, RowOf, EventRow
    <3>2. failures' = 0 => failures = 0 /\ events' = events
      BY <1>1, <2>1, <2>3
    <3>3. eventAudit'[q] \in {"none", eventAudit[q]}
      BY <1>1, <2>3
    <3> QED
      BY <1>1, <2>1, <2>2, <2>3, <3>1, <3>2, <3>3 DEF SubmissionOK, HasEvent, RowOf, Forgotten, Running
  <2>4. CASE ~EventsSurvive
    BY <1>1, <2>1, <2>2, <2>4 DEF SubmissionOK, Forgotten, Running
  <2> QED
    BY <2>3, <2>4
<1> QED
  BY <1>1, <1>2, <1>3 DEF GatewayInv

-----------------------------------------------------------------------------
(* From the ledger to the record.                                          *)

\* The Gateway records only what a 2xx has told it, and a 2xx comes from an
\* attempt of the same request, so it speaks of the same eventId.
LEMMA GatewayStepKeepsChainInv ==
    ASSUME Inv, NEW r \in Requests, GatewayStep(r)
    PROVE  ChainInv'
<1> SUFFICES ASSUME LedgerSurvives
             PROVE  /\ \A b \in Attempts' : conn'[b] = "2xx" => HasTx(EventOf[b[1]])'
                    /\ \A q \in Requests : pc'[q] = "recording" => HasTx(EventOf[q])'
                    /\ \A v \in events' : HasTx(v.event)'
  BY DEF ChainInv
<1> USE DEF Inv
<1>1. txs' = txs
  BY DEF GatewayStep
<1>2. ASSUME NEW b \in Attempts, conn'[b] = "2xx" PROVE HasTx(EventOf[b[1]])'
  BY <1>1, <1>2, GatewayStepConn DEF ChainInv, HasTx
<1>3. ASSUME pc'[r] = "recording" PROVE HasTx(EventOf[r])
  <2>1. CASE LookupEvent(r) \/ Receive(r)
    <3>1. pc[r] = "waiting" /\ Answer(r) = "2xx"
      BY <1>3, <2>1 DEF LookupEvent, Receive, Send, Exhausted, Conclude, Goto
    <3>2. <<r, attempt[r]>> \in Attempts
      BY <3>1 DEF GatewayInv, SubmissionOK, Attempts
    <3> QED
      BY <3>1, <3>2 DEF ChainInv, Answer
  <2>2. CASE ~(LookupEvent(r) \/ Receive(r))
    <3>1. FALSE
      BY <1>3, <2>2 DEF GatewayStep, Submit, RejectEvent, SubmitEvent, Proceed, Call, Send, Exhausted, GiveUp,
         InsertEvent, RereadEvent, AuditEvent, Respond, SubmitFails, Goto, Conclude, AnswerWith
    <3> QED
      BY <3>1
  <2> QED
    BY <2>1, <2>2
<1>4. ASSUME NEW q \in Requests, pc'[q] = "recording" PROVE HasTx(EventOf[q])'
  BY <1>1, <1>3, <1>4, GatewayStepFrame DEF ChainInv, HasTx, GatewayInv
<1>5. ASSUME NEW v \in events' PROVE HasTx(v.event)'
  <2>1. CASE v \in events
    BY <1>1, <2>1 DEF ChainInv, HasTx
  <2>2. CASE v \notin events
    <3>1. v = RowOf(r) /\ pc[r] = "recording"
      BY <1>5, <2>2, GatewayStepFrame DEF GatewayInv
    <3> QED
      BY <1>1, <3>1 DEF ChainInv, HasTx, RowOf
  <2> QED
    BY <2>1, <2>2
<1> QED
  BY <1>2, <1>4, <1>5 DEF Attempts

\* A handler answers with a 2xx only after its own insert or after finding the
\* row of another, and no step of a handler removes a row.
LEMMA AccountStepKeepsChainInv ==
    ASSUME Inv, NEW a \in Attempts, AccountStep(a) \/ Lose(a)
    PROVE  ChainInv'
<1> USE AttemptParts DEF Inv
<1>1. txs \subseteq txs' /\ pc' = pc /\ events' = events
  BY DEF AccountStep, Lose, ApplyTransaction, RejectTransaction, LookupTransaction,
     InsertTransaction, RereadTransaction, AuditTransaction, TransactionFails
<1>2. ASSUME conn'[a] = "2xx" PROVE HasTx(EventOf[a[1]])
  <2>1. AuditTransaction(a)
    BY <1>2 DEF AccountStep, Lose, ApplyTransaction, RejectTransaction, LookupTransaction,
       InsertTransaction, RereadTransaction, TransactionFails, MoveTo
  <2>2. HandlerOK(a)
    BY DEF AccountInv
  <2> QED
    BY <2>1, <2>2 DEF AuditTransaction, HandlerOK, HasTx, TxOf
<1>3. ASSUME NEW b \in Attempts, b # a PROVE conn'[b] = conn[b]
  BY <1>3 DEF AccountStep, Lose, ApplyTransaction, RejectTransaction, LookupTransaction,
     InsertTransaction, RereadTransaction, AuditTransaction, TransactionFails, MoveTo
<1> QED
  BY <1>1, <1>2, <1>3 DEF ChainInv, HasTx, Attempts

LEMMA RestartKeepsChainInv ==
    ASSUME Inv, AccountRestart \/ GatewayRestart
    PROVE  ChainInv'
<1> USE DEF Inv
<1>1. CASE AccountRestart
  BY <1>1 DEF AccountRestart, ChainInv, HasTx, Attempts
<1>2. CASE GatewayRestart
  BY <1>2 DEF GatewayRestart, Commit, Rollback, DropOpen, ChainInv, HasTx, Attempts
<1> QED
  BY <1>1, <1>2

-----------------------------------------------------------------------------
(* The theorems.                                                           *)

LEMMA InitInv == Init => Inv
  BY DEF Init, ConnInit, AccountInit, GatewayInit, Inv, AccountInv, GatewayInv, ChainInv,
     HandlerOK, SubmissionOK, Saved, OneRowPerEvent, RowOf, TxOf, ConnStates, PcStates, Running,
     Outcomes, TxOutcomes

LEMMA StepInv == Inv /\ [Next]_vars => Inv'
<1> SUFFICES ASSUME Inv, [Next]_vars PROVE Inv'
  OBVIOUS
<1> USE DEF Inv
<1>1. ASSUME NEW r \in Requests, GatewayStep(r) PROVE Inv'
  BY <1>1, GatewayStepTypes, GatewayStepKeepsAccountInv, GatewayStepKeepsGatewayInv,
     GatewayStepKeepsChainInv DEF GatewayInv
<1>2. ASSUME NEW a \in Attempts, AccountStep(a) \/ Lose(a) PROVE Inv'
  <2>1. gatewayVars' = gatewayVars
    BY <1>2 DEF AccountStep, Lose
  <2> QED
    BY <1>2, <2>1, AccountStepTypes, AccountStepKeepsAccountInv, AccountStepKeepsGatewayInv,
       AccountStepKeepsChainInv
<1>3. CASE AccountRestart
  <2>1. gatewayVars' = gatewayVars
    BY <1>3 DEF AccountRestart
  <2> QED
    BY <1>3, <2>1, RestartTypes, RestartKeepsAccountInv, AccountStepKeepsGatewayInv,
       RestartKeepsChainInv
<1>4. CASE GatewayRestart
  BY <1>4, RestartTypes, RestartKeepsAccountInv, GatewayRestartKeepsGatewayInv,
     RestartKeepsChainInv
<1>5. CASE UNCHANGED vars
  BY <1>5 DEF vars, AccountInv, GatewayInv, ChainInv, HandlerOK, SubmissionOK, Saved, OneRowPerEvent,
     HasTx, HasEvent, RowOf, TxOf, Forgotten, Attempts
<1> QED
  BY <1>1, <1>2, <1>3, <1>4, <1>5 DEF Next

\* The inductive invariant: it holds in every state of every behaviour of the
\* write path (submit_event, AccountClient._call and apply_transaction).
THEOREM Invariance == Spec => []Inv
  BY InitInv, StepInv, PTL DEF Spec

\* Every variable keeps its type; in particular no request makes more attempts
\* than ACCOUNT_MAX_RETRIES allows and only audit outcomes are audited.
THEOREM TypeCorrect == Spec => []TypeOK
  BY Invariance, PTL DEF Inv

\* Idempotency: over any retries, resubmissions, late handlers and restarts, the
\* ledger and the Gateway's table hold at most one row per eventId.
THEOREM AppliedAtMostOnce == Spec => []AppliedOnce
<1>1. Inv => AppliedOnce
  BY DEF Inv, AccountInv, GatewayInv, OneRowPerEvent, AppliedOnce
<1> QED
  BY <1>1, Invariance, PTL

\* Apply-then-persist: what the Gateway has recorded the ledger holds, if the
\* ledger's database outlives its process.
THEOREM RecordedOnlyIfApplied == Spec => []RecordedWasApplied
<1>1. Inv => RecordedWasApplied
  BY DEF Inv, ChainInv, RecordedWasApplied
<1> QED
  BY <1>1, Invariance, PTL

\* A 201 goes to the one request that created the record, once it is saved; a
\* request whose record is kept is told nothing else, unless its thread failed
\* after the insert, with a 500; and, before a commit has failed, a 200 goes only
\* to requests whose event is recorded.
THEOREM AnswersAreTruthful == Spec => []AnsweredTruthfully
<1>1. ASSUME Inv PROVE AnsweredTruthfully
  <2> SUFFICES ASSUME EventsSurvive, NEW r \in Requests, pc[r] = "answered"
               PROVE  /\ Status(r) = 201 => Saved(r)
                      /\ RowOf(r) \in events => Status(r) \in {201, 500}
                      /\ Status(r) = 200 /\ failures = 0 => HasEvent(EventOf[r])
    BY DEF AnsweredTruthfully, RowOf, Saved
  <2>1. SubmissionOK(r) /\ ~Forgotten(r)
    BY <1>1 DEF Inv, GatewayInv, Forgotten
  <2>2. /\ Status(r) = 201 <=> outcome[r] = "ACCEPTED"
        /\ Status(r) = 200 <=> outcome[r] \in {"DUPLICATE", "RACE_LOST"}
        /\ outcome[r] = "ERROR" => Status(r) = 500
    BY DEF Status
  <2> QED
    BY <2>1, <2>2 DEF SubmissionOK
<1> QED
  BY <1>1, Invariance, PTL

\* No audit row claims what the row it speaks of does not bear out; the DUPLICATE
\* rows of the Gateway until a commit fails, all others always.
THEOREM AuditIsTruthful == Spec => []AuditTruthful
<1>1. Inv => AuditTruthful
  BY DEF Inv, AccountInv, GatewayInv, HandlerOK, SubmissionOK, Saved, RowOf, TxOf, AuditTruthful
<1> QED
  BY <1>1, Invariance, PTL

\* The loser of an insert race finds the winner's row, in the Gateway until a
\* commit fails, so existing is not None where submit_event and apply_transaction
\* dereference it.
THEOREM LosersFindWinners == Spec => []LoserFindsWinner
<1>1. Inv => LoserFindsWinner
  BY DEF Inv, AccountInv, GatewayInv, HandlerOK, SubmissionOK, LoserFindsWinner
<1> QED
  BY <1>1, Invariance, PTL

-----------------------------------------------------------------------------
(* What was acknowledged.                                                  *)

\* The outcomes behind a 201 and a 200.
Acknowledgements == {"ACCEPTED", "DUPLICATE", "RACE_LOST"}

\* In the ledger an acknowledged event stays even when the Gateway has lost its
\* record of it, so this does not follow from ChainInv: it has to be remembered.
AcknowledgedInv ==
    LedgerSurvives =>
        \A r \in Requests : outcome[r] \in Acknowledgements => HasTx(EventOf[r])

\* Nothing that is saved is ever deleted from a table that is a file.
LEMMA SavedRowsStay ==
    ASSUME Inv, [Next]_vars
    PROVE  /\ LedgerSurvives => txs \subseteq txs'
           /\ EventsSurvive => \A v \in events : EventRow(v.by) \notin open => v \in events'
<1> USE DEF Inv
<1>1. ASSUME NEW r \in Requests, GatewayStep(r)
      PROVE  txs' = txs /\ \A v \in events : EventRow(v.by) \notin open => v \in events'
  BY <1>1, GatewayStepFrame DEF GatewayStep, GatewayInv
<1>2. ASSUME NEW a \in Attempts, AccountStep(a) \/ Lose(a)
      PROVE  events' = events /\ txs \subseteq txs'
  BY <1>2 DEF AccountStep, Lose, ApplyTransaction, RejectTransaction, LookupTransaction,
     InsertTransaction, RereadTransaction, AuditTransaction, TransactionFails
<1>3. CASE AccountRestart
  BY <1>3 DEF AccountRestart
<1>4. CASE GatewayRestart
  BY <1>4 DEF GatewayRestart, Rollback, DropOpen
<1>5. CASE UNCHANGED vars
  BY <1>5 DEF vars
<1> QED
  BY <1>1, <1>2, <1>3, <1>4, <1>5 DEF Next

\* With one row per event, the rows of an event are final if one of them stays.
LEMMA RowsOfOne ==
    ASSUME NEW old, NEW new, OneRowPerEvent(old), OneRowPerEvent(new), NEW row \in old \cap new
    PROVE  RowsOf(new, row.event) = RowsOf(old, row.event)
  BY DEF RowsOf, OneRowPerEvent

\* An answer is settled where the record was just read or written, and what is
\* recorded has been applied.
LEMMA GatewayStepKeepsAcknowledged ==
    ASSUME Inv, AcknowledgedInv, NEW r \in Requests, GatewayStep(r)
    PROVE  AcknowledgedInv'
<1> USE DEF Inv, Acknowledgements
<1>1. txs' = txs
  BY DEF GatewayStep
<1>2. outcome'[r] \in Acknowledgements =>
        outcome[r] \in Acknowledgements \/ HasEvent(EventOf[r]) \/ pc[r] = "recording"
  BY DEF GatewayStep, Submit, RejectEvent, SubmitEvent, Proceed, LookupEvent, Call, Send, Exhausted,
     Receive, GiveUp, InsertEvent, RereadEvent, AuditEvent, Respond, SubmitFails, Goto, Conclude, AnswerWith
<1>3. LedgerSurvives /\ (HasEvent(EventOf[r]) \/ pc[r] = "recording") => HasTx(EventOf[r])
  BY DEF ChainInv, HasEvent
<1> QED
  BY <1>1, <1>2, <1>3, GatewayStepFrame DEF AcknowledgedInv, HasTx, GatewayInv

LEMMA AcknowledgedIsApplied == Spec => []AcknowledgedInv
<1>1. Init => AcknowledgedInv
  BY DEF Init, GatewayInit, AcknowledgedInv, Acknowledgements
<1>2. Inv /\ AcknowledgedInv /\ [Next]_vars => AcknowledgedInv'
  <2> SUFFICES ASSUME Inv, AcknowledgedInv, [Next]_vars PROVE AcknowledgedInv'
    OBVIOUS
  <2>1. ASSUME NEW r \in Requests, GatewayStep(r) PROVE AcknowledgedInv'
    BY <2>1, GatewayStepKeepsAcknowledged
  <2>2. CASE ~\E r \in Requests : GatewayStep(r)
    <3>1. outcome' = outcome
      BY <2>2 DEF Next, vars, AccountStep, Lose, AccountRestart, GatewayRestart
    <3> QED
      BY <3>1, SavedRowsStay DEF AcknowledgedInv, HasTx
  <2> QED
    BY <2>1, <2>2
<1> QED
  BY <1>1, <1>2, Invariance, PTL DEF Spec

\* After a 201 or a 200 nothing touches the transaction or the record of the
\* event again: not the handler of an attempt the Gateway has given up, not a
\* resubmission with another body, not a restart, and after a 201 not the
\* rollback of another thread's commit that failed.
THEOREM AcknowledgedForGood == Spec => AcknowledgedIsFinal
<1> DEFINE Lasting(r) == EventsSurvive /\ (Status(r) = 201 \/ failures = 0)
           Final ==
             \A r \in Requests :
               pc[r] = "answered" /\ Status(r) \in {200, 201} =>
                 /\ LedgerSurvives => RowsOf(txs', EventOf[r]) = RowsOf(txs, EventOf[r])
                 /\ Lasting(r) => RowsOf(events', EventOf[r]) = RowsOf(events, EventOf[r])
<1>1. Inv /\ Inv' /\ AcknowledgedInv /\ [Next]_vars => [Final]_vars
  <2> SUFFICES ASSUME Inv, Inv', AcknowledgedInv, [Next]_vars, NEW r \in Requests,
                      pc[r] = "answered", Status(r) \in {200, 201}
               PROVE  /\ LedgerSurvives => RowsOf(txs', EventOf[r]) = RowsOf(txs, EventOf[r])
                      /\ Lasting(r) => RowsOf(events', EventOf[r]) = RowsOf(events, EventOf[r])
    OBVIOUS
  <2>1. /\ outcome[r] \in Acknowledgements
        /\ Status(r) = 201 => outcome[r] = "ACCEPTED"
    BY DEF Status, Acknowledgements
  <2>2. /\ OneRowPerEvent(txs) /\ OneRowPerEvent(txs')
        /\ OneRowPerEvent(events) /\ OneRowPerEvent(events')
    BY DEF Inv, AccountInv, GatewayInv, OneRowPerEvent
  <2>3. ASSUME LedgerSurvives PROVE RowsOf(txs', EventOf[r]) = RowsOf(txs, EventOf[r])
    <3>1. PICK t \in txs : t.event = EventOf[r]
      BY <2>1, <2>3 DEF AcknowledgedInv, HasTx
    <3>2. t \in txs'
      BY <2>3, <3>1, SavedRowsStay
    <3> QED
      BY <2>2, <3>1, <3>2, RowsOfOne
  <2>4. ASSUME Lasting(r) PROVE RowsOf(events', EventOf[r]) = RowsOf(events, EventOf[r])
    <3>1. SubmissionOK(r) /\ ~Forgotten(r) /\ (failures = 0 => open = {})
      BY <2>4 DEF Inv, GatewayInv, Forgotten
    <3>2. PICK v \in events : v.event = EventOf[r] /\ EventRow(v.by) \notin open
      <4>1. CASE outcome[r] = "ACCEPTED"
        <5>1. Saved(r) /\ RowOf(r).event = EventOf[r] /\ RowOf(r).by = r
          BY <3>1, <4>1 DEF SubmissionOK, RowOf
        <5> QED
          BY <5>1 DEF Saved
      <4>2. CASE outcome[r] # "ACCEPTED"
        <5>1. HasEvent(EventOf[r]) /\ open = {}
          BY <2>1, <2>4, <3>1, <4>2 DEF SubmissionOK, Acknowledgements
        <5> QED
          BY <5>1 DEF HasEvent
      <4> QED
        BY <4>1, <4>2
    <3>3. v \in events'
      BY <2>4, <3>2, SavedRowsStay
    <3> QED
      BY <2>2, <3>2, <3>3, RowsOfOne
  <2> QED
    BY <2>3, <2>4
<1> QED
  BY <1>1, Invariance, AcknowledgedIsApplied, PTL DEF Spec, AcknowledgedIsFinal
=============================================================================
