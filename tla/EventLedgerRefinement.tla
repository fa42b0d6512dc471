------------------------ MODULE EventLedgerRefinement ------------------------
(***************************************************************************)
(* The write path implements the safety part of LedgerContract, for any    *)
(* requests, bodies, attempts and restarts, provided that both databases   *)
(* outlive their processes: a ledger or a record kept in memory breaks the *)
(* promise, since the contract never forgets what it has acknowledged.     *)
(*                                                                         *)
(* The invariant of EventLedgerProofs says enough of the record and of the *)
(* answers.  One fact is added: no attempt is under way for a request that *)
(* has not been submitted, so that what is applied has been asked for.     *)
(***************************************************************************)
EXTENDS EventLedgerProofs

Idle == \A a \in Attempts : pc[a[1]] = "unsent" => conn[a] = "unused"

USE ExchangeAssumption, GatewayAssumption, LedgerAssumption
    DEF TypeOK, AccountTypeOK, GatewayTypeOK, accountVars, gatewayVars, tableVars

-----------------------------------------------------------------------------
(* Nothing happens before the submission.                                  *)

LEMMA GatewayStepKeepsIdle ==
    ASSUME TypeOK, Idle, NEW r \in Requests, GatewayStep(r)
    PROVE  Idle'
<1>1. pc'[r] # "unsent"
  BY DEF GatewayStep, Submit, RejectEvent, SubmitEvent, Proceed, LookupEvent, Call, Send, Exhausted,
     Receive, GiveUp, InsertEvent, RereadEvent, AuditEvent, Respond, SubmitFails, Goto, Conclude, AnswerWith
<1>2. ASSUME NEW a \in Attempts, pc'[a[1]] = "unsent" PROVE conn'[a] = "unused"
  <2>1. a[1] # r /\ a[1] \in Requests
    BY <1>1, <1>2, AttemptParts
  <2>2. pc[a[1]] = "unsent"
    <3>1. pc'[a[1]] = pc[a[1]]
      BY <2>1 DEF GatewayStep, Submit, RejectEvent, SubmitEvent, Proceed, LookupEvent, Call, Send,
         Exhausted, Receive, GiveUp, InsertEvent, RereadEvent, AuditEvent, Respond, SubmitFails, Goto,
         Conclude, AnswerWith
    <3> QED
      BY <1>2, <3>1
  <2>3. conn'[a] = conn[a]
    <3>1. CASE Send(r)
      <4>1. a # <<r, attempt[r] + 1>>
        BY <2>1
      <4> QED
        BY <3>1, <4>1 DEF Send
    <3>2. CASE ~Send(r)
      BY <3>2 DEF GatewayStep, Submit, RejectEvent, SubmitEvent, Proceed, LookupEvent, Call,
         Exhausted, Receive, GiveUp, InsertEvent, RereadEvent, AuditEvent, Respond, SubmitFails
    <3> QED
      BY <3>1, <3>2
  <2> QED
    BY <2>2, <2>3 DEF Idle
<1> QED
  BY <1>2 DEF Idle, Attempts

LEMMA OtherStepsKeepIdle ==
    ASSUME TypeOK, Idle,
           (\E a \in Attempts : AccountStep(a) \/ Lose(a)) \/ AccountRestart \/ GatewayRestart
    PROVE  Idle'
<1>1. ASSUME NEW a \in Attempts, AccountStep(a) \/ Lose(a) PROVE Idle'
  <2>1. pc' = pc /\ conn[a] # "unused" /\ \A b \in Attempts \ {a} : conn'[b] = conn[b]
    BY <1>1 DEF AccountStep, Lose, ApplyTransaction, RejectTransaction, LookupTransaction,
       InsertTransaction, RereadTransaction, AuditTransaction, TransactionFails, MoveTo
  <2> QED
    BY <2>1 DEF Idle, Attempts
<1>2. CASE AccountRestart
  BY <1>2 DEF AccountRestart, Idle, Attempts, Handling
<1>3. CASE GatewayRestart
  BY <1>3, AttemptParts DEF GatewayRestart, Idle, Attempts
<1> QED
  BY <1>1, <1>2, <1>3

LEMMA NothingBeforeSubmission == Spec => []Idle
<1>1. Init => Idle
  BY DEF Init, ConnInit, Idle
<1>2. Inv /\ Idle /\ [Next]_vars => Idle'
  <2>1. UNCHANGED vars /\ Idle => Idle'
    BY DEF vars, Idle, Attempts
  <2> QED
    BY <2>1, GatewayStepKeepsIdle, OtherStepsKeepIdle DEF Next, Inv
<1> QED
  BY <1>1, <1>2, Invariance, PTL DEF Spec

-----------------------------------------------------------------------------
(* The refinement mapping.                                                 *)

Duplicates == {"DUPLICATE", "RACE_LOST"}

\* What each submission has been told, before and after a step.
LEMMA AnswerOf ==
    ASSUME NEW r \in Requests, outcome[r] \in Outcomes
    PROVE  /\ pc[r] = "unsent" => Answered(r) = "unsent"
           /\ pc[r] \in Running \ Concluding => Answered(r) = "pending"
           /\ pc[r] \in Concluding =>
                Answered(r) = IF outcome[r] \in Duplicates THEN "matched" ELSE "pending"
           /\ pc[r] = "down" => Answered(r) = "lost"
           /\ pc[r] = "answered" => Answered(r) =
                IF outcome[r] = "ACCEPTED" THEN "created"
                ELSE IF outcome[r] \in Duplicates THEN "duplicate"
                ELSE IF outcome[r] \in {"none", "ERROR"} THEN "failed"
                ELSE "refused"
  BY DEF Answered, Status, Running, Concluding, Duplicates, Outcomes, AuditOutcomes

LEMMA AnswerAfter ==
    ASSUME NEW r \in Requests, outcome'[r] \in Outcomes
    PROVE  /\ pc'[r] = "unsent" => Answered(r)' = "unsent"
           /\ pc'[r] \in Running \ Concluding => Answered(r)' = "pending"
           /\ pc'[r] \in Concluding =>
                Answered(r)' = IF outcome'[r] \in Duplicates THEN "matched" ELSE "pending"
           /\ pc'[r] = "down" => Answered(r)' = "lost"
           /\ pc'[r] = "answered" => Answered(r)' =
                IF outcome'[r] = "ACCEPTED" THEN "created"
                ELSE IF outcome'[r] \in Duplicates THEN "duplicate"
                ELSE IF outcome'[r] \in {"none", "ERROR"} THEN "failed"
                ELSE "refused"
  BY DEF Answered, Status, Running, Concluding, Duplicates, Outcomes, AuditOutcomes

\* A thread answers nobody but its own client.
LEMMA OneIsAnswered ==
    ASSUME TypeOK, failures = 0 => open = {}, NEW r \in Requests, GatewayStep(r)
    PROVE  Answers' = [Answers EXCEPT ![r] = Answered(r)']
<1>1. ASSUME NEW q \in Requests, q # r PROVE Answered(q)' = Answered(q)
  <2>1. pc'[q] = pc[q] /\ outcome'[q] = outcome[q]
    BY <1>1, GatewayStepFrame
  <2> QED
    BY <2>1 DEF Answered, Status
<1> QED
  BY <1>1 DEF Answers

\* The tables.
LEMMA TransactionIsApplied ==
    ASSUME TypeOK, NEW a \in Attempts, TransactionKeyFree(a), txs' = txs \cup {TxOf(a)}
    PROVE  /\ AppliedBy[EventOf[a[1]]] = {}
           /\ AppliedBy' = [AppliedBy EXCEPT ![EventOf[a[1]]] = {a}]
<1>1. EventOf[a[1]] \in EventIds
  BY AttemptParts
<1>2. AppliedBy[EventOf[a[1]]] = {}
  BY <1>1 DEF AppliedBy, TransactionKeyFree, HasTx
<1>3. ASSUME NEW e \in EventIds
      PROVE  {t.by : t \in {u \in txs' : u.event = e}} =
                IF e = EventOf[a[1]] THEN {a} ELSE {t.by : t \in {u \in txs : u.event = e}}
  <2>1. TxOf(a).event = EventOf[a[1]] /\ TxOf(a).by = a
    BY DEF TxOf
  <2>2. CASE e = EventOf[a[1]]
    <3>1. {u \in txs' : u.event = e} = {TxOf(a)}
      BY <2>1, <2>2 DEF TransactionKeyFree, HasTx
    <3> QED
      BY <2>1, <2>2, <3>1
  <2>3. CASE e # EventOf[a[1]]
    <3>1. {u \in txs' : u.event = e} = {u \in txs : u.event = e}
      BY <2>1, <2>3
    <3> QED
      BY <2>3, <3>1
  <2> QED
    BY <2>2, <2>3
<1> QED
  BY <1>1, <1>2, <1>3 DEF AppliedBy

LEMMA EventIsRecorded ==
    ASSUME TypeOK, NEW r \in Requests, EventKeyFree(r), events' = events \cup {RowOf(r)}
    PROVE  /\ RecordedBy[EventOf[r]] = {}
           /\ RecordedBy' = [RecordedBy EXCEPT ![EventOf[r]] = {r}]
<1>1. EventOf[r] \in EventIds
  OBVIOUS
<1>2. RecordedBy[EventOf[r]] = {}
  BY <1>1 DEF RecordedBy, EventKeyFree, HasEvent
<1>3. ASSUME NEW e \in EventIds
      PROVE  {v.by : v \in {w \in events' : w.event = e}} =
                IF e = EventOf[r] THEN {r} ELSE {v.by : v \in {w \in events : w.event = e}}
  <2>1. RowOf(r).event = EventOf[r] /\ RowOf(r).by = r
    BY DEF RowOf
  <2>2. CASE e = EventOf[r]
    <3>1. {w \in events' : w.event = e} = {RowOf(r)}
      BY <2>1, <2>2 DEF EventKeyFree, HasEvent
    <3> QED
      BY <2>1, <2>2, <3>1
  <2>3. CASE e # EventOf[r]
    <3>1. {w \in events' : w.event = e} = {w \in events : w.event = e}
      BY <2>1, <2>3
    <3> QED
      BY <2>3, <3>1
  <2> QED
    BY <2>2, <2>3
<1> QED
  BY <1>1, <1>2, <1>3 DEF RecordedBy

\* Whose record an event is.
LEMMA RecordOf ==
    ASSUME TypeOK, GatewayInv, NEW r \in Requests
    PROVE  /\ RowOf(r) \in events => RecordedBy[EventOf[r]] = {r}
           /\ RowOf(r) \notin events => r \notin RecordedBy[EventOf[r]]
           /\ HasEvent(EventOf[r]) => RecordedBy[EventOf[r]] # {}
<1> DEFINE mine == {w \in events : w.event = EventOf[r]}
<1>1. RecordedBy[EventOf[r]] = {v.by : v \in mine}
  BY DEF RecordedBy
<1>2. ASSUME RowOf(r) \in events PROVE RecordedBy[EventOf[r]] = {r}
  <2>1. mine = {RowOf(r)}
    BY <1>2 DEF RowOf, GatewayInv, OneRowPerEvent
  <2>2. RowOf(r).by = r
    BY DEF RowOf
  <2> HIDE DEF mine
  <2> QED
    BY <1>1, <2>1, <2>2
<1>3. ASSUME RowOf(r) \notin events PROVE r \notin RecordedBy[EventOf[r]]
  BY <1>1, <1>3 DEF RowOf, EventRows
<1>4. ASSUME HasEvent(EventOf[r]) PROVE RecordedBy[EventOf[r]] # {}
  BY <1>1, <1>4 DEF HasEvent
<1> QED
  BY <1>2, <1>3, <1>4

LEMMA RecordedApplied ==
    ASSUME NEW e \in EventIds, HasTx(e)
    PROVE  AppliedBy[e] # {}
  BY DEF AppliedBy, HasTx

LEMMA TablesKept ==
    /\ txs' = txs => AppliedBy' = AppliedBy
    /\ events' = events => RecordedBy' = RecordedBy
  BY DEF AppliedBy, RecordedBy

\* The rows that a failed commit left open may go: nobody was told that one of
\* them was created.
LEMMA OpenRowsVanish ==
    ASSUME Inv, EventsSurvive, txs' = txs,
           events' = {v \in events : EventRow(v.by) \notin open}
    PROVE  UNCHANGED <<AppliedBy, RecordedBy>> \/ Contract!Vanish
<1> USE DEF Inv
<1>1. AppliedBy' = AppliedBy
  BY TablesKept
<1>2. CASE open = {}
  <2>1. events' = events
    BY <1>2
  <2> QED
    BY <1>1, <2>1, TablesKept
<1>3. CASE open # {}
  <2> DEFINE gone == {q \in Requests : EventRow(q) \in open}
  <2>1. MaxFailures > 0
    BY <1>3 DEF GatewayInv
  <2>2. ASSUME NEW q \in gone PROVE Answers[q] # "created"
    <3>1. ~Saved(q) /\ SubmissionOK(q)
      BY DEF Saved, GatewayInv
    <3>2. ~(pc[q] = "answered" /\ outcome[q] = "ACCEPTED")
      BY <3>1 DEF SubmissionOK, Forgotten
    <3>3. pc[q] \in {"unsent", "answered", "down"} \cup (Running \ Concluding) \cup Concluding
      BY DEF PcStates
    <3> QED
      BY <3>2, <3>3, AnswerOf DEF Answers
  <2>3. RecordedBy' = [e \in EventIds |-> RecordedBy[e] \ gone]
    <3>1. ASSUME NEW e \in EventIds
          PROVE  {v.by : v \in {w \in events' : w.event = e}} =
                   {v.by : v \in {w \in events : w.event = e}} \ gone
      <4>1. \A v \in events : v.by \in Requests /\ (v \in events' <=> v.by \notin gone)
        BY DEF EventRows
      <4>2. events' \subseteq events
        OBVIOUS
      <4> HIDE DEF gone
      <4> QED
        BY <4>1, <4>2
    <3> HIDE DEF gone
    <3> QED
      BY <3>1 DEF RecordedBy
  <2>4. gone \in SUBSET {q \in Requests : Answers[q] # "created"}
    BY <2>2
  <2> HIDE DEF gone
  <2> QED
    BY <1>1, <2>1, <2>3, <2>4 DEF Contract!Vanish
<1> QED
  BY <1>2, <1>3

-----------------------------------------------------------------------------
(* Every step is a step of the contract.                                   *)

\* A step that leaves the record alone is seen in the answer, if it is seen.
LEMMA AnswerMoves ==
    ASSUME Inv, NEW r \in Requests, GatewayStep(r), events' = events,
           NEW from, NEW to, Answered(r) \in from, Answered(r)' = to
    PROVE  Contract!Move(r, from, to)
  BY OneIsAnswered, TablesKept DEF Inv, GatewayInv, GatewayStep, Contract!Move, Answers

LEMMA UnseenStep ==
    ASSUME Inv, NEW r \in Requests, GatewayStep(r), events' = events, Answered(r)' = Answered(r)
    PROVE  UNCHANGED Contract!vars
<1>1. Answers' = Answers
  BY OneIsAnswered DEF Inv, GatewayInv, Answers
<1> QED
  BY <1>1, TablesKept DEF GatewayStep, Contract!vars

\* So is a rollback by a thread that goes on waiting.
LEMMA UnseenRollback ==
    ASSUME Inv, EventsSurvive, NEW r \in Requests, GatewayStep(r), DropOpen,
           Answered(r)' = Answered(r)
    PROVE  [Contract!Next]_(Contract!vars)
<1>1. Answers' = Answers
  BY OneIsAnswered DEF Inv, GatewayInv, Answers
<1>2. UNCHANGED <<AppliedBy, RecordedBy>> \/ Contract!Vanish
  BY OpenRowsVanish DEF DropOpen, GatewayStep
<1> QED
  BY <1>1, <1>2 DEF Contract!Next, Contract!vars

\* Before a submission has an outcome it waits and has no record.
LEMMA PendingSubmission ==
    ASSUME Inv, NEW r \in Requests, pc[r] \in Running \ Concluding
    PROVE  /\ Answered(r) = "pending" /\ outcome[r] = "none"
           /\ HasEvent(EventOf[r]) => RecordedBy[EventOf[r]] \notin {{}, {r}}
<1>1. Answered(r) = "pending" /\ outcome[r] = "none"
  BY AnswerOf DEF Inv, GatewayInv, SubmissionOK
<1>2. RowOf(r) \notin events
  BY <1>1 DEF Inv, GatewayInv, SubmissionOK
<1> QED
  BY <1>1, <1>2, RecordOf DEF Inv

\* A record found, by the lookup or after a lost race, is somebody else's.
LEMMA MatchImplements ==
    ASSUME Inv, NEW r \in Requests, GatewayStep(r), events' = events,
           pc[r] \in Running \ Concluding, pc'[r] \in Concluding, outcome'[r] \in Duplicates,
           HasEvent(EventOf[r])
    PROVE  Contract!Match(r)
<1>1. Answered(r) \in {"pending"} /\ RecordedBy[EventOf[r]] \notin {{}, {r}}
  BY PendingSubmission
<1>2. Answered(r)' = "matched"
  BY AnswerAfter DEF Duplicates, Outcomes, AuditOutcomes
<1>3. Contract!Move(r, {"pending"}, "matched")
  BY <1>1, <1>2, AnswerMoves
<1> QED
  BY <1>1, <1>3 DEF Contract!Match

\* Whatever the insert does, its thread goes on waiting: the record appears, or
\* open ones vanish.
LEMMA InsertImplements ==
    ASSUME Inv, EventsSurvive, LedgerSurvives, NEW r \in Requests, GatewayStep(r), InsertEvent(r)
    PROVE  [Contract!Next]_(Contract!vars)
<1> USE DEF Inv
<1>1. pc[r] = "recording" /\ pc[r] \in Running \ Concluding
  BY DEF InsertEvent, Running, Concluding
<1>2. Answered(r) = "pending" /\ Answered(r)' = "pending"
  <2>1. /\ pc'[r] \in (Running \ Concluding) \cup Concluding
        /\ outcome'[r] \in {"ACCEPTED", "ERROR", outcome[r]}
    BY DEF InsertEvent, Conclude, AnswerWith, Goto, Running, Concluding
  <2> QED
    BY <1>1, <2>1, PendingSubmission, AnswerAfter DEF Outcomes, AuditOutcomes, Duplicates
<1>3. CASE EventKeyFree(r) /\ events' = events \cup {RowOf(r)}
  <2>1. Answers[r] = "pending" /\ Answers' = Answers
    BY <1>2, OneIsAnswered DEF GatewayInv, Answers
  <2>2. AppliedBy[EventOf[r]] # {}
    BY <1>1, RecordedApplied DEF ChainInv
  <2>3. Contract!Record(r)
    BY <1>3, <2>1, <2>2, EventIsRecorded, TablesKept DEF GatewayStep, Contract!Record
  <2> QED
    BY <2>3 DEF Contract!Next
<1>4. CASE DropOpen
  BY <1>2, <1>4, UnseenRollback
<1> QED
  BY <1>3, <1>4 DEF InsertEvent, Commit, CommitFails, Rollback, RowOf

\* The outcome of a submission decides which of the replies it gets.
LEMMA ResponseImplements ==
    ASSUME Inv, EventsSurvive, NEW r \in Requests, GatewayStep(r), Respond(r)
    PROVE  Contract!Reply(r)
<1> USE DEF Inv
<1>1. /\ pc[r] = "answering" /\ pc[r] \in Concluding
      /\ pc'[r] = "answered" /\ outcome'[r] = outcome[r] /\ events' = events
  BY DEF Respond, Goto, Concluding
<1>2. SubmissionOK(r)
  BY DEF GatewayInv
<1>3. Answered(r) = IF outcome[r] \in Duplicates THEN "matched" ELSE "pending"
  BY <1>1, AnswerOf
<1>4. CASE outcome[r] = "ACCEPTED"
  <2>1. Answered(r) \in {"pending"} /\ Answered(r)' = "created"
    BY <1>1, <1>3, <1>4, AnswerAfter DEF Duplicates
  <2>2. RecordedBy[EventOf[r]] = {r}
    BY <1>2, <1>4, RecordOf DEF SubmissionOK, Forgotten, Saved
  <2> QED
    BY <1>1, <2>1, <2>2, AnswerMoves DEF Contract!Reply, Contract!Created
<1>5. CASE outcome[r] \in Duplicates
  <2>1. Answered(r) \in {"matched"} /\ Answered(r)' = "duplicate"
    BY <1>1, <1>3, <1>5, AnswerAfter DEF Duplicates
  <2> QED
    BY <1>1, <2>1, AnswerMoves DEF Contract!Reply, Contract!Duplicate
<1>6. CASE outcome[r] \in {"none", "ERROR"}
  <2>1. Answered(r) \in {"pending", "matched"} /\ Answered(r)' = "failed"
    BY <1>1, <1>3, <1>6, AnswerAfter DEF Duplicates
  <2> QED
    BY <1>1, <2>1, AnswerMoves DEF Contract!Reply, Contract!Fail, Contract!Waiting
<1>7. CASE outcome[r] \notin {"ACCEPTED", "none", "ERROR"} \cup Duplicates
  <2>1. Answered(r) \in {"pending"} /\ Answered(r)' = "refused"
    BY <1>1, <1>3, <1>7, AnswerAfter
  <2>2. r \notin RecordedBy[EventOf[r]]
    BY <1>2, <1>7, RecordOf DEF SubmissionOK
  <2> QED
    BY <1>1, <2>1, <2>2, AnswerMoves DEF Contract!Reply, Contract!Refuse
<1> QED
  BY <1>4, <1>5, <1>6, <1>7

LEMMA GatewayStepImplements ==
    ASSUME Inv, EventsSurvive, LedgerSurvives, NEW r \in Requests, GatewayStep(r)
    PROVE  [Contract!Next]_(Contract!vars)
<1> USE DEF Inv
<1>1. CASE Submit(r) \/ RejectEvent(r)
  <2>1. /\ pc[r] = "unsent" /\ events' = events /\ outcome'[r] \in {outcome[r], "REJECTED_VALIDATION"}
        /\ \/ pc'[r] \in Running \ Concluding
           \/ pc'[r] \in Concluding /\ outcome'[r] = "REJECTED_VALIDATION"
    BY <1>1 DEF Submit, RejectEvent, Goto, Conclude, Running, Concluding
  <2>2. Answered(r) \in {"unsent"} /\ Answered(r)' = "pending"
    BY <2>1, AnswerOf, AnswerAfter DEF Duplicates, Outcomes, AuditOutcomes
  <2> QED
    BY <2>1, <2>2, AnswerMoves DEF Contract!Submit, Contract!Next
<1>2. CASE (LookupEvent(r) \/ RereadEvent(r)) /\ outcome'[r] \in Duplicates
  <2>1. pc[r] \in Running \ Concluding /\ events' = events
    BY <1>2 DEF LookupEvent, RereadEvent, Running, Concluding
  <2>2. outcome[r] \notin Duplicates
    BY <2>1, PendingSubmission DEF Duplicates
  <2>3. HasEvent(EventOf[r]) /\ pc'[r] \in Concluding
    BY <1>2, <2>2 DEF LookupEvent, RereadEvent, Conclude, AnswerWith, Goto, Duplicates, Concluding
  <2> QED
    BY <1>2, <2>1, <2>3, MatchImplements DEF Contract!Next
<1>3. CASE /\ LookupEvent(r) \/ RereadEvent(r) \/ Call(r) \/ Receive(r) \/ GiveUp(r)
           /\ outcome'[r] \notin Duplicates
  <2>1. /\ pc[r] \in Running \ Concluding /\ events' = events
        /\ pc'[r] \in (Running \ Concluding) \cup Concluding
        /\ outcome'[r] \in Outcomes \ Duplicates
    <3>1. pc[r] \in Running \ Concluding /\ events' = events
      BY <1>3 DEF LookupEvent, RereadEvent, Call, Receive, GiveUp, Running, Concluding
    <3>2. pc'[r] \in (Running \ Concluding) \cup Concluding
      BY <1>3 DEF LookupEvent, RereadEvent, Call, Receive, GiveUp, Send, Exhausted, Conclude,
         AnswerWith, Goto, Running, Concluding
    <3>3. outcome'[r] \in Outcomes \ Duplicates
      BY <1>3, GatewayStepTypes DEF GatewayInv
    <3> QED
      BY <3>1, <3>2, <3>3
  <2>2. Answered(r) = "pending" /\ Answered(r)' = "pending"
    BY <2>1, PendingSubmission, AnswerAfter
  <2> QED
    BY <2>1, <2>2, UnseenStep
<1>4. CASE InsertEvent(r)
  BY <1>4, InsertImplements
<1>5. CASE AuditEvent(r)
  <2>1. /\ pc[r] \in Concluding /\ pc'[r] \in Concluding /\ outcome'[r] = outcome[r]
        /\ events' = events \/ DropOpen
    BY <1>5 DEF AuditEvent, Goto, Commit, CommitFails, Concluding
  <2>2. Answered(r)' = Answered(r)
    BY <2>1, AnswerOf, AnswerAfter
  <2> QED
    BY <2>1, <2>2, UnseenStep, UnseenRollback
<1>6. CASE Respond(r)
  BY <1>6, ResponseImplements DEF Contract!Next
<1>7. CASE SubmitFails(r)
  <2>1. /\ pc[r] \in (Running \ Concluding) \cup Concluding /\ events' = events
        /\ pc'[r] = "answered" /\ outcome'[r] = "ERROR"
    BY <1>7 DEF SubmitFails, Goto
  <2>2. Answered(r) \in {"pending", "matched"} /\ Answered(r)' = "failed"
    BY <2>1, AnswerOf, AnswerAfter DEF Outcomes, Duplicates
  <2>3. Contract!Fail(r)
    BY <2>1, <2>2, AnswerMoves DEF Contract!Fail, Contract!Waiting
  <2> QED
    BY <2>3 DEF Contract!Reply, Contract!Next
<1> QED
  <2>1. CASE LookupEvent(r) \/ RereadEvent(r)
    BY <1>2, <1>3, <2>1
  <2>2. CASE Call(r) \/ Receive(r) \/ GiveUp(r)
    <3>1. outcome'[r] \notin Duplicates
      <4>1. outcome[r] = "none"
        BY <2>2, PendingSubmission DEF Call, Receive, GiveUp, Running, Concluding
      <4> QED
        BY <2>2, <4>1 DEF Call, Receive, GiveUp, Send, Exhausted, Conclude, Duplicates
    <3> QED
      BY <1>3, <2>2, <3>1
  <2> QED
    BY <1>1, <1>4, <1>5, <1>6, <1>7, <2>1, <2>2 DEF GatewayStep, SubmitEvent, Proceed

\* A handler's insert is seen as the application of its request; nothing else it
\* does is seen.
LEMMA AccountStepImplements ==
    ASSUME Inv, Idle, NEW a \in Attempts, AccountStep(a) \/ Lose(a)
    PROVE  [Contract!Next]_(Contract!vars)
<1> USE DEF Inv
<1>1. Answers' = Answers /\ RecordedBy' = RecordedBy
  <2>1. pc' = pc /\ outcome' = outcome /\ events' = events
    BY DEF AccountStep, Lose
  <2>2. Answers' = Answers
    BY <2>1 DEF Answers, Answered, Status
  <2> QED
    BY <2>1, <2>2, TablesKept
<1>2. CASE InsertTransaction(a) /\ TransactionKeyFree(a)
  <2>1. txs' = txs \cup {TxOf(a)}
    BY <1>2 DEF InsertTransaction, TxOf
  <2>2. Answers[a[1]] # "unsent"
    <3>1. pc[a[1]] \in {"down", "answered"} \cup (Running \ Concluding) \cup Concluding
      BY <1>2, AttemptParts DEF Idle, InsertTransaction, PcStates
    <3> QED
      BY <3>1, AttemptParts, AnswerOf DEF Answers
  <2>3. a[2] \in 1 .. MaxAttempts /\ <<a[1], a[2]>> = a
    BY DEF Attempts
  <2>4. Contract!Apply(a[1])
    BY <1>1, <1>2, <2>1, <2>2, <2>3, TransactionIsApplied DEF Contract!Apply
  <2> QED
    BY <2>4, AttemptParts DEF Contract!Next
<1>3. CASE ~(InsertTransaction(a) /\ TransactionKeyFree(a))
  <2>1. txs' = txs
    BY <1>3 DEF AccountStep, Lose, ApplyTransaction, RejectTransaction, LookupTransaction,
       InsertTransaction, RereadTransaction, AuditTransaction, TransactionFails
  <2> QED
    BY <1>1, <2>1, TablesKept DEF Contract!vars
<1> QED
  BY <1>2, <1>3

LEMMA RestartImplements ==
    ASSUME Inv, EventsSurvive, LedgerSurvives, AccountRestart \/ GatewayRestart
    PROVE  [Contract!Next]_(Contract!vars)
<1> USE DEF Inv
<1>1. CASE AccountRestart
  BY <1>1, TablesKept DEF AccountRestart, Answers, Answered, Status, Contract!vars
<1>2. CASE GatewayRestart
  <2>1. UNCHANGED <<AppliedBy, RecordedBy>> \/ Contract!Vanish
    BY <1>2, OpenRowsVanish DEF GatewayRestart, Rollback, DropOpen
  <2>2. ASSUME NEW r \in Requests
        PROVE  Answered(r)' = IF Answered(r) \in {"pending", "matched"} THEN "lost" ELSE Answered(r)
    <3>1. outcome'[r] = outcome[r] /\ pc'[r] = IF pc[r] \in Running THEN "down" ELSE pc[r]
      BY <1>2 DEF GatewayRestart
    <3>2. CASE pc[r] \in Running
      <4>1. pc[r] \in (Running \ Concluding) \cup Concluding
        BY <3>2
      <4> QED
        BY <3>1, <3>2, <4>1, AnswerOf, AnswerAfter
    <3>3. CASE pc[r] \notin Running
      <4>1. pc[r] \in {"unsent", "down", "answered"}
        BY <3>3 DEF PcStates
      <4>2. pc'[r] = pc[r] /\ Answered(r) \notin {"pending", "matched"}
        BY <3>1, <3>3, <4>1, AnswerOf
      <4> QED
        BY <3>1, <4>1, <4>2, AnswerOf, AnswerAfter
    <3> QED
      BY <3>2, <3>3
  <2>3. Contract!Abort
    BY <2>1, <2>2 DEF Answers, Contract!Abort, Contract!Waiting
  <2> QED
    BY <2>3 DEF Contract!Next
<1> QED
  BY <1>1, <1>2

\* The write path keeps the promise of LedgerContract, its liveness apart: every
\* step of submit_event, AccountClient._call and apply_transaction, every lost
\* exchange and every restart is a step the contract allows or is not seen.
THEOREM ContractKeptSafely ==
    ASSUME EventsSurvive, LedgerSurvives
    PROVE  Spec => Contract!Safety
<1>1. Init => Contract!Init
  <2> SUFFICES ASSUME Init PROVE Contract!Init
    OBVIOUS
  <2>1. AppliedBy = [e \in EventIds |-> {}] /\ RecordedBy = [e \in EventIds |-> {}]
    BY DEF Init, AccountInit, GatewayInit, AppliedBy, RecordedBy
  <2>2. Answers = [r \in Requests |-> "unsent"]
    BY AnswerOf DEF Init, GatewayInit, Answers, Outcomes
  <2> QED
    BY <2>1, <2>2 DEF Contract!Init
<1>2. Inv /\ Idle /\ [Next]_vars => [Contract!Next]_(Contract!vars)
  <2> SUFFICES ASSUME Inv, Idle, [Next]_vars PROVE [Contract!Next]_(Contract!vars)
    OBVIOUS
  <2>1. CASE UNCHANGED vars
    BY <2>1, TablesKept DEF vars, Answers, Answered, Status, Contract!vars
  <2> QED
    BY <2>1, GatewayStepImplements, AccountStepImplements, RestartImplements DEF Next
<1> QED
  BY <1>1, <1>2, Invariance, NothingBeforeSubmission, PTL DEF Spec, Contract!Safety
=============================================================================
