----------------------------- MODULE EventLedger -----------------------------
(***************************************************************************)
(* The whole write path of the event ledger: Gateway and Account Service   *)
(* side by side, an unreliable network between them, and crashes of either *)
(* process.                                                                *)
(*                                                                         *)
(* A submission is applied downstream before the Gateway records it.  The  *)
(* Gateway's attempts time out, are lost or are repeated while their       *)
(* handlers go on, and several requests may carry the same eventId.        *)
(***************************************************************************)
EXTENDS AccountService, Gateway

CONSTANTS
    LedgerSurvives,  \* ACCOUNT_DB_PATH names a file, not ":memory:"
    EventsSurvive,   \* GATEWAY_DB_PATH names a file, not ":memory:"
    MaxCrashes       \* bound on the crashes of a behaviour

ASSUME LedgerAssumption ==
    /\ LedgerSurvives \in BOOLEAN
    /\ EventsSurvive \in BOOLEAN
    /\ MaxCrashes \in Nat

VARIABLE crashes  \* the number of crashes so far

vars == <<accountVars, gatewayVars, conn, crashes>>

Init ==
    /\ ConnInit
    /\ AccountInit
    /\ GatewayInit
    /\ crashes = 0

-----------------------------------------------------------------------------
GatewayStep(r) ==
    /\ Submit(r) \/ RejectEvent(r) \/ SubmitEvent(r)
    /\ UNCHANGED <<accountVars, crashes>>

AccountStep(a) ==
    /\ ApplyTransaction(a)
    /\ UNCHANGED <<gatewayVars, crashes>>

\* A request that never reaches the Account Service.  (A response that never
\* reaches the Gateway is a GiveUp.)
Lose(a) ==
    /\ conn[a] = "sent"
    /\ MoveTo(a, "lost")
    /\ UNCHANGED <<accountVars, gatewayVars, crashes>>

\* The Account Service stops and starts again: its handlers are gone, and so is
\* a database kept in memory.
AccountRestart ==
    /\ crashes < MaxCrashes
    /\ crashes' = crashes + 1
    /\ conn' = [a \in Attempts |-> IF conn[a] \in Handling THEN "lost" ELSE conn[a]]
    /\ txs' = IF LedgerSurvives THEN txs ELSE {}
    /\ txAudit' = IF LedgerSurvives THEN txAudit ELSE [a \in Attempts |-> "none"]
    /\ UNCHANGED gatewayVars

\* The Gateway stops and starts again: its threads are gone, and the rows it had
\* not saved; the handlers of their exchanges are not.
GatewayRestart ==
    /\ crashes < MaxCrashes
    /\ crashes' = crashes + 1
    /\ pc' = [r \in Requests |-> IF pc[r] \in Running THEN "down" ELSE pc[r]]
    /\ IF EventsSurvive
       THEN Rollback
       ELSE Commit({}, [r \in Requests |-> "none"])
    /\ UNCHANGED <<outcome, attempt, accountVars, conn>>

Next ==
    \/ \E r \in Requests : GatewayStep(r)
    \/ \E a \in Attempts : AccountStep(a) \/ Lose(a)
    \/ AccountRestart
    \/ GatewayRestart

Spec == Init /\ [][Next]_vars

\* Only the Gateway's own threads are scheduled fairly, and GiveUp is one of
\* their steps: ACCOUNT_TIMEOUT_SECONDS bounds every wait.  An exception may come
\* but is not counted on.  Nothing is asked of the network or of the Account
\* Service, and no client has to submit.
FairSpec ==
    /\ Spec
    /\ \A r \in Requests : WF_vars(Proceed(r) /\ UNCHANGED <<accountVars, crashes>>)

-----------------------------------------------------------------------------
(* Properties.                                                             *)

TypeOK ==
    /\ conn \in [Attempts -> ConnStates]
    /\ AccountTypeOK
    /\ GatewayTypeOK
    /\ crashes \in 0 .. MaxCrashes

\* An eventId is applied to the ledger once and recorded by the Gateway once,
\* over all retries, resubmissions, late handlers and restarts: "a replay ...
\* never double-counts".
AppliedOnce ==
    /\ \A t, u \in txs : t.event = u.event => t = u
    /\ \A v, w \in events : v.event = w.event => v = w

\* Apply-then-persist: as long as the ledger survives its restarts, the Gateway
\* holds no record of an event that the ledger does not hold.
RecordedWasApplied ==
    LedgerSurvives => \A v \in events : HasTx(v.event)

\* An answer tells the truth about the Gateway's record: a 201 goes to the one
\* request whose record it is, and the record is saved; a 200 goes to others with
\* the same eventId, and a 400 or a 503 to a request that has left no record.  Of
\* a 500 nothing can be said: it may come after the request's own insert.
AnsweredTruthfully ==
    EventsSurvive =>
        \A r \in Requests : pc[r] = "answered" =>
            LET mine == [event |-> EventOf[r], by |-> r]
            IN  /\ Status(r) = 201 => mine \in events /\ EventRow(r) \notin open
                /\ mine \in events => Status(r) \in {201, 500}
                /\ Status(r) = 200 /\ failures = 0 => HasEvent(EventOf[r])

RowsOf(table, e) == {t \in table : t.event = e}

\* What a client was told stays as it was: after a 201 or a 200 no late handler,
\* resubmission or restart touches the transaction or the record of its event,
\* in a database that is a file; so the second answer of an eventId speaks of
\* what the first one did.  The record behind a 200 may be an open row if a
\* commit has failed; the transaction is in the ledger all the same.
AcknowledgedIsFinal ==
    [][\A r \in Requests :
         pc[r] = "answered" /\ Status(r) \in {200, 201} =>
           /\ LedgerSurvives => RowsOf(txs', EventOf[r]) = RowsOf(txs, EventOf[r])
           /\ EventsSurvive /\ (Status(r) = 201 \/ failures = 0) =>
                RowsOf(events', EventOf[r]) = RowsOf(events, EventOf[r])]_vars

\* An audit row never outlives or precedes what it reports: ACCEPTED and APPLIED
\* belong to the request and the attempt that created the row, DUPLICATE to one
\* that found it.  Commits of the Gateway that fail do not put an ACCEPTED row
\* ahead of its data; a DUPLICATE may have been found among rows dropped since.
AuditTruthful ==
    /\ \A r \in Requests :
        /\ eventAudit[r] = "ACCEPTED" =>
             [event |-> EventOf[r], by |-> r] \in events /\ EventRow(r) \notin open
        /\ eventAudit[r] = "DUPLICATE" /\ failures = 0 => HasEvent(EventOf[r])
    /\ \A a \in Attempts :
        /\ txAudit[a] = "APPLIED" => [event |-> EventOf[a[1]], by |-> a] \in txs
        /\ txAudit[a] = "DUPLICATE" => HasTx(EventOf[a[1]])

\* A thread that lost an insert race finds the winner's row when it looks again,
\* so neither handler fails on a missing one before a commit has failed.
LoserFindsWinner ==
    /\ failures = 0 => \A r \in Requests : pc[r] = "rereading" => HasEvent(EventOf[r])
    /\ \A a \in Attempts : conn[a] = "rereading" => HasTx(EventOf[a[1]])

\* "a slow Account Service can never make a Gateway request hang indefinitely":
\* every submission is answered unless its Gateway process dies.
EveryRequestAnswered ==
    \A r \in Requests : pc[r] = "lookup" ~> pc[r] \in {"answered", "down"}

\* "Please retry; this request was not recorded" (gateway/main.py, lines
\* 135-136): what a 503 says of the request holds of the ledger, too.
UnavailableMeansNotApplied ==
    \A r \in Requests :
        pc[r] = "answered" /\ Status(r) = 503 => ~\E t \in txs : t.by[1] = r

\* "this avoids recording an event the ledger never applied" (README.md, lines
\* 280-281): an event that was accepted is in the ledger with the same body.
AcceptedAsApplied ==
    \A r \in Requests : pc[r] = "answered" /\ Status(r) = 201 =>
        \E t \in txs : t.event = EventOf[r] /\ BodyOf[t.by[1]] = BodyOf[r]

-----------------------------------------------------------------------------
(* The write path implements LedgerContract.                               *)

Concluding == {"auditing", "answering"}

Answered(r) ==
    CASE pc[r] = "unsent"   -> "unsent"
      [] pc[r] \in Running  ->
            IF pc[r] \in Concluding /\ Status(r) = 200 THEN "matched" ELSE "pending"
      [] pc[r] = "down"     -> "lost"
      [] pc[r] = "answered" ->
            CASE Status(r) = 201 -> "created"
              [] Status(r) = 200 -> "duplicate"
              [] Status(r) = 500 -> "failed"
              [] OTHER           -> "refused"

AppliedBy == [e \in EventIds |-> {t.by : t \in {u \in txs : u.event = e}}]
RecordedBy == [e \in EventIds |-> {v.by : v \in {w \in events : w.event = e}}]
Answers == [r \in Requests |-> Answered(r)]

Contract == INSTANCE LedgerContract WITH
    Tries <- 1 .. MaxAttempts, MayVanish <- MaxFailures > 0,
    applied <- AppliedBy, recorded <- RecordedBy, answer <- Answers

\* Every behaviour keeps the promise, its liveness included.
ContractKept == Contract!Spec
=============================================================================
