--------------------------- MODULE AccountService ---------------------------
(***************************************************************************)
(* The Account Service's write path: apply_transaction in                  *)
(* account_service/main.py over the table of account_service/db.py.        *)
(*                                                                         *)
(* The endpoint is a synchronous function, so every request has a thread   *)
(* of its own, and each access to the database is one critical section     *)
(* under AccountDB._lock: the lookup, the insert, the second lookup of an  *)
(* insert that lost its race, and the audit row are separate steps.        *)
(***************************************************************************)
EXTENDS Exchange

VARIABLES
    txs,      \* rows of the table transactions: the event, and the attempt
              \* whose insert created the row
    txAudit   \* the outcome each attempt left in the audit_log, or "none"

accountVars == <<txs, txAudit>>

TxRows == [event : EventIds, by : Attempts]
TxOutcomes == {"none", "APPLIED", "DUPLICATE"}

HasTx(e) == \E t \in txs : t.event = e

AccountInit ==
    /\ txs = {}
    /\ txAudit = [a \in Attempts |-> "none"]

AccountTypeOK ==
    /\ txs \subseteq TxRows
    /\ txAudit \in [Attempts -> TxOutcomes]

-----------------------------------------------------------------------------
MoveTo(a, s) == conn' = [conn EXCEPT ![a] = s]

\* The payload or the path is refused before the handler's body runs.
RejectTransaction(a) ==
    /\ conn[a] = "sent"
    /\ BodyOf[a[1]] \in RejectedBodies
    /\ MoveTo(a, "4xx")
    /\ UNCHANGED accountVars

\* db.get_transaction: an event already applied is answered idempotently.
LookupTransaction(a) ==
    /\ conn[a] = "sent"
    /\ BodyOf[a[1]] \notin RejectedBodies
    /\ \/ HasTx(EventOf[a[1]]) /\ MoveTo(a, "duplicate")
       \/ ~HasTx(EventOf[a[1]]) /\ MoveTo(a, "inserting")
    /\ UNCHANGED accountVars

\* Mutant: INSERT OR REPLACE, or a table without its primary key.
TransactionKeyIgnored(a) == TRUE

\* The primary key on event_id decides what the insert does.
TransactionKeyFree(a) == ~HasTx(EventOf[a[1]])

\* Mutant: any database error is taken for a lost race.
InsertTransactionErrorIsRace(a) ==
    /\ conn[a] = "inserting"
    /\ MoveTo(a, "rereading")
    /\ UNCHANGED accountVars

\* Mutant: INSERT OR REPLACE, so that the last insert wins.
InsertTransactionReplaces(a) ==
    /\ conn[a] = "inserting"
    /\ txs' = {t \in txs : t.event # EventOf[a[1]]} \cup {[event |-> EventOf[a[1]], by |-> a]}
    /\ MoveTo(a, "applied")
    /\ UNCHANGED txAudit

\* db.insert_transaction, under one lock: insert and commit, or roll back.
InsertTransaction(a) ==
    /\ conn[a] = "inserting"
    /\ \/ /\ TransactionKeyFree(a)
          /\ txs' = txs \cup {[event |-> EventOf[a[1]], by |-> a]}
          /\ MoveTo(a, "applied")
       \/ /\ ~TransactionKeyFree(a)
          /\ MoveTo(a, "rereading")
          /\ UNCHANGED txs
    /\ UNCHANGED txAudit

\* The loser of an insert race fetches the winner's row.  Were there none, the
\* handler would audit a DUPLICATE and then fail: None has no to_response.
RereadTransaction(a) ==
    /\ conn[a] = "rereading"
    /\ \/ /\ HasTx(EventOf[a[1]])
          /\ MoveTo(a, "duplicate")
          /\ UNCHANGED txAudit
       \/ /\ ~HasTx(EventOf[a[1]])
          /\ MoveTo(a, "5xx")
          /\ txAudit' \in {txAudit, [txAudit EXCEPT ![a] = "DUPLICATE"]}
    /\ UNCHANGED txs

\* Mutant: the outcome is fixed before the insert has decided it.
TxOutcomeOptimistic(a) == "APPLIED"

TxOutcome(a) == IF conn[a] = "applied" THEN "APPLIED" ELSE "DUPLICATE"

\* AuditTrail.record swallows whatever its sink raises, so the row may be
\* missing; either way the handler answers, 201 or 200.
AuditTransaction(a) ==
    /\ conn[a] \in {"applied", "duplicate"}
    /\ txAudit' \in {txAudit, [txAudit EXCEPT ![a] = TxOutcome(a)]}
    /\ MoveTo(a, "2xx")
    /\ UNCHANGED txs

\* A database error before the insert has taken effect is answered with a 500.
TransactionFails(a) ==
    /\ conn[a] \in {"sent", "inserting", "rereading"}
    /\ MoveTo(a, "5xx")
    /\ UNCHANGED accountVars

ApplyTransaction(a) ==
    \/ RejectTransaction(a)
    \/ LookupTransaction(a)
    \/ InsertTransaction(a)
    \/ RereadTransaction(a)
    \/ AuditTransaction(a)
    \/ TransactionFails(a)
=============================================================================
