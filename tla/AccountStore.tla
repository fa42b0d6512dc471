---------------------------- MODULE AccountStore ----------------------------
(***************************************************************************)
(* The Account Service's database (account_service/db.py, common/audit.py) *)
(* as its handlers see it: one SQLite connection behind one lock.          *)
(*                                                                         *)
(* A statement of any thread joins whatever transaction is open on the     *)
(* connection.  A commit that fails leaves its rows there, visible to all  *)
(* and durable for none, until another thread's commit saves them or       *)
(* another thread's rollback drops them.  AccountService takes commits to  *)
(* succeed; here up to MaxFailures fail.                                   *)
(***************************************************************************)
EXTENDS Listing, FiniteSets

CONSTANTS
    Handlers,     \* executions of apply_transaction, for one account
    EventOf,      \* the eventId each carries
    BodyOf,       \* its type, amount and eventTimestamp
    Queries,      \* executions of get_balance or get_account
    MaxFailures,  \* bound on failing commits
    MaxCrashes    \* bound on restarts

ASSUME StoreAssumption ==
    /\ IsFiniteSet(Handlers)
    /\ MaxFailures \in Nat
    /\ MaxCrashes \in Nat

\* What the models let through: a type, a positive amount and a timestamp.
ASSUME BodyAssumption ==
    BodyOf \in [Handlers -> [type : {"CREDIT", "DEBIT"}, amount : Nat \ {0},
                             time : [local : Int, offset : Int]]]

VARIABLES
    durable,   \* committed rows
    pending,   \* rows of the connection's open transaction
    failed,    \* failing commits so far
    crashes,   \* restarts so far
    pc,        \* where each handler is; a finished one is at its HTTP status
    query,     \* where each query is
    listed,    \* the first listing of each query: transactionCount, currency
    summed,    \* its second listing: the balance
    settled    \* the handlers that had answered 201 when a query began

storeVars == <<durable, pending, failed>>
queryVars == <<query, listed, summed, settled>>
vars == <<storeVars, crashes, pc, queryVars>>

Outcomes == {"APPLIED", "DUPLICATE"}
Rows == [kind : {"tx"} \cup Outcomes, by : Handlers]
Row(kind, h) == [kind |-> kind, by |-> h]

\* What a SELECT on the connection returns.
Visible == durable \cup pending
Transactions(rows) == {r \in rows : r.kind = "tx"}
HasTx(rows, e) == \E r \in Transactions(rows) : EventOf[r.by] = e

TimeOf == [r \in Rows |-> BodyOf[r.by].time]
SignedAmountOf == [r \in Rows |->
    LET amount == Canonical(BodyOf[r.by].amount)
    IN  IF BodyOf[r.by].type = "CREDIT" THEN amount ELSE -amount]

Init ==
    /\ durable = {}
    /\ pending = {}
    /\ failed = 0
    /\ crashes = 0
    /\ pc = [h \in Handlers |-> "new"]
    /\ query = [q \in Queries |-> "new"]
    /\ listed = [q \in Queries |-> <<>>]
    /\ summed = [q \in Queries |-> <<>>]
    /\ settled = [q \in Queries |-> {}]

-----------------------------------------------------------------------------
(* The connection.                                                         *)

\* Mutant: no commit; the rows stay in the open transaction.
CommitForgotten(rows) ==
    /\ pending' = pending \cup rows
    /\ UNCHANGED <<durable, failed>>

\* Mutant: what has been committed is still taken to be pending.
CommitKeepsPending(rows) ==
    /\ durable' = durable \cup pending \cup rows
    /\ pending' = pending \cup rows
    /\ UNCHANGED failed

\* The rows and all that was pending become durable.
Commit(rows) ==
    /\ durable' = durable \cup pending \cup rows
    /\ pending' = {}
    /\ UNCHANGED failed

\* The statement fails, or the commit: SQLITE_BUSY leaves the transaction open,
\* SQLITE_FULL and SQLITE_IOERR may roll all of it back.
CommitFails(rows) ==
    /\ failed < MaxFailures
    /\ failed' = failed + 1
    /\ pending' \in {pending, pending \cup rows, {}}
    /\ UNCHANGED durable

Rollback ==
    /\ pending' = {}
    /\ UNCHANGED <<durable, failed>>

-----------------------------------------------------------------------------
(* apply_transaction.                                                      *)

Goto(h, s) == pc' = [pc EXCEPT ![h] = s]

Lookup(h) ==
    /\ pc[h] = "new"
    /\ Goto(h, IF HasTx(Visible, EventOf[h]) THEN "duplicate" ELSE "inserting")
    /\ UNCHANGED storeVars

\* Mutant: a thread whose own connection does not see the open transaction.
KeyFreeIfDurable(h) == ~HasTx(durable, EventOf[h])

KeyFree(h) == ~HasTx(Visible, EventOf[h])

\* Mutant: the insert reports success whether or not its commit went through.
InsertIgnoresFailure(h) ==
    /\ pc[h] = "inserting"
    /\ \/ KeyFree(h) /\ Commit({Row("tx", h)}) /\ Goto(h, "applied")
       \/ KeyFree(h) /\ CommitFails({Row("tx", h)}) /\ Goto(h, "applied")
       \/ ~KeyFree(h) /\ Rollback /\ Goto(h, "rereading")

\* Mutant: apply_transaction does not look at what insert_transaction returns.
InsertResultIgnored(h) ==
    /\ pc[h] = "inserting"
    /\ \/ KeyFree(h) /\ Commit({Row("tx", h)}) /\ Goto(h, "applied")
       \/ KeyFree(h) /\ CommitFails({Row("tx", h)}) /\ Goto(h, "500")
       \/ ~KeyFree(h) /\ Rollback /\ Goto(h, "applied")

\* Only IntegrityError is caught: any other failure is a 500, with the row left
\* where the failure left it; and a lost race rolls back all that is pending.
Insert(h) ==
    /\ pc[h] = "inserting"
    /\ \/ KeyFree(h) /\ Commit({Row("tx", h)}) /\ Goto(h, "applied")
       \/ KeyFree(h) /\ CommitFails({Row("tx", h)}) /\ Goto(h, "500")
       \/ ~KeyFree(h) /\ Rollback /\ Goto(h, "rereading")

\* The row that the insert ran into may have been the pending one that its own
\* rollback dropped: then there is nothing to return.
Reread(h) ==
    /\ pc[h] = "rereading"
    /\ Goto(h, IF HasTx(Visible, EventOf[h]) THEN "duplicate" ELSE "vanished")
    /\ UNCHANGED storeVars

StatusAfter(s) == CASE s = "applied" -> "201" [] s = "duplicate" -> "200" [] OTHER -> "500"

AuditRow(h) == Row(IF pc[h] = "applied" THEN "APPLIED" ELSE "DUPLICATE", h)

\* The audit row is recorded before the answer is built, also when there is none
\* to build; its failure is swallowed.
Audit(h) ==
    /\ pc[h] \in {"applied", "duplicate", "vanished"}
    /\ Commit({AuditRow(h)}) \/ CommitFails({AuditRow(h)})
    /\ Goto(h, StatusAfter(pc[h]))

Apply(h) ==
    /\ Lookup(h) \/ Insert(h) \/ Reread(h) \/ Audit(h)
    /\ UNCHANGED <<crashes, queryVars>>

-----------------------------------------------------------------------------
(* get_balance and get_account: two listings in two critical sections.     *)

\* Mutant: a LIMIT in the query behind all listings.
ListingsLimited ==
    {SubSeq(s, 1, IF Len(s) < RecentLimit THEN Len(s) ELSE RecentLimit) :
        s \in ListingsOf(Transactions(Visible), TimeOf)}

Listings == ListingsOf(Transactions(Visible), TimeOf)

ListTransactions(q) ==
    /\ query[q] = "new"
    /\ query' = [query EXCEPT ![q] = "listed"]
    /\ \E s \in Listings : listed' = [listed EXCEPT ![q] = s]
    /\ settled' = [settled EXCEPT ![q] = {h \in Handlers : pc[h] = "201"}]
    /\ UNCHANGED <<storeVars, crashes, pc, summed>>

SumBalance(q) ==
    /\ query[q] = "listed"
    /\ query' = [query EXCEPT ![q] = "answered"]
    /\ \E s \in Listings : summed' = [summed EXCEPT ![q] = s]
    /\ UNCHANGED <<storeVars, crashes, pc, listed, settled>>

\* The service stops and starts again on the same file.
Restart ==
    /\ crashes < MaxCrashes
    /\ crashes' = crashes + 1
    /\ pending' = {}
    /\ pc' = [h \in Handlers |-> IF pc[h] \in {"200", "201", "500", "new"} THEN pc[h] ELSE "gone"]
    /\ query' = [q \in Queries |-> IF query[q] = "listed" THEN "gone" ELSE query[q]]
    /\ UNCHANGED <<durable, failed, listed, summed, settled>>

Next ==
    \/ \E h \in Handlers : Apply(h)
    \/ \E q \in Queries : ListTransactions(q) \/ SumBalance(q)
    \/ Restart

Spec == Init /\ [][Next]_vars

-----------------------------------------------------------------------------
(* Properties.                                                             *)

Finished == {"200", "201", "500", "gone"}

TypeOK ==
    /\ durable \subseteq Rows
    /\ pending \subseteq Rows \ durable
    /\ failed \in 0 .. MaxFailures
    /\ crashes \in 0 .. MaxCrashes
    /\ pc \in [Handlers -> {"new", "inserting", "rereading", "applied", "duplicate", "vanished"}
                               \cup Finished]
    /\ query \in [Queries -> {"new", "listed", "answered", "gone"}]
    /\ listed \in [Queries -> Seq(Rows)]
    /\ summed \in [Queries -> Seq(Rows)]
    /\ settled \in [Queries -> SUBSET Handlers]

\* However commits fail and whoever finishes whose transaction, no event is ever
\* in the table twice, not even between two commits.
OneRowPerEvent ==
    \A r, t \in Transactions(Visible) : EventOf[r.by] = EventOf[t.by] => r = t

\* A transaction answered 201 is on disk and stays there, through the rollbacks
\* of other threads and through restarts.  A 200 promises as much only as long as
\* no commit has failed: it may have been given on sight of a pending row.
AcknowledgedStays ==
    \A h \in Handlers :
        /\ pc[h] = "201" => Row("tx", h) \in durable
        /\ pc[h] = "200" /\ failed = 0 => HasTx(durable, EventOf[h])

\* An APPLIED row of the audit trail never runs ahead of the transaction it
\* reports, though both pass through one connection and either commit may fail.
AuditFollowsData ==
    \A h \in Handlers : Row("APPLIED", h) \in Visible => Row("tx", h) \in durable

\* A balance answer is current: what was answered 201 before the query began is
\* counted and added up.  Its two readings may differ, but only one way: a durable
\* transaction that is counted is also in the balance.
AnswersAreCurrent ==
    \A q \in Queries : query[q] = "answered" =>
        /\ \A h \in settled[q] : Row("tx", h) \in ToSet(listed[q]) \cap ToSet(summed[q])
        /\ ToSet(listed[q]) \cap durable \subseteq ToSet(summed[q])

\* "out-of-order arrivals still read back chronologically" (gateway/db.py, lines
\* 6-7): a listing is in the order of time whatever the order of arrival, and
\* the recent transactions are the latest ones, latest first.
Chronological ==
    \A q \in Queries :
        LET At(s, i) == Instant(TimeOf[s[i]])
            s == listed[q]
            recent == RecentOf(s)
        IN  /\ \A i, j \in 1 .. Len(s) : i < j => At(s, i) <= At(s, j)
            /\ \A i, j \in 1 .. Len(recent) : i < j => At(recent, i) >= At(recent, j)
            /\ \A r \in ToSet(s) \ ToSet(recent), i \in 1 .. Len(recent) :
                    Instant(TimeOf[r]) <= At(recent, i)

\* "Balance = sum of CREDIT - sum of DEBIT" (README.md): the balance is exact as
\* long as every amount and every partial sum fits the precision, and beyond it
\* each amount and each addition is off by at most half a unit of the last digit
\* kept.  (The README names no such limit; two orders of arrival may differ
\* within it.)
BalanceExact ==
    \A q \in Queries : query[q] = "answered" =>
        LET s == summed[q]
            exact == [n \in 1 .. Len(s) |->
                LET body == BodyOf[s[n].by]
                IN  IF body.type = "CREDIT" THEN body.amount ELSE -body.amount]
            step(n) == Totals(s, SignedAmountOf)[n - 1] + SignedAmountOf[s[n]]
            error == Total(s, SignedAmountOf) - SumOf(exact, Len(s))
        IN  2 * Magnitude(error)
                <= SumOf([n \in 1 .. Len(s) |-> Slack(step(n)) + Slack(exact[n])], Len(s))

-----------------------------------------------------------------------------
(* Until a commit fails, the handlers behave as AccountService says.       *)

\* Each handler is the only attempt of a request of its own.
ConnOf(s) ==
    CASE s = "new"            -> "sent"
      [] s \in {"200", "201"} -> "2xx"
      [] s = "500"            -> "5xx"
      [] s = "gone"           -> "lost"
      [] OTHER                -> s

Audited(h) ==
    CASE Row("APPLIED", h) \in durable   -> "APPLIED"
      [] Row("DUPLICATE", h) \in durable -> "DUPLICATE"
      [] OTHER                           -> "none"

Conns    == [a \in Handlers \X {1} |-> ConnOf(pc[a[1]])]
Txs      == {[event |-> EventOf[r.by], by |-> <<r.by, 1>>] : r \in Transactions(durable)}
TxAudits == [a \in Handlers \X {1} |-> Audited(a[1])]

Service == INSTANCE AccountService WITH
    Requests <- Handlers, EventIds <- {EventOf[h] : h \in Handlers},
    RejectedBodies <- {}, MaxAttempts <- 1,
    conn <- Conns, txs <- Txs, txAudit <- TxAudits

\* A restart ends what was under way and keeps both tables.
ServiceRestart ==
    /\ \A a \in DOMAIN Conns :
        Conns'[a] # Conns[a] => Conns[a] \in Service!Handling /\ Conns'[a] = "lost"
    /\ UNCHANGED Service!accountVars

\* AccountService takes every commit to succeed and a table for a set of rows.
\* That is what a handler sees of the connection it shares with the others, for
\* as long as no commit has failed.
ServiceKept ==
    [][failed' = 0 =>
         \/ \E h \in Handlers : Service!ApplyTransaction(<<h, 1>>)
         \/ ServiceRestart]_<<Conns, Txs, TxAudits>>
=============================================================================
