# A verification project for the event ledger

TLA+ models of the Event Gateway and the Account Service, TLC configurations that check them on
small instances, and TLAPS proofs of the properties that matter most for every instance. Paths such as
`gateway/main.py` are relative to the repository root.

## The system

Clients `POST /events` to the **Gateway**, which keeps every accepted event in its own SQLite table. Before
it records an event it applies it to the ledger of the **Account Service** over HTTP
(`POST /accounts/{id}/transactions`). Both endpoints are synchronous functions, so each request runs in a
thread of its own; each database is one SQLite connection behind one lock; nothing else is shared between
the two processes.

| Component | State | Operations | Hard part | What makes it correct |
|---|---|---|---|---|
| Circuit breaker (`gateway/circuit_breaker.py`) | state, three counters, time of the last trip | `allow_request`, `record_success`, `record_failure` under one lock | an outcome is reported long after the admission, possibly several transitions later | trials stay within their slots, an open breaker is left only through a trial, and it recovers |
| Account client (`gateway/account_client.py`) | injected fault, the breaker | `_call`: admission, attempts with timeouts, backoff, report | retries of attempts whose handlers are still running; exceptions outside the caught ones | attempts are bounded, each admitted call is reported once |
| Gateway write path (`gateway/main.py`, `submit_event`) | thread position; table `events` | lookup, apply downstream, insert, second lookup, audit, answer | races of one eventId, crashes between apply and insert, commits and answers that fail after the insert | one record per eventId, none before the ledger holds it, truthful answers |
| Account write path (`account_service/main.py`, `apply_transaction`) | thread position; table `transactions` | lookup, insert, second lookup, audit, answer | two handlers between lookup and insert; late and repeated requests | one transaction per eventId |
| Databases (`gateway/db.py`, `account_service/db.py`) | one connection each | insert with rollback on `IntegrityError`, lookups, listings, `balance` | pending rows on a shared connection; text order of timestamps; two reads of one answer | listings in time order, balance equal to the sum |
| Models (`gateway/models.py`, `account_service/models.py`) | none | validation, canonical amounts | rounding of `Decimal` | amounts survive the way to the balance |
| Audit trail (`common/audit.py`) | table `audit_log` of each service | `record` swallows failures of its sink | a second transaction after the data row | no row claims what did not happen |
| Metrics, middleware (`common/metrics.py`, `common/middleware.py`) | counters, histogram | `__call__`, `inc`, `observe`, `expose`, `snapshot` | exceptions that pass before their answer exists; two reads of one report; buckets | every request counted as it was answered, buckets at most the count |
| Tracing, error handler (`common/tracing.py`, `common/errors.py`) | the trace context of each request | `start_span`, `reset_context`, `outbound_headers`, the handler of unhandled exceptions | the handler runs after the context was reset | one trace id for all a request did, and its caller is told it |
| Logging, web console, build files, tests, reports | | | | not modelled |

## Modules

| Module | What it is |
|---|---|
| `CircuitBreaker` | the breaker and the calls that use it, whatever happens inside them |
| `AccountClient` | the retry loop of `_call` with the injected fault; implements `CircuitBreaker` |
| `Exchange` | requests, attempts and the state of each attempt's HTTP exchange: what the two services share |
| `AccountService` | `apply_transaction` over its table |
| `Gateway` | `submit_event` and the refusal of invalid events over its one SQLite connection, whose commits may fail, with the attempts of `AccountClient._call` |
| `EventLedger` | the two side by side with a lossy network and restarts; all properties of the write path |
| `LedgerContract` | the promise: apply once, record once and never before applying, answer truthfully; what a failed request has left behind is open |
| `Listing` | operators only: rows in the order of their timestamps' text, sums of `Decimal` |
| `AccountStore` | handlers and queries of one account over one SQLite connection whose commits may fail; uses `Listing`; implements `AccountService` until a commit fails |
| `Observability` | middleware, trace contexts, counters and the handler of unhandled exceptions in both services |
| `CircuitBreakerProofs`, `AccountClientProofs`, `EventLedgerProofs`, `EventLedgerRefinement`, `ListingProofs`, `AccountStoreProofs`, `ObservabilityProofs` | theorems |
| `MC...` | constants for TLC |

### State and code

*CircuitBreaker.* `state`, `failures`, `successes` and `halfOpenCalls` are the fields of the class; `age` is
`_clock() - _opened_at` in ticks, counted no further than `RecoveryTimeout`, where the code compares it. One
method call is one action, because every method holds the lock throughout. `role` is not in the code: it
remembers for each call in flight whether it was admitted in the present CLOSED period, is a trial of the
present HALF_OPEN period, or is *stale*, from before the latest transition. The breaker treats them alike, which is
what several properties are about. `Escape` is an exception that `_call` does not catch.

*Exchange, AccountService, Gateway, EventLedger.* A row of a table is its eventId and whose insert created it, so the
tables are sets of rows and a missing primary key would show as a second row. `conn[<<r, n>>]` follows the n-th
attempt of request r from "sent" through the steps of its handler to its response; `pc[r]` follows the thread of
`submit_event`. Every critical section of a database lock is one action; between any two of them the other
threads may run. The Gateway may give up on an exchange at any time (`GiveUp`) while its handler goes on. The backoff
before a retry is part of the time the next exchange may stay "sent". The breaker's
refusals may come at any call here. A fault injected through `/test/fault` looks like a lost exchange. An event that fails
validation (`RejectEvent`) is audited and answered 400 without a lookup. Restarts lose all
threads of the process, its rows that are not saved and, unless the database is a file, its tables.

The Gateway's data and audit rows go through one connection. `insert_event` rolls back on `IntegrityError` only, so a commit that
fails for another reason (`CommitFails`) may leave its row in the open transaction: `events` and `eventAudit` are the tables as a SELECT sees
them, and `open` says which of their rows are not saved. Any later commit saves them, any rollback drops them. `failures` counts such commits, for the
bound and for the properties that hold until the first. A submission whose outcome is settled is "answering" until the answer has been built. Before that, and
also after the insert and its audit row, an exception turns it into a 500 (`SubmitFails`): metadata with a lone surrogate passes
validation and `json.dumps`, and fails when the answer is encoded. A 500 therefore says nothing of the record.

Amounts, accounts, currencies and timestamps are the *body* of a request, a value that is only compared. In the Account Service of `EventLedger` a commit that
fails otherwise than by the primary key is taken to have no effect; `AccountStore` is about those that fail half-way there, and its
property `ServiceKept` says that as long as none has, `AccountService` describes the connection.

*AccountClient.* Holds the breaker as an instance of `CircuitBreaker`, each of whose actions happens inside one of the client's.
`pc` is the place of each thread in the loop: before the first read of `_fault`, between the two, waiting for a real
response, or about to report a failure. `SetFault` may happen at any time, since it takes no lock. Durations of timeouts and
backoff are left out; that they end is fairness.

*AccountStore.* `durable` are the committed rows, `pending` those of the transaction open on the connection: every SELECT sees
both, any commit makes all of them durable, any rollback drops all pending ones. `CommitFails` leaves the choice SQLite has: the
row not written, left pending, or everything rolled back. Audit rows go through the same connection, so their commit may save another
thread's transaction. A query reads twice, for the count and for the balance (`listed`, `summed`). Amounts are integers in units
of the smallest amount, rounded as `decimal` does to `Precision` digits; timestamps are a wall clock reading and an offset.
`ConnOf`, `Txs` and `TxAudits` map this state to that of `AccountService`, each handler being the only attempt of a request of its own.
The first row's currency, the account and the event's metadata are left out; one account is enough, because no
query reads rows of another.

*Observability.* Each request to either service passes through `stage`s: handling, answered or raised, counted, observed, and
(without an answer) the handler of unhandled exceptions, which is installed outside the middleware. The event loop of a
service runs one `finally` block at a time (`loop`), since it has no await; handlers run in threads, among
them the health report, which sees the counters between any two updates. Ids are named after the request that drew them, so
that random ids do not collide; `current` is the context variable as the request's own task sees it; `saved` is what the token
of `set_context` restores. That the restored value is the same context, and not the one of before the request, is because
`start_span` has set it first: the mutant `SetByStartSpanNot` removes that, and the trace id of every 500 is gone. Such a 500 has the id in
its body and no `x-trace-id` header, and `echoed` stands for whichever of the two an answer has. Each request has a context of its own by construction, so the
module says nothing on mixing them up; a call that arrives after its caller gave up on it is left out.

## Runs

| Run | Instance | Shows |
|---|---|---|
| `breaker` | 4 calls, thresholds 2, 2 slots, cooldown 2 | trial slots, thresholds, open left only by a trial, cooldown ends, HALF_OPEN resolves, recovery |
| `breaker_escape` | 3 calls, 1 slot, success threshold 1 (the defaults) | **violation**: a trial that ends in an uncaught exception leaves the breaker HALF_OPEN for ever |
| `breaker_stale` | the same, no exceptions | **violation**: a late success from before the trip closes the breaker in place of the trial |
| `ledger` | 2 requests with one eventId and different bodies, 2 attempts each, 2 restarts, 1 failing commit of the Gateway, databases on disk | safety of the write path; what a 201 or 200 spoke of is never touched again |
| `ledger_contract` | 2 requests with one eventId, one rejected downstream, 2 attempts each, 1 failing commit, no restart | every submission is answered; the write path implements `LedgerContract`, its liveness included |
| `ledger_unavailable` | 2 requests, 2 attempts, no restart, no failing commit | **violation**: a request answered 503 ("this request was not recorded") is in the ledger |
| `ledger_bodies` | the same | **violation**: a request is answered 201 for a body that the ledger never applied |
| `client` | 3 threads, 2 attempts, thresholds 2 and 1, 1 slot | attempts bounded, `AccountClient` implements `CircuitBreaker` with its fairness, a lasting fault opens the breaker, a recovered service closes it |
| `store` | 4 handlers, 3 events, 1 query, 2 failing commits, 1 restart, 2 digits | one row per event, acknowledged is durable, no audit row ahead of its data, answers current, listings in order (all in UTC), balance exact up to rounding, `AccountService` implemented until a commit fails |
| `listing_zones` | the same with one timestamp of another offset | **violation**: a listing is not in the order of time |
| `observability` | 2 requests of clients, 1 call between the services, 1 bucket, 1 report | trace ids echoed and joined, requests counted as answered, reports off by what went by at most |
| `histogram` | the same, 2 buckets | **violation**: exposed buckets exceed the count |

**Bounds.** Four calls are enough for a trip to leave two stale calls running, so that they can trip the breaker
again in OPEN, meet a HALF_OPEN period, and still leave a call for each of two trials. Two requests with two
attempts make four handlers that can race for one row, two of them of one request; they are interchangeable together with their bodies, hence the
symmetry of `ledger`. One failing commit is enough for a row to be left open, taken for a duplicate, and saved or dropped by another thread; a rollback in a race and a
restart after it are in `ledger`. `ledger_contract` has the retries and their timeouts, a failing commit and a rejected request, without restarts and races of the
Gateway's inserts, which would not fit its time together with the liveness; that these, too, are steps of the contract is proved (`ContractKeptSafely`). A second eventId would not interact with the first: no operation reads rows
of another. Two restarts allow one of each process or two of one. Three threads in the client leave two stale calls beside a
trial. In the store two of the four handlers race for one event while two others commit, fail and roll back around them; two failures are needed for a row
to be left pending and its rescue to fail as well; with two digits the first two amounts add up exactly and all three do not.
One call and one concurrent request are enough for the observability of both services to overlap; a further report would read the same
counters later. `MaxDigits` only bounds the loop that finds the last digit kept of a sum: it is the number of digits beyond the precision that the loop can tell.

**Fairness.** *Breaker*: time passes; an admitted call ends, since attempts are counted and each has a timeout;
clients keep sending requests (without demand nothing ever asks the breaker, which has no thread of its own).
`Recovers` assumes in its own premise that failures stop. *Ledger*: only the Gateway's threads are fair, and
giving up is one of their steps (an exception, `SubmitFails`, is never counted on, and a commit that fails still ends its step). The network and the Account Service may stop at any point; no client has to submit.
*Client*: time passes, clients keep sending requests, a thread that is not waiting runs on, and a wait ends at its timeout
(`Unanswered` is one of the fair steps; `Respond` is not). `FaultOpensBreaker` assumes that the injected fault stays the same one,
`ServiceRestored` that the fault is cleared and every real request is answered, be it with a 4xx; both rest on trials that do not
escape, as in `breaker`. *Store* and *observability* have no liveness to speak of.
Runs of the ledger, the store and the observability do not check for deadlock: a behaviour ends when every request is answered.

## Findings

1. **A breaker stuck in HALF_OPEN** (`breaker_escape`). `_call` catches `TimeoutException` and `TransportError`. Another
   exception during a trial (for instance an account id that cannot be part of a URL) leaves the slot taken; HALF_OPEN
   has no timeout; with the default of one slot every later call is refused until the Gateway restarts.
2. **Stale outcomes decide a HALF_OPEN period** (`breaker_stale`). A call admitted before the trip that outlives
   the cooldown is counted as a trial. With the default cooldown of 10 s this takes a call slower than usual: the
   timeout of 2 s holds for each phase of an attempt, not for the whole.
3. **503 "was not recorded" of an applied request** (`ledger_unavailable`). The balance already contains it. Resubmission
   is the remedy, and `AppliedOnce` shows that it is safe.
4. **Accepted with a body that was never applied** (`ledger_bodies`). The Gateway does not look at the transaction the Account Service
   returns for a duplicate; it records its own body and answers 201. The ledger holds the other submission's. The order of the two steps "avoids recording
   an event the ledger never applied" (`README.md`), for eventIds, not for what they stand for.
5. **Listings follow the text of timestamps** (`listing_zones`). Timestamps are stored with the client's offset and sorted as
   text, so 12:00+02:00 comes after 11:00+00:00, an hour later. The ten recent transactions may miss the latest.
6. **Histogram buckets are cumulated twice** (`histogram`): once in `observe`, once in `expose`. One fast request shows as up to ten.

Remarks that are no findings. The loser of the Gateway's insert race is answered 200 without an audit row (`gateway/main.py`, lines 164-168), though
`common/audit.py` names "a duplicate rejected" among what is recorded; `AuditTruthful` speaks of the rows that are there. The repository's `README.md` calls balances exact and
independent of order without the limit of 28 digits that `BalanceExact` states; within its bound two orders may differ, and the property would not tell.
When a commit of the Account Service fails and leaves its row pending, a second request may be answered
200 on sight of that row, which another thread's rollback may then drop; the Gateway would record an event that the ledger has lost. `AcknowledgedStays`
says so by limiting what it claims of a 200 to runs of the store without failed commits. `RecordedWasApplied` rests on commits of the Account Service that
fail without a trace. In the Gateway the same happens in the small: a 200 given on sight of an open row may outlive it, and the loser of a race may find that its own
rollback has dropped the row it lost to (a 500: `None` has no `to_response`). Hence the premise `failures = 0` where a property speaks of a 200.

## Proofs

Every property of a passing run that is not about liveness is stated by a theorem, for all values of the constants.

`CircuitBreakerProofs`: `TypeOK`, `TrialsBounded` and `NoOverdueTransition` are inductive together, for any finite set
of calls, positive thresholds and any cooldown; and calls may end without a report in any role. The action property
`OpenLeftOnlyByTrial` follows from the types alone.

`AccountClientProofs`: `TypeOK` is inductive, because every path out of the loop reports or escapes in the same step in which the
thread leaves. Every step of the client is then a step of `CircuitBreaker` or none, so the client implements it. The module takes the
lemmas of `CircuitBreakerProofs` as an instance and concludes that what they say of the breaker holds of the breaker inside the client
(`BreakerStaysWithinBounds`, `ClientLeavesOpenOnlyByTrial`); assumed is what `CircuitBreaker` assumes of its parameters.

`EventLedgerProofs`: the properties are not inductive by themselves. That a recorded event was applied is known from
the 2xx its thread received; that the 2xx was right is known from the handler that inserted the row or found one. `Inv` states this
chain: `HandlerOK` (what the position of a handler says of the ledger), `SubmissionOK` (what the position
of a thread says of the record, and whether its row is saved) and `ChainInv` (what a 2xx proves). What a failing commit can do is in one lemma, `WritesKeep`: rows
that are saved stay, and until a commit fails nothing is open. The answers need the row behind an ACCEPTED to be saved (`Saved`), not only visible: an open one could still be dropped.
The clauses about duplicates hold until a commit fails. `ChainInv` needs the ledger to survive
restarts, and the theorem on recorded events says so; the others hold for databases in memory as well, because a
restart takes away the threads that relied on the lost rows. The assumptions are those in the modules: `EventOf` maps requests to
eventIds, at least one attempt, Boolean durability, bounds that are natural numbers. That an acknowledged event is final (`AcknowledgedForGood`) needs one thing more: the
Gateway may lose its record of it while the ledger keeps the transaction, so that an acknowledged event is in the ledger cannot be read off the
record and is an invariant of its own, `AcknowledgedInv`.

`EventLedgerRefinement`: if both databases are files, every behaviour is one of `LedgerContract!Safety`, under the same mapping as
`ContractKept`. Each step is shown to be a step of the contract or to change nothing it sees; the invariant
of `EventLedgerProofs` supplies the truth of answers, and `Idle` (no exchange before the submission) that what is applied was asked for. A rollback that drops open rows is
the contract's `Vanish`, which it allows only where commits may fail (`MayVanish`) and only for requests that were not told "created"; so no row behind a 201 is ever open
(`OpenRowsVanish`). A 500 is `Fail`, on which the contract is silent. With a database in memory the statement is false: what was told to be created is never forgotten.

`AccountStoreProofs`: what the properties say of finished handlers follows from what a handler knows before it writes its audit row:
applied means durable, and nothing is pending before a commit has failed. What they say of answers needs more: a row that a query has
seen and that a rollback has dropped does not come back, since a handler inserts at most once (`SeenIsPastInsert`); so what is durable when the query
ends and was counted at its beginning was there all the time. Handlers are a finite set, and a body has a positive amount, a type and a
timestamp (`BodyAssumption`: what the validators let through); nothing else is assumed of them.
`StoreImplementsService` is the step from one connection to two tables: until a commit fails the pending rows are empty, a lost race
has run into a durable row (`NothingVanishes`), and each step of a handler is the step of `AccountService` of the same name.

`ListingProofs`: the lemmas about `Listing`. A balance is a loop over a listing of any length, a recursive function, and none of the
installed provers can take the induction theorems of the library, which have an operator as a parameter. The lemmas go by the least counterexample
instead: the set of the rounds at which the claim fails, if not empty, has a least element (`LeastNumber`, from the well-foundedness of < on
the naturals); that is not round 0, and the round before it leads to a contradiction. In this way a loop has a value in each round
(`LoopExists`), a rounding is off by at most half a unit of the last digit kept (`RoundingError`), and the errors of a loop add up
(`AccumulatedError`). `BalancesExact` follows for the store. Where nothing is rounded, the bound is zero and the balance is the sum (`ExactWhenItFits`).
`ChronologicalInOneZone` is about stores whose timestamps all have one UTC offset. It needs this hypothesis: `listing_zones` is a counterexample without it.

`ObservabilityProofs`: `TraceInv` says that the context a request arrived with, the one its handler sees and the one the
reset restores are the same, that its span is its own, and that a call has its caller's trace. The counters play no part in
it; they have an invariant of their own, `CountInv`: what the middleware knows of a response when it counts it is what the caller is told, also when
the answer is built later, and each counter is the number of requests that have passed it. `MeterInv` adds what a report has read: at most one request per service is
between two updates of the counters (the event loop runs its `finally` block without an await), and what a report has read so far is
behind the counters by what went by since. `ReportsStayClose` is its consequence. Assumed is that ids do not collide, that the requests
are a finite set, and that none of them has the name of the idle event loop.

Only model-checked: what needs fairness (`CooldownEnds`, `HalfOpenResolves`, `Recovers`,
`EveryRequestAnswered`, `FaultOpensBreaker`, `ServiceRestored`, and the liveness of `ContractKept` and `BreakerKept`), since the
installed provers know neither fairness nor ENABLED.

## Plan

Modelled, in the order in which it was built: the breaker; the write path with its contract; its refinement; the client; the store with its listings and
balances; the observability of both services. What is left:

1. Theorems on `LedgerContract` itself (one record per event, answers never revoked), to be had by the write path through `ContractKeptSafely`.
2. The breaker inside `EventLedger` instead of refusals at any time, to relate its state to the answers of the write path.
3. The connection of `AccountStore` inside `EventLedger`, with the remark on the Account Service's failing commits followed through to the Gateway's record.
4. A run with `CB_SUCCESS_THRESHOLD` above `CB_HALF_OPEN_MAX_CALLS`.

## Not modelled

Structured logging (formatting only), the web console (a page that calls the endpoints), the field validators of the request
models (pure checks; their refusals are `RejectEvent` and `RejectTransaction`), `GET /audit` and `GET /events/{id}` (plain reads), the database
checks of the health endpoints, currencies of a balance (per-account currency is listed as future work in `docs/DESIGN.md`), the
durations behind timeouts and backoff, and build files, tests and reports.
