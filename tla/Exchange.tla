------------------------------ MODULE Exchange ------------------------------
(***************************************************************************)
(* What the Event Gateway and the Account Service share: the submissions   *)
(* that clients send to POST /events and, for each of them, the HTTP       *)
(* exchanges POST /accounts/{id}/transactions that the Gateway's client    *)
(* opens, one per attempt (gateway/account_client.py, _call).              *)
(***************************************************************************)
EXTENDS Naturals

CONSTANTS
    Requests,        \* client submissions; a resubmission is another request
    EventIds,        \* the eventIds they carry
    EventOf,         \* the eventId of each request
    BodyOf,          \* everything else the request says: account, amount, ...
    RejectedBodies,  \* bodies the Account Service answers with a 4xx
    MaxAttempts      \* ACCOUNT_MAX_RETRIES + 1

ASSUME ExchangeAssumption ==
    /\ EventOf \in [Requests -> EventIds]
    /\ MaxAttempts \in Nat \ {0}

\* The n-th attempt of request r.
Attempts == Requests \X (1 .. MaxAttempts)

VARIABLE
    conn  \* how far each attempt's exchange has come

\* A handler of the Account Service runs while its exchange is "sent" (not yet
\* looked up), "inserting", "rereading", "applied" or "duplicate" (about to be
\* audited).  The exchange ends with a 2xx, 4xx or 5xx response, or is "lost".
Handling  == {"sent", "inserting", "rereading", "applied", "duplicate"}
Responses == {"2xx", "4xx", "5xx"}
ConnStates == {"unused", "lost"} \cup Handling \cup Responses

ConnInit == conn = [a \in Attempts |-> "unused"]
=============================================================================
