--------------------------- MODULE MCObservability ---------------------------
\* Two requests of clients to the Gateway, the first of which has the Gateway call
\* the Account Service.
EXTENDS Observability, TLC

CONSTANTS g1, g2, a1

TheRequests == {g1, g2, a1}
TheCallers == (g1 :> Client) @@ (g2 :> Client) @@ (a1 :> g1)
=============================================================================
