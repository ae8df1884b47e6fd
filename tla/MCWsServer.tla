----------------------------- MODULE MCWsServer -----------------------------
\* The instance of WsServer that TLC checks.
EXTENDS WsServer, TLC

\* One command that subscribes to the heartbeat and to one of two markets.
MCSubscriptions == {<<{"exchange_status", "market"}, {1}>>}

\* For liveness the heartbeat alone.
MCSubscriptionsLive == {<<{"exchange_status"}, {}>>}

\* Sockets and tasks are interchangeable; used by the safety run only.
Symmetry == Permutations(Clients) \cup Permutations(Tasks)
=============================================================================
