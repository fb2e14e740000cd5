------------------------------- MODULE MCP2P -------------------------------
(* An instance of P2POrders: two orders and two tasks at a time. *)
EXTENDS P2POrders

\* With the second order the user clicks once less.
MCNext == Next /\ (2 \in Taken' => clicks' < MaxClicks)
MCSpec == Init /\ [][MCNext]_vars /\ Fairness
=============================================================================
