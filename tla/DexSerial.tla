----------------------------- MODULE DexSerial -----------------------------
(***************************************************************************)
(* DexRpc shown to implement DexEscrow: base remembers the database as it   *)
(* was when no handler was between two accesses, so a handler takes effect  *)
(* in the abstract specification with its last access.                      *)
(***************************************************************************)
EXTENDS DexRpc

VARIABLE base   \* history: the database at the last quiet state

svars == <<vars, base>>

Database == [assetBal |-> assetBal, grdBal |-> grdBal, orders |-> orders, trades |-> trades]

SInit == Init /\ base = Database
SNext == Next /\ base' = IF Quiet' THEN Database' ELSE base

SSpec == SInit /\ [][SNext]_svars /\ \A w \in Worker : WF_svars(Run(w) /\ SNext)
-----------------------------------------------------------------------------
Promise == INSTANCE DexEscrow WITH
    assetBal <- base.assetBal, grdBal <- base.grdBal,
    orders <- base.orders, trades <- base.trades

\* With one worker and no crash the handlers, split into their accesses, do
\* what DexEscrow promises: each is one atomic step, each iteration of the loop
\* of MatchOrders one trade, and nothing else is ever visible between handlers.
ImplementsEscrow == Promise!Spec
=============================================================================
