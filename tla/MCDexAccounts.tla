--------------------------- MODULE MCDexAccounts ---------------------------
(***************************************************************************)
(* Two traders, one asset, three stored orders, two seconds, and an int64_t *)
(* so small that the value of the largest order wraps around.               *)
(***************************************************************************)
EXTENDS DexAccounts, TLC

CONSTANTS
    alice, bob, grda,
    MaxWrapped  \* bound on a balance once the value of an order has wrapped

MCInitAsset == [a \in Asset |-> (alice :> 3) @@ (bob :> 0)]
MCInitGrd == (alice :> 0) @@ (bob :> 3)

\* Orders of a wrapped value can create satoshi without end: from then on the
\* balances and what crosses the border of the ledger are bounded.
MCNext ==
    /\ ANext
    /\ ~ Exact' => /\ netGrd' \in 0..1
                   /\ \A x \in Address : grdBal'[x] \in -MaxWrapped .. MaxWrapped
MCSpec == AInit /\ [][MCNext]_avars
=============================================================================
