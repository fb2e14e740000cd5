------------------------------ MODULE GrdChain ------------------------------
(***************************************************************************)
(* GRD of L1 addresses as the node reports them to the API: a payment is    *)
(* seen once a block contains it, and the owner of an address may spend     *)
(* what it holds at any time, whatever the API has locked of it.            *)
(***************************************************************************)
EXTENDS Integers

CONSTANTS
    Address,
    Reward      \* what a block pays to the address it is generated for

VARIABLES
    onChain,    \* address -> balance scantxoutset finds
    mempool     \* address -> payments no block contains yet

ASSUME ChainAssumption == Reward \in Nat

chainVars == <<onChain, mempool>>

\* Balances from before the API started may be left out: nothing depends on them.
ChainInit ==
    /\ onChain = [a \in Address |-> 0]
    /\ mempool = [a \in Address |-> 0]

\* sendtoaddress is executed.
Pay(a, amount) ==
    /\ mempool' = [mempool EXCEPT ![a] = @ + amount]
    /\ UNCHANGED onChain

\* generatetoaddress is executed: a block contains every payment, and a reward.
Generate(a) ==
    /\ onChain' = [x \in Address |-> onChain[x] + mempool[x] + IF x = a THEN Reward ELSE 0]
    /\ mempool' = [x \in Address |-> 0]

\* A block somebody else generates.
Block ==
    /\ onChain' = [x \in Address |-> onChain[x] + mempool[x]]
    /\ mempool' = [x \in Address |-> 0]

\* The owner of an address spends.
Spend(a, amount) ==
    /\ onChain[a] >= amount
    /\ onChain' = [onChain EXCEPT ![a] = @ - amount]
    /\ UNCHANGED mempool
=============================================================================
