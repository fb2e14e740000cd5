----------------------------- MODULE DexEscrow -----------------------------
(***************************************************************************)
(* What the DEX promises: the ledger of asset units and of virtual GRD, the *)
(* order book and the escrow that connects them, with every RPC handler and *)
(* every trade of the matching engine as one indivisible step.  DexRpc      *)
(* splits the same handlers into their database accesses and is compared    *)
(* with this specification; DexAccounts adds the bookkeeping its properties *)
(* are stated with.                                                         *)
(***************************************************************************)
EXTENDS DexOrders

CONSTANTS
    InitAsset,  \* asset balances after issueasset
    InitGrd,    \* virtual GRD balances after earlier deposits
    Deposits,   \* amounts of depositgrd and withdrawgrd
    MaxOrders,  \* bound on the number of stored orders
    MaxGrd,     \* bound on a balance that depositgrd may reach
    MaxTime     \* bound on the clock, in seconds

ASSUME EscrowAssumption ==
    /\ InitAsset \in [Asset -> [Address -> Nat]]
    /\ InitGrd \in [Address -> Nat]
    /\ Deposits \subseteq Nat \ {0}
    /\ MaxOrders \in Nat /\ MaxGrd \in Nat /\ MaxTime \in Nat

VARIABLES
    assetBal,   \* AssetDB balances: asset -> address -> units
    grdBal,     \* DexDB 'G' records: address -> satoshi of virtual GRD
    orders,     \* DexDB order records: order id -> order
    trades,     \* DexDB trade records: trade id -> [amount, price]
    now         \* SystemClock in seconds

vars == <<assetBal, grdBal, orders, trades, now>>

TradeId == [buy : OrderId, sell : OrderId, timestamp : Nat]
TradeRec == [amount : Nat, price : Prices]

Init ==
    /\ assetBal = InitAsset
    /\ grdBal = InitGrd
    /\ orders = <<>>
    /\ trades = <<>>
    /\ now = 0

\* Bound on the model: room for one more order record.
HasRoom(id) == id \in DOMAIN orders \/ Cardinality(DOMAIN orders) < MaxOrders

\* placeorder, SELL: the units leave the balance, then the order is stored.
PlaceSell(id) ==
    /\ HasRoom(id)
    /\ assetBal[id.asset][id.owner] >= id.amount
    /\ assetBal' = [assetBal EXCEPT ![id.asset][id.owner] = @ - id.amount]
    /\ orders' = Put(orders, id, NewOrder)
    /\ UNCHANGED <<grdBal, trades, now>>

\* placeorder, BUY: amount * price satoshi of virtual GRD are escrowed.
PlaceBuy(id) ==
    LET grd_needed == Mul64(id.amount, id.price)
    IN  /\ HasRoom(id)
        /\ grd_needed > 0 \/ Overflows(id.amount, id.price)
        /\ grdBal[id.owner] >= grd_needed
        /\ grdBal' = [grdBal EXCEPT ![id.owner] = @ - grd_needed]
        /\ orders' = Put(orders, id, NewOrder)
        /\ UNCHANGED <<assetBal, trades, now>>

\* Mutant of Refund: the whole order is given back.
RefundFull(id) == IF id.side = "SELL" THEN id.amount ELSE Mul64(id.amount, id.price)

\* What cancelorder gives back for the unfilled part.
Refund(id) ==
    IF id.side = "SELL" THEN Remaining(id, orders[id])
    ELSE Mul64(Remaining(id, orders[id]), id.price)

\* Mutant of CancelSell: the new status is not stored.
CancelSellUnsaved(id) ==
    /\ id.side = "SELL" /\ IsLive(orders[id])
    /\ assetBal' = [assetBal EXCEPT ![id.asset][id.owner] = @ + Refund(id)]
    /\ UNCHANGED <<grdBal, orders, trades, now>>

CancelSell(id) ==
    /\ id.side = "SELL" /\ IsLive(orders[id])
    /\ assetBal' = [assetBal EXCEPT ![id.asset][id.owner] = @ + Refund(id)]
    /\ orders' = [orders EXCEPT ![id].status = "CANCELLED"]
    /\ UNCHANGED <<grdBal, trades, now>>

CancelBuy(id) ==
    /\ id.side = "BUY" /\ IsLive(orders[id])
    /\ grdBal' = [grdBal EXCEPT ![id.owner] = @ + Refund(id)]
    /\ orders' = [orders EXCEPT ![id].status = "CANCELLED"]
    /\ UNCHANGED <<assetBal, trades, now>>

\* One iteration of the loop of MatchOrders.  The price is the seller's; the
\* buyer gets back what was escrowed above it.
TradeQty(buy, sell) ==
    MinOf(Remaining(buy, orders[buy]), Remaining(sell, orders[sell]))
Paid(buy, sell) == Mul64(TradeQty(buy, sell), sell.price)
\* Mutant of Diff: the buyer is not refunded the price improvement.
DiffKept(buy, sell) == 0
Diff(buy, sell) == Mul64(TradeQty(buy, sell), buy.price - sell.price)

Trade(buy, sell) ==
    /\ Crosses(buy, sell)
    /\ IsLive(orders[buy]) /\ IsLive(orders[sell])
    /\ assetBal' = [assetBal EXCEPT ![buy.asset][buy.owner] = @ + TradeQty(buy, sell)]
    /\ grdBal' = [[grdBal EXCEPT ![sell.owner] = @ + Paid(buy, sell)]
                          EXCEPT ![buy.owner] = @ + Diff(buy, sell)]
    /\ orders' = [orders EXCEPT ![buy] = Filled(buy, @, TradeQty(buy, sell)),
                                ![sell] = Filled(sell, @, TradeQty(buy, sell))]
    /\ trades' = Put(trades, [buy |-> buy, sell |-> sell, timestamp |-> now],
                     [amount |-> TradeQty(buy, sell), price |-> sell.price])
    /\ UNCHANGED now

depositgrd(address, amount) ==
    /\ grdBal[address] + amount <= MaxGrd
    /\ grdBal' = [grdBal EXCEPT ![address] = @ + amount]
    /\ UNCHANGED <<assetBal, orders, trades, now>>

\* Mutant of withdrawgrd: the balance is not checked.
withdrawgrdUnchecked(address, amount) ==
    /\ grdBal' = [grdBal EXCEPT ![address] = @ - amount]
    /\ UNCHANGED <<assetBal, orders, trades, now>>

withdrawgrd(address, amount) ==
    /\ grdBal[address] >= amount
    /\ grdBal' = [grdBal EXCEPT ![address] = @ - amount]
    /\ UNCHANGED <<assetBal, orders, trades, now>>

Tick ==
    /\ now < MaxTime
    /\ now' = now + 1
    /\ UNCHANGED <<assetBal, grdBal, orders, trades>>

\* The orders a client can place in this second.
OrdersNow(side) ==
    {ComputeOrderId(a, side, p, n, o, now) :
        a \in Asset, p \in Prices, n \in Amounts, o \in Address}

Next ==
    \/ \E id \in OrdersNow("SELL") : PlaceSell(id)
    \/ \E id \in OrdersNow("BUY") : PlaceBuy(id)
    \/ \E id \in DOMAIN orders : CancelSell(id) \/ CancelBuy(id)
    \/ \E buy, sell \in DOMAIN orders : Trade(buy, sell)
    \/ \E address \in Address, amount \in Deposits :
          depositgrd(address, amount) \/ withdrawgrd(address, amount)
    \/ Tick

Spec == Init /\ [][Next]_vars
-----------------------------------------------------------------------------
\* The records have the types the database serialises.
TypeOK ==
    /\ assetBal \in [Asset -> [Address -> Int]]
    /\ grdBal \in [Address -> Int]
    /\ DOMAIN orders \subseteq OrderId
    /\ \A id \in DOMAIN orders : orders[id] \in OrderRec
    /\ DOMAIN trades \subseteq TradeId
    /\ \A t \in DOMAIN trades : trades[t] \in TradeRec
    /\ now \in Nat
=============================================================================
