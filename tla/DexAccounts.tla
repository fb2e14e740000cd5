---------------------------- MODULE DexAccounts ----------------------------
(***************************************************************************)
(* DexEscrow with the history its safety properties are stated over: an     *)
(* account per order of what placeorder debited, what trades paid out of it *)
(* and what went back to its owner, and the value that entered or left the  *)
(* ledger.  The history never restricts a step of DexEscrow.                *)
(***************************************************************************)
EXTENDS DexEscrow

VARIABLES
    acct,       \* order id -> [in, out, back]
    lostUnits,  \* asset -> units of live SELL orders that placeorder overwrote
    netGrd      \* deposits - withdrawals - satoshi of overwritten BUY orders

avars == <<assetBal, grdBal, orders, trades, now, acct, lostUnits, netGrd>>

Account == [in : Int, out : Int, back : Int]

AInit == Init /\ acct = <<>> /\ lostUnits = [a \in Asset |-> 0] /\ netGrd = 0

\* The escrow of the live order stored under id, if there is one.
Overwritten(id) == IF id \in DOMAIN orders THEN Escrow(id, orders[id]) ELSE 0

Opened(debit) == [in |-> debit, out |-> 0, back |-> 0]

APlaceSell(id) ==
    /\ PlaceSell(id)
    /\ acct' = Put(acct, id, Opened(id.amount))
    /\ lostUnits' = [lostUnits EXCEPT ![id.asset] = @ + Overwritten(id)]
    /\ UNCHANGED netGrd

APlaceBuy(id) ==
    /\ PlaceBuy(id)
    /\ acct' = Put(acct, id, Opened(Mul64(id.amount, id.price)))
    /\ netGrd' = netGrd - Overwritten(id)
    /\ UNCHANGED lostUnits

ACancel(id) ==
    /\ CancelSell(id) \/ CancelBuy(id)
    /\ acct' = [acct EXCEPT ![id].back = @ + Refund(id)]
    /\ UNCHANGED <<lostUnits, netGrd>>

ATrade(buy, sell) ==
    /\ Trade(buy, sell)
    /\ acct' = [acct EXCEPT ![buy].out = @ + Paid(buy, sell),
                            ![buy].back = @ + Diff(buy, sell),
                            ![sell].out = @ + TradeQty(buy, sell)]
    /\ UNCHANGED <<lostUnits, netGrd>>

ADeposit(address, amount) ==
    /\ depositgrd(address, amount)
    /\ netGrd' = netGrd + amount
    /\ UNCHANGED <<acct, lostUnits>>

AWithdraw(address, amount) ==
    /\ withdrawgrd(address, amount)
    /\ netGrd' = netGrd - amount
    /\ UNCHANGED <<acct, lostUnits>>

ATick == Tick /\ UNCHANGED <<acct, lostUnits, netGrd>>

ANext ==
    \/ \E id \in OrdersNow("SELL") : APlaceSell(id)
    \/ \E id \in OrdersNow("BUY") : APlaceBuy(id)
    \/ \E id \in DOMAIN orders : ACancel(id)
    \/ \E buy, sell \in DOMAIN orders : ATrade(buy, sell)
    \/ \E address \in Address, amount \in Deposits :
          ADeposit(address, amount) \/ AWithdraw(address, amount)
    \/ ATick

ASpec == AInit /\ [][ANext]_avars
-----------------------------------------------------------------------------
\* The type invariant: one account per stored order.
ATypeOK ==
    /\ TypeOK
    /\ DOMAIN acct = DOMAIN orders
    /\ \A id \in DOMAIN acct : acct[id] \in Account
    /\ lostUnits \in [Asset -> Int]
    /\ netGrd \in Int

\* No BUY order was ever stored whose value wrapped around: placeorder only
\* refuses a product that is not positive after it wrapped.
Exact == \A id \in DOMAIN orders : ExactValue(id)

\* No handler ever stores a negative balance: placeorder and withdrawgrd check
\* the balance they debit, cancelorder and MatchOrders only credit.  For virtual
\* GRD this holds while every BUY order has an exact value; what cancelorder and
\* MatchOrders credit for another one may be negative.
Solvent ==
    /\ \A a \in Asset, x \in Address : assetBal[a][x] >= 0
    /\ Exact => \A x \in Address : grdBal[x] >= 0

\* An order that MatchOrders would still pick up has something left to trade,
\* and FILLED is stored exactly when the last unit has been traded.
FillConsistent ==
    \A id \in DOMAIN orders :
        /\ orders[id].filled <= id.amount
        /\ IsLive(orders[id]) => orders[id].filled < id.amount
        /\ orders[id].status = "OPEN" => orders[id].filled = 0
        /\ orders[id].status = "PARTIAL" => orders[id].filled > 0
        /\ orders[id].status = "FILLED" => orders[id].filled = id.amount

\* Whatever mix of partial fills below the limit and of cancellation an order
\* goes through, what placeorder debited is what the counterparties got, plus
\* what the owner got back, plus what the order still holds.  It is said of every
\* SELL order and of every BUY order of an exact value, whatever the others are.
EscrowBacked ==
    \A id \in DOMAIN orders : ExactValue(id) =>
        /\ acct[id].out >= 0 /\ acct[id].back >= 0
        /\ acct[id].in = acct[id].out + acct[id].back + Escrow(id, orders[id])

SellEscrow(a) ==
    TotalEscrow(orders, {id \in DOMAIN orders : id.side = "SELL" /\ id.asset = a})
BuyEscrow == TotalEscrow(orders, {id \in DOMAIN orders : id.side = "BUY"})

\* Units are neither created nor destroyed: balances and escrowed units add up
\* to what was issued, except for the orders that a second identical placeorder
\* of the same second has overwritten.
AssetConserved ==
    \A a \in Asset :
        SumFunction(assetBal[a]) + SellEscrow(a) + lostUnits[a]
            = SumFunction(InitAsset[a])

\* The same for virtual GRD, with the authority's deposits and withdrawals, while
\* every BUY order has an exact value.
GrdConserved ==
    Exact => SumFunction(grdBal) + BuyEscrow = SumFunction(InitGrd) + netGrd
=============================================================================
