----------------------------- MODULE DexProofs -----------------------------
(***************************************************************************)
(* Proofs about DexAccounts, for any sets of assets, addresses, amounts and *)
(* prices and any bounds.  Products wrap around as the code lets them: what *)
(* is said of virtual GRD is said of BUY orders whose value fits int64_t.   *)
(***************************************************************************)
EXTENDS DexAccounts, SumLemmas

\* Whatever wraps, the result is an integer.
LEMMA MulInt ==
    ASSUME NEW x \in Int, NEW y \in Int
    PROVE  Mul64(x, y) \in Int
<1>1. Int64Max \in Nat /\ x * y \in Int
  BY OrderAssumption DEF OrderAssumption
<1>2. ASSUME NEW z \in Int PROVE Wrap64(z) \in Int
  BY <1>1 DEF Wrap64
<1> QED BY <1>1, <1>2, Zenon DEF Mul64

\* No product the handlers form for a part of an exact order wraps around.
LEMMA MulExact ==
    ASSUME NEW a \in Amounts, NEW p \in Prices, ~ Overflows(a, p),
           NEW r \in Nat, r <= a, NEW d \in Nat, d <= p
    PROVE  Mul64(r, d) = r * d /\ r * d \in Nat
<1>1. a \in Nat /\ p \in Nat /\ Int64Max \in Nat
  BY OrderAssumption, Zenon DEF OrderAssumption
<1>2. r * d \in Nat /\ r * d <= a * p
  BY <1>1, ProductGrows, Zenon
<1>4. a * p \in Nat
  BY <1>1
<1>3. a * p <= Int64Max
  BY <1>1, <1>4 DEF Overflows
<1>5. r * d <= Int64Max
  BY <1>1, <1>2, <1>3, <1>4
<1> QED BY <1>2, <1>5, Zenon DEF Mul64

\* The inductive invariant: the types, and the three properties together.
IInv == ATypeOK /\ Solvent /\ FillConsistent /\ EscrowBacked

\* What IInv says of one order, with the escrow worked out.
LEMMA OrderFacts ==
    ASSUME IInv, NEW id \in DOMAIN orders
    PROVE  /\ id \in OrderId /\ id.amount \in Nat /\ id.price \in Nat
           /\ id.amount \in Amounts /\ id.price \in Prices
           /\ orders[id] \in OrderRec /\ acct[id] \in Account
           /\ Remaining(id, orders[id]) \in Nat
           /\ Remaining(id, orders[id]) <= id.amount
           /\ Mul64(Remaining(id, orders[id]), id.price) \in Int
           /\ id.side = "BUY" /\ ExactValue(id) =>
                Mul64(Remaining(id, orders[id]), id.price) = Remaining(id, orders[id]) * id.price
           /\ Remaining(id, orders[id]) * id.price \in Nat
           /\ IsLive(orders[id]) => Remaining(id, orders[id]) > 0
<1>1. id \in OrderId /\ orders[id] \in OrderRec /\ acct[id] \in Account
  BY Zenon DEF IInv, ATypeOK, TypeOK
<1>2. id.amount \in Amounts /\ id.price \in Prices /\ orders[id].filled \in Nat
  BY <1>1, Zenon DEF OrderId, OrderRec
<1>3. id.amount \in Nat /\ id.price \in Nat
  BY <1>2, OrderAssumption, Zenon DEF OrderAssumption
<1>4. orders[id].filled <= id.amount
      /\ (IsLive(orders[id]) => orders[id].filled < id.amount)
  BY Zenon DEF IInv, FillConsistent
<1>5. Remaining(id, orders[id]) \in Nat /\ Remaining(id, orders[id]) <= id.amount
      /\ (IsLive(orders[id]) => Remaining(id, orders[id]) > 0)
  BY <1>2, <1>3, <1>4 DEF Remaining
<1>6. id.price <= id.price
  BY <1>3
<1>7. Remaining(id, orders[id]) * id.price \in Nat
  BY <1>3, <1>5
<1>8. Mul64(Remaining(id, orders[id]), id.price) \in Int
  <2>1. Remaining(id, orders[id]) \in Int /\ id.price \in Int
    BY <1>3, <1>5
  <2> QED BY <2>1, MulInt, Zenon
<1>9. id.side = "BUY" /\ ExactValue(id) =>
        Mul64(Remaining(id, orders[id]), id.price) = Remaining(id, orders[id]) * id.price
  BY <1>2, <1>3, <1>5, <1>6, MulExact, Zenon DEF ExactValue
<1> QED BY <1>1, <1>2, <1>3, <1>5, <1>7, <1>8, <1>9, Zenon

\* Before the first order the book is empty and so is the history; the ledger may
\* hold anything not negative. Such a state satisfies the invariant.
LEMMA InitInv == AInit => IInv
<1> SUFFICES ASSUME AInit PROVE IInv
  BY Zenon
<1>1. DOMAIN orders = {} /\ DOMAIN trades = {} /\ DOMAIN acct = {}
  BY DEF AInit, Init
<1>2. ATypeOK
  BY <1>1, EscrowAssumption DEF EscrowAssumption, AInit, Init, ATypeOK, TypeOK
<1>3. Solvent
  BY EscrowAssumption DEF EscrowAssumption, AInit, Init, Solvent
<1>4. FillConsistent /\ EscrowBacked
  BY <1>1, Zenon DEF FillConsistent, EscrowBacked
<1> QED BY <1>2, <1>3, <1>4, Zenon DEF IInv

\* An order a client places now is a well-formed id.
LEMMA NewIdFacts ==
    ASSUME IInv, NEW side \in Side, NEW id \in OrdersNow(side)
    PROVE  /\ id \in OrderId /\ id.side = side
           /\ id.asset \in Asset /\ id.owner \in Address
           /\ id.amount \in Nat \ {0} /\ id.price \in Nat \ {0}
           /\ Mul64(id.amount, id.price) \in Int
<1>1. PICK a \in Asset, p \in Prices, n \in Amounts, o \in Address :
        id = ComputeOrderId(a, side, p, n, o, now)
  BY DEF OrdersNow
<1>2. now \in Nat
  BY Zenon DEF IInv, ATypeOK, TypeOK
<1>3. id \in OrderId /\ id.side = side /\ id.asset = a /\ id.owner = o
      /\ id.amount = n /\ id.price = p
  BY <1>1, <1>2, Zenon DEF ComputeOrderId, OrderId
<1>4. n \in Nat \ {0} /\ p \in Nat \ {0}
  BY OrderAssumption, Zenon DEF OrderAssumption
<1>5. n \in Int /\ p \in Int
  BY <1>4
<1>6. Mul64(n, p) \in Int
  BY <1>5, MulInt, Zenon
<1> QED BY <1>3, <1>4, <1>6, Zenon

\* Storing a new order under id keeps what IInv says of the order book, when
\* its account opens with the escrow of the whole order.
LEMMA WriteOrderInv ==
    ASSUME IInv, NEW id \in OrderId, id.amount \in Nat \ {0},
           NEW debit \in Int, debit = Escrow(id, NewOrder),
           orders' = Put(orders, id, NewOrder), acct' = Put(acct, id, Opened(debit))
    PROVE  /\ DOMAIN orders' \subseteq OrderId /\ DOMAIN acct' = DOMAIN orders'
           /\ \A k \in DOMAIN orders' : orders'[k] \in OrderRec /\ acct'[k] \in Account
           /\ FillConsistent' /\ EscrowBacked' /\ (Exact' => Exact)
<1>1. /\ DOMAIN orders' = DOMAIN orders \cup {id}
      /\ orders'[id] = NewOrder
      /\ \A k \in DOMAIN orders : k # id => orders'[k] = orders[k]
  BY Zenon DEF Put
<1>2. /\ DOMAIN acct' = DOMAIN acct \cup {id}
      /\ acct'[id] = Opened(debit)
      /\ \A k \in DOMAIN acct : k # id => acct'[k] = acct[k]
  BY Zenon DEF Put
<1>3. DOMAIN acct = DOMAIN orders /\ DOMAIN orders \subseteq OrderId
      /\ \A k \in DOMAIN orders : orders[k] \in OrderRec /\ acct[k] \in Account
  BY Zenon DEF IInv, ATypeOK, TypeOK
<1>4. NewOrder \in OrderRec /\ Opened(debit) \in Account
  BY DEF NewOrder, OrderRec, OrderStatus, Opened, Account
<1>5. DOMAIN orders' \subseteq OrderId /\ DOMAIN acct' = DOMAIN orders'
      /\ \A k \in DOMAIN orders' : orders'[k] \in OrderRec /\ acct'[k] \in Account
  BY <1>1, <1>2, <1>3, <1>4, Zenon
<1>6. FillConsistent'
  BY <1>1, <1>3 DEF IInv, FillConsistent, NewOrder, IsLive
<1>7. EscrowBacked'
  <2> SUFFICES ASSUME NEW k \in DOMAIN orders', ExactValue(k)
               PROVE  /\ acct'[k].out >= 0 /\ acct'[k].back >= 0
                      /\ acct'[k].in = acct'[k].out + acct'[k].back + Escrow(k, orders'[k])
    BY Zenon DEF EscrowBacked
  <2>1. CASE k = id
    BY <2>1, <1>1, <1>2 DEF Opened
  <2>2. CASE k # id
    BY <2>2, <1>1, <1>2, <1>3, Zenon DEF IInv, EscrowBacked
  <2> QED BY <2>1, <2>2, Zenon
<1>8. Exact' => Exact
  BY <1>1, Zenon DEF Exact
<1> QED BY <1>5, <1>6, <1>7, <1>8, Zenon

\* placeorder SELL debits what it escrows.
LEMMA PlaceSellInv ==
    ASSUME IInv, NEW id \in OrdersNow("SELL"), APlaceSell(id)
    PROVE  IInv'
<1>1. /\ id \in OrderId /\ id.side = "SELL" /\ id.asset \in Asset
      /\ id.owner \in Address /\ id.amount \in Nat \ {0}
  BY NewIdFacts, Zenon DEF Side
<1>2. id.amount = Escrow(id, NewOrder)
  BY <1>1 DEF Escrow, NewOrder, IsLive, Remaining
<1>3. orders' = Put(orders, id, NewOrder) /\ acct' = Put(acct, id, Opened(id.amount))
  BY Zenon DEF APlaceSell, PlaceSell
<1>4. /\ DOMAIN orders' \subseteq OrderId /\ DOMAIN acct' = DOMAIN orders'
      /\ \A k \in DOMAIN orders' : orders'[k] \in OrderRec /\ acct'[k] \in Account
      /\ FillConsistent' /\ EscrowBacked' /\ (Exact' => Exact)
  BY <1>1, <1>2, <1>3, WriteOrderInv
<1>5. assetBal' \in [Asset -> [Address -> Int]] /\ Solvent'
  BY <1>1, <1>4 DEF IInv, ATypeOK, TypeOK, Solvent, APlaceSell, PlaceSell
<1>6. Overwritten(id) \in Int
  <2>1. CASE id \in DOMAIN orders
    BY <1>1, <2>1, OrderFacts DEF Overwritten, Escrow
  <2>2. CASE id \notin DOMAIN orders
    BY <2>2 DEF Overwritten
  <2> QED BY <2>1, <2>2, Zenon
<1>7. lostUnits' \in [Asset -> Int] /\ netGrd' \in Int
  BY <1>1, <1>6 DEF IInv, ATypeOK, APlaceSell
<1>8. UNCHANGED <<grdBal, trades, now>>
  BY Zenon DEF APlaceSell, PlaceSell
<1>9. ATypeOK'
  BY <1>4, <1>5, <1>7, <1>8, Zenon DEF IInv, ATypeOK, TypeOK
<1> QED BY <1>4, <1>5, <1>9, Zenon DEF IInv

\* placeorder BUY debits what it escrows, wrapped or not.
LEMMA PlaceBuyInv ==
    ASSUME IInv, NEW id \in OrdersNow("BUY"), APlaceBuy(id)
    PROVE  IInv'
<1> DEFINE debit == Mul64(id.amount, id.price)
<1>1. /\ id \in OrderId /\ id.side = "BUY" /\ id.asset \in Asset
      /\ id.owner \in Address /\ id.amount \in Nat \ {0}
      /\ id.price \in Nat /\ debit \in Int
  BY NewIdFacts, Zenon DEF Side
<1>2. debit = Escrow(id, NewOrder)
  BY <1>1 DEF Escrow, NewOrder, IsLive, Remaining
<1>3. orders' = Put(orders, id, NewOrder) /\ acct' = Put(acct, id, Opened(debit))
  BY Zenon DEF APlaceBuy, PlaceBuy
<1>4. /\ DOMAIN orders' \subseteq OrderId /\ DOMAIN acct' = DOMAIN orders'
      /\ \A k \in DOMAIN orders' : orders'[k] \in OrderRec /\ acct'[k] \in Account
      /\ FillConsistent' /\ EscrowBacked' /\ (Exact' => Exact)
  <2> HIDE DEF debit
  <2> QED BY <1>1, <1>2, <1>3, WriteOrderInv
<1>5. grdBal' \in [Address -> Int] /\ Solvent'
  <2>1. /\ grdBal' = [grdBal EXCEPT ![id.owner] = @ - debit] /\ grdBal[id.owner] >= debit
        /\ UNCHANGED assetBal
    BY Zenon DEF APlaceBuy, PlaceBuy
  <2> HIDE DEF debit
  <2>2. grdBal \in [Address -> Int] /\ (Exact => \A x \in Address : grdBal[x] >= 0)
    BY Zenon DEF IInv, ATypeOK, TypeOK, Solvent
  <2>3. grdBal' \in [Address -> Int]
        /\ ((\A x \in Address : grdBal[x] >= 0) => \A x \in Address : grdBal'[x] >= 0)
    BY <1>1, <2>1, <2>2
  <2> QED BY <1>4, <2>1, <2>2, <2>3, Zenon DEF IInv, Solvent
<1>6. Overwritten(id) \in Int
  <2>1. CASE id \in DOMAIN orders
    BY <1>1, <2>1, OrderFacts DEF Overwritten, Escrow
  <2>2. CASE id \notin DOMAIN orders
    BY <2>2 DEF Overwritten
  <2> QED BY <2>1, <2>2, Zenon
<1>7. lostUnits' \in [Asset -> Int] /\ netGrd' \in Int
  BY <1>6 DEF IInv, ATypeOK, APlaceBuy
<1>8. UNCHANGED <<assetBal, trades, now>>
  BY Zenon DEF APlaceBuy, PlaceBuy
<1>9. ATypeOK'
  BY <1>4, <1>5, <1>7, <1>8, Zenon DEF IInv, ATypeOK, TypeOK
<1> QED BY <1>4, <1>5, <1>9, Zenon DEF IInv

\* cancelorder returns exactly what the order still holds.
LEMMA CancelInv ==
    ASSUME IInv, NEW id \in DOMAIN orders, ACancel(id)
    PROVE  IInv'
<1> DEFINE rec == orders[id]
<1>1. /\ id \in OrderId /\ id.side \in Side /\ id.asset \in Asset /\ id.owner \in Address
      /\ rec \in OrderRec /\ acct[id] \in Account /\ IsLive(rec)
  BY OrderFacts, Zenon DEF OrderId, ACancel, CancelSell, CancelBuy
<1>2. /\ Refund(id) \in Int /\ Refund(id) = Escrow(id, rec)
      /\ id.side = "SELL" => Refund(id) >= 0
      /\ ExactValue(id) => Refund(id) >= 0
  BY <1>1, OrderFacts DEF Refund, Escrow, Side
<1>3. /\ orders' = [orders EXCEPT ![id].status = "CANCELLED"]
      /\ acct' = [acct EXCEPT ![id].back = @ + Refund(id)]
      /\ UNCHANGED <<trades, now, lostUnits, netGrd>>
  BY Zenon DEF ACancel, CancelSell, CancelBuy
<1>4. assetBal' \in [Asset -> [Address -> Int]] /\ grdBal' \in [Address -> Int] /\ Solvent'
  <2>0. (Exact' => Exact) /\ (Exact => ExactValue(id))
    BY <1>3, Zenon DEF Exact
  <2>1. CASE CancelSell(id)
    BY <2>0, <2>1, <1>1, <1>2 DEF CancelSell, IInv, ATypeOK, TypeOK, Solvent
  <2>2. CASE CancelBuy(id)
    BY <2>0, <2>2, <1>1, <1>2 DEF CancelBuy, IInv, ATypeOK, TypeOK, Solvent
  <2> QED BY <2>1, <2>2, Zenon DEF ACancel
<1>5. /\ DOMAIN orders' = DOMAIN orders /\ DOMAIN acct' = DOMAIN acct
      /\ orders'[id] = [rec EXCEPT !.status = "CANCELLED"]
      /\ acct'[id] = [acct[id] EXCEPT !.back = @ + Refund(id)]
      /\ \A k \in DOMAIN orders : k # id => orders'[k] = orders[k] /\ acct'[k] = acct[k]
      /\ DOMAIN acct = DOMAIN orders
  BY <1>3, Zenon DEF IInv, ATypeOK
<1>6. orders'[id] \in OrderRec /\ orders'[id].status = "CANCELLED"
      /\ orders'[id].filled = rec.filled
  BY <1>1, <1>5, Zenon DEF OrderRec, OrderStatus
<1>7. /\ acct'[id] \in Account
      /\ acct'[id].in = acct[id].in /\ acct'[id].out = acct[id].out
      /\ acct'[id].back = acct[id].back + Refund(id)
  BY <1>1, <1>2, <1>5 DEF Account
<1>8. ATypeOK'
  BY <1>3, <1>4, <1>5, <1>6, <1>7, Zenon DEF IInv, ATypeOK, TypeOK
<1>9. FillConsistent'
  BY <1>5, <1>6, ZenonT(30) DEF IInv, FillConsistent, IsLive
<1>10. EscrowBacked'
  <2> SUFFICES ASSUME NEW k \in DOMAIN orders, ExactValue(k)
               PROVE  /\ acct'[k].out >= 0 /\ acct'[k].back >= 0
                      /\ acct'[k].in = acct'[k].out + acct'[k].back + Escrow(k, orders'[k])
    BY <1>5, Zenon DEF EscrowBacked
  <2>1. CASE k = id
    <3>1. /\ acct[id].out >= 0 /\ acct[id].back >= 0
          /\ acct[id].in = acct[id].out + acct[id].back + Refund(id)
      BY <1>2, <2>1, Zenon DEF IInv, EscrowBacked
    <3>2. Escrow(id, orders'[id]) = 0
      BY <1>6, Zenon DEF Escrow, IsLive
    <3> QED BY <2>1, <3>1, <3>2, <1>1, <1>2, <1>7 DEF Account
  <2>2. CASE k # id
    BY <2>2, <1>5, Zenon DEF IInv, EscrowBacked
  <2> QED BY <2>1, <2>2, Zenon
<1> QED BY <1>4, <1>8, <1>9, <1>10, Zenon DEF IInv

\* What one trade does to the two orders it fills and to their accounts.
LEMMA TradeFacts ==
    ASSUME IInv, NEW buy \in DOMAIN orders, NEW sell \in DOMAIN orders,
           Crosses(buy, sell), IsLive(orders[buy]), IsLive(orders[sell])
    PROVE  LET q == TradeQty(buy, sell)
           IN  /\ q \in Nat /\ q > 0
               /\ q <= Remaining(buy, orders[buy]) /\ q <= Remaining(sell, orders[sell])
               /\ Paid(buy, sell) \in Int /\ Diff(buy, sell) \in Int
               /\ ExactValue(buy) =>
                    /\ Paid(buy, sell) \in Nat /\ Diff(buy, sell) \in Nat
                    /\ Paid(buy, sell) + Diff(buy, sell) = q * buy.price
<1> DEFINE q == TradeQty(buy, sell)
<1>1. /\ buy.amount \in Amounts /\ buy.price \in Prices /\ buy.amount \in Nat /\ buy.price \in Nat
      /\ sell.amount \in Amounts /\ sell.price \in Prices /\ sell.amount \in Nat /\ sell.price \in Nat
      /\ Remaining(buy, orders[buy]) \in Nat /\ Remaining(buy, orders[buy]) <= buy.amount
      /\ Remaining(sell, orders[sell]) \in Nat /\ Remaining(sell, orders[sell]) <= sell.amount
      /\ Remaining(buy, orders[buy]) > 0 /\ Remaining(sell, orders[sell]) > 0
  BY OrderFacts, Zenon
<1>2. q \in Nat /\ q > 0 /\ q <= Remaining(buy, orders[buy]) /\ q <= Remaining(sell, orders[sell])
  BY <1>1 DEF TradeQty, MinOf
<1>3. q <= buy.amount /\ q <= sell.amount
  <2> HIDE DEF q
  <2> QED BY <1>1, <1>2
<1>4. buy.price - sell.price \in Nat /\ buy.price - sell.price <= buy.price
      /\ sell.price <= buy.price /\ buy.side = "BUY"
  BY <1>1 DEF Crosses
<1>5. ExactValue(buy) => Paid(buy, sell) = q * sell.price /\ q * sell.price \in Nat
  BY <1>1, <1>2, <1>3, <1>4, MulExact, Zenon DEF Paid, ExactValue
<1>6. ExactValue(buy) => /\ Diff(buy, sell) = q * (buy.price - sell.price)
                         /\ q * (buy.price - sell.price) \in Nat
  BY <1>1, <1>2, <1>3, <1>4, MulExact, Zenon DEF Diff, ExactValue
<1>8. Paid(buy, sell) \in Int /\ Diff(buy, sell) \in Int
  <2>1. q \in Int /\ sell.price \in Int /\ buy.price - sell.price \in Int
    BY <1>1, <1>2
  <2> HIDE DEF q
  <2> QED BY <2>1, MulInt, Zenon DEF Paid, Diff, q
<1>7. q * sell.price + q * (buy.price - sell.price) = q * buy.price
  <2> HIDE DEF q
  <2> QED BY <1>1, <1>2
<1> HIDE DEF q
<1> QED BY <1>2, <1>5, <1>6, <1>7, <1>8, Zenon DEF q

\* The record MatchOrders stores after a fill of at most the remaining amount.
LEMMA FilledFacts ==
    ASSUME NEW id, NEW rec \in OrderRec, id.amount \in Nat, IsLive(rec),
           NEW q \in Nat, q > 0, q <= Remaining(id, rec)
    PROVE  /\ Filled(id, rec, q) \in OrderRec
           /\ Filled(id, rec, q).filled = rec.filled + q
           /\ Remaining(id, Filled(id, rec, q)) = Remaining(id, rec) - q
           /\ rec.filled + q <= id.amount
           /\ rec.filled + q = id.amount => Filled(id, rec, q).status = "FILLED"
           /\ rec.filled + q < id.amount => Filled(id, rec, q).status = "PARTIAL"
BY DEF Filled, FillStatus, Remaining, OrderRec, OrderStatus

\* A trade takes q * buy.price satoshi out of the escrow of an exact BUY order and
\* q units out of the escrow of the SELL order.
LEMMA TradeEscrow ==
    ASSUME IInv, NEW buy \in DOMAIN orders, NEW sell \in DOMAIN orders,
           Trade(buy, sell)
    PROVE  /\ ExactValue(buy) =>
                Escrow(buy, orders'[buy]) = Escrow(buy, orders[buy]) - TradeQty(buy, sell) * buy.price
           /\ Escrow(buy, orders'[buy]) \in Int
           /\ Escrow(sell, orders'[sell]) = Escrow(sell, orders[sell]) - TradeQty(buy, sell)
           /\ Escrow(buy, orders[buy]) \in Int /\ Escrow(sell, orders[sell]) \in Int
<1> DEFINE q == TradeQty(buy, sell)
<1>1. /\ Crosses(buy, sell) /\ IsLive(orders[buy]) /\ IsLive(orders[sell])
      /\ orders' = [orders EXCEPT ![buy] = Filled(buy, @, q), ![sell] = Filled(sell, @, q)]
  BY Zenon DEF Trade
<1>2. /\ buy \in OrderId /\ buy.side = "BUY" /\ sell \in OrderId /\ sell.side = "SELL"
      /\ buy # sell
      /\ buy.amount \in Nat /\ buy.price \in Nat /\ sell.amount \in Nat /\ sell.price \in Nat
      /\ orders[buy] \in OrderRec /\ orders[sell] \in OrderRec
      /\ Remaining(buy, orders[buy]) \in Nat /\ Remaining(sell, orders[sell]) \in Nat
      /\ Remaining(buy, orders[buy]) * buy.price \in Nat
  BY <1>1, OrderFacts, Zenon DEF OrderId, Crosses
<1>3. /\ q \in Nat /\ q > 0
      /\ q <= Remaining(buy, orders[buy]) /\ q <= Remaining(sell, orders[sell])
  BY <1>1, TradeFacts, Zenon
<1> HIDE DEF q
<1>4. /\ orders'[buy] = Filled(buy, orders[buy], q)
      /\ orders'[sell] = Filled(sell, orders[sell], q)
  BY <1>1, <1>2, Zenon
<1>5. /\ orders'[buy] \in OrderRec /\ orders'[sell] \in OrderRec
      /\ Remaining(buy, orders'[buy]) = Remaining(buy, orders[buy]) - q
      /\ Remaining(sell, orders'[sell]) = Remaining(sell, orders[sell]) - q
  BY <1>1, <1>2, <1>3, <1>4, FilledFacts
<1>6. ASSUME ExactValue(buy)
      PROVE  Escrow(buy, orders'[buy]) = Remaining(buy, orders[buy]) * buy.price - q * buy.price
  <2> DEFINE r == Remaining(buy, orders[buy])
  <2>1. Escrow(buy, orders'[buy]) = (r - q) * buy.price
    <3>1. CASE IsLive(orders'[buy])
      <4>1. buy \in DOMAIN orders /\ buy.price <= buy.price /\ r - q \in Nat /\ r - q <= buy.amount
        BY <1>2, <1>3, <1>4, OrderFacts
      <4>2. Mul64(r - q, buy.price) = (r - q) * buy.price
        BY <4>1, <1>2, <1>6, MulExact DEF OrderId, ExactValue
      <4> QED BY <3>1, <4>2, <1>2, <1>5, Zenon DEF Escrow
    <3>2. CASE ~ IsLive(orders'[buy])
      <4>1. r - q = 0
        BY <3>2, <1>1, <1>2, <1>3, <1>4, FilledFacts DEF IsLive, Remaining, OrderRec
      <4> QED BY <3>2, <4>1, <1>2 DEF Escrow
    <3> QED BY <3>1, <3>2, Zenon
  <2>2. (r - q) * buy.price = r * buy.price - q * buy.price
    <3> HIDE DEF r
    <3> QED BY <1>2, <1>3 DEF r
  <2> QED BY <2>1, <2>2, Zenon
<1>7. Escrow(sell, orders'[sell]) = Remaining(sell, orders[sell]) - q
  <2>1. CASE IsLive(orders'[sell])
    BY <2>1, <1>2, <1>5, Zenon DEF Escrow
  <2>2. CASE ~ IsLive(orders'[sell])
    BY <2>2, <1>1, <1>2, <1>3, <1>4, FilledFacts DEF Escrow, IsLive, Remaining, OrderRec
  <2> QED BY <2>1, <2>2, Zenon
<1>8. /\ ExactValue(buy) => Escrow(buy, orders[buy]) = Remaining(buy, orders[buy]) * buy.price
      /\ Escrow(sell, orders[sell]) = Remaining(sell, orders[sell])
  BY <1>1, <1>2, OrderFacts, Zenon DEF Escrow
<1>9. Escrow(buy, orders[buy]) \in Int
  BY <1>1, <1>2, OrderFacts, Zenon DEF Escrow
<1>10. Escrow(buy, orders'[buy]) \in Int
  <2>1. Mul64(Remaining(buy, orders'[buy]), buy.price) \in Int
    <3>1. Remaining(buy, orders'[buy]) \in Int /\ buy.price \in Int
      BY <1>2, <1>3, <1>5
    <3> QED BY <3>1, MulInt, Zenon
  <2> QED BY <1>2, <2>1 DEF Escrow
<1> QED BY <1>2, <1>6, <1>7, <1>8, <1>9, <1>10 DEF q

\* A trade moves q units out of the SELL order and q * buy.price satoshi out of
\* the BUY order; both accounts stay balanced.
LEMMA TradeInv ==
    ASSUME IInv, NEW buy \in DOMAIN orders, NEW sell \in DOMAIN orders,
           ATrade(buy, sell)
    PROVE  IInv'
<1> DEFINE q == TradeQty(buy, sell)
           paid == Paid(buy, sell)
           diff == Diff(buy, sell)
<1>1. /\ Crosses(buy, sell) /\ IsLive(orders[buy]) /\ IsLive(orders[sell])
      /\ assetBal' = [assetBal EXCEPT ![buy.asset][buy.owner] = @ + q]
      /\ grdBal' = [[grdBal EXCEPT ![sell.owner] = @ + paid] EXCEPT ![buy.owner] = @ + diff]
      /\ orders' = [orders EXCEPT ![buy] = Filled(buy, @, q), ![sell] = Filled(sell, @, q)]
      /\ trades' = Put(trades, [buy |-> buy, sell |-> sell, timestamp |-> now],
                       [amount |-> q, price |-> sell.price])
      /\ acct' = [acct EXCEPT ![buy].out = @ + paid, ![buy].back = @ + diff,
                              ![sell].out = @ + q]
      /\ UNCHANGED <<now, lostUnits, netGrd>>
  BY Zenon DEF ATrade, Trade
<1>2. /\ buy \in OrderId /\ buy.side = "BUY" /\ buy.asset \in Asset /\ buy.owner \in Address
      /\ sell \in OrderId /\ sell.side = "SELL" /\ sell.owner \in Address
      /\ buy # sell /\ sell.price \in Prices
      /\ buy.amount \in Nat /\ buy.price \in Nat /\ sell.amount \in Nat /\ sell.price \in Nat
      /\ orders[buy] \in OrderRec /\ orders[sell] \in OrderRec
      /\ acct[buy] \in Account /\ acct[sell] \in Account
      /\ Remaining(buy, orders[buy]) \in Nat /\ Remaining(sell, orders[sell]) \in Nat
  BY <1>1, OrderFacts, Zenon DEF OrderId, Crosses
<1>3. /\ q \in Nat /\ q > 0
      /\ q <= Remaining(buy, orders[buy]) /\ q <= Remaining(sell, orders[sell])
      /\ paid \in Int /\ diff \in Int
      /\ ExactValue(buy) => paid >= 0 /\ diff >= 0 /\ paid + diff = q * buy.price
  BY <1>1, TradeFacts
<1> HIDE DEF q, paid, diff
<1>4. assetBal' \in [Asset -> [Address -> Int]] /\ grdBal' \in [Address -> Int] /\ Solvent'
  <2>1. /\ assetBal' \in [Asset -> [Address -> Int]]
        /\ \A a \in Asset, x \in Address : assetBal'[a][x] >= 0
    BY <1>1, <1>2, <1>3 DEF IInv, ATypeOK, TypeOK, Solvent
  <2> DEFINE h == [grdBal EXCEPT ![sell.owner] = @ + paid]
  <2>0. (Exact' => Exact) /\ (Exact => ExactValue(buy))
    BY <1>1, Zenon DEF Exact
  <2>2. h \in [Address -> Int] /\ (Exact => \A x \in Address : h[x] >= 0)
    BY <1>2, <1>3, <2>0 DEF IInv, ATypeOK, TypeOK, Solvent
  <2>3. grdBal' = [h EXCEPT ![buy.owner] = @ + diff]
    BY <1>1, Zenon
  <2> HIDE DEF h
  <2>4. grdBal' \in [Address -> Int] /\ (Exact => \A x \in Address : grdBal'[x] >= 0)
    BY <1>2, <1>3, <2>0, <2>2, <2>3
  <2> QED BY <2>0, <2>1, <2>4, Zenon DEF Solvent
<1>5. DOMAIN trades' \subseteq TradeId /\ \A t \in DOMAIN trades' : trades'[t] \in TradeRec
  BY <1>1, <1>2, <1>3 DEF IInv, ATypeOK, TypeOK, Put, TradeId, TradeRec
<1>6. /\ DOMAIN acct = DOMAIN orders
      /\ DOMAIN orders' = DOMAIN orders /\ DOMAIN acct' = DOMAIN orders
      /\ orders'[buy] = Filled(buy, orders[buy], q)
      /\ orders'[sell] = Filled(sell, orders[sell], q)
      /\ \A k \in DOMAIN orders \ {buy, sell} : orders'[k] = orders[k] /\ acct'[k] = acct[k]
  BY <1>1, <1>2, Zenon DEF IInv, ATypeOK
<1>7. /\ acct'[buy] \in Account /\ acct'[buy].in = acct[buy].in
      /\ acct'[buy].out = acct[buy].out + paid /\ acct'[buy].back = acct[buy].back + diff
      /\ acct'[sell] \in Account /\ acct'[sell].in = acct[sell].in
      /\ acct'[sell].out = acct[sell].out + q /\ acct'[sell].back = acct[sell].back
  BY <1>1, <1>2, <1>3, <1>6 DEF Account
<1>8. /\ orders'[buy] \in OrderRec /\ orders'[sell] \in OrderRec
      /\ Remaining(buy, orders'[buy]) = Remaining(buy, orders[buy]) - q
      /\ Remaining(sell, orders'[sell]) = Remaining(sell, orders[sell]) - q
  BY <1>1, <1>2, <1>3, <1>6, FilledFacts
<1>9. ATypeOK'
  BY <1>1, <1>4, <1>5, <1>6, <1>7, <1>8, Zenon DEF IInv, ATypeOK, TypeOK
<1>10. FillConsistent'
  <2> SUFFICES ASSUME NEW k \in DOMAIN orders
               PROVE  /\ orders'[k].filled <= k.amount
                      /\ IsLive(orders'[k]) => orders'[k].filled < k.amount
                      /\ orders'[k].status = "OPEN" => orders'[k].filled = 0
                      /\ orders'[k].status = "PARTIAL" => orders'[k].filled > 0
                      /\ orders'[k].status = "FILLED" => orders'[k].filled = k.amount
    BY <1>6, Zenon DEF FillConsistent
  <2>1. CASE k = buy
    <3>1. /\ orders'[buy].filled = orders[buy].filled + q /\ orders[buy].filled \in Nat
          /\ orders[buy].filled + q <= buy.amount
          /\ orders[buy].filled + q = buy.amount => orders'[buy].status = "FILLED"
          /\ orders[buy].filled + q < buy.amount => orders'[buy].status = "PARTIAL"
      BY <1>1, <1>2, <1>3, <1>6, FilledFacts DEF OrderRec
    <3> QED BY <2>1, <3>1, <1>2, <1>3 DEF IsLive
  <2>2. CASE k = sell
    <3>1. /\ orders'[sell].filled = orders[sell].filled + q /\ orders[sell].filled \in Nat
          /\ orders[sell].filled + q <= sell.amount
          /\ orders[sell].filled + q = sell.amount => orders'[sell].status = "FILLED"
          /\ orders[sell].filled + q < sell.amount => orders'[sell].status = "PARTIAL"
      BY <1>1, <1>2, <1>3, <1>6, FilledFacts DEF OrderRec
    <3> QED BY <2>2, <3>1, <1>2, <1>3 DEF IsLive
  <2>3. CASE k \notin {buy, sell}
    BY <2>3, <1>6, Zenon DEF IInv, FillConsistent
  <2> QED BY <2>1, <2>2, <2>3, Zenon
<1>11. /\ ExactValue(buy) =>
            Escrow(buy, orders'[buy]) = Escrow(buy, orders[buy]) - q * buy.price
       /\ Escrow(sell, orders'[sell]) = Escrow(sell, orders[sell]) - q
       /\ Escrow(buy, orders[buy]) \in Int /\ Escrow(sell, orders[sell]) \in Int
  BY TradeEscrow, Zenon DEF ATrade, q
<1>12. EscrowBacked'
  <2> SUFFICES ASSUME NEW k \in DOMAIN orders, ExactValue(k)
               PROVE  /\ acct'[k].out >= 0 /\ acct'[k].back >= 0
                      /\ acct'[k].in = acct'[k].out + acct'[k].back + Escrow(k, orders'[k])
    BY <1>6, Zenon DEF EscrowBacked
  <2>1. CASE k = buy
    <3>1. /\ acct[buy].out >= 0 /\ acct[buy].back >= 0
          /\ acct[buy].in = acct[buy].out + acct[buy].back
                            + Escrow(buy, orders[buy])
      BY <2>1, Zenon DEF IInv, EscrowBacked
    <3>2. q * buy.price \in Int
      BY <1>2, <1>3
    <3> QED BY <2>1, <3>1, <3>2, <1>2, <1>3, <1>7, <1>11 DEF Account
  <2>2. CASE k = sell
    <3>1. /\ acct[sell].out >= 0 /\ acct[sell].back >= 0
          /\ acct[sell].in = acct[sell].out + acct[sell].back + Escrow(sell, orders[sell])
      BY <2>2, Zenon DEF IInv, EscrowBacked
    <3> QED BY <2>2, <3>1, <1>2, <1>3, <1>7, <1>11 DEF Account
  <2>3. CASE k \notin {buy, sell}
    BY <2>3, <1>6, Zenon DEF IInv, EscrowBacked
  <2> QED BY <2>1, <2>2, <2>3, Zenon
<1> QED BY <1>4, <1>9, <1>10, <1>12, Zenon DEF IInv

\* depositgrd, withdrawgrd and the clock leave the order book alone.
LEMMA OtherInv ==
    ASSUME IInv,
           \/ \E x \in Address, n \in Deposits : ADeposit(x, n) \/ AWithdraw(x, n)
           \/ ATick
           \/ UNCHANGED avars
    PROVE  IInv'
<1>1. UNCHANGED <<assetBal, orders, trades, acct, lostUnits>>
  BY Zenon DEF ADeposit, AWithdraw, depositgrd, withdrawgrd, ATick, Tick, avars
<1>0. Exact' => Exact
  BY <1>1, Zenon DEF Exact
<1>2. \A n \in Deposits : n \in Nat
  BY EscrowAssumption, Zenon DEF EscrowAssumption
<1>3. grdBal' \in [Address -> Int] /\ netGrd' \in Int /\ now' \in Nat /\ Solvent'
  <2>1. CASE \E x \in Address, n \in Deposits : ADeposit(x, n)
    BY <1>0, <2>1, <1>1, <1>2 DEF ADeposit, depositgrd, IInv, ATypeOK, TypeOK, Solvent
  <2>2. CASE \E x \in Address, n \in Deposits : AWithdraw(x, n)
    BY <1>0, <2>2, <1>1, <1>2 DEF AWithdraw, withdrawgrd, IInv, ATypeOK, TypeOK, Solvent
  <2>3. CASE ATick
    BY <1>0, <2>3, <1>1 DEF ATick, Tick, IInv, ATypeOK, TypeOK, Solvent
  <2>4. CASE UNCHANGED avars
    BY <1>0, <2>4, Zenon DEF avars, IInv, ATypeOK, TypeOK, Solvent
  <2> QED BY <2>1, <2>2, <2>3, <2>4, Zenon
<1>4. ATypeOK'
  BY <1>1, <1>3, Zenon DEF IInv, ATypeOK, TypeOK
<1>5. FillConsistent' /\ EscrowBacked'
  BY <1>1, Zenon DEF IInv, FillConsistent, EscrowBacked
<1> QED BY <1>3, <1>4, <1>5, Zenon DEF IInv

\* Every handler and every trade preserves the invariant.
LEMMA StepInv ==
    ASSUME IInv, [ANext]_avars
    PROVE  IInv'
<1>1. CASE \E id \in OrdersNow("SELL") : APlaceSell(id)
  BY <1>1, PlaceSellInv, Zenon
<1>2. CASE \E id \in OrdersNow("BUY") : APlaceBuy(id)
  BY <1>2, PlaceBuyInv, Zenon
<1>3. CASE \E id \in DOMAIN orders : ACancel(id)
  BY <1>3, CancelInv, Zenon
<1>4. CASE \E buy, sell \in DOMAIN orders : ATrade(buy, sell)
  BY <1>4, TradeInv, Zenon
<1>5. CASE \/ \E x \in Address, n \in Deposits : ADeposit(x, n) \/ AWithdraw(x, n)
           \/ ATick
           \/ UNCHANGED avars
  BY <1>5, OtherInv, Zenon
<1> QED BY <1>1, <1>2, <1>3, <1>4, <1>5, Zenon DEF ANext

\* The inductive invariant holds in every reachable state.
THEOREM AccountsInvariant == ASpec => []IInv
<1>1. AInit => IInv
  BY InitInv, Zenon
<1>2. IInv /\ [ANext]_avars => IInv'
  BY StepInv, Zenon
<1> QED BY <1>1, <1>2, PTL DEF ASpec

\* Type correctness of the ledger, the order book and their history, whatever
\* amounts and prices are asked for.
THEOREM AccountsTypeCorrect == ASpec => []ATypeOK
<1>1. IInv => ATypeOK
  BY Zenon DEF IInv
<1> QED BY <1>1, AccountsInvariant, PTL

\* No sequence of placements, cancellations, trades, deposits and withdrawals
\* stores a negative balance of an asset, and none of virtual GRD before a BUY
\* order is stored whose amount * price does not fit int64_t.
THEOREM LedgerSolvent == ASpec => []Solvent
<1>1. IInv => Solvent
  BY Zenon DEF IInv
<1> QED BY <1>1, AccountsInvariant, PTL

\* The status of an order always agrees with how much of it is filled.
THEOREM FillsConsistent == ASpec => []FillConsistent
<1>1. IInv => FillConsistent
  BY Zenon DEF IInv
<1> QED BY <1>1, AccountsInvariant, PTL

\* Every satoshi and every unit placeorder took is accounted for by trades,
\* refunds and what the order still holds, for every SELL order and every BUY order
\* whose amount * price fits int64_t, whatever other orders are in the book.
THEOREM OrdersBacked == ASpec => []EscrowBacked
<1>1. IInv => EscrowBacked
  BY Zenon DEF IInv
<1> QED BY <1>1, AccountsInvariant, PTL
-----------------------------------------------------------------------------
(* Conservation of units and of virtual GRD.                                 *)

\* The escrow of a stored order is an integer.
LEMMA EscrowInt ==
    ASSUME IInv, NEW id \in DOMAIN orders
    PROVE  Escrow(id, orders[id]) \in Int
BY OrderFacts DEF Escrow

\* The orders of K hold the same in two books that agree on them.
LEMMA EscrowSame ==
    ASSUME NEW K, IsFiniteSet(K), NEW b, NEW c, \A k \in K : c[k] = b[k]
    PROVE  TotalEscrow(c, K) = TotalEscrow(b, K)
<1> DEFINE f == [k \in K |-> Escrow(k, b[k])]
           g == [k \in K |-> Escrow(k, c[k])]
<1>1. f = g
  BY Zenon
<1> QED BY <1>1, Zenon DEF TotalEscrow

\* The book is finite.
FiniteBook == IsFiniteSet(DOMAIN orders)

SellIds(a) == {id \in DOMAIN orders : id.side = "SELL" /\ id.asset = a}
BuyIds == {id \in DOMAIN orders : id.side = "BUY"}

\* What any part of the book holds is an integer.
LEMMA EscrowsAreInts ==
    ASSUME IInv, FiniteBook, NEW K \in SUBSET DOMAIN orders
    PROVE  IsFiniteSet(K) /\ TotalEscrow(orders, K) \in Int
<1> DEFINE f == [k \in K |-> Escrow(k, orders[k])]
<1>1. IsFiniteSet(K)
  BY FS_Subset, Zenon DEF FiniteBook
<1>2. DOMAIN f = K /\ \A k \in K : f[k] \in Int
  BY EscrowInt, Zenon
<1> HIDE DEF f
<1>3. SumFunction(f) \in Int
  BY <1>1, <1>2, SumFunctionInt, Zenon
<1> QED BY <1>1, <1>3, Zenon DEF TotalEscrow, f

\* What the sums range over is finite and has integer values.
LEMMA SumsAreInts ==
    ASSUME IInv, FiniteBook
    PROVE  /\ BuyEscrow \in Int /\ IsFiniteSet(BuyIds)
           /\ SumFunction(grdBal) \in Int
           /\ \A a \in Asset : /\ SellEscrow(a) \in Int /\ IsFiniteSet(SellIds(a))
                               /\ SumFunction(assetBal[a]) \in Int
<1>1. \A K \in SUBSET DOMAIN orders : IsFiniteSet(K) /\ TotalEscrow(orders, K) \in Int
  BY EscrowsAreInts, Zenon
<1>2. IsFiniteSet(Address)
  BY OrderAssumption, Zenon DEF OrderAssumption
<1>3. grdBal \in [Address -> Int] /\ assetBal \in [Asset -> [Address -> Int]]
  BY Zenon DEF IInv, ATypeOK, TypeOK
<1>4. SumFunction(grdBal) \in Int
  BY <1>2, <1>3, SumFunctionInt, Zenon
<1>5. \A a \in Asset : SumFunction(assetBal[a]) \in Int
  BY <1>2, <1>3, SumFunctionInt, Zenon
<1>6. BuyIds \in SUBSET DOMAIN orders /\ \A a : SellIds(a) \in SUBSET DOMAIN orders
  BY Zenon DEF BuyIds, SellIds
<1> QED BY <1>1, <1>4, <1>5, <1>6, Zenon DEF BuyEscrow, SellEscrow, BuyIds, SellIds

\* Storing one order in a book of which K is a part.
LEMMA EscrowStored ==
    ASSUME IInv, FiniteBook, NEW id, NEW b, Escrow(id, b[id]) \in Int,
           NEW K \in SUBSET DOMAIN orders, id \in K <=> id \in DOMAIN orders,
           \A k \in K : k # id => b[k] = orders[k]
    PROVE  TotalEscrow(b, K \cup {id}) =
             TotalEscrow(orders, K) + Escrow(id, b[id]) - Overwritten(id)
<1>1. IsFiniteSet(K)
  BY FS_Subset, Zenon DEF FiniteBook
<1>2. \A k \in K : Escrow(k, orders[k]) \in Int
  BY EscrowInt, Zenon
<1>3. TotalEscrow(orders, K) \in Int
  BY EscrowsAreInts, Zenon
<1>4. CASE id \in K
  <2>1. K \cup {id} = K /\ Overwritten(id) = Escrow(id, orders[id])
    BY <1>4, Zenon DEF Overwritten
  <2> DEFINE f == [k \in K |-> Escrow(k, orders[k])]
             g == [k \in K |-> Escrow(k, b[k])]
  <2>2. /\ DOMAIN f = K /\ DOMAIN g = K /\ g[id] = Escrow(id, b[id])
        /\ f[id] = Escrow(id, orders[id])
        /\ \A k \in K : f[k] \in Int
        /\ \A k \in K \ {id} : g[k] = f[k]
    BY <1>2, <1>4, Zenon
  <2>3. SumFunction(f) = TotalEscrow(orders, K) /\ SumFunction(g) = TotalEscrow(b, K)
    BY Zenon DEF TotalEscrow
  <2> HIDE DEF f, g
  <2>4. SumFunction(g) = SumFunction(f) - f[id] + g[id]
    BY <1>1, <1>4, <2>2, SumUpdate
  <2>5. f[id] \in Int /\ g[id] \in Int /\ SumFunction(f) \in Int
    BY <1>3, <1>4, <2>2, <2>3, Zenon
  <2>6. SumFunction(g) = SumFunction(f) + g[id] - f[id]
    BY <2>4, <2>5
  <2> QED BY <2>1, <2>2, <2>3, <2>6, Zenon
<1>5. CASE id \notin K
  <2>1. Overwritten(id) = 0 /\ \A k \in K : b[k] = orders[k]
    BY <1>5, Zenon DEF Overwritten
  <2> DEFINE f == [k \in K |-> Escrow(k, orders[k])]
             g == [k \in K \cup {id} |-> Escrow(k, b[k])]
  <2>2. /\ DOMAIN f = K /\ DOMAIN g = K \cup {id} /\ g[id] = Escrow(id, b[id])
        /\ \A k \in K : f[k] \in Int /\ g[k] = f[k]
    BY <1>2, <1>5, <2>1, Zenon
  <2>3. /\ SumFunction(f) = TotalEscrow(orders, K)
        /\ SumFunction(g) = TotalEscrow(b, K \cup {id})
    BY Zenon DEF TotalEscrow
  <2> HIDE DEF f, g
  <2>4. SumFunction(g) = SumFunction(f) + g[id]
    BY <1>1, <1>5, <2>2, SumAdd
  <2> QED BY <1>3, <2>1, <2>2, <2>3, <2>4
<1> QED BY <1>4, <1>5, Zenon

\* A SELL order is stored: only the escrow of its asset changes.
LEMMA SellStored ==
    ASSUME IInv, FiniteBook, NEW id, id.side = "SELL", NEW b,
           DOMAIN b = DOMAIN orders \cup {id}, Escrow(id, b[id]) \in Int,
           \A k \in DOMAIN orders : k.side = "SELL" /\ k # id => b[k] = orders[k],
           NEW a \in Asset
    PROVE  TotalEscrow(b, {k \in DOMAIN b : k.side = "SELL" /\ k.asset = a}) =
             IF a = id.asset THEN SellEscrow(a) + Escrow(id, b[id]) - Overwritten(id)
             ELSE SellEscrow(a)
<1> DEFINE K == SellIds(a)
           L == {k \in DOMAIN b : k.side = "SELL" /\ k.asset = a}
<1>1. K \in SUBSET DOMAIN orders /\ SellEscrow(a) = TotalEscrow(orders, K)
  BY Zenon DEF SellEscrow, SellIds
<1>2. IsFiniteSet(K)
  BY SumsAreInts, Zenon
<1>3. \A k \in K : k # id => b[k] = orders[k]
  BY Zenon DEF SellIds
<1>4. CASE a = id.asset
  <2>1. L = K \cup {id} /\ (id \in K <=> id \in DOMAIN orders)
    BY <1>4, Zenon DEF SellIds
  <2> HIDE DEF K, L
  <2>2. TotalEscrow(b, L) = TotalEscrow(orders, K) + Escrow(id, b[id]) - Overwritten(id)
    BY <1>1, <1>3, <2>1, EscrowStored, Zenon
  <2> QED BY <1>1, <1>4, <2>2, Zenon DEF L
<1>5. CASE a # id.asset
  <2>1. L = K /\ id \notin K
    BY <1>5, Zenon DEF SellIds
  <2> HIDE DEF K, L
  <2>2. TotalEscrow(b, K) = TotalEscrow(orders, K)
    BY <1>2, <1>3, <2>1, EscrowSame, Zenon
  <2> QED BY <1>1, <1>5, <2>1, <2>2, Zenon DEF L
<1> QED BY <1>4, <1>5, Zenon

\* The same for a BUY order.
LEMMA BuyStored ==
    ASSUME IInv, FiniteBook, NEW id, id.side = "BUY", NEW b,
           DOMAIN b = DOMAIN orders \cup {id}, Escrow(id, b[id]) \in Int,
           \A k \in DOMAIN orders : k.side = "BUY" /\ k # id => b[k] = orders[k]
    PROVE  TotalEscrow(b, {k \in DOMAIN b : k.side = "BUY"}) =
             BuyEscrow + Escrow(id, b[id]) - Overwritten(id)
<1> DEFINE K == BuyIds
           L == {k \in DOMAIN b : k.side = "BUY"}
<1>1. K \in SUBSET DOMAIN orders /\ BuyEscrow = TotalEscrow(orders, K)
  BY Zenon DEF BuyEscrow, BuyIds
<1>2. \A k \in K : k # id => b[k] = orders[k]
  BY Zenon DEF BuyIds
<1>3. L = K \cup {id} /\ (id \in K <=> id \in DOMAIN orders)
  BY Zenon DEF BuyIds
<1> HIDE DEF K, L
<1>4. TotalEscrow(b, L) = TotalEscrow(orders, K) + Escrow(id, b[id]) - Overwritten(id)
  BY <1>1, <1>2, <1>3, EscrowStored, Zenon
<1> QED BY <1>1, <1>4, Zenon DEF L

\* The SELL side of a book that differs in BUY orders only.
LEMMA SellSideKept ==
    ASSUME IInv, FiniteBook, NEW b, NEW a \in Asset,
           \A k : k.side = "SELL" => (k \in DOMAIN b <=> k \in DOMAIN orders),
           \A k \in DOMAIN orders : k.side = "SELL" => b[k] = orders[k]
    PROVE  TotalEscrow(b, {k \in DOMAIN b : k.side = "SELL" /\ k.asset = a}) = SellEscrow(a)
<1>1. {k \in DOMAIN b : k.side = "SELL" /\ k.asset = a} = SellIds(a)
  BY Zenon DEF SellIds
<1>2. IsFiniteSet(SellIds(a)) /\ \A k \in SellIds(a) : b[k] = orders[k]
  BY SumsAreInts, Zenon DEF SellIds
<1>3. TotalEscrow(b, SellIds(a)) = TotalEscrow(orders, SellIds(a))
  BY <1>2, EscrowSame, Zenon
<1> QED BY <1>1, <1>3, Zenon DEF SellEscrow, SellIds

\* The BUY side of a book that differs in SELL orders only.
LEMMA BuySideKept ==
    ASSUME IInv, FiniteBook, NEW b,
           \A k : k.side = "BUY" => (k \in DOMAIN b <=> k \in DOMAIN orders),
           \A k \in DOMAIN orders : k.side = "BUY" => b[k] = orders[k]
    PROVE  TotalEscrow(b, {k \in DOMAIN b : k.side = "BUY"}) = BuyEscrow
<1>1. {k \in DOMAIN b : k.side = "BUY"} = BuyIds
  BY Zenon DEF BuyIds
<1>2. IsFiniteSet(BuyIds) /\ \A k \in BuyIds : b[k] = orders[k]
  BY SumsAreInts, Zenon DEF BuyIds
<1>3. TotalEscrow(b, BuyIds) = TotalEscrow(orders, BuyIds)
  BY <1>2, EscrowSame, Zenon
<1> QED BY <1>1, <1>3, Zenon DEF BuyEscrow, BuyIds

\* A balance that changes by d changes the total by d.
LEMMA TotalMoves ==
    ASSUME NEW f \in [Address -> Int], NEW g \in [Address -> Int], NEW x \in Address,
           NEW d \in Int, g[x] = f[x] + d, \A y \in Address \ {x} : g[y] = f[y]
    PROVE  SumFunction(g) = SumFunction(f) + d
BY OrderAssumption, SumMoves DEF OrderAssumption

\* The escrow an overwritten order held is an integer.
LEMMA OverwrittenInt ==
    ASSUME IInv, NEW id
    PROVE  Overwritten(id) \in Int
<1>1. CASE id \in DOMAIN orders
  BY <1>1, EscrowInt, Zenon DEF Overwritten
<1>2. CASE id \notin DOMAIN orders
  BY <1>2 DEF Overwritten
<1> QED BY <1>1, <1>2, Zenon

\* Nothing is created and nothing is lost, on a finite book.
Conserving == FiniteBook /\ AssetConserved /\ GrdConserved

\* Units credited to or debited from one balance change the total of its asset.
LEMMA UnitsMove ==
    ASSUME IInv, NEW asset \in Asset, NEW x \in Address, NEW d \in Int,
           assetBal' = [assetBal EXCEPT ![asset][x] = @ + d]
    PROVE  \A a \in Asset : SumFunction(assetBal'[a]) =
             IF a = asset THEN SumFunction(assetBal[a]) + d ELSE SumFunction(assetBal[a])
<1>1. assetBal \in [Asset -> [Address -> Int]]
  BY Zenon DEF IInv, ATypeOK, TypeOK
<1>2. /\ assetBal[asset] \in [Address -> Int] /\ assetBal'[asset] \in [Address -> Int]
      /\ assetBal'[asset][x] = assetBal[asset][x] + d
      /\ \A y \in Address \ {x} : assetBal'[asset][y] = assetBal[asset][y]
      /\ \A a \in Asset \ {asset} : assetBal'[a] = assetBal[a]
  BY <1>1
<1>3. SumFunction(assetBal'[asset]) = SumFunction(assetBal[asset]) + d
  BY <1>2, TotalMoves
<1> QED BY <1>2, <1>3

\* The same for virtual GRD.
LEMMA GrdMoves ==
    ASSUME IInv, NEW x \in Address, NEW d \in Int, grdBal' = [grdBal EXCEPT ![x] = @ + d]
    PROVE  SumFunction(grdBal') = SumFunction(grdBal) + d
<1>1. grdBal \in [Address -> Int]
  BY Zenon DEF IInv, ATypeOK, TypeOK
<1>2. /\ grdBal' \in [Address -> Int] /\ grdBal'[x] = grdBal[x] + d
      /\ \A y \in Address \ {x} : grdBal'[y] = grdBal[y]
  BY <1>1
<1>3. \A g \in [Address -> Int] :
        g[x] = grdBal[x] + d /\ (\A y \in Address \ {x} : g[y] = grdBal[y])
          => SumFunction(g) = SumFunction(grdBal) + d
  BY <1>1, TotalMoves, Zenon
<1> QED BY <1>2, <1>3, Zenon

\* The SELL side of the book is left alone: so are the units it holds.
LEMMA SellSideSame ==
    ASSUME IInv, FiniteBook, NEW id, id.side = "BUY",
           DOMAIN orders' = DOMAIN orders \cup {id},
           \A k \in DOMAIN orders : k # id => orders'[k] = orders[k]
    PROVE  \A a \in Asset : SellEscrow(a)' = SellEscrow(a)
<1> SUFFICES ASSUME NEW a \in Asset PROVE SellEscrow(a)' = SellEscrow(a)
  BY Zenon
<1>1. /\ \A k : k.side = "SELL" => (k \in DOMAIN orders' <=> k \in DOMAIN orders)
      /\ \A k \in DOMAIN orders : k.side = "SELL" => orders'[k] = orders[k]
  BY Zenon
<1>2. TotalEscrow(orders', {k \in DOMAIN orders' : k.side = "SELL" /\ k.asset = a}) = SellEscrow(a)
  BY <1>1, SellSideKept, Zenon
<1> QED BY <1>2, Zenon DEF SellEscrow

\* The same for the BUY side.
LEMMA BuySideSame ==
    ASSUME IInv, FiniteBook, NEW id, id.side = "SELL",
           DOMAIN orders' = DOMAIN orders \cup {id},
           \A k \in DOMAIN orders : k # id => orders'[k] = orders[k]
    PROVE  BuyEscrow' = BuyEscrow
<1>1. /\ \A k : k.side = "BUY" => (k \in DOMAIN orders' <=> k \in DOMAIN orders)
      /\ \A k \in DOMAIN orders : k.side = "BUY" => orders'[k] = orders[k]
  BY Zenon
<1>2. TotalEscrow(orders', {k \in DOMAIN orders' : k.side = "BUY"}) = BuyEscrow
  BY <1>1, BuySideKept, Zenon
<1> QED BY <1>2, Zenon DEF BuyEscrow

\* A stored SELL order changes what its asset has in escrow by what it holds.
LEMMA SellSideChanged ==
    ASSUME IInv, FiniteBook, NEW id, id.side = "SELL",
           DOMAIN orders' = DOMAIN orders \cup {id}, Escrow(id, orders'[id]) \in Int,
           \A k \in DOMAIN orders : k.side = "SELL" /\ k # id => orders'[k] = orders[k]
    PROVE  \A a \in Asset : SellEscrow(a)' =
             IF a = id.asset THEN SellEscrow(a) + Escrow(id, orders'[id]) - Overwritten(id)
             ELSE SellEscrow(a)
<1> SUFFICES ASSUME NEW a \in Asset
             PROVE  SellEscrow(a)' = IF a = id.asset
                      THEN SellEscrow(a) + Escrow(id, orders'[id]) - Overwritten(id)
                      ELSE SellEscrow(a)
  BY Zenon
<1>1. TotalEscrow(orders', {k \in DOMAIN orders' : k.side = "SELL" /\ k.asset = a}) =
        IF a = id.asset THEN SellEscrow(a) + Escrow(id, orders'[id]) - Overwritten(id)
        ELSE SellEscrow(a)
  BY SellStored, Zenon
<1> QED BY <1>1, Zenon DEF SellEscrow

\* The same for a BUY order.
LEMMA BuySideChanged ==
    ASSUME IInv, FiniteBook, NEW id, id.side = "BUY",
           DOMAIN orders' = DOMAIN orders \cup {id}, Escrow(id, orders'[id]) \in Int,
           \A k \in DOMAIN orders : k.side = "BUY" /\ k # id => orders'[k] = orders[k]
    PROVE  BuyEscrow' = BuyEscrow + Escrow(id, orders'[id]) - Overwritten(id)
<1>1. TotalEscrow(orders', {k \in DOMAIN orders' : k.side = "BUY"}) =
        BuyEscrow + Escrow(id, orders'[id]) - Overwritten(id)
  BY BuyStored, Zenon
<1> QED BY <1>1, Zenon DEF BuyEscrow

\* What Conserving and the typing say of the sums.
LEMMA ConservingFacts ==
    ASSUME IInv, Conserving
    PROVE  /\ FiniteBook /\ SumFunction(grdBal) \in Int /\ BuyEscrow \in Int /\ netGrd \in Int
           /\ Exact => SumFunction(grdBal) + BuyEscrow = SumFunction(InitGrd) + netGrd
           /\ \A a \in Asset :
                /\ SumFunction(assetBal[a]) \in Int /\ SellEscrow(a) \in Int
                /\ lostUnits[a] \in Int
                /\ SumFunction(assetBal[a]) + SellEscrow(a) + lostUnits[a]
                     = SumFunction(InitAsset[a])
           /\ SumFunction(InitGrd) \in Int
<1>1. FiniteBook
  BY Zenon DEF Conserving
<1>2. SumFunction(InitGrd) \in Int
  BY EscrowAssumption, OrderAssumption, SumFunctionInt DEF EscrowAssumption, OrderAssumption
<1> QED BY <1>1, <1>2, SumsAreInts, Zenon DEF Conserving, AssetConserved, GrdConserved, IInv, ATypeOK

\* The units a SELL order escrows leave its owner's balance.
LEMMA PlaceSellConserves ==
    ASSUME IInv, Conserving, NEW id \in OrdersNow("SELL"), APlaceSell(id)
    PROVE  Conserving'
<1>1. /\ id.side = "SELL" /\ id.asset \in Asset /\ id.owner \in Address
      /\ id.amount \in Nat /\ - id.amount \in Int
  BY NewIdFacts DEF Side
<1>2. /\ DOMAIN orders' = DOMAIN orders \cup {id} /\ orders'[id] = NewOrder
      /\ \A k \in DOMAIN orders : k # id => orders'[k] = orders[k]
  BY Zenon DEF APlaceSell, PlaceSell, Put
<1>3. Escrow(id, orders'[id]) = id.amount
  BY <1>1, <1>2 DEF Escrow, NewOrder, IsLive, Remaining
<1>4. FiniteBook /\ FiniteBook'
  BY <1>2, FS_AddElement, Zenon DEF Conserving, FiniteBook
<1>5. \A a \in Asset : SellEscrow(a)' =
        IF a = id.asset THEN SellEscrow(a) + id.amount - Overwritten(id) ELSE SellEscrow(a)
  BY <1>1, <1>2, <1>3, <1>4, SellSideChanged
<1>6. \A a \in Asset : SumFunction(assetBal'[a]) =
        IF a = id.asset THEN SumFunction(assetBal[a]) + (- id.amount)
        ELSE SumFunction(assetBal[a])
  <2>1. assetBal' = [assetBal EXCEPT ![id.asset][id.owner] = @ + (- id.amount)]
    BY <1>1, Zenon DEF IInv, ATypeOK, TypeOK, APlaceSell, PlaceSell
  <2> QED BY <1>1, <2>1, UnitsMove, Zenon
<1>7. AssetConserved'
  <2> SUFFICES ASSUME NEW a \in Asset
               PROVE  SumFunction(assetBal'[a]) + SellEscrow(a)' + lostUnits'[a]
                        = SumFunction(InitAsset[a])
    BY Zenon DEF AssetConserved
  <2>1. lostUnits'[a] = IF a = id.asset THEN lostUnits[a] + Overwritten(id) ELSE lostUnits[a]
    BY <1>1, Zenon DEF APlaceSell, IInv, ATypeOK
  <2>2. /\ SumFunction(assetBal[a]) \in Int /\ SellEscrow(a) \in Int /\ lostUnits[a] \in Int
        /\ SumFunction(assetBal[a]) + SellEscrow(a) + lostUnits[a] = SumFunction(InitAsset[a])
    BY ConservingFacts, Zenon
  <2>3. Overwritten(id) \in Int
    BY OverwrittenInt, Zenon
  <2>4. CASE a = id.asset
    BY <1>1, <1>5, <1>6, <2>1, <2>2, <2>3, <2>4
  <2>5. CASE a # id.asset
    BY <1>5, <1>6, <2>1, <2>2, <2>5, Zenon
  <2> QED BY <2>4, <2>5, Zenon
<1>8. GrdConserved'
  <2>1. BuyEscrow' = BuyEscrow
    BY <1>1, <1>2, <1>4, BuySideSame, Zenon
  <2>2. Exact' => Exact
    BY <1>2, Zenon DEF Exact
  <2> QED BY <2>1, <2>2, Zenon DEF Conserving, GrdConserved, APlaceSell, PlaceSell
<1> QED BY <1>4, <1>7, <1>8, Zenon DEF Conserving

\* The satoshi a BUY order escrows leave its owner's virtual GRD.
LEMMA PlaceBuyConserves ==
    ASSUME IInv, Conserving, NEW id \in OrdersNow("BUY"), APlaceBuy(id)
    PROVE  Conserving'
<1> DEFINE debit == Mul64(id.amount, id.price)
<1>1. /\ id.side = "BUY" /\ id.owner \in Address /\ id.amount \in Nat
      /\ id.price \in Nat /\ debit \in Int /\ - debit \in Int
  BY NewIdFacts DEF Side
<1>2. /\ DOMAIN orders' = DOMAIN orders \cup {id} /\ orders'[id] = NewOrder
      /\ \A k \in DOMAIN orders : k # id => orders'[k] = orders[k]
  BY Zenon DEF APlaceBuy, PlaceBuy, Put
<1>3. Escrow(id, orders'[id]) = debit
  BY <1>1, <1>2 DEF Escrow, NewOrder, IsLive, Remaining
<1>4. FiniteBook /\ FiniteBook'
  BY <1>2, FS_AddElement, Zenon DEF Conserving, FiniteBook
<1>5. grdBal' = [grdBal EXCEPT ![id.owner] = @ + (- debit)] /\ netGrd' = netGrd - Overwritten(id)
  BY <1>1, Zenon DEF IInv, ATypeOK, TypeOK, APlaceBuy, PlaceBuy
<1> HIDE DEF debit
<1>6. BuyEscrow' = BuyEscrow + debit - Overwritten(id)
  BY <1>1, <1>2, <1>3, <1>4, BuySideChanged
<1>7. SumFunction(grdBal') = SumFunction(grdBal) + (- debit)
  BY <1>1, <1>5, GrdMoves, Zenon
<1>8. GrdConserved'
  <2>1. Overwritten(id) \in Int
    BY OverwrittenInt, Zenon
  <2>2. Exact => SumFunction(grdBal') + BuyEscrow' = SumFunction(InitGrd) + netGrd'
    BY <1>1, <1>5, <1>6, <1>7, <2>1, ConservingFacts
  <2>3. Exact' => Exact
    BY <1>2, Zenon DEF Exact
  <2> QED BY <2>2, <2>3, Zenon DEF GrdConserved
<1>9. AssetConserved'
  <2>1. \A a \in Asset : SellEscrow(a)' = SellEscrow(a)
    BY <1>1, <1>2, <1>4, SellSideSame, Zenon
  <2> QED BY <2>1, Zenon DEF Conserving, AssetConserved, APlaceBuy, PlaceBuy
<1> QED BY <1>4, <1>8, <1>9, Zenon DEF Conserving

\* cancelorder moves what the order holds back to its owner.
LEMMA CancelConserves ==
    ASSUME IInv, Conserving, NEW id \in DOMAIN orders, ACancel(id)
    PROVE  Conserving'
<1>1. /\ id \in OrderId /\ id.side \in Side /\ id.asset \in Asset /\ id.owner \in Address
      /\ orders[id] \in OrderRec /\ IsLive(orders[id])
  BY OrderFacts, Zenon DEF OrderId, ACancel, CancelSell, CancelBuy
<1>2. Refund(id) \in Int /\ Overwritten(id) = Refund(id)
  BY <1>1, OrderFacts DEF Refund, Escrow, Side, Overwritten
<1>3. orders' = [orders EXCEPT ![id].status = "CANCELLED"] /\ UNCHANGED <<lostUnits, netGrd>>
  BY Zenon DEF ACancel, CancelSell, CancelBuy
<1>4. /\ DOMAIN orders' = DOMAIN orders \cup {id} /\ orders'[id].status = "CANCELLED"
      /\ \A k \in DOMAIN orders : k # id => orders'[k] = orders[k]
  BY <1>1, <1>3, Zenon DEF OrderRec
<1>5. Escrow(id, orders'[id]) = 0
  BY <1>4, Zenon DEF Escrow, IsLive
<1>6. DOMAIN orders' = DOMAIN orders
  BY <1>3, Zenon
<1>10. Exact' => Exact
  BY <1>6, Zenon DEF Exact
<1>7. FiniteBook /\ FiniteBook'
  BY <1>6, Zenon DEF Conserving, FiniteBook
<1>8. CASE CancelSell(id)
  <2>1. id.side = "SELL" /\ UNCHANGED grdBal
        /\ assetBal' = [assetBal EXCEPT ![id.asset][id.owner] = @ + Refund(id)]
    BY <1>8, Zenon DEF CancelSell
  <2>2. \A a \in Asset : SellEscrow(a)' =
          IF a = id.asset THEN SellEscrow(a) + 0 - Refund(id) ELSE SellEscrow(a)
    BY <1>2, <1>4, <1>5, <1>7, <2>1, SellSideChanged
  <2>3. \A a \in Asset : SumFunction(assetBal'[a]) =
          IF a = id.asset THEN SumFunction(assetBal[a]) + Refund(id)
          ELSE SumFunction(assetBal[a])
    BY <1>1, <1>2, <2>1, UnitsMove, Zenon
  <2>4. AssetConserved'
    <3> SUFFICES ASSUME NEW a \in Asset
                 PROVE  SumFunction(assetBal'[a]) + SellEscrow(a)' + lostUnits'[a]
                          = SumFunction(InitAsset[a])
      BY Zenon DEF AssetConserved
    <3>1. /\ SumFunction(assetBal[a]) \in Int /\ SellEscrow(a) \in Int /\ lostUnits[a] \in Int
          /\ SumFunction(assetBal[a]) + SellEscrow(a) + lostUnits[a] = SumFunction(InitAsset[a])
      BY ConservingFacts, Zenon
    <3>2. CASE a = id.asset
      BY <1>2, <1>3, <2>2, <2>3, <3>1, <3>2
    <3>3. CASE a # id.asset
      BY <1>3, <2>2, <2>3, <3>1, <3>3, Zenon
    <3> QED BY <3>2, <3>3, Zenon
  <2>5. BuyEscrow' = BuyEscrow
    BY <1>4, <1>7, <2>1, BuySideSame, Zenon
  <2>6. GrdConserved'
    BY <1>3, <1>10, <2>1, <2>5, Zenon DEF Conserving, GrdConserved
  <2> QED BY <1>7, <2>4, <2>6, Zenon DEF Conserving
<1>9. CASE CancelBuy(id)
  <2>1. id.side = "BUY" /\ UNCHANGED assetBal
        /\ grdBal' = [grdBal EXCEPT ![id.owner] = @ + Refund(id)]
    BY <1>9, Zenon DEF CancelBuy
  <2>2. BuyEscrow' = BuyEscrow + 0 - Refund(id)
    BY <1>2, <1>4, <1>5, <1>7, <2>1, BuySideChanged
  <2>3. SumFunction(grdBal') = SumFunction(grdBal) + Refund(id)
    BY <1>1, <1>2, <2>1, GrdMoves, Zenon
  <2>4. Exact => SumFunction(grdBal') + BuyEscrow' = SumFunction(InitGrd) + netGrd'
    BY <1>2, <1>3, <2>2, <2>3, ConservingFacts
  <2>5. GrdConserved'
    BY <1>10, <2>4, Zenon DEF GrdConserved
  <2>6. \A a \in Asset : SellEscrow(a)' = SellEscrow(a)
    BY <1>4, <1>7, <2>1, SellSideSame, Zenon
  <2>7. AssetConserved'
    BY <1>3, <2>1, <2>6, Zenon DEF Conserving, AssetConserved
  <2> QED BY <1>7, <2>5, <2>7, Zenon DEF Conserving
<1> QED BY <1>8, <1>9, Zenon DEF ACancel

\* A trade hands the units to the buyer and the satoshi to the seller and, for
\* the price improvement, back to the buyer.
LEMMA TradeConserves ==
    ASSUME IInv, Conserving, NEW buy \in DOMAIN orders, NEW sell \in DOMAIN orders,
           ATrade(buy, sell)
    PROVE  Conserving'
<1> DEFINE q == TradeQty(buy, sell)
           paid == Paid(buy, sell)
           diff == Diff(buy, sell)
<1>1. /\ Crosses(buy, sell) /\ IsLive(orders[buy]) /\ IsLive(orders[sell])
      /\ assetBal' = [assetBal EXCEPT ![buy.asset][buy.owner] = @ + q]
      /\ grdBal' = [[grdBal EXCEPT ![sell.owner] = @ + paid] EXCEPT ![buy.owner] = @ + diff]
      /\ orders' = [orders EXCEPT ![buy] = Filled(buy, @, q), ![sell] = Filled(sell, @, q)]
      /\ UNCHANGED <<lostUnits, netGrd>>
  BY Zenon DEF ATrade, Trade
<1>2. /\ buy.side = "BUY" /\ buy.asset \in Asset /\ buy.owner \in Address
      /\ sell.side = "SELL" /\ sell.asset = buy.asset /\ sell.owner \in Address
      /\ buy # sell /\ buy.price \in Nat
  BY <1>1, OrderFacts, Zenon DEF OrderId, Crosses
<1>3. /\ q \in Int /\ paid \in Int /\ diff \in Int
      /\ ExactValue(buy) => paid + diff = q * buy.price
  BY <1>1, TradeFacts
<1>4. /\ ExactValue(buy) => Escrow(buy, orders'[buy]) = Overwritten(buy) - q * buy.price
      /\ Escrow(buy, orders'[buy]) \in Int
      /\ Escrow(sell, orders'[sell]) = Overwritten(sell) - q
      /\ Overwritten(buy) \in Int /\ Overwritten(sell) \in Int
  BY TradeEscrow, Zenon DEF ATrade, Overwritten
<1> HIDE DEF q, paid, diff
<1>5. /\ DOMAIN orders' = DOMAIN orders
      /\ DOMAIN orders' = DOMAIN orders \cup {buy} /\ DOMAIN orders' = DOMAIN orders \cup {sell}
      /\ \A k \in DOMAIN orders : k.side = "BUY" /\ k # buy => orders'[k] = orders[k]
      /\ \A k \in DOMAIN orders : k.side = "SELL" /\ k # sell => orders'[k] = orders[k]
  BY <1>1, <1>2, Zenon
<1>6. FiniteBook /\ FiniteBook'
  BY <1>5, Zenon DEF Conserving, FiniteBook
<1>7. q * buy.price \in Int /\ Escrow(buy, orders'[buy]) \in Int /\ Escrow(sell, orders'[sell]) \in Int
  BY <1>2, <1>3, <1>4
<1>8. AssetConserved'
  <2>1. \A a \in Asset : SellEscrow(a)' =
          IF a = sell.asset THEN SellEscrow(a) + Escrow(sell, orders'[sell]) - Overwritten(sell)
          ELSE SellEscrow(a)
    BY <1>2, <1>5, <1>6, <1>7, SellSideChanged, Zenon
  <2>2. \A a \in Asset : SumFunction(assetBal'[a]) =
          IF a = buy.asset THEN SumFunction(assetBal[a]) + q ELSE SumFunction(assetBal[a])
    BY <1>1, <1>2, <1>3, UnitsMove, Zenon
  <2> SUFFICES ASSUME NEW a \in Asset
               PROVE  SumFunction(assetBal'[a]) + SellEscrow(a)' + lostUnits'[a]
                        = SumFunction(InitAsset[a])
    BY Zenon DEF AssetConserved
  <2>3. /\ SumFunction(assetBal[a]) \in Int /\ SellEscrow(a) \in Int /\ lostUnits[a] \in Int
        /\ SumFunction(assetBal[a]) + SellEscrow(a) + lostUnits[a] = SumFunction(InitAsset[a])
    BY ConservingFacts, Zenon
  <2>4. CASE a = buy.asset
    <3>1. SellEscrow(a)' = SellEscrow(a) - q
      BY <1>2, <1>3, <1>4, <2>1, <2>3, <2>4
    <3> QED BY <1>1, <1>3, <2>2, <2>3, <2>4, <3>1
  <2>5. CASE a # buy.asset
    BY <1>1, <1>2, <2>1, <2>2, <2>3, <2>5, Zenon
  <2> QED BY <2>4, <2>5, Zenon
<1>9. GrdConserved'
  <2> DEFINE h == [grdBal EXCEPT ![sell.owner] = @ + paid]
  <2>1. grdBal \in [Address -> Int]
    BY Zenon DEF IInv, ATypeOK, TypeOK
  <2>2. /\ h \in [Address -> Int] /\ h[sell.owner] = grdBal[sell.owner] + paid
        /\ \A y \in Address \ {sell.owner} : h[y] = grdBal[y]
    BY <1>2, <1>3, <2>1
  <2>3. /\ grdBal' \in [Address -> Int] /\ grdBal'[buy.owner] = h[buy.owner] + diff
        /\ \A y \in Address \ {buy.owner} : grdBal'[y] = h[y]
    <3>1. CASE buy.owner = sell.owner
      BY <1>1, <1>2, <1>3, <2>1, <3>1
    <3>2. CASE buy.owner # sell.owner
      BY <1>1, <1>2, <1>3, <2>1, <3>2
    <3> QED BY <3>1, <3>2, Zenon
  <2> HIDE DEF h
  <2>4. /\ SumFunction(h) = SumFunction(grdBal) + paid
        /\ SumFunction(grdBal') = SumFunction(h) + diff
    BY <1>2, <1>3, <2>1, <2>2, <2>3, TotalMoves, Zenon
  <2>5. BuyEscrow' = BuyEscrow + Escrow(buy, orders'[buy]) - Overwritten(buy)
    BY <1>2, <1>5, <1>6, <1>7, BuySideChanged, Zenon
  <2>0. (Exact' => Exact) /\ (Exact => ExactValue(buy))
    BY <1>5, Zenon DEF Exact
  <2>6. ExactValue(buy) => BuyEscrow' = BuyEscrow - q * buy.price
    BY <1>4, <1>7, <2>5, ConservingFacts
  <2>7. Exact => SumFunction(grdBal') + BuyEscrow' = SumFunction(InitGrd) + netGrd'
    BY <1>1, <1>3, <1>7, <2>0, <2>4, <2>6, ConservingFacts
  <2> QED BY <2>0, <2>7, Zenon DEF GrdConserved
<1> QED BY <1>6, <1>8, <1>9, Zenon DEF Conserving

\* depositgrd and withdrawgrd move virtual GRD across the border of the ledger.
LEMMA OtherConserves ==
    ASSUME IInv, Conserving,
           \/ \E x \in Address, n \in Deposits : ADeposit(x, n) \/ AWithdraw(x, n)
           \/ ATick
           \/ UNCHANGED avars
    PROVE  Conserving'
<1>1. UNCHANGED <<assetBal, orders, lostUnits>>
  BY Zenon DEF ADeposit, AWithdraw, depositgrd, withdrawgrd, ATick, Tick, avars
<1>2. BuyEscrow' = BuyEscrow /\ \A a \in Asset : SellEscrow(a)' = SellEscrow(a)
  BY <1>1, Zenon DEF BuyEscrow, SellEscrow
<1>3. FiniteBook' /\ AssetConserved'
  BY <1>1, <1>2, Zenon DEF Conserving, FiniteBook, AssetConserved
<1>4. ASSUME Exact
      PROVE  SumFunction(grdBal') + BuyEscrow' = SumFunction(InitGrd) + netGrd'
  <2>0. PICK g, e, i, m : /\ g = SumFunction(grdBal) /\ e = BuyEscrow /\ i = SumFunction(InitGrd) /\ m = netGrd
                          /\ g \in Int /\ e \in Int /\ i \in Int /\ m \in Int /\ g + e = i + m
    BY <1>4, ConservingFacts, Zenon
  <2>1. CASE \E x \in Address, n \in Deposits : ADeposit(x, n)
    <3>1. PICK x \in Address, n \in Deposits : ADeposit(x, n)
      BY <2>1, Zenon
    <3>2. /\ n \in Int /\ grdBal' = [grdBal EXCEPT ![x] = @ + n] /\ netGrd' = netGrd + n
      BY <3>1, EscrowAssumption DEF EscrowAssumption, ADeposit, depositgrd
    <3>3. SumFunction(grdBal') = SumFunction(grdBal) + n
      BY <3>2, GrdMoves, Zenon
    <3>4. (g + n) + e = i + (m + n)
      BY <2>0, <3>2
    <3> QED BY <1>2, <2>0, <3>2, <3>3, <3>4, Zenon
  <2>2. CASE \E x \in Address, n \in Deposits : AWithdraw(x, n)
    <3>1. PICK x \in Address, n \in Deposits : AWithdraw(x, n)
      BY <2>2, Zenon
    <3>2. /\ n \in Int /\ - n \in Int /\ netGrd' = netGrd - n
      BY <3>1, EscrowAssumption DEF EscrowAssumption, AWithdraw
    <3>3. grdBal' = [grdBal EXCEPT ![x] = @ + (- n)]
      BY <3>1, <3>2, Zenon DEF AWithdraw, withdrawgrd, IInv, ATypeOK, TypeOK
    <3>4. SumFunction(grdBal') = SumFunction(grdBal) + (- n)
      BY <3>2, <3>3, GrdMoves, Zenon
    <3>5. (g + (- n)) + e = i + (m - n)
      BY <2>0, <3>2
    <3> QED BY <1>2, <2>0, <3>2, <3>4, <3>5, Zenon
  <2>3. CASE ATick \/ UNCHANGED avars
    BY <1>2, <2>0, <2>3, Zenon DEF ATick, Tick, avars
  <2> QED BY <2>1, <2>2, <2>3, Zenon
<1>5. Exact' => Exact
  BY <1>1, Zenon DEF Exact
<1> QED BY <1>3, <1>4, <1>5, Zenon DEF Conserving, GrdConserved

\* Every handler and every trade conserves units and virtual GRD.
LEMMA StepConserves ==
    ASSUME IInv, Conserving, [ANext]_avars
    PROVE  Conserving'
<1>1. CASE \E id \in OrdersNow("SELL") : APlaceSell(id)
  BY <1>1, PlaceSellConserves, Zenon
<1>2. CASE \E id \in OrdersNow("BUY") : APlaceBuy(id)
  BY <1>2, PlaceBuyConserves, Zenon
<1>3. CASE \E id \in DOMAIN orders : ACancel(id)
  BY <1>3, CancelConserves, Zenon
<1>4. CASE \E buy, sell \in DOMAIN orders : ATrade(buy, sell)
  BY <1>4, TradeConserves, Zenon
<1>5. CASE \/ \E x \in Address, n \in Deposits : ADeposit(x, n) \/ AWithdraw(x, n)
           \/ ATick
           \/ UNCHANGED avars
  BY <1>5, OtherConserves, Zenon
<1> QED BY <1>1, <1>2, <1>3, <1>4, <1>5, Zenon DEF ANext

\* Before the first order nothing is in escrow and nothing has been lost.
LEMMA InitConserves == AInit => Conserving
<1> SUFFICES ASSUME AInit PROVE Conserving
  BY Zenon
<1>1. DOMAIN orders = {}
  BY DEF AInit, Init
<1>2. \A K : K = {} => TotalEscrow(orders, K) = 0
  <2> SUFFICES TotalEscrow(orders, {}) = 0
    BY Zenon
  <2> DEFINE f == [k \in {} |-> Escrow(k, orders[k])]
  <2>1. DOMAIN f = {}
    BY Zenon
  <2> HIDE DEF f
  <2>2. SumFunction(f) = 0
    BY <2>1, SumNothing, Zenon
  <2> QED BY <2>2, Zenon DEF TotalEscrow, f
<1>3. BuyEscrow = 0 /\ \A a \in Asset : SellEscrow(a) = 0
  BY <1>1, <1>2, Zenon DEF BuyEscrow, SellEscrow
<1>4. FiniteBook
  BY <1>1, FS_EmptySet, Zenon DEF FiniteBook
<1>5. /\ SumFunction(InitGrd) \in Int /\ \A a \in Asset : SumFunction(InitAsset[a]) \in Int
  BY EscrowAssumption, OrderAssumption, SumFunctionInt DEF EscrowAssumption, OrderAssumption
<1>6. AssetConserved /\ GrdConserved
  BY <1>3, <1>5 DEF AInit, Init, AssetConserved, GrdConserved
<1> QED BY <1>4, <1>6, Zenon DEF Conserving

\* Units and virtual GRD are conserved in every reachable state.
THEOREM ConservingInvariant == ASpec => []Conserving
<1>1. AInit => Conserving
  BY InitConserves, Zenon
<1>2. IInv /\ Conserving /\ [ANext]_avars => Conserving'
  BY StepConserves, Zenon
<1> QED BY <1>1, <1>2, AccountsInvariant, PTL DEF ASpec

\* No sequence of placements, partial fills, cancellations and trades creates or
\* destroys a unit of an asset: balances, escrow and overwritten orders add up to
\* what issueasset created.
THEOREM UnitsConserved == ASpec => []AssetConserved
<1>1. Conserving => AssetConserved
  BY Zenon DEF Conserving
<1> QED BY <1>1, ConservingInvariant, PTL

\* The same for virtual GRD before a BUY order is stored whose amount * price does
\* not fit int64_t: what the ledger and the escrow hold is what the authority
\* deposited and did not withdraw, less what overwritten BUY orders held.
THEOREM VirtualGrdConserved == ASpec => []GrdConserved
<1>1. Conserving => GrdConserved
  BY Zenon DEF Conserving
<1> QED BY <1>1, ConservingInvariant, PTL
=============================================================================
