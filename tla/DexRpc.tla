------------------------------- MODULE DexRpc -------------------------------
(***************************************************************************)
(* The DEX handlers, and those of the asset registry that move units of the *)
(* same ledger, as the node runs them: up to -rpcthreads HTTP workers       *)
(* execute RPC handlers at the same time, no lock spans a handler, and each *)
(* ReadBalance, WriteBalance, WriteAsset, WriteOrder and WriteTrade is one  *)
(* access to LevelDB.  A handler first decides, then performs a short       *)
(* program of accesses; MatchOrders works on the snapshot its iterator      *)
(* took.  Crash stops the process between two accesses and keeps the        *)
(* database.                                                                *)
(***************************************************************************)
EXTENDS DexOrders, Sequences

CONSTANTS
    Worker,     \* HTTP worker threads (-rpcthreads)
    InitAsset, InitGrd, Deposits, MaxOrders, MaxGrd, MaxTime,
    Creator,    \* asset -> the address new units are minted to
    Grants,     \* amounts of transferasset, mintasset and burnasset
    MaxSupply,  \* bound on the units issued
    MaxCalls,   \* bound on the RPC calls
    MaxCrashes  \* bound on process crashes

ASSUME RpcAssumption ==
    /\ InitAsset \in [Asset -> [Address -> Nat]]
    /\ InitGrd \in [Address -> Nat]
    /\ Deposits \subseteq Nat \ {0}
    /\ Creator \in [Asset -> Address]
    /\ Grants \subseteq Amounts
    /\ {MaxOrders, MaxGrd, MaxTime, MaxSupply, MaxCalls, MaxCrashes} \subseteq Nat

VARIABLES
    assetBal, grdBal, orders, trades, now,   \* as in DexEscrow
    supply,     \* asset -> total_supply
    thr,        \* worker -> the state of its handler
    calls,      \* RPC calls started
    crashes,    \* process crashes
    overlapped, \* history: a handler started while another was running
    lostUnits   \* history: asset -> units of live SELL orders overwritten, less
                \* those that transfers of an owner to itself made

db == <<assetBal, grdBal, orders, trades, supply>>
vars == <<assetBal, grdBal, orders, trades, supply, now, thr, calls, crashes, overlapped,
          lostUnits>>

\* No handler running; a running one has accesses left in todo, the balance it
\* last read in reg and, for MatchOrders, its asset and the orders not yet
\* consumed.
Idle == [kind |-> "idle", asset |-> "none", todo |-> <<>>, reg |-> 0,
         buys |-> <<>>, sells |-> <<>>]

\* The two kinds of balance record.
AssetAcc(a, x) == [ledger |-> "asset", asset |-> a, owner |-> x]
GrdAcc(x) == [ledger |-> "grd", owner |-> x]

ReadBalance(acc) ==
    IF acc.ledger = "grd" THEN grdBal[acc.owner] ELSE assetBal[acc.asset][acc.owner]

\* The accesses of a program.
Read(acc) == [op |-> "read", acc |-> acc]
Write(acc, delta) == [op |-> "write", acc |-> acc, delta |-> delta]
\* A write of a value computed from an earlier read; a balance that must suffice.
Set(acc, v) == [op |-> "set", acc |-> acc, value |-> v]
Need(acc, n) == [op |-> "need", acc |-> acc, amount |-> n]
WriteAsset(a, v) == [op |-> "supply", asset |-> a, value |-> v]
StoreNew(side, a, n, p, x) ==
    [op |-> "new", side |-> side, asset |-> a, amount |-> n, price |-> p, owner |-> x]
Store(id, rec) == [op |-> "store", id |-> id, rec |-> rec]
StoreTrade(buy, sell, qty) == [op |-> "trade", buy |-> buy, sell |-> sell, qty |-> qty]

Credit(acc, n) == <<Read(acc), Write(acc, n)>>

Init ==
    /\ assetBal = InitAsset
    /\ grdBal = InitGrd
    /\ orders = <<>>
    /\ trades = <<>>
    /\ supply = [a \in Asset |-> SumFunction(InitAsset[a])]
    /\ now = 0
    /\ thr = [w \in Worker |-> Idle]
    /\ calls = 0
    /\ crashes = 0
    /\ overlapped = FALSE
    /\ lostUnits = [a \in Asset |-> 0]
-----------------------------------------------------------------------------
\* A worker takes a request off the queue.
Enter(w) ==
    /\ calls' = calls + 1
    /\ overlapped' = (overlapped \/ \E v \in Worker : thr[v] # Idle)

\* A worker picks up a request: what the handler reads before its first write.
Start(w, kind, reg, todo) ==
    /\ Enter(w)
    /\ thr' = [thr EXCEPT ![w] = [Idle EXCEPT !.kind = kind, !.reg = reg, !.todo = todo]]
    /\ UNCHANGED <<db, now, crashes, lostUnits>>

HasRoom == Cardinality(DOMAIN orders) < MaxOrders

PlaceSell(w, a, n, p, x) ==
    /\ HasRoom
    /\ assetBal[a][x] >= n
    /\ Start(w, "place", assetBal[a][x],
             <<Write(AssetAcc(a, x), -n), StoreNew("SELL", a, n, p, x)>>)

PlaceBuy(w, a, n, p, x) ==
    LET grd_needed == Mul64(n, p)
    IN  /\ HasRoom
        /\ grd_needed > 0 \/ Overflows(n, p)
        /\ grdBal[x] >= grd_needed
        /\ Start(w, "place", grdBal[x],
                 <<Write(GrdAcc(x), -grd_needed), StoreNew("BUY", a, n, p, x)>>)

\* Mutant of RefundOf: the whole order is given back.
RefundOfFull(id, rec) ==
    IF id.side = "SELL"
    THEN Credit(AssetAcc(id.asset, id.owner), id.amount)
    ELSE Credit(GrdAcc(id.owner), Mul64(id.amount, id.price))

\* cancelorder stores the order it read, with the status changed.
RefundOf(id, rec) ==
    IF id.side = "SELL"
    THEN Credit(AssetAcc(id.asset, id.owner), Remaining(id, rec))
    ELSE Credit(GrdAcc(id.owner), Mul64(Remaining(id, rec), id.price))

Cancel(w, id) ==
    /\ IsLive(orders[id])
    /\ Start(w, "cancel", 0,
             Append(RefundOf(id, orders[id]),
                    Store(id, [orders[id] EXCEPT !.status = "CANCELLED"])))

depositgrd(w, x, n) ==
    /\ grdBal[x] + n <= MaxGrd
    /\ Start(w, "deposit", grdBal[x], <<Write(GrdAcc(x), n)>>)

\* Mutant of withdrawgrd: the balance is not checked.
withdrawgrdUnchecked(w, x, n) ==
    Start(w, "withdraw", grdBal[x], <<Write(GrdAcc(x), -n)>>)

withdrawgrd(w, x, n) ==
    /\ grdBal[x] >= n
    /\ Start(w, "withdraw", grdBal[x], <<Write(GrdAcc(x), -n)>>)
-----------------------------------------------------------------------------
\* Both balances are read before either is written; sender and receiver may be
\* the same. The log entry the registry handlers end with (WriteAssetTx) is read
\* by getassettx only and left out.
transferasset(w, a, n, x, y) ==
    /\ assetBal[a][x] >= n
    /\ Start(w, IF x = y THEN "payself" ELSE "pay", 0,
             <<Read(AssetAcc(a, y)), Set(AssetAcc(a, x), assetBal[a][x] - n),
               Write(AssetAcc(a, y), n)>>)

\* The supply first, then the balance of the creator.
mintasset(w, a, n) ==
    /\ supply[a] + n <= MaxSupply
    /\ Start(w, "mint", 0,
             <<WriteAsset(a, supply[a] + n)>> \o Credit(AssetAcc(a, Creator[a]), n))

\* Mutant of burnasset: the supply is not written.
burnassetKeepsSupply(w, a, n, x) ==
    Start(w, "burn", 0, <<Need(AssetAcc(a, x), n), Write(AssetAcc(a, x), -n)>>)

\* The balance first, then the supply read at the start.
burnasset(w, a, n, x) ==
    Start(w, "burn", 0,
          <<Need(AssetAcc(a, x), n), Write(AssetAcc(a, x), -n), WriteAsset(a, supply[a] - n)>>)
-----------------------------------------------------------------------------
\* The live orders of one side in a snapshot of the book.
LiveOrders(a, side) ==
    {[id |-> id, rec |-> orders[id]] :
        id \in {k \in DOMAIN orders : k.asset = a /\ k.side = side /\ IsLive(orders[k])}}

\* Mutant of Before: SELL orders sorted like BUY orders.
BeforeSwapped(e, f) == e.id.price > f.id.price

\* The comparison of the two sorts: the highest BUY and the lowest SELL first.
Before(e, f) ==
    \/ e.id.side = "BUY" /\ e.id.price > f.id.price
    \/ e.id.side = "SELL" /\ e.id.price < f.id.price

\* std::sort is not stable: orders of equal price come in any order.
Sorted(S) ==
    {s \in [1..Cardinality(S) -> S] :
        \A i, j \in DOMAIN s : (i # j => s[i] # s[j]) /\ (Before(s[i], s[j]) => i < j)}

\* MatchOrders: collect and sort.
MatchCollect(w, a) ==
    \E buys \in Sorted(LiveOrders(a, "BUY")), sells \in Sorted(LiveOrders(a, "SELL")) :
        /\ Enter(w)
        /\ thr' = [thr EXCEPT ![w] =
              [Idle EXCEPT !.kind = "match", !.asset = a, !.buys = buys, !.sells = sells]]
        /\ UNCHANGED <<db, now, crashes, lostUnits>>

\* Mutant of Advance: an exhausted order stays at the head.
AdvanceNever(s, qty) == <<[Head(s) EXCEPT !.rec = Filled(Head(s).id, Head(s).rec, qty)]>> \o Tail(s)

\* The local copy of an order after a fill, dropped when it is exhausted.
Advance(s, qty) ==
    LET e == Head(s)
        rec == Filled(e.id, e.rec, qty)
    IN  IF rec.filled >= e.id.amount THEN Tail(s)
        ELSE <<[e EXCEPT !.rec = rec]>> \o Tail(s)

\* The accesses of one iteration of the loop.
TradeProgram(b, s, qty) ==
    LET refund == Mul64(qty, b.id.price - s.id.price)
    IN  Credit(AssetAcc(b.id.asset, b.id.owner), qty)
        \o Credit(GrdAcc(s.id.owner), Mul64(qty, s.id.price))
        \o (IF b.id.price > s.id.price THEN Credit(GrdAcc(b.id.owner), refund) ELSE <<>>)
        \o <<Store(b.id, Filled(b.id, b.rec, qty)), Store(s.id, Filled(s.id, s.rec, qty)),
             StoreTrade(b.id, s.id, qty)>>

\* The loop condition of MatchOrders, on the worker's own copies.
MoreTrades(t) ==
    /\ t.buys # <<>> /\ t.sells # <<>>
    /\ Head(t.buys).id.price >= Head(t.sells).id.price

MatchTrade(w) ==
    LET t == thr[w]
        qty == MinOf(Remaining(Head(t.buys).id, Head(t.buys).rec),
                     Remaining(Head(t.sells).id, Head(t.sells).rec))
    IN  /\ t.kind = "match" /\ t.todo = <<>>
        /\ MoreTrades(t)
        /\ thr' = [thr EXCEPT ![w] =
              [t EXCEPT !.todo = TradeProgram(Head(t.buys), Head(t.sells), qty),
                        !.buys = Advance(t.buys, qty), !.sells = Advance(t.sells, qty)]]
        /\ UNCHANGED <<db, now, calls, crashes, overlapped, lostUnits>>

MatchEnd(w) ==
    /\ thr[w].kind = "match" /\ thr[w].todo = <<>>
    /\ ~ MoreTrades(thr[w])
    /\ thr' = [thr EXCEPT ![w] = Idle]
    /\ UNCHANGED <<db, now, calls, crashes, overlapped, lostUnits>>
-----------------------------------------------------------------------------
\* One access, then the handler goes on or returns.
Access(w, op, reg) ==
    LET t == thr[w]
    IN  /\ t.todo # <<>>
        /\ Head(t.todo).op = op
        /\ thr' = [thr EXCEPT ![w] =
              IF Len(t.todo) = 1 /\ t.kind # "match" THEN Idle
              ELSE [t EXCEPT !.todo = Tail(t.todo), !.reg = reg]]
        /\ UNCHANGED <<now, calls, crashes, overlapped>>

DoRead(w) ==
    /\ Access(w, "read", ReadBalance(Head(thr[w].todo).acc))
    /\ UNCHANGED <<db, lostUnits>>

\* The handler refuses when the balance it reads is too small.
DoNeed(w) ==
    LET r == Head(thr[w].todo)
    IN  /\ thr[w].todo # <<>> /\ r.op = "need"
        /\ IF ReadBalance(r.acc) < r.amount
           THEN thr' = [thr EXCEPT ![w] = Idle] /\ UNCHANGED <<now, calls, crashes, overlapped>>
           ELSE Access(w, "need", ReadBalance(r.acc))
        /\ UNCHANGED <<db, lostUnits>>

WriteBalance(acc, v) ==
    /\ IF acc.ledger = "grd"
       THEN grdBal' = [grdBal EXCEPT ![acc.owner] = v] /\ UNCHANGED assetBal
       ELSE assetBal' = [assetBal EXCEPT ![acc.asset][acc.owner] = v] /\ UNCHANGED grdBal
    /\ UNCHANGED <<orders, trades, supply>>

DoWrite(w) ==
    LET r == Head(thr[w].todo)
    IN  /\ Access(w, "write", 0)
        /\ WriteBalance(r.acc, thr[w].reg + r.delta)
        /\ lostUnits' = IF thr[w].kind = "payself"
                        THEN [lostUnits EXCEPT ![r.acc.asset] = @ - r.delta]
                        ELSE lostUnits

DoSet(w) ==
    /\ Access(w, "set", thr[w].reg)
    /\ WriteBalance(Head(thr[w].todo).acc, Head(thr[w].todo).value)
    /\ UNCHANGED lostUnits

DoWriteAsset(w) ==
    LET r == Head(thr[w].todo)
    IN  /\ Access(w, "supply", 0)
        /\ supply' = [supply EXCEPT ![r.asset] = r.value]
        /\ UNCHANGED <<assetBal, grdBal, orders, trades, lostUnits>>

\* The clock is read between the escrow and the store (placeorder); reading it
\* and storing the order are one step.
DoStoreNew(w) ==
    LET r == Head(thr[w].todo)
        id == ComputeOrderId(r.asset, r.side, r.price, r.amount, r.owner, now)
    IN  /\ Access(w, "new", 0)
        /\ orders' = Put(orders, id, NewOrder)
        /\ lostUnits' = IF id \in DOMAIN orders /\ id.side = "SELL"
                        THEN [lostUnits EXCEPT ![id.asset] = @ + Escrow(id, orders[id])]
                        ELSE lostUnits
        /\ UNCHANGED <<assetBal, grdBal, trades, supply>>

DoStore(w) ==
    /\ Access(w, "store", 0)
    /\ orders' = Put(orders, Head(thr[w].todo).id, Head(thr[w].todo).rec)
    /\ UNCHANGED <<assetBal, grdBal, trades, supply, lostUnits>>

DoStoreTrade(w) ==
    LET r == Head(thr[w].todo)
    IN  /\ Access(w, "trade", 0)
        /\ trades' = Put(trades, [buy |-> r.buy, sell |-> r.sell, timestamp |-> now],
                         [amount |-> r.qty, price |-> r.sell.price])
        /\ UNCHANGED <<assetBal, grdBal, orders, supply, lostUnits>>

\* The process dies and is restarted; handlers in flight are gone.
Crash ==
    /\ crashes < MaxCrashes
    /\ crashes' = crashes + 1
    /\ thr' = [w \in Worker |-> Idle]
    /\ UNCHANGED <<db, now, calls, overlapped, lostUnits>>

Tick ==
    /\ now < MaxTime
    /\ now' = now + 1
    /\ UNCHANGED <<db, thr, calls, crashes, overlapped, lostUnits>>

Request(w) ==
    /\ thr[w] = Idle /\ calls < MaxCalls
    /\ \/ \E a \in Asset, n \in Amounts, p \in Prices, x \in Address :
             PlaceSell(w, a, n, p, x) \/ PlaceBuy(w, a, n, p, x)
       \/ \E id \in DOMAIN orders : Cancel(w, id)
       \/ \E a \in Asset : MatchCollect(w, a)
       \/ \E x \in Address, n \in Deposits : depositgrd(w, x, n) \/ withdrawgrd(w, x, n)
       \/ \E a \in Asset, n \in Grants : mintasset(w, a, n)
       \/ \E a \in Asset, n \in Grants, x \in Address : burnasset(w, a, n, x)
       \/ \E a \in Asset, n \in Grants, x, y \in Address : transferasset(w, a, n, x, y)

\* The steps of a handler that has started.
Run(w) ==
    \/ DoRead(w) \/ DoNeed(w) \/ DoWrite(w) \/ DoSet(w) \/ DoWriteAsset(w)
    \/ DoStoreNew(w) \/ DoStore(w) \/ DoStoreTrade(w)
    \/ MatchTrade(w) \/ MatchEnd(w)

Next ==
    \/ \E w \in Worker : Request(w) \/ Run(w)
    \/ Crash
    \/ Tick

\* A worker that has started a handler keeps being scheduled.
Fairness == \A w \in Worker : WF_vars(Run(w))

Spec == Init /\ [][Next]_vars /\ Fairness
-----------------------------------------------------------------------------
\* No BUY order was ever stored whose value wrapped around.
Exact == \A id \in DOMAIN orders : ExactValue(id)

\* Whatever other handlers do between the check of a balance in placeorder or
\* withdrawgrd and the write, and wherever the process crashes, no negative
\* balance is stored, as long as every BUY order has an exact value: placeorder
\* refuses only a product that is not positive after it wrapped around, and what
\* cancelorder or MatchOrders credits for such an order may be negative.
Solvent ==
    Exact => /\ \A a \in Asset, x \in Address : assetBal[a][x] >= 0
             /\ \A x \in Address : grdBal[x] >= 0

\* A handler that stores an order from a stale copy (cancelorder and MatchOrders
\* do) still stores a fill that agrees with the status: an order MatchOrders
\* collects always has something left, so its loop always advances.
FillConsistent ==
    \A id \in DOMAIN orders :
        /\ orders[id].filled <= id.amount
        /\ IsLive(orders[id]) => orders[id].filled < id.amount
        /\ orders[id].status = "OPEN" <=> orders[id].filled = 0 /\ orders[id].status # "CANCELLED"
        /\ orders[id].status = "FILLED" => orders[id].filled = id.amount

\* Handlers that started return, in particular the loop of MatchOrders ends.
HandlersReturn == \A w \in Worker : thr[w] # Idle ~> thr[w] = Idle

\* No handler is between two accesses.
Quiet == \A w \in Worker : thr[w].todo = <<>>

SellEscrow(a) ==
    TotalEscrow(orders, {id \in DOMAIN orders : id.side = "SELL" /\ id.asset = a})

\* Units in the ledger, in escrow and overwritten, less the total supply.
Drift(a) ==
    SumFunction(assetBal[a]) + SellEscrow(a) + lostUnits[a] - supply[a]

\* "debit sekarang, refund di cancel / transfer di match" (placeorder): between
\* handlers every unit is in a balance or in the escrow of a live order.
EscrowConserved == Quiet => \A a \in Asset : Drift(a) = 0

\* The most units one call moves.
LargestAmount == CHOOSE n \in Amounts : \A m \in Amounts : m <= n

\* As long as handlers do not overlap, a crash between two accesses of a handler
\* separates the total supply from what balances and escrows hold by no more
\* units than that one call moves (an order, a transfer, a mint, a burn): what an
\* unfinished handler did is never built upon.
CrashDriftBounded ==
    Quiet /\ ~ overlapped => \A a \in Asset :
        Drift(a) \in (-(crashes * LargestAmount))..(crashes * LargestAmount)

\* When matchorders of a node with one worker returns, no live BUY and SELL of its
\* asset still cross: the two sorted lists were consumed to the point where the
\* best prices part.
UncrossedAfterMatch ==
    [][\A w \in Worker : MatchEnd(w) =>
          \A buy, sell \in DOMAIN orders :
              /\ buy.asset = thr[w].asset
              /\ Crosses(buy, sell)
              /\ IsLive(orders[buy])
              => ~ IsLive(orders[sell])]_vars
=============================================================================
