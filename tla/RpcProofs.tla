----------------------------- MODULE RpcProofs -----------------------------
(***************************************************************************)
(* Proofs about the DEX handlers split into their database accesses, for    *)
(* any number of HTTP workers, calls and crashes and any sets of assets,    *)
(* addresses, amounts and prices.  Products wrap around as the code lets    *)
(* them: only what is said of balances is said of states in which every BUY *)
(* order has a value that fits int64_t (Exact).                             *)
(***************************************************************************)
EXTENDS DexRpc, SumLemmas
-----------------------------------------------------------------------------
(* Types *)

Acc == [ledger : {"asset"}, asset : Asset, owner : Address]
       \cup [ledger : {"grd"}, owner : Address]

\* A record that may be stored for an order: what FillConsistent says of it.
Fits(id, rec) ==
    /\ rec.filled <= id.amount
    /\ IsLive(rec) => rec.filled < id.amount
    /\ rec.status = "OPEN" <=> rec.filled = 0 /\ rec.status # "CANCELLED"
    /\ rec.status = "FILLED" => rec.filled = id.amount

Entry == {e \in [id : OrderId, rec : OrderRec] : Fits(e.id, e.rec)}
LiveEntry(side) == {e \in Entry : e.id.side = side /\ IsLive(e.rec)}

ReadOp == [op : {"read"}, acc : Acc]
WriteOp == [op : {"write"}, acc : Acc, delta : Int]
SetOp == [op : {"set"}, acc : Acc, value : Int]
NeedOp == [op : {"need"}, acc : Acc, amount : Nat]
SupplyOp == [op : {"supply"}, asset : Asset, value : Int]
NewOp == [op : {"new"}, side : Side, asset : Asset, amount : Amounts, price : Prices,
          owner : Address]
StoreOp == {r \in [op : {"store"}, id : OrderId, rec : OrderRec] : Fits(r.id, r.rec)}
TradeOp == [op : {"trade"}, buy : OrderId, sell : OrderId, qty : Nat]
Op == ReadOp \cup WriteOp \cup SetOp \cup NeedOp \cup SupplyOp \cup NewOp \cup StoreOp \cup TradeOp

Kind == {"idle", "place", "cancel", "deposit", "withdraw", "pay", "payself", "mint", "burn", "match"}
Thread ==
    [kind : Kind, asset : Asset \cup {"none"}, todo : Seq(Op), reg : Int,
     buys : Seq(LiveEntry("BUY")), sells : Seq(LiveEntry("SELL"))]

RpcTypes ==
    /\ assetBal \in [Asset -> [Address -> Int]]
    /\ grdBal \in [Address -> Int]
    /\ IsFiniteSet(DOMAIN orders)
    /\ \A id \in DOMAIN orders : id \in OrderId /\ orders[id] \in OrderRec
    /\ supply \in [Asset -> Int]
    /\ lostUnits \in [Asset -> Int]
    /\ now \in Nat
    /\ crashes \in Nat
    /\ thr \in [Worker -> Thread]

RpcInv == RpcTypes /\ FillConsistent

\* A debit is covered: by the balance read before, or by the one that is going to
\* be checked right before.
DebitCovered(t, i) ==
    \/ t.todo[i].delta >= 0
    \/ i = 1 /\ t.reg + t.todo[i].delta >= 0
    \/ i > 1 /\ t.todo[i - 1].op = "need" /\ t.todo[i - 1].amount + t.todo[i].delta >= 0

\* What a running handler read, writes and has still to trade keeps the balances
\* from becoming negative.
Covered(t) ==
    /\ t.reg >= 0
    /\ \A i \in 1..Len(t.todo) :
          /\ t.todo[i].op = "set" => t.todo[i].value >= 0
          /\ t.todo[i].op = "write" => DebitCovered(t, i)
    /\ \A i \in 1..Len(t.buys) : ExactValue(t.buys[i].id)

NotNegative ==
    /\ \A a \in Asset, x \in Address : assetBal[a][x] >= 0
    /\ \A x \in Address : grdBal[x] >= 0

Sound == NotNegative /\ \A w \in Worker : Covered(thr[w])

-----------------------------------------------------------------------------
(* Orders and programs *)

\* Whatever wraps, the result is an integer.
LEMMA MulInt ==
    ASSUME NEW x \in Int, NEW y \in Int
    PROVE  Mul64(x, y) \in Int
<1>1. Int64Max \in Nat /\ x * y \in Int
  BY OrderAssumption DEF OrderAssumption
<1>2. ASSUME NEW z \in Int PROVE Wrap64(z) \in Int
  BY <1>1 DEF Wrap64
<1> QED BY <1>1, <1>2, Zenon DEF Mul64

\* No product the handlers form for a part of an exact order wraps around.
LEMMA MulExact ==
    ASSUME NEW a \in Amounts, NEW p \in Prices, ~ Overflows(a, p),
           NEW r \in Nat, r <= a, NEW d \in Nat, d <= p
    PROVE  Mul64(r, d) = r * d /\ r * d \in Nat
<1>1. a \in Nat /\ p \in Nat /\ Int64Max \in Nat
  BY OrderAssumption, Zenon
<1>2. r * d \in Nat /\ r * d <= a * p
  BY <1>1, ProductGrows, Zenon
<1>3. a * p <= Int64Max /\ a * p \in Nat
  BY <1>1 DEF Overflows
<1>4. r * d <= Int64Max
  BY <1>1, <1>2, <1>3
<1> QED BY <1>2, <1>4, Zenon DEF Mul64

\* What is left of an order whose record fits it.
LEMMA EntryFacts ==
    ASSUME NEW id \in OrderId, NEW rec \in OrderRec, Fits(id, rec)
    PROVE  /\ id.amount \in Amounts /\ id.price \in Prices /\ id.amount \in Nat /\ id.price \in Nat
           /\ id.asset \in Asset /\ id.owner \in Address /\ id.side \in Side
           /\ rec.filled \in Nat
           /\ Remaining(id, rec) \in Nat /\ Remaining(id, rec) <= id.amount
           /\ IsLive(rec) => Remaining(id, rec) > 0
           /\ Mul64(Remaining(id, rec), id.price) \in Int
           /\ id.side = "BUY" /\ ExactValue(id) => Mul64(Remaining(id, rec), id.price) >= 0
<1>1. /\ id.amount \in Amounts /\ id.price \in Prices /\ rec.filled \in Nat
      /\ id.asset \in Asset /\ id.owner \in Address /\ id.side \in Side
  BY Zenon DEF OrderId, OrderRec
<1>2. id.amount \in Nat /\ id.price \in Nat
  BY <1>1, OrderAssumption, Zenon
<1>3. /\ Remaining(id, rec) \in Nat /\ Remaining(id, rec) <= id.amount
      /\ IsLive(rec) => Remaining(id, rec) > 0
  BY <1>1, <1>2 DEF Remaining, Fits
<1>4. id.price <= id.price
  BY <1>2
<1>5. Mul64(Remaining(id, rec), id.price) \in Int
  <2>1. Remaining(id, rec) \in Int /\ id.price \in Int
    BY <1>2, <1>3
  <2> QED BY <2>1, MulInt, Zenon
<1>6. ASSUME id.side = "BUY", ExactValue(id) PROVE Mul64(Remaining(id, rec), id.price) >= 0
  <2>1. Mul64(Remaining(id, rec), id.price) \in Nat
    BY <1>1, <1>2, <1>3, <1>4, <1>6, MulExact, Zenon DEF ExactValue
  <2> QED BY <2>1
<1> QED BY <1>1, <1>2, <1>3, <1>5, <1>6, Zenon

\* A fill by no more than what is left fits the order.
LEMMA FilledFits ==
    ASSUME NEW id \in OrderId, NEW rec \in OrderRec, Fits(id, rec), IsLive(rec),
           NEW qty \in Nat, qty > 0, qty <= Remaining(id, rec)
    PROVE  /\ Filled(id, rec, qty) \in OrderRec /\ Fits(id, Filled(id, rec, qty))
           /\ Filled(id, rec, qty).filled < id.amount => IsLive(Filled(id, rec, qty))
<1>1. id.amount \in Nat /\ rec.filled \in Nat
  BY OrderAssumption, Zenon DEF OrderId, OrderRec
<1> DEFINE n == rec.filled + qty
<1>2. n \in Nat /\ n > 0 /\ n <= id.amount
  BY <1>1 DEF Remaining
<1>3. /\ Filled(id, rec, qty).filled = n
      /\ Filled(id, rec, qty).status = IF n >= id.amount THEN "FILLED" ELSE "PARTIAL"
  BY Zenon DEF Filled, FillStatus
<1>4. Filled(id, rec, qty) \in OrderRec
  BY <1>2, Zenon DEF Filled, FillStatus, OrderRec, OrderStatus
<1> HIDE DEF n
<1> QED BY <1>1, <1>2, <1>3, <1>4 DEF Fits, IsLive

\* A program without debits.
NoDebit(s) ==
    \A i \in 1..Len(s) :
        /\ s[i].op = "write" => s[i].delta >= 0
        /\ s[i].op = "set" => s[i].value >= 0

LEMMA CreditProgram ==
    ASSUME NEW acc \in Acc, NEW n \in Int
    PROVE  Credit(acc, n) \in Seq(Op) /\ (n >= 0 => NoDebit(Credit(acc, n)))
<1>1. Read(acc) \in Op /\ Write(acc, n) \in Op /\ Read(acc).op = "read" /\ Write(acc, n).delta = n
      /\ Write(acc, n).op = "write"
  BY DEF Read, Write, Op, ReadOp, WriteOp
<1> QED BY <1>1 DEF Credit, NoDebit

\* A concatenation, element by element.
LEMMA Concatenation ==
    ASSUME NEW S, NEW s \in Seq(S), NEW t \in Seq(S)
    PROVE  /\ s \o t \in Seq(S) /\ Len(s \o t) = Len(s) + Len(t)
           /\ \A i \in 1..(Len(s) + Len(t)) :
                 (s \o t)[i] = IF i <= Len(s) THEN s[i] ELSE t[i - Len(s)]
OBVIOUS

LEMMA ProgramConcat ==
    ASSUME NEW s \in Seq(Op), NEW t \in Seq(Op)
    PROVE  s \o t \in Seq(Op) /\ (NoDebit(s) /\ NoDebit(t) => NoDebit(s \o t))
<1>1. /\ s \o t \in Seq(Op) /\ Len(s \o t) = Len(s) + Len(t)
      /\ \A i \in 1..(Len(s) + Len(t)) :
            (s \o t)[i] = IF i <= Len(s) THEN s[i] ELSE t[i - Len(s)]
  BY Concatenation, Zenon
<1>2. Len(s) \in Nat /\ Len(t) \in Nat
  OBVIOUS
<1>3. ASSUME NoDebit(s), NoDebit(t), NEW i \in 1..(Len(s) + Len(t))
      PROVE  /\ (s \o t)[i].op = "write" => (s \o t)[i].delta >= 0
             /\ (s \o t)[i].op = "set" => (s \o t)[i].value >= 0
  <2>1. CASE i <= Len(s)
    BY <1>1, <1>2, <1>3, <2>1 DEF NoDebit
  <2>2. CASE ~ (i <= Len(s))
    <3>1. i - Len(s) \in 1..Len(t)
      BY <1>2, <2>2
    <3> QED BY <1>1, <1>3, <2>2, <3>1, Zenon DEF NoDebit
  <2> QED BY <2>1, <2>2, Zenon
<1> QED BY <1>1, <1>3, Zenon DEF NoDebit

\* An idle worker.
LEMMA IdleThread == Idle \in Thread /\ Covered(Idle)
<1>1. Idle \in Thread
  BY DEF Idle, Thread, Kind
<1>2. Idle.reg = 0 /\ Idle.todo = <<>> /\ Idle.buys = <<>>
  BY Zenon DEF Idle
<1> QED BY <1>1, <1>2 DEF Covered

\* One access of a handler: the rest of its program stays covered.
LEMMA AccessKeeps ==
    ASSUME RpcInv, NEW w \in Worker, NEW op, NEW reg \in Int, Access(w, op, reg),
           op = "need" => reg >= thr[w].todo[1].amount
    PROVE  /\ thr' \in [Worker -> Thread]
           /\ Sound /\ reg >= 0 => \A v \in Worker : Covered(thr'[v])
<1> DEFINE t == thr[w]
           u == [t EXCEPT !.todo = Tail(@), !.reg = reg]
<1>0. thr \in [Worker -> Thread] /\ t \in Thread
  BY Zenon DEF RpcInv, RpcTypes
<1>1. t.todo \in Seq(Op) /\ t.todo # <<>> /\ t.todo[1].op = op
  BY <1>0 DEF Access, Thread
<1>2. /\ Tail(t.todo) \in Seq(Op) /\ Len(Tail(t.todo)) = Len(t.todo) - 1
      /\ \A i \in 1..(Len(t.todo) - 1) : Tail(t.todo)[i] = t.todo[i + 1]
      /\ Len(t.todo) \in Nat
  BY <1>1
<1>3. u \in Thread /\ u.todo = Tail(t.todo) /\ u.reg = reg /\ u.buys = t.buys
  BY <1>0, <1>2, Zenon DEF Thread
<1>4. ASSUME Covered(t), reg >= 0 PROVE Covered(u)
  <2>1. ASSUME NEW i \in 1..(Len(t.todo) - 1), t.todo[i + 1].op = "write"
        PROVE  \/ t.todo[i + 1].delta >= 0
               \/ i = 1 /\ reg + t.todo[i + 1].delta >= 0
               \/ i > 1 /\ t.todo[i].op = "need" /\ t.todo[i].amount + t.todo[i + 1].delta >= 0
    <3>1. i + 1 \in 1..Len(t.todo) /\ i + 1 > 1 /\ (i + 1) - 1 = i /\ i + 1 # 1
      BY <1>2
    <3>2. \/ t.todo[i + 1].delta >= 0
          \/ t.todo[i].op = "need" /\ t.todo[i].amount + t.todo[i + 1].delta >= 0
      BY <1>4, <2>1, <3>1, Zenon DEF Covered, DebitCovered
    <3>3. CASE i = 1 /\ t.todo[i].op = "need"
      <4>1. t.todo[1].amount \in Nat /\ t.todo[2].delta \in Int
        <5>1. t.todo[1] \in Op /\ t.todo[2] \in Op /\ t.todo[1].op = "need" /\ t.todo[2].op = "write"
          BY <1>1, <1>2, <2>1, <3>1, <3>3
        <5>2. t.todo[1] \in NeedOp /\ t.todo[2] \in WriteOp
          BY <5>1, Zenon DEF Op, ReadOp, WriteOp, SetOp, NeedOp, SupplyOp, NewOp, StoreOp, TradeOp
        <5> QED BY <5>2, Zenon DEF NeedOp, WriteOp
      <4>2. reg >= t.todo[1].amount
        BY <1>1, <3>3, Zenon
      <4> QED BY <3>2, <3>3, <4>1, <4>2
    <3> QED BY <1>2, <3>2, <3>3
  <2>2. \A i \in 1..(Len(t.todo) - 1) : i > 1 => i - 1 \in 1..(Len(t.todo) - 1) /\ (i - 1) + 1 = i
    BY <1>2
  <2>3. ASSUME NEW i \in 1..(Len(t.todo) - 1), t.todo[i + 1].op = "set" PROVE t.todo[i + 1].value >= 0
    <3>1. i + 1 \in 1..Len(t.todo)
      BY <1>2
    <3> QED BY <1>4, <2>3, <3>1, Zenon DEF Covered
  <2>4. \A i \in 1..Len(u.buys) : ExactValue(u.buys[i].id)
    BY <1>3, <1>4, Zenon DEF Covered
  <2> HIDE DEF u, t
  <2>5. \A i \in 1..Len(u.todo) : u.todo[i].op = "set" => u.todo[i].value >= 0
    BY <1>2, <1>3, <2>3, Zenon
  <2>6. \A i \in 1..Len(u.todo) : u.todo[i].op = "write" => DebitCovered(u, i)
    BY <1>2, <1>3, <2>1, <2>2 DEF DebitCovered
  <2> QED BY <1>3, <1>4, <2>4, <2>5, <2>6, Zenon DEF Covered
<1>5. thr' = [thr EXCEPT ![w] = Idle] \/ thr' = [thr EXCEPT ![w] = u]
  <2>1. thr' = [thr EXCEPT ![w] = IF Len(t.todo) = 1 /\ t.kind # "match" THEN Idle ELSE u]
    BY Zenon DEF Access
  <2> HIDE DEF u, t
  <2> QED BY <2>1, Zenon
<1>6. Sound => \A v \in Worker : Covered(thr[v])
  BY Zenon DEF Sound
<1>7. Sound => Covered(t)
  BY <1>6, Zenon
<1> HIDE DEF u, t
<1> QED BY <1>0, <1>3, <1>4, <1>5, <1>6, <1>7, IdleThread, Zenon

\* The accesses, by the name of the operation.
LEMMA OpByName ==
    ASSUME NEW r \in Op
    PROVE  /\ r.op = "read" => r \in ReadOp
           /\ r.op = "write" => r \in WriteOp
           /\ r.op = "set" => r \in SetOp
           /\ r.op = "need" => r \in NeedOp
           /\ r.op = "supply" => r \in SupplyOp
           /\ r.op = "new" => r \in NewOp
           /\ r.op = "store" => r \in StoreOp
           /\ r.op = "trade" => r \in TradeOp
BY Zenon DEF Op, ReadOp, WriteOp, SetOp, NeedOp, SupplyOp, NewOp, StoreOp, TradeOp

LEMMA HeadOp ==
    ASSUME RpcInv, NEW w \in Worker, thr[w].todo # <<>>
    PROVE  /\ Head(thr[w].todo) \in Op /\ Head(thr[w].todo) = thr[w].todo[1]
           /\ 1 \in 1..Len(thr[w].todo) /\ thr[w].reg \in Int
<1>1. thr[w].todo \in Seq(Op) /\ thr[w].reg \in Int
  BY Zenon DEF RpcInv, RpcTypes, Thread
<1> QED BY <1>1

LEMMA BalanceRead ==
    ASSUME RpcInv, NEW acc \in Acc
    PROVE  ReadBalance(acc) \in Int /\ (Sound => ReadBalance(acc) >= 0)
<1>1. CASE acc \in [ledger : {"grd"}, owner : Address]
  BY <1>1, Zenon DEF ReadBalance, RpcInv, RpcTypes, Sound, NotNegative
<1>2. CASE acc \in [ledger : {"asset"}, asset : Asset, owner : Address]
  BY <1>2, Zenon DEF ReadBalance, RpcInv, RpcTypes, Sound, NotNegative
<1> QED BY <1>1, <1>2, Zenon DEF Acc

LEMMA BalanceWritten ==
    ASSUME RpcInv, NEW acc \in Acc, NEW v \in Int, WriteBalance(acc, v)
    PROVE  /\ assetBal' \in [Asset -> [Address -> Int]] /\ grdBal' \in [Address -> Int]
           /\ Sound /\ v >= 0 => NotNegative'
<1>0. assetBal \in [Asset -> [Address -> Int]] /\ grdBal \in [Address -> Int]
  BY Zenon DEF RpcInv, RpcTypes
<1>1. CASE acc \in [ledger : {"grd"}, owner : Address]
  <2>1. grdBal' = [grdBal EXCEPT ![acc.owner] = v] /\ UNCHANGED assetBal
    BY <1>1, Zenon DEF WriteBalance
  <2>2. grdBal' \in [Address -> Int] /\ \A x \in Address : grdBal'[x] = v \/ grdBal'[x] = grdBal[x]
    BY <1>0, <2>1, Zenon
  <2>3. Sound /\ v >= 0 => NotNegative'
    BY <2>1, <2>2, Zenon DEF Sound, NotNegative
  <2> QED BY <1>0, <2>1, <2>2, <2>3, Zenon
<1>2. CASE acc \in [ledger : {"asset"}, asset : Asset, owner : Address]
  <2>1. assetBal' = [assetBal EXCEPT ![acc.asset][acc.owner] = v] /\ UNCHANGED grdBal
    BY <1>2, Zenon DEF WriteBalance
  <2>2. [assetBal[acc.asset] EXCEPT ![acc.owner] = v] \in [Address -> Int]
    BY <1>0, <1>2, Zenon
  <2>3. assetBal' \in [Asset -> [Address -> Int]]
    BY <1>0, <2>1, <2>2, Zenon
  <2>4. \A a \in Asset, x \in Address : assetBal'[a][x] = v \/ assetBal'[a][x] = assetBal[a][x]
    BY <1>0, <1>2, <2>1
  <2>5. Sound /\ v >= 0 => NotNegative'
    BY <2>1, <2>4, Zenon DEF Sound, NotNegative
  <2> QED BY <1>0, <2>1, <2>3, <2>5, Zenon
<1> QED BY <1>1, <1>2, Zenon DEF Acc

\* The book with a record that fits its order.
LEMMA BookStored ==
    ASSUME RpcInv, NEW id \in OrderId, NEW rec \in OrderRec, Fits(id, rec),
           orders' = Put(orders, id, rec)
    PROVE  /\ IsFiniteSet(DOMAIN orders')
           /\ \A k \in DOMAIN orders' : k \in OrderId /\ orders'[k] \in OrderRec
           /\ FillConsistent'
<1>1. DOMAIN orders' = DOMAIN orders \cup {id}
  BY Zenon DEF Put
<1>2. IsFiniteSet(DOMAIN orders')
  BY <1>1, FS_AddElement DEF RpcInv, RpcTypes
<1>3. \A k \in DOMAIN orders' : orders'[k] = IF k = id THEN rec ELSE orders[k]
  BY Zenon DEF Put
<1>4. \A k \in DOMAIN orders' : k \in OrderId /\ orders'[k] \in OrderRec
  BY <1>1, <1>3, Zenon DEF RpcInv, RpcTypes
<1>5. ASSUME NEW k \in DOMAIN orders' PROVE Fits(k, orders'[k])
  <2>1. CASE k = id
    BY <1>3, <2>1, Zenon
  <2>2. CASE k # id
    <3>1. k \in DOMAIN orders /\ orders'[k] = orders[k]
      BY <1>1, <1>3, <2>2, Zenon
    <3> QED BY <3>1, Zenon DEF RpcInv, FillConsistent, Fits
  <2> QED BY <2>1, <2>2, Zenon
<1>6. FillConsistent'
  BY <1>5, Zenon DEF FillConsistent, Fits
<1> QED BY <1>2, <1>4, <1>6, Zenon
-----------------------------------------------------------------------------
(* The accesses preserve the invariant *)

LEMMA ReadStep ==
    ASSUME RpcInv, NEW w \in Worker, DoRead(w) \/ DoNeed(w)
    PROVE  RpcInv' /\ (Sound => Sound')
<1>1. UNCHANGED <<db, lostUnits, now, crashes>> /\ thr[w].todo # <<>>
  BY Zenon DEF DoRead, DoNeed, Access
<1> DEFINE r == thr[w].todo[1]
<1>2. r \in Op /\ Head(thr[w].todo) = r
  BY <1>1, HeadOp, Zenon
<1>3. thr' \in [Worker -> Thread] /\ (Sound => \A v \in Worker : Covered(thr'[v]))
  <2>1. CASE DoRead(w)
    <3>1. r.op = "read" /\ Access(w, "read", ReadBalance(r.acc))
      BY <1>2, <2>1, Zenon DEF DoRead, Access
    <3>2. ReadBalance(r.acc) \in Int /\ (Sound => ReadBalance(r.acc) >= 0)
      BY <1>2, <3>1, OpByName, BalanceRead, Zenon DEF ReadOp
    <3> QED BY <3>1, <3>2, AccessKeeps, Zenon
  <2>2. CASE DoNeed(w)
    <3>1. r.op = "need"
      BY <1>2, <2>2, Zenon DEF DoNeed
    <3>2. ReadBalance(r.acc) \in Int /\ r.amount \in Nat /\ (Sound => ReadBalance(r.acc) >= 0)
      BY <1>2, <3>1, OpByName, BalanceRead, Zenon DEF NeedOp
    <3>3. CASE ReadBalance(r.acc) < r.amount
      <4>1. thr' = [thr EXCEPT ![w] = Idle]
        BY <1>2, <2>2, <3>3, Zenon DEF DoNeed
      <4> QED BY <4>1, IdleThread, Zenon DEF RpcInv, RpcTypes, Sound
    <3>4. CASE ~ (ReadBalance(r.acc) < r.amount)
      <4>1. Access(w, "need", ReadBalance(r.acc))
        BY <1>2, <2>2, <3>4, Zenon DEF DoNeed
      <4>2. ReadBalance(r.acc) >= thr[w].todo[1].amount
        BY <3>2, <3>4
      <4> QED BY <3>2, <4>1, <4>2, AccessKeeps, Zenon
    <3> QED BY <3>3, <3>4, Zenon
  <2> QED BY <2>1, <2>2, Zenon
<1> QED BY <1>1, <1>3, Zenon DEF RpcInv, RpcTypes, db, FillConsistent, Sound, NotNegative

LEMMA WriteStep ==
    ASSUME RpcInv, NEW w \in Worker, DoWrite(w) \/ DoSet(w)
    PROVE  RpcInv' /\ (Sound => Sound')
<1> DEFINE r == thr[w].todo[1]
<1>1. thr[w].todo # <<>> /\ UNCHANGED <<now, crashes, orders, supply>>
  BY Zenon DEF DoWrite, DoSet, Access, WriteBalance
<1>2. r \in Op /\ Head(thr[w].todo) = r /\ thr[w].reg \in Int /\ 1 \in 1..Len(thr[w].todo)
  BY <1>1, HeadOp, Zenon
<1>0. Sound => Covered(thr[w]) /\ thr[w].reg >= 0
  BY Zenon DEF Sound, Covered
<1>3. CASE DoWrite(w)
  <2>1. /\ r.op = "write" /\ Access(w, "write", 0) /\ WriteBalance(r.acc, thr[w].reg + r.delta)
        /\ lostUnits' = [lostUnits EXCEPT ![r.acc.asset] = @ - r.delta] \/ UNCHANGED lostUnits
    BY <1>2, <1>3, Zenon DEF DoWrite, Access
  <2>2. r.acc \in Acc /\ r.delta \in Int
    BY <1>2, <2>1, OpByName, Zenon DEF WriteOp
  <2>3. ASSUME Sound PROVE thr[w].reg + r.delta >= 0
    <3>2. r.delta >= 0 \/ (1 = 1 /\ thr[w].reg + r.delta >= 0) \/ 1 > 1
      BY <1>0, <1>2, <2>1, <2>3, Zenon DEF Covered, DebitCovered
    <3>3. PICK g, d : g = thr[w].reg /\ d = r.delta
      BY Zenon
    <3>4. g \in Int /\ g >= 0 /\ d \in Int /\ (d >= 0 \/ (1 = 1 /\ g + d >= 0) \/ 1 > 1)
      BY <1>0, <1>2, <2>2, <2>3, <3>2, <3>3, Zenon
    <3>5. g + d >= 0
      BY ONLY <3>4
    <3> QED BY <3>3, <3>5, Zenon
  <2>4. thr' \in [Worker -> Thread] /\ (Sound => \A v \in Worker : Covered(thr'[v]))
    <3>1. 0 \in Int /\ 0 >= 0
      OBVIOUS
    <3> QED BY <2>1, <3>1, AccessKeeps, Zenon
  <2>5. /\ assetBal' \in [Asset -> [Address -> Int]] /\ grdBal' \in [Address -> Int]
        /\ Sound => NotNegative'
    <3>1. thr[w].reg + r.delta \in Int
      BY <1>2, <2>2
    <3> QED BY <2>1, <2>2, <2>3, <3>1, BalanceWritten, Zenon
  <2>6. lostUnits' \in [Asset -> Int]
    BY <2>1, <2>2 DEF RpcInv, RpcTypes
  <2> QED BY <1>1, <2>4, <2>5, <2>6, Zenon DEF RpcInv, RpcTypes, FillConsistent, Sound
<1>4. CASE DoSet(w)
  <2>1. /\ r.op = "set" /\ Access(w, "set", thr[w].reg) /\ WriteBalance(r.acc, r.value)
        /\ UNCHANGED lostUnits
    BY <1>2, <1>4, Zenon DEF DoSet, Access
  <2>2. r.acc \in Acc /\ r.value \in Int
    BY <1>2, <2>1, OpByName, Zenon DEF SetOp
  <2>3. thr' \in [Worker -> Thread] /\ (Sound => \A v \in Worker : Covered(thr'[v]))
    BY <1>0, <1>2, <2>1, AccessKeeps, Zenon
  <2>4. Sound => r.value >= 0
    BY <1>0, <1>2, <2>1, Zenon DEF Covered
  <2>5. /\ assetBal' \in [Asset -> [Address -> Int]] /\ grdBal' \in [Address -> Int]
        /\ Sound => NotNegative'
    BY <2>1, <2>2, <2>4, BalanceWritten, Zenon
  <2> QED BY <1>1, <2>1, <2>3, <2>5, Zenon DEF RpcInv, RpcTypes, FillConsistent, Sound
<1> QED BY <1>3, <1>4, Zenon

LEMMA SupplyStep ==
    ASSUME RpcInv, NEW w \in Worker, DoWriteAsset(w) \/ DoStoreTrade(w)
    PROVE  RpcInv' /\ (Sound => Sound')
<1> DEFINE r == thr[w].todo[1]
<1>1. /\ thr[w].todo # <<>> /\ UNCHANGED <<now, crashes, assetBal, grdBal, orders, lostUnits>>
      /\ Access(w, "supply", 0) \/ Access(w, "trade", 0)
  BY Zenon DEF DoWriteAsset, DoStoreTrade, Access
<1>2. r \in Op /\ Head(thr[w].todo) = r
  BY <1>1, HeadOp, Zenon
<1>3. thr' \in [Worker -> Thread] /\ (Sound => \A v \in Worker : Covered(thr'[v]))
  <2>1. 0 \in Int /\ 0 >= 0
    OBVIOUS
  <2> QED BY <1>1, <2>1, AccessKeeps, Zenon
<1>4. supply' \in [Asset -> Int]
  <2>1. CASE DoWriteAsset(w)
    <3>1. r.op = "supply" /\ supply' = [supply EXCEPT ![r.asset] = r.value]
      BY <1>2, <2>1, Zenon DEF DoWriteAsset, Access
    <3>2. r.value \in Int
      BY <1>2, <3>1, OpByName, Zenon DEF SupplyOp
    <3> QED BY <3>1, <3>2, Zenon DEF RpcInv, RpcTypes
  <2>2. CASE DoStoreTrade(w)
    BY <2>2, Zenon DEF DoStoreTrade, RpcInv, RpcTypes
  <2> QED BY <2>1, <2>2, Zenon
<1> QED BY <1>1, <1>3, <1>4, Zenon DEF RpcInv, RpcTypes, FillConsistent, Sound, NotNegative

\* The id of the order a program is going to store.
LEMMA NewIdFacts ==
    ASSUME RpcInv, NEW r \in NewOp
    PROVE  /\ ComputeOrderId(r.asset, r.side, r.price, r.amount, r.owner, now) \in OrderId
           /\ NewOrder \in OrderRec
           /\ Fits(ComputeOrderId(r.asset, r.side, r.price, r.amount, r.owner, now), NewOrder)
<1>1. now \in Nat
  BY Zenon DEF RpcInv, RpcTypes
<1>2. ComputeOrderId(r.asset, r.side, r.price, r.amount, r.owner, now) \in OrderId
  BY <1>1, Zenon DEF ComputeOrderId, OrderId, NewOp
<1>3. NewOrder \in OrderRec
  BY Zenon DEF NewOrder, OrderRec, OrderStatus
<1>4. r.amount \in Nat \ {0}
  BY OrderAssumption, Zenon DEF NewOp
<1>5. ComputeOrderId(r.asset, r.side, r.price, r.amount, r.owner, now).amount = r.amount
  BY Zenon DEF ComputeOrderId
<1>6. Fits(ComputeOrderId(r.asset, r.side, r.price, r.amount, r.owner, now), NewOrder)
  BY <1>4, <1>5 DEF Fits, NewOrder, IsLive
<1> QED BY <1>2, <1>3, <1>6, Zenon

LEMMA StoreStep ==
    ASSUME RpcInv, NEW w \in Worker, DoStoreNew(w) \/ DoStore(w)
    PROVE  RpcInv' /\ (Sound => Sound')
<1> DEFINE r == thr[w].todo[1]
<1>1. /\ thr[w].todo # <<>> /\ UNCHANGED <<now, crashes, assetBal, grdBal, supply>>
      /\ Access(w, "new", 0) \/ Access(w, "store", 0)
  BY Zenon DEF DoStoreNew, DoStore, Access
<1>2. r \in Op /\ Head(thr[w].todo) = r
  BY <1>1, HeadOp, Zenon
<1>3. thr' \in [Worker -> Thread] /\ (Sound => \A v \in Worker : Covered(thr'[v]))
  <2>1. 0 \in Int /\ 0 >= 0
    OBVIOUS
  <2> QED BY <1>1, <2>1, AccessKeeps, Zenon
<1>4. CASE DoStoreNew(w)
  <2> DEFINE id == ComputeOrderId(r.asset, r.side, r.price, r.amount, r.owner, now)
  <2>1. r \in NewOp
    BY <1>2, <1>4, OpByName, Zenon DEF DoStoreNew, Access
  <2>2. id \in OrderId /\ NewOrder \in OrderRec /\ Fits(id, NewOrder)
    BY <2>1, NewIdFacts, Zenon
  <2>3. /\ orders' = Put(orders, id, NewOrder)
        /\ lostUnits' = IF id \in DOMAIN orders /\ id.side = "SELL"
                        THEN [lostUnits EXCEPT ![id.asset] = @ + Escrow(id, orders[id])]
                        ELSE lostUnits
    BY <1>2, <1>4, Zenon DEF DoStoreNew
  <2> HIDE DEF id
  <2>4. /\ IsFiniteSet(DOMAIN orders')
        /\ \A k \in DOMAIN orders' : k \in OrderId /\ orders'[k] \in OrderRec
        /\ FillConsistent'
    BY <2>2, <2>3, BookStored, Zenon
  <2>5. lostUnits' \in [Asset -> Int]
    <3>1. CASE id \in DOMAIN orders /\ id.side = "SELL"
      <4>1. orders[id] \in OrderRec /\ Fits(id, orders[id])
        BY <3>1, Zenon DEF RpcInv, RpcTypes, FillConsistent, Fits
      <4>2. Escrow(id, orders[id]) \in Int
        BY <2>2, <3>1, <4>1, EntryFacts DEF Escrow
      <4>3. lostUnits' = [lostUnits EXCEPT ![id.asset] = @ + Escrow(id, orders[id])]
        BY <2>3, <3>1, Zenon
      <4>4. id.asset \in Asset /\ lostUnits \in [Asset -> Int]
        BY <2>2, Zenon DEF OrderId, RpcInv, RpcTypes
      <4>5. ASSUME NEW f \in [Asset -> Int], NEW a \in Asset, NEW e \in Int
            PROVE  [f EXCEPT ![a] = @ + e] \in [Asset -> Int]
        OBVIOUS
      <4> QED BY <4>2, <4>3, <4>4, <4>5, Zenon
    <3>2. CASE ~ (id \in DOMAIN orders /\ id.side = "SELL")
      BY <2>3, <3>2, Zenon DEF RpcInv, RpcTypes
    <3> QED BY <3>1, <3>2, Zenon
  <2> QED BY <1>1, <1>3, <2>4, <2>5, Zenon DEF RpcInv, RpcTypes, Sound, NotNegative
<1>5. CASE DoStore(w)
  <2>1. r \in StoreOp /\ orders' = Put(orders, r.id, r.rec) /\ UNCHANGED lostUnits
    BY <1>2, <1>5, OpByName, Zenon DEF DoStore, Access
  <2>2. r.id \in OrderId /\ r.rec \in OrderRec /\ Fits(r.id, r.rec)
    BY <2>1, Zenon DEF StoreOp
  <2>3. /\ IsFiniteSet(DOMAIN orders')
        /\ \A k \in DOMAIN orders' : k \in OrderId /\ orders'[k] \in OrderRec
        /\ FillConsistent'
    BY <2>1, <2>2, BookStored, Zenon
  <2> QED BY <1>1, <1>3, <2>1, <2>3, Zenon DEF RpcInv, RpcTypes, Sound, NotNegative
<1> QED BY <1>4, <1>5, Zenon

-----------------------------------------------------------------------------
(* The handlers start *)

\* The debits of a program a handler is about to take up are covered.
StartCovered(reg, todo) ==
    /\ reg >= 0
    /\ \A i \in 1..Len(todo) :
          /\ todo[i].op = "set" => todo[i].value >= 0
          /\ todo[i].op = "write" =>
                \/ todo[i].delta >= 0
                \/ i = 1 /\ reg + todo[i].delta >= 0
                \/ i > 1 /\ todo[i - 1].op = "need" /\ todo[i - 1].amount + todo[i].delta >= 0

\* A handler takes up a program.
LEMMA StartKeeps ==
    ASSUME RpcInv, NEW w \in Worker, NEW kind \in Kind, NEW reg \in Int, NEW todo \in Seq(Op),
           Start(w, kind, reg, todo)
    PROVE  RpcInv' /\ (Sound /\ StartCovered(reg, todo) => Sound')
<1> DEFINE t == [Idle EXCEPT !.kind = kind, !.reg = reg, !.todo = todo]
<1>1. t \in Thread /\ t.todo = todo /\ t.reg = reg /\ t.buys = <<>>
  BY IdleThread, Zenon DEF Thread, Idle
<1>2. thr' = [thr EXCEPT ![w] = t] /\ UNCHANGED <<db, now, crashes, lostUnits>>
  BY Zenon DEF Start
<1> HIDE DEF t
<1>3. StartCovered(reg, todo) => Covered(t)
  <2>1. \A i \in 1..Len(t.buys) : ExactValue(t.buys[i].id)
    BY <1>1
  <2> QED BY <1>1, <2>1, Zenon DEF StartCovered, Covered, DebitCovered
<1>4. thr \in [Worker -> Thread]
  BY Zenon DEF RpcInv, RpcTypes
<1>5. /\ thr' \in [Worker -> Thread]
      /\ Sound /\ StartCovered(reg, todo) => \A v \in Worker : Covered(thr'[v])
  BY <1>1, <1>2, <1>3, <1>4, Zenon DEF Sound
<1> QED BY <1>2, <1>5, Zenon DEF RpcInv, RpcTypes, db, FillConsistent, Sound, NotNegative

\* A program without debits needs no cover.
LEMMA StartNoDebit ==
    ASSUME NEW todo, NoDebit(todo)
    PROVE  StartCovered(0, todo)
<1>1. 0 >= 0
  OBVIOUS
<1> QED BY <1>1, Zenon DEF StartCovered, NoDebit

LEMMA AccTypes ==
    ASSUME NEW x \in Address
    PROVE  GrdAcc(x) \in Acc /\ \A a \in Asset : AssetAcc(a, x) \in Acc
BY Zenon DEF Acc, GrdAcc, AssetAcc

\* placeorder: what is debited, wrapped or not, is covered by the balance read.
LEMMA PlaceStep ==
    ASSUME RpcInv, NEW w \in Worker, NEW a \in Asset, NEW n \in Amounts, NEW p \in Prices,
           NEW x \in Address, PlaceSell(w, a, n, p, x) \/ PlaceBuy(w, a, n, p, x)
    PROVE  RpcInv' /\ (Sound => Sound')
<1>1. n \in Int /\ p \in Int
  BY OrderAssumption
<1>2. /\ assetBal[a][x] \in Int /\ grdBal[x] \in Int
      /\ Sound => assetBal[a][x] >= 0 /\ grdBal[x] >= 0
  BY Zenon DEF RpcInv, RpcTypes, Sound, NotNegative
<1>3. Mul64(n, p) \in Int
  BY <1>1, MulInt, Zenon
<1>4. ASSUME NEW acc \in Acc, NEW side \in Side, NEW d \in Int, NEW reg \in Int, reg >= d,
             Sound => reg >= 0,
             Start(w, "place", reg, <<Write(acc, -d), StoreNew(side, a, n, p, x)>>)
      PROVE  RpcInv' /\ (Sound => Sound')
  <2> DEFINE todo == <<Write(acc, -d), StoreNew(side, a, n, p, x)>>
  <2>1. Write(acc, -d) \in Op /\ Write(acc, -d).delta = -d /\ Write(acc, -d).op = "write"
        /\ StoreNew(side, a, n, p, x) \in Op /\ StoreNew(side, a, n, p, x).op = "new"
    BY DEF Write, StoreNew, Op, WriteOp, NewOp
  <2>2. /\ todo \in Seq(Op) /\ Len(todo) = 2 /\ todo[1] = Write(acc, -d)
        /\ todo[2] = StoreNew(side, a, n, p, x)
    BY <2>1
  <2>3. \A i \in 1..Len(todo) :
          /\ todo[i].op # "set"
          /\ todo[i].op = "write" => i = 1 /\ reg + todo[i].delta >= 0
    BY <1>4, <2>1, <2>2
  <2> HIDE DEF todo
  <2>4. Sound => StartCovered(reg, todo)
    BY <1>4, <2>3, Zenon DEF StartCovered
  <2> QED BY <1>4, <2>2, <2>4, StartKeeps, Zenon DEF Kind, todo
<1>5. CASE PlaceSell(w, a, n, p, x)
  BY <1>1, <1>2, <1>4, <1>5, AccTypes, Zenon DEF PlaceSell, Side
<1>6. CASE PlaceBuy(w, a, n, p, x)
  BY <1>2, <1>3, <1>4, <1>6, AccTypes, Zenon DEF PlaceBuy, Side
<1> QED BY <1>5, <1>6, Zenon

\* cancelorder
LEMMA CancelStep ==
    ASSUME RpcInv, NEW w \in Worker, NEW id \in DOMAIN orders, Cancel(w, id)
    PROVE  RpcInv' /\ (Exact /\ Sound => Sound')
<1> DEFINE rec == [orders[id] EXCEPT !.status = "CANCELLED"]
<1>1. id \in OrderId /\ orders[id] \in OrderRec /\ Fits(id, orders[id])
  BY Zenon DEF RpcInv, RpcTypes, FillConsistent, Fits
<1>2. /\ id.asset \in Asset /\ id.owner \in Address
      /\ Remaining(id, orders[id]) \in Nat /\ Mul64(Remaining(id, orders[id]), id.price) \in Int
      /\ id.side \in Side
      /\ id.side = "BUY" /\ ExactValue(id) => Mul64(Remaining(id, orders[id]), id.price) >= 0
  BY <1>1, EntryFacts, Zenon
<1>3. rec \in OrderRec /\ rec.filled = orders[id].filled /\ rec.status = "CANCELLED"
  BY <1>1, Zenon DEF OrderRec, OrderStatus
<1> HIDE DEF rec
<1>4. Fits(id, rec)
  BY <1>1, <1>3, Zenon DEF Fits, IsLive
<1>5. Store(id, rec) \in Op /\ Store(id, rec).op = "store"
  BY <1>1, <1>3, <1>4, Zenon DEF Store, Op, StoreOp
<1>6. /\ RefundOf(id, orders[id]) \in Seq(Op)
      /\ Exact => NoDebit(RefundOf(id, orders[id]))
  <2>1. Remaining(id, orders[id]) \in Int /\ Remaining(id, orders[id]) >= 0
    BY <1>2
  <2>2. Exact => ExactValue(id)
    BY Zenon DEF Exact
  <2> QED BY <1>2, <2>1, <2>2, CreditProgram, AccTypes, Zenon DEF RefundOf, Side
<1> DEFINE todo == Append(RefundOf(id, orders[id]), Store(id, rec))
<1>7. todo \in Seq(Op) /\ (Exact => NoDebit(todo))
  <2>1. ASSUME NEW s \in Seq(Op), NEW r \in Op, NoDebit(s), r.op = "store"
        PROVE  NoDebit(Append(s, r))
    BY <2>1 DEF NoDebit
  <2>2. ASSUME NEW s \in Seq(Op), NEW r \in Op PROVE Append(s, r) \in Seq(Op)
    OBVIOUS
  <2> QED BY <1>5, <1>6, <2>1, <2>2, Zenon
<1>8. Start(w, "cancel", 0, todo)
  BY Zenon DEF Cancel, rec
<1> HIDE DEF todo
<1>9. 0 \in Int
  OBVIOUS
<1> QED BY <1>7, <1>8, <1>9, StartKeeps, StartNoDebit, Zenon DEF Kind

\* depositgrd and withdrawgrd
LEMMA GrdStep ==
    ASSUME RpcInv, NEW w \in Worker, NEW x \in Address, NEW n \in Deposits,
           depositgrd(w, x, n) \/ withdrawgrd(w, x, n)
    PROVE  RpcInv' /\ (Sound => Sound')
<1>1. n \in Nat /\ grdBal[x] \in Int /\ (Sound => grdBal[x] >= 0)
  BY RpcAssumption, Zenon DEF RpcInv, RpcTypes, Sound, NotNegative
<1>2. ASSUME NEW d \in Int, Sound => grdBal[x] + d >= 0, NEW k \in {"deposit", "withdraw"},
             Start(w, k, grdBal[x], <<Write(GrdAcc(x), d)>>)
      PROVE  RpcInv' /\ (Sound => Sound')
  <2> DEFINE todo == <<Write(GrdAcc(x), d)>>
  <2>1. Write(GrdAcc(x), d) \in Op /\ Write(GrdAcc(x), d).delta = d /\ Write(GrdAcc(x), d).op = "write"
    BY AccTypes, Zenon DEF Write, Op, WriteOp
  <2>2. todo \in Seq(Op) /\ Len(todo) = 1 /\ todo[1] = Write(GrdAcc(x), d)
    BY <2>1
  <2>3. \A i \in 1..Len(todo) :
          i = 1 /\ todo[i].op # "set" /\ (Sound => grdBal[x] + todo[i].delta >= 0)
    BY <1>2, <2>1, <2>2
  <2> HIDE DEF todo
  <2>4. Sound => StartCovered(grdBal[x], todo)
    BY <1>1, <2>3, Zenon DEF StartCovered
  <2> QED BY <1>1, <1>2, <2>2, <2>4, StartKeeps, Zenon DEF Kind, todo
<1>3. n \in Int /\ -n \in Int /\ (Sound => grdBal[x] + n >= 0)
      /\ (grdBal[x] >= n => grdBal[x] + (-n) >= 0)
  BY <1>1
<1> QED BY <1>2, <1>3, Zenon DEF depositgrd, withdrawgrd

\* transferasset, mintasset and burnasset
LEMMA RegistryStep ==
    ASSUME RpcInv, NEW w \in Worker, NEW a \in Asset, NEW n \in Grants, NEW x \in Address, NEW y \in Address,
           mintasset(w, a, n) \/ burnasset(w, a, n, x) \/ transferasset(w, a, n, x, y)
    PROVE  RpcInv' /\ (Sound => Sound')
<1>1. n \in Nat /\ assetBal[a][x] \in Int /\ supply[a] \in Int /\ Creator[a] \in Address
  <2>1. n \in Nat
    BY RpcAssumption, OrderAssumption
  <2>2. RpcTypes
    BY DEF RpcInv
  <2>3. assetBal[a][x] \in Int
    BY <2>2 DEF RpcTypes
  <2>4. supply[a] \in Int
    BY <2>2 DEF RpcTypes
  <2>5. Creator[a] \in Address
    BY RpcAssumption
  <2> QED BY <2>1, <2>3, <2>4, <2>5, Zenon
<1>2. AssetAcc(a, x) \in Acc /\ AssetAcc(a, y) \in Acc /\ AssetAcc(a, Creator[a]) \in Acc
  BY <1>1, AccTypes, Zenon
<1>3. CASE mintasset(w, a, n)
  <2>0. n \in Int /\ n >= 0 /\ 0 \in Int
    BY <1>1
  <2> DEFINE s == <<WriteAsset(a, supply[a] + n)>>
             t == Credit(AssetAcc(a, Creator[a]), n)
  <2>1. WriteAsset(a, supply[a] + n) \in Op /\ WriteAsset(a, supply[a] + n).op = "supply"
    BY <1>1 DEF WriteAsset, Op, SupplyOp
  <2>2. s \in Seq(Op) /\ NoDebit(s)
    BY <2>1 DEF NoDebit
  <2>3. t \in Seq(Op) /\ NoDebit(t)
    BY <1>2, <2>0, CreditProgram, Zenon
  <2>4. Start(w, "mint", 0, s \o t)
    BY <1>3, Zenon DEF mintasset
  <2> HIDE DEF s, t
  <2>5. s \o t \in Seq(Op) /\ NoDebit(s \o t)
    BY <2>2, <2>3, ProgramConcat, Zenon
  <2> QED BY <2>0, <2>4, <2>5, StartKeeps, StartNoDebit, Zenon DEF Kind
<1>4. CASE burnasset(w, a, n, x)
  <2> DEFINE todo == <<Need(AssetAcc(a, x), n), Write(AssetAcc(a, x), -n), WriteAsset(a, supply[a] - n)>>
  <2>1. /\ Need(AssetAcc(a, x), n) \in Op /\ Need(AssetAcc(a, x), n).op = "need"
        /\ Need(AssetAcc(a, x), n).amount = n
        /\ Write(AssetAcc(a, x), -n) \in Op /\ Write(AssetAcc(a, x), -n).delta = -n
        /\ Write(AssetAcc(a, x), -n).op = "write"
        /\ WriteAsset(a, supply[a] - n) \in Op /\ WriteAsset(a, supply[a] - n).op = "supply"
    BY <1>1, <1>2 DEF Need, Write, WriteAsset, Op, NeedOp, WriteOp, SupplyOp
  <2>2. /\ todo \in Seq(Op) /\ Len(todo) = 3 /\ todo[1] = Need(AssetAcc(a, x), n)
        /\ todo[2] = Write(AssetAcc(a, x), -n) /\ todo[3] = WriteAsset(a, supply[a] - n)
    BY <2>1
  <2>3. Start(w, "burn", 0, todo)
    BY <1>4, Zenon DEF burnasset
  <2> HIDE DEF todo
  <2>4. \A i \in 1..Len(todo) :
           /\ todo[i].op # "set"
           /\ todo[i].op = "write" =>
                i > 1 /\ todo[i - 1].op = "need" /\ todo[i - 1].amount + todo[i].delta >= 0
    BY <1>1, <2>1, <2>2
  <2>5. 0 \in Int /\ 0 >= 0
    OBVIOUS
  <2>6. StartCovered(0, todo)
    BY <2>4, <2>5, Zenon DEF StartCovered
  <2> QED BY <2>2, <2>3, <2>5, <2>6, StartKeeps, Zenon DEF Kind
<1>5. CASE transferasset(w, a, n, x, y)
  <2> DEFINE v == assetBal[a][x] - n
             todo == <<Read(AssetAcc(a, y)), Set(AssetAcc(a, x), v), Write(AssetAcc(a, y), n)>>
  <2>0. v \in Int /\ v >= 0 /\ 0 \in Int
    BY <1>1, <1>5 DEF transferasset
  <2>1. /\ Read(AssetAcc(a, y)) \in Op /\ Read(AssetAcc(a, y)).op = "read"
        /\ Set(AssetAcc(a, x), v) \in Op /\ Set(AssetAcc(a, x), v).op = "set"
        /\ Set(AssetAcc(a, x), v).value = v /\ Write(AssetAcc(a, y), n).op = "write"
        /\ Write(AssetAcc(a, y), n) \in Op /\ Write(AssetAcc(a, y), n).delta = n
    BY <1>1, <1>2, <2>0 DEF Read, Set, Write, Op, ReadOp, SetOp, WriteOp
  <2>2. /\ todo \in Seq(Op) /\ Len(todo) = 3 /\ todo[1] = Read(AssetAcc(a, y))
        /\ todo[2] = Set(AssetAcc(a, x), v) /\ todo[3] = Write(AssetAcc(a, y), n)
    BY <2>1
  <2>3. PICK k \in {"pay", "payself"} : Start(w, k, 0, todo)
    BY <1>5, Zenon DEF transferasset
  <2> HIDE DEF todo, v
  <2>4. NoDebit(todo)
    BY <1>1, <2>0, <2>1, <2>2 DEF NoDebit
  <2> QED BY <2>0, <2>2, <2>3, <2>4, StartKeeps, StartNoDebit, Zenon DEF Kind
<1> QED BY <1>3, <1>4, <1>5, Zenon

-----------------------------------------------------------------------------
(* MatchOrders *)

\* The live orders of one side are finitely many.
LEMMA LiveOrdersFinite ==
    ASSUME RpcInv, NEW a, NEW side
    PROVE  IsFiniteSet(LiveOrders(a, side)) /\ Cardinality(LiveOrders(a, side)) \in Nat
<1> DEFINE K == {k \in DOMAIN orders : k.asset = a /\ k.side = side /\ IsLive(orders[k])}
           S == LiveOrders(a, side)
<1>1. IsFiniteSet(K)
  BY FS_Subset, Zenon DEF RpcInv, RpcTypes
<1>2. S = {[id |-> id, rec |-> orders[id]] : id \in K}
  BY Zenon DEF LiveOrders
<1>3. IsFiniteSet(S)
  <2> DEFINE f == [id \in K |-> [id |-> id, rec |-> orders[id]]]
  <2>1. f \in [K -> S] /\ \A e \in S : \E id \in K : f[id] = e
    BY <1>2, Zenon
  <2>2. f \in Surjection(K, S)
    BY <2>1, Zenon DEF Surjection
  <2> HIDE DEF f
  <2> QED BY <1>1, <2>2, FS_Surjection, Zenon
<1> QED BY <1>3, FS_CardinalityType, Zenon

\* The sorted orders of one side.
LEMMA SortedOrders ==
    ASSUME RpcInv, NEW a \in Asset, NEW side \in Side, NEW s \in Sorted(LiveOrders(a, side))
    PROVE  s \in Seq(LiveEntry(side)) /\ (Exact => \A i \in 1..Len(s) : ExactValue(s[i].id))
<1> DEFINE K == {k \in DOMAIN orders : k.asset = a /\ k.side = side /\ IsLive(orders[k])}
           S == LiveOrders(a, side)
<1>1. Cardinality(S) \in Nat
  BY LiveOrdersFinite, Zenon
<1>2. S = {[id |-> id, rec |-> orders[id]] : id \in K}
  BY Zenon DEF LiveOrders
<1>3. S \subseteq LiveEntry(side)
  <2> SUFFICES ASSUME NEW id \in K PROVE [id |-> id, rec |-> orders[id]] \in LiveEntry(side)
    BY <1>2, Zenon
  <2>1. id \in OrderId /\ orders[id] \in OrderRec /\ Fits(id, orders[id])
    BY Zenon DEF RpcInv, RpcTypes, FillConsistent, Fits
  <2> QED BY <2>1, Zenon DEF LiveEntry, Entry
<1>4. s \in [1..Cardinality(S) -> S]
  BY Zenon DEF Sorted
<1>6. Exact => \A e \in S : ExactValue(e.id)
  <2>1. \A e \in S : e.id \in DOMAIN orders
    BY <1>2
  <2> HIDE DEF S, K
  <2> QED BY <2>1, Zenon DEF Exact
<1> HIDE DEF S, K
<1>5. s \in [1..Cardinality(S) -> LiveEntry(side)]
  BY <1>3, <1>4, Zenon
<1>7. s \in Seq(LiveEntry(side)) /\ Len(s) = Cardinality(S)
  BY <1>1, <1>5
<1> QED BY <1>4, <1>6, <1>7, Zenon

LEMMA CollectStep ==
    ASSUME RpcInv, NEW w \in Worker, NEW a \in Asset, MatchCollect(w, a)
    PROVE  RpcInv' /\ (Exact /\ Sound => Sound')
<1>1. PICK buys \in Sorted(LiveOrders(a, "BUY")), sells \in Sorted(LiveOrders(a, "SELL")) :
         /\ thr' = [thr EXCEPT ![w] =
              [Idle EXCEPT !.kind = "match", !.asset = a, !.buys = buys, !.sells = sells]]
         /\ UNCHANGED <<db, now, crashes, lostUnits>>
  BY Zenon DEF MatchCollect
<1>2. /\ buys \in Seq(LiveEntry("BUY")) /\ sells \in Seq(LiveEntry("SELL"))
      /\ Exact => \A i \in 1..Len(buys) : ExactValue(buys[i].id)
  BY SortedOrders, Zenon DEF Side
<1> DEFINE t == [Idle EXCEPT !.kind = "match", !.asset = a, !.buys = buys, !.sells = sells]
<1>3. t \in Thread /\ t.todo = <<>> /\ t.reg = 0 /\ t.buys = buys
  BY <1>2, IdleThread, Zenon DEF Thread, Idle, Kind
<1> HIDE DEF t
<1>4. Exact => Covered(t)
  <2>1. t.reg >= 0 /\ 1..Len(t.todo) = {}
    BY <1>3
  <2> QED BY <1>2, <1>3, <2>1, Zenon DEF Covered
<1>5. thr' = [thr EXCEPT ![w] = t]
  BY <1>1, Zenon DEF t
<1>6. thr' \in [Worker -> Thread] /\ (Exact /\ Sound => \A v \in Worker : Covered(thr'[v]))
  BY <1>3, <1>4, <1>5, Zenon DEF RpcInv, RpcTypes, Sound
<1> QED BY <1>1, <1>6, Zenon DEF RpcInv, RpcTypes, db, FillConsistent, Sound, NotNegative

\* The list of one side after a fill by no more than what its first order has left.
LEMMA AdvanceType ==
    ASSUME NEW side \in Side, NEW s \in Seq(LiveEntry(side)), s # <<>>, NEW qty \in Nat, qty > 0,
           qty <= Remaining(Head(s).id, Head(s).rec)
    PROVE  /\ Advance(s, qty) \in Seq(LiveEntry(side))
           /\ (\A i \in 1..Len(s) : ExactValue(s[i].id)) =>
                 \A i \in 1..Len(Advance(s, qty)) : ExactValue(Advance(s, qty)[i].id)
<1> DEFINE e == Head(s)
           rec == Filled(e.id, e.rec, qty)
           f == [e EXCEPT !.rec = rec]
<1>1. e \in LiveEntry(side) /\ Tail(s) \in Seq(LiveEntry(side))
  OBVIOUS
<1>2. e.id \in OrderId /\ e.rec \in OrderRec /\ Fits(e.id, e.rec) /\ IsLive(e.rec) /\ e.id.side = side
  BY <1>1, Zenon DEF LiveEntry, Entry
<1>3. /\ rec \in OrderRec /\ Fits(e.id, rec) /\ rec.filled < e.id.amount => IsLive(rec)
      /\ rec \in OrderRec /\ Fits(e.id, rec) /\ rec.filled \in Nat /\ e.id.amount \in Nat
  BY <1>2, FilledFits, EntryFacts, Zenon
<1>4. f = [id |-> e.id, rec |-> rec]
  BY <1>1 DEF LiveEntry, Entry
<1>5. Advance(s, qty) = IF rec.filled >= e.id.amount THEN Tail(s) ELSE <<f>> \o Tail(s)
  BY Zenon DEF Advance
<1> HIDE DEF e, rec, f
<1>8. /\ Len(s) \in Nat /\ Len(Tail(s)) = Len(s) - 1
      /\ \A i \in 1..(Len(s) - 1) : i + 1 \in 1..Len(s) /\ Tail(s)[i] = s[i + 1]
      /\ 1 \in 1..Len(s) /\ e = s[1]
  BY DEF e
<1>6. CASE rec.filled >= e.id.amount
  BY <1>1, <1>5, <1>6, <1>8, Zenon
<1>7. CASE ~ (rec.filled >= e.id.amount)
  <2>1. rec.filled < e.id.amount
    BY <1>3, <1>7
  <2>2. f \in LiveEntry(side)
    BY <1>2, <1>3, <1>4, <2>1, Zenon DEF LiveEntry, Entry
  <2>3. <<f>> \in Seq(LiveEntry(side))
    BY <2>2
  <2>4. <<f>> \o Tail(s) \in Seq(LiveEntry(side))
    BY <1>1, <2>3, Concatenation, Zenon
  <2>5. /\ Len(<<f>>) = 1 /\ <<f>>[1] = f
        /\ Len(<<f>> \o Tail(s)) = Len(<<f>>) + Len(Tail(s))
        /\ \A i \in 1..(Len(<<f>>) + Len(Tail(s))) :
              (<<f>> \o Tail(s))[i] = IF i <= Len(<<f>>) THEN <<f>>[i] ELSE Tail(s)[i - Len(<<f>>)]
    BY <1>1, <2>3, Concatenation
  <2>6. /\ Len(<<f>> \o Tail(s)) = Len(s)
        /\ \A i \in 1..Len(s) : (<<f>> \o Tail(s))[i] = IF i = 1 THEN f ELSE s[i]
    BY <1>8, <2>5
  <2>7. f.id = s[1].id
    BY <1>4, <1>8, Zenon
  <2> QED BY <1>5, <1>7, <2>4, <2>6, <2>7, Zenon
<1> QED BY <1>6, <1>7, Zenon

\* The program of one trade pays, then stores records that fit.
LEMMA TradeProgramType ==
    ASSUME NEW b \in LiveEntry("BUY"), NEW s \in LiveEntry("SELL"), NEW qty \in Nat, qty > 0,
           qty <= Remaining(b.id, b.rec), qty <= Remaining(s.id, s.rec), b.id.price >= s.id.price
    PROVE  /\ TradeProgram(b, s, qty) \in Seq(Op)
           /\ ExactValue(b.id) => NoDebit(TradeProgram(b, s, qty))
<1>1. /\ b.id \in OrderId /\ b.rec \in OrderRec /\ Fits(b.id, b.rec) /\ IsLive(b.rec)
      /\ s.id \in OrderId /\ s.rec \in OrderRec /\ Fits(s.id, s.rec) /\ IsLive(s.rec)
      /\ b.id.side = "BUY"
  BY Zenon DEF LiveEntry, Entry
<1>2. /\ b.id.amount \in Amounts /\ b.id.price \in Prices /\ b.id.amount \in Nat /\ b.id.price \in Nat
      /\ b.id.asset \in Asset /\ b.id.owner \in Address
      /\ Remaining(b.id, b.rec) \in Nat /\ Remaining(b.id, b.rec) <= b.id.amount
  BY <1>1, EntryFacts, Zenon
<1>3. /\ s.id.amount \in Amounts /\ s.id.price \in Prices /\ s.id.amount \in Nat /\ s.id.price \in Nat
      /\ s.id.asset \in Asset /\ s.id.owner \in Address
  BY <1>1, EntryFacts, Zenon
<1>4. qty <= b.id.amount
  BY <1>2
<1> DEFINE d == b.id.price - s.id.price
           refund == Mul64(qty, d)
           paid == Mul64(qty, s.id.price)
<1>5. d \in Nat /\ d <= b.id.price
  BY <1>2, <1>3
<1>6. /\ paid \in Int /\ refund \in Int
      /\ ExactValue(b.id) => paid >= 0 /\ refund >= 0
  <2>1. s.id.price <= b.id.price
    BY <1>2, <1>3, Zenon
  <2>2. qty \in Int /\ s.id.price \in Int /\ d \in Int
    BY <1>3, <1>5
  <2> HIDE DEF d
  <2>3. paid \in Int /\ refund \in Int
    BY <2>2, MulInt, Zenon
  <2>4. ASSUME ExactValue(b.id) PROVE paid \in Nat /\ refund \in Nat
    <3>1. ~ Overflows(b.id.amount, b.id.price)
      BY <1>1, <2>4, Zenon DEF ExactValue
    <3>2. paid \in Nat
      BY <1>2, <1>3, <1>4, <2>1, <3>1, MulExact
    <3>3. refund \in Nat
      BY <1>2, <1>4, <1>5, <3>1, MulExact
    <3> QED BY <3>2, <3>3, Zenon
  <2> HIDE DEF paid, refund
  <2> QED BY <2>3, <2>4
<1> HIDE DEF d
<1>7. qty \in Int /\ qty >= 0
  OBVIOUS
<1> HIDE DEF refund, paid
<1> DEFINE p1 == Credit(AssetAcc(b.id.asset, b.id.owner), qty)
           p2 == Credit(GrdAcc(s.id.owner), paid)
           p3 == IF b.id.price > s.id.price THEN Credit(GrdAcc(b.id.owner), refund) ELSE <<>>
           p4 == <<Store(b.id, Filled(b.id, b.rec, qty)), Store(s.id, Filled(s.id, s.rec, qty)),
                   StoreTrade(b.id, s.id, qty)>>
<1>8. p1 \in Seq(Op) /\ NoDebit(p1)
  BY <1>2, <1>7, CreditProgram, AccTypes, Zenon
<1>9. p2 \in Seq(Op) /\ (ExactValue(b.id) => NoDebit(p2))
  BY <1>3, <1>6, CreditProgram, AccTypes, Zenon
<1>10. p3 \in Seq(Op) /\ (ExactValue(b.id) => NoDebit(p3))
  <2>1. /\ Credit(GrdAcc(b.id.owner), refund) \in Seq(Op)
        /\ ExactValue(b.id) => NoDebit(Credit(GrdAcc(b.id.owner), refund))
    BY <1>2, <1>6, CreditProgram, AccTypes, Zenon
  <2>2. <<>> \in Seq(Op) /\ NoDebit(<<>>)
    BY DEF NoDebit
  <2> QED BY <2>1, <2>2, Zenon
<1>11. p4 \in Seq(Op) /\ NoDebit(p4)
  <2> DEFINE q == Store(b.id, Filled(b.id, b.rec, qty))
             r == Store(s.id, Filled(s.id, s.rec, qty))
             u == StoreTrade(b.id, s.id, qty)
  <2>1. Filled(b.id, b.rec, qty) \in OrderRec /\ Fits(b.id, Filled(b.id, b.rec, qty))
    BY <1>1, FilledFits, Zenon
  <2>2. Filled(s.id, s.rec, qty) \in OrderRec /\ Fits(s.id, Filled(s.id, s.rec, qty))
    BY <1>1, FilledFits, Zenon
  <2>3. q \in Op /\ q.op = "store"
    BY <1>1, <2>1, Zenon DEF Store, Op, StoreOp
  <2>4. r \in Op /\ r.op = "store"
    BY <1>1, <2>2, Zenon DEF Store, Op, StoreOp
  <2>5. u \in Op /\ u.op = "trade"
    BY <1>1, Zenon DEF StoreTrade, Op, TradeOp
  <2> HIDE DEF q, r, u
  <2>6. <<q, r, u>> \in Seq(Op) /\ NoDebit(<<q, r, u>>)
    BY <2>3, <2>4, <2>5 DEF NoDebit
  <2> QED BY <2>6, Zenon DEF q, r, u
<1>12. TradeProgram(b, s, qty) = ((p1 \o p2) \o p3) \o p4
  BY Zenon DEF TradeProgram, paid, refund, d
<1> HIDE DEF p1, p2, p3, p4
<1>13. p1 \o p2 \in Seq(Op) /\ (ExactValue(b.id) => NoDebit(p1 \o p2))
  BY <1>8, <1>9, ProgramConcat, Zenon
<1>14. (p1 \o p2) \o p3 \in Seq(Op) /\ (ExactValue(b.id) => NoDebit((p1 \o p2) \o p3))
  BY <1>10, <1>13, ProgramConcat, Zenon
<1>15. /\ ((p1 \o p2) \o p3) \o p4 \in Seq(Op)
       /\ ExactValue(b.id) => NoDebit(((p1 \o p2) \o p3) \o p4)
  BY <1>11, <1>14, ProgramConcat, Zenon
<1> QED BY <1>12, <1>15, Zenon

LEMMA TradeStep ==
    ASSUME RpcInv, NEW w \in Worker, MatchTrade(w)
    PROVE  RpcInv' /\ (Sound => Sound')
<1> DEFINE t == thr[w]
           b == Head(t.buys)
           s == Head(t.sells)
           qty == MinOf(Remaining(b.id, b.rec), Remaining(s.id, s.rec))
<1>0. Sound => /\ t.reg >= 0
               /\ \A i \in 1..Len(t.buys) : ExactValue(t.buys[i].id)
  BY Zenon DEF Sound, Covered
<1>1. t \in Thread /\ t.buys \in Seq(LiveEntry("BUY")) /\ t.sells \in Seq(LiveEntry("SELL"))
  BY Zenon DEF RpcInv, RpcTypes, Thread
<1>2. t.buys # <<>> /\ t.sells # <<>> /\ b.id.price >= s.id.price
  BY Zenon DEF MatchTrade, MoreTrades
<1>3. b \in LiveEntry("BUY") /\ s \in LiveEntry("SELL")
  BY <1>1, <1>2
<1>4. Sound => ExactValue(b.id)
  <2>1. 1 \in 1..Len(t.buys) /\ b = t.buys[1]
    BY <1>1, <1>2
  <2> QED BY <1>0, <2>1, Zenon
<1> DEFINE todo == TradeProgram(b, s, qty)
           buys == Advance(t.buys, qty)
           sells == Advance(t.sells, qty)
           u == [t EXCEPT !.todo = todo, !.buys = buys, !.sells = sells]
<1>5. thr' = [thr EXCEPT ![w] = u] /\ UNCHANGED <<db, now, crashes, lostUnits>>
  BY Zenon DEF MatchTrade
<1>6. qty \in Nat /\ qty > 0 /\ qty <= Remaining(b.id, b.rec) /\ qty <= Remaining(s.id, s.rec)
  <2>1. /\ Remaining(b.id, b.rec) \in Nat /\ Remaining(b.id, b.rec) > 0
        /\ Remaining(s.id, s.rec) \in Nat /\ Remaining(s.id, s.rec) > 0
    BY <1>3, EntryFacts, Zenon DEF LiveEntry, Entry
  <2> HIDE DEF b, s
  <2> QED BY <2>1 DEF MinOf
<1> HIDE DEF qty
<1>7. /\ buys \in Seq(LiveEntry("BUY")) /\ sells \in Seq(LiveEntry("SELL"))
      /\ Sound => \A i \in 1..Len(buys) : ExactValue(buys[i].id)
  BY <1>0, <1>1, <1>2, <1>6, AdvanceType, Zenon DEF Side
<1>8. todo \in Seq(Op) /\ (Sound => NoDebit(todo))
  BY <1>2, <1>3, <1>4, <1>6, TradeProgramType, Zenon
<1> HIDE DEF b, s, todo, buys, sells
<1>9. u \in Thread /\ u.todo = todo /\ u.reg = t.reg /\ u.buys = buys
  BY <1>1, <1>7, <1>8, Zenon DEF Thread
<1> HIDE DEF u, t
<1>10. Sound => Covered(u)
  BY <1>0, <1>7, <1>8, <1>9, Zenon DEF Covered, DebitCovered, NoDebit
<1>11. thr' \in [Worker -> Thread] /\ (Sound => \A v \in Worker : Covered(thr'[v]))
  BY <1>5, <1>9, <1>10, Zenon DEF RpcInv, RpcTypes, Sound
<1> QED BY <1>5, <1>11, Zenon DEF RpcInv, RpcTypes, db, FillConsistent, Sound, NotNegative

LEMMA EndStep ==
    ASSUME RpcInv, Crash \/ Tick \/ \E w \in Worker : MatchEnd(w)
    PROVE  RpcInv' /\ (Sound => Sound')
<1>1. CASE Crash
  <2>1. thr' \in [Worker -> Thread] /\ (Sound => \A v \in Worker : Covered(thr'[v]))
    BY <1>1, IdleThread, Zenon DEF Crash
  <2>2. crashes' \in Nat /\ now' \in Nat
    BY <1>1 DEF Crash, RpcInv, RpcTypes
  <2> QED BY <1>1, <2>1, <2>2, Zenon DEF Crash, RpcInv, RpcTypes, db, FillConsistent, Sound, NotNegative
<1>2. CASE Tick
  <2>1. crashes' \in Nat /\ now' \in Nat
    BY <1>2 DEF Tick, RpcInv, RpcTypes
  <2> QED BY <1>2, <2>1, Zenon DEF Tick, RpcInv, RpcTypes, db, FillConsistent, Sound, NotNegative
<1>3. ASSUME NEW w \in Worker, MatchEnd(w) PROVE RpcInv' /\ (Sound => Sound')
  <2>1. thr' \in [Worker -> Thread] /\ (Sound => \A v \in Worker : Covered(thr'[v]))
    BY <1>3, IdleThread, Zenon DEF MatchEnd, RpcInv, RpcTypes, Sound
  <2> QED BY <1>3, <2>1, Zenon DEF MatchEnd, RpcInv, RpcTypes, db, FillConsistent, Sound, NotNegative
<1> QED BY <1>1, <1>2, <1>3, Zenon
-----------------------------------------------------------------------------
(* The theorems *)

LEMMA InitRpc ==
    ASSUME Init
    PROVE  RpcInv /\ Sound
<1>1. supply \in [Asset -> Int]
  <2>1. ASSUME NEW a \in Asset PROVE SumFunction(InitAsset[a]) \in Int
    <3>1. InitAsset[a] \in [Address -> Nat] /\ IsFiniteSet(Address)
      BY RpcAssumption, OrderAssumption, Zenon
    <3>2. IsFiniteSet(DOMAIN InitAsset[a]) /\ \A x \in DOMAIN InitAsset[a] : InitAsset[a][x] \in Int
      BY <3>1
    <3> QED BY <3>2, SumFunctionInt, Zenon
  <2> QED BY <2>1, Zenon DEF Init
<1>2. DOMAIN orders = {} /\ IsFiniteSet({})
  BY FS_EmptySet DEF Init
<1>3. /\ assetBal \in [Asset -> [Address -> Int]] /\ grdBal \in [Address -> Int] /\ NotNegative
      /\ lostUnits \in [Asset -> Int] /\ now \in Nat /\ crashes \in Nat
  BY RpcAssumption DEF Init, NotNegative
<1>4. thr \in [Worker -> Thread] /\ \A w \in Worker : Covered(thr[w])
  BY IdleThread, Zenon DEF Init
<1> QED BY <1>1, <1>2, <1>3, <1>4, Zenon DEF RpcInv, RpcTypes, FillConsistent, Sound

LEMMA StepRpc ==
    ASSUME RpcInv, [Next]_vars
    PROVE  RpcInv' /\ (Exact /\ Sound => Sound')
<1>1. ASSUME NEW w \in Worker, Request(w) PROVE RpcInv' /\ (Exact /\ Sound => Sound')
  <2>1. ASSUME NEW a \in Asset, NEW n \in Amounts, NEW p \in Prices, NEW x \in Address,
               PlaceSell(w, a, n, p, x) \/ PlaceBuy(w, a, n, p, x)
        PROVE  RpcInv' /\ (Exact /\ Sound => Sound')
    BY <2>1, PlaceStep, Zenon
  <2>2. ASSUME NEW id \in DOMAIN orders, Cancel(w, id) PROVE RpcInv' /\ (Exact /\ Sound => Sound')
    BY <2>2, CancelStep, Zenon
  <2>3. ASSUME NEW a \in Asset, MatchCollect(w, a) PROVE RpcInv' /\ (Exact /\ Sound => Sound')
    BY <2>3, CollectStep, Zenon
  <2>4. ASSUME NEW x \in Address, NEW n \in Deposits, depositgrd(w, x, n) \/ withdrawgrd(w, x, n)
        PROVE  RpcInv' /\ (Exact /\ Sound => Sound')
    BY <2>4, GrdStep, Zenon
  <2>5. ASSUME NEW a \in Asset, NEW n \in Grants, mintasset(w, a, n) PROVE RpcInv' /\ (Exact /\ Sound => Sound')
    <3>1. Creator[a] \in Address
      BY RpcAssumption, Zenon
    <3> QED BY <2>5, <3>1, RegistryStep, Zenon
  <2>6. ASSUME NEW a \in Asset, NEW n \in Grants, NEW x \in Address, burnasset(w, a, n, x) PROVE RpcInv' /\ (Exact /\ Sound => Sound')
    BY <2>6, RegistryStep, Zenon
  <2>7. ASSUME NEW a \in Asset, NEW n \in Grants, NEW x \in Address, NEW y \in Address,
               transferasset(w, a, n, x, y)
        PROVE  RpcInv' /\ (Exact /\ Sound => Sound')
    BY <2>7, RegistryStep, Zenon
  <2> QED BY <1>1, <2>1, <2>2, <2>3, <2>4, <2>5, <2>6, <2>7, Zenon DEF Request
<1>2. ASSUME NEW w \in Worker, Run(w) PROVE RpcInv' /\ (Exact /\ Sound => Sound')
  BY <1>2, ReadStep, WriteStep, SupplyStep, StoreStep, TradeStep, EndStep, Zenon DEF Run
<1>3. CASE UNCHANGED vars
  BY <1>3, Zenon DEF vars, RpcInv, RpcTypes, FillConsistent, Sound, NotNegative
<1> QED BY <1>1, <1>2, <1>3, EndStep, Zenon DEF Next

\* An order is never deleted: a state in which every BUY order has an exact value
\* comes after such states only.
LEMMA ExactBefore ==
    ASSUME [Next]_vars
    PROVE  Exact' => Exact
<1>1. DOMAIN orders \subseteq DOMAIN orders'
  <2>1. ASSUME UNCHANGED orders PROVE DOMAIN orders \subseteq DOMAIN orders'
    BY <2>1, Zenon
  <2>2. ASSUME NEW id, NEW rec, orders' = Put(orders, id, rec) PROVE DOMAIN orders \subseteq DOMAIN orders'
    BY <2>2, Zenon DEF Put
  <2>3. ASSUME NEW w \in Worker, Run(w) PROVE DOMAIN orders \subseteq DOMAIN orders'
    <3>1. CASE DoStoreNew(w) \/ DoStore(w)
      BY <2>2, <3>1, Zenon DEF DoStoreNew, DoStore
    <3>2. CASE ~ (DoStoreNew(w) \/ DoStore(w))
      BY <2>1, <2>3, <3>2, Zenon DEF Run, DoRead, DoNeed, DoWrite, DoSet, WriteBalance, DoWriteAsset,
           DoStoreTrade, MatchTrade, MatchEnd, db
    <3> QED BY <3>1, <3>2, Zenon
  <2>4. ASSUME NEW w \in Worker, Request(w) PROVE DOMAIN orders \subseteq DOMAIN orders'
    BY <2>1, <2>4, Zenon DEF Request, PlaceSell, PlaceBuy, Cancel, MatchCollect, depositgrd, withdrawgrd,
         mintasset, burnasset, transferasset, Start, db
  <2> QED BY <2>1, <2>3, <2>4, Zenon DEF Next, Crash, Tick, vars, db
<1> QED BY <1>1, Zenon DEF Exact

\* Any number of workers may run handlers, interleaved between any two accesses
\* to LevelDB, and the process may crash between any two: what RpcInv says of the
\* database stays true, and as long as every BUY order has an exact value the
\* programs still to run keep the balances from becoming negative.
THEOREM ProgramsCovered == Spec => [](RpcInv /\ (Exact => Sound))
<1> DEFINE I == RpcInv /\ (Exact => Sound)
<1>1. Init => I
  BY InitRpc, Zenon
<1>2. I /\ [Next]_vars => I'
  BY StepRpc, ExactBefore, Zenon
<1> QED BY <1>1, <1>2, PTL DEF Spec

\* The handlers never store a negative balance before a BUY order is stored whose
\* amount * price does not fit int64_t, although no lock spans the check of a
\* balance and its write: each writes what it read, less what it checked.
THEOREM ConcurrentlySolvent == Spec => []Solvent
<1>1. RpcInv /\ (Exact => Sound) => Solvent
  BY Zenon DEF Sound, NotNegative, Solvent
<1> QED BY <1>1, ProgramsCovered, PTL

\* Whatever stale copy of an order cancelorder or MatchOrders stores, the fill and
\* the status of every stored order agree.
THEOREM ConcurrentFillsConsistent == Spec => []FillConsistent
<1>1. RpcInv => FillConsistent
  BY Zenon DEF RpcInv
<1> QED BY <1>1, ProgramsCovered, PTL
=============================================================================
