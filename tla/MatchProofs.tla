---------------------------- MODULE MatchProofs ----------------------------
(***************************************************************************)
(* A matching run of a node with one worker, in any state its handlers and  *)
(* crashes can leave the book in: the sorted copies MatchOrders works on    *)
(* agree with the book as the stores it has still to make will leave it.    *)
(***************************************************************************)
EXTENDS RpcProofs
-----------------------------------------------------------------------------
(* The sorted lists and the book *)

\* A sorted copy of the live orders of one side of a book.
ListOf(l, a, side, book) ==
    /\ \A i \in 1..Len(l) :
          l[i].id \in DOMAIN book /\ book[l[i].id] = l[i].rec /\ l[i].id.asset = a
    /\ \A i, j \in 1..Len(l) : i # j => l[i].id # l[j].id
    /\ \A i, j \in 1..Len(l) : Before(l[i], l[j]) => i < j
    /\ \A id \in DOMAIN book :
          id.asset = a /\ id.side = side /\ IsLive(book[id]) => \E i \in 1..Len(l) : l[i].id = id
ListsOf(t, book) ==
    ListOf(t.buys, t.asset, "BUY", book) /\ ListOf(t.sells, t.asset, "SELL", book)

\* The quantity of a trade, and an order after it.
Quantity(b, s) == MinOf(Remaining(b.id, b.rec), Remaining(s.id, s.rec))
FilledBy(e, qty) == Filled(e.id, e.rec, qty)

\* ListOf looks at the records of a book only.
LEMMA ListSame ==
    ASSUME NEW l, NEW a, NEW side, NEW book, NEW other, DOMAIN other = DOMAIN book,
           \A id \in DOMAIN book : other[id] = book[id], ListOf(l, a, side, book)
    PROVE  ListOf(l, a, side, other)
BY Zenon DEF ListOf

\* A stored order of the other side leaves a list right.
LEMMA ListOther ==
    ASSUME NEW l, NEW a, NEW side, NEW book, NEW id, NEW rec, ListOf(l, a, side, book),
           id.side # side, \A i \in 1..Len(l) : l[i].id.side = side
    PROVE  ListOf(l, a, side, Put(book, id, rec))
<1> DEFINE b == Put(book, id, rec)
<1>1. DOMAIN b = DOMAIN book \cup {id} /\ \A k \in DOMAIN book \ {id} : b[k] = book[k]
  BY Zenon DEF Put
<1> HIDE DEF b
<1>2. \A i \in 1..Len(l) : l[i].id \in DOMAIN b /\ b[l[i].id] = l[i].rec /\ l[i].id.asset = a
  BY <1>1 DEF ListOf
<1>3. \A k \in DOMAIN b : k.asset = a /\ k.side = side /\ IsLive(b[k]) =>
         \E i \in 1..Len(l) : l[i].id = k
  BY <1>1, Zenon DEF ListOf
<1> QED BY <1>2, <1>3, Zenon DEF ListOf, b

\* The first order of a list is filled: the list moves on with the book.
LEMMA ListAdvance ==
    ASSUME NEW side \in Side, NEW l \in Seq(LiveEntry(side)), l # <<>>, NEW a, NEW book,
           ListOf(l, a, side, book), NEW qty \in Nat, qty > 0,
           qty <= Remaining(Head(l).id, Head(l).rec)
    PROVE  ListOf(Advance(l, qty), a, side, Put(book, Head(l).id, FilledBy(Head(l), qty)))
<1> DEFINE e == Head(l)
           rec == FilledBy(e, qty)
           f == [e EXCEPT !.rec = rec]
           b == Put(book, e.id, rec)
           A == Advance(l, qty)
<1>1. /\ Len(l) \in Nat /\ Len(l) > 0 /\ e = l[1] /\ e \in LiveEntry(side) /\ l \in Seq(LiveEntry(side))
      /\ Len(Tail(l)) = Len(l) - 1 /\ \A i \in 1..(Len(l) - 1) : Tail(l)[i] = l[i + 1]
  OBVIOUS
<1>2. /\ e.id \in OrderId /\ e.rec \in OrderRec /\ Fits(e.id, e.rec) /\ IsLive(e.rec)
      /\ f.id = e.id /\ f.rec = rec
  BY <1>1, Zenon DEF LiveEntry, Entry
<1>3. /\ rec \in OrderRec /\ Fits(e.id, rec) /\ rec.filled \in Nat /\ e.id.amount \in Nat
  BY <1>2, FilledFits, EntryFacts, Zenon DEF FilledBy
<1>4. A = IF rec.filled >= e.id.amount THEN Tail(l) ELSE <<f>> \o Tail(l)
  BY Zenon DEF Advance, FilledBy
<1>5. DOMAIN b = DOMAIN book \cup {e.id} /\ b[e.id] = rec /\ \A k \in DOMAIN book \ {e.id} : b[k] = book[k]
  BY Zenon DEF Put
<1>6. /\ \A i \in 1..Len(l) : l[i].id \in DOMAIN book /\ book[l[i].id] = l[i].rec /\ l[i].id.asset = a
      /\ \A i, j \in 1..Len(l) : i # j => l[i].id # l[j].id
      /\ \A i, j \in 1..Len(l) : Before(l[i], l[j]) => i < j
      /\ \A k \in DOMAIN book :
            k.asset = a /\ k.side = side /\ IsLive(book[k]) => \E i \in 1..Len(l) : l[i].id = k
  BY Zenon DEF ListOf
<1> HIDE DEF e, f, b, A, rec
<1>7. 1 \in 1..Len(l) /\ \A i \in 1..Len(l) : i # 1 => l[i].id # e.id /\ b[l[i].id] = l[i].rec
  BY <1>1, <1>5, <1>6
<1>8. CASE rec.filled >= e.id.amount
  <2>1. A = Tail(l) /\ Len(A) = Len(l) - 1 /\ \A i \in 1..Len(A) : A[i] = l[i + 1]
    BY <1>1, <1>4, <1>8, Zenon
  <2>2. ~ IsLive(rec)
    BY <1>3, <1>8 DEF Fits
  <2>3. \A i \in 1..Len(A) : i + 1 \in 1..Len(l) /\ i + 1 # 1 /\ i \in Nat
    BY <1>1, <2>1
  <2>4. \A i \in 1..Len(A) : A[i].id \in DOMAIN b /\ b[A[i].id] = A[i].rec /\ A[i].id.asset = a
    BY <1>5, <1>6, <1>7, <2>1, <2>3
  <2>5. \A i, j \in 1..Len(A) : i # j => A[i].id # A[j].id
    <3> SUFFICES ASSUME NEW i \in 1..Len(A), NEW j \in 1..Len(A), i # j PROVE A[i].id # A[j].id
      BY Zenon
    <3>1. i + 1 \in 1..Len(l) /\ j + 1 \in 1..Len(l) /\ i + 1 # j + 1
      BY <2>3
    <3> QED BY <1>6, <2>1, <3>1
  <2>6. \A i, j \in 1..Len(A) : Before(A[i], A[j]) => i < j
    <3> SUFFICES ASSUME NEW i \in 1..Len(A), NEW j \in 1..Len(A), Before(A[i], A[j]) PROVE i < j
      BY Zenon
    <3>1. i + 1 \in 1..Len(l) /\ j + 1 \in 1..Len(l)
      BY <2>3, Zenon
    <3>2. i + 1 < j + 1
      BY <1>6, <2>1, <3>1, Zenon
    <3> QED BY <2>3, <3>2
  <2>7. ASSUME NEW k \in DOMAIN b, k.asset = a, k.side = side, IsLive(b[k])
        PROVE  \E i \in 1..Len(A) : A[i].id = k
    <3>1. k # e.id /\ k \in DOMAIN book /\ IsLive(book[k])
      BY <1>5, <2>2, <2>7, Zenon
    <3>2. PICK j \in 1..Len(l) : l[j].id = k
      BY <1>6, <2>7, <3>1, Zenon
    <3>3. j # 1
      BY <1>1, <3>1, <3>2, Zenon
    <3>4. j - 1 \in 1..Len(A) /\ (j - 1) + 1 = j
      BY <1>1, <2>1, <3>3
    <3> QED BY <2>1, <3>2, <3>4, Zenon
  <2> QED BY <2>4, <2>5, <2>6, <2>7, Zenon DEF ListOf, A, b, e, rec
<1>9. CASE ~ (rec.filled >= e.id.amount)
  <2>1. A = <<f>> \o Tail(l)
    BY <1>4, <1>9, Zenon
  <2>2. /\ Len(A) = Len(l) /\ A[1] = f /\ \A i \in 1..Len(A) : i # 1 => A[i] = l[i]
    <3>1. f \in {f} \cup LiveEntry(side) /\ Tail(l) \in Seq({f} \cup LiveEntry(side)) /\ <<f>> \in Seq({f} \cup LiveEntry(side))
      BY <1>1
    <3>2. /\ Len(<<f>> \o Tail(l)) = 1 + Len(Tail(l))
          /\ \A i \in 1..(1 + Len(Tail(l))) :
                (<<f>> \o Tail(l))[i] = IF i <= 1 THEN f ELSE Tail(l)[i - 1]
      BY <3>1
    <3>3. Len(A) = Len(l) /\ A[1] = f
      BY <1>1, <2>1, <3>2
    <3>4. ASSUME NEW i \in 1..Len(A), i # 1 PROVE A[i] = l[i]
      <4>1. i - 1 \in 1..(Len(l) - 1) /\ ~ (i <= 1) /\ (i - 1) + 1 = i /\ i \in 1..(1 + Len(Tail(l)))
        BY <1>1, <3>3, <3>4
      <4>2. A[i] = Tail(l)[i - 1]
        BY <2>1, <3>2, <4>1, Zenon
      <4> QED BY <1>1, <4>1, <4>2, Zenon
    <3> QED BY <3>3, <3>4, Zenon
  <2>3. \A i \in 1..Len(l) : A[i].id = l[i].id
    BY <1>1, <1>2, <2>2, Zenon
  <2>4. \A i \in 1..Len(A) : A[i].id \in DOMAIN b /\ b[A[i].id] = A[i].rec /\ A[i].id.asset = a
    BY <1>1, <1>2, <1>5, <1>6, <1>7, <2>2, <2>3
  <2>5. \A i, j \in 1..Len(A) : i # j => A[i].id # A[j].id
    BY <1>6, <2>2, <2>3
  <2>6. \A i, j \in 1..Len(A) : Before(A[i], A[j]) => i < j
    BY <1>6, <2>2, <2>3, Zenon DEF Before
  <2>7. ASSUME NEW k \in DOMAIN b, k.asset = a, k.side = side, IsLive(b[k])
        PROVE  \E i \in 1..Len(A) : A[i].id = k
    <3>1. CASE k = e.id
      BY <1>1, <1>7, <2>2, <2>3, <3>1, Zenon
    <3>2. CASE k # e.id
      BY <1>5, <1>6, <2>2, <2>3, <2>7, <3>2
    <3> QED BY <3>1, <3>2, Zenon
  <2> QED BY <2>4, <2>5, <2>6, <2>7, Zenon DEF ListOf, A, b, e, rec
<1> QED BY <1>8, <1>9, Zenon

\* What MatchOrders collects and sorts is a copy of the live orders of a side.
LEMMA SortedList ==
    ASSUME RpcInv, NEW a \in Asset, NEW side \in Side, NEW s \in Sorted(LiveOrders(a, side))
    PROVE  ListOf(s, a, side, orders)
<1> DEFINE S == LiveOrders(a, side)
<1>1. IsFiniteSet(S) /\ Cardinality(S) \in Nat
  BY LiveOrdersFinite, Zenon
<1>2. PICK n \in Nat : n = Cardinality(S)
  BY <1>1, Zenon
<1>3. s \in [1..n -> S]
  BY <1>2, Zenon DEF Sorted
<1>4. \A i, j \in 1..n : (i # j => s[i] # s[j]) /\ (Before(s[i], s[j]) => i < j)
  BY <1>2, <1>3, Zenon DEF Sorted
<1>5. \A e \in S : /\ e.id \in DOMAIN orders /\ orders[e.id] = e.rec /\ e.id.asset = a
                   /\ e = [id |-> e.id, rec |-> orders[e.id]]
  BY DEF LiveOrders
<1>6. \A id \in DOMAIN orders :
         id.asset = a /\ id.side = side /\ IsLive(orders[id]) => [id |-> id, rec |-> orders[id]] \in S
  BY Zenon DEF LiveOrders
<1> HIDE DEF S
<1>7. Len(s) = n
  BY <1>3
<1>8. s \in Surjection(1..n, S)
  <2>1. s \in Injection(1..n, S)
    BY <1>3, <1>4, Zenon DEF Injection, IsInjective
  <2>2. Cardinality(1..n) = Cardinality(S)
    <3>1. Cardinality(1..n) = IF 1 > n THEN 0 ELSE n - 1 + 1
      BY FS_Interval
    <3> QED BY <1>2, <3>1
  <2> QED BY <1>1, <2>1, <2>2, FS_Injection, Zenon
<1>9. \A i \in 1..n : s[i].id \in DOMAIN orders /\ orders[s[i].id] = s[i].rec /\ s[i].id.asset = a
  BY <1>3, <1>5, Zenon
<1>10. \A i, j \in 1..n : i # j => s[i].id # s[j].id
  <2>1. \A e, f \in S : e.id = f.id => e = f
    BY <1>5, Zenon
  <2> QED BY <1>3, <1>4, <2>1, Zenon
<1>11. \A id \in DOMAIN orders :
          id.asset = a /\ id.side = side /\ IsLive(orders[id]) => \E i \in 1..n : s[i].id = id
  <2> SUFFICES ASSUME NEW id \in DOMAIN orders, id.asset = a, id.side = side, IsLive(orders[id])
               PROVE  \E i \in 1..n : s[i].id = id
    BY Zenon
  <2>1. PICK e : e = [id |-> id, rec |-> orders[id]]
    BY Zenon
  <2>2. e \in S /\ e.id = id
    BY <1>6, <2>1, Zenon
  <2>3. PICK i \in 1..n : s[i] = e
    BY <1>8, <2>2, Zenon DEF Surjection
  <2> QED BY <2>2, <2>3, Zenon
<1> QED BY <1>4, <1>7, <1>9, <1>10, <1>11, Zenon DEF ListOf

\* The best orders come first: if any two cross, the first two do.
LEMMA FirstCross ==
    ASSUME NEW t \in Thread, ListsOf(t, orders), NEW buy \in DOMAIN orders, NEW sell \in DOMAIN orders,
           buy.asset = t.asset, Crosses(buy, sell), IsLive(orders[buy]), IsLive(orders[sell]),
           \A id \in DOMAIN orders : id \in OrderId
    PROVE  MoreTrades(t)
<1>1. PICK l, m : l = t.buys /\ m = t.sells
  OBVIOUS
<1>2. l \in Seq(LiveEntry("BUY")) /\ m \in Seq(LiveEntry("SELL"))
  BY <1>1, Zenon DEF Thread
<1>3. /\ buy.side = "BUY" /\ sell.side = "SELL" /\ sell.asset = t.asset /\ buy.price >= sell.price
      /\ buy.price \in Nat /\ sell.price \in Nat
  BY OrderAssumption DEF Crosses, OrderId
<1>4. PICK i \in 1..Len(l) : l[i].id = buy
  BY <1>1, <1>3, Zenon DEF ListsOf, ListOf
<1>5. PICK j \in 1..Len(m) : m[j].id = sell
  BY <1>1, <1>3, Zenon DEF ListsOf, ListOf
<1>6. /\ \A n \in 1..Len(l) : Before(l[n], l[1]) => n < 1
      /\ \A n \in 1..Len(m) : Before(m[n], m[1]) => n < 1
  <2>1. 1 \in 1..Len(l) /\ 1 \in 1..Len(m)
    BY <1>2, <1>4, <1>5
  <2> QED BY <1>1, <2>1, Zenon DEF ListsOf, ListOf
<1>7. ~ Before(l[i], l[1]) /\ ~ Before(m[j], m[1])
  BY <1>4, <1>5, <1>6
<1>8. PICK b, s : b = l[1] /\ s = m[1]
  OBVIOUS
<1>9. b \in LiveEntry("BUY") /\ s \in LiveEntry("SELL")
  BY <1>2, <1>4, <1>5, <1>8
<1>10. b.id.price \in Nat /\ s.id.price \in Nat
  BY <1>9, OrderAssumption, Zenon DEF LiveEntry, Entry, OrderId
<1>11. ~ (buy.price > b.id.price) /\ ~ (sell.price < s.id.price)
  BY <1>3, <1>4, <1>5, <1>7, <1>8, Zenon DEF Before
<1>12. b.id.price >= s.id.price
  BY <1>3, <1>10, <1>11
<1>13. l # <<>> /\ m # <<>> /\ Head(l) = b /\ Head(m) = s
  BY <1>2, <1>4, <1>5, <1>8
<1> QED BY <1>1, <1>12, <1>13, Zenon DEF MoreTrades

-----------------------------------------------------------------------------
(* The accesses of one trade *)

\* The quantity of a trade is within both of its orders.
LEMMA QuantityFacts ==
    ASSUME NEW b \in LiveEntry("BUY"), NEW s \in LiveEntry("SELL")
    PROVE  /\ Quantity(b, s) \in Nat /\ Quantity(b, s) > 0
           /\ Quantity(b, s) <= Remaining(b.id, b.rec) /\ Quantity(b, s) <= Remaining(s.id, s.rec)
<1>1. Remaining(b.id, b.rec) \in Nat /\ Remaining(b.id, b.rec) > 0
  BY EntryFacts, Zenon DEF LiveEntry, Entry
<1>2. Remaining(s.id, s.rec) \in Nat /\ Remaining(s.id, s.rec) > 0
  BY EntryFacts, Zenon DEF LiveEntry, Entry
<1> QED BY <1>1, <1>2 DEF Quantity, MinOf

\* A program that moves money only.
NoStore(P) == \A i \in 1..Len(P) : P[i].op \in {"read", "write"}

\* A credit is such a program.
LEMMA CreditNoStore ==
    ASSUME NEW acc, NEW n
    PROVE  LET P == Credit(acc, n)
           IN  P \in Seq({Read(acc), Write(acc, n)}) /\ NoStore(P)
<1>1. Read(acc).op = "read" /\ Write(acc, n).op = "write"
  BY Zenon DEF Read, Write
<1> QED BY <1>1 DEF Credit, NoStore

\* One such program after another is such a program.
LEMMA NoStoreConcat ==
    ASSUME NEW S, NEW p \in Seq(S), NEW q \in Seq(S), NoStore(p), NoStore(q)
    PROVE  p \o q \in Seq(S) /\ NoStore(p \o q)
<1>1. /\ p \o q \in Seq(S) /\ Len(p \o q) = Len(p) + Len(q)
      /\ \A i \in 1..(Len(p) + Len(q)) :
            (p \o q)[i] = IF i <= Len(p) THEN p[i] ELSE q[i - Len(p)]
  BY Concatenation, Zenon
<1>2. Len(p) \in Nat /\ Len(q) \in Nat
  OBVIOUS
<1>3. ASSUME NEW i \in 1..(Len(p) + Len(q)) PROVE (p \o q)[i].op \in {"read", "write"}
  <2>1. CASE i <= Len(p)
    <3>1. i \in 1..Len(p)
      BY <1>2, <2>1
    <3> QED BY <1>1, <2>1, <3>1, Zenon DEF NoStore
  <2>2. CASE ~ (i <= Len(p))
    <3>1. i - Len(p) \in 1..Len(q)
      BY <1>2, <2>2
    <3> QED BY <1>1, <2>2, <3>1, Zenon DEF NoStore
  <2> QED BY <2>1, <2>2, Zenon
<1> QED BY <1>1, <1>3, Zenon DEF NoStore

\* A trade moves money and then stores its two orders and itself.
LEMMA TradeStores ==
    ASSUME NEW b, NEW s, NEW qty, NEW P, P = TradeProgram(b, s, qty)
    PROVE  /\ Len(P) \in Nat
           /\ \A i \in 1..Len(P) :
                 \/ P[i].op \in {"read", "write", "trade"}
                 \/ P[i] = Store(b.id, FilledBy(b, qty)) \/ P[i] = Store(s.id, FilledBy(s, qty))
           /\ \E i \in 1..Len(P) : P[i] = Store(b.id, FilledBy(b, qty))
           /\ \E i \in 1..Len(P) : P[i] = Store(s.id, FilledBy(s, qty))
<1> DEFINE buyer == AssetAcc(b.id.asset, b.id.owner)
           seller == GrdAcc(s.id.owner)
           back == GrdAcc(b.id.owner)
           paid == Mul64(qty, s.id.price)
           refund == Mul64(qty, b.id.price - s.id.price)
           last == <<Store(b.id, FilledBy(b, qty)), Store(s.id, FilledBy(s, qty)), StoreTrade(b.id, s.id, qty)>>
           S == {Read(buyer), Write(buyer, qty), Read(seller), Write(seller, paid),
                 Read(back), Write(back, refund), last[1], last[2], last[3]}
           third == IF b.id.price > s.id.price THEN Credit(back, refund) ELSE <<>>
<1>1. Credit(buyer, qty) \in Seq(S) /\ NoStore(Credit(buyer, qty))
  BY CreditNoStore DEF Credit
<1>2. Credit(seller, paid) \in Seq(S) /\ NoStore(Credit(seller, paid))
  BY CreditNoStore DEF Credit
<1>3. third \in Seq(S) /\ NoStore(third)
  <2>1. Credit(back, refund) \in Seq(S) /\ NoStore(Credit(back, refund))
    BY CreditNoStore DEF Credit
  <2>2. <<>> \in Seq(S) /\ NoStore(<<>>)
    BY DEF NoStore
  <2> QED BY <2>1, <2>2, Zenon
<1>4. /\ last \in Seq(S) /\ Len(last) = 3 /\ last[1] = Store(b.id, FilledBy(b, qty))
      /\ last[2] = Store(s.id, FilledBy(s, qty)) /\ last[3].op = "trade"
  BY DEF StoreTrade
<1>5. P = Credit(buyer, qty) \o Credit(seller, paid) \o third \o last
  BY Zenon DEF TradeProgram, FilledBy
<1> HIDE DEF buyer, seller, back, paid, refund, last, S, third
<1>6. PICK X : X = Credit(buyer, qty) \o Credit(seller, paid) \o third
  OBVIOUS
<1>7. X \in Seq(S) /\ NoStore(X)
  BY <1>1, <1>2, <1>3, <1>6, NoStoreConcat, Zenon
<1>8. PICK n \in Nat : n = Len(X)
  BY <1>7
<1>9. /\ P = X \o last /\ Len(P) = n + 3
      /\ \A i \in 1..(n + 3) : P[i] = IF i <= n THEN X[i] ELSE last[i - n]
  <2>1. P = X \o last
    BY <1>5, <1>6, Zenon
  <2>2. /\ Len(X \o last) = Len(X) + Len(last)
        /\ \A i \in 1..(Len(X) + Len(last)) :
              (X \o last)[i] = IF i <= Len(X) THEN X[i] ELSE last[i - Len(X)]
    BY <1>4, <1>7, Concatenation, Zenon
  <2> QED BY <1>4, <1>8, <2>1, <2>2, Zenon
<1>10. ASSUME NEW i \in 1..Len(P)
       PROVE  \/ P[i].op \in {"read", "write", "trade"}
              \/ P[i] = Store(b.id, FilledBy(b, qty)) \/ P[i] = Store(s.id, FilledBy(s, qty))
  <2>1. CASE i <= n
    <3>1. i \in 1..Len(X) /\ i \in 1..(n + 3)
      BY <1>8, <1>9, <2>1
    <3> QED BY <1>7, <1>9, <2>1, <3>1, Zenon DEF NoStore
  <2>2. CASE ~ (i <= n)
    <3>1. i - n \in {1, 2, 3} /\ i \in 1..(n + 3)
      BY <1>9, <2>2
    <3> QED BY <1>4, <1>9, <2>2, <3>1, Zenon
  <2> QED BY <2>1, <2>2, Zenon
<1>11. /\ n + 1 \in 1..Len(P) /\ P[n + 1] = last[1]
       /\ n + 2 \in 1..Len(P) /\ P[n + 2] = last[2]
  <2>1. /\ n + 1 \in 1..(n + 3) /\ ~ (n + 1 <= n) /\ (n + 1) - n = 1
        /\ n + 2 \in 1..(n + 3) /\ ~ (n + 2 <= n) /\ (n + 2) - n = 2
    OBVIOUS
  <2> QED BY <1>9, <2>1, Zenon
<1>12. Len(P) \in Nat
  BY <1>9
<1> QED BY <1>4, <1>10, <1>11, <1>12, Zenon

-----------------------------------------------------------------------------
(* The invariant *)

\* The lists of a matching run agree with the book its stores are going to make of
\* the one stored now.
MatchOn(t, book) ==
    /\ ListsOf(t, book)
    /\ DOMAIN book = DOMAIN orders
    /\ \A i \in 1..Len(t.todo) :
          /\ t.todo[i].op # "new"
          /\ t.todo[i].op = "store" =>
                t.todo[i].id \in DOMAIN orders /\ book[t.todo[i].id] = t.todo[i].rec
    /\ \A id \in DOMAIN orders :
          \/ book[id] = orders[id]
          \/ \E i \in 1..Len(t.todo) : t.todo[i].op = "store" /\ t.todo[i].id = id

MatchInv == \A w \in Worker : thr[w].kind = "match" => \E book : MatchOn(thr[w], book)

\* -rpcthreads=1
OneWorker == \E w : Worker = {w}

\* Between two trades the lists agree with the book.
LEMMA BetweenTrades ==
    ASSUME NEW t, NEW book, MatchOn(t, book), t.todo = <<>>
    PROVE  ListsOf(t, orders)
<1>1. DOMAIN book = DOMAIN orders /\ \A id \in DOMAIN book : orders[id] = book[id]
  <2>1. Len(t.todo) = 0
    OBVIOUS
  <2> QED BY <2>1 DEF MatchOn
<1>2. ListOf(t.buys, t.asset, "BUY", book) /\ ListOf(t.sells, t.asset, "SELL", book)
  BY Zenon DEF MatchOn, ListsOf
<1> QED BY <1>1, <1>2, ListSame, Zenon DEF ListsOf

\* matchorders collects its lists.
LEMMA CollectOn ==
    ASSUME RpcInv, NEW w \in Worker, NEW a \in Asset, MatchCollect(w, a)
    PROVE  MatchOn(thr[w], orders)'
<1>1. PICK buys \in Sorted(LiveOrders(a, "BUY")), sells \in Sorted(LiveOrders(a, "SELL")) :
         /\ thr' = [thr EXCEPT ![w] =
              [Idle EXCEPT !.kind = "match", !.asset = a, !.buys = buys, !.sells = sells]]
         /\ UNCHANGED db
  BY Zenon DEF MatchCollect
<1>2. PICK u : u = [Idle EXCEPT !.kind = "match", !.asset = a, !.buys = buys, !.sells = sells]
  BY Zenon
<1>3. u.asset = a /\ u.buys = buys /\ u.sells = sells /\ u.todo = <<>>
  BY <1>2, Zenon DEF Idle
<1>4. thr'[w] = u /\ orders' = orders
  BY <1>1, <1>2, Zenon DEF RpcInv, RpcTypes, db
<1>5. ListOf(buys, a, "BUY", orders) /\ ListOf(sells, a, "SELL", orders)
  BY SortedList, Zenon DEF Side
<1>6. ListsOf(u, orders)
  BY <1>3, <1>5, Zenon DEF ListsOf
<1>7. Len(u.todo) = 0
  BY <1>3
<1>8. MatchOn(u, orders)
  BY <1>6, <1>7 DEF MatchOn
<1> QED BY <1>4, <1>8, Zenon DEF MatchOn

\* The next trade takes the first orders of the two lists.
LEMMA TradeOn ==
    ASSUME RpcInv, RpcInv', NEW w \in Worker, ListsOf(thr[w], orders), MatchTrade(w)
    PROVE  \E book : MatchOn(thr[w], book)'
<1>0. PICK t, u : t = thr[w] /\ u = thr'[w]
  BY Zenon
<1>1. /\ t.buys \in Seq(LiveEntry("BUY")) /\ t.sells \in Seq(LiveEntry("SELL")) /\ t \in Thread
      /\ u.buys \in Seq(LiveEntry("BUY"))
  BY <1>0, Zenon DEF RpcInv, RpcTypes, Thread
<1>2. PICK b, s : b = Head(t.buys) /\ s = Head(t.sells)
  BY Zenon
<1>3. PICK qty, P : qty = Quantity(b, s) /\ P = TradeProgram(b, s, qty)
  BY Zenon
<1>4. t.buys # <<>> /\ t.sells # <<>> /\ orders' = orders
  BY <1>0, Zenon DEF MatchTrade, MoreTrades, db
<1>5. /\ b \in LiveEntry("BUY") /\ s \in LiveEntry("SELL") /\ b = t.buys[1] /\ s = t.sells[1]
      /\ 1 \in 1..Len(t.buys) /\ 1 \in 1..Len(t.sells)
  BY <1>1, <1>2, <1>4
<1>6. u = [t EXCEPT !.todo = P, !.buys = Advance(t.buys, qty), !.sells = Advance(t.sells, qty)]
  <2>1. thr' = [thr EXCEPT ![w] =
           [t EXCEPT !.todo = P, !.buys = Advance(t.buys, qty), !.sells = Advance(t.sells, qty)]]
    BY <1>0, <1>2, <1>3, Zenon DEF MatchTrade, Quantity
  <2>2. thr \in [Worker -> Thread]
    BY Zenon DEF RpcInv, RpcTypes
  <2> QED BY <1>0, <2>1, <2>2, Zenon
<1>7. /\ u.asset = t.asset /\ u.todo = P
      /\ u.buys = Advance(t.buys, qty) /\ u.sells = Advance(t.sells, qty)
  BY <1>1, <1>6, Zenon DEF Thread
<1>8. qty \in Nat /\ qty > 0 /\ qty <= Remaining(b.id, b.rec) /\ qty <= Remaining(s.id, s.rec)
  BY <1>3, <1>5, QuantityFacts, Zenon
<1>9. ListOf(t.buys, t.asset, "BUY", orders) /\ ListOf(t.sells, t.asset, "SELL", orders)
  BY <1>0, Zenon DEF ListsOf
<1>10. b.id \in DOMAIN orders /\ s.id \in DOMAIN orders
  BY <1>5, <1>9, Zenon DEF ListOf
<1>11. PICK half, book : /\ half = Put(orders, b.id, FilledBy(b, qty))
                         /\ book = Put(half, s.id, FilledBy(s, qty))
  BY Zenon
<1>12. b.id.side = "BUY" /\ s.id.side = "SELL"
  BY <1>5, Zenon DEF LiveEntry
<1>13. ListsOf(u, book)
  <2>1. ListOf(u.buys, u.asset, "BUY", half)
    BY <1>1, <1>2, <1>4, <1>7, <1>8, <1>9, <1>11, ListAdvance DEF Side
  <2>2. \A i \in 1..Len(u.buys) : u.buys[i].id.side = "BUY"
    <3>1. \A i \in 1..Len(u.buys) : u.buys[i] \in LiveEntry("BUY")
      BY <1>1
    <3> QED BY <3>1, Zenon DEF LiveEntry
  <2>3. ListOf(u.buys, u.asset, "BUY", book)
    BY <1>11, <1>12, <2>1, <2>2, ListOther
  <2>4. \A i \in 1..Len(t.sells) : t.sells[i].id.side = "SELL"
    <3>1. \A i \in 1..Len(t.sells) : t.sells[i] \in LiveEntry("SELL")
      BY <1>1
    <3> QED BY <3>1, Zenon DEF LiveEntry
  <2>5. ListOf(t.sells, t.asset, "SELL", half)
    BY <1>9, <1>11, <1>12, <2>4, ListOther
  <2>6. ListOf(u.sells, u.asset, "SELL", book)
    BY <1>1, <1>2, <1>4, <1>7, <1>8, <1>11, <2>5, ListAdvance DEF Side
  <2> QED BY <2>3, <2>6, Zenon DEF ListsOf
<1>14. /\ DOMAIN book = DOMAIN orders /\ b.id # s.id
       /\ book[b.id] = FilledBy(b, qty) /\ book[s.id] = FilledBy(s, qty)
       /\ \A id \in DOMAIN orders : id # b.id /\ id # s.id => book[id] = orders[id]
  <2>1. b.id # s.id
    BY <1>12
  <2>2. DOMAIN half = DOMAIN orders /\ DOMAIN book = DOMAIN orders
    BY <1>10, <1>11 DEF Put
  <2> QED BY <1>10, <1>11, <2>1, <2>2, Zenon DEF Put
<1>15. PICK x, y : x = Store(b.id, FilledBy(b, qty)) /\ y = Store(s.id, FilledBy(s, qty))
  BY Zenon
<1>16. /\ x.op = "store" /\ x.id = b.id /\ x.rec = FilledBy(b, qty)
       /\ y.op = "store" /\ y.id = s.id /\ y.rec = FilledBy(s, qty)
  BY <1>15, Zenon DEF Store
<1>17. /\ \A i \in 1..Len(P) : P[i].op \in {"read", "write", "trade"} \/ P[i] = x \/ P[i] = y
       /\ \E i \in 1..Len(P) : P[i] = x
       /\ \E i \in 1..Len(P) : P[i] = y
  <2>1. /\ \A i \in 1..Len(P) :
              \/ P[i].op \in {"read", "write", "trade"}
              \/ P[i] = Store(b.id, FilledBy(b, qty)) \/ P[i] = Store(s.id, FilledBy(s, qty))
        /\ \E i \in 1..Len(P) : P[i] = Store(b.id, FilledBy(b, qty))
        /\ \E i \in 1..Len(P) : P[i] = Store(s.id, FilledBy(s, qty))
    BY <1>3, TradeStores
  <2> QED BY <1>15, <2>1
<1>18. ASSUME NEW i \in 1..Len(P)
       PROVE  /\ P[i].op # "new"
              /\ P[i].op = "store" => P[i].id \in DOMAIN orders /\ book[P[i].id] = P[i].rec
  <2>1. CASE P[i].op \in {"read", "write", "trade"}
    BY <2>1
  <2>2. CASE P[i] = x
    BY <1>10, <1>14, <1>16, <2>2
  <2>3. CASE P[i] = y
    BY <1>10, <1>14, <1>16, <2>3
  <2> QED BY <1>17, <2>1, <2>2, <2>3, Zenon
<1>19. \A id \in DOMAIN orders :
          book[id] = orders[id] \/ \E i \in 1..Len(P) : P[i].op = "store" /\ P[i].id = id
  BY <1>14, <1>16, <1>17, Zenon
<1>20. MatchOn(u, book)
  BY <1>7, <1>13, <1>14, <1>18, <1>19, Zenon DEF MatchOn
<1>21. MatchOn(thr[w], book)'
  BY <1>0, <1>4, <1>20, Zenon DEF MatchOn
<1> QED BY <1>21, Zenon

\* An access of a matching run: what it stores is what the lists say.
LEMMA AccessOn ==
    ASSUME RpcInv, NEW w \in Worker, NEW book, MatchOn(thr[w], book), thr[w].kind = "match",
           NEW op, NEW reg, Access(w, op, reg),
           \/ op # "store" /\ orders' = orders
           \/ op = "store" /\ orders' = Put(orders, Head(thr[w].todo).id, Head(thr[w].todo).rec)
    PROVE  MatchOn(thr[w], book)'
<1>0. PICK t, u, q : t = thr[w] /\ u = thr'[w] /\ q = t.todo
  BY Zenon
<1>1. thr \in [Worker -> Thread] /\ t \in Thread /\ q \in Seq(Op) /\ q # <<>> /\ Head(q).op = op
  BY <1>0, Zenon DEF RpcInv, RpcTypes, Thread, Access
<1>2. u = [t EXCEPT !.todo = Tail(q), !.reg = reg]
  BY <1>0, <1>1, Zenon DEF Access
<1>3. u.asset = t.asset /\ u.buys = t.buys /\ u.sells = t.sells /\ u.todo = Tail(q)
  BY <1>1, <1>2, Zenon DEF Thread
<1>4. /\ q[1] = Head(q) /\ 1 \in 1..Len(q) /\ Len(Tail(q)) = Len(q) - 1 /\ Len(q) \in Nat
      /\ \A i \in 1..(Len(q) - 1) : Tail(q)[i] = q[i + 1] /\ i + 1 \in 1..Len(q)
  BY <1>1
<1>5. /\ ListsOf(t, book) /\ DOMAIN book = DOMAIN orders
      /\ \A i \in 1..Len(q) :
            /\ q[i].op # "new"
            /\ q[i].op = "store" => q[i].id \in DOMAIN orders /\ book[q[i].id] = q[i].rec
      /\ \A id \in DOMAIN orders :
            book[id] = orders[id] \/ \E i \in 1..Len(q) : q[i].op = "store" /\ q[i].id = id
  BY <1>0, Zenon DEF MatchOn
<1>6. ListsOf(u, book)
  BY <1>3, <1>5, Zenon DEF ListsOf
<1>7. DOMAIN orders' = DOMAIN orders
  <2>1. CASE op # "store"
    BY <2>1
  <2>2. CASE op = "store"
    <3>1. Head(q).id \in DOMAIN orders
      BY <1>1, <1>4, <1>5, <2>2, Zenon
    <3> QED BY <1>0, <2>2, <3>1 DEF Put
  <2> QED BY <2>1, <2>2, Zenon
<1>8. \A i \in 1..Len(Tail(q)) :
         /\ Tail(q)[i].op # "new"
         /\ Tail(q)[i].op = "store" =>
               Tail(q)[i].id \in DOMAIN orders' /\ book[Tail(q)[i].id] = Tail(q)[i].rec
  <2> SUFFICES ASSUME NEW i \in 1..(Len(q) - 1)
               PROVE  /\ Tail(q)[i].op # "new"
                      /\ Tail(q)[i].op = "store" =>
                            Tail(q)[i].id \in DOMAIN orders' /\ book[Tail(q)[i].id] = Tail(q)[i].rec
    BY <1>4
  <2>1. Tail(q)[i] = q[i + 1] /\ i + 1 \in 1..Len(q)
    BY <1>4, Zenon
  <2> QED BY <1>5, <1>7, <2>1
<1>9. ASSUME NEW id \in DOMAIN orders', book[id] # orders'[id]
      PROVE  \E i \in 1..Len(Tail(q)) : Tail(q)[i].op = "store" /\ Tail(q)[i].id = id
  <2>1. book[id] # orders[id] /\ ~ (q[1].op = "store" /\ q[1].id = id)
    <3>1. CASE op # "store"
      BY <1>1, <1>4, <1>9, <3>1, Zenon
    <3>2. CASE op = "store"
      <4>1. orders' = Put(orders, q[1].id, q[1].rec) /\ book[q[1].id] = q[1].rec
        <5>1. q[1] = Head(thr[w].todo) /\ q[1].op = "store"
          BY <1>0, <1>1, <1>4, <3>2, Zenon
        <5> QED BY <1>4, <1>5, <3>2, <5>1
      <4>2. CASE id = q[1].id
        BY <1>9, <4>1, <4>2, Zenon DEF Put
      <4>3. CASE id # q[1].id
        BY <1>7, <1>9, <4>1, <4>3, Zenon DEF Put
      <4> QED BY <4>2, <4>3, Zenon
    <3> QED BY <3>1, <3>2, Zenon
  <2>2. PICK i \in 1..Len(q) : q[i].op = "store" /\ q[i].id = id
    BY <1>5, <1>7, <2>1, Zenon
  <2>3. i # 1
    BY <2>1, <2>2, Zenon
  <2>4. i - 1 \in 1..(Len(q) - 1) /\ (i - 1) + 1 = i
    BY <1>4, <2>3
  <2> QED BY <1>4, <2>2, <2>4, Zenon
<1>10. DOMAIN book = DOMAIN orders'
  BY <1>5, <1>7, Zenon
<1>11. \A id \in DOMAIN orders' :
          \/ book[id] = orders'[id]
          \/ \E i \in 1..Len(u.todo) : u.todo[i].op = "store" /\ u.todo[i].id = id
  BY <1>3, <1>9
<1>12. \A i \in 1..Len(u.todo) :
          /\ u.todo[i].op # "new"
          /\ u.todo[i].op = "store" =>
                u.todo[i].id \in DOMAIN orders' /\ book[u.todo[i].id] = u.todo[i].rec
  BY <1>3, <1>8, Zenon
<1> QED BY <1>0, <1>6, <1>10, <1>11, <1>12, Zenon DEF MatchOn

\* Any step of a matching run.
LEMMA RunOn ==
    ASSUME RpcInv, RpcInv', NEW w \in Worker, Run(w), thr[w].kind = "match",
           NEW book, MatchOn(thr[w], book)
    PROVE  thr'[w].kind = "match" => \E new : MatchOn(thr[w], new)'
<1>0. thr \in [Worker -> Thread] /\ thr[w].todo \in Seq(Op)
  BY Zenon DEF RpcInv, RpcTypes, Thread
<1>1. CASE DoRead(w)
  <2>1. PICK reg : Access(w, "read", reg) /\ orders' = orders
    BY <1>1, Zenon DEF DoRead, db
  <2> QED BY <2>1, AccessOn
<1>2. CASE DoNeed(w)
  <2>1. CASE thr' = [thr EXCEPT ![w] = Idle]
    <3>1. thr'[w] = Idle
      BY <1>0, <2>1, Zenon
    <3> QED BY <3>1 DEF Idle
  <2>2. CASE \E reg : Access(w, "need", reg) /\ orders' = orders
    BY <2>2, AccessOn
  <2> QED BY <1>2, <2>1, <2>2, Zenon DEF DoNeed, db
<1>3. CASE DoWrite(w)
  <2>1. Access(w, "write", 0) /\ orders' = orders
    BY <1>3, Zenon DEF DoWrite, WriteBalance
  <2> QED BY <2>1, AccessOn
<1>4. CASE DoSet(w)
  <2>1. PICK reg : Access(w, "set", reg) /\ orders' = orders
    BY <1>4, Zenon DEF DoSet, WriteBalance
  <2> QED BY <2>1, AccessOn
<1>5. CASE DoWriteAsset(w)
  <2>1. Access(w, "supply", 0) /\ orders' = orders
    BY <1>5, Zenon DEF DoWriteAsset
  <2> QED BY <2>1, AccessOn
<1>6. ~ DoStoreNew(w)
  <2> SUFFICES ASSUME DoStoreNew(w) PROVE FALSE
    BY Zenon
  <2>1. thr[w].todo # <<>> /\ Head(thr[w].todo).op = "new"
    BY Zenon DEF DoStoreNew, Access
  <2>2. Head(thr[w].todo) = thr[w].todo[1] /\ 1 \in 1..Len(thr[w].todo)
    BY <1>0, <2>1
  <2>3. \A i \in 1..Len(thr[w].todo) : thr[w].todo[i].op # "new"
    BY Zenon DEF MatchOn
  <2> QED BY <2>1, <2>2, <2>3
<1>7. CASE DoStore(w)
  <2>1. /\ Access(w, "store", 0)
        /\ orders' = Put(orders, Head(thr[w].todo).id, Head(thr[w].todo).rec)
    BY <1>7, Zenon DEF DoStore
  <2> QED BY <2>1, AccessOn
<1>8. CASE DoStoreTrade(w)
  <2>1. Access(w, "trade", 0) /\ orders' = orders
    BY <1>8, Zenon DEF DoStoreTrade
  <2> QED BY <2>1, AccessOn
<1>9. CASE MatchTrade(w)
  <2>1. ListsOf(thr[w], orders)
    BY <1>9, BetweenTrades, Zenon DEF MatchTrade
  <2> QED BY <1>9, <2>1, TradeOn, Zenon
<1>10. CASE MatchEnd(w)
  <2>1. thr'[w] = Idle
    BY <1>0, <1>10, Zenon DEF MatchEnd
  <2> QED BY <2>1 DEF Idle
<1> QED BY <1>1, <1>2, <1>3, <1>4, <1>5, <1>6, <1>7, <1>8, <1>9, <1>10, Zenon DEF Run

\* A handler that is not matchorders does not become it.
LEMMA RunKind ==
    ASSUME RpcInv, NEW w \in Worker, Run(w), thr[w].kind # "match"
    PROVE  thr'[w].kind # "match"
<1>1. thr \in [Worker -> Thread] /\ thr[w] \in Thread
  BY Zenon DEF RpcInv, RpcTypes
<1>2. Idle.kind # "match"
  BY DEF Idle
<1>3. ASSUME NEW op, NEW reg, Access(w, op, reg) PROVE thr'[w].kind # "match"
  <2>1. PICK u : u = [thr[w] EXCEPT !.todo = Tail(thr[w].todo), !.reg = reg]
    BY Zenon
  <2>2. u.kind = thr[w].kind
    BY <1>1, <2>1, Zenon DEF Thread
  <2>3. thr'[w] = Idle \/ thr'[w] = u
    BY <1>1, <1>3, <2>1, Zenon DEF Access
  <2> QED BY <1>2, <2>2, <2>3, Zenon
<1>4. CASE DoNeed(w)
  BY <1>1, <1>2, <1>3, <1>4, Zenon DEF DoNeed
<1> QED BY <1>3, <1>4, Zenon DEF Run, DoRead, DoWrite, DoSet, DoWriteAsset, DoStoreNew, DoStore,
                                   DoStoreTrade, MatchTrade, MatchEnd

\* A request: only matchorders starts a matching run.
LEMMA RequestOn ==
    ASSUME RpcInv, NEW w \in Worker, Request(w)
    PROVE  thr'[w].kind = "match" => \E book : MatchOn(thr[w], book)'
<1>1. ASSUME NEW kind, NEW reg, NEW todo, Start(w, kind, reg, todo) PROVE thr'[w].kind = kind
  <2>1. PICK u : u = [Idle EXCEPT !.kind = kind, !.reg = reg, !.todo = todo]
    BY Zenon
  <2>2. u.kind = kind
    BY <2>1, Zenon DEF Idle
  <2> QED BY <1>1, <2>1, <2>2, Zenon DEF Start, RpcInv, RpcTypes
<1>2. ASSUME NEW a \in Asset, MatchCollect(w, a) PROVE \E book : MatchOn(thr[w], book)'
  <2>1. PICK book : book = orders'
    BY Zenon
  <2>2. MatchOn(thr[w], book)'
    BY <1>2, <2>1, CollectOn
  <2> QED BY <2>2, Zenon
<1>3. ASSUME NEW a, NEW n, NEW p, NEW x, PlaceSell(w, a, n, p, x) \/ PlaceBuy(w, a, n, p, x)
      PROVE  thr'[w].kind = "place"
  BY <1>1, <1>3, Zenon DEF PlaceSell, PlaceBuy
<1>4. ASSUME NEW id, Cancel(w, id) PROVE thr'[w].kind = "cancel"
  BY <1>1, <1>4, Zenon DEF Cancel
<1>5. ASSUME NEW x, NEW n, depositgrd(w, x, n) \/ withdrawgrd(w, x, n)
      PROVE  thr'[w].kind \in {"deposit", "withdraw"}
  BY <1>1, <1>5, Zenon DEF depositgrd, withdrawgrd
<1>6. ASSUME NEW a, NEW n, mintasset(w, a, n) PROVE thr'[w].kind = "mint"
  BY <1>1, <1>6, Zenon DEF mintasset
<1>7. ASSUME NEW a, NEW n, NEW x, burnasset(w, a, n, x) PROVE thr'[w].kind = "burn"
  BY <1>1, <1>7, Zenon DEF burnasset
<1>8. ASSUME NEW a, NEW n, NEW x, NEW y, transferasset(w, a, n, x, y)
      PROVE  thr'[w].kind \in {"pay", "payself"}
  BY <1>1, <1>8, Zenon DEF transferasset
<1> QED BY <1>2, <1>3, <1>4, <1>5, <1>6, <1>7, <1>8, Zenon DEF Request

\* Every step, a crash included, preserves MatchInv when there is one worker.
LEMMA MatchStep ==
    ASSUME OneWorker, RpcInv, RpcInv', MatchInv, [Next]_vars
    PROVE  MatchInv'
<1>1. PICK w \in Worker : \A v \in Worker : v = w
  BY Zenon DEF OneWorker
<1>2. SUFFICES thr'[w].kind = "match" => \E book : MatchOn(thr[w], book)'
  BY <1>1, Zenon DEF MatchInv
<1>3. CASE Request(w)
  BY <1>3, RequestOn, Zenon
<1>4. CASE Run(w)
  <2>1. CASE thr[w].kind = "match"
    BY <1>4, <2>1, RunOn, Zenon DEF MatchInv
  <2>2. CASE thr[w].kind # "match"
    BY <1>4, <2>2, RunKind, Zenon
  <2> QED BY <2>1, <2>2, Zenon
<1>5. CASE Crash
  <2>1. thr'[w] = Idle
    BY <1>5, Zenon DEF Crash
  <2> QED BY <2>1 DEF Idle
<1>6. CASE Tick \/ UNCHANGED vars
  <2>1. thr' = thr /\ orders' = orders
    BY <1>6, Zenon DEF Tick, vars, db
  <2>2. ASSUME NEW book, MatchOn(thr[w], book) PROVE MatchOn(thr[w], book)'
    BY <2>1, <2>2, Zenon DEF MatchOn
  <2> QED BY <2>1, <2>2, Zenon DEF MatchInv
<1> QED BY <1>1, <1>3, <1>4, <1>5, <1>6, Zenon DEF Next

-----------------------------------------------------------------------------
\* matchorders of a node with one worker (-rpcthreads=1) leaves nothing to match:
\* when it returns, no live BUY and SELL of its asset cross, whatever orders were
\* placed, cancelled, overwritten or left half executed by a crash before.
THEOREM MatchLeavesNothingCrossed ==
    ASSUME OneWorker
    PROVE  Spec => UncrossedAfterMatch
<1> DEFINE IInv == RpcInv /\ MatchInv
           Uncrossed == \A w \in Worker : MatchEnd(w) =>
                            \A buy, sell \in DOMAIN orders :
                                /\ buy.asset = thr[w].asset
                                /\ Crosses(buy, sell)
                                /\ IsLive(orders[buy])
                                => ~ IsLive(orders[sell])
<1>1. Init => IInv
  <2> SUFFICES ASSUME Init PROVE IInv
    BY Zenon
  <2>1. \A w \in Worker : thr[w] = Idle
    BY Zenon DEF Init
  <2>2. MatchInv
    BY <2>1 DEF MatchInv, Idle
  <2> QED BY <2>2, InitRpc, Zenon
<1>2. IInv /\ [Next]_vars => IInv'
  <2> SUFFICES ASSUME IInv, [Next]_vars PROVE IInv'
    BY Zenon
  <2>1. RpcInv'
    BY StepRpc, Zenon
  <2> QED BY <2>1, MatchStep, Zenon
<1>3. IInv => [Uncrossed]_vars
  <2> SUFFICES ASSUME IInv, NEW w \in Worker, MatchEnd(w),
                      NEW buy \in DOMAIN orders, NEW sell \in DOMAIN orders,
                      buy.asset = thr[w].asset, Crosses(buy, sell),
                      IsLive(orders[buy]), IsLive(orders[sell])
               PROVE  FALSE
    BY Zenon
  <2>1. thr[w].kind = "match" /\ thr[w].todo = <<>> /\ ~ MoreTrades(thr[w])
    BY Zenon DEF MatchEnd
  <2>2. ListsOf(thr[w], orders)
    BY <2>1, BetweenTrades, Zenon DEF MatchInv
  <2>3. thr[w] \in Thread /\ \A id \in DOMAIN orders : id \in OrderId
    BY Zenon DEF RpcInv, RpcTypes
  <2> QED BY <2>1, <2>2, <2>3, FirstCross, Zenon
<1> QED BY <1>1, <1>2, <1>3, PTL DEF Spec, UncrossedAfterMatch
=============================================================================
