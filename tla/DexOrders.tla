----------------------------- MODULE DexOrders -----------------------------
(***************************************************************************)
(* The records of the DEX order book (dex/dex_types.h) and the arithmetic   *)
(* the RPC handlers and the matching engine share.  An order is stored in   *)
(* LevelDB under ComputeOrderId, a SHA-256 over every immutable field, so   *)
(* the record of those fields stands for the id and the stored value keeps  *)
(* only what changes: filled and status.                                    *)
(***************************************************************************)
EXTENDS Integers, FiniteSets, Functions

CONSTANTS
    Asset,      \* registered assets (Assets::AssetDB)
    Address,    \* owners of balances and orders
    Amounts,    \* order sizes a client asks for (integer units)
    Prices,     \* limit prices, in satoshi of GRD per unit
    Int64Max    \* largest value of the code's int64_t

ASSUME OrderAssumption ==
    /\ Amounts \subseteq Nat \ {0}
    /\ Prices \subseteq Nat \ {0}
    /\ Int64Max \in Nat \ {0}
    /\ IsFiniteSet(Address)

\* DEX::OrderSide and DEX::OrderStatus
Side == {"BUY", "SELL"}
OrderStatus == {"OPEN", "PARTIAL", "FILLED", "CANCELLED"}

\* ComputeOrderId hashes exactly these fields; timestamp is in whole seconds.
OrderId == [asset : Asset, side : Side, price : Prices, amount : Amounts,
            owner : Address, timestamp : Nat]

ComputeOrderId(asset, side, price, amount, owner, ts) ==
    [asset |-> asset, side |-> side, price |-> price, amount |-> amount,
     owner |-> owner, timestamp |-> ts]

\* The mutable part of DEX::Order.
OrderRec == [filled : Nat, status : OrderStatus]

NewOrder == [filled |-> 0, status |-> "OPEN"]

\* Two's complement wrap-around of a product of two int64_t values.
Wrap64(x) == ((x + Int64Max + 1) % (2 * (Int64Max + 1))) - (Int64Max + 1)
Mul64(x, y) == IF x * y <= Int64Max THEN x * y ELSE Wrap64(x * y)

\* Signed overflow is undefined: a release build wraps, and may or may not keep
\* a test for a product that is not positive.
Overflows(x, y) == x * y > Int64Max

\* A BUY order whose value fits int64_t; the units of a SELL order always do.
ExactValue(id) == id.side = "BUY" => ~ Overflows(id.amount, id.price)

IsLive(rec) == rec.status \in {"OPEN", "PARTIAL"}

Remaining(id, rec) == id.amount - rec.filled

\* What the order still holds in escrow: units of the asset for a SELL,
\* satoshi of virtual GRD for a BUY.
Escrow(id, rec) ==
    IF ~ IsLive(rec) THEN 0
    ELSE IF id.side = "SELL" THEN Remaining(id, rec)
    ELSE Mul64(Remaining(id, rec), id.price)

\* Mutant of FillStatus: the last unit does not complete the order.
FillStatusStrict(id, filled) == IF filled > id.amount THEN "FILLED" ELSE "PARTIAL"

\* The status MatchOrders stores after a fill.
FillStatus(id, filled) == IF filled >= id.amount THEN "FILLED" ELSE "PARTIAL"

\* Mutant of Filled: the fill is subtracted.
FilledBackwards(id, rec, qty) ==
    [filled |-> rec.filled - qty, status |-> FillStatus(id, rec.filled - qty)]

Filled(id, rec, qty) ==
    [filled |-> rec.filled + qty, status |-> FillStatus(id, rec.filled + qty)]

\* A BUY and a SELL of one asset that MatchOrders would execute.
Crosses(buy, sell) ==
    /\ buy.side = "BUY" /\ sell.side = "SELL"
    /\ buy.asset = sell.asset
    /\ buy.price >= sell.price

MinOf(x, y) == IF x <= y THEN x ELSE y

\* What the orders of a set K hold together.
TotalEscrow(book, K) == SumFunction([id \in K |-> Escrow(id, book[id])])

\* A function that maps k to v and agrees with f elsewhere (a LevelDB Put).
Put(f, k, v) == [x \in DOMAIN f \cup {k} |-> IF x = k THEN v ELSE f[x]]
=============================================================================
