----------------------------- MODULE DexLedger -----------------------------
(***************************************************************************)
(* The custodial ledger of the API (dexLedger, handleDexDeposit and         *)
(* handleDexWithdraw in api/main.go): a deposit locks part of an L1 balance *)
(* and credits a trading account, a withdrawal undoes that.  Balances are   *)
(* checked in one critical section and changed in a later one, so requests  *)
(* interleave between the two.                                              *)
(***************************************************************************)
EXTENDS GrdChain, FiniteSets, Functions

CONSTANTS
    Account,       \* trading addresses
    Clerk,         \* goroutines in a handler of the ledger
    Amount,
    MaxAmount,     \* no request asks for more
    MaxRequests    \* bound on requests to the ledger

VARIABLES
    trading,     \* trading address -> balance
    locked,      \* L1 address -> what is locked
    clerk,       \* goroutine -> its request and how far it is
    requests

ASSUME LedgerAssumption ==
    /\ MaxAmount \in Nat /\ Amount \subseteq 1..MaxAmount
    /\ IsFiniteSet(Account) /\ IsFiniteSet(Address)
    /\ IsFiniteSet(Clerk) /\ Clerk # {}

ledgerVars == <<trading, locked, clerk, requests>>

Done == [pc |-> "done", l1 |-> "none", account |-> "none", amount |-> 0, onChain |-> 0]

LedgerInit ==
    /\ trading = [a \in Account |-> 0]
    /\ locked = [a \in Address |-> 0]
    /\ clerk = [c \in Clerk |-> Done]
    /\ requests = 0

Begin(c, pc, l1, account, amount, seen) ==
    /\ clerk[c] = Done
    /\ requests < MaxRequests
    /\ requests' = requests + 1
    /\ clerk' = [clerk EXCEPT ![c] = [pc |-> pc, l1 |-> l1, account |-> account,
                                      amount |-> amount, onChain |-> seen]]
    /\ UNCHANGED <<trading, locked>>

Return(c) == clerk' = [clerk EXCEPT ![c] = Done]

\* handleDexDeposit reads the balance of the L1 address, which counts as zero when
\* the node does not answer.
handleDexDeposit(c, l1, account, amount) ==
    \E seen \in {onChain[l1], 0} : Begin(c, "available", l1, account, amount, seen)

Available(c) == clerk[c].onChain - locked[clerk[c].l1]

\* It reads what is locked of it, and refuses or goes on.
CheckDeposit(c) ==
    /\ clerk[c].pc = "available"
    /\ IF Available(c) < clerk[c].amount
       THEN Return(c) ELSE clerk' = [clerk EXCEPT ![c].pc = "credit"]
    /\ UNCHANGED <<trading, locked, requests>>

\* Mutant of Credit: nothing is locked.
CreditOnly(c) ==
    /\ clerk[c].pc = "credit"
    /\ trading' = [trading EXCEPT ![clerk[c].account] = @ + clerk[c].amount]
    /\ Return(c)
    /\ UNCHANGED <<locked, requests>>

Credit(c) ==
    /\ clerk[c].pc = "credit"
    /\ locked' = [locked EXCEPT ![clerk[c].l1] = @ + clerk[c].amount]
    /\ trading' = [trading EXCEPT ![clerk[c].account] = @ + clerk[c].amount]
    /\ Return(c)
    /\ UNCHANGED requests

\* Mutant of handleDexWithdraw: the trading balance is not checked.
handleDexWithdrawAny(c, l1, account, amount) == Begin(c, "debit", l1, account, amount, 0)

\* handleDexWithdraw finds the trading balance large enough.
handleDexWithdraw(c, l1, account, amount) ==
    /\ trading[account] >= amount
    /\ Begin(c, "debit", l1, account, amount, 0)

Unlocked(c) == locked[clerk[c].l1] - clerk[c].amount

Debit(c) ==
    /\ clerk[c].pc = "debit"
    /\ trading' = [trading EXCEPT ![clerk[c].account] = @ - clerk[c].amount]
    /\ locked' = [locked EXCEPT ![clerk[c].l1] = IF Unlocked(c) < 0 THEN 0 ELSE Unlocked(c)]
    /\ Return(c)
    /\ UNCHANGED requests

LedgerNext ==
    /\ \E c \in Clerk :
          \/ \E l1 \in Address, a \in Account, n \in Amount :
                handleDexDeposit(c, l1, a, n) \/ handleDexWithdraw(c, l1, a, n)
          \/ CheckDeposit(c) \/ Credit(c) \/ Debit(c)
    /\ UNCHANGED chainVars
-----------------------------------------------------------------------------
\* What all trading accounts hold together is locked on L1, whatever requests
\* interleave and to whichever L1 address a withdrawal goes.
TradingBacked == SumFunction(trading) <= SumFunction(locked)

\* Withdrawals that have checked the same balance and debit it one after the
\* other overdraw a trading account, but never by more than one withdrawal for
\* each of the other goroutines, however often that happens: an account that is
\* overdrawn passes no check until deposits have made up for it.
OverdraftBounded ==
    \A a \in Account : trading[a] >= - ((Cardinality(Clerk) - 1) * MaxAmount)
=============================================================================
