------------------------------- MODULE TopUp -------------------------------
(***************************************************************************)
(* Money on its way into the exchange: a QRIS deposit pays GRD to an L1     *)
(* address, the ledger lets its owner trade with them and gives them back.  *)
(* The two parts of the API share the balances of the chain, which move     *)
(* without them as well.                                                    *)
(***************************************************************************)
EXTENDS Qris, DexLedger

topUpVars == <<chainVars, qrisVars, ledgerVars>>

TopUpInit ==
    /\ ChainInit /\ QrisInit /\ LedgerInit

\* What others do on the chain.
ChainNext == Block \/ \E a \in Address, n \in Amount : Spend(a, n)

TopUpNext ==
    \/ QrisNext /\ UNCHANGED ledgerVars
    \/ LedgerNext /\ UNCHANGED qrisVars
    \/ ChainNext /\ UNCHANGED <<qrisVars, ledgerVars>>

\* A sleeping goroutine wakes up and gets the lock (a mutex of Go starves nobody),
\* and a call of the node ends, by an answer or by the timeout of the client.
TopUpFairness ==
    /\ \A d \in Deposit : SF_topUpVars(AutoConfirm(d) /\ UNCHANGED ledgerVars)
    /\ WF_topUpVars((SendOk \/ SendFails \/ Confirm) /\ UNCHANGED ledgerVars)

TopUpSpec == TopUpInit /\ [][TopUpNext]_topUpVars /\ TopUpFairness
=============================================================================
