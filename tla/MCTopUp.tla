------------------------------ MODULE MCTopUp ------------------------------
(* An instance of TopUp: two deposits for one address, another L1 address,    *)
(* one trading account.                                                       *)
EXTENDS TopUp

MCAddressOf == [d \in Deposit |-> "l1"]
MCAmountOf == [d \in Deposit |-> 1]

\* The two deposits are alike and so are the two goroutines, so it is no loss that
\* d1 is created first and that c2 starts a request only while c1 has one.
InOrder ==
    /\ status'["d2"] # None => status'["d1"] # None
    /\ (\A c \in Clerk : clerk[c] = Done) => clerk'["c2"] = Done

\* A bound: either two deposits wait for the lock, or one meets the ledger.
OneMatter == status'["d2"] = None \/ requests' = 0

MCNext == TopUpNext /\ InOrder /\ OneMatter
MCSpec == TopUpInit /\ [][MCNext]_topUpVars /\ TopUpFairness
=============================================================================
