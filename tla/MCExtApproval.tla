--------------------------- MODULE MCExtApproval ---------------------------
(* An instance of ExtApproval: two requests of one site, one wallet handler. *)
EXTENDS ExtApproval

CONSTANTS r1, r2, t1, site

MCOriginOf == [r \in Req |-> site]
MCAsks == [r \in Req |-> Method]
MCDisk == [vault |-> VaultData("m1"), password |-> "p1"]

\* A wallet is created or gets an account, or both requests of the page are made.
Edited(vault) == vault.mnemonic = "m2" \/ Len(vault.accounts) > 1
MCBound ==
    \/ \E r \in Req : method[r] = "none"
    \/ /\ \A i \in DOMAIN heap : ~ Edited(heap[i])
       /\ ~ Edited(disk.vault)
       /\ \A t \in Task : job[t].kind \in {"idle", "unlock"}
=============================================================================
