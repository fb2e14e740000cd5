------------------------------ MODULE ExtVault ------------------------------
(***************************************************************************)
(* The vault of the browser extension (extension/src/store/vault.ts) and    *)
(* the wallet_* handlers of its service worker that change it.  The worker  *)
(* is one JavaScript thread: a handler runs alone up to an await, and other *)
(* handlers run before it goes on.  The encrypted vault survives in         *)
(* chrome.storage; the session and the handlers in flight do not survive a  *)
(* stop of the worker.                                                      *)
(***************************************************************************)
EXTENDS Naturals, Sequences, FiniteSets

CONSTANTS
    Job,          \* handlers that may be in flight
    Mnemonic, Password, Origin,
    InitDisk,     \* the stored vault at the start, if any
    MaxAccounts,  \* bound on the accounts of a vault
    MaxSessions,  \* bound on the sessions opened
    MaxStops      \* bound on stops of the service worker

\* What null is in the code.
NoPassword == "null"

VaultData(m) == [mnemonic |-> m, accounts |-> <<0>>, connectedSites |-> {}]
NoVault == [mnemonic |-> "none", accounts |-> <<>>, connectedSites |-> {}]
NoDisk == [vault |-> NoVault, password |-> NoPassword]

\* Nothing is stored at the start, or a vault that was just created.
ASSUME VaultAssumption ==
    /\ NoPassword \notin Password
    /\ {MaxAccounts, MaxSessions, MaxStops} \subseteq Nat
    /\ \/ InitDisk = NoDisk
       \/ /\ InitDisk = [vault |-> VaultData(InitDisk.vault.mnemonic),
                         password |-> InitDisk.password]
          /\ InitDisk.password \in Password

VARIABLES
    disk,      \* the entry VAULT_KEY: a vault and the password that opens it
    heap,      \* the vault objects that were ever in a session
    session,   \* sessionPassword and sessionVault, an index of heap
    job,       \* the handlers in flight
    stops,     \* stops of the service worker
    raced      \* history: a vault handler started while another was in flight

vaultVars == <<disk, heap, session, job, stops, raced>>

Locked == [password |-> NoPassword, obj |-> 0]

\* A handler at an await: kind and pc say which, obj is the vault object of the
\* session it captured, vault and password what it is saving or has loaded.
Idle == [kind |-> "idle", pc |-> "idle", obj |-> 0, index |-> 0,
         vault |-> NoVault, password |-> NoPassword]

isUnlocked == session.password # NoPassword
sessionVault == heap[session.obj]
isConnectedSite(origin) == isUnlocked /\ origin \in sessionVault.connectedSites

VaultInit ==
    /\ disk = InitDisk
    /\ heap = <<>>
    /\ session = Locked
    /\ job = [j \in Job |-> Idle]
    /\ stops = 0
    /\ raced = FALSE
-----------------------------------------------------------------------------
\* A handler that reads or writes the vault starts.
Enter(j, rec) ==
    /\ job[j] = Idle
    /\ job' = [job EXCEPT ![j] = rec]
    /\ raced' = (raced \/ \E i \in Job : job[i].pc \in {"derive", "save", "stored", "load"})

\* setSession: the object becomes the one of the session.
setSession(password, vault) ==
    /\ Len(heap) < MaxSessions
    /\ heap' = Append(heap, vault)
    /\ session' = [password |-> password, obj |-> Len(heap) + 1]

wallet_create(j, m, p) ==
    /\ Enter(j, [Idle EXCEPT !.kind = "create", !.pc = "save",
                             !.vault = VaultData(m), !.password = p])
    /\ UNCHANGED <<disk, heap, session, stops>>

\* loadVault reads the entry; a password that does not open it changes nothing.
wallet_unlock(j, p) ==
    /\ disk.password = p
    /\ Enter(j, [Idle EXCEPT !.kind = "unlock", !.pc = "load",
                             !.vault = disk.vault, !.password = p])
    /\ UNCHANGED <<disk, heap, session, stops>>

\* The handlers that end in setSession.
OpenSession(j) ==
    /\ \/ job[j].kind = "create" /\ job[j].pc = "stored"
       \/ job[j].kind = "unlock" /\ job[j].pc = "load"
    /\ setSession(job[j].password, job[j].vault)
    /\ job' = [job EXCEPT ![j] = Idle]
    /\ UNCHANGED <<disk, stops, raced>>

\* wallet_lock, and the callback of lockTimer.
clearSession ==
    /\ isUnlocked
    /\ session' = Locked
    /\ UNCHANGED <<disk, heap, job, stops, raced>>

\* wallet_addAccount up to the await of deriveKey.
wallet_addAccount(j) ==
    /\ isUnlocked
    /\ Len(sessionVault.accounts) < MaxAccounts
    /\ Enter(j, [Idle EXCEPT !.kind = "add", !.pc = "derive", !.obj = session.obj,
                             !.index = Len(sessionVault.accounts)])
    /\ UNCHANGED <<disk, heap, session, stops>>

\* Mutant of persistSession: a session that was closed meanwhile goes unnoticed.
persistSessionAlways(rec, vault) ==
    /\ session' = [session EXCEPT !.obj = rec.obj]
    /\ job' = [job EXCEPT ![rec.j] = [Idle EXCEPT !.kind = rec.kind, !.pc = "save",
                 !.vault = vault, !.password = session.password]]

\* persistSession up to its await: vault, as it is now, is going to be saved under
\* the password of the session, if there still is one.
persistSession(rec, vault) ==
    /\ session' = IF isUnlocked THEN [session EXCEPT !.obj = rec.obj] ELSE session
    /\ job' = [job EXCEPT ![rec.j] =
                 IF isUnlocked
                 THEN [Idle EXCEPT !.kind = rec.kind, !.pc = "save",
                                   !.vault = vault, !.password = session.password]
                 ELSE Idle]

\* Mutant of PushAccount: the account is not persisted.
PushAccountOnly(j) ==
    /\ job[j].kind = "add" /\ job[j].pc = "derive"
    /\ heap' = [heap EXCEPT ![job[j].obj].accounts = Append(@, job[j].index)]
    /\ job' = [job EXCEPT ![j] = Idle]
    /\ UNCHANGED <<disk, session, stops, raced>>

\* wallet_addAccount after deriveKey: the object captured before gets the account.
PushAccount(j) ==
    /\ job[j].kind = "add" /\ job[j].pc = "derive"
    /\ heap' = [heap EXCEPT ![job[j].obj].accounts = Append(@, job[j].index)]
    /\ persistSession([j |-> j, kind |-> "add", obj |-> job[j].obj], heap'[job[j].obj])
    /\ UNCHANGED <<disk, stops, raced>>

\* saveVault: encryption took its time, now the entry is replaced.
saveVault(j) ==
    /\ job[j].pc = "save"
    /\ disk' = [vault |-> job[j].vault, password |-> job[j].password]
    /\ job' = [job EXCEPT ![j].pc = "stored"]
    /\ UNCHANGED <<heap, session, stops, raced>>

AccountAdded(j) ==
    /\ job[j].kind = "add" /\ job[j].pc = "stored"
    /\ job' = [job EXCEPT ![j] = Idle]
    /\ UNCHANGED <<disk, heap, session, stops, raced>>

\* The browser stops the idle or hung service worker; the next event starts it.
StopWorker ==
    /\ stops < MaxStops
    /\ stops' = stops + 1
    /\ session' = Locked
    /\ job' = [j \in Job |-> Idle]
    /\ UNCHANGED <<disk, heap, raced>>

\* What is asked for; the worker does not look at who asks.
WalletRequest(j) ==
    \/ \E m \in Mnemonic, p \in Password : wallet_create(j, m, p)
    \/ \E p \in Password : wallet_unlock(j, p)
    \/ wallet_addAccount(j)

\* A handler goes on after an await.
Resume(j) == OpenSession(j) \/ PushAccount(j) \/ saveVault(j) \/ AccountAdded(j)
-----------------------------------------------------------------------------
VaultQuiet == \A j \in Job : job[j].pc \notin {"derive", "save", "stored", "load"}

\* As long as vault handlers do not overlap, and wherever the wallet is locked or
\* the worker stopped between their awaits, the stored vault numbers its accounts
\* by their place, so that no derivation index is handed out twice, and once they
\* are done the open session agrees with it.
SessionStored ==
    ~ raced =>
        /\ \A i \in DOMAIN disk.vault.accounts : disk.vault.accounts[i] = i - 1
        /\ VaultQuiet /\ isUnlocked =>
              disk = [vault |-> sessionVault, password |-> session.password]

\* Whatever overlaps, locks or stops, the stored vault is one that a password of
\* the user opens: nothing is ever saved under the null of a closed session.
StoredOpenable == disk # NoDisk => disk.password \in Password
=============================================================================
