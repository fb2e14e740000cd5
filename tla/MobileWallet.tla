---------------------------- MODULE MobileWallet ----------------------------
(***************************************************************************)
(* The wallet of the mobile app (mobile/utils/wallet-storage.ts) and the    *)
(* screens that change it.  The wallet is spread over keys of the secure    *)
(* store; an operation writes them one by one, and the app may be killed    *)
(* between two writes.  The screens run one operation at a time.            *)
(***************************************************************************)
EXTENDS Naturals, FiniteSets, Sequences

CONSTANTS
    Mnemonic,       \* recovery phrases
    Imported,       \* times at which an account is imported
    MaxAccounts,    \* bound on the accounts listed
    MaxSalts,       \* bound on passwords set
    MaxKills        \* bound on kills of the app

Null == "null"

ASSUME WalletAssumption ==
    /\ Null \notin Mnemonic
    /\ {MaxAccounts, MaxSalts, MaxKills} \subseteq Nat

VARIABLES
    store,        \* key -> value
    writes,       \* what the running operation has still to write, in order
    screen,       \* the screen shown
    next,         \* the screen the running operation leads to
    salts,        \* salts drawn
    kills,
    removed,      \* history: an account was removed
    renumbered    \* history: an account was created after that

walletVars == <<store, writes, screen, next, salts, kills, removed, renumbered>>

EmptyStore ==
    [mnemonic |-> Null, accounts |-> <<>>, active |-> Null, exists |-> FALSE,
     salt |-> 0, hash |-> 0, imported |-> {}]

WalletInit ==
    /\ store = EmptyStore
    /\ writes = <<>>
    /\ screen = "welcome" /\ next = "welcome"
    /\ salts = 0 /\ kills = 0
    /\ removed = FALSE /\ renumbered = FALSE

\* An account derived from phrase m; one imported by private key or phrase, whose
\* id is made of the time.  Names are left out.
Derived(m, i) == [id |-> <<"account", i>>, key |-> m]
ImportedAccount(by, k) == [id |-> <<by, k>>, key |-> Null]

hasWallet == store.exists
hasPassword == store.hash # 0
\* loadWallet returns a wallet.
loadWallet == store.exists /\ store.mnemonic # Null
Ids == {store.accounts[i].id : i \in DOMAIN store.accounts}
-----------------------------------------------------------------------------
(* Operations: a list of writes *)

Put(k, v) == [key |-> k, value |-> v]

\* Mutant of saveWallet: the wallet is announced before it is complete.
saveWalletEarly(m) ==
    <<Put("exists", TRUE), Put("mnemonic", m), Put("accounts", <<Derived(m, 0)>>),
      Put("active", Derived(m, 0).id)>>

saveWallet(m) ==
    <<Put("mnemonic", m), Put("accounts", <<Derived(m, 0)>>),
      Put("active", Derived(m, 0).id), Put("exists", TRUE)>>

\* stretchPassword ties the hash to the salt it was made with.
savePasswordHash == <<Put("salt", salts + 1), Put("hash", salts + 1)>>

addAccount(account) == <<Put("accounts", Append(store.accounts, account))>>
setActiveAccount(id) == <<Put("active", id)>>
saveImportedKey(id) == <<Put("imported", store.imported \cup {id})>>

\* Array.filter: the accounts that are kept, in their order.
Without(s, id) ==
    LET kept == {i \in DOMAIN s : s[i].id # id}
        places == {f \in [1..Cardinality(kept) -> kept] :
                      \A i, j \in DOMAIN f : i < j => f[i] < f[j]}
    IN  {[i \in DOMAIN f |-> s[f[i]]] : f \in places}

\* The last account stays.  remaining[0] of an empty list throws after the list
\* was written.
removeAccount(id, remaining) ==
    IF Len(store.accounts) <= 1 THEN <<>>
    ELSE <<Put("accounts", remaining)>> \o
         (IF store.active = id /\ remaining # <<>>
          THEN <<Put("active", remaining[1].id)>> ELSE <<>>)

\* Mutant of clearWallet: what announces the wallet goes first.
clearWalletFlag ==
    <<Put("exists", FALSE), Put("mnemonic", Null), Put("accounts", <<>>),
      Put("hash", 0), Put("salt", 0), Put("active", Null)>>

clearWallet ==
    <<Put("mnemonic", Null), Put("accounts", <<>>), Put("hash", 0), Put("salt", 0),
      Put("exists", FALSE), Put("active", Null)>>

Start(from, ops, to) ==
    /\ writes = <<>> /\ screen = from
    /\ writes' = ops
    /\ next' = to
    /\ UNCHANGED <<store, screen, kills>>
-----------------------------------------------------------------------------
(* The screens *)

\* dompet-siap: a new wallet and its password.
handleOpen(m) ==
    /\ ~ hasWallet /\ salts < MaxSalts
    /\ Start("welcome", saveWallet(m) \o savePasswordHash, "home")
    /\ salts' = salts + 1
    /\ UNCHANGED <<removed, renumbered>>

\* impor-dompet: a wallet from a phrase; the password is asked for next.
handleImport(m) ==
    /\ ~ hasWallet
    /\ Start("welcome", saveWallet(m), "password")
    /\ UNCHANGED <<salts, removed, renumbered>>

\* set-password-only
handleSave ==
    /\ salts < MaxSalts
    /\ Start("password", savePasswordHash, "home")
    /\ salts' = salts + 1
    /\ UNCHANGED <<removed, renumbered>>

\* unlock with the right password, or to set one when there is none.
handleUnlock ==
    /\ writes = <<>> /\ screen = "unlock"
    /\ \/ ~ hasPassword /\ screen' = "password"
       \/ hasPassword /\ store.hash = store.salt /\ screen' = "home"
    /\ UNCHANGED <<store, writes, next, salts, kills, removed, renumbered>>

\* Reset Dompet and Keluar.
handleReset(from) ==
    /\ Start(from, clearWallet, "welcome")
    /\ UNCHANGED <<salts, removed, renumbered>>

\* buat-akun: the number of accounts is the index of the next one.
handleCreate ==
    LET n == Len(store.accounts)
    IN  /\ loadWallet /\ n < MaxAccounts
        /\ LET account == Derived(store.mnemonic, n)
           IN  Start("home", addAccount(account) \o setActiveAccount(account.id), "home")
        /\ renumbered' = (renumbered \/ removed)
        /\ UNCHANGED <<salts, removed>>

\* Mutant of ImportWrites: the key is not stored.
ImportWritesNoKey(account, by) == addAccount(account) \o setActiveAccount(account.id)

\* A private key is stored apart from its account.
ImportWrites(account, by) ==
    addAccount(account) \o (IF by = "key" THEN saveImportedKey(account.id) ELSE <<>>)
        \o setActiveAccount(account.id)

\* impor-kunci-privat and impor-akun-frasa
handleImportAccount(by, k) ==
    LET account == ImportedAccount(by, k)
    IN  /\ Len(store.accounts) < MaxAccounts
        /\ account.id \notin Ids \cup store.imported
        /\ Start("home", ImportWrites(account, by), "home")
        /\ UNCHANGED <<salts, removed, renumbered>>

\* Hapus Akun
handleRemove(id) ==
    /\ loadWallet
    /\ \E remaining \in Without(store.accounts, id) :
          Start("home", removeAccount(id, remaining), "home")
    /\ removed' = TRUE
    /\ UNCHANGED <<salts, renumbered>>

handleSwitchAccount(id) ==
    /\ loadWallet
    /\ Start("home", setActiveAccount(id), "home")
    /\ UNCHANGED <<salts, removed, renumbered>>

\* The next write of the running operation; after the last one its screen leads on.
Write ==
    /\ writes # <<>>
    /\ store' = [store EXCEPT ![Head(writes).key] = Head(writes).value]
    /\ writes' = Tail(writes)
    /\ screen' = IF Len(writes) = 1 THEN next ELSE screen
    /\ UNCHANGED <<next, salts, kills, removed, renumbered>>

\* The app is killed and opened again.
Kill ==
    /\ kills < MaxKills
    /\ kills' = kills + 1
    /\ writes' = <<>>
    /\ screen' = IF hasWallet THEN "unlock" ELSE "welcome"
    /\ UNCHANGED <<store, next, salts, removed, renumbered>>

WalletNext ==
    \/ \E m \in Mnemonic : handleOpen(m) \/ handleImport(m)
    \/ handleSave \/ handleUnlock \/ handleReset("unlock") \/ handleReset("home")
    \/ handleCreate
    \/ \E k \in Imported : handleImportAccount("key", k) \/ handleImportAccount("phrase", k)
    \/ \E id \in Ids : handleRemove(id) \/ handleSwitchAccount(id)
    \/ Write \/ Kill

WalletSpec == WalletInit /\ [][WalletNext]_walletVars
-----------------------------------------------------------------------------
\* Whenever the app is killed, it loads no wallet or a complete one: its accounts
\* belong to its phrase, or were imported, and there is one.
LoadedWhole ==
    loadWallet =>
        /\ \A i \in DOMAIN store.accounts : store.accounts[i].key \in {store.mnemonic, Null}
        /\ renumbered \/ store.accounts # <<>>

\* A stored password hash can be verified: it was made with the stored salt, so
\* no kill locks the user out of the wallet.
PasswordWorks == hasPassword => store.hash = store.salt

\* A kill of the app costs at most one private key: an account that was imported
\* by its key has the key stored, except one for each kill between the two writes.
KeysStored ==
    writes = <<>> =>
        Cardinality({id \in Ids : id[1] = "key" /\ id \notin store.imported}) <= kills

\* A wallet keeps at least one account ("minimal 1 akun harus tersisa").
OneAccountLeft == loadWallet => store.accounts # <<>>
=============================================================================
