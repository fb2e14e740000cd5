\* Accounts are created and removed; the app is never killed.
SPECIFICATION WalletSpec
CONSTANTS
    Mnemonic = {"m1"}
    Imported = {}
    MaxAccounts = 3
    MaxSalts = 1
    MaxKills = 0
INVARIANT OneAccountLeft
CHECK_DEADLOCK FALSE
