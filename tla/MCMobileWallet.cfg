\* Two phrases, imports at two times, three accounts, two kills.
SPECIFICATION WalletSpec
CONSTANTS
    Mnemonic = {"m1", "m2"}
    Imported = {1, 2}
    MaxAccounts = 3
    MaxSalts = 3
    MaxKills = 2
INVARIANTS LoadedWhole PasswordWorks KeysStored
CHECK_DEADLOCK FALSE
