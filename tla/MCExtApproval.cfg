\* Two requests of a page, a wallet handler, one stop of the worker.
SPECIFICATION Spec
CONSTANTS
    r1 = r1
    r2 = r2
    t1 = t1
    site = site
    Req = {r1, r2}
    Task = {t1}
    Job = {r1, r2, t1}
    Origin = {site}
    Asks <- MCAsks
    InitDisk <- MCDisk
    OriginOf <- MCOriginOf
    Mnemonic = {"m2"}
    Password = {"p1"}
    MaxAccounts = 2
    MaxSessions = 2
    MaxStops = 1
CONSTRAINT MCBound
INVARIANTS OnlyApprovedOnce RefusedNeverRuns ConnectedFirst ResolvedMeansDone SessionStored StoredOpenable
CHECK_DEADLOCK FALSE
