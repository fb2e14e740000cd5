\* Everything that can fail does.
SPECIFICATION MCSpec
CONSTANTS
    w1 = w1
    w2 = w2
    Worker = {w1, w2}
    Faults = {"write", "torn", "fsync", "power", "open"}
    MaxEntries = 5
    MaxWitnessed = 3
    MaxRestarts = 2
INVARIANTS ChainUnbroken TailRecovered AckedDurable UnloggedBounded PinsOneEntry CommittedKept
PROPERTIES BreakerLatched TailWitnessed
CHECK_DEADLOCK FALSE
