SPECIFICATION Spec
CONSTANTS
    Word <- MCWord
    Key <- MCKeys
    Val <- OneVal
    Stub = "stub"
    GroupCommitEvery = 2
    BatchSizes = {}
    Ops = {"del", "checkpoint"}
    Faults = {"kill", "power", "torn", "write", "fsync", "dump", "reopen"}
    CrashPoints = {"idle", "flush", "dump"}
    MaxWrites = 3
    MaxCrashes = 2
    MaxCheckpoints = 1
    MaxFailures = 1
INVARIANTS
    RecoveredKeys
PROPERTIES
    FsyncedStays
