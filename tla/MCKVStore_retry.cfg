SPECIFICATION Spec
CONSTANTS
    Word <- MCWord
    Key <- MCKeys
    Val <- MCVals
    Stub = "stub"
    GroupCommitEvery = 3
    BatchSizes = {}
    Ops = {"checkpoint"}
    Faults = {"kill", "power", "write", "fsync", "reopen"}
    CrashPoints = {"idle", "flush", "dump"}
    MaxWrites = 3
    MaxCrashes = 1
    MaxCheckpoints = 1
    MaxFailures = 2
INVARIANTS
    Recoverable
