SPECIFICATION Spec
CONSTANTS
    Word <- MCWord
    Key <- MCKeys
    Val <- MCVals
    Stub = "stub"
    GroupCommitEvery = 3
    BatchSizes = {}
    Ops = {"del", "checkpoint"}
    Faults = {"kill", "reopen"}
    CrashPoints = {"idle"}
    MaxWrites = 4
    MaxCrashes = 2
    MaxCheckpoints = 2
    MaxFailures = 0
INVARIANTS
    CrashConsistent
    Recoverable
PROPERTIES
    ImplementsPromise
