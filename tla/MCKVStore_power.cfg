SPECIFICATION Spec
CONSTANTS
    Word <- MCWord
    Key <- MCKeys
    Val <- MCVals
    Stub = "stub"
    GroupCommitEvery = 3
    BatchSizes = {}
    Ops = {"del"}
    Faults = {"kill", "power", "torn"}
    CrashPoints = {"idle", "flush", "dump"}
    MaxWrites = 4
    MaxCrashes = 1
    MaxCheckpoints = 0
    MaxFailures = 0
INVARIANTS
    CrashConsistent
    GroupCommitBound
PROPERTIES
    ImplementsPromise
