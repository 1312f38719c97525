SPECIFICATION Spec
CONSTANTS
    Word <- MCWord
    Key <- MCKeys
    Val <- MCVals
    Stub = "stub"
    GroupCommitEvery = 2
    BatchSizes = {0, 3}
    Ops = {"del", "batch"}
    Faults = {"kill"}
    CrashPoints = {"idle", "flush", "dump"}
    MaxWrites = 4
    MaxCrashes = 2
    MaxCheckpoints = 0
    MaxFailures = 0
INVARIANTS
    TypeOK
    CrashConsistent
    SeqIncreasing
PROPERTIES
    ImplementsPromise
