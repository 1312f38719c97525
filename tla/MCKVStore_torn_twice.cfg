SPECIFICATION Spec
CONSTANTS
    Word <- MCWord
    Key <- OneKey
    Val <- MCVals
    Stub = "stub"
    GroupCommitEvery = 1
    BatchSizes = {}
    Ops = {}
    Faults = {"kill", "torn"}
    CrashPoints = {"idle", "flush", "dump"}
    MaxWrites = 2
    MaxCrashes = 2
    MaxCheckpoints = 0
    MaxFailures = 0
INVARIANTS
    CrashConsistent
