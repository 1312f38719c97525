SPECIFICATION FairSpec
CONSTANTS
    Server = {1, 2, 3}
    Cmd <- OneCmd
    Candidates = {1}
    Preemptible <- Everywhere
    MaxTerm = 1
    MaxStops = 1
INVARIANTS
    TypeOK
PROPERTIES
    CatchUp
    CommitSpreads
CHECK_DEADLOCK FALSE
