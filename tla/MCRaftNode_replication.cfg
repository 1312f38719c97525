SPECIFICATION Spec
CONSTANTS
    Server = {1, 2, 3}
    Cmd <- TwoCmds
    Candidates = {1, 3}
    Preemptible = {"hb_reply", "send"}
    MaxTerm = 2
    MaxStops = 0
INVARIANTS
    LogMatching
    CommitWithinLog
    StateMachineSafety
    AckedSurvives
    CommittedByMajority
PROPERTIES
    CommitFinal
    ImplementsLog
CHECK_DEADLOCK FALSE
