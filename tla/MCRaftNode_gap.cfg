SPECIFICATION Spec
CONSTANTS
    Server = {1, 2, 3}
    Cmd <- TwoCmds
    Candidates = {1, 3}
    Preemptible = {"gap"}
    MaxTerm = 2
    MaxStops = 0
PROPERTIES
    CommitFinal
CHECK_DEADLOCK FALSE
