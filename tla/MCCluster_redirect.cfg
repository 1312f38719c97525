SPECIFICATION ClusterSpec
CONSTANTS
    Server = {1, 2, 3}
    Cmd <- OneCmd
    Candidates = {1, 3}
    Preemptible = {"ask", "vote_reply", "build", "hb_reply", "send", "ack"}
    MaxTerm = 2
    MaxStops = 1
    Asked = {1, 2, 3}
INVARIANTS
    ClusterTypeOK
    ElectionSafety
    LeaderHint
    ProposedOnce
    AckedSurvives
CHECK_DEADLOCK FALSE
