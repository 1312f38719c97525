SPECIFICATION ClusterSpec
CONSTANTS
    Server = {1, 2, 3}
    Cmd <- ThreeCmds
    Candidates = {1}
    Preemptible = {"build", "hb_send", "hb_reply"}
    MaxTerm = 1
    MaxStops = 0
    Asked = {2}
PROPERTIES
    OneServed
CHECK_DEADLOCK FALSE
