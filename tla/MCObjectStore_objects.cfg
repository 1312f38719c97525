SPECIFICATION Spec
CONSTANTS
    Clients = {c1, c2}
    Buckets <- OneBucket
    Keys <- MCKeys
    ListPrefixes <- MCPrefixes
    Requests <- MCRequests
    ChunkSizeBytes = 2
    Ticks = {1}
    Serialized <- KeptApart
    Mixes <- MCMixes
INVARIANTS
    TypeOK
    Intact
    AckedStays
PROPERTIES
    ReadsWhole
    ListExact
    GcReclaims
SYMMETRY ClientSymmetry
CHECK_DEADLOCK FALSE
