SPECIFICATION Spec
CONSTANTS
    Null = Null
    a = a
    b = b
    c = c
    d = d
    p1 = p1
    p2 = p2
    v = v
    u = u
    m = m
    Plans = {p1}
    Items = {a}
    Assets = {v}
    Workers = {w1}
    Streamers = {s1}
    Requests = {r1}
    PlanOf <- MCPlanOf
    VideoOf <- MCVideoOf
    MusicOf <- MCMusicOf
    SeqIndex <- MCSeqIndex
    AirRank <- MCAirRank
    DeleteAfter = {a}
    Limit <- Review
PROPERTIES
    BlockedNeverAirs
