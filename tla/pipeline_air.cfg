SPECIFICATION FairSpec
CONSTANTS
    Null = Null
    a = a
    b = b
    c = c
    d = d
    p1 = p1
    p2 = p2
    v = v
    u = u
    m = m
    Plans = {p1, p2}
    Items = {a, b, d}
    Assets = {v, u}
    Workers = {w1}
    Streamers = {s1, s2}
    Requests = {r1}
    PlanOf <- MCPlanOf
    VideoOf <- MCVideoOf
    MusicOf <- MCMusicOf
    SeqIndex <- MCSeqIndex
    AirRank <- MCAirRank
    DeleteAfter = {a}
    Limit <- Upkeep
INVARIANTS
    AirInOrder
PROPERTIES
    ReadyAirs
    PrepCompletes
