SPECIFICATION Spec
CONSTANTS
    Null = Null
    a = a
    b = b
    c = c
    d = d
    p1 = p1
    p2 = p2
    v = v
    u = u
    m = m
    Plans = {p1}
    Items = {a, b}
    Assets = {v, m}
    Workers = {w1, w2}
    Streamers = {s1, s2}
    Requests = {r1, r2}
    PlanOf <- MCPlanOf
    VideoOf <- MCVideoOf
    MusicOf <- MCMusicOf
    SeqIndex <- MCSeqIndex
    AirRank <- MCAirRank
    DeleteAfter = {a}
    Limit <- Everything
INVARIANTS
    TypeOK
    ExclusivePrep
    ExclusiveAir
    ReadyPlanComplete
    OnlyVettedPrepared
    ReadyHasFile
    NoClaimLeftBehind
PROPERTIES
    KeepsPromise
