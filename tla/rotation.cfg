SPECIFICATION FairSpec
CONSTANTS
    Null = Null
    NoVideo = NoVideo
    u = u
    v = v
    w = w
    j = j
    Videos = {u, v, w}
    Bumpers = {j}
    DurationOf <- MCDurationOf
    DefaultVideo = 2
    DefaultBumper = 1
    Target = 12
    Streamers = {s1}
    Window = 4
    Healthy = 300
    Past <- MCPast
    Earlier <- Yesterday
    Limit <- OnePlan
INVARIANTS
    TypeOK
    TilesDay
    NoRepeat
    EveryVideoInTurn
    RecordIsTrue
PROPERTIES
    PlanEnds
    ReviewStands
CHECK_DEADLOCK FALSE
