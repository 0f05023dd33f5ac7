SPECIFICATION Spec
CONSTANTS
    Null = Null
    NoVideo = NoVideo
    u = u
    v = v
    w = w
    j = j
    Videos = {u, v, w}
    Bumpers = {j}
    DurationOf <- MCDurationOf
    DefaultVideo = 2
    DefaultBumper = 1
    Target = 3
    Streamers = {s1}
    Window = 4
    Healthy = 300
    Past <- MCPast
    Earlier <- Premiere
    Limit <- PlayPlan
PROPERTIES
    QuarantineHolds
CHECK_DEADLOCK FALSE
