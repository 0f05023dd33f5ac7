SPECIFICATION FairSpec
CONSTANTS
    Null = Null
    Nobody = Nobody
    x = x
    y = y
    z = z
    old = old
    gone = gone
    new = new
    s1 = s1
    s2 = s2
    Candidates = {x, y, z}
    Age <- MCAge
    SecondsOf <- MCSeconds
    Target = 13
    Cooldown = 3
    MaxRepeats = 1
    BufferEvery = 3
    LongestBuffer = 2
    ReserveCount = 2
    Requests = {r1, r2}
    LineupIds = {old, gone, new}
    Sources = {s1, s2}
    SourceOf <- MCSourceOf
    Authorized = {x, y, z}
    Selected = {x, y}
    Stocked = {}
    Archive <- MCArchive
    Limit <- Busy
INVARIANTS
    TypeOK
    FillsTarget
    NoMonotony
    EmittedIsVetted
PROPERTIES
    RightsAreKept
    LineupEnds
    RequestsEnd
CHECK_DEADLOCK FALSE
