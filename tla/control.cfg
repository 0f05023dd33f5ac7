SPECIFICATION FairSpec
CONSTANTS
    NoRow = NoRow
    Null = Null
    Streamer = Streamer
    Calls = {"start1", "stop1", "restart"}
    VerbOf <- MCVerbOf
    Items = {1, 2}
    Crashes = 1
INVARIANTS
    TypeOK
    AtMostOneLate
PROPERTIES
    StatusSettles
    WantedIsAired
