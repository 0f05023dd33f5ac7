SPECIFICATION Spec
CONSTANTS
    NoRow = NoRow
    Null = Null
    Streamer = Streamer
    Calls = {"start1", "stop1"}
    VerbOf <- MCVerbOf
    Items = {1}
    Crashes = 0
PROPERTIES
    StopStops
