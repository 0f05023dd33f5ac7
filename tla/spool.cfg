SPECIFICATION FairSpec
CONSTANTS
    Null = Null
    a = a
    b = b
    c = c
    v = v
    m = m
    Items = {a, b, c}
    Assets = {v, m}
    Workers = {w1}
    VideoOf <- MCVideoOf
    MusicOf <- MCMusicOf
    Planned = {a, b}
    Limit <- Everything
INVARIANTS
    TypeOK
    SourceIsWhole
    NeededIsKept
    NoOrphan
PROPERTIES
    DownloadsGo
