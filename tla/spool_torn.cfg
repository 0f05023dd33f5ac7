SPECIFICATION Spec
CONSTANTS
    Null = Null
    a = a
    b = b
    c = c
    v = v
    m = m
    Items = {a, c}
    Assets = {v, m}
    Workers = {w1, w2}
    VideoOf <- MCVideoOf
    MusicOf <- MCMusicOf
    Planned = {a, c}
    Limit <- Quiet
INVARIANTS
    SourceIsWhole
