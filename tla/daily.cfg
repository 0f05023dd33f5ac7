SPECIFICATION FairSpec
CONSTANTS
    Null = Null
    s1 = s1
    s2 = s2
    e = e
    f = f
    l1 = l1
    l2 = l2
    l3 = l3
    l4 = l4
    Sessions = {s1, s2}
    Casts <- MCCasts
    Sites = {e, f}
    Links = {l1, l2, l3, l4}
    SiteOf <- MCSiteOf
    PageOf <- MCPageOf
    Invented = {l1, l3}
    Excluded = {l4}
    Direct = {l1, l2}
    Timed = {l1, l2}
    Long = {l2}
    Budget = 2
    Searches = 2
    Limit = 1
INVARIANTS
    TypeOK
    PagesOnce
    RunsTell
    SuccessIsTrue
    BlocksLast
PROPERTY SessionsEnd
CHECK_DEADLOCK FALSE
