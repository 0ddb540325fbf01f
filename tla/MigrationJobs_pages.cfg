\* Bounds: two titles, two sources, one slot; two pages that connect twice and cancel once.
SPECIFICATION FairSpec
CONSTANTS
    s1 = s1
    s2 = s2
    Titles = {t1, t2}
    Targets <- TwoTargets
    Ranks = {1, 2}
    Clients = {p1, p2}
    Slots = 1
    Prioritize = {TRUE, FALSE}
    MaxConnects = 2
    MaxCancels = 1
    None = None
INVARIANTS
    JobSound
    OutagesAreShown
PROPERTIES
    JobEnds
CHECK_DEADLOCK FALSE
