\* Two callers of a source that is installed, replaced and removed, with a crash; and
\* requests for two hosts of one source, with the daemon and the reader solving.
SPECIFICATION PartsSpec
CONSTANTS
    b1 = b1
    b2 = b2
    v1 = v1
    v2 = v2
    Callers = {k1, k2}
    Admins = {a1}
    Builds = {b1, b2}
    Paths = {v1, v2}
    PathOf <- TwoVersions
    PoolSize = 1
    MaxCalls = 3
    MaxChanges = 1
    MaxCrashes = 1
    None = None
    site = site
    images = images
    other = other
    Origins = {site, images, other}
    Guarded = {images}
    Parent <- ImagesBelow
    Values = {1}
    Fetches = {f1}
    AutoSolves = {s1}
    Presses = {w1}
    Limit = 1
    MaxFetches = 1
    MaxSubmits = 1
    MaxPresses = 1
    Nobody = Nobody
INVARIANTS
    EngineSound
    ChallengesSound
    AllowanceRespected
PROPERTIES
    CallsReturn
    EverythingEnds
CHECK_DEADLOCK FALSE
