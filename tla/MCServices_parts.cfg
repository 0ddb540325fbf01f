\* Bounds: two requests at once; three rows and two workers of the drain, so that more may
\* fail than the channel holds; two sign-ins, two refreshes, two calls of the daemon and
\* one of `makidoku sync`; two workers of one source at one host, one override or update.
SPECIFICATION Spec
CONSTANTS
    MaxHandlers = 2
    Rows = {r1, r2, r3}
    Drainers = {w1, w2}
    MaxClaimFailures = 1
    Handlers = {h1, h2}
    Callers = {c1, c2, c3}
    SyncCallers = {c3}
    MaxGrants = 2
    MaxTokens = 2
    MaxEvents = 1
    Pacers = {w1, w2}
    Sources = {s1}
    Hosts = {host}
    Intervals = {2}
    Retries = {1}
    Backoff = 1
    MaxWrites = 1
    None = None
INVARIANTS
    DatabaseOutlivesWork
    FailuresAreReported
    AccountsSound
PROPERTIES
    PacingHolds
    EverythingEnds
CHECK_DEADLOCK FALSE
