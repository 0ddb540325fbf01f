\* Every command against two workers, with a crash and failing writes of the page rows.
SPECIFICATION Spec
CONSTANTS
    c1 = c1
    c2 = c2
    c3 = c3
    s1 = s1
    s2 = s2
    p1 = p1
    p2 = p2
    p3 = p3
    Chapters = {c1, c2}
    Sources = {s1}
    SourceOf <- OneSource
    Cap <- CapTwo
    MaxActiveSources = 1
    Workers = {w1, w2}
    Paths = {p1, p2, p3}
    PathOf <- OwnPath
    Format = "cbz"
    Replaces = FALSE
    PageCounts = {1}
    DbFaults = TRUE
    Commands = {"enqueue", "retry", "retrySource", "pauseAll", "resumeAll", "pauseSource", "resumeSource", "pause", "resume", "cancel", "cancelAll", "reorder", "migrate"}
    MaxCommands = 3
    MaxCrashes = 1
    None = None
    Removed = Removed
SYMMETRY Symmetry
INVARIANTS
    NoAbandonedDownload
    NoOrphanedArchive
PROPERTIES
    UserDecisionsStand
    ImplementsLifecycle
CHECK_DEADLOCK FALSE
