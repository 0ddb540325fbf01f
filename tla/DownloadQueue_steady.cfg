\* The commands that take no row from a worker that holds it, with a crash: two workers,
\* three chapters of two sources with different caps, one of which a migration may retire.
SPECIFICATION Spec
CONSTANTS
    c1 = c1
    c2 = c2
    c3 = c3
    s1 = s1
    s2 = s2
    p1 = p1
    p2 = p2
    p3 = p3
    Chapters = {c1, c2, c3}
    Sources = {s1, s2}
    SourceOf <- TwoSources
    Cap <- CapMixed
    MaxActiveSources = 1
    Workers = {w1, w2}
    Paths = {p1, p2, p3}
    PathOf <- OwnPath
    Format = "cbz"
    Replaces = TRUE
    PageCounts = {2}
    DbFaults = FALSE
    Commands = {"enqueue", "retry", "retrySource", "pauseAll", "resumeAll", "pauseSource", "resumeSource",
                "migrate"}
    MaxCommands = 3
    MaxCrashes = 1
    None = None
    Removed = Removed
SYMMETRY Symmetry
INVARIANTS
    TypeOK
    DownloadedIsReadable
    SavedPagesOnDisk
    GatesRespected
CHECK_DEADLOCK FALSE
