\* Liveness under every kind of interruption, with a crash.
SPECIFICATION FairSpec
CONSTANTS
    c1 = c1
    c2 = c2
    c3 = c3
    s1 = s1
    s2 = s2
    p1 = p1
    p2 = p2
    p3 = p3
    Chapters = {c1, c2}
    Sources = {s1}
    SourceOf <- OneSource
    Cap <- CapOne
    MaxActiveSources = 1
    Workers = {w1, w2}
    Paths = {p1, p2, p3}
    PathOf <- OwnPath
    Format = "cbz"
    Replaces = TRUE
    PageCounts = {1}
    DbFaults = FALSE
    Commands = {"enqueue", "pause", "resume", "pauseSource", "resumeSource", "cancel"}
    MaxCommands = 3
    MaxCrashes = 1
    None = None
    Removed = Removed
PROPERTIES
    DownloadsSettle
    PendingIsServed
CHECK_DEADLOCK FALSE
