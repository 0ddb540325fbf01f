\* A worker that lost its row removes the archive another worker registered.
SPECIFICATION Spec
CONSTANTS
    c1 = c1
    c2 = c2
    c3 = c3
    s1 = s1
    s2 = s2
    p1 = p1
    p2 = p2
    p3 = p3
    Chapters = {c1}
    Sources = {s1}
    SourceOf <- OneSource
    Cap <- CapTwo
    MaxActiveSources = 1
    Workers = {w1, w2}
    Paths = {p1, p2, p3}
    PathOf <- OwnPath
    Format = "cbz"
    Replaces = TRUE
    PageCounts = {1}
    DbFaults = FALSE
    Commands = {"enqueue", "pause", "resume"}
    MaxCommands = 3
    MaxCrashes = 0
    None = None
    Removed = Removed
SYMMETRY Symmetry
INVARIANTS
    DownloadedIsReadable
CHECK_DEADLOCK FALSE
