\* Bounds: one title, two entries of the site, two chapters it counts as one; two chapters
\* read, two changes of the binding, and faults: failed pushes, lost answers, kills.
SPECIFICATION FairSpec
CONSTANTS
    Workers = {daemon, cli}
    Daemon = daemon
    Calls = {c1}
    Remotes = {r1, r2}
    Numbers <- Halves
    Scores = {s1}
    HistoryLimit = 0
    MaxReads = 2
    MaxChanges = 2
    MaxFaults = 2
    None = None
INVARIANTS
    SyncSound
PROPERTIES
    SyncedNeverDrops
    JobsSettle
CHECK_DEADLOCK FALSE
