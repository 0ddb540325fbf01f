\* Bounds: two releases moved, withdrawn or marked up to three times by two refreshers and
\* one crash; two migrations of a title, two things others do to it, one outage.  The other
\* parts do next to nothing here; MCRecords_reader has them.
SPECIFICATION Spec
SYMMETRY Alike
CONSTANTS
    Releases = {"one", "again"}
    Attributes <- MCAttributes
    Refreshers = {updater, view}
    Updater = updater
    Viewers = {view}
    Backups <- ImportedOne
    Overlap = FALSE
    MaxMoves = 2
    MaxMarks = 1
    MaxFailures = 1
    Movers = {m1, m2}
    Published <- MCPublished
    First = "A"
    Viewed = {"B"}
    MaxEvents = 2
    MaxOutages = 1
    Chapters = {ch1}
    Pages = 1
    RetryLimit = 1
    MaxReport = 1
    MaxReports = 1
    MaxSeconds = 1
    MaxChoices = 0
    Clients = {c1}
    MaxSettingWrites = 0
    MaxSettingFailures = 0
    None = None
INVARIANTS
    NoFork
    ReadFollowsRelease
    TitleStaysWhole
    ReadingIsCarried
CHECK_DEADLOCK FALSE
