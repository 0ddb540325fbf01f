\* Bounds: a reader of two chapters with two reports that carry one second of two, one of
\* them lost on the way; two clients of the settings, two writes, one failure.  The other
\* parts do next to nothing here; MCRecords_titles has them.
SPECIFICATION Spec
SYMMETRY Alike
CONSTANTS
    Releases = {"one", "again"}
    Attributes <- MCAttributes
    Refreshers = {updater}
    Updater = updater
    Viewers = {}
    Backups <- ImportedOne
    Overlap = FALSE
    MaxMoves = 0
    MaxMarks = 0
    MaxFailures = 0
    Movers = {m1}
    Published <- MCPublished
    First = "A"
    Viewed = {"B"}
    MaxEvents = 0
    MaxOutages = 0
    Chapters = {ch1, ch2}
    Pages = 2
    RetryLimit = 1
    MaxReport = 1
    MaxReports = 2
    MaxSeconds = 2
    MaxChoices = 1
    Clients = {c1, c2}
    MaxSettingWrites = 2
    MaxSettingFailures = 1
    None = None
INVARIANTS
    ReadingIsRecorded
    SettingsAreServed
CHECK_DEADLOCK FALSE
