\* Bounds: two backups of one library, imported twice; one export, one restore, one healed
\* locator, chapter read or marked, or row annotated.
\* Bounds: names of three parts, titles of four characters, two candidates, words of two
\* characters, two titles of two sources in a backup, three chapters, every thirtieth of a
\* point of a score; a title is short up to two.
SPECIFICATION Spec
CONSTANTS
    s1 = s1
    s2 = s2
    Sources = {s1, s2}
    Files <- MCFiles
    Keep = 1
    MaxImports = 2
    MaxExports = 1
    MaxRestores = 1
    MaxEvents = 1
    None = None
    Nothing = Nothing
    ShortTitle = 2
    NameLength = 3
    TitleLength = 4
    Sites = {s1, s2}
    Aliases <- MCAliases
INVARIANTS
    LibrarySound
    NumberIsRecognised
    TitlesAreFound
    PlanIsSound
    ValuesAreKept
PROPERTIES
    BackupsHold
CHECK_DEADLOCK FALSE
