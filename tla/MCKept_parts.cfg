\* Bounds: two requests for a page whose source publishes another list, loses or gains an
\* archive or crashes, twice in all; two requests for a cover, one transfer slot, two
\* writers of the title and two writes, imports, restores or crashes; two requests for a
\* source whose index and binary
\* change twice.
SPECIFICATION Spec
CONSTANTS
    Requests = {q1, q2}
    Addresses = {a1, a2}
    MaxPages = 1
    MaxFiles = 1
    MaxChanges = 2
    Blank = Blank
    Viewers = {v1, v2}
    Writers = {e1, e2}
    Slots = 1
    MaxEdits = 2
    Clients = {b1, b2}
    Ids = {s1}
    Versions <- BothVersions
    Digests = {"old", "new"}
    Entries <- ThreeEntries
    RuntimeVersion <- This
    MaxReleases = 2
    None = None
INVARIANTS
    KeptIsGood
PROPERTIES
    RequestsEnd
CHECK_DEADLOCK FALSE
