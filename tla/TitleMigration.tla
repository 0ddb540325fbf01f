---------------------------- MODULE TitleMigration ----------------------------
(* One title of the library moves to another source                        *)
(* (internal/api/migration.go applyMigration): what the reader has read    *)
(* and bookmarked hangs on chapters the migration deletes, so it is taken  *)
(* up before and carried over after, with calls of the database and of the *)
(* source in between.  Meanwhile others migrate the title too, the reader  *)
(* reads, adds the replacement to the library, or the updater refreshes.   *)
(*                                                                         *)
(* A refresh stores the chapters of a source in one step here; Library     *)
(* models the statements of one.  The files of the retired chapters and    *)
(* the rows of the queue are DownloadQueue's.                              *)
(*                                                                         *)
(* Ghosts: `owed` and `wanted` have the number up to which the title has   *)
(* to be read and the numbers that have to be bookmarked once no migration *)
(* is at work, as far as the chapters of its source go; `opened` says that *)
(* it was open at a chapter when it moved, and that the reader has opened  *)
(* no other since.  `lost` says that they were given up: something was     *)
(* read after it was taken up, two migrations crossed, the source did not  *)
(* answer, the program stopped.                                            *)
(* `mixed` says that a list fetched from a source came after the title had *)
(* left it, `raced` has the replacements that went into the library after  *)
(* the check that they are not there.                                      *)
EXTENDS Naturals, FiniteSetsExt

CONSTANTS Movers,     \* requests that migrate the title
          Published,  \* the numbers of the chapters of each source
          First,      \* the source of the title
          Viewed,     \* the replacements whose chapters are stored since a page showed them
          MaxEvents,  \* bound: what the reader and the updater do with the title
          MaxOutages, \* bound: answers a source does not give, and crashes
          None

ASSUME MigrationAssumption ==
    /\ First \in DOMAIN Published /\ Viewed \subseteq DOMAIN Published \ {First}
    /\ \A s \in DOMAIN Published : Published[s] \subseteq Nat \ {0}
    /\ IsFiniteSet(UNION {Published[s] : s \in DOMAIN Published}) /\ None \notin Movers

VARIABLES primary, chapters, bookmarked, flagged, resume, stubs, library, mover, refreshing,
          owed, wanted, opened, lost, mixed, raced, events, outages

titleVars == <<primary, chapters, bookmarked, flagged, resume>>
ghostVars == <<owed, wanted, opened, lost, mixed, raced>>
migrationVars == <<titleVars, stubs, library, mover, refreshing, ghostVars, events, outages>>

Others == DOMAIN Published \ {First}
ChaptersOf(s) == {[source |-> s, number |-> n] : n \in Published[s]}
Resting == [at |-> "idle", source |-> None, carry |-> FALSE, highest |-> 0, marks |-> {},
            resume |-> None, fetched |-> None, list |-> {}]

AllChapters == UNION {ChaptersOf(s) : s \in DOMAIN Published}
Progress == [chapter : AllChapters, completed : BOOLEAN]
ASSUME ProgressAssumption == None \notin Progress

TypeOK ==
    /\ primary \in DOMAIN Published
    /\ chapters \subseteq AllChapters
    /\ bookmarked \subseteq chapters /\ flagged \subseteq chapters
    /\ library \subseteq Others
    /\ \A m \in Movers : mover[m].at \in {"idle", "capture", "commit", "fetch", "store", "mark", "bookmark", "resume"}

MigrationInit ==
    /\ primary = First /\ chapters = ChaptersOf(First)
    /\ bookmarked = {} /\ flagged = {} /\ resume = None
    /\ stubs = [s \in Others |-> IF s \in Viewed THEN "viewed" ELSE "found"] /\ library = {}
    /\ mover = [m \in Movers |-> Resting] /\ refreshing = None
    /\ owed = 0 /\ wanted = {} /\ opened = FALSE /\ lost = FALSE /\ mixed = FALSE /\ raced = {}
    /\ events = 0 /\ outages = 0

-----------------------------------------------------------------------------
\* The greatest number up to n, 0 if there is none.
UpTo(numbers, n) == Max({0} \cup {k \in numbers : k <= n})
Numbers(set) == {ch.number : ch \in set}

\* HighestReadChapterNumber: the flags, and the chapter the title is open at.
HighestRead == Max({0} \cup Numbers(flagged) \cup (IF resume = None THEN {} ELSE {resume.chapter.number}))

\* A migration has deleted chapters and not carried over what hung on them.
Carrying(m) == mover[m].carry /\ mover[m].at \in {"fetch", "store", "mark", "bookmark", "resume"}

\* The state of reading changes that another migration than m has taken up.
Overtakes(m) == lost' = (lost \/ \E n \in Movers \ {m} : mover[n].carry /\ mover[n].at = "commit")

Goes(m, at) == mover' = [mover EXCEPT ![m].at = at]

\* What is refused before anything is read: a replacement that is gone, of the same
\* source, or in the library.
Check(m, s, carry) ==
    /\ mover[m].at = "idle"
    /\ stubs[s] # "attached" /\ s # primary /\ s \notin library
    /\ mover' = [mover EXCEPT ![m] = [Resting EXCEPT !.at = "capture", !.source = s, !.carry = carry]]
    /\ UNCHANGED <<titleVars, stubs, library, refreshing, ghostVars, events, outages>>

\* Mutant of Capture: the chapter the title is open at does not count as read.
CaptureFlags(m) ==
    /\ mover[m].at = "capture"
    /\ mover' = [mover EXCEPT ![m].at = "commit", ![m].resume = resume,
                              ![m].highest = IF mover[m].carry THEN Max({0} \cup Numbers(flagged)) ELSE 0,
                              ![m].marks = IF mover[m].carry THEN Numbers(bookmarked) ELSE {}]
    /\ UNCHANGED <<titleVars, stubs, library, refreshing, ghostVars, events, outages>>

\* The open chapter, the highest number read, the bookmarks: taken up before the
\* chapters they name are deleted.
Capture(m) ==
    /\ mover[m].at = "capture"
    /\ mover' = [mover EXCEPT ![m].at = "commit", ![m].resume = resume,
                              ![m].highest = IF mover[m].carry THEN HighestRead ELSE 0,
                              ![m].marks = IF mover[m].carry THEN Numbers(bookmarked) ELSE {}]
    /\ UNCHANGED <<titleVars, stubs, library, refreshing, ghostVars, events, outages>>

\* What the title is owed by a migration that commits, unless one before it still owes.
Account(m) ==
    LET s == mover[m].source IN
    IF mover[m].carry
    THEN /\ owed' = UpTo(Published[s], Max({owed, HighestRead}))
         /\ wanted' = (wanted \cup Numbers(bookmarked)) \cap Published[s]
         /\ opened' = (resume # None)
         /\ lost' = (lost \/ \E n \in Movers : Carrying(n))
    ELSE owed' = 0 /\ wanted' = {} /\ opened' = FALSE /\ UNCHANGED lost

\* Mutant of Commit: the chapters of the source it leaves stay.
CommitKeepsChapters(m) ==
    LET s == mover[m].source IN
    /\ mover[m].at = "commit"
    /\ IF stubs[s] = "attached"
       THEN /\ mover' = [mover EXCEPT ![m] = Resting]
            /\ UNCHANGED <<titleVars, stubs, owed, wanted, opened, lost>>
       ELSE /\ primary' = s
            /\ chapters' = chapters \cup (IF stubs[s] = "viewed" THEN ChaptersOf(s) ELSE {})
            /\ stubs' = [stubs EXCEPT ![s] = "attached"]
            /\ Account(m) /\ Goes(m, "fetch")
            /\ UNCHANGED <<bookmarked, flagged, resume>>
    /\ UNCHANGED <<library, refreshing, mixed, raced, events, outages>>

\* MigrateMangaSource, one transaction: the chapters of other sources are deleted, with
\* their flags and the progress at one of them; the replacement gives the title its source
\* and its chapters, and is deleted unless it is in the library.  It fails as a whole if
\* the replacement was attached before.
Commit(m) ==
    LET s == mover[m].source
        kept == {ch \in chapters : ch.source = s}
    IN
    /\ mover[m].at = "commit"
    /\ IF stubs[s] = "attached"
       THEN /\ mover' = [mover EXCEPT ![m] = Resting]
            /\ UNCHANGED <<titleVars, stubs, owed, wanted, opened, lost>>
       ELSE /\ primary' = s
            /\ chapters' = kept \cup (IF stubs[s] = "viewed" THEN ChaptersOf(s) ELSE {})
            /\ bookmarked' = bookmarked \cap kept /\ flagged' = flagged \cap kept
            /\ resume' = IF resume # None /\ resume.chapter \in kept THEN resume ELSE None
            /\ stubs' = [stubs EXCEPT ![s] = "attached"]
            /\ Account(m) /\ Goes(m, "fetch")
    /\ UNCHANGED <<library, refreshing, mixed, raced, events, outages>>

\* A list of chapters of s is stored in the title, whichever its source is by now.
Stored(s) == chapters' = chapters \cup ChaptersOf(s) /\ mixed' = (mixed \/ s # primary)

\* The source is the one the title has now ...
Fetch(m) ==
    /\ mover[m].at = "fetch"
    /\ mover' = [mover EXCEPT ![m].at = "store", ![m].fetched = primary]
    /\ UNCHANGED <<titleVars, stubs, library, refreshing, ghostVars, events, outages>>

\* ... and may not answer: "a failed fetch keeps the migration", and what is carried
\* over meets the chapters there are.
Store(m) ==
    /\ mover[m].at = "store"
    /\ \/ Stored(mover[m].fetched) /\ UNCHANGED <<lost, outages>>
       \/ /\ outages < MaxOutages /\ outages' = outages + 1 /\ lost' = (lost \/ mover[m].carry)
          /\ UNCHANGED <<chapters, mixed>>
    /\ mover' = [mover EXCEPT ![m].at = IF mover[m].carry THEN "mark" ELSE "idle", ![m].fetched = None, ![m].list = chapters']
    /\ UNCHANGED <<primary, bookmarked, flagged, resume, stubs, library, refreshing, owed, wanted, opened, raced, events>>

\* carryReadState: MarkChaptersReadThrough ...
MarkThrough(m) ==
    /\ mover[m].at = "mark"
    /\ flagged' = flagged \cup {ch \in chapters : ch.number <= mover[m].highest}
    /\ Overtakes(m)
    /\ Goes(m, "bookmark")
    /\ UNCHANGED <<primary, chapters, bookmarked, resume, stubs, library, refreshing, owed, wanted, opened, mixed, raced, events, outages>>

\* ... MarkChapterBookmarkedByNumber for each ...
MarkBookmarks(m) ==
    /\ mover[m].at = "bookmark"
    /\ bookmarked' = bookmarked \cup {ch \in chapters : ch.number \in mover[m].marks}
    /\ Overtakes(m)
    /\ Goes(m, "resume")
    /\ UNCHANGED <<primary, chapters, flagged, resume, stubs, library, refreshing, owed, wanted, opened, mixed, raced, events, outages>>

\* The statement that records a progress: completion sticks, and flags the chapter.
Upsert(chapter, completed) ==
    /\ resume' = [chapter |-> chapter, completed |-> completed \/ (resume # None /\ resume.completed)]
    /\ flagged' = IF completed THEN flagged \cup {chapter} ELSE flagged

\* Mutant of CarryResume: the title is left where the migration put it.
CarryNoResume(m) ==
    /\ mover[m].at = "resume"
    /\ Overtakes(m)
    /\ mover' = [mover EXCEPT ![m] = Resting]
    /\ UNCHANGED <<titleVars, stubs, library, refreshing, owed, wanted, opened, mixed, raced, events, outages>>

\* ... and the open chapter becomes the highest of the list at or below the number.
CarryResume(m) ==
    LET list == mover[m].list
        boundary == UpTo(Numbers(list), mover[m].highest)
        last == boundary = Max({0} \cup Numbers(list))
    IN
    /\ mover[m].at = "resume"
    /\ IF mover[m].resume = None \/ boundary = 0
       THEN UNCHANGED <<resume, flagged>>
       ELSE \E ch \in {c \in list : c.number = boundary} :
              IF ch \in chapters THEN Upsert(ch, mover[m].resume.completed /\ last) ELSE UNCHANGED <<resume, flagged>>
    /\ Overtakes(m)
    /\ mover' = [mover EXCEPT ![m] = Resting]
    /\ UNCHANGED <<primary, chapters, bookmarked, stubs, library, refreshing, owed, wanted, opened, mixed, raced, events, outages>>

MoverStep(m) ==
    \/ \E s \in Others, carry \in BOOLEAN : Check(m, s, carry)
    \/ Capture(m) \/ Commit(m) \/ Fetch(m) \/ Store(m)
    \/ MarkThrough(m) \/ MarkBookmarks(m) \/ CarryResume(m)

-----------------------------------------------------------------------------
(* What else touches the title                                             *)

\* A report of a chapter that is gone is refused.
Report(ch, completed) ==
    /\ events < MaxEvents /\ events' = events + 1
    /\ ch \in chapters /\ Upsert(ch, completed) /\ Overtakes(None) /\ opened' = FALSE
    /\ UNCHANGED <<primary, chapters, bookmarked, stubs, library, mover, refreshing, owed, wanted, mixed, raced, outages>>

Bookmark(ch) ==
    /\ events < MaxEvents /\ events' = events + 1
    /\ ch \in chapters /\ bookmarked' = bookmarked \cup {ch} /\ Overtakes(None)
    /\ UNCHANGED <<primary, chapters, flagged, resume, stubs, library, mover, refreshing, owed, wanted, opened, mixed, raced, outages>>

\* RefreshManga: the source the title has, and later its list.
RefreshBegins ==
    /\ events < MaxEvents /\ events' = events + 1
    /\ refreshing = None /\ refreshing' = primary
    /\ UNCHANGED <<titleVars, stubs, library, mover, ghostVars, outages>>
RefreshEnds ==
    /\ refreshing # None /\ refreshing' = None
    /\ Stored(refreshing)
    /\ UNCHANGED <<primary, bookmarked, flagged, resume, stubs, library, mover, owed, wanted, opened, lost, raced, events, outages>>

\* The replacement is added to the library.
AddToLibrary(s) ==
    /\ events < MaxEvents /\ events' = events + 1
    /\ stubs[s] # "attached" /\ s \notin library /\ library' = library \cup {s}
    /\ raced' = IF \E m \in Movers : mover[m].source = s /\ mover[m].at \in {"capture", "commit"}
                THEN raced \cup {s} ELSE raced
    /\ UNCHANGED <<titleVars, stubs, mover, refreshing, owed, wanted, opened, lost, mixed, outages>>

\* The program stops and starts.
Crash ==
    /\ outages < MaxOutages /\ outages' = outages + 1
    /\ lost' = (lost \/ \E m \in Movers : Carrying(m))
    /\ mover' = [m \in Movers |-> Resting] /\ refreshing' = None
    /\ UNCHANGED <<titleVars, stubs, library, owed, wanted, opened, mixed, raced, events>>

MigrationNext ==
    \/ \E m \in Movers : MoverStep(m)
    \/ \E ch \in chapters : Bookmark(ch) \/ \E completed \in BOOLEAN : Report(ch, completed)
    \/ RefreshBegins \/ RefreshEnds \/ Crash
    \/ \E s \in Others : AddToLibrary(s)

MigrationSpec == MigrationInit /\ [][MigrationNext]_migrationVars

-----------------------------------------------------------------------------
(* Properties                                                              *)

\* "The attached source becomes the only primary": the chapters of a title are of the
\* source it has, unless a list fetched before a migration came after it; its progress is
\* at one of them; and an entry of the library loses its source to a migration only when
\* it was added after the check of applyMigration.
TitleStaysWhole ==
    /\ ~mixed => \A ch \in chapters : ch.source = primary
    /\ resume # None => resume.chapter \in chapters
    /\ \A s \in library : stubs[s] = "attached" => s \in raced

\* carryReadState "moves read state onto a replacement's chapters": once no migration is
\* at work, the title is read at least up to the chapter of its source that what was read
\* reaches, the bookmarks that its source has a chapter for are there, and a title that
\* was open when it moved opens at a chapter that reaches as far ("the reading progress
\* pointer follows the highest carried chapter"), unless the reader has opened another
\* since, or all this was given up.
ReadingIsCarried ==
    (\A m \in Movers : ~Carrying(m)) /\ ~lost =>
        /\ HighestRead >= owed
        /\ wanted \subseteq Numbers(bookmarked)
        /\ opened /\ owed # 0 => resume # None /\ resume.chapter.number >= owed

=============================================================================
