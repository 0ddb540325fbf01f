------------------------------- MODULE MCRecords -------------------------------
(* Four parts of the database that no action changes together, side by     *)
(* side: the chapters of a title as its refreshes leave them, the move of  *)
(* a title to another source, what a reader reports, and the settings.  A  *)
(* behaviour is one of the part Init chooses, the others rest.             *)
EXTENDS TitleMigration, Sequences, TLC

CONSTANTS Releases, Attributes, Refreshers, Updater, Viewers, Backups, Overlap, MaxMoves, MaxMarks,
          MaxFailures, Chapters, Pages, RetryLimit, MaxReport, MaxReports, MaxSeconds, MaxChoices,
          Clients, MaxSettingWrites, MaxSettingFailures

VARIABLES part,
    published, rows, log, fetched, refresher, due, torn, moves, marks, failures,
    reader, trace, seen, reports, posts, retry, flush, incognito, progress, history, read, seconds,
    handled, lostReports, elapsed, given, capped, repeated, lostPosts, choices,
    table, cache, copies, request, contested, deaf, settingWrites, settingFailures

L == INSTANCE Library
R == INSTANCE ReadingProgress WITH lost <- lostReports, failures <- lostPosts
S == INSTANCE SettingsCache

ASSUME RecordsAssumption == L!LibraryAssumption /\ R!ReadingAssumption

chapterVars == <<published, rows, log, fetched, refresher, due, torn, moves, marks, failures>>
readingVars == <<reader, trace, seen, reports, posts, retry, flush, lostPosts, choices, incognito,
                 progress, history, read, seconds, handled, lostReports, elapsed, given, capped, repeated>>
settingsVars == <<table, cache, copies, request, contested, deaf, settingWrites, settingFailures>>
vars == <<part, chapterVars, migrationVars, readingVars, settingsVars>>

Init ==
    /\ part \in {"chapters", "migration", "reading", "settings"}
    /\ L!Init /\ MigrationInit /\ R!ReadingInit /\ S!SettingsInit
    /\ part # "chapters" => rows[1].link.shape = "path" /\ \A r \in Releases : published[r] = 1
    /\ part # "reading" => ~incognito
    /\ part # "settings" => table["navigation"] = S!Standard

ChaptersStep(A) == part = "chapters" /\ A /\ UNCHANGED <<part, migrationVars, readingVars, settingsVars>>
MigrationStep(A) == part = "migration" /\ A /\ UNCHANGED <<part, chapterVars, readingVars, settingsVars>>
ReadingStep(A) == part = "reading" /\ A /\ UNCHANGED <<part, chapterVars, migrationVars, settingsVars>>
SettingsStep(A) == part = "settings" /\ A /\ UNCHANGED <<part, chapterVars, migrationVars, readingVars>>

Next ==
    \/ ChaptersStep(L!Next) \/ MigrationStep(MigrationNext)
    \/ ReadingStep(R!ReadingNext) \/ SettingsStep(S!SettingsNext)
Spec == Init /\ [][Next]_vars

-----------------------------------------------------------------------------
(* The properties of the parts, each where its part runs; their comments   *)
(* are in the modules.                                                     *)

\* One chapter for a release, though it moves, is withdrawn and comes back (Library); the tables have their types.
NoFork == TypeOK /\ (part = "chapters" => L!TypeOK /\ L!NoFork)
\* What was read stays read through every locator (Library).
ReadFollowsRelease == part = "chapters" => L!ReadFollowsRelease
\* TitleStaysWhole and ReadingIsCarried are those of TitleMigration.
\* The title is where its reader was, and a second of reading is recorded once or accounted
\* for (ReadingProgress).
ReadingIsRecorded == part = "reading" => R!ResumeIsLast /\ R!SecondsKept
\* A setting is served, and worked with, as it is stored (SettingsCache).
SettingsAreServed == part = "settings" => S!TypeOK /\ S!SettingsAreServed

-----------------------------------------------------------------------------
(* The instance                                                            *)

\* A group releases chapter 1, and again under another title.
MCAttributes ==
    [r \in Releases |->
        CASE r = "one"   -> [number |-> 1, title |-> "dawn", group |-> "north", language |-> "en"]
          [] r = "again" -> [number |-> 1, title |-> "dusk", group |-> "north", language |-> "en"]]

ImportedOne == {<<[release |-> "one", shape |-> "path"]>>, <<[release |-> "one", shape |-> "page"]>>}

\* The migrations and the clients of the settings can be exchanged.
Alike == Permutations(Movers) \cup Permutations(Clients)

\* The replacements have a chapter more, and one less, than the first source.
MCPublished == [A |-> {1, 2}, B |-> {1, 3}, C |-> {2}]
=============================================================================
