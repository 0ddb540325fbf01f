---------------------------- MODULE ReadingProgress ----------------------------
(***************************************************************************)
(* Where a title was left off: the reader page that reports positions and  *)
(* seconds, keeps what could not be delivered and delivers it again        *)
(* (web/src/features/reader/useReaderProgress.ts), and the daemon that     *)
(* records them (internal/api/tracker.go progress, internal/db             *)
(* UpsertReadingProgress).  One title and one reader; requests may fail    *)
(* before or after the daemon has handled them, and pass each other.       *)
(***************************************************************************)
EXTENDS Naturals, FiniteSets, SequencesExt

CONSTANTS Chapters,
          Pages,       \* of a chapter
          RetryLimit,  \* five in the code
          MaxReport,   \* the seconds one report may carry, 300 in the code
          MaxReports,  \* bound: positions reported
          MaxSeconds,  \* bound: seconds read
          MaxFailures, \* bound: requests or answers lost
          MaxChoices,  \* bound: what the user sets elsewhere
          None

\* Where the page may be, and a row of reading_progress.
Positions == [chapter : Chapters, page : Nat]
Rows == [chapter : Chapters, page : Nat, shows : Nat, completed : BOOLEAN]

ReadingAssumption ==
    /\ {Pages, RetryLimit, MaxReport} \subseteq Nat \ {0}
    /\ {MaxReports, MaxSeconds, MaxFailures, MaxChoices} \subseteq Nat
    /\ None \notin Chapters \cup Positions \cup Rows

VARIABLES
    reader,    \* the page: its chapter, page, unreported seconds, last report and whether its saver is set
    trace,     \* whether it knows that a trace is wanted
    seen,      \* the last position it was asked to save
    reports,   \* made so far; the number of the last one
    posts,     \* requests under way
    retry,     \* retryQueue: what could not be delivered
    flush,     \* what a flush has yet to send and the number it waits for
    failures,
    choices,
    incognito, \* the daemon's flag
    progress,  \* the row of reading_progress, or None, and the report it shows
    history,   \* the page of each chapter in history_events, or None
    read,      \* the chapters chapter_read_state calls read
    seconds,   \* the sum of reading_sessions
    handled,   \* the reports the daemon has handled
    lost,      \* the reports given up
    elapsed,   \* seconds read
    given,     \* of these, not to be recorded any more: their report is given up
    capped,    \* of these, more than a report may carry
    repeated   \* seconds recorded once more for want of an answer

readingVars == <<reader, trace, seen, reports, posts, retry, flush, failures, choices, incognito, progress,
                 history, read, seconds, handled, lost, elapsed, given, capped, repeated>>

Closed == [chapter |-> None, page |-> 1, secs |-> 0, last |-> None, armed |-> FALSE]
NoFlush == [at |-> "idle", left |-> <<>>, awaits |-> 0]
Unheard(entries) == {e \in entries : e.number \notin handled}
Total(entries) == FoldSet(LAMBDA e, sum : sum + e.secs, 0, Unheard(entries))
Numbers(entries) == {e.number : e \in entries}

ReadingInit ==
    /\ reader = Closed /\ trace = FALSE /\ seen = None
    /\ reports = 0 /\ posts = {} /\ retry = <<>> /\ flush = NoFlush /\ failures = 0 /\ choices = 0
    /\ incognito \in BOOLEAN /\ progress = None /\ history = [c \in Chapters |-> None]
    /\ read = {} /\ seconds = 0
    /\ handled = {} /\ lost = {} /\ elapsed = 0 /\ given = 0 /\ capped = 0 /\ repeated = 0

KeepDaemon == UNCHANGED <<choices, incognito, progress, history, read, seconds, handled, repeated>>
KeepPage == UNCHANGED <<reader, trace, seen, reports>>

GiveUp(entries) == given' = given + Total(entries) /\ lost' = lost \cup Numbers(entries)

-----------------------------------------------------------------------------
(* The reader page                                                         *)

Here == [chapter |-> reader.chapter, page |-> reader.page]

\* Mutant of Informs: the chapter of the last report is not compared.
InformsOfPage(position) ==
    reader.last = None \/ reader.last.page # position.page \/ reader.secs > 0
Informs(position) == reader.last # position \/ reader.secs > 0

Reported == IF reader.secs > MaxReport THEN MaxReport ELSE reader.secs

\* saveAtPage and postProgress: a position is reported unless it is the last one
\* reported, with the seconds since the last report as far as one may carry them, and
\* nothing leaves a page that does not know that a trace is wanted.  `others` are given
\* up in the same step.
SaveAtPage(position, others) ==
    /\ seen' = position
    /\ IF Informs(position)
       THEN LET entry == [number |-> reports + 1, chapter |-> position.chapter, page |-> position.page,
                          complete |-> position.page >= Pages, secs |-> Reported, done |-> FALSE] IN
            /\ reports < MaxReports /\ reports' = reports + 1
            /\ posts' = IF trace THEN posts \cup {entry} ELSE posts
            /\ GiveUp(others \cup IF trace THEN {} ELSE {entry})
            /\ capped' = capped + (reader.secs - Reported)
       ELSE GiveUp(others) /\ UNCHANGED <<reports, posts, capped>>

\* The page opens where the title was left, once the requests of the last visit are
\* done; its last report is not remembered.
Open(c) ==
    /\ reader.chapter = None /\ posts = {} /\ flush = NoFlush
    /\ reader' = [Closed EXCEPT !.chapter = c, !.armed = TRUE,
                    !.page = IF progress # None /\ progress.chapter = c THEN progress.page ELSE 1]
    /\ trace' = FALSE
    /\ UNCHANGED <<seen, reports, posts, retry, flush, failures, lost, elapsed, given, capped>> /\ KeepDaemon

\* The flag is read once; what cannot be read counts as on.
LearnIncognito ==
    /\ reader.chapter # None /\ ~trace /\ ~incognito /\ trace' = TRUE
    /\ UNCHANGED <<reader, seen, reports, posts, retry, flush, failures, lost, elapsed, given, capped>>
    /\ KeepDaemon

Second ==
    /\ reader.chapter # None /\ elapsed < MaxSeconds
    /\ elapsed' = elapsed + 1 /\ reader' = [reader EXCEPT !.secs = @ + 1]
    /\ UNCHANGED <<trace, seen, reports, posts, retry, flush, failures, lost, given, capped>> /\ KeepDaemon

\* Mutant of Turn: the seconds reported stay on the clock.
TurnKeepingTime(page) ==
    /\ reader.chapter # None /\ page # reader.page
    /\ LET there == [chapter |-> reader.chapter, page |-> page] IN
       /\ SaveAtPage(there, {})
       /\ reader' = [reader EXCEPT !.page = page, !.last = there]
    /\ UNCHANGED <<trace, retry, flush, failures, elapsed>> /\ KeepDaemon

\* A page is turned: the engine samples the position at once.
Turn(page) ==
    /\ reader.chapter # None /\ page # reader.page
    /\ LET there == [chapter |-> reader.chapter, page |-> page] IN
       /\ SaveAtPage(there, {})
       /\ reader' = [reader EXCEPT !.page = page, !.secs = 0, !.last = there]
    /\ UNCHANGED <<trace, retry, flush, failures, elapsed>> /\ KeepDaemon

\* What the saver of the page does when it is run; a flush unsets it.
RunSaver(others) ==
    IF reader.armed THEN SaveAtPage(Here, others)
    ELSE /\ given' = given + Total(others) + reader.secs /\ lost' = lost \cup Numbers(others)
         /\ UNCHANGED <<seen, reports, posts, capped>>

\* Another chapter: the saver of the old one runs, and a new session begins.
Switch(c) ==
    /\ reader.chapter \notin {None, c} /\ RunSaver({})
    /\ reader' = [reader EXCEPT !.chapter = c, !.page = 1, !.secs = 0, !.armed = TRUE,
                                !.last = IF reader.armed THEN Here ELSE @]
    /\ UNCHANGED <<trace, retry, flush, failures, elapsed>> /\ KeepDaemon

\* The page is left: the saver runs, and what waits to be retried goes with the page.
Leave ==
    /\ reader.chapter # None /\ RunSaver(Range(retry))
    /\ reader' = Closed /\ retry' = <<>>
    /\ UNCHANGED <<trace, flush, failures, elapsed>> /\ KeepDaemon

\* The tab is hidden or online again: what waits is sent, one entry after the other,
\* then the saver runs; one flush at a time.
Flush ==
    /\ reader.chapter # None /\ flush = NoFlush
    /\ flush' = [at |-> "send", left |-> retry, awaits |-> 0] /\ retry' = <<>>
    /\ UNCHANGED <<posts, failures, lost, elapsed, given, capped>> /\ KeepPage /\ KeepDaemon
FlushNext ==
    /\ flush.at = "send" /\ flush.left # <<>>
    /\ posts' = posts \cup {Head(flush.left)}
    /\ flush' = [at |-> "wait", left |-> Tail(flush.left), awaits |-> Head(flush.left).number]
    /\ UNCHANGED <<retry, failures, lost, elapsed, given, capped>> /\ KeepPage /\ KeepDaemon
FlushSave ==
    /\ flush.at = "send" /\ flush.left = <<>> /\ flush' = NoFlush
    /\ IF reader.armed
       THEN SaveAtPage(Here, {}) /\ reader' = [reader EXCEPT !.secs = 0, !.last = Here, !.armed = FALSE]
       ELSE UNCHANGED <<reader, seen, reports, posts, lost, given, capped>>
    /\ UNCHANGED <<trace, retry, failures, elapsed>> /\ KeepDaemon

\* A request is over: the flush that waits for it goes on.
Over(p) ==
    /\ posts' = posts \ {p}
    /\ flush' = IF flush.awaits = p.number THEN [flush EXCEPT !.at = "send", !.awaits = 0] ELSE flush

Answer(p) ==
    /\ p.done /\ Over(p)
    /\ UNCHANGED <<retry, failures, lost, elapsed, given, capped>> /\ KeepPage /\ KeepDaemon

\* A request or its answer is lost: the newest entries wait for the next flush, unless
\* the page has been left.
Fail(p) ==
    /\ failures < MaxFailures /\ failures' = failures + 1 /\ Over(p)
    /\ LET queued == Append(retry, [p EXCEPT !.done = FALSE]) IN
       IF reader.chapter = None THEN GiveUp({p}) /\ UNCHANGED retry
       ELSE IF Len(queued) > RetryLimit THEN GiveUp({Head(queued)}) /\ retry' = Tail(queued)
       ELSE retry' = queued /\ UNCHANGED <<given, lost>>
    /\ UNCHANGED <<elapsed, capped>> /\ KeepPage /\ KeepDaemon

-----------------------------------------------------------------------------
(* The daemon                                                              *)

\* UpsertReadingProgress, one transaction: completion is kept, a chapter has one event.
Upsert(p) ==
    /\ progress' = [chapter |-> p.chapter, page |-> p.page, shows |-> p.number,
                    completed |-> p.complete \/ (progress # None /\ progress.completed)]
    /\ history' = [history EXCEPT ![p.chapter] = p.page]
    /\ read' = IF p.complete THEN read \cup {p.chapter} ELSE read
    /\ seconds' = seconds + p.secs

\* progress: nothing is recorded while no trace is wanted.
Handle(p) ==
    /\ ~p.done /\ posts' = (posts \ {p}) \cup {[p EXCEPT !.done = TRUE]}
    /\ handled' = handled \cup {p.number}
    /\ IF incognito
       THEN /\ GiveUp({p}) /\ UNCHANGED <<progress, history, read, seconds, repeated>>
       ELSE /\ Upsert(p) /\ UNCHANGED <<given, lost>>
            /\ repeated' = IF p.number \in handled THEN repeated + p.secs ELSE repeated
    /\ UNCHANGED <<retry, flush, failures, choices, incognito, elapsed, capped>> /\ KeepPage

Chooses == choices < MaxChoices /\ choices' = choices + 1

SetIncognito ==
    /\ Chooses /\ incognito' = ~incognito
    /\ UNCHANGED <<posts, retry, flush, failures, progress, history, read, seconds, handled, lost,
                   elapsed, given, capped, repeated>> /\ KeepPage

SetChapterRead(c, value) ==
    /\ Chooses /\ read' = IF value THEN read \cup {c} ELSE read \ {c}
    /\ UNCHANGED <<posts, retry, flush, failures, incognito, progress, history, seconds, handled, lost,
                   elapsed, given, capped, repeated>> /\ KeepPage

DeleteHistoryEvent(c) ==
    /\ Chooses /\ history[c] # None /\ history' = [history EXCEPT ![c] = None]
    /\ UNCHANGED <<posts, retry, flush, failures, incognito, progress, read, seconds, handled, lost,
                   elapsed, given, capped, repeated>> /\ KeepPage

ReadingNext ==
    \/ LearnIncognito \/ Second \/ Leave \/ Flush \/ FlushNext \/ FlushSave \/ SetIncognito
    \/ \E page \in 1..Pages : Turn(page)
    \/ \E c \in Chapters : Open(c) \/ Switch(c) \/ DeleteHistoryEvent(c)
                           \/ \E value \in BOOLEAN : SetChapterRead(c, value)
    \/ \E p \in posts : Handle(p) \/ Answer(p) \/ Fail(p)

ReadingSpec == ReadingInit /\ [][ReadingNext]_readingVars

-----------------------------------------------------------------------------
(* Properties                                                              *)

Quiet == reader.chapter = None /\ posts = {} /\ flush = NoFlush

\* "So the final position is recorded": after the page is left, and through failures and
\* retries, the title is where its reader was, unless the last report was given up or
\* an older one has been handled after it.
ResumeIsLast ==
    Quiet /\ reports > 0 =>
        \/ reports \in lost
        \/ reports \in handled /\ progress # None /\
              (progress.shows # reports \/ [chapter |-> progress.chapter, page |-> progress.page] = seen)

\* "The value is the delta since the previous write, capped at 300 seconds": no second of
\* reading is lost between the writes nor recorded twice, but for those of a report that
\* is given up, those by which a report exceeds the cap, and those of a request that is
\* made again because its answer was lost.
SecondsKept ==
    elapsed + repeated =
        seconds + given + capped + reader.secs + Total(posts \cup Range(retry) \cup Range(flush.left))

=============================================================================
