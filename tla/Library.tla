------------------------------- MODULE Library -------------------------------
(***************************************************************************)
(* The chapters of one title: the refresh that brings them in line with    *)
(* what its source publishes (internal/api/library.go), the statements it  *)
(* is made of (internal/db/repository.go), the updater that reports what   *)
(* is new (internal/updater/updater.go), and the reader who marks chapters *)
(* meanwhile.                                                              *)
(*                                                                         *)
(* A release is what a source publishes under a locator of its own; it     *)
(* keeps its attributes while the source rotates the locator.  A statement *)
(* is a step: the daemon's goroutines share one connection and alternate.  *)
(***************************************************************************)
EXTENDS Naturals, Sequences, FiniteSets, SequencesExt

CONSTANTS Releases,
          Attributes,  \* number, title, group and language of each release; None when absent
          Refreshers,  \* goroutines that refresh the title
          Updater,     \* the one that is a run of the updater
          Viewers,     \* those that are a first view of the title
          Backups,     \* the chapters a backup may have left before the first refresh
          Overlap,     \* whether the source changes what it publishes although a refresh is on its
                      \* way, or was cut short and not made up for
          MaxMoves,    \* bound: releases published, moved to a new locator, withdrawn or brought back
          MaxMarks,    \* bound: marks the reader sets
          MaxFailures, \* bound: crashes
          None

LibraryAssumption ==
    /\ Updater \notin Viewers /\ Viewers \subseteq Refreshers
    /\ \A r \in Releases : /\ DOMAIN Attributes[r] = {"number", "title", "group", "language"}
                          /\ Attributes[r].number \in Nat \cup {None}
                          /\ None # <<Attributes[r].number, Attributes[r].group>>
    /\ None \notin Nat
    /\ None \notin [release : Releases, version : Nat, shape : {"id", "page", "path"}]
    /\ \A b \in Backups : b \in Seq([release : Releases, shape : {"page", "path"}])
    /\ Overlap \in BOOLEAN /\ {MaxMoves, MaxMarks, MaxFailures} \subseteq Nat

VARIABLES
    published, \* the version of its locator each release is published under, 0 before that,
               \* None while it is withdrawn
    rows,      \* chapters with their chapter_sources and chapter_read_state
    log,       \* chapters in update_log
    fetched,   \* details_fetched_at is set
    refresher, \* what each goroutine does next, and its locals
    due,       \* releases the reader has read, while they stay published
    torn,      \* a refresh was cut short among its writes, and none was complete since
    moves, marks, failures

countVars == <<moves, marks, failures>>
vars == <<published, rows, log, fetched, refresher, due, torn, countVars>>

\* What the source names a chapter, its page, and the path a backup records.
Locator(r, v, shape) == [release |-> r, version |-> v, shape |-> shape]
Row(attributes, link) == [attributes |-> attributes, link |-> link, read |-> FALSE]

Resting == [pc |-> "idle", before |-> <<>>, items |-> {}, todo |-> {}, item |-> None, row |-> 0,
            new |-> {}]

\* Backups name no language.
Imported(entry) ==
    Row([Attributes[entry.release] EXCEPT !.language = None], Locator(entry.release, 1, entry.shape))

Init ==
    /\ \E b \in Backups, shown \in SUBSET Releases :
          /\ \A i \in DOMAIN b : b[i].release \in shown
          /\ rows = [i \in DOMAIN b |-> Imported(b[i])]
          /\ published = [r \in Releases |-> IF r \in shown THEN 1 ELSE 0]
    /\ log = {} /\ fetched = FALSE
    /\ refresher = [p \in Refreshers |-> Resting]
    /\ due = {} /\ torn = FALSE
    /\ moves = 0 /\ marks = 0 /\ failures = 0

-----------------------------------------------------------------------------
(* adoptedChapterIDs: stored chapters against what the source publishes    *)

Id(item) == Locator(item.release, item.version, "id")
Page(item) == Locator(item.release, item.version, "page")

\* identifierToken: the last segment of an id or of a path.
Token(locator) == IF locator.shape = "page" THEN None ELSE <<locator.release, locator.version>>

\* A key made of several parts is none when one that has to be there is absent.
Keyed(needed, key) == IF None \in needed THEN None ELSE key

NumberAttributes(a) == Keyed({a.number}, <<a.number, a.group, a.language>>)
NumberGroup(a) == Keyed({a.number, a.group}, <<a.number, a.group>>)
NumberTitle(a) == Keyed({a.number, a.title}, <<a.number, a.title>>)

StoredKey(rung, row) ==
    <<row.link, row.link, Token(row.link), NumberAttributes(row.attributes), NumberGroup(row.attributes),
      NumberTitle(row.attributes), row.attributes.title>>[rung]
ItemKey(rung, item) ==
    LET a == Attributes[item.release]
    IN  <<Id(item), Page(item), Token(Id(item)), NumberAttributes(a), NumberGroup(a),
          NumberTitle(a), a.title>>[rung]

\* A key that fits exactly one chapter on each side.
OneToOnePairs(rung, stored, pending, before) ==
    {p \in stored \X pending :
        LET key == StoredKey(rung, before[p[1]])
        IN  /\ key # None /\ ItemKey(rung, p[2]) = key
            /\ \A i \in stored : StoredKey(rung, before[i]) = key => i = p[1]
            /\ \A t \in pending : ItemKey(rung, t) = key => t = p[2]}

\* Mutant of Adopted: the titles are never compared.
AdoptedByNumber(before, items) ==
    LET climb[rung \in 0 .. 5] ==
            IF rung = 0 THEN [stored |-> DOMAIN before, pending |-> items, pairs |-> {}]
            ELSE LET last == climb[rung - 1]
                     found == OneToOnePairs(rung, last.stored, last.pending, before)
                 IN  [stored  |-> last.stored \ {p[1] : p \in found},
                      pending |-> last.pending \ {p[2] : p \in found},
                      pairs   |-> IF rung = 1 THEN {} ELSE last.pairs \cup found]
    IN  climb[5].pairs

\* The rungs in order, each on what the earlier ones left; the first moves nothing.
Adopted(before, items) ==
    LET climb[rung \in 0 .. 7] ==
            IF rung = 0 THEN [stored |-> DOMAIN before, pending |-> items, pairs |-> {}]
            ELSE LET last == climb[rung - 1]
                     found == OneToOnePairs(rung, last.stored, last.pending, before)
                 IN  [stored  |-> last.stored \ {p[1] : p \in found},
                      pending |-> last.pending \ {p[2] : p \in found},
                      pairs   |-> IF rung = 1 THEN {} ELSE last.pairs \cup found]
    IN  climb[7].pairs

-----------------------------------------------------------------------------
(* RefreshManga and fetchAndStoreDetails                                   *)

At(p, label) == refresher[p].pc = label
Rest(p) == refresher' = [refresher EXCEPT ![p] = Resting]

\* ListChapters reads the locator of every chapter, and fails on a chapter without one.
Listable == \A i \in DOMAIN rows : rows[i].link # None

\* RefreshManga lists the chapters first, a first view after the details.
Begin(p) ==
    /\ At(p, "idle")
    /\ IF p \in Viewers
       THEN ~fetched /\ refresher' = [refresher EXCEPT ![p].pc = "resolve"]
       ELSE Listable /\ refresher' = [refresher EXCEPT ![p].pc = "resolve", ![p].before = rows]
    /\ UNCHANGED <<published, rows, log, fetched, due, torn, countVars>>

\* What the source shows at this moment.
Shown(r) == published[r] \notin {0, None}
Details == {[release |-> r, version |-> published[r]] : r \in {r \in Releases : Shown(r)}}

\* resolveSeries: the source answers with what it publishes now, or not at all.
Resolve(p) ==
    /\ At(p, "resolve")
    /\ \/ Rest(p)
       \/ refresher' = [refresher EXCEPT ![p].pc = IF p \in Viewers THEN "list" ELSE "next",
                                         ![p].items = Details, ![p].todo = Details]
    /\ UNCHANGED <<published, rows, log, fetched, due, torn, countVars>>

List(p) ==
    /\ At(p, "list")
    /\ IF Listable THEN refresher' = [refresher EXCEPT ![p].pc = "next", ![p].before = rows] ELSE Rest(p)
    /\ UNCHANGED <<published, rows, log, fetched, due, torn, countVars>>

\* The row of a chapter: the one linked to its id, else the adopted one.
Known(p, item) ==
    LET linked == {i \in DOMAIN rows : rows[i].link = Id(item)}
    IN  IF linked # {} THEN linked
        ELSE {pair[1] : pair \in {q \in Adopted(refresher[p].before, refresher[p].items) : q[2] = item}}

\* UpsertChapter, the lookup.  The order of the chapters is the source's and left open.
Lookup(p) ==
    /\ At(p, "next")
    /\ \E item \in refresher[p].todo :
          refresher' = [refresher EXCEPT ![p].pc = "write", ![p].item = item,
                                         ![p].todo = @ \ {item},
                                         ![p].row = IF Known(p, item) = {} THEN 0
                                                    ELSE CHOOSE i \in Known(p, item) : TRUE]
    /\ UNCHANGED <<published, rows, log, fetched, due, torn, countVars>>

\* Mutant of Write: the chapter is replaced, and its reading state with it.
WriteReplaces(p) ==
    LET a == Attributes[refresher[p].item.release]
        i == refresher[p].row
    IN  /\ At(p, "write")
        /\ rows' = IF i = 0 THEN Append(rows, Row(a, None)) ELSE [rows EXCEPT ![i] = Row(a, @.link)]
        /\ refresher' = [refresher EXCEPT ![p].pc = "link", ![p].row = IF i = 0 THEN Len(rows) + 1 ELSE i]
        /\ UNCHANGED <<published, log, fetched, due, torn, countVars>>

\* ... the chapter ...
Write(p) ==
    LET a == Attributes[refresher[p].item.release]
    IN  /\ At(p, "write")
        /\ IF refresher[p].row = 0
           THEN /\ rows' = Append(rows, Row(a, None))
                /\ refresher' = [refresher EXCEPT ![p].pc = "link", ![p].row = Len(rows) + 1]
           ELSE /\ rows' = [rows EXCEPT ![refresher[p].row].attributes = a]
                /\ refresher' = [refresher EXCEPT ![p].pc = "link"]
        /\ UNCHANGED <<published, log, fetched, due, torn, countVars>>

\* ... and its link, refused when another chapter has the locator by now.  The
\* refresh fails then, and tells nobody of the chapters it has added.
Link(p) ==
    LET i == refresher[p].row
        id == Id(refresher[p].item)
    IN  /\ At(p, "link")
        /\ IF \E k \in DOMAIN rows \ {i} : rows[k].link = id
           THEN Rest(p) /\ torn' = TRUE /\ UNCHANGED rows
           ELSE /\ rows' = [rows EXCEPT ![i].link = id]
                /\ refresher' = [refresher EXCEPT
                      ![p].pc = "next", ![p].item = None, ![p].row = 0,
                      ![p].new = IF i \in DOMAIN refresher[p].before THEN @ ELSE @ \cup {i}]
                /\ UNCHANGED torn
        /\ UNCHANGED <<published, log, fetched, due, countVars>>

\* Every chapter is stored.
Stored(p) ==
    /\ At(p, "next") /\ refresher[p].todo = {}
    /\ IF p \in Viewers THEN Rest(p)
       ELSE refresher' = [refresher EXCEPT ![p].pc = "record"]
    /\ fetched' = TRUE /\ torn' = FALSE
    /\ UNCHANGED <<published, rows, log, due, countVars>>

\* RecordUpdate for each new chapter, one after the other; then, for the updater
\* and for a page alike, the new chapters are handed to the download queue.
Record(p) ==
    /\ At(p, "record")
    /\ IF p # Updater \/ refresher[p].new \subseteq log
       THEN Rest(p) /\ UNCHANGED log
       ELSE UNCHANGED refresher /\ \E i \in refresher[p].new \ log : log' = log \cup {i}
    /\ UNCHANGED <<published, rows, fetched, due, torn, countVars>>

Step(p) == \/ Resolve(p) \/ List(p) \/ Lookup(p) \/ Write(p) \/ Link(p) \/ Stored(p) \/ Record(p)

\* The daemon dies and starts again.
Crash ==
    /\ failures < MaxFailures /\ failures' = failures + 1
    /\ refresher' = [p \in Refreshers |-> Resting]
    /\ torn' = (torn \/ \E p \in Refreshers : refresher[p].pc \in {"next", "write", "link"})
    /\ UNCHANGED <<published, rows, log, fetched, due, moves, marks>>

-----------------------------------------------------------------------------
(* The source, and the reader                                              *)

\* No refresh holds a list of chapters or an answer that the move makes stale, or
\* has stored a part of one.
Settled == Overlap \/ (~torn /\ \A p \in Refreshers : At(p, "idle"))

\* A release appears, moves to another locator, or comes back under one of old or a new one.
Publish(r) ==
    /\ moves < MaxMoves /\ moves' = moves + 1
    /\ Settled
    /\ \E version \in IF published[r] = None THEN 1 .. moves + 1 ELSE {published[r] + 1} :
          published' = [published EXCEPT ![r] = version]
    /\ UNCHANGED <<rows, log, fetched, refresher, due, torn, marks, failures>>

Withdraw(r) ==
    /\ moves < MaxMoves /\ moves' = moves + 1
    /\ Shown(r) /\ Settled
    /\ published' = [published EXCEPT ![r] = None]
    /\ due' = due \ {r}
    /\ UNCHANGED <<rows, log, fetched, refresher, torn, marks, failures>>

\* SetChapterRead, on a chapter the reader sees: the list has to be readable.
Mark(i, value) ==
    /\ Listable /\ marks < MaxMarks /\ marks' = marks + 1
    /\ rows' = [rows EXCEPT ![i].read = value]
    /\ LET r == rows[i].link.release
       IN  due' = IF value /\ Shown(r) THEN due \cup {r} ELSE due \ {r}
    /\ UNCHANGED <<published, log, fetched, refresher, torn, moves, failures>>

\* AcknowledgeUpdates marks what it acknowledges read.
Acknowledge(i) ==
    /\ Listable /\ marks < MaxMarks /\ marks' = marks + 1
    /\ rows' = [rows EXCEPT ![i].read = TRUE]
    /\ LET r == rows[i].link.release
       IN  due' = IF Shown(r) THEN due \cup {r} ELSE due
    /\ UNCHANGED <<published, log, fetched, refresher, torn, moves, failures>>

Next ==
    \/ \E p \in Refreshers : Begin(p) \/ Step(p)
    \/ Crash
    \/ \E r \in Releases : Publish(r) \/ Withdraw(r)
    \/ \E i \in DOMAIN rows, value \in BOOLEAN : Mark(i, value)
    \/ \E i \in log : Acknowledge(i)

Spec == Init /\ [][Next]_vars

-----------------------------------------------------------------------------
(* Properties                                                              *)

RefresherOK(p) ==
    /\ refresher[p].pc \in {"idle", "resolve", "list", "next", "write", "link", "record"}
    /\ refresher[p].row \in 0 .. Len(rows) /\ refresher[p].new \subseteq DOMAIN rows
    /\ refresher[p].todo \subseteq refresher[p].items
    /\ At(p, "link") => refresher[p].row # 0

TypeOK ==
    /\ published \in [Releases -> (0 .. MaxMoves + 1) \cup {None}]
    /\ \A i \in DOMAIN rows : rows[i].read \in BOOLEAN /\ rows[i].attributes.number \in Nat \cup {None}
    /\ log \subseteq DOMAIN rows /\ fetched \in BOOLEAN
    /\ \A p \in Refreshers : RefresherOK(p)
    /\ due \subseteq Releases

\* What the reader has read stays read through every locator its source gives it.
ReadFollowsRelease ==
    \A r \in due : \E i \in DOMAIN rows : rows[i].read /\ rows[i].link # None /\ rows[i].link.release = r

\* A source that re-issues a chapter "must update the existing local chapter instead
\* of forking a duplicate": one chapter for a release, though it moves, is withdrawn and comes back.
NoFork ==
    \A i, k \in DOMAIN rows :
        rows[i].link # None /\ rows[k].link # None /\ rows[i].link.release = rows[k].link.release => i = k

=============================================================================
