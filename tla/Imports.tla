------------------------------- MODULE Imports -------------------------------
(***************************************************************************)
(* What enters and leaves the library as a whole: the import of a foreign  *)
(* backup (internal/tachibackup), the portable document the daemon writes  *)
(* and restores, and the snapshots it keeps (internal/backup).             *)
(*                                                                         *)
(* An import and a restore are transactions, a document is read table by   *)
(* table while the daemon goes on writing.  A locator is the name of a     *)
(* series or chapter and the version of it the source answers to; a        *)
(* foreign backup holds the version of its time.                           *)
(***************************************************************************)
EXTENDS Naturals, Sequences, FiniteSets, SequencesExt

CONSTANTS Sources,    \* sources that may be installed; a backup names the same ones
          Files,      \* foreign backups
          Keep,       \* snapshots the schedule keeps
          MaxImports, MaxExports, MaxRestores, \* bounds,
          MaxEvents,  \* and of locators healed, chapters read or marked, rows annotated, installs and crashes together
          None

ImportsAssumption ==
    /\ \A f \in Files : f \in Seq(ToSet(f))
    /\ \A f \in Files : \A i \in DOMAIN f :
          /\ f[i].source \in Sources /\ {f[i].favorite, f[i].own} \subseteq BOOLEAN
          /\ f[i].chapters \in Seq(ToSet(f[i].chapters)) /\ IsFiniteSet(f[i].merges)
          /\ \A m \in f[i].merges : m.source \in Sources \ {f[i].source}
    /\ Keep \in Nat \ {0}
    /\ {MaxImports, MaxExports, MaxRestores, MaxEvents} \subseteq Nat

VARIABLES
    db,        \* the tables
    installed, \* installed sources
    plan,      \* the import a handler has planned: the file and where its sources go
    writer,    \* the snapshot under way: the tables still to read and the document so far
    shelf,     \* the snapshots on disk, oldest first
    moved,     \* the library was restored on another machine
    counts     \* how often each bounded thing has happened

vars == <<db, installed, plan, writer, shelf, moved, counts>>

Kinds == {"import", "export", "restore", "event"}
Limit == [import |-> MaxImports, export |-> MaxExports, restore |-> MaxRestores, event |-> MaxEvents]
Count(kind) == counts[kind] < Limit[kind] /\ counts' = [counts EXCEPT ![kind] = @ + 1]

Tables == <<"titles", "links", "chapters", "chapterLinks", "resume", "read", "history">>
\* Beside them is what a restore does not write, though the rows of the document have some
\* of it: what the user made of a title (custom_*, notes, memo, reader_*) or chapter
\* (bookmark, source_order, memo), and the tables beside the titles (manga_merges).
Empty == [titles |-> <<>>, links |-> {}, chapters |-> <<>>, chapterLinks |-> {},
          resume |-> <<>>, read |-> <<>>, history |-> <<>>, beside |-> {}]
Noting(d, facts) == [d EXCEPT !.beside = @ \cup facts]
Own(title) == [of |-> "own", row |-> title, link |-> None]
Bookmark(chapter) == [of |-> "bookmark", row |-> chapter, link |-> None]
Merge(title, source, locator) == [of |-> "merge", row |-> title, link |-> <<source, locator>>]

\* The chapters read: a row can also say of one that it is not.
Reads(d) == {c \in DOMAIN d.read : d.read[c]}

\* Rows over those of the same key.
Replacing(rows, old) ==
    [k \in DOMAIN rows \cup DOMAIN old |-> IF k \in DOMAIN rows THEN rows[k] ELSE old[k]]
Marked(c, read, old) == Replacing([k \in {c} |-> read], old)

\* A local source, or the row that stands for one that is not installed.
Placeholder(s) == <<"imported", s>>
\* The moment of a read or an import on this machine, after everything a backup records.
Today == 9

Idle == [todo |-> <<>>, doc |-> Empty, torn |-> FALSE]

Init ==
    /\ db = Empty /\ installed \in SUBSET Sources
    /\ plan = None /\ writer = None /\ moved = FALSE
    /\ shelf = <<[doc |-> Empty, torn |-> FALSE, number |-> 0]>> \* of the empty library
    /\ counts = [k \in Kinds |-> 0]

\* Every write of the daemon while a document is being read tears it.
Tear == writer' = IF writer = None THEN None ELSE [writer EXCEPT !.torn = TRUE]

-----------------------------------------------------------------------------
(* tachibackup.Import                                                      *)

\* Mutant of Answering: only the locator in use is compared.
AnsweringNow(links, source, locator) == {l \in links : l.source = source /\ locator = l.locator}

\* The row that answers to a locator, by the one in use or the one once imported.
Answering(links, source, locator) == {l \in links : l.source = source /\ locator \in {l.locator, l.imported}}

\* The imported form is kept beside the one in use, and never replaced.
Recorded(links, row, locator) ==
    {IF l = row /\ l.imported = None THEN [l EXCEPT !.imported = locator] ELSE l : l \in links}

Chapter(d, source, chapter) == (CHOOSE l \in Answering(d.chapterLinks, source, chapter.locator) : TRUE).chapter

\* Mutant of ImportChapter: the file decides whether a chapter is read.
ImportChapterState(d, title, source, chapter) ==
    LET found == Answering(d.chapterLinks, source, chapter.locator)
        id == Len(d.chapters) + 1
        kept == IF found = {}
                THEN [d EXCEPT !.chapters = Append(@, [title |-> title, source |-> source]),
                               !.chapterLinks = @ \cup {[chapter |-> id, source |-> source,
                                                         locator |-> chapter.locator,
                                                         imported |-> chapter.locator]}]
                ELSE d
        this == Chapter(kept, source, chapter)
    IN  Noting([kept EXCEPT !.read = Marked(this, chapter.read, @)], IF chapter.bookmark THEN {Bookmark(this)} ELSE {})

\* importChapters, for one chapter: it is created or merged, and may become read; a
\* bookmark is sticky.
ImportChapter(d, title, source, chapter) ==
    LET found == Answering(d.chapterLinks, source, chapter.locator)
        id == Len(d.chapters) + 1
        kept == IF found = {}
                THEN [d EXCEPT !.chapters = Append(@, [title |-> title, source |-> source]),
                               !.chapterLinks = @ \cup {[chapter |-> id, source |-> source,
                                                         locator |-> chapter.locator,
                                                         imported |-> chapter.locator]}]
                ELSE [d EXCEPT !.chapterLinks = Recorded(@, CHOOSE l \in found : TRUE, chapter.locator)]
        this == Chapter(kept, source, chapter)
        noted == Noting(kept, IF chapter.bookmark THEN {Bookmark(this)} ELSE {})
    IN  IF chapter.read THEN [noted EXCEPT !.read = Marked(this, TRUE, @)] ELSE noted

Later(a, b) == a.at > b.at \/ (a.at = b.at /\ a.page >= b.page)

\* Mutant of ImportHistory: an event is not looked up before it is added.
ImportHistoryAgain(d, title, source, chapters, now) ==
    LET met == {c \in ToSet(chapters) : c.at > 0}
        started == IF met # {} THEN met ELSE {c \in ToSet(chapters) : c.page > 0}
        last == CHOOSE c \in started : \A o \in started : Later(c, o)
        stamp == IF met = {} THEN now ELSE last.at
        events == {[chapter |-> Chapter(d, source, c), at |-> c.at] : c \in met}
        logged == [d EXCEPT !.history = @ \o SetToSeq(events)]
    IN  IF started = {} THEN logged
        ELSE [logged EXCEPT !.resume =
                [t \in DOMAIN @ \cup {title} |->
                    IF t # title THEN @[t]
                    ELSE [chapter |-> Chapter(d, source, last), page |-> last.page + 1,
                          at |-> IF title \in DOMAIN @ /\ @[title].at > stamp THEN @[title].at ELSE stamp]]]

\* importHistory: the events the library does not hold, and the point to resume at:
\* the chapter read last, else the one with the highest page.
ImportHistory(d, title, source, chapters, now) ==
    LET met == {c \in ToSet(chapters) : c.at > 0}
        started == IF met # {} THEN met ELSE {c \in ToSet(chapters) : c.page > 0}
        last == CHOOSE c \in started : \A o \in started : Later(c, o)
        stamp == IF met = {} THEN now ELSE last.at
        events == {[chapter |-> Chapter(d, source, c), at |-> c.at] : c \in met}
        logged == [d EXCEPT !.history = @ \o SetToSeq(events \ ToSet(d.history))]
    IN  IF started = {} THEN logged
        ELSE [logged EXCEPT !.resume =
                [t \in DOMAIN @ \cup {title} |->
                    IF t # title THEN @[t]
                    ELSE [chapter |-> Chapter(d, source, last), page |-> last.page + 1,
                          at |-> IF title \in DOMAIN @ /\ @[title].at > stamp THEN @[title].at ELSE stamp]]]

\* importMerges: a further source of the title, unless another title has it under that
\* locator; the one once imported is not compared.
Target(p, source) == p.targets[source]
ImportMerge(d, p, title, merge) ==
    LET source == Target(p, merge.source)
        held == {l \in d.links : l.source = source /\ l.locator = merge.locator}
        linked == IF held # {} THEN Recorded(d.links, CHOOSE l \in held : TRUE, merge.locator)
                  ELSE d.links \cup {[title |-> title, source |-> source, locator |-> merge.locator,
                                       imported |-> merge.locator, primary |-> FALSE]}
    IN  IF source = None THEN d
        ELSE Noting([d EXCEPT !.links = linked], {Merge(title, source, merge.locator)})

\* importManga: the title is created or merged; then its chapters, history and merges.
ImportTitle(d, p, record) ==
    LET source == Target(p, record.source)
        found == Answering(d.links, source, record.locator)
        title == IF found = {} THEN Len(d.titles) + 1 ELSE (CHOOSE l \in found : TRUE).title
        titled ==
            IF found = {}
            THEN [d EXCEPT !.titles = Append(@, [source |-> source, inLibrary |-> record.favorite]),
                           !.links = @ \cup {[title |-> title, source |-> source, locator |-> record.locator,
                                              imported |-> record.locator, primary |-> TRUE]}]
            ELSE [d EXCEPT !.titles[title].inLibrary = @ \/ record.favorite,
                           !.links = Recorded(@, CHOOSE l \in found : TRUE, record.locator)]
        noted == Noting(titled, IF record.own THEN {Own(title)} ELSE {})
        chaptered == FoldLeft(LAMBDA e, c : ImportChapter(e, title, source, c), noted, record.chapters)
        logged == ImportHistory(chaptered, title, source, record.chapters, p.now)
    IN  IF source = None THEN d
        ELSE FoldLeft(LAMBDA e, m : ImportMerge(e, p, title, m), logged, SetToSeq(record.merges))

\* ImportWithProgress: title after title, in one transaction.
Imported(d, p) == FoldLeft(LAMBDA e, r : ImportTitle(e, p, r), d, p.file)

\* The keys of the link tables: a title has one row for a source, a locator one owner.
Unique(d) ==
    /\ \A l, k \in d.links :
          (l.source = k.source /\ (l.title = k.title \/ l.locator = k.locator)) => l = k
    /\ \A l, k \in d.chapterLinks :
          (l.source = k.source /\ (l.chapter = k.chapter \/ l.locator = k.locator)) => l = k

\* Mutant of Referenced: a connection without PRAGMA foreign_keys.
ReferencedLater(d) == TRUE

\* The foreign keys.
Referenced(d) ==
    LET titles == DOMAIN d.titles
        chapters == DOMAIN d.chapters
    IN  /\ \A l \in d.links : l.title \in titles
        /\ \A c \in chapters : d.chapters[c].title \in titles
        /\ \A l \in d.chapterLinks : l.chapter \in chapters
        /\ \A t \in DOMAIN d.resume : t \in titles /\ d.resume[t].chapter \in chapters
        /\ DOMAIN d.read \subseteq chapters
        /\ \A e \in ToSet(d.history) : e.chapter \in chapters
        /\ \A b \in d.beside : b.row \in IF b.of = "bookmark" THEN chapters ELSE titles

\* Mutant of Committed: the link tables have no unique key.
CommittedTwice(before, after) == IF Referenced(after) THEN after ELSE before

\* A transaction commits, or leaves the tables as they were.
Committed(before, after) == IF Unique(after) /\ Referenced(after) THEN after ELSE before

\* Build: an installed source takes its titles; the others are deferred or skipped.
Targets(skip) ==
    [s \in Sources |-> IF s \in installed THEN s ELSE IF skip THEN None ELSE Placeholder(s)]

Plan(f, skip) ==
    /\ plan = None /\ Count("import")
    /\ plan' = [file |-> f, targets |-> Targets(skip), now |-> Today]
    /\ UNCHANGED <<db, installed, writer, shelf, moved>>

Import ==
    /\ plan # None
    /\ db' = Committed(db, Imported(db, plan)) /\ plan' = None
    /\ Tear
    /\ UNCHANGED <<installed, shelf, moved, counts>>

-----------------------------------------------------------------------------
(* Export, WriteSnapshot and Restore                                       *)

BeginExport ==
    /\ writer = None /\ Count("export")
    /\ writer' = [Idle EXCEPT !.todo = Tables \o <<"rename", "prune">>]
    /\ UNCHANGED <<db, installed, plan, shelf, moved>>

\* Each table is read by a statement of its own.
ReadTable ==
    /\ writer # None /\ Head(writer.todo) \notin {"rename", "prune"}
    /\ writer' = [writer EXCEPT !.todo = Tail(@), !.doc[Head(writer.todo)] = db[Head(writer.todo)]]
    /\ UNCHANGED <<db, installed, plan, shelf, moved, counts>>

\* The file is written aside and takes its name at once.
Rename ==
    /\ writer # None /\ Head(writer.todo) = "rename"
    /\ shelf' = Append(shelf, [doc |-> writer.doc, torn |-> writer.torn, number |-> counts.export])
    /\ writer' = [writer EXCEPT !.todo = Tail(@)]
    /\ UNCHANGED <<db, installed, plan, moved, counts>>

\* Mutant of Prune: the order of the names is reversed.
PruneNewest ==
    /\ writer # None /\ Head(writer.todo) = "prune"
    /\ IF Len(shelf) > Keep
       THEN shelf' = SubSeq(shelf, 1, Len(shelf) - 1) /\ UNCHANGED writer
       ELSE writer' = None /\ UNCHANGED shelf
    /\ UNCHANGED <<db, installed, plan, moved, counts>>

\* The oldest snapshots go, one file at a time.
Prune ==
    /\ writer # None /\ Head(writer.todo) = "prune"
    /\ IF Len(shelf) > Keep
       THEN shelf' = Tail(shelf) /\ UNCHANGED writer
       ELSE writer' = None /\ UNCHANGED shelf
    /\ UNCHANGED <<db, installed, plan, moved, counts>>

Over(rows, old) == rows \o SubSeq(old, Len(rows) + 1, Len(old))

\* Mutant of Overwritten: the restore forgets a table.
OverwrittenUnread(d, doc) ==
    LET same(l, k) == l.source = k.source /\ l.locator = k.locator
        linked(l) == [l EXCEPT !.imported = IF \E k \in d.links : same(l, k)
                                            THEN (CHOOSE k \in d.links : same(l, k)).imported ELSE None]
        held(l) == {k \in d.chapterLinks : k.chapter = l.chapter /\ k.source = l.source}
        relinked(l) == [l EXCEPT !.imported = IF held(l) = {} THEN None ELSE (CHOOSE k \in held(l) : TRUE).imported]
    IN  [titles       |-> Over(doc.titles, d.titles),
         links        |-> {linked(l) : l \in doc.links}
                             \cup {k \in d.links : \A l \in doc.links : ~same(l, k)},
         chapters     |-> Over(doc.chapters, d.chapters),
         chapterLinks |-> {relinked(l) : l \in doc.chapterLinks}
                             \cup {k \in d.chapterLinks : \A l \in doc.chapterLinks : k \notin held(l)},
         resume       |-> Replacing(doc.resume, d.resume),
         read         |-> d.read,
         history      |-> Over(doc.history, d.history),
         beside       |-> d.beside]

\* A document over the tables: its rows replace those of their key, and a link
\* comes without the imported locator, which the document holds and Import drops.  What
\* is beside the rows stays as it is here, and is empty for a new row.
Overwritten(d, doc) ==
    LET same(l, k) == l.source = k.source /\ l.locator = k.locator
        linked(l) == [l EXCEPT !.imported = IF \E k \in d.links : same(l, k)
                                            THEN (CHOOSE k \in d.links : same(l, k)).imported ELSE None]
        held(l) == {k \in d.chapterLinks : k.chapter = l.chapter /\ k.source = l.source}
        relinked(l) == [l EXCEPT !.imported = IF held(l) = {} THEN None ELSE (CHOOSE k \in held(l) : TRUE).imported]
    IN  [titles       |-> Over(doc.titles, d.titles),
         links        |-> {linked(l) : l \in doc.links}
                             \cup {k \in d.links : \A l \in doc.links : ~same(l, k)},
         chapters     |-> Over(doc.chapters, d.chapters),
         chapterLinks |-> {relinked(l) : l \in doc.chapterLinks}
                             \cup {k \in d.chapterLinks : \A l \in doc.chapterLinks : k \notin held(l)},
         resume       |-> Replacing(doc.resume, d.resume),
         read         |-> Replacing(doc.read, d.read),
         history      |-> Over(doc.history, d.history),
         beside       |-> d.beside]

Restored(d, doc) == Committed(d, Overwritten(d, doc))

\* Into the library the document was taken from.
Restore(i) ==
    /\ Count("restore")
    /\ db' = Restored(db, shelf[i].doc)
    /\ Tear
    /\ UNCHANGED <<installed, plan, shelf, moved>>

\* Into an empty library on another machine, which is the one in use from then on; the
\* document is all that comes along.
Move(i) ==
    /\ ~moved /\ Count("restore")
    /\ db' = Restored(Empty, shelf[i].doc) /\ moved' = TRUE /\ shelf' = <<shelf[i]>>
    /\ writer' = None /\ plan' = None
    /\ UNCHANGED installed

-----------------------------------------------------------------------------
(* What happens meanwhile                                                  *)

Install(s) ==
    /\ Count("event")
    /\ installed' = (installed \ {s}) \cup ({s} \ installed)
    /\ UNCHANGED <<db, plan, writer, shelf, moved>>

\* A source answers to a new locator only; a refresh records it.
Newer(locator) == <<locator[1], locator[2] + 1>>
Heal(l) ==
    /\ l.primary /\ l.source \in installed /\ Count("event")
    /\ db' = Committed(db, [db EXCEPT !.links = (@ \ {l}) \cup {[l EXCEPT !.locator = Newer(@)]}])
    /\ Tear
    /\ UNCHANGED <<installed, plan, shelf, moved>>
HealChapter(l) ==
    /\ l.source \in installed /\ Count("event")
    /\ db' = Committed(db, [db EXCEPT !.chapterLinks = (@ \ {l}) \cup {[l EXCEPT !.locator = Newer(@)]}])
    /\ Tear
    /\ UNCHANGED <<installed, plan, shelf, moved>>

\* UpsertReadingProgress of a finished chapter: its event is renewed, or there is a first one.
Noted(events, c) ==
    IF \E e \in ToSet(events) : e.chapter = c
    THEN [i \in DOMAIN events |-> IF events[i].chapter = c THEN [events[i] EXCEPT !.at = Today] ELSE events[i]]
    ELSE Append(events, [chapter |-> c, at |-> Today])
Read(c) ==
    /\ Count("event")
    /\ db' = [db EXCEPT !.read = Marked(c, TRUE, @),
                        !.resume = Replacing([t \in {db.chapters[c].title} |-> [chapter |-> c, page |-> 1, at |-> Today]], @),
                        !.history = Noted(@, c)]
    /\ Tear
    /\ UNCHANGED <<installed, plan, shelf, moved>>

\* SetChapterRead: the reader says of a chapter that it is read, or that it is not.
Mark(c, read) ==
    /\ Count("event")
    /\ db' = [db EXCEPT !.read = Marked(c, read, @)]
    /\ Tear
    /\ UNCHANGED <<installed, plan, shelf, moved>>

\* A bookmark is set or taken away, or a title is given overrides of its own.
Annotate(fact) ==
    /\ Count("event")
    /\ db' = [db EXCEPT !.beside = (@ \ {fact}) \cup ({fact} \ @)]
    /\ Tear
    /\ UNCHANGED <<installed, plan, shelf, moved>>

Crash ==
    /\ Count("event") /\ plan' = None /\ writer' = None
    /\ UNCHANGED <<db, installed, shelf, moved>>

Next ==
    \/ \E f \in Files, skip \in BOOLEAN : Plan(f, skip)
    \/ Import
    \/ BeginExport \/ ReadTable \/ Rename \/ Prune
    \/ \E i \in DOMAIN shelf : Restore(i) \/ Move(i)
    \/ \E s \in Sources : Install(s)
    \/ \E l \in db.links : Heal(l)
    \/ \E l \in db.chapterLinks : HealChapter(l)
    \/ \E c \in DOMAIN db.chapters : Read(c) \/ \E read \in BOOLEAN : Mark(c, read)
    \/ \E t \in DOMAIN db.titles : Annotate(Own(t))
    \/ \E c \in DOMAIN db.chapters : Annotate(Bookmark(c))
    \/ Crash

Spec == Init /\ [][Next]_vars

-----------------------------------------------------------------------------
(* Properties                                                              *)

TypeOK ==
    /\ installed \subseteq Sources /\ moved \in BOOLEAN
    /\ DOMAIN db = DOMAIN Empty /\ Unique(db) /\ Referenced(db)
    /\ plan # None => plan.file \in Files
    /\ writer # None => DOMAIN writer.doc = DOMAIN Empty
    /\ shelf # <<>> /\ Len(shelf) <= counts.export + 1

\* "Re-importing the same file merges onto the existing library rather than
\* duplicating it", also after a locator was healed, once: a series or chapter of a source
\* is in the library once, unless the library came here through a document, which forgets
\* what was imported, or a title of its own was healed and another's merge names it by the
\* locator it was imported under: the import of a merge looks at the locator in use only.
Overlooked(merge, link) == ~merge.primary /\ merge.locator = link.imported /\ link.imported # link.locator
NoDuplicates ==
    ~moved =>
        /\ \A l, k \in db.links : l.source = k.source /\ l.locator[1] = k.locator[1] =>
              l.title = k.title \/ Overlooked(l, k) \/ Overlooked(k, l)
        /\ \A l, k \in db.chapterLinks : l.source = k.source /\ l.locator[1] = k.locator[1] => l.chapter = k.chapter

\* Importing one file again later leaves what importing it once leaves, but for the moment
\* of a resume point without a recorded read, which is the import's.
Undated(d) ==
    [d EXCEPT !.resume = [t \in DOMAIN @ |-> IF @[t].at > Today THEN [@[t] EXCEPT !.at = Today] ELSE @[t]]]
ReimportChangesNothing ==
    \A f \in Files :
        LET p == [file |-> f, targets |-> Targets(FALSE), now |-> Today]
            once == Committed(db, Imported(db, p))
        IN  Undated(Committed(once, Imported(once, [p EXCEPT !.now = Today + 1]))) = once

\* A title can be refreshed and its chapters listed: each has the link to its own
\* source, a title is primary at one, whatever document was restored.
LinksAreWhole ==
    /\ \A t \in DOMAIN db.titles :
          /\ \E l \in db.links : l.title = t /\ l.source = db.titles[t].source
          /\ Cardinality({l \in db.links : l.title = t /\ l.primary}) = 1
    /\ \A c \in DOMAIN db.chapters :
          \E l \in db.chapterLinks : l.chapter = c /\ l.source = db.chapters[c].source

\* A chapter the reader or a backup has marked read stays read through imports, and
\* through restores of documents that do not say of it that it is not.
Denied(c) == \E i \in DOMAIN shelf : c \in DOMAIN shelf[i].doc.read /\ ~shelf[i].doc.read[c]
ReadSurvives ==
    moved' = moved =>
        /\ plan' # plan => Reads(db) \subseteq Reads(db')
        /\ counts'.restore # counts.restore => \A c \in Reads(db) \ Reads(db') : Denied(c)

\* A document nothing was written under reproduces elsewhere what a restore writes of the
\* library: not the imported locators, and nothing of what is beside the rows.
Portable(d) ==
    [d EXCEPT !.links = {[l EXCEPT !.imported = None] : l \in @},
              !.chapterLinks = {[l EXCEPT !.imported = None] : l \in @},
              !.beside = {}]
SnapshotHoldsLibrary ==
    Len(shelf') > Len(shelf) /\ ~writer.torn => Restored(Empty, shelf'[Len(shelf')].doc) = Portable(db)

\* "keeps only the newest keep files": what is removed is older than what stays, and
\* enough stays.
PruneKeepsNewest ==
    moved' = moved => \A i \in DOMAIN shelf :
        (\A k \in DOMAIN shelf' : shelf'[k] # shelf[i])
        => Len(shelf') >= Keep /\ \A k \in DOMAIN shelf' : shelf'[k].number > shelf[i].number

\* The library stays one: a title or chapter of a source once, each with its links,
\* through imports, healing, restores and crashes.
LibrarySound == TypeOK /\ NoDuplicates /\ LinksAreWhole

\* Backups hold: a document reproduces the rows a restore writes, the newest ones are
\* kept, and what was read survives an import.
BackupsHold == [][SnapshotHoldsLibrary /\ PruneKeepsNewest /\ ReadSurvives]_vars
=============================================================================
