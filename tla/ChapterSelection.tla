--------------------------- MODULE ChapterSelection ---------------------------
(* Which chapters of a title a download takes, and in which order          *)
(* (internal/downloader/queue.go selectChapters and parseChapterRange).    *)
EXTENDS Integers, Sequences, SequencesExt, FiniteSetsExt

CONSTANT None

\* A range as it is written: one or two parts, None the part that is no number.
Chapter(id, locator, number) == [id |-> id, locator |-> locator, number |-> number]
Selection(ids, range) == [ids |-> ids, range |-> range]

\* parseChapterRange: one part is both ends of the range.
Lower(range) == range[1]
Upper(range) == range[Len(range)]
Malformed(range) == None \in {Lower(range), Upper(range)} \/ Upper(range) < Lower(range)

InRange(chapter, range) ==
    range # <<>> /\ chapter.number # None /\ Lower(range) <= chapter.number /\ chapter.number <= Upper(range)

\* An id of the selection is one of the program or one of the source.
Included(chapter, selection) ==
    {chapter.id, chapter.locator} \cap selection.ids # {} \/ InRange(chapter, selection.range)

Before(a, b) == a.number # None /\ (b.number = None \/ a.number < b.number)

\* The stable sort: a chapter goes behind every one it does not come before.
Inserted(sorted, chapter) ==
    LET at == Max({0} \cup {i \in DOMAIN sorted : ~Before(chapter, sorted[i])})
    IN  InsertAt(sorted, at + 1, chapter)

\* Mutant of SelectChapters: the range is taken although ids are named, and the ids not.
SelectRange(chapters, selection) ==
    IF selection.range # <<>> /\ Malformed(selection.range) THEN <<>>
    ELSE FoldLeft(Inserted, <<>>,
                  SelectSeq(chapters, LAMBDA c : IF selection.range # <<>> THEN InRange(c, selection.range)
                                                 ELSE Included(c, selection)))

\* Nothing selected, a selection that fits nothing and a malformed range are errors; the
\* download takes no chapter then.
SelectChapters(chapters, selection) ==
    IF selection.range # <<>> /\ Malformed(selection.range) THEN <<>>
    ELSE FoldLeft(Inserted, <<>>, SelectSeq(chapters, LAMBDA c : Included(c, selection)))

=============================================================================
