------------------------------- MODULE MCImports -------------------------------
(* What enters and leaves the library, and, side by side with it, the pure *)
(* parts of the program against what they are for: a behaviour is one of   *)
(* imports and backups, or one input of a function and its answer.         *)
EXTENDS ChapterNumbers, TitleMatching, ImportPlan, TrackerScores

CONSTANTS Sources, Files, Keep, MaxImports, MaxExports, MaxRestores, MaxEvents,
          s1, s2, NameLength, TitleLength, Sites

Q == INSTANCE ChapterSelection

VARIABLES db, installed, plan, writer, shelf, moved, counts, \* of Imports
          input, answer

B == INSTANCE Imports
ASSUME MCImportsAssumption == B!ImportsAssumption

importVars == <<db, installed, plan, writer, shelf, moved, counts>>
vars == <<importVars, input, answer>>

-----------------------------------------------------------------------------
(* Inputs                                                                  *)

Numbers == {Part("number", 7, -1, "none"), Part("number", 12, 50, "none"), Part("number", 4, -1, "b"),
            Part("number", 4, -1, "extra")}
Markers == {Part("chapter", 3, -1, "none"), Part("chapter", 2, 50, "a")}
Volumes == {Part("volume", 5, -1, "none"), Part("volume", 2, 50, "none"),
            [Part("volume", 5, -1, "none") EXCEPT !.tight = FALSE]}
Parts == Numbers \cup Markers \cup Volumes \cup {Part("title", 9, -1, "none"), Part("word", 0, -1, "none")}

NumberInputs ==
    [of : {"number"}, name : UNION {[1..n -> Parts] : n \in 0..NameLength}, known : BOOLEAN,
     declared : {Nothing, -200, -100, 0, 700}]

Characters == {Opening, Closing, Space, Hyphen, Marker, "a", "z", "!"}
Titles(n, chars) == UNION {[1..k -> chars] : k \in 0..n}
CleanInputs == [of : {"clean"}, title : Titles(TitleLength, Characters)]
ShortWords == Titles(2, {"a", "b"})
MatchInputs == [of : {"match"}, want : ShortWords, candidates : UNION {[1..n -> ShortWords] : n \in 0..2}, queries : {1, 2}]
QueryInputs == [of : {"queries"}, words : UNION {[1..n -> ShortWords \ {<<>>}] : n \in 0..3}]

Refs == {Installed("i1", "n1", s) : s \in Sites} \cup {Installed("i2", "n2", s) : s \in Sites \cup {None}}
PlanInputs ==
    [of : {"plan"},
     sources : UNION {[1..n -> [source : {1, 2}, name : {"n1", "old", None}]] : n \in 0..1},
     manga : UNION {[1..n -> [source : {1, 2}, host : Sites \cup {None}, favorite : {TRUE}]] : n \in 0..2},
     installed : UNION {[1..n -> Refs] : n \in 0..2},
     map : {<<>>, <<"i2">>, <<None>>}, skip : {FALSE}]

Scales == {"POINT_100", "POINT_10", "POINT_10_DECIMAL", "POINT_5", "POINT_3", "kitsu", "mangabaka",
           "myanimelist", "mangaupdates"}
ScoreInputs == [of : {"score"}, scale : Scales, score : 0 .. 10 * Point]

\* Three chapters of a title, with two numbers and one without; a locator can be the id of
\* no chapter only.
SelectionInputs ==
    [of : {"selection"},
     chapters : {[i \in 1..3 |-> Q!Chapter(i, 10 + i, numbers[i])] : numbers \in [1..3 -> {1, 2, 5, None}]},
     ids : SUBSET {1, 2, 13, 99},
     range : UNION {[1..n -> {0, 1, 2, 5, None}] : n \in 0..2}]

Answer(i) ==
    CASE i.of = "number" -> Parse(i.known, i.name, i.declared)
      [] i.of = "clean" -> CleanTitle(i.title)
      [] i.of = "match" -> Match(i.candidates, i.want, i.queries)
      [] i.of = "queries" -> DeepQueries(i.words)
      [] i.of = "score" -> WriteScore(i.scale, i.score)
      [] i.of = "selection" -> Q!SelectChapters(i.chapters, Q!Selection(i.ids, i.range))
      [] i.of = "plan" -> Build([sources |-> i.sources, manga |-> i.manga], i.installed, i.map, i.skip)

Inputs(of) ==
    CASE of = "number" -> NumberInputs [] of = "clean" -> CleanInputs [] of = "match" -> MatchInputs
      [] of = "queries" -> QueryInputs [] of = "plan" -> PlanInputs [] of = "score" -> ScoreInputs
      [] of = "selection" -> SelectionInputs

\* A behaviour of Imports has no input.
Library == [of |-> "library"]

Init ==
    /\ B!Init /\ answer = None
    /\ \/ input = Library
       \/ /\ installed = {}
          /\ \E of \in {"number", "clean", "match", "queries", "plan", "score", "selection"} : input \in Inputs(of)
Next ==
    \/ input = Library /\ B!Next /\ UNCHANGED <<input, answer>>
    \/ input # Library /\ answer = None /\ answer' = <<Answer(input)>> /\ UNCHANGED <<importVars, input>>
Spec == Init /\ [][Next]_vars

Answered(of) == input.of = of /\ answer # None
-----------------------------------------------------------------------------
(* Properties                                                              *)

\* What Imports promises: the library stays one, and importing the same again changes
\* nothing but a moment; backups hold.
LibrarySound == input = Library => B!LibrarySound /\ B!ReimportChangesNothing
BackupsHold == B!BackupsHold

\* A name that keeps the rules of the package gives the number they name: the first after
\* "ch.", else the first that is no volume's, else the volume's (number.go Parse).
NumberIsRecognised ==
    Answered("number") /\ Plain(input.known, input.name) =>
        answer[1] = Expected(input.name, input.declared)

Annotations == {<<"(", "a", ")">>, <<"(", "(", "a", ")", "z", ")">>}
Unbracketed(title) == Range(title) \cap {Opening, Closing} = {}

\* "Dropping the parts that decorate it": an annotation before or after a title changes
\* nothing, whatever is nested in it, and no title of letters is cleaned away, of
\* whichever script (deepsearch.go CleanTitle).
CleaningKeepsTheName ==
    Answered("clean") /\ Unbracketed(input.title) =>
        /\ \A note \in Annotations :
               CleanTitle(note \o input.title) = answer[1] /\ CleanTitle(input.title \o note) = answer[1]
        /\ Range(input.title) \cap (Ascii \cup Foreign) \subseteq Range(answer[1])

\* The migration takes the first of the candidates nobody scores above, and none that is
\* unlike the title, unless the source gave the one answer to the one query; a deep
\* search asks for the whole title first and for nothing twice (match.go, deepsearch.go).
BestIsFound ==
    /\ Answered("match") =>
         LET n == DOMAIN input.candidates
             Scored(i) == Similarity(input.want, input.candidates[i])
             fit == IF input.queries = 1 /\ n = {1} THEN n ELSE {i \in n : Eligible(Scored(i))}
             best == {i \in fit : \A j \in fit : ~Above(Scored(j), Scored(i))}
         IN  answer[1] = IF best = {} THEN 0 ELSE Min(best)
    /\ Answered("queries") /\ input.words # <<>> =>
         /\ answer[1][1] = input.words /\ IsInjective(answer[1])
         /\ \A i \in DOMAIN answer[1] : answer[1][i] # <<>> /\ Range(answer[1][i]) \subseteq Range(input.words)

\* The evidence that ties a source of the backup to an installed one.
Tied(source, ref) ==
    LET name == NameOf(source, input) IN
    \/ name # None /\ name \in {ref.name, ref.id}
    \/ name \in DOMAIN Aliases /\ Aliases[name] \cap {ref.name, ref.id} # {}
    \/ \E i \in TitlesOf(source, input) : input.manga[i].host # None /\ input.manga[i].host = ref.host

\* What a search compares is the name, and what it takes is the best.
TitlesAreFound == CleaningKeepsTheName /\ BestIsFound

\* Before anything is written: every title is counted under one source, as unmatched if
\* that source is; the user's mapping is final, and without one a source is matched
\* when, and only to what, its name or the hosts of its titles point at (report.go Build).
PlanIsSound ==
    Answered("plan") =>
        LET rows == answer[1].rows
            Is(row, i) == input.installed[i].id = row.ref
        IN  /\ \A m \in DOMAIN input.manga : \E r \in DOMAIN rows : rows[r].source = input.manga[m].source
            /\ \A r, q \in DOMAIN rows : rows[r].source = rows[q].source => r = q
            /\ FoldSeq(LAMBDA row, sum : sum + row.manga, 0, rows) = Len(input.manga)
            /\ answer[1].unmatchedTitles = Cardinality({m \in DOMAIN input.manga :
                   \E r \in DOMAIN rows : rows[r].source = input.manga[m].source /\ rows[r].ref = None})
            /\ \A r \in DOMAIN rows :
                 LET row == rows[r]
                     known == {i \in DOMAIN input.installed :
                                 IF row.source \in DOMAIN input.map
                                 THEN input.installed[i].id = input.map[row.source]
                                 ELSE Tied(row.source, input.installed[i])}
                 IN  IF known = {} THEN row.ref = None ELSE \E i \in known : Is(row, i)

\* What a tracker can show.
WireTop(scale) ==
    CASE scale \in {"POINT_100", "mangabaka"} -> 100 [] scale = "POINT_5" -> 5 [] scale = "POINT_3" -> 3
      [] scale = "kitsu" -> 20 [] OTHER -> 10
Steps(scale) ==
    LET native == IF scale \in {"POINT_10_DECIMAL", "mangaupdates"} THEN {(Point \div 10) * n : n \in 0..100}
                  ELSE {Point * n : n \in 0..WireTop(scale)}
    IN  CASE scale = "POINT_3" -> native \ {2 * Point} [] scale = "kitsu" -> {n \in native : n = 0 \/ n > 10 * Point}
          [] OTHER -> native

\* What is written is on the scale of the tracker, and a higher score never becomes a lower
\* one.  What was read there is written back as it was, but for the middle one of three
\* faces and the lower half of Kitsu, whose readings are further up (scores.go).
ScoresSurvive ==
    Answered("score") =>
        /\ 0 <= answer[1] /\ answer[1] <= WireTop(input.scale) * Point
        /\ input.score < 10 * Point => answer[1] <= WriteScore(input.scale, input.score + 1)
        /\ \A native \in Steps(input.scale) :
              input.score = ReadScore(input.scale, native) => answer[1] = native

\* A download takes each chapter that is named or in the range, once, and nothing when the
\* range says nothing; in the order of the numbers, then of the list, those without a
\* number last (queue.go selectChapters).
SelectionIsExact ==
    Answered("selection") =>
        LET taken == {i \in 1..3 : \E k \in DOMAIN answer[1] : answer[1][k] = input.chapters[i]}
            number(i) == input.chapters[i].number
            bounds == Range(input.range)
            place(i) == CHOOSE k \in DOMAIN answer[1] : answer[1][k].id = i
        IN  /\ IsInjective(answer[1]) /\ Len(answer[1]) = Cardinality(taken)
            /\ IF None \in bounds \/ (Len(input.range) = 2 /\ input.range[2] < input.range[1])
               THEN taken = {}
               ELSE \A i \in 1..3 : i \in taken <=>
                      i \in input.ids \/ 10 + i \in input.ids
                      \/ (bounds # {} /\ number(i) # None /\ number(i) \in Min(bounds)..Max(bounds))
            /\ \A i, j \in taken : place(i) < place(j) <=>
                 \/ number(i) # None /\ (number(j) = None \/ number(i) < number(j))
                 \/ number(i) = number(j) /\ i < j

\* The conversions and the choices of the program's own values.
ValuesAreKept == ScoresSurvive /\ SelectionIsExact

MCAliases == [old |-> {"n2", "n3"}]

\* A title with two chapters, one of them read, that is merged with another source;
\* and a later backup, in which that source's own record is a title.
MCFiles ==
    {<<[source |-> s1, locator |-> <<"A", 1>>, favorite |-> TRUE, own |-> TRUE,
        chapters |-> <<[locator |-> <<"a1", 1>>, read |-> TRUE, bookmark |-> TRUE, page |-> 2, at |-> 1],
                       [locator |-> <<"a2", 1>>, read |-> FALSE, bookmark |-> FALSE, page |-> 4, at |-> 0]>>,
        merges |-> {[source |-> s2, locator |-> <<"B", 1>>]}]>>,
     <<[source |-> s2, locator |-> <<"B", 1>>, favorite |-> FALSE, own |-> FALSE,
        chapters |-> <<[locator |-> <<"b1", 1>>, read |-> FALSE, bookmark |-> FALSE, page |-> 0, at |-> 0]>>, merges |-> {}],
       [source |-> s1, locator |-> <<"A", 1>>, favorite |-> FALSE, own |-> FALSE,
        chapters |-> <<[locator |-> <<"a2", 1>>, read |-> FALSE, bookmark |-> FALSE, page |-> 7, at |-> 2]>>, merges |-> {}]>>}
=============================================================================
