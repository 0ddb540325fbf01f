----------------------------- MODULE TitleMatching -----------------------------
(***************************************************************************)
(* Which of the titles a source finds is the one a migration looks for:    *)
(* scores, the choice among candidates, the cleaned title and the queries  *)
(* of a deep search (internal/migration).  A title is a sequence of        *)
(* characters of a few kinds; the chapter markers of Russian titles are    *)
(* one character.                                                          *)
(***************************************************************************)
EXTENDS Integers, SequencesExt

CONSTANT ShortTitle   \* five in the code

ASSUME TitleAssumption == ShortTitle \in Nat

Opening == "("
Closing == ")"
Space == " "
Hyphen == "-"
Marker == "#"
Ascii == {"a", "b"}       \* letters and digits
Foreign == {"z"}          \* a letter of another script

Lesser(i, j) == IF i < j THEN i ELSE j
Greater(i, j) == IF i < j THEN j ELSE i

-----------------------------------------------------------------------------
(* match.go                                                                *)

\* levenshtein.ComputeDistance
Distance(a, b) ==
    LET d[i \in 0..Len(a), j \in 0..Len(b)] ==
            IF i = 0 \/ j = 0 THEN i + j
            ELSE Lesser(Lesser(d[i - 1, j], d[i, j - 1]) + 1,
                        d[i - 1, j - 1] + IF a[i] = b[j] THEN 0 ELSE 1)
    IN  d[Len(a), Len(b)]

\* Similarity, as a fraction.
Similarity(a, b) ==
    LET longest == Greater(Len(a), Len(b)) IN
    IF longest = 0 THEN <<1, 1>> ELSE <<longest - Distance(a, b), longest>>

Above(x, y) == x[1] * y[2] > y[1] * x[2]
MinEligibleThreshold == <<2, 5>>
Eligible(score) == ~Above(MinEligibleThreshold, score)

\* The only answer to the only query is trusted.
Score(candidates, i, want, queryCount) ==
    IF queryCount > 1 \/ Len(candidates) > 1 THEN Similarity(want, candidates[i]) ELSE <<1, 1>>

\* Mutant of Match: the last of several equals.
MatchLast(candidates, want, queryCount) ==
    LET best[i \in 0..Len(candidates)] ==
            IF i = 0 THEN 0
            ELSE LET score == Score(candidates, i, want, queryCount) IN
                 IF Eligible(score) /\ (best[i - 1] = 0 \/
                        ~Above(Score(candidates, best[i - 1], want, queryCount), score))
                 THEN i ELSE best[i - 1]
    IN  best[Len(candidates)]

\* Match: the index of the best candidate, 0 when none is eligible; the loop keeps the
\* first of equals.
Match(candidates, want, queryCount) ==
    LET best[i \in 0..Len(candidates)] ==
            IF i = 0 THEN 0
            ELSE LET score == Score(candidates, i, want, queryCount) IN
                 IF Eligible(score) /\ (best[i - 1] = 0 \/
                        Above(score, Score(candidates, best[i - 1], want, queryCount)))
                 THEN i ELSE best[i - 1]
    IN  best[Len(candidates)]

-----------------------------------------------------------------------------
(* deepsearch.go                                                           *)

\* Mutant of Deeper: groups do not nest.
Flatter(depth, char, open, close) ==
    IF char = open THEN 1 ELSE IF char = close /\ depth > 0 THEN 0 ELSE depth
Deeper(depth, char, open, close) ==
    IF char = open THEN depth + 1 ELSE IF char = close /\ depth > 0 THEN depth - 1 ELSE depth

\* The characters outside groups, reading from the left; a closing delimiter that closes
\* nothing is one of them.
Outside(text, open, close) ==
    LET depth[i \in 0..Len(text)] == IF i = 0 THEN 0 ELSE Deeper(depth[i - 1], text[i], open, close)
    IN  FoldLeft(LAMBDA kept, i : IF depth[i] = 0 /\ depth[i - 1] = 0 /\ text[i] # open
                                  THEN Append(kept, text[i]) ELSE kept,
                 <<>>, [i \in 1..Len(text) |-> i])

RemoveTextInBrackets(text, readForward) ==
    IF readForward THEN Outside(text, Opening, Closing)
    ELSE Reverse(Outside(Reverse(text), Closing, Opening))

Letter(char, title) ==
    \/ char \in Ascii
    \/ char \in Foreign /\ \E i \in DOMAIN title : title[i] \in Foreign

Trim(text) ==
    LET ink == {i \in DOMAIN text : text[i] # Space} IN
    IF ink = {} THEN <<>>
    ELSE SubSeq(text, CHOOSE i \in ink : \A j \in ink : i <= j, CHOOSE i \in ink : \A j \in ink : i >= j)

\* Spaces run together, and " - " is one of them.
Tidy(text) ==
    LET dash[i \in 0..Len(text)] == \* " - " begins at i, and none that holds i
            /\ i > 0 /\ i + 2 <= Len(text)
            /\ text[i] = Space /\ text[i + 1] = Hyphen /\ text[i + 2] = Space
            /\ (i > 2 => ~dash[i - 2])
        kept == FoldLeft(LAMBDA out, i :
                    IF (i > 1 /\ dash[i - 1]) \/ (i > 2 /\ dash[i - 2]) THEN out
                    ELSE IF text[i] = Space /\ out # <<>> /\ Last(out) = Space THEN out
                    ELSE Append(out, text[i]),
                <<>>, [i \in 1..Len(text) |-> i])
    IN  Trim(kept)

CleanTitle(title) ==
    LET forward == RemoveTextInBrackets(title, TRUE)
        named == IF Len(forward) <= ShortTitle THEN RemoveTextInBrackets(title, FALSE) ELSE forward
        unmarked == [i \in DOMAIN named |-> IF named[i] = Marker THEN Space ELSE named[i]]
    IN  Tidy(Trim([i \in DOMAIN unmarked |->
                IF Letter(unmarked[i], unmarked) \/ unmarked[i] \in {Hyphen, Space} THEN unmarked[i] ELSE Space]))

\* DeepQueries, of the words of a cleaned title: itself, its two longest words, the
\* longest, its first two and its first, each once.
DeepQueries(words) ==
    LET longestFirst == SetToSortSeq(DOMAIN words,
            LAMBDA i, j : Len(words[i]) > Len(words[j]) \/ (Len(words[i]) = Len(words[j]) /\ i < j))
        Longest(n) == [k \in 1..Lesser(n, Len(words)) |-> words[longestFirst[k]]]
        First(n) == SubSeq(words, 1, Lesser(n, Len(words)))
    IN  IF words = <<>> THEN <<>>
        ELSE FoldLeft(LAMBDA queries, query : IF query \in Range(queries) THEN queries ELSE Append(queries, query),
                      <<>>, <<words, Longest(2), Longest(1), First(2), First(1)>>)

=============================================================================
