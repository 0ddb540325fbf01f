--------------------------- MODULE MCImports_proofs ---------------------------
(***************************************************************************)
(* Proofs about what enters and leaves the library, for every number of    *)
(* backups, sources, snapshots, imports and crashes.                       *)
(***************************************************************************)
EXTENDS MCImports, FiniteSetTheorems, WellFoundedInduction, TLAPS

-----------------------------------------------------------------------------
(* Folds: what the loops of an import do                                   *)

\* One turn of the three loops: a chapter, a merge, a title.
Turn(loop, p, title, source, d, item) ==
    CASE loop = "chapters" -> B!ImportChapter(d, title, source, item)
      [] loop = "merges" -> B!ImportMerge(d, p, title, item)
      [] loop = "titles" -> B!ImportTitle(d, p, item)

Greatest(s) == CHOOSE x \in s : \A y \in s : x >= y

\* What a loop has made of the tables after the turns of each set.
Turns(g, loop, p, title, source, base, items, indices) ==
    g = [s \in SUBSET indices |->
            IF s = {} THEN base
            ELSE Turn(loop, p, title, source, g[s \ {Greatest(s)}], items[Greatest(s)])]

\* Of a set of naturals one is smallest.
LEMMA SomeLeast ==
    ASSUME NEW those, those \subseteq Nat, those # {}
    PROVE  \E k \in those : \A j \in those : ~(j < k)
<1>1. PICK k \in those : \A j \in those : ~(<<j, k>> \in OpToRel(<, Nat))
  BY NatLessThanWellFounded, WFMin
<1> QED BY <1>1 DEF OpToRel

LEMMA GreatestIs ==
    ASSUME NEW k \in Nat, NEW s \in SUBSET (1..k), k \in s
    PROVE  Greatest(s) = k
<1>1. \A y \in s : k >= y
  OBVIOUS
<1>2. Greatest(s) \in s /\ \A y \in s : Greatest(s) >= y
  BY <1>1 DEF Greatest
<1>3. Greatest(s) \in 1..k /\ Greatest(s) >= k
  BY <1>2
<1> QED BY <1>3

LEMMA TurnsExist ==
    ASSUME NEW loop, NEW p, NEW title, NEW source, NEW base, NEW items, NEW n \in Nat
    PROVE  \E g : Turns(g, loop, p, title, source, base, items, 1..n)
<1> DEFINE Step(d, i) == Turn(loop, p, title, source, d, items[i])
           Is(g, k) == g = [s \in SUBSET (1..k) |->
                               IF s = {} THEN base ELSE Step(g[s \ {Greatest(s)}], Greatest(s))]
           Bad == {k \in 0..n : ~\E g : Is(g, k)}
<1>1. Is([s \in SUBSET (1..0) |-> base], 0)
  <2>1. \A s \in SUBSET (1..0) : s = {}
    OBVIOUS
  <2> HIDE DEF Step
  <2> QED BY <2>1
<1>2. ASSUME NEW k \in Nat, NEW g, Is(g, k) PROVE \E f : Is(f, k + 1)
  <2> DEFINE f == [s \in SUBSET (1..(k + 1)) |->
                      IF k + 1 \in s THEN Step(g[s \ {k + 1}], k + 1) ELSE g[s]]
  <2>1. ASSUME NEW s \in SUBSET (1..(k + 1)), s # {}
        PROVE  f[s] = Step(f[s \ {Greatest(s)}], Greatest(s))
    <3> HIDE DEF Step
    <3>1. CASE k + 1 \in s
      <4>1. Greatest(s) = k + 1
        BY <3>1, GreatestIs
      <4>2. f[s \ {k + 1}] = g[s \ {k + 1}]
        OBVIOUS
      <4> QED BY <3>1, <4>1, <4>2
    <3>2. CASE k + 1 \notin s
      <4>1. s \in SUBSET (1..k)
        BY <3>2
      <4>2. g[s] = Step(g[s \ {Greatest(s)}], Greatest(s))
        BY <1>2, <2>1, <4>1
      <4>3. f[s \ {Greatest(s)}] = g[s \ {Greatest(s)}]
        BY <3>2
      <4> QED BY <3>2, <4>2, <4>3
    <3> QED BY <3>1, <3>2
  <2>2. f[{}] = base
    <3>1. {} \in SUBSET (1..k) /\ {} \in SUBSET (1..(k + 1)) /\ k + 1 \notin {}
      OBVIOUS
    <3>2. g[{}] = base
      <4> HIDE DEF Step
      <4> QED BY <1>2, <3>1
    <3> HIDE DEF Step
    <3> QED BY <3>1, <3>2
  <2>3. f = [s \in SUBSET (1..(k + 1)) |-> f[s]]
    OBVIOUS
  <2>4. Is(f, k + 1)
    <3> HIDE DEF f, Step
    <3> QED BY <2>1, <2>2, <2>3
  <2> QED BY <2>4
<1> HIDE DEF Is
<1>3. Bad = {}
  <2> SUFFICES ASSUME Bad # {} PROVE FALSE
    OBVIOUS
  <2>1. PICK k \in Bad : \A j \in Bad : ~(j < k)
    <3>1. Bad \subseteq Nat
      OBVIOUS
    <3> HIDE DEF Bad
    <3> QED BY <3>1, SomeLeast
  <2>2. k # 0 /\ k \in Nat
    BY <1>1, <2>1
  <2>3. k - 1 \in 0..n /\ k - 1 \notin Bad
    BY <2>1, <2>2
  <2> QED BY <1>2, <2>1, <2>2, <2>3
<1>4. \E g : Is(g, n)
  BY <1>3
<1> QED BY <1>4 DEF Is, Turns

-----------------------------------------------------------------------------
(* Tables                                                                  *)

IsList(s) == \E S : s \in Seq(S)
\* A list of events, each of a chapter.
IsLog(s) == \E S : s \in Seq(S) /\ \A e \in S : "chapter" \in DOMAIN e

\* A document has the seven tables, with rows that have their keys, and what is beside them.
Shaped(d) ==
    /\ d = [titles |-> d.titles, links |-> d.links, chapters |-> d.chapters,
            chapterLinks |-> d.chapterLinks, resume |-> d.resume, read |-> d.read, history |-> d.history, beside |-> d.beside]
    /\ IsList(d.titles) /\ IsList(d.chapters) /\ IsLog(d.history)
    /\ d.resume = [t \in DOMAIN d.resume |-> d.resume[t]]
    /\ d.read = [c \in DOMAIN d.read |-> d.read[c]]
    /\ \A l \in d.links : {"source", "title", "locator"} \subseteq DOMAIN l
    /\ \A l \in d.chapterLinks : {"source", "chapter", "locator"} \subseteq DOMAIN l

\* What a turn leaves of the tables: their shape, and what was read.
Kept(d, e) == Shaped(d) => Shaped(e) /\ B!Reads(d) \subseteq B!Reads(e)

LEMMA TurnsKeep ==
    ASSUME NEW loop, NEW p, NEW title, NEW source, NEW base, NEW items, NEW n \in Nat, NEW g,
           Turns(g, loop, p, title, source, base, items, 1..n),
           \A d : \A i \in 1..n : Kept(d, Turn(loop, p, title, source, d, items[i]))
    PROVE  Kept(base, g[1..n])
<1> DEFINE Bad == {k \in 0..n : ~\A s \in SUBSET (1..k) : Kept(base, g[s])}
<1>1. g[{}] = base
  BY DEF Turns
<1>2. Bad = {}
  <2> SUFFICES ASSUME Bad # {} PROVE FALSE
    OBVIOUS
  <2>1. PICK k \in Bad : \A j \in Bad : ~(j < k)
    <3>1. Bad \subseteq Nat
      OBVIOUS
    <3> HIDE DEF Bad
    <3> QED BY <3>1, SomeLeast
  <2>2. PICK s \in SUBSET (1..k) : ~Kept(base, g[s])
    BY <2>1
  <2>3. k # 0
    <3> SUFFICES ASSUME k = 0 PROVE FALSE
      OBVIOUS
    <3>1. s = {}
      OBVIOUS
    <3> QED BY <1>1, <2>2, <3>1 DEF Kept
  <2>4. k \in 1..n /\ k - 1 \in 0..n /\ \A t \in SUBSET (1..(k - 1)) : Kept(base, g[t])
    <3>1. k \in 1..n /\ k - 1 \in 0..n /\ k - 1 < k
      BY <2>1, <2>3
    <3>2. k - 1 \notin Bad
      <4> HIDE DEF Bad
      <4> QED BY <2>1, <3>1
    <3> QED BY <3>1, <3>2
  <2>5. k \in s
    BY <2>2, <2>4
  <2>6. s \in SUBSET (1..n) /\ s \ {k} \in SUBSET (1..(k - 1)) /\ Greatest(s) = k
    BY <2>4, <2>5, GreatestIs
  <2>7. g[s] = Turn(loop, p, title, source, g[s \ {k}], items[k])
    BY <2>5, <2>6 DEF Turns
  <2>8. Kept(base, g[s \ {k}]) /\ Kept(g[s \ {k}], g[s])
    <3>1. Kept(g[s \ {k}], Turn(loop, p, title, source, g[s \ {k}], items[k]))
      BY <2>4
    <3> QED BY <2>4, <2>6, <2>7, <3>1
  <2> QED BY <2>2, <2>8 DEF Kept
<1>3. n \in 0..n /\ 1..n \in SUBSET (1..n)
  OBVIOUS
<1> QED BY <1>2, <1>3

\* The loops, which do what their turns do.
ChaptersLoop(title, source, base, items) == B!FoldLeft(LAMBDA e, c : B!ImportChapter(e, title, source, c), base, items)
MergesLoop(p, title, base, items) == B!FoldLeft(LAMBDA e, m : B!ImportMerge(e, p, title, m), base, items)
TitlesLoop(p, base, items) == B!FoldLeft(LAMBDA e, r : B!ImportTitle(e, p, r), base, items)

LEMMA ChaptersFold ==
    ASSUME NEW title, NEW source, NEW base, NEW items, NEW n \in Nat, DOMAIN items = 1..n,
           \A d : \A i \in 1..n : Kept(d, B!ImportChapter(d, title, source, items[i]))
    PROVE  Kept(base, ChaptersLoop(title, source, base, items))
<1> DEFINE Is(g) == g = [s \in SUBSET (1..n) |->
                            IF s = {} THEN base
                            ELSE B!ImportChapter(g[s \ {Greatest(s)}], title, source, items[Greatest(s)])]
<1>1. \A g : Is(g) <=> Turns(g, "chapters", None, title, source, base, items, 1..n)
  BY DEF Turns, Turn
<1>2. Is(CHOOSE g : Is(g))
  <2> HIDE DEF Is
  <2> QED BY <1>1, TurnsExist
<1>3. ChaptersLoop(title, source, base, items) = (CHOOSE g : Is(g))[1..n]
  BY DEF ChaptersLoop, B!FoldLeft, B!MapThenFoldSet, B!Max, Greatest
<1>4. \A d : \A i \in 1..n : Kept(d, Turn("chapters", None, title, source, d, items[i]))
  BY DEF Turn
<1> DEFINE f == CHOOSE g : Is(g)
<1>5. Turns(f, "chapters", None, title, source, base, items, 1..n)
  <2> HIDE DEF Is
  <2> QED BY <1>1, <1>2
<1>6. Kept(base, f[1..n])
  <2> HIDE DEF f
  <2> QED BY <1>4, <1>5, TurnsKeep
<1> QED BY <1>3, <1>6

LEMMA MergesFold ==
    ASSUME NEW p, NEW title, NEW base, NEW items, NEW n \in Nat, DOMAIN items = 1..n,
           \A d : \A i \in 1..n : Kept(d, B!ImportMerge(d, p, title, items[i]))
    PROVE  Kept(base, MergesLoop(p, title, base, items))
<1> DEFINE Is(g) == g = [s \in SUBSET (1..n) |->
                            IF s = {} THEN base
                            ELSE B!ImportMerge(g[s \ {Greatest(s)}], p, title, items[Greatest(s)])]
<1>1. \A g : Is(g) <=> Turns(g, "merges", p, title, None, base, items, 1..n)
  BY DEF Turns, Turn
<1>2. Is(CHOOSE g : Is(g))
  <2> HIDE DEF Is
  <2> QED BY <1>1, TurnsExist
<1>3. MergesLoop(p, title, base, items) = (CHOOSE g : Is(g))[1..n]
  BY DEF MergesLoop, B!FoldLeft, B!MapThenFoldSet, B!Max, Greatest
<1>4. \A d : \A i \in 1..n : Kept(d, Turn("merges", p, title, None, d, items[i]))
  BY DEF Turn
<1> DEFINE f == CHOOSE g : Is(g)
<1>5. Turns(f, "merges", p, title, None, base, items, 1..n)
  <2> HIDE DEF Is
  <2> QED BY <1>1, <1>2
<1>6. Kept(base, f[1..n])
  <2> HIDE DEF f
  <2> QED BY <1>4, <1>5, TurnsKeep
<1> QED BY <1>3, <1>6

LEMMA TitlesFold ==
    ASSUME NEW p, NEW base, NEW items, NEW n \in Nat, DOMAIN items = 1..n,
           \A d : \A i \in 1..n : Kept(d, B!ImportTitle(d, p, items[i]))
    PROVE  Kept(base, TitlesLoop(p, base, items))
<1> DEFINE Is(g) == g = [s \in SUBSET (1..n) |->
                            IF s = {} THEN base
                            ELSE B!ImportTitle(g[s \ {Greatest(s)}], p, items[Greatest(s)])]
<1>1. \A g : Is(g) <=> Turns(g, "titles", p, None, None, base, items, 1..n)
  BY DEF Turns, Turn
<1>2. Is(CHOOSE g : Is(g))
  <2> HIDE DEF Is
  <2> QED BY <1>1, TurnsExist
<1>3. TitlesLoop(p, base, items) = (CHOOSE g : Is(g))[1..n]
  BY DEF TitlesLoop, B!FoldLeft, B!MapThenFoldSet, B!Max, Greatest
<1>4. \A d : \A i \in 1..n : Kept(d, Turn("titles", p, None, None, d, items[i]))
  BY DEF Turn
<1> DEFINE f == CHOOSE g : Is(g)
<1>5. Turns(f, "titles", p, None, None, base, items, 1..n)
  <2> HIDE DEF Is
  <2> QED BY <1>1, <1>2
<1>6. Kept(base, f[1..n])
  <2> HIDE DEF f
  <2> QED BY <1>4, <1>5, TurnsKeep
<1> QED BY <1>3, <1>6

-----------------------------------------------------------------------------
(* An import keeps what was read, and leaves tables                        *)

LEMMA ListAppend == ASSUME NEW s, IsList(s), NEW x PROVE IsList(Append(s, x))
<1>1. PICK S : s \in Seq(S)
  BY DEF IsList
<1>2. s \in Seq(S \cup {x}) /\ x \in S \cup {x}
  BY <1>1
<1>3. Append(s, x) \in Seq(S \cup {x})
  BY <1>2
<1> QED BY <1>3 DEF IsList

LEMMA LogJoin == ASSUME NEW s, IsLog(s), NEW t, IsLog(t) PROVE IsLog(s \o t)
<1>1. PICK S : s \in Seq(S) /\ \A e \in S : "chapter" \in DOMAIN e
  BY DEF IsLog
<1>2. PICK T : t \in Seq(T) /\ \A e \in T : "chapter" \in DOMAIN e
  BY DEF IsLog
<1>3. s \in Seq(S \cup T) /\ t \in Seq(S \cup T)
  BY <1>1, <1>2
<1>4. s \o t \in Seq(S \cup T) /\ \A e \in S \cup T : "chapter" \in DOMAIN e
  BY <1>1, <1>2, <1>3
<1> QED BY <1>4 DEF IsLog

LEMMA LogOf ==
    ASSUME NEW n \in Nat, NEW s, s = [i \in 1..n |-> s[i]], \A i \in 1..n : "chapter" \in DOMAIN s[i]
    PROVE  IsLog(s)
<1>1. s \in [1..n -> {s[i] : i \in 1..n}]
  OBVIOUS
<1>2. s \in Seq({s[i] : i \in 1..n})
  BY <1>1
<1> DEFINE S == {s[i] : i \in 1..n}
<1>3. \A e \in S : "chapter" \in DOMAIN e
  OBVIOUS
<1> HIDE DEF S
<1> QED BY <1>2, <1>3 DEF IsLog, S

LEMMA LogIs == ASSUME NEW s, IsLog(s) PROVE IsList(s) /\ \A i \in 1..Len(s) : "chapter" \in DOMAIN s[i]
<1>1. PICK S : s \in Seq(S) /\ \A e \in S : "chapter" \in DOMAIN e
  BY DEF IsLog
<1> QED BY <1>1 DEF IsList

LEMMA ListIs ==
    ASSUME NEW s, IsList(s)
    PROVE  Len(s) \in Nat /\ DOMAIN s = 1..Len(s) /\ s = [i \in 1..Len(s) |-> s[i]]
<1>1. PICK S : s \in Seq(S)
  BY DEF IsList
<1> QED BY <1>1

LEMMA ListOf == ASSUME NEW n \in Nat, NEW s, s = [i \in 1..n |-> s[i]] PROVE IsList(s) /\ Len(s) = n
<1>1. s \in [1..n -> {s[i] : i \in 1..n}]
  OBVIOUS
<1>2. s \in Seq({s[i] : i \in 1..n})
  BY <1>1
<1>3. Len(s) \in Nat /\ 1..Len(s) = 1..n
  BY <1>1, <1>2
<1>4. Len(s) = n
  BY <1>3
<1> QED BY <1>2, <1>4 DEF IsList

\* The members of a finite set make a list.
LEMMA SetInOrder == ASSUME NEW S, IsFiniteSet(S) 
    PROVE  IsList(B!SetToSeq(S)) /\ \A i \in 1..Len(B!SetToSeq(S)) : B!SetToSeq(S)[i] \in S
<1>1. B!Cardinality(S) = Cardinality(S)
  BY DEF B!Cardinality, B!IsFiniteSet, Cardinality, IsFiniteSet
<1>2. Cardinality(S) \in Nat /\ ExistsBijection(1..Cardinality(S), S)
  BY FS_CardinalityType
<1>3. \E f \in [1..Cardinality(S) -> S] : B!IsInjective(f)
  BY <1>2 DEF ExistsBijection, Bijection, Injection, IsInjective, B!IsInjective
<1>4. B!SetToSeq(S) \in [1..Cardinality(S) -> S]
  BY <1>1, <1>3 DEF B!SetToSeq
<1> DEFINE s == B!SetToSeq(S)
<1>5. s = [i \in 1..Cardinality(S) |-> s[i]] /\ \A i \in 1..Cardinality(S) : s[i] \in S
  BY <1>4
<1> HIDE DEF s
<1>6. IsList(s) /\ Len(s) = Cardinality(S)
  BY <1>2, <1>5, ListOf
<1> QED BY <1>5, <1>6 DEF s

\* A document with some of its tables replaced.
LEMMA Reshaped ==
    ASSUME NEW d, Shaped(d), NEW titles, NEW links, NEW chapters, NEW chapterLinks, NEW resume, NEW read, NEW history,
           NEW beside, NEW e, e = [titles |-> titles, links |-> links, chapters |-> chapters, chapterLinks |-> chapterLinks,
                       resume |-> resume, read |-> read, history |-> history, beside |-> beside],
           IsList(titles), IsList(chapters), IsLog(history), resume = [t \in DOMAIN resume |-> resume[t]],
           read = [c \in DOMAIN read |-> read[c]],
           \A l \in links : {"source", "title", "locator"} \subseteq DOMAIN l,
           \A l \in chapterLinks : {"source", "chapter", "locator"} \subseteq DOMAIN l
    PROVE  Shaped(e)
BY DEF Shaped

LEMMA ReadMore ==
    ASSUME NEW d, Shaped(d), NEW c
    PROVE  LET e == [d EXCEPT !.read = B!Marked(c, TRUE, @)] IN Shaped(e) /\ B!Reads(d) \subseteq B!Reads(e)
<1> DEFINE read == B!Marked(c, TRUE, d.read)
           e == [d EXCEPT !.read = read]
<1>1. e = [titles |-> d.titles, links |-> d.links, chapters |-> d.chapters, chapterLinks |-> d.chapterLinks,
           resume |-> d.resume, read |-> read, history |-> d.history, beside |-> d.beside]
  <2> HIDE DEF read
  <2> QED BY DEF Shaped
<1>2. /\ read = [x \in DOMAIN read |-> read[x]] /\ DOMAIN read = DOMAIN d.read \cup {c} /\ read[c]
      /\ \A x \in DOMAIN d.read \ {c} : read[x] = d.read[x]
  <2>1. /\ read = [x \in DOMAIN read |-> read[x]] /\ DOMAIN read = DOMAIN d.read \cup {c} /\ read[c] = TRUE
        /\ \A x \in DOMAIN d.read \ {c} : read[x] = d.read[x]
    <3>1. read = [x \in {c} \cup DOMAIN d.read |-> IF x \in {c} THEN TRUE ELSE d.read[x]]
      BY DEF B!Marked, B!Replacing
    <3> HIDE DEF read
    <3> QED BY <3>1
  <2> HIDE DEF read
  <2> QED BY <2>1
<1> HIDE DEF e, read
<1>3. Shaped(e)
  BY <1>1, <1>2 DEF Shaped
<1>4. B!Reads(d) \subseteq B!Reads(e)
  <2>1. e.read = read
    BY <1>1
  <2> SUFFICES ASSUME NEW x \in DOMAIN d.read, d.read[x] PROVE x \in DOMAIN e.read /\ e.read[x]
    BY DEF B!Reads
  <2> QED BY <1>2, <2>1
<1> QED BY <1>3, <1>4 DEF e, read

\* What is noted beside the tables leaves them.
LEMMA NotingKeeps ==
    ASSUME NEW d, Shaped(d), NEW facts
    PROVE  Shaped(B!Noting(d, facts)) /\ B!Noting(d, facts).read = d.read
<1> DEFINE beside == d.beside \cup facts
<1>1. B!Noting(d, facts) = [d EXCEPT !.beside = beside]
  BY DEF B!Noting
<1> HIDE DEF beside
<1> QED BY <1>1 DEF Shaped

LEMMA ChapterKeeps == ASSUME NEW d, NEW title, NEW source, NEW item PROVE Kept(d, B!ImportChapter(d, title, source, item))
<1> SUFFICES ASSUME Shaped(d)
             PROVE  LET e == B!ImportChapter(d, title, source, item) IN Shaped(e) /\ B!Reads(d) \subseteq B!Reads(e)
  BY DEF Kept
<1> DEFINE found == B!Answering(d.chapterLinks, source, item.locator)
           made == [chapter |-> Len(d.chapters) + 1, source |-> source, locator |-> item.locator,
                    imported |-> item.locator]
           kept == IF found = {}
                   THEN [d EXCEPT !.chapters = Append(@, [title |-> title, source |-> source]),
                                  !.chapterLinks = @ \cup {made}]
                   ELSE [d EXCEPT !.chapterLinks = B!Recorded(@, CHOOSE l \in found : TRUE, item.locator)]
<1>1. Shaped(kept) /\ kept.read = d.read
  <2>1. CASE found = {}
    <3>1. IsList(Append(d.chapters, [title |-> title, source |-> source]))
      BY ListAppend DEF Shaped
    <3>2. {"source", "chapter", "locator"} \subseteq DOMAIN made
      OBVIOUS
    <3> HIDE DEF made
    <3> QED BY <2>1, <3>1, <3>2 DEF Shaped
  <2>2. CASE found # {}
    <3> DEFINE links == B!Recorded(d.chapterLinks, CHOOSE l \in found : TRUE, item.locator)
    <3>1. \A l \in links : {"source", "chapter", "locator"} \subseteq DOMAIN l
      BY DEF B!Recorded, Shaped
    <3>2. kept = [d EXCEPT !.chapterLinks = links]
      BY <2>2
    <3> HIDE DEF links, kept, found
    <3> QED BY <3>1, <3>2 DEF Shaped
  <2> QED BY <2>1, <2>2
<1> DEFINE this == B!Chapter(kept, source, item)
           facts == IF item.bookmark THEN {B!Bookmark(this)} ELSE {}
           noted == B!Noting(kept, facts)
<1>2. B!ImportChapter(d, title, source, item) =
        IF item.read THEN [noted EXCEPT !.read = B!Marked(this, TRUE, @)] ELSE noted
  BY DEF B!ImportChapter
<1> HIDE DEF kept, this, facts
<1>3. Shaped(noted) /\ B!Reads(noted) = B!Reads(d)
  BY <1>1, NotingKeeps DEF B!Reads
<1> HIDE DEF noted
<1>4. ASSUME NEW c PROVE LET e == [noted EXCEPT !.read = B!Marked(c, TRUE, @)] IN Shaped(e) /\ B!Reads(noted) \subseteq B!Reads(e)
  BY <1>3, ReadMore
<1> QED BY <1>2, <1>3, <1>4

LEMMA FiniteImage ==
    ASSUME NEW S, IsFiniteSet(S), NEW f, DOMAIN f = S
    PROVE  IsFiniteSet({f[x] : x \in S})
<1> DEFINE T == {f[x] : x \in S}
           g == [x \in S |-> f[x]]
<1>1. g \in Surjection(S, T)
  BY DEF Surjection
<1> HIDE DEF g
<1> QED BY <1>1, FS_Surjection

LEMMA Logged ==
    ASSUME NEW d, Shaped(d), NEW further, IsLog(further)
    PROVE  /\ IsLog(d.history \o further)
           /\ [d EXCEPT !.history = @ \o further]
                = [titles |-> d.titles, links |-> d.links, chapters |-> d.chapters,
                   chapterLinks |-> d.chapterLinks, resume |-> d.resume, read |-> d.read,
                   history |-> d.history \o further, beside |-> d.beside]
<1> DEFINE history == d.history \o further
<1>1. IsLog(history)
  BY LogJoin DEF Shaped
<1>2. [d EXCEPT !.history = history]
        = [titles |-> d.titles, links |-> d.links, chapters |-> d.chapters,
           chapterLinks |-> d.chapterLinks, resume |-> d.resume, read |-> d.read, history |-> history, beside |-> d.beside]
  <2> HIDE DEF history
  <2> QED BY DEF Shaped
<1> QED BY <1>1, <1>2

LEMMA HistoryKeeps ==
    ASSUME NEW d, NEW title, NEW source, NEW chapters, NEW now, NEW n \in Nat, DOMAIN chapters = 1..n
    PROVE  Kept(d, B!ImportHistory(d, title, source, chapters, now))
<1> SUFFICES ASSUME Shaped(d)
             PROVE  LET e == B!ImportHistory(d, title, source, chapters, now) IN Shaped(e) /\ B!Reads(d) \subseteq B!Reads(e)
  BY DEF Kept
<1> DEFINE met == {c \in B!ToSet(chapters) : c.at > 0}
           events == {[chapter |-> B!Chapter(d, source, c), at |-> c.at] : c \in met}
           further == B!SetToSeq(events \ B!ToSet(d.history))
           logged == [d EXCEPT !.history = @ \o further]
<1>1. IsFiniteSet(events \ B!ToSet(d.history))
  <2>1. B!ToSet(chapters) = {chapters[i] : i \in 1..n}
    BY DEF B!ToSet
  <2>2. IsFiniteSet(1..n)
    BY FS_Interval
  <2>3. IsFiniteSet({chapters[i] : i \in 1..n})
    <3> DEFINE f == [i \in 1..n |-> chapters[i]]
    <3>1. IsFiniteSet({f[i] : i \in 1..n})
      <4>1. DOMAIN f = 1..n
        OBVIOUS
      <4> HIDE DEF f
      <4> QED BY <2>2, <4>1, FiniteImage
    <3> QED BY <3>1
  <2>4. IsFiniteSet(met)
    BY <2>1, <2>3, FS_Subset
  <2>5. IsFiniteSet(events)
    <3> DEFINE f == [c \in met |-> [chapter |-> B!Chapter(d, source, c), at |-> c.at]]
    <3>1. IsFiniteSet({f[c] : c \in met})
      <4>1. DOMAIN f = met
        OBVIOUS
      <4> HIDE DEF f, met
      <4> QED BY <2>4, <4>1, FiniteImage
    <3>2. {f[c] : c \in met} = events
      <4> HIDE DEF met
      <4> QED OBVIOUS
    <3> HIDE DEF f, events
    <3> QED BY <3>1, <3>2
  <2> HIDE DEF events
  <2> QED BY <2>5, FS_Subset
<1>2. IsLog(further)
  <2>1. IsList(further) /\ \A i \in 1..Len(further) : further[i] \in events
    <3> HIDE DEF events
    <3> QED BY <1>1, SetInOrder
  <2>2. \A e \in events : "chapter" \in DOMAIN e
    OBVIOUS
  <2> HIDE DEF further, events
  <2> QED BY <2>1, <2>2, ListIs, LogOf
<1> DEFINE started == IF met # {} THEN met ELSE {c \in B!ToSet(chapters) : c.page > 0}
           last == CHOOSE c \in started : \A o \in started : B!Later(c, o)
           stamp == IF met = {} THEN now ELSE last.at
           point == [chapter |-> B!Chapter(d, source, last), page |-> last.page + 1,
                     at |-> IF title \in DOMAIN logged.resume /\ logged.resume[title].at > stamp
                            THEN logged.resume[title].at ELSE stamp]
           resumed == [t \in DOMAIN logged.resume \cup {title} |->
                         IF t # title THEN logged.resume[t] ELSE point]
<1>3. B!ImportHistory(d, title, source, chapters, now) =
        IF started = {} THEN logged ELSE [logged EXCEPT !.resume = resumed]
  BY DEF B!ImportHistory
<1>4. /\ logged = [titles |-> d.titles, links |-> d.links, chapters |-> d.chapters,
                   chapterLinks |-> d.chapterLinks, resume |-> d.resume, read |-> d.read,
                   history |-> d.history \o further, beside |-> d.beside]
      /\ IsLog(d.history \o further)
  <2> HIDE DEF further
  <2> QED BY <1>2, Logged
<1> DEFINE history == d.history \o further
<1>5. /\ logged = [titles |-> d.titles, links |-> d.links, chapters |-> d.chapters,
                   chapterLinks |-> d.chapterLinks, resume |-> d.resume, read |-> d.read,
                   history |-> history, beside |-> d.beside]
      /\ IsLog(history)
  <2> HIDE DEF logged
  <2> QED BY <1>4
<1>6. resumed = [t \in DOMAIN resumed |-> resumed[t]]
  <2> HIDE DEF logged, point
  <2> QED OBVIOUS
<1> HIDE DEF logged, resumed, history
<1>7. Shaped(logged) /\ logged.read = d.read
  BY <1>5 DEF Shaped
<1>8. [logged EXCEPT !.resume = resumed] =
        [titles |-> d.titles, links |-> d.links, chapters |-> d.chapters,
         chapterLinks |-> d.chapterLinks, resume |-> resumed, read |-> d.read, history |-> history,
         beside |-> d.beside]
  BY <1>5
<1> DEFINE e == [logged EXCEPT !.resume = resumed]
<1> HIDE DEF e
<1>9. Shaped(e) /\ e.read = d.read
  BY <1>5, <1>6, <1>8 DEF Shaped, e
<1> HIDE DEF started
<1> QED BY <1>3, <1>7, <1>9 DEF e, B!Reads

LEMMA MergeKeeps == ASSUME NEW d, NEW p, NEW title, NEW item PROVE Kept(d, B!ImportMerge(d, p, title, item))
<1> SUFFICES ASSUME Shaped(d)
             PROVE  LET e == B!ImportMerge(d, p, title, item) IN Shaped(e) /\ B!Reads(d) \subseteq B!Reads(e)
  BY DEF Kept
<1> DEFINE source == B!Target(p, item.source)
           held == {l \in d.links : l.source = source /\ l.locator = item.locator}
           found == B!Recorded(d.links, CHOOSE l \in held : TRUE, item.locator)
           made == d.links \cup {[title |-> title, source |-> source, locator |-> item.locator,
                                  imported |-> item.locator, primary |-> FALSE]}
<1>1. ASSUME NEW links, \A l \in links : {"source", "title", "locator"} \subseteq DOMAIN l
      PROVE  LET e == [d EXCEPT !.links = links] IN Shaped(e) /\ e.read = d.read
  BY <1>1 DEF Shaped
<1>2. \A l \in found : {"source", "title", "locator"} \subseteq DOMAIN l
  BY DEF B!Recorded, Shaped
<1>3. \A l \in made : {"source", "title", "locator"} \subseteq DOMAIN l
  BY DEF Shaped
<1> DEFINE linked == IF held # {} THEN found ELSE made
           facts == {B!Merge(title, source, item.locator)}
           e == [d EXCEPT !.links = linked]
<1>4. B!ImportMerge(d, p, title, item) = IF source = None THEN d ELSE B!Noting(e, facts)
  BY DEF B!ImportMerge
<1> HIDE DEF found, made
<1>5. \A l \in linked : {"source", "title", "locator"} \subseteq DOMAIN l
  BY <1>2, <1>3
<1> HIDE DEF linked
<1>6. Shaped(e) /\ e.read = d.read
  BY <1>1, <1>5
<1> HIDE DEF e, facts
<1>7. Shaped(B!Noting(e, facts)) /\ B!Noting(e, facts).read = d.read
  BY <1>6, NotingKeeps
<1> QED BY <1>4, <1>7 DEF B!Reads

\* The title of a record: a new row, or the one that answers.
Titled(d, title, source, record) ==
    LET found == B!Answering(d.links, source, record.locator) IN
    IF found = {}
    THEN [d EXCEPT !.titles = Append(@, [source |-> source, inLibrary |-> record.favorite]),
                   !.links = @ \cup {[title |-> title, source |-> source, locator |-> record.locator,
                                      imported |-> record.locator, primary |-> TRUE]}]
    ELSE [d EXCEPT !.titles[title].inLibrary = @ \/ record.favorite,
                   !.links = B!Recorded(@, CHOOSE l \in found : TRUE, record.locator)]

LEMMA TitledKeeps ==
    ASSUME NEW d, NEW title, NEW source, NEW record
    PROVE  Kept(d, Titled(d, title, source, record))
<1> SUFFICES ASSUME Shaped(d)
             PROVE  LET e == Titled(d, title, source, record) IN Shaped(e) /\ B!Reads(d) \subseteq B!Reads(e)
  BY DEF Kept
<1> DEFINE found == B!Answering(d.links, source, record.locator)
           titles == IF found = {} THEN Append(d.titles, [source |-> source, inLibrary |-> record.favorite])
                     ELSE [d.titles EXCEPT ![title].inLibrary = @ \/ record.favorite]
           links == IF found = {}
                    THEN d.links \cup {[title |-> title, source |-> source, locator |-> record.locator,
                                        imported |-> record.locator, primary |-> TRUE]}
                    ELSE B!Recorded(d.links, CHOOSE l \in found : TRUE, record.locator)
<1>1. IsList(titles)
  <2>1. CASE found = {}
    BY <2>1, ListAppend DEF Shaped
  <2>2. CASE found # {}
    <3> DEFINE new == [d.titles EXCEPT ![title].inLibrary = @ \/ record.favorite]
    <3>1. Len(d.titles) \in Nat /\ DOMAIN d.titles = 1..Len(d.titles)
      BY ListIs DEF Shaped
    <3>2. new = [i \in 1..Len(d.titles) |-> new[i]]
      BY <3>1
    <3> HIDE DEF new
    <3>3. IsList(new)
      BY <3>1, <3>2, ListOf
    <3> QED BY <2>2, <3>3 DEF new
  <2> QED BY <2>1, <2>2
<1>2. \A l \in links : {"source", "title", "locator"} \subseteq DOMAIN l
  BY DEF B!Recorded, Shaped
<1>3. Titled(d, title, source, record) =
        [titles |-> titles, links |-> links, chapters |-> d.chapters, chapterLinks |-> d.chapterLinks,
         resume |-> d.resume, read |-> d.read, history |-> d.history, beside |-> d.beside]
  <2>1. CASE found = {}
    BY <2>1 DEF Titled, Shaped
  <2>2. CASE found # {}
    BY <2>2 DEF Titled, Shaped
  <2> QED BY <2>1, <2>2
<1> HIDE DEF titles, links
<1> QED BY <1>1, <1>2, <1>3 DEF Shaped, B!Reads

LEMMA TitleKeeps ==
    ASSUME NEW d, NEW p, NEW record, NEW n \in Nat, DOMAIN record.chapters = 1..n, IsFiniteSet(record.merges)
    PROVE  Kept(d, B!ImportTitle(d, p, record))
<1> DEFINE source == B!Target(p, record.source)
           found == B!Answering(d.links, source, record.locator)
           title == IF found = {} THEN Len(d.titles) + 1 ELSE (CHOOSE l \in found : TRUE).title
           titled == Titled(d, title, source, record)
           facts == IF record.own THEN {B!Own(title)} ELSE {}
           noted == B!Noting(titled, facts)
           chaptered == ChaptersLoop(title, source, noted, record.chapters)
           logged == B!ImportHistory(chaptered, title, source, record.chapters, p.now)
           merged == MergesLoop(p, title, logged, B!SetToSeq(record.merges))
<1>1. B!ImportTitle(d, p, record) = IF source = None THEN d ELSE merged
  BY DEF B!ImportTitle, Titled, ChaptersLoop, MergesLoop
<1>2. Kept(d, titled)
  BY TitledKeeps
<1>6. Kept(titled, noted)
  <2> HIDE DEF titled, facts
  <2> QED BY NotingKeeps DEF Kept, B!Reads
<1>3. Kept(noted, chaptered)
  <2> HIDE DEF title, source, noted
  <2>1. \A e : \A i \in 1..n : Kept(e, B!ImportChapter(e, title, source, record.chapters[i]))
    BY ChapterKeeps
  <2> QED BY <2>1, ChaptersFold
<1>4. Kept(chaptered, logged)
  <2> HIDE DEF title, source, chaptered
  <2> QED BY HistoryKeeps
<1>5. Kept(logged, merged)
  <2> HIDE DEF title, source, logged
  <2> DEFINE items == B!SetToSeq(record.merges)
  <2>1. IsList(items)
    BY SetInOrder
  <2>2. Len(items) \in Nat /\ DOMAIN items = 1..Len(items)
    <3> HIDE DEF items
    <3> QED BY <2>1, ListIs
  <2>3. \A e : \A i \in 1..Len(items) : Kept(e, B!ImportMerge(e, p, title, items[i]))
    BY MergeKeeps
  <2> HIDE DEF items
  <2>4. Kept(logged, MergesLoop(p, title, logged, items))
    BY <2>2, <2>3, MergesFold
  <2> QED BY <2>4 DEF items
<1> HIDE DEF titled, noted, chaptered, logged, merged
<1> QED BY <1>1, <1>2, <1>3, <1>4, <1>5, <1>6 DEF Kept

LEMMA ImportKeeps == ASSUME B!ImportsAssumption, NEW d, NEW p, p.file \in Files PROVE Kept(d, B!Imported(d, p))
<1>1. p.file \in Seq(B!ToSet(p.file))
  BY DEF B!ImportsAssumption
<1>2. Len(p.file) \in Nat /\ DOMAIN p.file = 1..Len(p.file)
  BY <1>1
<1>3. ASSUME NEW e, NEW i \in 1..Len(p.file) PROVE Kept(e, B!ImportTitle(e, p, p.file[i]))
  <2> DEFINE record == p.file[i]
  <2>1. record.chapters \in Seq(B!ToSet(record.chapters)) /\ B!IsFiniteSet(record.merges)
    BY <1>2 DEF B!ImportsAssumption
  <2>2. IsFiniteSet(record.merges)
    BY <2>1 DEF B!IsFiniteSet, IsFiniteSet
  <2> HIDE DEF record
  <2>3. Len(record.chapters) \in Nat /\ DOMAIN record.chapters = 1..Len(record.chapters)
    BY <2>1
  <2>4. Kept(e, B!ImportTitle(e, p, record))
    BY <2>2, <2>3, TitleKeeps
  <2> QED BY <2>4 DEF record
<1>4. B!Imported(d, p) = TitlesLoop(p, d, p.file)
  BY DEF B!Imported, TitlesLoop
<1> QED BY <1>2, <1>3, <1>4, TitlesFold

-----------------------------------------------------------------------------
(* A document over the tables                                              *)

LEMMA ListOver == ASSUME NEW s, IsList(s), NEW t, IsList(t) PROVE IsList(B!Over(s, t))
<1>1. PICK S : s \in Seq(S)
  BY DEF IsList
<1>2. PICK T : t \in Seq(T)
  BY DEF IsList
<1>3. s \in Seq(S \cup T) /\ t \in Seq(S \cup T)
  BY <1>1, <1>2
<1>4. SubSeq(t, Len(s) + 1, Len(t)) \in Seq(S \cup T)
  BY <1>3
<1>5. B!Over(s, t) \in Seq(S \cup T)
  BY <1>3, <1>4 DEF B!Over
<1> QED BY <1>5 DEF IsList

LEMMA LogOver == ASSUME NEW s, IsLog(s), NEW t, IsLog(t) PROVE IsLog(B!Over(s, t))
<1>1. PICK S : s \in Seq(S) /\ \A e \in S : "chapter" \in DOMAIN e
  BY DEF IsLog
<1>2. PICK T : t \in Seq(T) /\ \A e \in T : "chapter" \in DOMAIN e
  BY DEF IsLog
<1>3. s \in Seq(S \cup T) /\ t \in Seq(S \cup T)
  BY <1>1, <1>2
<1>4. SubSeq(t, Len(s) + 1, Len(t)) \in Seq(S \cup T)
  BY <1>3
<1>5. B!Over(s, t) \in Seq(S \cup T) /\ \A e \in S \cup T : "chapter" \in DOMAIN e
  BY <1>1, <1>2, <1>3, <1>4 DEF B!Over
<1> QED BY <1>5 DEF IsLog

LEMMA OverwrittenKeeps ==
    ASSUME NEW d, Shaped(d), NEW doc, Shaped(doc)
    PROVE  LET e == B!Overwritten(d, doc) IN
           Shaped(e) /\ \A c \in B!Reads(d) \ B!Reads(e) : c \in DOMAIN doc.read /\ ~doc.read[c]
<1> DEFINE same(l, k) == l.source = k.source /\ l.locator = k.locator
           linked(l) == [l EXCEPT !.imported = IF \E k \in d.links : same(l, k)
                                               THEN (CHOOSE k \in d.links : same(l, k)).imported ELSE None]
           held(l) == {k \in d.chapterLinks : k.chapter = l.chapter /\ k.source = l.source}
           relinked(l) == [l EXCEPT !.imported = IF held(l) = {} THEN None ELSE (CHOOSE k \in held(l) : TRUE).imported]
           links == {linked(l) : l \in doc.links} \cup {k \in d.links : \A l \in doc.links : ~same(l, k)}
           chapterLinks == {relinked(l) : l \in doc.chapterLinks}
                              \cup {k \in d.chapterLinks : \A l \in doc.chapterLinks : k \notin held(l)}
           titles == B!Over(doc.titles, d.titles)
           chapters == B!Over(doc.chapters, d.chapters)
           history == B!Over(doc.history, d.history)
           resume == B!Replacing(doc.resume, d.resume)
           read == B!Replacing(doc.read, d.read)
<1>1. B!Overwritten(d, doc) = [titles |-> titles, links |-> links, chapters |-> chapters, chapterLinks |-> chapterLinks,
                             resume |-> resume, read |-> read, history |-> history, beside |-> d.beside]
  BY DEF B!Overwritten
<1>2. \A l \in links : {"source", "title", "locator"} \subseteq DOMAIN l
  <2> HIDE DEF same
  <2> QED BY DEF Shaped
<1>3. \A l \in chapterLinks : {"source", "chapter", "locator"} \subseteq DOMAIN l
  <2> HIDE DEF held
  <2> QED BY DEF Shaped
<1>4. IsList(titles) /\ IsList(chapters) /\ IsLog(history)
  BY ListOver, LogOver DEF Shaped
<1>5. resume = [t \in DOMAIN resume |-> resume[t]] /\ read = [c \in DOMAIN read |-> read[c]]
  BY DEF B!Replacing
<1>6. \A c \in DOMAIN d.read : c \in DOMAIN read /\ (c \notin DOMAIN doc.read => read[c] = d.read[c])
                               /\ (c \in DOMAIN doc.read => read[c] = doc.read[c])
  BY DEF B!Replacing
<1> HIDE DEF links, chapterLinks, titles, chapters, history, resume, read
<1>7. Shaped(B!Overwritten(d, doc)) /\ B!Overwritten(d, doc).read = read
  BY <1>1, <1>2, <1>3, <1>4, <1>5 DEF Shaped
<1> QED BY <1>6, <1>7 DEF B!Reads

LEMMA OverNone == ASSUME NEW s, IsList(s) PROVE B!Over(s, <<>>) = s
<1>1. PICK S : s \in Seq(S)
  BY DEF IsList
<1>2. SubSeq(<<>>, Len(s) + 1, Len(<<>>)) = <<>>
  BY <1>1
<1>3. B!Over(s, <<>>) = s \o <<>>
  BY <1>2 DEF B!Over
<1> QED BY <1>1, <1>3

LEMMA ReplacedByNone == ASSUME NEW f, f = [x \in DOMAIN f |-> f[x]] PROVE B!Replacing(f, <<>>) = f
<1>1. DOMAIN <<>> = {}
  OBVIOUS
<1> DEFINE g == B!Replacing(f, <<>>)
<1>2. DOMAIN g = DOMAIN f /\ (\A x \in DOMAIN f : g[x] = f[x]) /\ g = [x \in DOMAIN g |-> g[x]]
  BY <1>1 DEF B!Replacing
<1> HIDE DEF g
<1>3. g = f
  BY <1>2
<1> QED BY <1>3 DEF g

LEMMA EmptyIs == Shaped(B!Empty) /\ B!Unique(B!Empty) /\ B!Referenced(B!Empty)
<1>2. IsList(<<>>) /\ IsLog(<<>>)
  <2> DEFINE S == {}
  <2>1. <<>> \in Seq(S) /\ \A e \in S : "chapter" \in DOMAIN e
    OBVIOUS
  <2> HIDE DEF S
  <2>2. IsList(<<>>)
    BY <2>1 DEF IsList
  <2>3. IsLog(<<>>)
    BY <2>1 DEF IsLog
  <2> QED BY <2>2, <2>3
<1>3. DOMAIN <<>> = {} /\ <<>> = [t \in DOMAIN <<>> |-> <<>>[t]]
  OBVIOUS
<1>4. Shaped(B!Empty)
  BY <1>2, <1>3 DEF Shaped, B!Empty
<1> QED BY <1>3, <1>4 DEF B!Empty, B!Unique, B!Referenced, B!ToSet

\* What a document taken at rest makes of an empty library is the library, without the
\* imported locators and without what is beside the tables.
LEMMA DocumentReproduces ==
    ASSUME NEW d, Shaped(d), B!Unique(d), B!Referenced(d)
    PROVE  B!Restored(B!Empty, d) = B!Portable(d)
<1> DEFINE links == {[l EXCEPT !.imported = None] : l \in d.links}
           chapterLinks == {[l EXCEPT !.imported = None] : l \in d.chapterLinks}
           e == [titles |-> d.titles, links |-> links, chapters |-> d.chapters, chapterLinks |-> chapterLinks,
                 resume |-> d.resume, read |-> d.read, history |-> d.history, beside |-> {}]
<1>1. B!Portable(d) = e
  <2>1. B!Portable(d) = [d EXCEPT !.links = links, !.chapterLinks = chapterLinks, !.beside = {}]
    BY DEF B!Portable
  <2> HIDE DEF links, chapterLinks
  <2> QED BY <2>1 DEF Shaped
<1>2. /\ B!Empty.titles = <<>> /\ B!Empty.links = {} /\ B!Empty.chapters = <<>> /\ B!Empty.chapterLinks = {}
      /\ B!Empty.resume = <<>> /\ B!Empty.read = <<>> /\ B!Empty.history = <<>> /\ B!Empty.beside = {}
  BY DEF B!Empty
<1>3. B!Over(d.titles, <<>>) = d.titles /\ B!Over(d.chapters, <<>>) = d.chapters /\ B!Over(d.history, <<>>) = d.history
  BY OverNone, LogIs DEF Shaped
<1>4. B!Replacing(d.resume, <<>>) = d.resume /\ B!Replacing(d.read, <<>>) = d.read
  BY ReplacedByNone DEF Shaped
<1>5. B!Overwritten(B!Empty, d) = e
  BY <1>2, <1>3, <1>4 DEF B!Overwritten
<1>6. \A l : {"source", "title", "locator"} \subseteq DOMAIN l =>
         LET k == [l EXCEPT !.imported = None] IN k.source = l.source /\ k.title = l.title /\ k.locator = l.locator
  OBVIOUS
<1>7. \A l : {"source", "chapter", "locator"} \subseteq DOMAIN l =>
         LET k == [l EXCEPT !.imported = None] IN k.source = l.source /\ k.chapter = l.chapter /\ k.locator = l.locator
  OBVIOUS
<1>8. \A k \in links : \E l \in d.links :
         k = [l EXCEPT !.imported = None] /\ k.source = l.source /\ k.title = l.title /\ k.locator = l.locator
  BY <1>6 DEF Shaped
<1>9. \A k \in chapterLinks : \E l \in d.chapterLinks :
         k = [l EXCEPT !.imported = None] /\ k.source = l.source /\ k.chapter = l.chapter /\ k.locator = l.locator
  BY <1>7 DEF Shaped
<1> HIDE DEF links, chapterLinks
<1>10. /\ \A l, k \in links : (l.source = k.source /\ (l.title = k.title \/ l.locator = k.locator)) => l = k
       /\ \A l, k \in chapterLinks :
             (l.source = k.source /\ (l.chapter = k.chapter \/ l.locator = k.locator)) => l = k
  BY <1>8, <1>9 DEF B!Unique
<1>11. B!Unique(e)
  BY <1>10 DEF B!Unique
<1>12. B!Referenced(e)
  BY <1>8, <1>9 DEF B!Referenced
<1> QED BY <1>1, <1>5, <1>11, <1>12 DEF B!Restored, B!Committed

-----------------------------------------------------------------------------
(* The inductive invariant                                                 *)

\* What is left of a snapshot after its first n steps.
Course == <<"titles", "links", "chapters", "chapterLinks", "resume", "read", "history", "rename", "prune">>
Left(n) == [i \in 1..(9 - n) |-> Course[n + i]]

\* A snapshot under way has read tables of the library, which nothing has changed since
\* unless it is torn; until it has its name no snapshot on the shelf has its number.
WriterOK(w) ==
    /\ w = [todo |-> w.todo, doc |-> w.doc, torn |-> w.torn] /\ Shaped(w.doc)
    /\ \E n \in 0..8 :
          /\ w.todo = Left(n)
          /\ n <= 7 => \A i \in DOMAIN shelf : shelf[i].number < counts.export
          /\ ~w.torn => \A k \in 1..n : k <= 7 => w.doc[Course[k]] = db[Course[k]]

ShelfOK ==
    /\ IsList(shelf)
    /\ \A i \in DOMAIN shelf :
          Shaped(shelf[i].doc) /\ shelf[i].number \in Nat /\ shelf[i].number <= counts.export
    /\ \A i, j \in DOMAIN shelf : i < j => shelf[i].number < shelf[j].number

LibraryOK == Shaped(db) /\ B!Unique(db) /\ B!Referenced(db)

BackupInv ==
    /\ LibraryOK /\ ShelfOK /\ (writer # None => WriterOK(writer))
    /\ counts \in [B!Kinds -> Nat]
    /\ plan # None => plan.file \in Files

LEMMA LeftIs ==
    ASSUME NEW n \in 0..8
    PROVE  /\ Left(n) \in Seq({Course[k] : k \in 1..9}) /\ Len(Left(n)) = 9 - n
           /\ Head(Left(n)) = Course[n + 1]
           /\ n < 8 => Tail(Left(n)) = Left(n + 1)
<1>1. Left(n) \in [1..(9 - n) -> {Course[k] : k \in 1..9}]
  BY DEF Left
<1>2. Left(n) \in Seq({Course[k] : k \in 1..9})
  BY <1>1
<1>3. Len(Left(n)) = 9 - n
  <2>1. Len(Left(n)) \in Nat /\ 1..Len(Left(n)) = 1..(9 - n)
    BY <1>1, <1>2
  <2> QED BY <2>1
<1>4. Head(Left(n)) = Course[n + 1]
  BY <1>2, <1>3 DEF Left
<1>5. ASSUME n < 8 PROVE Tail(Left(n)) = Left(n + 1)
  <2>1. Tail(Left(n)) \in Seq({Course[k] : k \in 1..9}) /\ Len(Tail(Left(n))) = 8 - n
    BY <1>2, <1>3, <1>5
  <2>2. \A i \in 1..(8 - n) : Tail(Left(n))[i] = Left(n)[i + 1]
    BY <1>2, <1>3, <1>5
  <2>3. \A i \in 1..(8 - n) : Left(n)[i + 1] = Course[(n + 1) + i]
    BY DEF Left
  <2>4. Left(n + 1) = [i \in 1..(8 - n) |-> Course[(n + 1) + i]]
    BY DEF Left
  <2> QED BY <2>1, <2>2, <2>3, <2>4
<1> QED BY <1>2, <1>3, <1>4, <1>5

LEMMA CourseIs ==
    /\ Course \in [1..9 -> {Course[k] : k \in 1..9}]
    /\ Course[1] = "titles" /\ Course[2] = "links" /\ Course[3] = "chapters" /\ Course[4] = "chapterLinks"
    /\ Course[5] = "resume" /\ Course[6] = "read" /\ Course[7] = "history"
    /\ Course[8] = "rename" /\ Course[9] = "prune"
BY DEF Course

LEMMA Joined ==
    ASSUME NEW R, NEW s \in Seq(R), NEW t \in Seq(R)
    PROVE  s \o t = [k \in 1..(Len(s) + Len(t)) |-> IF k <= Len(s) THEN s[k] ELSE t[k - Len(s)]]
<1>1. Len(s) \in Nat /\ Len(t) \in Nat
  OBVIOUS
<1>2. s \o t \in Seq(R) /\ Len(s \o t) = Len(s) + Len(t)
  OBVIOUS
<1>3. \A k \in 1..(Len(s) + Len(t)) : (s \o t)[k] = IF k <= Len(s) THEN s[k] ELSE t[k - Len(s)]
  OBVIOUS
<1> DEFINE u == s \o t
<1>4. IsList(u)
  BY <1>2 DEF IsList
<1>5. Len(u) = Len(s) + Len(t) /\ \A k \in 1..Len(u) : u[k] = IF k <= Len(s) THEN s[k] ELSE t[k - Len(s)]
  BY <1>2, <1>3
<1> HIDE DEF u
<1>6. u = [k \in 1..Len(u) |-> u[k]]
  BY <1>4, ListIs
<1>7. u = [k \in 1..(Len(s) + Len(t)) |-> IF k <= Len(s) THEN s[k] ELSE t[k - Len(s)]]
  BY <1>5, <1>6
<1> QED BY <1>7 DEF u

LEMMA CourseBegins == B!Tables \o <<"rename", "prune">> = Left(0)
<1> DEFINE T == B!Tables
           U == <<"rename", "prune">>
           S == {Course[k] : k \in 1..9}
<1>1. T \in Seq(S) /\ Len(T) = 7 /\ U \in Seq(S) /\ Len(U) = 2
      /\ (\A k \in 1..7 : T[k] = Course[k]) /\ U[1] = Course[8] /\ U[2] = Course[9]
  <2>1. /\ T[1] = "titles" /\ T[2] = "links" /\ T[3] = "chapters" /\ T[4] = "chapterLinks"
        /\ T[5] = "resume" /\ T[6] = "read" /\ T[7] = "history" /\ U[1] = "rename" /\ U[2] = "prune"
        /\ T = [k \in 1..7 |-> T[k]] /\ U = [k \in 1..2 |-> U[k]]
    BY DEF B!Tables
  <2> HIDE DEF T, U
  <2>2. (\A k \in 1..7 : T[k] = Course[k]) /\ U[1] = Course[8] /\ U[2] = Course[9]
    BY <2>1, CourseIs
  <2>3. T \in [1..7 -> S] /\ U \in [1..2 -> S]
    BY <2>1, <2>2
  <2>4. T \in Seq(S) /\ U \in Seq(S) /\ Len(T) = 7 /\ Len(U) = 2
    BY <2>1, <2>3, ListOf
  <2> QED BY <2>2, <2>4
<1> HIDE DEF T, U
<1>3. \A k \in 1..9 : Course[k] = IF k <= 7 THEN T[k] ELSE U[k - 7]
  <2>1. ASSUME NEW k \in 8..9 PROVE Course[k] = U[k - 7]
    <3>1. k = 8 \/ k = 9
      OBVIOUS
    <3> QED BY <1>1, <3>1
  <2> QED BY <1>1, <2>1
<1>4. T \o U = [k \in 1..9 |-> Course[k]]
  <2>1. T \o U = [k \in 1..9 |-> IF k <= 7 THEN T[k] ELSE U[k - 7]]
    <3> HIDE DEF S
    <3>1. T \o U = [k \in 1..(Len(T) + Len(U)) |-> IF k <= Len(T) THEN T[k] ELSE U[k - Len(T)]]
      BY <1>1, Joined
    <3>2. Len(T) = 7 /\ Len(T) + Len(U) = 9
      BY <1>1
    <3> QED BY <3>1, <3>2
  <2> QED BY <1>3, <2>1
<1>5. Left(0) = [k \in 1..9 |-> Course[k]]
  BY DEF Left
<1> QED BY <1>4, <1>5 DEF T, U

LEMMA TableNames ==
    /\ \A k \in 1..7 : Course[k] \in {"titles", "links", "chapters", "chapterLinks", "resume", "read", "history"}
    /\ Course[8] = "rename" /\ Course[9] = "prune"
    /\ \A t \in {"titles", "links", "chapters", "chapterLinks", "resume", "read", "history"} :
          \E k \in 1..7 : Course[k] = t
    /\ \A k, j \in 1..9 : Course[k] = Course[j] => k = j
BY CourseIs

-----------------------------------------------------------------------------
(* The steps                                                               *)

LEMMA CommittedKeeps ==
    ASSUME NEW d, Shaped(d), B!Unique(d), B!Referenced(d), NEW after, Shaped(after)
    PROVE  LET e == B!Committed(d, after) IN
           /\ Shaped(e) /\ B!Unique(e) /\ B!Referenced(e)
           /\ e \in {d, after}
BY DEF B!Committed

LEMMA Counted ==
    ASSUME counts \in [B!Kinds -> Nat], NEW kind \in B!Kinds, B!Count(kind)
    PROVE  /\ counts' \in [B!Kinds -> Nat] /\ counts.export <= counts'.export
           /\ kind # "restore" => counts'.restore = counts.restore
           /\ kind = "export" => counts'.export = counts.export + 1
BY DEF B!Count, B!Kinds

LEMMA ShelfStays ==
    ASSUME ShelfOK, UNCHANGED shelf, counts \in [B!Kinds -> Nat], counts' \in [B!Kinds -> Nat],
           counts.export <= counts'.export
    PROVE  ShelfOK'
BY DEF ShelfOK, B!Kinds

\* What is written under a snapshot tears it.
LEMMA TornStays ==
    ASSUME writer # None => WriterOK(writer), B!Tear, UNCHANGED shelf, ShelfOK,
           counts \in [B!Kinds -> Nat], counts' \in [B!Kinds -> Nat], counts.export <= counts'.export
    PROVE  (writer # None => WriterOK(writer))'
<1> SUFFICES ASSUME writer' # None PROVE WriterOK(writer)'
  OBVIOUS
<1>1. writer # None /\ WriterOK(writer)
  BY DEF B!Tear
<1>2. writer' = [todo |-> writer.todo, doc |-> writer.doc, torn |-> TRUE]
  BY <1>1 DEF B!Tear, WriterOK
<1>3. PICK n \in 0..8 : /\ writer.todo = Left(n)
                        /\ n <= 7 => \A i \in DOMAIN shelf : shelf[i].number < counts.export
  BY <1>1 DEF WriterOK
<1>4. n <= 7 => \A i \in DOMAIN shelf' : shelf'[i].number < counts'.export
  BY <1>3 DEF ShelfOK, B!Kinds
<1>5. writer'.todo = Left(n) /\ writer'.torn /\ writer'.doc = writer.doc
  BY <1>2, <1>3
<1>6. Shaped(writer'.doc)
  BY <1>1, <1>5 DEF WriterOK
<1>7. writer' = [todo |-> writer'.todo, doc |-> writer'.doc, torn |-> writer'.torn]
  BY <1>2
<1> HIDE DEF Left
<1> QED BY <1>4, <1>5, <1>6, <1>7 DEF WriterOK

\* The daemon writes: an import, a restore, a locator that is healed, a chapter that is read.
LEMMA WritesKeep ==
    ASSUME BackupInv, LibraryOK', B!Tear, UNCHANGED shelf, plan' \in {None, plan},
           counts' \in [B!Kinds -> Nat], counts.export <= counts'.export
    PROVE  BackupInv'
<1>1. ShelfOK' /\ (writer # None => WriterOK(writer))'
  BY ShelfStays, TornStays DEF BackupInv
<1> QED BY <1>1 DEF BackupInv

\* Nothing is written, and the snapshot under way goes on or is given up.
LEMMA QuietKeeps ==
    ASSUME BackupInv, UNCHANGED <<db, shelf>>, writer' \in {writer, None},
           plan' # None => plan'.file \in Files,
           counts' \in [B!Kinds -> Nat], counts.export <= counts'.export
    PROVE  BackupInv'
<1>1. ShelfOK'
  BY ShelfStays DEF BackupInv
<1>2. ASSUME writer' # None PROVE WriterOK(writer)'
  <2>1. writer' = writer /\ WriterOK(writer)
    BY <1>2 DEF BackupInv
  <2>2. PICK n \in 0..8 : /\ writer.todo = Left(n)
                          /\ n <= 7 => \A i \in DOMAIN shelf : shelf[i].number < counts.export
                          /\ ~writer.torn => \A k \in 1..n : k <= 7 => writer.doc[Course[k]] = db[Course[k]]
    BY <2>1 DEF WriterOK
  <2>3. n <= 7 => \A i \in DOMAIN shelf' : shelf'[i].number < counts'.export
    BY <2>2 DEF BackupInv, ShelfOK, B!Kinds
  <2> HIDE DEF Left, Course
  <2> QED BY <2>1, <2>2, <2>3 DEF WriterOK
<1> QED BY <1>1, <1>2 DEF BackupInv, LibraryOK

\* The three promises of a step that leaves the shelf alone.
Promised == B!SnapshotHoldsLibrary /\ B!PruneKeepsNewest /\ B!ReadSurvives

LEMMA ShelfRests ==
    ASSUME BackupInv, UNCHANGED shelf,
           moved' = moved =>
              \/ UNCHANGED plan /\ counts'.restore = counts.restore
              \/ B!Reads(db) \subseteq B!Reads(db')
    PROVE  Promised
<1>1. Len(shelf) \in Nat
  BY ListIs DEF BackupInv, ShelfOK
<1>2. B!SnapshotHoldsLibrary
  BY <1>1 DEF B!SnapshotHoldsLibrary
<1>3. B!PruneKeepsNewest
  BY DEF B!PruneKeepsNewest
<1> QED BY <1>2, <1>3 DEF Promised, B!ReadSurvives

LEMMA PlanKeeps ==
    ASSUME BackupInv, NEW f \in Files, NEW skip, B!Plan(f, skip) PROVE BackupInv' /\ Promised
<1>1. counts' \in [B!Kinds -> Nat] /\ counts.export <= counts'.export
  BY Counted DEF B!Plan, BackupInv, B!Kinds
<1>2. BackupInv'
  BY <1>1, QuietKeeps DEF B!Plan
<1>3. Promised
  BY ShelfRests DEF B!Plan
<1> QED BY <1>2, <1>3

LEMMA ImportStepKeeps == ASSUME B!ImportsAssumption, BackupInv, B!Import PROVE BackupInv' /\ Promised
<1>1. Kept(db, B!Imported(db, plan))
  BY ImportKeeps DEF B!Import, BackupInv
<1> DEFINE after == B!Imported(db, plan)
<1>2. LibraryOK' /\ B!Reads(db) \subseteq B!Reads(db')
  <2>1. Shaped(db) /\ B!Unique(db) /\ B!Referenced(db)
    BY DEF BackupInv, LibraryOK
  <2>2. Shaped(after) /\ B!Reads(db) \subseteq B!Reads(after)
    BY <1>1, <2>1 DEF Kept
  <2>3. db' = B!Committed(db, after)
    BY DEF B!Import
  <2> HIDE DEF after
  <2> QED BY <2>1, <2>2, <2>3, CommittedKeeps DEF LibraryOK
<1>3. BackupInv'
  <2>1. counts' \in [B!Kinds -> Nat] /\ counts.export <= counts'.export
    BY DEF B!Import, BackupInv, B!Kinds
  <2> QED BY <1>2, <2>1, WritesKeep DEF B!Import
<1>4. Promised
  BY <1>2, ShelfRests DEF B!Import
<1> QED BY <1>3, <1>4

LEMMA RestoreKeeps ==
    ASSUME BackupInv, NEW i \in DOMAIN shelf, B!Restore(i) PROVE BackupInv' /\ Promised
<1> DEFINE doc == shelf[i].doc
           after == B!Overwritten(db, doc)
<1>1. Shaped(db) /\ B!Unique(db) /\ B!Referenced(db) /\ Shaped(doc) /\ Len(shelf) \in Nat
  BY ListIs DEF BackupInv, LibraryOK, ShelfOK
<1>2. Shaped(after) /\ \A c \in B!Reads(db) \ B!Reads(after) : c \in DOMAIN doc.read /\ ~doc.read[c]
  <2> HIDE DEF doc
  <2> QED BY <1>1, OverwrittenKeeps
<1>3. db' = B!Committed(db, after)
  BY DEF B!Restore, B!Restored
<1>4. LibraryOK' /\ db' \in {db, after}
  <2> HIDE DEF after, doc
  <2> QED BY <1>1, <1>2, <1>3, CommittedKeeps DEF LibraryOK
<1>5. BackupInv'
  <2>1. counts' \in [B!Kinds -> Nat] /\ counts.export <= counts'.export
    BY Counted DEF B!Restore, BackupInv, B!Kinds
  <2> QED BY <1>4, <2>1, WritesKeep DEF B!Restore
<1>6. B!ReadSurvives
  <2>1. ASSUME NEW c \in B!Reads(db) \ B!Reads(db') PROVE B!Denied(c)
    <3>1. db' = after
      BY <1>4
    <3>2. c \in DOMAIN doc.read /\ ~doc.read[c]
      <4> HIDE DEF after, doc
      <4> QED BY <1>2, <3>1
    <3> QED BY <3>2 DEF B!Denied
  <2>2. UNCHANGED plan
    BY DEF B!Restore
  <2> QED BY <2>1, <2>2 DEF B!ReadSurvives
<1>7. B!SnapshotHoldsLibrary /\ B!PruneKeepsNewest
  <2>1. UNCHANGED shelf
    BY DEF B!Restore
  <2> QED BY <1>1, <2>1 DEF B!SnapshotHoldsLibrary, B!PruneKeepsNewest
<1> QED BY <1>5, <1>6, <1>7 DEF Promised

LEMMA MoveKeeps ==
    ASSUME BackupInv, NEW i \in DOMAIN shelf, B!Move(i) PROVE BackupInv' /\ Promised
<1> DEFINE kept == shelf[i]
<1>1. Shaped(B!Overwritten(B!Empty, shelf[i].doc))
  BY OverwrittenKeeps, EmptyIs DEF BackupInv, ShelfOK
<1>2. LibraryOK'
  BY <1>1, EmptyIs, CommittedKeeps DEF B!Move, B!Restored, LibraryOK
<1>3. counts' \in [B!Kinds -> Nat] /\ counts.export <= counts'.export
  BY Counted DEF B!Move, BackupInv, B!Kinds
<1>4. shelf' \in Seq({kept}) /\ DOMAIN shelf' = {1} /\ Len(shelf') = 1 /\ shelf'[1] = kept
  <2>1. shelf' = <<kept>>
    BY DEF B!Move
  <2> HIDE DEF kept
  <2> QED BY <2>1
<1>5. ShelfOK'
  <2>1. Shaped(kept.doc) /\ kept.number \in Nat /\ kept.number <= counts'.export
    BY <1>3 DEF BackupInv, ShelfOK, B!Kinds
  <2> HIDE DEF kept
  <2> QED BY <1>4, <2>1 DEF ShelfOK, IsList
<1>6. BackupInv'
  BY <1>2, <1>3, <1>5 DEF B!Move, BackupInv
<1>7. Promised
  <2>1. ~(moved' = moved)
    BY DEF B!Move
  <2>2. ~(Len(shelf') > Len(shelf))
    <3>1. Len(shelf) \in Nat /\ i \in 1..Len(shelf)
      BY ListIs DEF BackupInv, ShelfOK
    <3> HIDE DEF kept
    <3> QED BY <1>4, <3>1
  <2> QED BY <2>1, <2>2 DEF Promised, B!SnapshotHoldsLibrary, B!PruneKeepsNewest, B!ReadSurvives
<1> QED BY <1>6, <1>7

LEMMA HealsKeep ==
    ASSUME BackupInv, \/ \E l \in db.links : B!Heal(l)
                      \/ \E l \in db.chapterLinks : B!HealChapter(l)
    PROVE  BackupInv' /\ Promised
<1>1. ASSUME NEW links, \A l \in links : {"source", "title", "locator"} \subseteq DOMAIN l
      PROVE  LET e == [db EXCEPT !.links = links] IN Shaped(e) /\ e.read = db.read
  BY <1>1 DEF Shaped, BackupInv, LibraryOK
<1>2. ASSUME NEW links, \A l \in links : {"source", "chapter", "locator"} \subseteq DOMAIN l
      PROVE  LET e == [db EXCEPT !.chapterLinks = links] IN Shaped(e) /\ e.read = db.read
  BY <1>2 DEF Shaped, BackupInv, LibraryOK
<1> DEFINE Healed == LibraryOK' /\ B!Reads(db) \subseteq B!Reads(db') /\ B!Count("event") /\ B!Tear /\ UNCHANGED <<plan, shelf>>
<1>3. Healed
  <2>1. ASSUME NEW l \in db.links, B!Heal(l) PROVE Healed
    <3> DEFINE links == (db.links \ {l}) \cup {[l EXCEPT !.locator = B!Newer(@)]}
    <3>1. \A k \in links : {"source", "title", "locator"} \subseteq DOMAIN k
      BY DEF BackupInv, LibraryOK, Shaped
    <3> DEFINE after == [db EXCEPT !.links = links]
    <3>2. db' = B!Committed(db, after)
      BY <2>1 DEF B!Heal
    <3>3. Shaped(after) /\ after.read = db.read
      <4> HIDE DEF links
      <4> QED BY <1>1, <3>1
    <3>4. Shaped(db) /\ B!Unique(db) /\ B!Referenced(db)
      BY DEF BackupInv, LibraryOK
    <3>5. B!Count("event") /\ B!Tear /\ UNCHANGED <<plan, shelf>>
      BY <2>1 DEF B!Heal
    <3> HIDE DEF after
    <3>6. LibraryOK' /\ B!Reads(db) \subseteq B!Reads(db')
      <4>1. db' \in {db, after} /\ LibraryOK'
        BY <3>2, <3>3, <3>4, CommittedKeeps DEF LibraryOK
      <4> QED BY <3>3, <4>1 DEF B!Reads
    <3> QED BY <3>5, <3>6
  <2>2. ASSUME NEW l \in db.chapterLinks, B!HealChapter(l) PROVE Healed
    <3> DEFINE links == (db.chapterLinks \ {l}) \cup {[l EXCEPT !.locator = B!Newer(@)]}
    <3>1. \A k \in links : {"source", "chapter", "locator"} \subseteq DOMAIN k
      BY DEF BackupInv, LibraryOK, Shaped
    <3> DEFINE after == [db EXCEPT !.chapterLinks = links]
    <3>2. db' = B!Committed(db, after)
      BY <2>2 DEF B!HealChapter
    <3>3. Shaped(after) /\ after.read = db.read
      <4> HIDE DEF links
      <4> QED BY <1>2, <3>1
    <3>4. Shaped(db) /\ B!Unique(db) /\ B!Referenced(db)
      BY DEF BackupInv, LibraryOK
    <3>5. B!Count("event") /\ B!Tear /\ UNCHANGED <<plan, shelf>>
      BY <2>2 DEF B!HealChapter
    <3> HIDE DEF after
    <3>6. LibraryOK' /\ B!Reads(db) \subseteq B!Reads(db')
      <4>1. db' \in {db, after} /\ LibraryOK'
        BY <3>2, <3>3, <3>4, CommittedKeeps DEF LibraryOK
      <4> QED BY <3>3, <4>1 DEF B!Reads
    <3> QED BY <3>5, <3>6
  <2> QED BY <2>1, <2>2
<1>4. counts' \in [B!Kinds -> Nat] /\ counts.export <= counts'.export
  BY <1>3, Counted DEF BackupInv, B!Kinds
<1>5. BackupInv'
  BY <1>3, <1>4, WritesKeep
<1> QED BY <1>3, <1>5, ShelfRests

LEMMA ReadKeeps == ASSUME BackupInv, NEW c \in DOMAIN db.chapters, B!Read(c) PROVE BackupInv' /\ Promised
<1> DEFINE point == [t \in {db.chapters[c].title} |-> [chapter |-> c, page |-> 1, at |-> B!Today]]
           resume == B!Replacing(point, db.resume)
           read == B!Marked(c, TRUE, db.read)
           history == B!Noted(db.history, c)
<1>1. Shaped(db) /\ B!Unique(db) /\ B!Referenced(db)
  BY DEF BackupInv, LibraryOK
<1>2. db' = [db EXCEPT !.read = read, !.resume = resume, !.history = history]
  BY DEF B!Read
<1>3. db' = [titles |-> db.titles, links |-> db.links, chapters |-> db.chapters, chapterLinks |-> db.chapterLinks,
             resume |-> resume, read |-> read, history |-> history, beside |-> db.beside]
  <2> HIDE DEF resume, read, history
  <2> QED BY <1>1, <1>2 DEF Shaped
<1>4. IsLog(history) /\ \A e \in B!ToSet(history) : e.chapter \in DOMAIN db.chapters
  <2> DEFINE old == db.history
  <2>1. IsLog(old) /\ IsList(old) /\ \A i \in 1..Len(old) : "chapter" \in DOMAIN old[i]
    BY <1>1, LogIs DEF Shaped
  <2>2. Len(old) \in Nat /\ DOMAIN old = 1..Len(old)
    BY <2>1, ListIs
  <2>3. \A i \in 1..Len(old) : old[i].chapter \in DOMAIN db.chapters
    BY <1>1, <2>2 DEF B!Referenced, B!ToSet
  <2>4. CASE \E e \in B!ToSet(old) : e.chapter = c
    <3> DEFINE new == [i \in 1..Len(old) |-> IF old[i].chapter = c THEN [old[i] EXCEPT !.at = B!Today] ELSE old[i]]
    <3>1. history = new
      BY <2>2, <2>4 DEF B!Noted
    <3>2. \A i \in 1..Len(old) : "chapter" \in DOMAIN new[i] /\ new[i].chapter = old[i].chapter
      BY <2>1
    <3>3. new = [i \in 1..Len(old) |-> new[i]] /\ DOMAIN new = 1..Len(old)
      OBVIOUS
    <3> HIDE DEF new, history, old
    <3>4. IsLog(new)
      BY <2>2, <3>2, <3>3, LogOf
    <3>5. \A e \in B!ToSet(new) : e.chapter \in DOMAIN db.chapters
      BY <2>3, <3>2, <3>3 DEF B!ToSet
    <3> QED BY <3>1, <3>4, <3>5
  <2>5. CASE ~\E e \in B!ToSet(old) : e.chapter = c
    <3> DEFINE event == [chapter |-> c, at |-> B!Today]
               one == <<event>>
    <3>1. history = Append(old, event)
      BY <2>5 DEF B!Noted
    <3>2. "chapter" \in DOMAIN event /\ event.chapter = c
      OBVIOUS
    <3> HIDE DEF event, history, old
    <3>3. PICK S : old \in Seq(S) /\ \A e \in S : "chapter" \in DOMAIN e
      BY <2>1 DEF IsLog
    <3>4. Append(old, event) \in Seq(S \cup {event})
      BY <3>3
    <3>5. IsLog(history)
      <4> DEFINE T == S \cup {event}
      <4>1. \A e \in T : "chapter" \in DOMAIN e
        BY <3>2, <3>3
      <4> HIDE DEF T
      <4> QED BY <3>1, <3>4, <4>1 DEF IsLog, T
    <3>6. \A e \in B!ToSet(history) : e = event \/ \E i \in 1..Len(old) : e = old[i]
      BY <3>1, <3>3 DEF B!ToSet
    <3> QED BY <2>3, <3>2, <3>5, <3>6
  <2> QED BY <2>4, <2>5
<1>5. /\ resume = [t \in DOMAIN resume |-> resume[t]]
      /\ \A t \in DOMAIN resume : t \in DOMAIN db.titles /\ resume[t].chapter \in DOMAIN db.chapters
  BY <1>1 DEF B!Replacing, B!Referenced
<1>6. /\ read = [x \in DOMAIN read |-> read[x]] /\ DOMAIN read = DOMAIN db.read \cup {c} /\ read[c] = TRUE
      /\ \A x \in DOMAIN db.read \ {c} : read[x] = db.read[x]
  <2>1. read = [x \in {c} \cup DOMAIN db.read |-> IF x \in {c} THEN TRUE ELSE db.read[x]]
    BY DEF B!Marked, B!Replacing
  <2> HIDE DEF read
  <2> QED BY <2>1
<1> HIDE DEF resume, read, history
<1>7. Shaped(db')
  BY <1>1, <1>3, <1>4, <1>5, <1>6 DEF Shaped
<1>8. B!Unique(db')
  BY <1>1, <1>3 DEF B!Unique
<1>9. B!Referenced(db')
  BY <1>1, <1>3, <1>4, <1>5, <1>6 DEF B!Referenced
<1>10. LibraryOK' /\ B!Reads(db) \subseteq B!Reads(db')
  <2>1. db'.read = read
    BY <1>3
  <2>2. B!Reads(db) \subseteq B!Reads(db')
    BY <1>6, <2>1 DEF B!Reads
  <2> QED BY <1>7, <1>8, <1>9, <2>2 DEF LibraryOK
<1>11. counts' \in [B!Kinds -> Nat] /\ counts.export <= counts'.export
  BY Counted DEF B!Read, BackupInv, B!Kinds
<1>12. BackupInv'
  BY <1>10, <1>11, WritesKeep DEF B!Read
<1> QED BY <1>10, <1>12, ShelfRests DEF B!Read

LEMMA MarkKeeps ==
    ASSUME BackupInv, NEW c \in DOMAIN db.chapters, NEW read, B!Mark(c, read) PROVE BackupInv' /\ Promised
<1> DEFINE marked == B!Marked(c, read, db.read)
<1>1. Shaped(db) /\ B!Unique(db) /\ B!Referenced(db)
  BY DEF BackupInv, LibraryOK
<1>2. marked = [x \in DOMAIN marked |-> marked[x]] /\ DOMAIN marked = DOMAIN db.read \cup {c}
  <2>1. marked = [x \in {c} \cup DOMAIN db.read |-> IF x \in {c} THEN read ELSE db.read[x]]
    BY DEF B!Marked, B!Replacing
  <2> HIDE DEF marked
  <2> QED BY <2>1
<1>3. db' = [titles |-> db.titles, links |-> db.links, chapters |-> db.chapters, chapterLinks |-> db.chapterLinks,
             resume |-> db.resume, read |-> marked, history |-> db.history, beside |-> db.beside]
  <2>1. db' = [db EXCEPT !.read = marked]
    BY DEF B!Mark
  <2> HIDE DEF marked
  <2> QED BY <1>1, <2>1 DEF Shaped
<1> HIDE DEF marked
<1>4. Shaped(db')
  BY <1>1, <1>2, <1>3 DEF Shaped
<1>5. B!Unique(db')
  BY <1>1, <1>3 DEF B!Unique
<1>6. B!Referenced(db')
  BY <1>1, <1>2, <1>3 DEF B!Referenced
<1>7. /\ counts' \in [B!Kinds -> Nat] /\ counts.export <= counts'.export /\ counts'.restore = counts.restore
      /\ B!Tear /\ UNCHANGED <<plan, shelf, moved>>
  BY Counted DEF B!Mark, BackupInv, B!Kinds
<1>8. BackupInv'
  BY <1>4, <1>5, <1>6, <1>7, WritesKeep DEF LibraryOK
<1> QED BY <1>7, <1>8, ShelfRests

LEMMA AnnotateKeeps ==
    ASSUME BackupInv, NEW fact, B!Annotate(fact),
           fact.row \in IF fact.of = "bookmark" THEN DOMAIN db.chapters ELSE DOMAIN db.titles
    PROVE  BackupInv' /\ Promised
<1> DEFINE beside == (db.beside \ {fact}) \cup ({fact} \ db.beside)
<1>1. Shaped(db) /\ B!Unique(db) /\ B!Referenced(db)
  BY DEF BackupInv, LibraryOK
<1>2. db' = [titles |-> db.titles, links |-> db.links, chapters |-> db.chapters, chapterLinks |-> db.chapterLinks,
             resume |-> db.resume, read |-> db.read, history |-> db.history, beside |-> beside]
  <2>1. db' = [db EXCEPT !.beside = beside]
    BY DEF B!Annotate
  <2> HIDE DEF beside
  <2> QED BY <1>1, <2>1 DEF Shaped
<1>3. \A b \in beside : b \in db.beside \/ b = fact
  OBVIOUS
<1> HIDE DEF beside
<1>4. Shaped(db')
  BY <1>1, <1>2 DEF Shaped
<1>5. B!Unique(db')
  BY <1>1, <1>2 DEF B!Unique
<1>6. B!Referenced(db')
  BY <1>1, <1>2, <1>3 DEF B!Referenced
<1>7. /\ counts' \in [B!Kinds -> Nat] /\ counts.export <= counts'.export /\ counts'.restore = counts.restore
      /\ B!Tear /\ UNCHANGED <<plan, shelf, moved>>
  BY Counted DEF B!Annotate, BackupInv, B!Kinds
<1>8. BackupInv'
  BY <1>4, <1>5, <1>6, <1>7, WritesKeep DEF LibraryOK
<1> QED BY <1>7, <1>8, ShelfRests

LEMMA QuietStepsKeep ==
    ASSUME BackupInv, (\E s \in Sources : B!Install(s)) \/ B!Crash PROVE BackupInv' /\ Promised
<1>1. /\ B!Count("event") /\ UNCHANGED <<db, shelf, moved>> /\ writer' \in {writer, None}
      /\ plan' \in {plan, None}
  BY DEF B!Install, B!Crash
<1>2. counts' \in [B!Kinds -> Nat] /\ counts.export <= counts'.export
  BY <1>1, Counted DEF BackupInv, B!Kinds
<1>3. BackupInv'
  BY <1>1, <1>2, QuietKeeps DEF BackupInv
<1> QED BY <1>1, <1>3, ShelfRests

LEMMA BeginKeeps == ASSUME BackupInv, B!BeginExport PROVE BackupInv' /\ Promised
<1>1. counts' \in [B!Kinds -> Nat] /\ counts'.export = counts.export + 1 /\ counts.export \in Nat
  BY Counted DEF B!BeginExport, BackupInv, B!Kinds
<1>2. ShelfOK'
  BY <1>1, ShelfStays DEF B!BeginExport, BackupInv
<1>3. writer' = [todo |-> Left(0), doc |-> B!Empty, torn |-> FALSE]
  <2>1. writer' = [B!Idle EXCEPT !.todo = Left(0)]
    BY CourseBegins DEF B!BeginExport
  <2> HIDE DEF Left
  <2> QED BY <2>1 DEF B!Idle
<1>4. WriterOK(writer)'
  <2>1. \A i \in DOMAIN shelf' : shelf'[i].number < counts'.export
    BY <1>1 DEF B!BeginExport, BackupInv, ShelfOK
  <2>2. writer' = [todo |-> writer'.todo, doc |-> writer'.doc, torn |-> writer'.torn] /\ Shaped(writer'.doc)
    BY <1>3, EmptyIs
  <2>3. writer'.todo = Left(0)
    BY <1>3
  <2> HIDE DEF Left
  <2> QED BY <2>1, <2>2, <2>3 DEF WriterOK
<1>5. BackupInv'
  BY <1>1, <1>2, <1>4 DEF B!BeginExport, BackupInv, LibraryOK
<1> QED BY <1>5, ShelfRests DEF B!BeginExport

\* The tables still to read, by where the writer stands.
LEMMA Stands ==
    ASSUME NEW w, NEW n \in 0..8, w.todo = Left(n)
    PROVE  /\ Head(w.todo) = Course[n + 1]
           /\ Head(w.todo) \notin {"rename", "prune"} <=> n <= 6
           /\ Head(w.todo) = "rename" <=> n = 7
           /\ Head(w.todo) = "prune" <=> n = 8
           /\ n < 8 => Tail(w.todo) = Left(n + 1)
<1>1. Head(w.todo) = Course[n + 1] /\ (n < 8 => Tail(w.todo) = Left(n + 1))
  <2> HIDE DEF Left, Course
  <2> QED BY LeftIs
<1>2. n + 1 \in 1..9 /\ (n <= 6 \/ n = 7 \/ n = 8)
  OBVIOUS
<1>3. n <= 6 => n + 1 \in 1..7
  OBVIOUS
<1>4. ASSUME n <= 6 PROVE Course[n + 1] \notin {"rename", "prune"}
  BY <1>3, <1>4, TableNames
<1> HIDE DEF Left, Course
<1> QED BY <1>1, <1>2, <1>4, TableNames

LEMMA TableKeeps == ASSUME BackupInv, B!ReadTable PROVE BackupInv' /\ Promised
<1>1. writer # None /\ WriterOK(writer) /\ UNCHANGED <<db, installed, plan, shelf, moved, counts>>
  BY DEF BackupInv, B!ReadTable
<1>2. PICK n \in 0..8 :
          /\ writer.todo = Left(n)
          /\ n <= 7 => \A i \in DOMAIN shelf : shelf[i].number < counts.export
          /\ ~writer.torn => \A k \in 1..n : k <= 7 => writer.doc[Course[k]] = db[Course[k]]
  BY <1>1 DEF WriterOK
<1>3. n <= 6 /\ Head(writer.todo) = Course[n + 1] /\ Tail(writer.todo) = Left(n + 1)
  <2> HIDE DEF Left, Course
  <2> QED BY <1>2, Stands DEF B!ReadTable
<1> DEFINE t == Course[n + 1]
           doc == [writer.doc EXCEPT ![t] = db[t]]
<1>4. writer' = [todo |-> Left(n + 1), doc |-> doc, torn |-> writer.torn]
  <2>1. writer = [todo |-> writer.todo, doc |-> writer.doc, torn |-> writer.torn]
    BY <1>1 DEF WriterOK
  <2>2. writer' = [writer EXCEPT !.todo = Left(n + 1), !.doc = doc]
    <3> HIDE DEF Left, Course
    <3> QED BY <1>3 DEF B!ReadTable
  <2> HIDE DEF doc, Left
  <2> QED BY <2>1, <2>2
<1>5. t \in {"titles", "links", "chapters", "chapterLinks", "resume", "read", "history"}
  <2>1. n + 1 \in 1..7
    BY <1>3
  <2> HIDE DEF Course
  <2> QED BY <2>1, TableNames
<1>6. Shaped(writer.doc) /\ Shaped(db)
  BY <1>1 DEF WriterOK, BackupInv, LibraryOK
<1>7. /\ Shaped(doc)
      /\ DOMAIN writer.doc = {"titles", "links", "chapters", "chapterLinks", "resume", "read", "history", "beside"}
  <2> HIDE DEF t
  <2>1. doc = [titles |-> IF t = "titles" THEN db.titles ELSE writer.doc.titles,
               links |-> IF t = "links" THEN db.links ELSE writer.doc.links,
               chapters |-> IF t = "chapters" THEN db.chapters ELSE writer.doc.chapters,
               chapterLinks |-> IF t = "chapterLinks" THEN db.chapterLinks ELSE writer.doc.chapterLinks,
               resume |-> IF t = "resume" THEN db.resume ELSE writer.doc.resume,
               read |-> IF t = "read" THEN db.read ELSE writer.doc.read,
               history |-> IF t = "history" THEN db.history ELSE writer.doc.history,
               beside |-> writer.doc.beside]
    BY <1>5, <1>6 DEF Shaped
  <2> HIDE DEF doc
  <2>2. /\ doc.titles \in {db.titles, writer.doc.titles} /\ doc.links \in {db.links, writer.doc.links}
        /\ doc.chapters \in {db.chapters, writer.doc.chapters}
        /\ doc.chapterLinks \in {db.chapterLinks, writer.doc.chapterLinks}
        /\ doc.resume \in {db.resume, writer.doc.resume} /\ doc.read \in {db.read, writer.doc.read}
        /\ doc.history \in {db.history, writer.doc.history}
        /\ doc = [titles |-> doc.titles, links |-> doc.links, chapters |-> doc.chapters,
                  chapterLinks |-> doc.chapterLinks, resume |-> doc.resume, read |-> doc.read, history |-> doc.history,
                  beside |-> doc.beside]
    BY <2>1
  <2>3. Shaped(doc)
    BY <1>6, <2>2 DEF Shaped
  <2>4. DOMAIN writer.doc = {"titles", "links", "chapters", "chapterLinks", "resume", "read", "history", "beside"}
    BY <1>6 DEF Shaped
  <2> QED BY <2>3, <2>4
<1>8. ~writer.torn => \A k \in 1..(n + 1) : k <= 7 => doc[Course[k]] = db[Course[k]]
  <2> SUFFICES ASSUME ~writer.torn, NEW k \in 1..(n + 1), k <= 7 PROVE doc[Course[k]] = db[Course[k]]
    OBVIOUS
  <2>1. k \in 1..7
    OBVIOUS
  <2>2. Course[k] \in DOMAIN writer.doc
    <3> HIDE DEF Course, doc
    <3> QED BY <1>7, <2>1, TableNames
  <2>3. k = n + 1 \/ k \in 1..n
    OBVIOUS
  <2> HIDE DEF Course
  <2> QED BY <1>2, <2>2, <2>3
<1>9. WriterOK(writer)'
  <2>1. n + 1 \in 0..8
    BY <1>3
  <2>2. \A i \in DOMAIN shelf' : shelf'[i].number < counts'.export
    BY <1>1, <1>2, <1>3
  <2> HIDE DEF doc, Left
  <2>3. /\ writer' = [todo |-> writer'.todo, doc |-> writer'.doc, torn |-> writer'.torn]
        /\ writer'.todo = Left(n + 1) /\ writer'.doc = doc /\ writer'.torn = writer.torn
    BY <1>4
  <2>4. ~writer'.torn => \A k \in 1..(n + 1) : k <= 7 => writer'.doc[Course[k]] = db'[Course[k]]
    BY <1>1, <1>8, <2>3
  <2> HIDE DEF Course
  <2> QED BY <1>7, <2>1, <2>2, <2>3, <2>4 DEF WriterOK
<1>10. BackupInv'
  BY <1>1, <1>9 DEF BackupInv, LibraryOK, ShelfOK
<1> QED BY <1>1, <1>10, ShelfRests

\* The document of an export nothing was written under restores what the library would.
LEMMA DocumentIsLibrary ==
    ASSUME NEW doc, Shaped(doc), Shaped(db), \A k \in 1..7 : doc[Course[k]] = db[Course[k]]
    PROVE  B!Restored(B!Empty, doc) = B!Restored(B!Empty, db)
<1>1. \A t \in {"titles", "links", "chapters", "chapterLinks", "resume", "read", "history"} : doc[t] = db[t]
  <2> HIDE DEF Course
  <2> QED BY TableNames
<1>2. /\ doc.titles = db.titles /\ doc.links = db.links /\ doc.chapters = db.chapters
      /\ doc.chapterLinks = db.chapterLinks /\ doc.resume = db.resume /\ doc.read = db.read
      /\ doc.history = db.history
  BY <1>1
<1> QED BY <1>2 DEF B!Restored, B!Overwritten

LEMMA RenameKeeps == ASSUME BackupInv, B!Rename PROVE BackupInv' /\ Promised
<1> DEFINE new == [doc |-> writer.doc, torn |-> writer.torn, number |-> counts.export]
<1>1. /\ writer # None /\ WriterOK(writer) /\ UNCHANGED <<db, installed, plan, moved, counts>>
      /\ shelf' = Append(shelf, new) /\ Head(writer.todo) = "rename"
  BY DEF BackupInv, B!Rename
<1>2. PICK n \in 0..8 :
          /\ writer.todo = Left(n)
          /\ n <= 7 => \A i \in DOMAIN shelf : shelf[i].number < counts.export
          /\ ~writer.torn => \A k \in 1..n : k <= 7 => writer.doc[Course[k]] = db[Course[k]]
  BY <1>1 DEF WriterOK
<1>3. n = 7 /\ Tail(writer.todo) = Left(8)
  <2> HIDE DEF Left, Course
  <2> QED BY <1>1, <1>2, Stands
<1>4. /\ IsList(shelf) /\ Len(shelf) \in Nat /\ DOMAIN shelf = 1..Len(shelf)
      /\ IsList(shelf') /\ Len(shelf') = Len(shelf) + 1 /\ DOMAIN shelf' = 1..(Len(shelf) + 1)
      /\ shelf'[Len(shelf) + 1] = new /\ \A i \in 1..Len(shelf) : shelf'[i] = shelf[i]
  <2>1. IsList(shelf)
    BY DEF BackupInv, ShelfOK
  <2>2. PICK S : shelf \in Seq(S)
    BY <2>1 DEF IsList
  <2>3. shelf \in Seq(S \cup {new}) /\ new \in S \cup {new}
    BY <2>2
  <2> HIDE DEF new
  <2>4. /\ Len(shelf') = Len(shelf) + 1 /\ DOMAIN shelf' = 1..(Len(shelf) + 1)
        /\ shelf'[Len(shelf) + 1] = new /\ \A i \in 1..Len(shelf) : shelf'[i] = shelf[i]
    BY <1>1, <2>3
  <2> QED BY <1>1, <2>1, <2>4, ListAppend, ListIs
<1>5. Shaped(writer.doc) /\ new.doc = writer.doc /\ new.number = counts.export /\ counts.export \in Nat
  BY <1>1 DEF WriterOK, BackupInv, B!Kinds
<1>6. ShelfOK'
  <2> HIDE DEF new
  <2>1. ASSUME NEW i \in 1..(Len(shelf) + 1)
        PROVE  /\ Shaped(shelf'[i].doc) /\ shelf'[i].number \in Nat /\ shelf'[i].number <= counts'.export
               /\ i <= Len(shelf) => shelf'[i].number < counts.export
    <3>1. CASE i = Len(shelf) + 1
      BY <1>1, <1>4, <1>5, <3>1
    <3>2. CASE i \in 1..Len(shelf)
      BY <1>1, <1>2, <1>3, <1>4, <3>2 DEF BackupInv, ShelfOK
    <3> QED BY <1>4, <3>1, <3>2
  <2>2. ASSUME NEW i \in 1..(Len(shelf) + 1), NEW j \in 1..(Len(shelf) + 1), i < j
        PROVE  shelf'[i].number < shelf'[j].number
    <3>1. i \in 1..Len(shelf)
      BY <1>4, <2>2
    <3>2. CASE j = Len(shelf) + 1
      <4>1. shelf'[j].number = counts.export
        BY <1>4, <1>5, <3>2
      <4>2. shelf'[i].number < counts.export
        BY <2>1, <3>1
      <4> QED BY <4>1, <4>2
    <3>3. CASE j \in 1..Len(shelf)
      BY <1>4, <2>2, <3>1, <3>3 DEF BackupInv, ShelfOK
    <3> QED BY <1>4, <3>2, <3>3
  <2> QED BY <1>4, <2>1, <2>2 DEF ShelfOK
<1>7. (writer # None => WriterOK(writer))'
  <2>1. writer' = [todo |-> Left(8), doc |-> writer.doc, torn |-> writer.torn]
    <3>1. writer = [todo |-> writer.todo, doc |-> writer.doc, torn |-> writer.torn]
      BY <1>1 DEF WriterOK
    <3>2. writer' = [writer EXCEPT !.todo = Left(8)]
      <4> HIDE DEF Left
      <4> QED BY <1>3 DEF B!Rename
    <3> HIDE DEF Left
    <3> QED BY <3>1, <3>2
  <2> HIDE DEF Left
  <2>2. /\ writer' = [todo |-> writer'.todo, doc |-> writer'.doc, torn |-> writer'.torn]
        /\ writer'.todo = Left(8) /\ writer'.doc = writer.doc /\ writer'.torn = writer.torn
    BY <2>1
  <2>3. ~writer'.torn => \A k \in 1..8 : k <= 7 => writer'.doc[Course[k]] = db'[Course[k]]
    <3> HIDE DEF Course
    <3> QED BY <1>1, <1>2, <1>3, <2>2
  <2>4. 8 \in 0..8 /\ ~(8 <= 7)
    OBVIOUS
  <2> HIDE DEF Course
  <2> QED BY <1>5, <2>2, <2>3, <2>4 DEF WriterOK
<1>8. BackupInv'
  BY <1>1, <1>6, <1>7 DEF BackupInv, LibraryOK
<1>9. B!SnapshotHoldsLibrary
  <2> SUFFICES ASSUME ~writer.torn PROVE B!Restored(B!Empty, shelf'[Len(shelf')].doc) = B!Portable(db)
    BY DEF B!SnapshotHoldsLibrary
  <2>1. \A k \in 1..7 : writer.doc[Course[k]] = db[Course[k]]
    <3> HIDE DEF Course
    <3> QED BY <1>2, <1>3
  <2>2. B!Restored(B!Empty, writer.doc) = B!Restored(B!Empty, db)
    <3> HIDE DEF Course
    <3> QED BY <1>5, <2>1, DocumentIsLibrary DEF BackupInv, LibraryOK
  <2>3. shelf'[Len(shelf')].doc = writer.doc
    BY <1>4, <1>5
  <2> QED BY <2>2, <2>3, DocumentReproduces DEF BackupInv, LibraryOK
<1>10. B!PruneKeepsNewest
  BY <1>4 DEF B!PruneKeepsNewest
<1>11. B!ReadSurvives
  BY <1>1 DEF B!ReadSurvives
<1> QED BY <1>8, <1>9, <1>10, <1>11 DEF Promised

LEMMA PruneKeeps == ASSUME B!ImportsAssumption, BackupInv, B!Prune PROVE BackupInv' /\ Promised
<1>1. /\ writer # None /\ WriterOK(writer) /\ UNCHANGED <<db, installed, plan, moved, counts>>
      /\ Head(writer.todo) = "prune" /\ Keep \in Nat \ {0}
  BY DEF BackupInv, B!Prune, B!ImportsAssumption
<1>2. PICK n \in 0..8 :
          /\ writer.todo = Left(n)
          /\ ~writer.torn => \A k \in 1..n : k <= 7 => writer.doc[Course[k]] = db[Course[k]]
  BY <1>1 DEF WriterOK
<1>3. n = 8
  <2> HIDE DEF Left, Course
  <2> QED BY <1>1, <1>2, Stands
<1>4. CASE Len(shelf) > Keep
  <2>1. UNCHANGED writer /\ shelf' = Tail(shelf)
    BY <1>4 DEF B!Prune
  <2>2. /\ Len(shelf) \in Nat /\ DOMAIN shelf = 1..Len(shelf) /\ IsList(shelf')
        /\ Len(shelf') = Len(shelf) - 1 /\ DOMAIN shelf' = 1..(Len(shelf) - 1)
        /\ \A i \in 1..(Len(shelf) - 1) : shelf'[i] = shelf[i + 1]
    <3>1. PICK S : shelf \in Seq(S)
      BY DEF BackupInv, ShelfOK, IsList
    <3>2. Len(shelf) \in Nat /\ DOMAIN shelf = 1..Len(shelf) /\ shelf # <<>>
      BY <1>1, <1>4, <3>1
    <3>3. /\ shelf' \in Seq(S) /\ Len(shelf') = Len(shelf) - 1 /\ DOMAIN shelf' = 1..(Len(shelf) - 1)
          /\ \A i \in 1..(Len(shelf) - 1) : shelf'[i] = shelf[i + 1]
      BY <2>1, <3>1, <3>2
    <3> QED BY <3>2, <3>3 DEF IsList
  <2>3. ASSUME NEW i \in 1..(Len(shelf) - 1) PROVE i + 1 \in 1..Len(shelf)
    BY <2>2
  <2>4. ShelfOK'
    <3>1. ASSUME NEW i \in 1..(Len(shelf) - 1)
          PROVE  Shaped(shelf'[i].doc) /\ shelf'[i].number \in Nat /\ shelf'[i].number <= counts'.export
      BY <1>1, <2>2, <2>3 DEF BackupInv, ShelfOK
    <3>2. ASSUME NEW i \in 1..(Len(shelf) - 1), NEW j \in 1..(Len(shelf) - 1), i < j
          PROVE  shelf'[i].number < shelf'[j].number
      <4>1. i + 1 < j + 1
        BY <3>2
      <4> QED BY <2>2, <2>3, <4>1 DEF BackupInv, ShelfOK
    <3> QED BY <2>2, <3>1, <3>2 DEF ShelfOK
  <2>5. (writer # None => WriterOK(writer))'
    <3>1. \A k \in 1..8 : k <= 7 => (~writer.torn => writer.doc[Course[k]] = db[Course[k]])
      <4> HIDE DEF Course
      <4> QED BY <1>2, <1>3
    <3>2. 8 \in 0..8 /\ ~(8 <= 7) /\ writer.todo = Left(8)
      <4> HIDE DEF Left
      <4> QED BY <1>2, <1>3
    <3> HIDE DEF Course, Left
    <3> QED BY <1>1, <2>1, <3>1, <3>2 DEF WriterOK
  <2>6. BackupInv'
    BY <1>1, <2>4, <2>5 DEF BackupInv, LibraryOK
  <2>7. B!SnapshotHoldsLibrary
    BY <2>2 DEF B!SnapshotHoldsLibrary
  <2>8. B!PruneKeepsNewest
    <3> SUFFICES ASSUME NEW i \in 1..Len(shelf), \A k \in DOMAIN shelf' : shelf'[k] # shelf[i]
                 PROVE  Len(shelf') >= Keep /\ \A k \in DOMAIN shelf' : shelf'[k].number > shelf[i].number
      BY <2>2 DEF B!PruneKeepsNewest
    <3>1. i = 1
      <4> SUFFICES ASSUME i # 1 PROVE FALSE
        OBVIOUS
      <4>1. i - 1 \in 1..(Len(shelf) - 1) /\ (i - 1) + 1 = i
        BY <2>2
      <4>2. shelf'[i - 1] = shelf[(i - 1) + 1]
        BY <2>2, <4>1
      <4> QED BY <2>2, <4>1, <4>2
    <3>2. Len(shelf') >= Keep
      BY <1>1, <1>4, <2>2
    <3>3. ASSUME NEW k \in 1..(Len(shelf) - 1) PROVE shelf'[k].number > shelf[i].number
      <4>1. k + 1 \in 1..Len(shelf) /\ i < k + 1 /\ i \in DOMAIN shelf /\ k + 1 \in DOMAIN shelf
        BY <2>2, <2>3, <3>1
      <4>2. shelf[i].number < shelf[k + 1].number /\ shelf[i].number \in Nat /\ shelf[k + 1].number \in Nat
        BY <4>1 DEF BackupInv, ShelfOK
      <4> QED BY <2>2, <4>2
    <3> QED BY <2>2, <3>2, <3>3
  <2> QED BY <1>1, <2>6, <2>7, <2>8 DEF Promised, B!ReadSurvives
<1>5. CASE ~(Len(shelf) > Keep)
  <2>1. writer' = None /\ UNCHANGED shelf
    BY <1>5 DEF B!Prune
  <2>2. BackupInv'
    BY <1>1, <2>1, QuietKeeps DEF BackupInv, B!Kinds
  <2> QED BY <1>1, <2>1, <2>2, ShelfRests
<1> QED BY <1>4, <1>5

-----------------------------------------------------------------------------
(* The result                                                              *)

LEMMA BackupBegins == Init => BackupInv
<1> SUFFICES ASSUME Init PROVE BackupInv
  OBVIOUS
<1> DEFINE first == [doc |-> B!Empty, torn |-> FALSE, number |-> 0]
<1>1. /\ db = B!Empty /\ plan = None /\ writer = None /\ shelf = <<first>> /\ counts = [k \in B!Kinds |-> 0]
  BY DEF Init, B!Init
<1>2. counts \in [B!Kinds -> Nat] /\ counts.export = 0
  BY <1>1 DEF B!Kinds
<1>3. first.doc = B!Empty /\ first.number = 0
  OBVIOUS
<1> HIDE DEF first
<1>4. shelf \in Seq({first}) /\ Len(shelf) = 1 /\ DOMAIN shelf = {1} /\ shelf[1] = first
  BY <1>1
<1>5. ShelfOK
  BY <1>2, <1>3, <1>4, EmptyIs DEF ShelfOK, IsList
<1> QED BY <1>1, <1>2, <1>5, EmptyIs DEF BackupInv, LibraryOK

LEMMA LibraryStepKeeps == ASSUME B!ImportsAssumption, BackupInv, B!Next PROVE BackupInv' /\ Promised
<1>1. CASE \E f \in Files, skip \in BOOLEAN : B!Plan(f, skip)
  BY <1>1, PlanKeeps
<1>2. CASE B!Import
  BY <1>2, ImportStepKeeps
<1>3. CASE B!BeginExport
  BY <1>3, BeginKeeps
<1>4. CASE B!ReadTable
  BY <1>4, TableKeeps
<1>5. CASE B!Rename
  BY <1>5, RenameKeeps
<1>6. CASE B!Prune
  BY <1>6, PruneKeeps
<1>7. CASE \E i \in DOMAIN shelf : B!Restore(i) \/ B!Move(i)
  BY <1>7, RestoreKeeps, MoveKeeps
<1>8. CASE (\E l \in db.links : B!Heal(l)) \/ (\E l \in db.chapterLinks : B!HealChapter(l))
  BY <1>8, HealsKeep
<1>9. CASE \E c \in DOMAIN db.chapters : B!Read(c) \/ \E read \in BOOLEAN : B!Mark(c, read)
  BY <1>9, ReadKeeps, MarkKeeps
<1>10. CASE (\E s \in Sources : B!Install(s)) \/ B!Crash
  BY <1>10, QuietStepsKeep
<1>11. CASE \/ \E t \in DOMAIN db.titles : B!Annotate(B!Own(t))
            \/ \E c \in DOMAIN db.chapters : B!Annotate(B!Bookmark(c))
  <2>1. \A t : B!Own(t).of = "own" /\ B!Own(t).row = t
    BY DEF B!Own
  <2>2. \A c : B!Bookmark(c).of = "bookmark" /\ B!Bookmark(c).row = c
    BY DEF B!Bookmark
  <2> QED BY <1>11, <2>1, <2>2, AnnotateKeeps
<1> QED BY <1>1, <1>2, <1>3, <1>4, <1>5, <1>6, <1>7, <1>8, <1>9, <1>10, <1>11 DEF B!Next

LEMMA BackupsStay == BackupInv /\ [Next]_vars => BackupInv' /\ [Promised]_B!vars
<1> SUFFICES ASSUME BackupInv, [Next]_vars PROVE BackupInv' /\ [Promised]_B!vars
  OBVIOUS
<1>1. CASE B!Next
  BY <1>1, LibraryStepKeeps, MCImportsAssumption
<1>2. CASE UNCHANGED importVars
  <2>1. UNCHANGED <<db, plan, writer, shelf, counts>> /\ UNCHANGED B!vars
    BY <1>2 DEF importVars, B!vars
  <2>2. counts' \in [B!Kinds -> Nat] /\ counts.export <= counts'.export
    BY <2>1 DEF BackupInv, B!Kinds
  <2>3. BackupInv'
    BY <2>1, <2>2, QuietKeeps DEF BackupInv
  <2> QED BY <2>1, <2>3
<1> QED BY <1>1, <1>2 DEF Next, vars

\* What the promises need not: sources, where the library is, and that a snapshot is there.
Around == installed \subseteq Sources /\ moved \in BOOLEAN /\ shelf # <<>>

LEMMA AroundStays ==
    ASSUME B!ImportsAssumption, BackupInv, Around, Next PROVE Around'
<1>1. installed' \subseteq Sources
  BY DEF Next, B!Next, Around, B!Plan, B!Import, B!BeginExport, B!ReadTable, B!Rename, B!Prune, B!Restore, B!Move, B!Install,
         B!Heal, B!HealChapter, B!Read, B!Mark, B!Annotate, B!Crash, importVars
<1>2. moved' \in BOOLEAN
  BY DEF Next, B!Next, Around, B!Plan, B!Import, B!BeginExport, B!ReadTable, B!Rename, B!Prune, B!Restore, B!Move, B!Install,
         B!Heal, B!HealChapter, B!Read, B!Mark, B!Annotate, B!Crash, importVars
<1>3. shelf' # <<>>
  <2>1. PICK S : shelf \in Seq(S)
    BY DEF BackupInv, ShelfOK, IsList
  <2>2. CASE B!Rename
    <3> DEFINE new == [doc |-> writer.doc, torn |-> writer.torn, number |-> counts.export]
    <3>1. shelf' = Append(shelf, new)
      BY <2>2 DEF B!Rename
    <3> HIDE DEF new
    <3>2. shelf \in Seq(S \cup {new})
      BY <2>1
    <3>3. Len(shelf') = Len(shelf) + 1 /\ Len(shelf) \in Nat
      BY <3>1, <3>2
    <3> QED BY <3>3
  <2>3. CASE B!Prune /\ Len(shelf) > Keep
    <3>1. Keep \in Nat \ {0} /\ Len(shelf) \in Nat /\ shelf' = Tail(shelf)
      BY <2>1, <2>3 DEF B!Prune, B!ImportsAssumption
    <3>2. Len(shelf') = Len(shelf) - 1 /\ Len(shelf) >= 2
      BY <2>1, <2>3, <3>1
    <3> QED BY <3>2
  <2>4. CASE UNCHANGED shelf
    BY <2>4 DEF Around
  <2>5. CASE \E i \in DOMAIN shelf : B!Move(i)
    BY <2>5 DEF B!Move
  <2>6. B!Rename \/ (B!Prune /\ Len(shelf) > Keep) \/ UNCHANGED shelf \/ \E i \in DOMAIN shelf : B!Move(i)
    BY DEF Next, B!Next, B!Plan, B!Import, B!BeginExport, B!ReadTable, B!Prune, B!Restore, B!Install,
           B!Heal, B!HealChapter, B!Read, B!Mark, B!Annotate, B!Crash, importVars
  <2> QED BY <2>2, <2>3, <2>4, <2>5, <2>6
<1> QED BY <1>1, <1>2, <1>3 DEF Around

\* Numbers that grow from the oldest snapshot to the newest count them.
LEMMA NumbersCount == ASSUME BackupInv PROVE Len(shelf) \in Nat /\ Len(shelf) <= counts.export + 1
<1> DEFINE n == Len(shelf)
           Bad == {i \in 1..n : ~(shelf[i].number >= i - 1)}
<1>1. n \in Nat /\ DOMAIN shelf = 1..n
  BY ListIs DEF BackupInv, ShelfOK
<1>2. Bad = {}
  <2> SUFFICES ASSUME Bad # {} PROVE FALSE
    OBVIOUS
  <2>1. PICK k \in Bad : \A j \in Bad : ~(j < k)
    <3>1. Bad \subseteq Nat
      BY <1>1
    <3> HIDE DEF Bad
    <3> QED BY <3>1, SomeLeast
  <2>2. k \in 1..n /\ shelf[k].number \in Nat
    BY <1>1 DEF BackupInv, ShelfOK
  <2>3. k # 1
    BY <2>1, <2>2
  <2>4. k - 1 \in 1..n /\ k - 1 < k
    BY <1>1, <2>2, <2>3
  <2>5. shelf[k - 1].number >= k - 2
    BY <1>1, <2>1, <2>4
  <2>6. shelf[k - 1].number < shelf[k].number /\ shelf[k - 1].number \in Nat
    BY <1>1, <2>2, <2>4 DEF BackupInv, ShelfOK
  <2> QED BY <1>1, <2>1, <2>2, <2>5, <2>6
<1>3. counts.export \in Nat
  BY DEF BackupInv, B!Kinds
<1>4. CASE n = 0
  BY <1>3, <1>4
<1>5. CASE n # 0
  <2>1. n \in 1..n
    BY <1>1, <1>5
  <2>2. shelf[n].number >= n - 1 /\ shelf[n].number \in Nat /\ shelf[n].number <= counts.export
    BY <1>1, <1>2, <2>1 DEF BackupInv, ShelfOK
  <2> QED BY <1>1, <1>3, <2>2
<1> QED BY <1>1, <1>4, <1>5

\* Through imports, restores of whatever document and crashes: the tables have unique
\* keys and no dangling row, a snapshot is on disk, and no more than were written
\* (the schema's constraints, ImportWithProgress and backup.Import, WriteSnapshot).
THEOREM TablesStand == Spec => []B!TypeOK
<1>1. Init => BackupInv /\ Around
  <2>1. Init => Around
    <3> DEFINE first == [doc |-> B!Empty, torn |-> FALSE, number |-> 0]
    <3> SUFFICES ASSUME Init PROVE Around
      OBVIOUS
    <3>1. installed \in SUBSET Sources /\ moved = FALSE /\ shelf = <<first>>
      BY DEF Init, B!Init
    <3> HIDE DEF first
    <3> QED BY <3>1 DEF Around
  <2> QED BY <2>1, BackupBegins
<1>2. BackupInv /\ Around /\ [Next]_vars => (BackupInv /\ Around)'
  <2> SUFFICES ASSUME BackupInv, Around, [Next]_vars PROVE (BackupInv /\ Around)'
    OBVIOUS
  <2>1. BackupInv'
    BY BackupsStay
  <2>2. CASE Next
    BY <2>1, <2>2, AroundStays, MCImportsAssumption
  <2>3. CASE UNCHANGED vars
    BY <2>1, <2>3 DEF vars, importVars, Around
  <2> QED BY <2>2, <2>3
<1>3. BackupInv /\ Around => B!TypeOK
  <2> SUFFICES ASSUME BackupInv, Around PROVE B!TypeOK
    OBVIOUS
  <2>1. DOMAIN db = DOMAIN B!Empty /\ B!Unique(db) /\ B!Referenced(db)
    BY DEF BackupInv, LibraryOK, Shaped, B!Empty
  <2>2. writer # None => DOMAIN writer.doc = DOMAIN B!Empty
    BY DEF BackupInv, WriterOK, Shaped, B!Empty
  <2> QED BY <2>1, <2>2, NumbersCount DEF B!TypeOK, Around, BackupInv
<1> QED BY <1>1, <1>2, <1>3, PTL DEF Spec

\* Whatever is imported, restored, healed, read, pruned or cut short by a crash: a snapshot
\* nothing was written under reproduces on another machine what a restore writes of the
\* library (Portable says what it does not), pruning removes
\* only snapshots older than the Keep it leaves, no import marks a chapter unread and a
\* restore only one its document holds as unread (backup.Export, WriteSnapshot, Restore;
\* tachibackup.Import).
THEOREM BackupsKept == Spec => BackupsHold
<1>1. Spec => []BackupInv
  BY BackupBegins, BackupsStay, PTL DEF Spec
<1>2. BackupInv /\ [Next]_vars => [B!SnapshotHoldsLibrary /\ B!PruneKeepsNewest /\ B!ReadSurvives]_B!vars
  BY BackupsStay DEF Promised
<1> QED BY <1>1, <1>2, PTL DEF Spec, BackupsHold, B!BackupsHold
=============================================================================
