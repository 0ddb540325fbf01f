------------------------- MODULE MCRecords_proofs -------------------------
(***************************************************************************)
(* Proofs about the four parts of MCRecords: the move of a title to        *)
(* another source (TitleMigration), for every number of migrations at      *)
(* once, sources, chapters, events and crashes; the settings               *)
(* (SettingsCache), for every number of requests, writes and failures;     *)
(* what a reader reports (ReadingProgress), for every number of reports    *)
(* and losses; and the chapters of a title (Library), for every number of  *)
(* releases, refreshes at once, moves, marks and crashes.                  *)
(***************************************************************************)
EXTENDS MCRecords, FiniteSetTheorems, WellFoundedInduction, TLAPS

\* In every behaviour of the four parts the title moves as TitleMigration says, or rests.
LEMMA MigrationRuns == Spec => MigrationSpec
<1>1. Init => MigrationInit
  BY DEF Init
<1>2. [Next]_vars => [MigrationNext]_migrationVars
  BY DEF Next, vars, ChaptersStep, MigrationStep, ReadingStep, SettingsStep
<1>3. QED
  BY <1>1, <1>2, PTL DEF Spec, MigrationSpec

-----------------------------------------------------------------------------
(* The move of a title: the inductive invariant                            *)

\* A request has the fields the invariant speaks of.
Shaped(r) == {"at", "source"} \subseteq DOMAIN r

MoversShaped ==
    mover = [m \in Movers |-> mover[m]] /\ \A m \in Movers : Shaped(mover[m])

StubsShaped == stubs = [s \in Others |-> stubs[s]] /\ library \subseteq Others

\* A migration that has checked its replacement and not committed: it was not in the
\* library, or came there since.
Checked(m) == mover[m].at \in {"capture", "commit"}
CheckStands ==
    \A m \in Movers : Checked(m) =>
        mover[m].source \in Others /\ (mover[m].source \in library => mover[m].source \in raced)

Whole == MoversShaped /\ StubsShaped /\ CheckStands /\ TitleStaysWhole

-----------------------------------------------------------------------------
(* Lemmas                                                                  *)

\* The chapters of a source are of that source.
LEMMA ChaptersOfSource == ASSUME NEW s, NEW ch \in ChaptersOf(s) PROVE ch.source = s
BY DEF ChaptersOf

\* A mover goes on to a label past the commit, and nothing else is compared: the movers
\* keep their shape, and what was checked stands.
LEMMA MoverGoesOn ==
    ASSUME Whole, NEW m \in Movers, NEW r, Shaped(r),
           mover' = [mover EXCEPT ![m] = r], r.at \notin {"capture", "commit"},
           UNCHANGED <<library, raced>>
    PROVE  MoversShaped' /\ CheckStands'
<1>1. \A n \in Movers : mover'[n] = IF n = m THEN r ELSE mover[n]
  BY DEF Whole, MoversShaped
<1>2. MoversShaped'
  BY <1>1 DEF Whole, MoversShaped, Shaped
<1>3. CheckStands'
  BY <1>1 DEF Whole, CheckStands, Checked
<1>4. QED
  BY <1>2, <1>3

\* A list that is stored keeps the title whole.
LEMMA StoredWhole ==
    ASSUME TitleStaysWhole, NEW s, Stored(s), UNCHANGED <<primary, resume, stubs, library, raced>>
    PROVE  TitleStaysWhole'
<1>1. chapters' = chapters \cup ChaptersOf(s) /\ mixed' = (mixed \/ s # primary)
  BY DEF Stored
<1>2. ASSUME ~mixed', NEW ch \in chapters' PROVE ch.source = primary'
  <2>1. ~mixed /\ s = primary
    BY <1>1, <1>2
  <2>2. CASE ch \in chapters
    BY <2>1, <2>2 DEF TitleStaysWhole
  <2>3. CASE ch \in ChaptersOf(s)
    BY <2>1, <2>3, ChaptersOfSource
  <2>4. QED
    BY <1>1, <1>2, <2>2, <2>3
<1>3. resume' # None => resume'.chapter \in chapters'
  BY <1>1 DEF TitleStaysWhole
<1>4. \A t \in library' : stubs'[t] = "attached" => t \in raced'
  BY DEF TitleStaysWhole
<1>5. QED
  BY <1>2, <1>3, <1>4 DEF TitleStaysWhole

-----------------------------------------------------------------------------
(* Every step keeps the invariant                                          *)

LEMMA InitWhole == MigrationInit => Whole
<1> SUFFICES ASSUME MigrationInit PROVE Whole
  OBVIOUS
<1>1. MoversShaped
  BY DEF MigrationInit, MoversShaped, Shaped, Resting
<1>2. StubsShaped
  BY DEF MigrationInit, StubsShaped
<1>3. CheckStands
  BY DEF MigrationInit, CheckStands, Checked, Resting
<1>4. TitleStaysWhole
  BY ChaptersOfSource DEF MigrationInit, TitleStaysWhole
<1>5. QED
  BY <1>1, <1>2, <1>3, <1>4 DEF Whole

\* A check that passes found the replacement outside the library.
LEMMA CheckWhole ==
    ASSUME Whole, NEW m \in Movers, NEW s \in Others, NEW carry \in BOOLEAN, Check(m, s, carry)
    PROVE  Whole'
<1> DEFINE r == [Resting EXCEPT !.at = "capture", !.source = s, !.carry = carry]
<1>1. Shaped(r) /\ r.at = "capture" /\ r.source = s
  BY DEF Shaped, Resting
<1>2. \A n \in Movers : mover'[n] = IF n = m THEN r ELSE mover[n]
  BY DEF Whole, MoversShaped, Check
<1>3. MoversShaped'
  <2>1. mover' = [n \in Movers |-> mover'[n]]
    BY DEF Whole, MoversShaped, Check
  <2>2. \A n \in Movers : Shaped(mover'[n])
    BY <1>1, <1>2 DEF Whole, MoversShaped
  <2>3. QED
    BY <2>1, <2>2 DEF MoversShaped, Shaped
<1>4. CheckStands'
  BY <1>1, <1>2 DEF Whole, CheckStands, Checked, Check, ghostVars
<1>5. QED
  BY <1>3, <1>4 DEF Whole, Check, titleVars, ghostVars, StubsShaped, TitleStaysWhole

\* What is taken up changes nothing of the title.
LEMMA CaptureWhole ==
    ASSUME Whole, NEW m \in Movers, Capture(m)
    PROVE  Whole'
<1> DEFINE r == [mover[m] EXCEPT !.at = "commit", !.resume = resume,
                                 !.highest = IF mover[m].carry THEN HighestRead ELSE 0,
                                 !.marks = IF mover[m].carry THEN Numbers(bookmarked) ELSE {}]
<1>1. mover' = [mover EXCEPT ![m] = r] /\ mover[m].at = "capture"
  BY DEF Capture
<1>2. Shaped(r) /\ r.source = mover[m].source
  BY DEF Whole, MoversShaped, Shaped
<1> HIDE DEF r
<1>3. MoversShaped' /\ \A n \in Movers : mover'[n] = IF n = m THEN r ELSE mover[n]
  BY <1>1, <1>2 DEF Whole, MoversShaped, Shaped
<1>4. CheckStands'
  BY <1>1, <1>2, <1>3 DEF Whole, CheckStands, Checked, Capture, ghostVars
<1>5. QED
  BY <1>3, <1>4 DEF Whole, Capture, titleVars, ghostVars, StubsShaped, TitleStaysWhole

\* The transaction leaves the chapters of the new source only, the progress at one of them
\* or none, and an entry of the library attached only when it was added after the check.
LEMMA CommitWhole ==
    ASSUME Whole, NEW m \in Movers, Commit(m)
    PROVE  Whole'
<1> DEFINE s == mover[m].source
           kept == {ch \in chapters : ch.source = s}
<1>0. s \in Others /\ (s \in library => s \in raced)
  BY DEF Whole, CheckStands, Checked, Commit
<1>1. CASE stubs[s] = "attached"
  <2>1. mover' = [mover EXCEPT ![m] = Resting] /\ UNCHANGED <<titleVars, stubs>>
    BY <1>1 DEF Commit
  <2>2. Shaped(Resting) /\ Resting.at \notin {"capture", "commit"}
    BY DEF Shaped, Resting
  <2>3. MoversShaped' /\ CheckStands'
    BY <2>1, <2>2, MoverGoesOn DEF Commit
  <2>4. QED
    BY <2>1, <2>3 DEF Whole, Commit, titleVars, StubsShaped, TitleStaysWhole
<1>2. CASE stubs[s] # "attached"
  <2>1. /\ primary' = s
        /\ chapters' = kept \cup (IF stubs[s] = "viewed" THEN ChaptersOf(s) ELSE {})
        /\ resume' = IF resume # None /\ resume.chapter \in kept THEN resume ELSE None
        /\ stubs' = [stubs EXCEPT ![s] = "attached"]
        /\ mover' = [mover EXCEPT ![m].at = "fetch"]
        /\ UNCHANGED <<library, mixed, raced>>
    BY <1>2 DEF Commit, Goes
  <2>2. MoversShaped' /\ CheckStands'
    <3> DEFINE r == [mover[m] EXCEPT !.at = "fetch"]
    <3>1. Shaped(r) /\ r.at = "fetch"
      BY DEF Whole, MoversShaped, Shaped
    <3>2. mover' = [mover EXCEPT ![m] = r]
      BY <2>1
    <3>3. QED
      BY <2>1, <3>1, <3>2, MoverGoesOn
  <2>3. StubsShaped'
    BY <2>1 DEF Whole, StubsShaped
  <2>4. \A ch \in chapters' : ch.source = primary'
    BY <2>1, ChaptersOfSource
  <2>5. resume' # None => resume'.chapter \in chapters'
    BY <2>1
  <2>6. \A t \in library' : stubs'[t] = "attached" => t \in raced'
    BY <1>0, <2>1 DEF Whole, StubsShaped, TitleStaysWhole
  <2>7. QED
    BY <2>2, <2>3, <2>4, <2>5, <2>6 DEF Whole, TitleStaysWhole
<1>3. QED
  BY <1>1, <1>2

\* The list comes, or does not.
LEMMA FetchWhole ==
    ASSUME Whole, NEW m \in Movers, Fetch(m) \/ Store(m)
    PROVE  Whole'
<1>1. CASE Fetch(m)
  <2> DEFINE r == [mover[m] EXCEPT !.at = "store", !.fetched = primary]
  <2>1. Shaped(r) /\ r.at = "store" /\ mover' = [mover EXCEPT ![m] = r]
    BY <1>1 DEF Whole, MoversShaped, Shaped, Fetch
  <2>2. MoversShaped' /\ CheckStands'
    BY <1>1, <2>1, MoverGoesOn DEF Fetch, ghostVars
  <2>3. QED
    BY <1>1, <2>2 DEF Whole, Fetch, titleVars, ghostVars, StubsShaped, TitleStaysWhole
<1>2. CASE Store(m)
  <2> DEFINE r == [mover[m] EXCEPT !.at = IF mover[m].carry THEN "mark" ELSE "idle",
                                   !.fetched = None, !.list = chapters']
  <2>1. Shaped(r) /\ r.at \in {"mark", "idle"} /\ mover' = [mover EXCEPT ![m] = r]
    BY <1>2 DEF Whole, MoversShaped, Shaped, Store
  <2>2. MoversShaped' /\ CheckStands'
    BY <1>2, <2>1, MoverGoesOn DEF Store
  <2>3. TitleStaysWhole'
    <3>1. CASE Stored(mover[m].fetched)
      BY <1>2, <3>1, StoredWhole DEF Whole, Store
    <3>2. CASE UNCHANGED <<chapters, mixed>>
      BY <1>2, <3>2 DEF Whole, Store, TitleStaysWhole
    <3>3. QED
      BY <1>2, <3>1, <3>2 DEF Store
  <2>4. QED
    BY <1>2, <2>2, <2>3 DEF Whole, Store, StubsShaped
<1>3. QED
  BY <1>1, <1>2

\* What is carried over, or reported, is at a chapter the title has.
LEMMA UpsertWhole ==
    ASSUME TitleStaysWhole, NEW ch \in chapters, NEW completed, Upsert(ch, completed),
           UNCHANGED <<primary, chapters, stubs, library, mixed, raced>>
    PROVE  TitleStaysWhole'
<1>1. resume'.chapter = ch
  BY DEF Upsert
<1>2. QED
  BY <1>1 DEF TitleStaysWhole

LEMMA CarryWhole ==
    ASSUME Whole, NEW m \in Movers, MarkThrough(m) \/ MarkBookmarks(m) \/ CarryResume(m)
    PROVE  Whole'
<1>1. ASSUME NEW label \in {"bookmark", "resume"}, Goes(m, label), UNCHANGED <<library, raced>>
      PROVE  MoversShaped' /\ CheckStands'
  <2> DEFINE r == [mover[m] EXCEPT !.at = label]
  <2>1. Shaped(r) /\ r.at = label /\ mover' = [mover EXCEPT ![m] = r]
    BY <1>1 DEF Whole, MoversShaped, Shaped, Goes
  <2>2. QED
    BY <1>1, <2>1, MoverGoesOn
<1>2. CASE MarkThrough(m)
  BY <1>1, <1>2 DEF Whole, MarkThrough, StubsShaped, TitleStaysWhole
<1>3. CASE MarkBookmarks(m)
  BY <1>1, <1>3 DEF Whole, MarkBookmarks, StubsShaped, TitleStaysWhole
<1>4. CASE CarryResume(m)
  <2>1. Shaped(Resting) /\ Resting.at \notin {"capture", "commit"}
    BY DEF Shaped, Resting
  <2>2. MoversShaped' /\ CheckStands'
    BY <1>4, <2>1, MoverGoesOn DEF CarryResume
  <2>3. TitleStaysWhole'
    <3>1. \/ UNCHANGED resume
          \/ \E ch \in chapters, completed \in {TRUE, FALSE, mover[m].resume.completed} : Upsert(ch, completed)
      BY <1>4 DEF CarryResume
    <3>2. QED
      BY <1>4, <3>1, UpsertWhole DEF Whole, CarryResume, TitleStaysWhole
  <2>4. QED
    BY <1>4, <2>2, <2>3 DEF Whole, CarryResume, StubsShaped
<1>5. QED
  BY <1>2, <1>3, <1>4

\* The reader, the updater and a restart.
LEMMA OthersWhole ==
    ASSUME Whole,
           \/ \E ch \in chapters : Bookmark(ch) \/ \E completed \in BOOLEAN : Report(ch, completed)
           \/ RefreshBegins \/ RefreshEnds \/ Crash
    PROVE  Whole'
<1>1. ASSUME NEW ch \in chapters, Bookmark(ch) PROVE Whole'
  BY <1>1 DEF Whole, Bookmark, MoversShaped, Shaped, StubsShaped, CheckStands, Checked, TitleStaysWhole
<1>2. ASSUME NEW ch \in chapters, NEW completed \in BOOLEAN, Report(ch, completed) PROVE Whole'
  <2>1. TitleStaysWhole'
    BY <1>2, UpsertWhole DEF Whole, Report
  <2>2. QED
    BY <1>2, <2>1 DEF Whole, Report, MoversShaped, Shaped, StubsShaped, CheckStands, Checked
<1>3. CASE RefreshBegins
  BY <1>3 DEF Whole, RefreshBegins, titleVars, ghostVars, MoversShaped, Shaped, StubsShaped, CheckStands,
              Checked, TitleStaysWhole
<1>4. CASE RefreshEnds
  <2>1. TitleStaysWhole'
    BY <1>4, StoredWhole DEF Whole, RefreshEnds
  <2>2. QED
    BY <1>4, <2>1 DEF Whole, RefreshEnds, MoversShaped, Shaped, StubsShaped, CheckStands, Checked
<1>5. CASE Crash
  <2>1. MoversShaped' /\ CheckStands'
    BY <1>5 DEF Crash, MoversShaped, Shaped, CheckStands, Checked, Resting
  <2>2. QED
    BY <1>5, <2>1 DEF Whole, Crash, titleVars, StubsShaped, TitleStaysWhole
<1>6. QED
  BY <1>1, <1>2, <1>3, <1>4, <1>5

\* A replacement that goes into the library under a migration is noted.
LEMMA AddWhole ==
    ASSUME Whole, NEW s \in Others, AddToLibrary(s)
    PROVE  Whole'
<1>1. /\ library' = library \cup {s} /\ raced \subseteq raced'
      /\ stubs[s] # "attached" /\ UNCHANGED <<titleVars, stubs, mover, mixed>>
      /\ (\E m \in Movers : mover[m].source = s /\ Checked(m)) => s \in raced'
  BY DEF AddToLibrary, Checked
<1>2. MoversShaped' /\ StubsShaped'
  BY <1>1 DEF Whole, MoversShaped, Shaped, StubsShaped
<1>3. CheckStands'
  BY <1>1 DEF Whole, CheckStands, Checked
<1>4. TitleStaysWhole'
  BY <1>1 DEF Whole, TitleStaysWhole, titleVars
<1>5. QED
  BY <1>2, <1>3, <1>4 DEF Whole

LEMMA StepWhole == Whole /\ [MigrationNext]_migrationVars => Whole'
<1> SUFFICES ASSUME Whole, [MigrationNext]_migrationVars PROVE Whole'
  OBVIOUS
<1>1. ASSUME NEW m \in Movers, MoverStep(m) PROVE Whole'
  BY <1>1, CheckWhole, CaptureWhole, CommitWhole, FetchWhole, CarryWhole DEF MoverStep
<1>2. ASSUME NEW s \in Others, AddToLibrary(s) PROVE Whole'
  BY <1>2, AddWhole
<1>3. CASE UNCHANGED migrationVars
  BY <1>3 DEF Whole, migrationVars, titleVars, ghostVars, MoversShaped, Shaped, StubsShaped, CheckStands,
              Checked, TitleStaysWhole
<1>4. QED
  BY <1>1, <1>2, <1>3, OthersWhole DEF MigrationNext

-----------------------------------------------------------------------------
\* A title stays whole through every number of migrations, refreshes, reports and crashes:
\* its chapters are of its source unless an older list came late, its progress is at one of
\* them, and the library loses no entry to it that was there at the check.
THEOREM TitleWhole == Spec => []TitleStaysWhole
<1>1. Whole => TitleStaysWhole
  BY DEF Whole
<1>2. QED
  BY InitWhole, StepWhole, <1>1, MigrationRuns, PTL DEF MigrationSpec

-----------------------------------------------------------------------------
(* Greatest numbers                                                        *)

\* A finite set of numbers has a bound.
LEMMA FiniteIsBounded ==
    ASSUME NEW these, these \subseteq Nat, IsFiniteSet(these)
    PROVE  \E b \in Nat : \A n \in these : n <= b
<1> DEFINE Bounded(U) == \E b \in Nat : \A n \in U : n <= b
           Sizes == {k \in Nat : \E U \in SUBSET Nat : IsFiniteSet(U) /\ Cardinality(U) = k /\ ~Bounded(U)}
<1> SUFFICES ASSUME ~Bounded(these) PROVE FALSE
  OBVIOUS
<1>1. Cardinality(these) \in Sizes
  BY FS_CardinalityType
<1>2. PICK k \in Sizes : \A j \in Sizes : ~(<<j, k>> \in OpToRel(<, Nat))
  <2>1. Sizes \subseteq Nat /\ Sizes # {}
    BY <1>1
  <2> HIDE DEF Sizes
  <2>2. QED
    BY <2>1, NatLessThanWellFounded, WFMin
<1>3. \A j \in Sizes : ~(j < k)
  BY <1>2 DEF OpToRel
<1>4. PICK U \in SUBSET Nat : IsFiniteSet(U) /\ Cardinality(U) = k /\ ~Bounded(U)
  BY <1>2
<1>5. PICK x \in U : TRUE
  <2>1. Bounded({})
    OBVIOUS
  <2>2. QED
    BY <1>4, <2>1
<1>6. IsFiniteSet(U \ {x}) /\ Cardinality(U \ {x}) = k - 1 /\ k - 1 \in Nat
  <2>1. IsFiniteSet(U) /\ Cardinality(U) = k /\ k \in Nat
    BY <1>4
  <2>2. IsFiniteSet(U \ {x}) /\ Cardinality(U \ {x}) = k - 1
    BY <2>1, FS_RemoveElement
  <2>3. Cardinality(U \ {x}) \in Nat
    BY <2>2, FS_CardinalityType
  <2>4. QED
    BY <2>2, <2>3
<1>7. Bounded(U \ {x})
  <2>1. k - 1 < k
    OBVIOUS
  <2>2. U \ {x} \in SUBSET Nat
    OBVIOUS
  <2>3. k - 1 \notin Sizes
    BY <1>3, <2>1
  <2>4. QED
    BY <1>6, <2>2, <2>3
<1>8. PICK b \in Nat : \A n \in U \ {x} : n <= b
  BY <1>7
<1>9. PICK c \in Nat : c >= b /\ c >= x
  BY <1>5
<1>10. \A n \in U : n <= c
  BY <1>8, <1>9
<1>11. QED
  BY <1>4, <1>10

\* ... and a greatest member, if it has any.
LEMMA FiniteHasMax ==
    ASSUME NEW these, these \subseteq Nat, IsFiniteSet(these), these # {}
    PROVE  Max(these) \in these /\ \A n \in these : Max(these) >= n
<1> DEFINE Bounds == {b \in Nat : \A n \in these : n <= b}
<1>1. Bounds \subseteq Nat /\ Bounds # {}
  BY FiniteIsBounded
<1>2. PICK b \in Bounds : \A c \in Bounds : ~(<<c, b>> \in OpToRel(<, Nat))
  <2> HIDE DEF Bounds
  <2>1. QED
    BY <1>1, NatLessThanWellFounded, WFMin
<1>3. \A c \in Bounds : ~(c < b)
  BY <1>1, <1>2 DEF OpToRel
<1>4. b \in these
  <2> SUFFICES ASSUME b \notin these PROVE FALSE
    OBVIOUS
  <2>1. PICK n \in these : n <= b /\ n # b
    OBVIOUS
  <2>2. b - 1 \in Nat
    BY <2>1
  <2>3. \A m \in these : m <= b - 1
    OBVIOUS
  <2>4. b - 1 \in Bounds /\ b - 1 < b
    BY <2>2, <2>3
  <2>5. QED
    BY <1>3, <2>4
<1>5. \A n \in these : b >= n
  OBVIOUS
<1>6. QED
  BY <1>4, <1>5 DEF Max

-----------------------------------------------------------------------------
(* What is carried over: the inductive invariant                           *)

Numbering == {0} \cup UNION {Published[s] : s \in DOMAIN Published}
Places == {"idle", "capture", "commit", "fetch", "store", "mark", "bookmark", "resume"}
Requests == [at : Places, source : Others \cup {None}, carry : BOOLEAN, highest : Numbering,
             marks : SUBSET Numbering, resume : Progress \cup {None},
             fetched : DOMAIN Published \cup {None}, list : SUBSET AllChapters]

TitleTyped ==
    /\ primary \in DOMAIN Published
    /\ chapters \subseteq AllChapters /\ bookmarked \subseteq chapters /\ flagged \subseteq chapters
    /\ resume \in Progress \cup {None}
    /\ owed \in Numbering /\ wanted \subseteq Numbering
    /\ refreshing # None => refreshing \in DOMAIN Published

\* Only a migration that carries over gets past the list it fetches.
MoversTyped ==
    /\ mover \in [Movers -> Requests]
    /\ \A m \in Movers : mover[m].at = "store" => mover[m].fetched \in DOMAIN Published
    /\ \A m \in Movers : mover[m].at \in {"mark", "bookmark", "resume"} => mover[m].carry

\* The title is read up to what it is owed, by a flag.
ReadThrough == owed = 0 \/ \E ch \in flagged : ch.number >= owed
MarksKept == wanted \subseteq Numbers(bookmarked)

\* A migration that carries over has what the title is owed, in the numbers it took up and
\* in the chapters of the source, and what it did of it.
Carries(r) ==
    \/ owed = 0 /\ wanted = {}
    \/ /\ owed <= r.highest /\ wanted \subseteq r.marks
       /\ owed \in {0} \cup Published[primary] /\ wanted \subseteq Published[primary]
       /\ r.at = "store" => r.fetched = primary
       /\ r.at \in {"mark", "bookmark", "resume"} => ChaptersOf(primary) \subseteq chapters
       /\ r.at \in {"bookmark", "resume"} => ReadThrough
       /\ r.at = "resume" => MarksKept

\* A migration that is to commit took up all there is.
TookUp(r) ==
    /\ \A ch \in flagged : ch.number <= r.highest
    /\ resume # None => resume.chapter.number <= r.highest
    /\ owed <= r.highest
    /\ wanted \cup Numbers(bookmarked) \subseteq r.marks

\* Unless something was given up, whoever carries over still has what is owed, and when
\* nobody does it is there, and whoever commits next has it.
NothingForgotten ==
    ~lost =>
        /\ \A m \in Movers : Carrying(m) => Carries(mover[m])
        /\ (\A m \in Movers : ~Carrying(m)) =>
              /\ ReadThrough /\ MarksKept
              /\ \A m \in Movers : mover[m].carry /\ mover[m].at = "commit" => TookUp(mover[m])

Carried == Whole /\ TitleTyped /\ MoversTyped /\ NothingForgotten

-----------------------------------------------------------------------------
(* Lemmas: numbers, chapters, and what stays true when the title grows     *)

LEMMA NumberFacts == Numbering \subseteq Nat /\ IsFiniteSet(Numbering) /\ 0 \in Numbering
<1> DEFINE Some == UNION {Published[s] : s \in DOMAIN Published}
<1>1. Some \subseteq Nat /\ IsFiniteSet(Some)
  BY MigrationAssumption
<1> HIDE DEF Some
<1>2. IsFiniteSet(Some \cup {0})
  BY <1>1, FS_AddElement
<1>3. Numbering = Some \cup {0}
  BY DEF Numbering, Some
<1>4. QED
  BY <1>1, <1>2, <1>3

\* The greatest of some numbers of chapters is one of them.
LEMMA MaxNumber ==
    ASSUME NEW these, these \subseteq Numbering, these # {}
    PROVE  Max(these) \in these /\ \A n \in these : Max(these) >= n
<1>1. IsFiniteSet(these) /\ these \subseteq Nat
  BY NumberFacts, FS_Subset
<1>2. QED
  BY <1>1, FiniteHasMax

LEMMA UpToNumber ==
    ASSUME NEW numbers, numbers \subseteq Numbering, NEW n \in Nat
    PROVE  UpTo(numbers, n) \in {0} \cup numbers /\ UpTo(numbers, n) <= n
<1> DEFINE these == {0} \cup {k \in numbers : k <= n}
<1>1. these \subseteq Numbering /\ these # {}
  BY NumberFacts
<1>2. Max(these) \in these
  BY <1>1, MaxNumber
<1>3. QED
  BY <1>2, NumberFacts DEF UpTo

LEMMA ChapterNumbers ==
    /\ \A s \in DOMAIN Published : ChaptersOf(s) \subseteq AllChapters
    /\ \A ch \in AllChapters : ch.number \in Numbering
    /\ \A s : \A n \in Published[s] : [source |-> s, number |-> n] \in ChaptersOf(s)
BY DEF ChaptersOf, AllChapters, Numbering

LEMMA HighestReadNumber ==
    ASSUME TitleTyped
    PROVE  /\ HighestRead \in Numbering
           /\ \A ch \in flagged : ch.number <= HighestRead
           /\ resume # None => resume.chapter.number <= HighestRead
           /\ \A k \in Nat : (\A ch \in flagged : ch.number <= k) /\ (resume # None => resume.chapter.number <= k)
                               => HighestRead <= k
<1> DEFINE these == {0} \cup Numbers(flagged) \cup (IF resume = None THEN {} ELSE {resume.chapter.number})
<1>1. /\ \A ch \in flagged : ch.number \in Numbering
      /\ resume # None => resume.chapter.number \in Numbering
  BY ChapterNumbers DEF TitleTyped, Progress
<1>2. these \subseteq Numbering /\ these # {} /\ Numbering \subseteq Nat
  BY <1>1, NumberFacts DEF Numbers
<1>3. /\ \A ch \in flagged : ch.number \in these
      /\ resume # None => resume.chapter.number \in these
      /\ \A k \in Nat : (\A ch \in flagged : ch.number <= k) /\ (resume # None => resume.chapter.number <= k)
                          => \A n \in these : n <= k
  BY DEF Numbers
<1>4. HighestRead = Max(these)
  BY DEF HighestRead
<1> HIDE DEF these
<1>5. Max(these) \in these /\ \A n \in these : Max(these) >= n
  BY <1>2, MaxNumber
<1>6. \A n \in these : n <= Max(these)
  BY <1>2, <1>5
<1>7. QED
  BY <1>2, <1>3, <1>4, <1>5, <1>6

\* A title that is read through is read up to what it is owed.
LEMMA ReadThroughReads ==
    ASSUME TitleTyped, ReadThrough
    PROVE  HighestRead >= owed
<1>1. HighestRead \in Nat /\ owed \in Nat /\ \A ch \in flagged : ch.number \in Nat /\ ch.number <= HighestRead
  BY HighestReadNumber, NumberFacts, ChapterNumbers DEF TitleTyped
<1>2. QED
  BY <1>1 DEF ReadThrough

\* A request goes on to another.
LEMMA MoverTyped ==
    ASSUME MoversTyped, NEW m \in Movers, NEW r \in Requests, mover' = [mover EXCEPT ![m] = r],
           r.at = "store" => r.fetched \in DOMAIN Published,
           r.at \in {"mark", "bookmark", "resume"} => r.carry
    PROVE  MoversTyped' /\ \A n \in Movers : mover'[n] = IF n = m THEN r ELSE mover[n]
<1>1. \A n \in Movers : mover'[n] = IF n = m THEN r ELSE mover[n]
  BY DEF MoversTyped
<1>2. mover' \in [Movers -> Requests]
  BY DEF MoversTyped
<1>3. QED
  BY <1>1, <1>2 DEF MoversTyped

\* A step of a request that leaves the title alone.
LEMMA TitleRests ==
    ASSUME Carried, NEW m \in Movers, NEW r,
           \A n \in Movers : mover'[n] = IF n = m THEN r ELSE mover[n],
           UNCHANGED <<titleVars, owed, wanted, lost>>,
           Carrying(m) <=> r.carry /\ r.at \in {"fetch", "store", "mark", "bookmark", "resume"},
           ~lost /\ Carrying(m) => Carries(r),
           ~lost /\ (\A n \in Movers : ~Carrying(n)) /\ r.carry /\ r.at = "commit" => TookUp(r)
    PROVE  NothingForgotten'
<1> SUFFICES ASSUME ~lost' PROVE NothingForgotten'
  BY DEF NothingForgotten
<1>1. ~lost /\ \A n \in Movers : Carrying(n)' <=> Carrying(n)
  BY DEF Carrying
<1>2. ASSUME NEW n \in Movers, Carrying(n) PROVE Carries(mover[n])'
  <2>1. CASE n = m
    BY <1>1, <1>2, <2>1 DEF Carries, titleVars, ReadThrough, MarksKept
  <2>2. CASE n # m
    <3>1. mover'[n] = mover[n] /\ Carries(mover[n])
      BY <1>1, <1>2, <2>2 DEF Carried, NothingForgotten
    <3>2. QED
      BY <3>1 DEF Carries, titleVars, ReadThrough, MarksKept
  <2>3. QED
    BY <2>1, <2>2
<1>3. ASSUME \A n \in Movers : ~Carrying(n)
      PROVE  /\ ReadThrough' /\ MarksKept'
             /\ \A n \in Movers : (mover[n].carry /\ mover[n].at = "commit" => TookUp(mover[n]))'
  <2>1. ReadThrough' /\ MarksKept'
    BY <1>1, <1>3 DEF Carried, NothingForgotten, ReadThrough, MarksKept, titleVars
  <2>2. ASSUME NEW n \in Movers, mover'[n].carry, mover'[n].at = "commit" PROVE TookUp(mover[n])'
    <3>1. CASE n = m
      <4>1. mover'[n] = r
        BY <3>1
      <4>2. TookUp(r)
        BY <1>1, <1>3, <2>2, <4>1
      <4>3. QED
        BY <4>1, <4>2 DEF TookUp, titleVars
    <3>2. CASE n # m
      <4>1. mover'[n] = mover[n]
        BY <3>2
      <4>2. TookUp(mover[n])
        BY <1>1, <1>3, <2>2, <4>1 DEF Carried, NothingForgotten
      <4>3. QED
        BY <4>1, <4>2 DEF TookUp, titleVars
    <3>3. QED
      BY <3>1, <3>2
  <2>3. QED
    BY <2>1, <2>2
<1>4. QED
  BY <1>1, <1>2, <1>3 DEF NothingForgotten

\* A step that adds to the title: whoever carries goes on or has done its part, and nobody
\* is to commit with less than there is.
LEMMA TitleGrows ==
    ASSUME Carried, UNCHANGED <<primary, owed, wanted>>, lost => lost',
           chapters \subseteq chapters', flagged \subseteq flagged', bookmarked \subseteq bookmarked',
           ~lost' => \A n \in Movers :
               \/ mover'[n] = mover[n]
               \/ Carrying(n) /\ Carrying(n)' /\ Carries(mover[n])'
               \/ ~Carrying(n) /\ ~Carrying(n)' /\ mover'[n].at # "commit"
               \/ Carrying(n) /\ ~Carrying(n)' /\ ReadThrough' /\ MarksKept'
                  /\ \A k \in Movers : ~(mover'[k].carry /\ mover'[k].at = "commit"),
           ~lost' => \/ UNCHANGED <<flagged, bookmarked, resume>>
                     \/ \A n \in Movers : ~(mover'[n].carry /\ mover'[n].at = "commit")
    PROVE  NothingForgotten'
<1> SUFFICES ASSUME ~lost' PROVE NothingForgotten'
  BY DEF NothingForgotten
<1>1. ReadThrough => ReadThrough'
  BY DEF ReadThrough
<1>2. MarksKept => MarksKept'
  BY DEF MarksKept, Numbers
<1>3. ASSUME NEW n \in Movers, Carrying(n)' PROVE Carries(mover[n])'
  <2>1. CASE mover'[n] = mover[n]
    <3>1. Carries(mover[n])
      BY <1>3, <2>1 DEF Carried, NothingForgotten, Carrying
    <3>2. QED
      BY <1>1, <1>2, <2>1, <3>1 DEF Carries
  <2>2. QED
    BY <1>3, <2>1
<1>4. ASSUME \A n \in Movers : ~Carrying(n)'
      PROVE  /\ ReadThrough' /\ MarksKept'
             /\ \A n \in Movers : (mover[n].carry /\ mover[n].at = "commit" => TookUp(mover[n]))'
  <2>1. CASE \E n \in Movers : Carrying(n)
    <3>1. PICK n \in Movers : Carrying(n)
      BY <2>1
    <3>2. mover'[n] # mover[n]
      BY <1>4, <3>1 DEF Carrying
    <3>3. QED
      BY <1>4, <3>1, <3>2
  <2>2. CASE \A n \in Movers : ~Carrying(n)
    <3>1. ReadThrough' /\ MarksKept'
      BY <1>1, <1>2, <2>2 DEF Carried, NothingForgotten
    <3>2. ASSUME NEW n \in Movers, mover'[n].carry, mover'[n].at = "commit" PROVE TookUp(mover[n])'
      <4>1. mover'[n] = mover[n] /\ UNCHANGED <<flagged, bookmarked, resume>>
        BY <2>2, <3>2
      <4>2. TookUp(mover[n])
        BY <2>2, <3>2, <4>1 DEF Carried, NothingForgotten
      <4>3. QED
        BY <4>1, <4>2 DEF TookUp
    <3>3. QED
      BY <3>1, <3>2
  <2>3. QED
    BY <2>1, <2>2
<1>5. QED
  BY <1>3, <1>4 DEF NothingForgotten

-----------------------------------------------------------------------------
(* Every step carries what is owed                                         *)

CarriedOn == TitleTyped /\ MoversTyped /\ NothingForgotten

LEMMA InitCarried == MigrationInit => CarriedOn
<1> SUFFICES ASSUME MigrationInit PROVE CarriedOn
  OBVIOUS
<1>1. First \in DOMAIN Published /\ ChaptersOf(First) \subseteq AllChapters
  BY MigrationAssumption, ChapterNumbers
<1>2. TitleTyped
  BY <1>1, NumberFacts DEF MigrationInit, TitleTyped
<1>3. Resting \in Requests
  BY NumberFacts DEF Resting, Requests, Places
<1>4. MoversTyped
  BY <1>3 DEF MigrationInit, MoversTyped, Resting
<1>5. NothingForgotten
  BY DEF MigrationInit, NothingForgotten, Carrying, Resting, ReadThrough, MarksKept, Numbers
<1>6. QED
  BY <1>2, <1>4, <1>5 DEF CarriedOn

\* Until it commits a request changes nothing of the title.
LEMMA CheckCarried ==
    ASSUME Carried, NEW m \in Movers, NEW s \in Others, NEW carry \in BOOLEAN, Check(m, s, carry)
    PROVE  CarriedOn'
<1> DEFINE r == [Resting EXCEPT !.at = "capture", !.source = s, !.carry = carry]
<1>1. r \in Requests /\ r.at = "capture"
  BY NumberFacts DEF Resting, Requests, Places
<1>2. mover' = [mover EXCEPT ![m] = r] /\ mover[m].at = "idle"
      /\ UNCHANGED <<titleVars, owed, wanted, lost, refreshing>>
  BY DEF Check, ghostVars
<1> HIDE DEF r
<1>3. MoversTyped' /\ \A n \in Movers : mover'[n] = IF n = m THEN r ELSE mover[n]
  BY <1>1, <1>2, MoverTyped DEF Carried
<1>4. NothingForgotten'
  BY <1>1, <1>2, <1>3, TitleRests DEF Carrying
<1>5. QED
  BY <1>2, <1>3, <1>4 DEF Carried, CarriedOn, TitleTyped, titleVars

LEMMA CaptureCarried ==
    ASSUME Carried, NEW m \in Movers, Capture(m)
    PROVE  CarriedOn'
<1> DEFINE r == [mover[m] EXCEPT !.at = "commit", !.resume = resume,
                                 !.highest = IF mover[m].carry THEN HighestRead ELSE 0,
                                 !.marks = IF mover[m].carry THEN Numbers(bookmarked) ELSE {}]
<1>1. HighestRead \in Numbering /\ Numbers(bookmarked) \subseteq Numbering
  BY HighestReadNumber, ChapterNumbers DEF Carried, TitleTyped, Numbers
<1>2. mover[m] \in Requests
  BY DEF Carried, MoversTyped
<1>3. /\ r \in Requests /\ r.at = "commit" /\ r.carry = mover[m].carry
      /\ r.carry => r.highest = HighestRead /\ r.marks = Numbers(bookmarked)
  BY <1>1, <1>2, NumberFacts DEF Carried, TitleTyped, Requests, Places
<1>4. mover' = [mover EXCEPT ![m] = r] /\ mover[m].at = "capture"
      /\ UNCHANGED <<titleVars, owed, wanted, lost, refreshing>>
  BY DEF Capture, ghostVars
<1> HIDE DEF r
<1>5. MoversTyped' /\ \A n \in Movers : mover'[n] = IF n = m THEN r ELSE mover[n]
  BY <1>3, <1>4, MoverTyped DEF Carried
<1>6. ASSUME ~lost, \A n \in Movers : ~Carrying(n), r.carry PROVE TookUp(r)
  <2>1. ReadThrough /\ MarksKept
    BY <1>6 DEF Carried, NothingForgotten
  <2>2. owed \in Nat /\ HighestRead \in Nat /\ HighestRead >= owed
    BY <2>1, <1>1, ReadThroughReads, NumberFacts DEF Carried, TitleTyped
  <2>3. owed <= HighestRead
    BY <2>2
  <2>4. QED
    BY <1>3, <1>6, <2>1, <2>3, HighestReadNumber DEF Carried, TookUp, MarksKept
<1>7. NothingForgotten'
  BY <1>3, <1>4, <1>5, <1>6, TitleRests DEF Carrying
<1>8. QED
  BY <1>4, <1>5, <1>7 DEF Carried, CarriedOn, TitleTyped, titleVars

LEMMA FetchCarried ==
    ASSUME Carried, NEW m \in Movers, Fetch(m)
    PROVE  CarriedOn'
<1> DEFINE r == [mover[m] EXCEPT !.at = "store", !.fetched = primary]
<1>1. mover[m] \in Requests /\ mover[m].at = "fetch" /\ primary \in DOMAIN Published
  BY DEF Carried, MoversTyped, TitleTyped, Fetch
<1>2. /\ r \in Requests /\ r.at = "store" /\ r.fetched = primary
      /\ r.carry = mover[m].carry /\ r.highest = mover[m].highest /\ r.marks = mover[m].marks
  BY <1>1 DEF Requests, Places
<1>3. mover' = [mover EXCEPT ![m] = r] /\ UNCHANGED <<titleVars, owed, wanted, lost, refreshing>>
  BY DEF Fetch, ghostVars
<1> HIDE DEF r
<1>4. MoversTyped' /\ \A n \in Movers : mover'[n] = IF n = m THEN r ELSE mover[n]
  BY <1>1, <1>2, <1>3, MoverTyped DEF Carried
<1>5. ~lost /\ Carrying(m) => Carries(r)
  <2> SUFFICES ASSUME ~lost, Carrying(m) PROVE Carries(r)
    OBVIOUS
  <2>1. Carries(mover[m])
    BY DEF Carried, NothingForgotten
  <2>2. QED
    BY <1>2, <2>1 DEF Carries
<1>6. NothingForgotten'
  BY <1>1, <1>2, <1>3, <1>4, <1>5, TitleRests DEF Carrying
<1>7. QED
  BY <1>3, <1>4, <1>6 DEF Carried, CarriedOn, TitleTyped, titleVars

\* The list brings the chapters of the source; without it what is owed is given up.
LEMMA StoreCarried ==
    ASSUME Carried, NEW m \in Movers, Store(m)
    PROVE  CarriedOn'
<1>1. mover[m] \in Requests /\ mover[m].at = "store" /\ mover[m].fetched \in DOMAIN Published
  BY DEF Carried, MoversTyped, Store
<1>2. \/ chapters' = chapters \cup ChaptersOf(mover[m].fetched) /\ UNCHANGED lost
      \/ chapters' = chapters /\ lost' = (lost \/ mover[m].carry)
  BY DEF Store, Stored
<1>3. UNCHANGED <<primary, bookmarked, flagged, resume, refreshing, owed, wanted>>
  BY DEF Store
<1>4. chapters \subseteq chapters' /\ chapters' \subseteq AllChapters
  BY <1>1, <1>2, ChapterNumbers DEF Carried, TitleTyped
<1>5. PICK r \in Requests :
        /\ mover' = [mover EXCEPT ![m] = r]
        /\ r = [mover[m] EXCEPT !.at = IF mover[m].carry THEN "mark" ELSE "idle", !.fetched = None, !.list = chapters']
  BY <1>1, <1>4 DEF Store, Requests, Places
<1>6. /\ r.at = IF mover[m].carry THEN "mark" ELSE "idle"
      /\ r.carry = mover[m].carry /\ r.highest = mover[m].highest /\ r.marks = mover[m].marks
  BY <1>1, <1>5 DEF Requests
<1>7. MoversTyped' /\ \A n \in Movers : mover'[n] = IF n = m THEN r ELSE mover[n]
  <2>1. r.at # "store" /\ (r.at \in {"mark", "bookmark", "resume"} => r.carry)
    BY <1>6
  <2>2. mover' = [mover EXCEPT ![m] = r]
    BY <1>5
  <2>3. QED
    BY <2>1, <2>2, MoverTyped DEF Carried
<1>8. ASSUME ~lost', mover[m].carry PROVE Carrying(m) /\ Carrying(m)' /\ Carries(mover[m])'
  <2>1. Carrying(m) /\ Carrying(m)' /\ mover'[m] = r /\ r.at = "mark"
    BY <1>1, <1>6, <1>7, <1>8 DEF Carrying
  <2>2. Carries(mover[m]) /\ chapters' = chapters \cup ChaptersOf(mover[m].fetched)
    BY <1>2, <1>8, <2>1 DEF Carried, NothingForgotten
  <2>3. Carries(mover[m])'
    BY <1>1, <1>3, <1>6, <2>1, <2>2 DEF Carries
  <2>4. QED
    BY <2>1, <2>3
<1>9. NothingForgotten'
  <2>1. ~mover[m].carry => ~Carrying(m) /\ ~Carrying(m)' /\ mover'[m].at # "commit"
    BY <1>1, <1>6, <1>7 DEF Carrying
  <2>2. lost => lost'
    BY <1>2
  <2>3. QED
    BY <1>3, <1>4, <1>7, <1>8, <2>1, <2>2, TitleGrows
<1>10. QED
  BY <1>3, <1>4, <1>7, <1>9 DEF Carried, CarriedOn, TitleTyped

\* A flag on the chapter owed, ...
LEMMA MarkThroughCarried ==
    ASSUME Carried, NEW m \in Movers, MarkThrough(m)
    PROVE  CarriedOn'
<1>1. mover[m] \in Requests /\ mover[m].at = "mark" /\ mover[m].carry /\ mover[m].highest \in Nat
  BY NumberFacts DEF Carried, MoversTyped, MarkThrough, Requests
<1>2. /\ flagged' = flagged \cup {ch \in chapters : ch.number <= mover[m].highest}
      /\ UNCHANGED <<primary, chapters, bookmarked, resume, refreshing, owed, wanted>>
      /\ lost => lost'
      /\ ~lost' => ~lost /\ \A n \in Movers \ {m} : ~(mover[n].carry /\ mover[n].at = "commit")
  BY DEF MarkThrough, Overtakes
<1>3. PICK r \in Requests : mover' = [mover EXCEPT ![m] = r] /\ r = [mover[m] EXCEPT !.at = "bookmark"]
  BY <1>1 DEF MarkThrough, Goes, Requests, Places
<1>4. r.at = "bookmark" /\ r.carry /\ r.highest = mover[m].highest /\ r.marks = mover[m].marks
  BY <1>1, <1>3 DEF Requests
<1>5. MoversTyped' /\ \A n \in Movers : mover'[n] = IF n = m THEN r ELSE mover[n]
  BY <1>3, <1>4, MoverTyped DEF Carried
<1>6. ASSUME ~lost' PROVE Carrying(m) /\ Carrying(m)' /\ Carries(mover[m])'
  <2>1. Carrying(m) /\ Carrying(m)' /\ mover'[m] = r
    BY <1>1, <1>4, <1>5 DEF Carrying
  <2>2. Carries(mover[m])
    BY <1>2, <1>6, <2>1 DEF Carried, NothingForgotten
  <2>3. ASSUME owed <= mover[m].highest, owed \in Published[primary], ChaptersOf(primary) \subseteq chapters
        PROVE  ReadThrough'
    <3>1. PICK ch \in chapters : ch.number = owed
      <4>1. [source |-> primary, number |-> owed] \in chapters
        BY <2>3, ChapterNumbers
      <4>2. QED
        BY <4>1
    <3>2. ch \in flagged' /\ owed \in Nat
      BY <1>2, <2>3, <3>1, NumberFacts DEF Carried, TitleTyped
    <3>3. QED
      BY <1>2, <3>1, <3>2 DEF ReadThrough
  <2>4. Carries(mover[m])'
    <3>1. CASE owed = 0 /\ wanted = {}
      BY <1>2, <3>1 DEF Carries
    <3>2. CASE ~(owed = 0 /\ wanted = {})
      <4>1. /\ owed <= mover[m].highest /\ wanted \subseteq mover[m].marks
            /\ owed \in {0} \cup Published[primary] /\ wanted \subseteq Published[primary]
            /\ ChaptersOf(primary) \subseteq chapters
        BY <1>1, <2>2, <3>2 DEF Carries
      <4>2. ReadThrough'
        BY <1>2, <2>3, <4>1 DEF ReadThrough
      <4>3. QED
        BY <1>2, <1>4, <2>1, <4>1, <4>2 DEF Carries
    <3>3. QED
      BY <3>1, <3>2
  <2>5. QED
    BY <2>1, <2>4
<1>7. NothingForgotten'
  <2>1. ~lost' => \A n \in Movers : ~(mover'[n].carry /\ mover'[n].at = "commit")
    BY <1>2, <1>4, <1>5
  <2>2. chapters \subseteq chapters' /\ flagged \subseteq flagged' /\ bookmarked \subseteq bookmarked'
    BY <1>2
  <2>3. ~lost' => \A n \in Movers : mover'[n] = mover[n] \/ (Carrying(n) /\ Carrying(n)' /\ Carries(mover[n])')
    BY <1>5, <1>6
  <2>4. QED
    BY <1>2, <2>1, <2>2, <2>3, TitleGrows
<1>8. QED
  BY <1>2, <1>5, <1>7 DEF Carried, CarriedOn, TitleTyped

\* ... the bookmarks ...
LEMMA MarkBookmarksCarried ==
    ASSUME Carried, NEW m \in Movers, MarkBookmarks(m)
    PROVE  CarriedOn'
<1>1. mover[m] \in Requests /\ mover[m].at = "bookmark" /\ mover[m].carry
  BY DEF Carried, MoversTyped, MarkBookmarks
<1>2. /\ bookmarked' = bookmarked \cup {ch \in chapters : ch.number \in mover[m].marks}
      /\ UNCHANGED <<primary, chapters, flagged, resume, refreshing, owed, wanted>>
      /\ lost => lost'
      /\ ~lost' => ~lost /\ \A n \in Movers \ {m} : ~(mover[n].carry /\ mover[n].at = "commit")
  BY DEF MarkBookmarks, Overtakes
<1>3. PICK r \in Requests : mover' = [mover EXCEPT ![m] = r] /\ r = [mover[m] EXCEPT !.at = "resume"]
  BY <1>1 DEF MarkBookmarks, Goes, Requests, Places
<1>4. r.at = "resume" /\ r.carry /\ r.highest = mover[m].highest /\ r.marks = mover[m].marks
  BY <1>1, <1>3 DEF Requests
<1>5. MoversTyped' /\ \A n \in Movers : mover'[n] = IF n = m THEN r ELSE mover[n]
  BY <1>3, <1>4, MoverTyped DEF Carried
<1>6. ASSUME ~lost' PROVE Carrying(m) /\ Carrying(m)' /\ Carries(mover[m])'
  <2>1. Carrying(m) /\ Carrying(m)' /\ mover'[m] = r
    BY <1>1, <1>4, <1>5 DEF Carrying
  <2>2. Carries(mover[m])
    BY <1>2, <1>6, <2>1 DEF Carried, NothingForgotten
  <2>3. Carries(mover[m])'
    <3>1. CASE owed = 0 /\ wanted = {}
      BY <1>2, <3>1 DEF Carries
    <3>2. CASE ~(owed = 0 /\ wanted = {})
      <4>1. /\ owed <= mover[m].highest /\ wanted \subseteq mover[m].marks
            /\ owed \in {0} \cup Published[primary] /\ wanted \subseteq Published[primary]
            /\ ChaptersOf(primary) \subseteq chapters /\ ReadThrough
        BY <1>1, <2>2, <3>2 DEF Carries
      <4>2. \A n \in wanted : \E ch \in bookmarked' : ch.number = n
        <5> SUFFICES ASSUME NEW n \in wanted PROVE \E ch \in bookmarked' : ch.number = n
          OBVIOUS
        <5>1. [source |-> primary, number |-> n] \in chapters
          BY <4>1, ChapterNumbers
        <5>2. QED
          BY <1>2, <4>1, <5>1
      <4>3. MarksKept' /\ ReadThrough'
        BY <1>2, <4>1, <4>2 DEF MarksKept, ReadThrough, Numbers
      <4>4. QED
        BY <1>2, <1>4, <2>1, <4>1, <4>3 DEF Carries
    <3>3. QED
      BY <3>1, <3>2
  <2>4. QED
    BY <2>1, <2>3
<1>7. NothingForgotten'
  <2>1. ~lost' => \A n \in Movers : ~(mover'[n].carry /\ mover'[n].at = "commit")
    BY <1>2, <1>4, <1>5
  <2>2. chapters \subseteq chapters' /\ flagged \subseteq flagged' /\ bookmarked \subseteq bookmarked'
    BY <1>2
  <2>3. ~lost' => \A n \in Movers : mover'[n] = mover[n] \/ (Carrying(n) /\ Carrying(n)' /\ Carries(mover[n])')
    BY <1>5, <1>6
  <2>4. QED
    BY <1>2, <2>1, <2>2, <2>3, TitleGrows
<1>8. QED
  BY <1>2, <1>5, <1>7 DEF Carried, CarriedOn, TitleTyped

\* A report keeps the types.
LEMMA UpsertTyped ==
    ASSUME TitleTyped, NEW ch \in chapters, NEW completed \in BOOLEAN, Upsert(ch, completed),
           UNCHANGED <<primary, chapters, bookmarked, refreshing, owed, wanted>>
    PROVE  TitleTyped' /\ flagged \subseteq flagged'
<1>1. resume' \in Progress
  BY DEF Upsert, TitleTyped, Progress
<1>2. flagged \subseteq flagged' /\ flagged' \subseteq chapters
  BY DEF Upsert, TitleTyped
<1>3. QED
  BY <1>1, <1>2 DEF TitleTyped

\* ... and the open chapter: then nothing is owed.
LEMMA CarryResumeCarried ==
    ASSUME Carried, NEW m \in Movers, CarryResume(m)
    PROVE  CarriedOn'
<1>1. mover[m] \in Requests /\ mover[m].at = "resume" /\ mover[m].carry
  BY DEF Carried, MoversTyped, CarryResume
<1>2. /\ UNCHANGED <<primary, chapters, bookmarked, refreshing, owed, wanted>>
      /\ lost => lost'
      /\ ~lost' => ~lost /\ \A n \in Movers \ {m} : ~(mover[n].carry /\ mover[n].at = "commit")
      /\ mover' = [mover EXCEPT ![m] = Resting]
  BY DEF CarryResume, Overtakes
<1>3. Resting \in Requests /\ Resting.at = "idle"
  BY NumberFacts DEF Resting, Requests, Places
<1>4. MoversTyped' /\ \A n \in Movers : mover'[n] = IF n = m THEN Resting ELSE mover[n]
  BY <1>2, <1>3, MoverTyped DEF Carried
<1>5. TitleTyped' /\ flagged \subseteq flagged'
  <2>1. CASE UNCHANGED <<resume, flagged>>
    BY <1>2, <2>1 DEF Carried, TitleTyped
  <2>2. CASE ~UNCHANGED <<resume, flagged>>
    <3>1. \E ch \in chapters, completed \in BOOLEAN : Upsert(ch, completed)
      <4>1. PICK ch \in chapters, last \in BOOLEAN :
              mover[m].resume # None /\ Upsert(ch, mover[m].resume.completed /\ last)
        BY <2>2 DEF CarryResume
      <4>2. (mover[m].resume.completed /\ last) \in BOOLEAN
        OBVIOUS
      <4>3. QED
        BY <4>1, <4>2
    <3>2. QED
      BY <1>2, <3>1, UpsertTyped DEF Carried
  <2>3. QED
    BY <2>1, <2>2
<1>6. ASSUME ~lost' PROVE Carrying(m) /\ ~Carrying(m)' /\ ReadThrough' /\ MarksKept'
  <2>1. Carrying(m) /\ ~Carrying(m)'
    BY <1>1, <1>3, <1>4 DEF Carrying
  <2>2. Carries(mover[m])
    BY <1>2, <1>6, <2>1 DEF Carried, NothingForgotten
  <2>3. ReadThrough /\ MarksKept
    BY <1>1, <2>2 DEF Carries, ReadThrough, MarksKept
  <2>4. QED
    BY <1>2, <1>5, <2>1, <2>3 DEF ReadThrough, MarksKept
<1>7. NothingForgotten'
  <2>1. ~lost' => \A n \in Movers : ~(mover'[n].carry /\ mover'[n].at = "commit")
    BY <1>2, <1>3, <1>4
  <2>2. chapters \subseteq chapters' /\ bookmarked \subseteq bookmarked'
    BY <1>2
  <2>3. ~lost' => \A n \in Movers :
            \/ mover'[n] = mover[n]
            \/ Carrying(n) /\ ~Carrying(n)' /\ ReadThrough' /\ MarksKept'
    BY <1>4, <1>6
  <2>4. QED
    BY <1>2, <1>5, <2>1, <2>2, <2>3, TitleGrows
<1>8. QED
  BY <1>4, <1>5, <1>7 DEF CarriedOn

\* The transaction: whoever commits took up what there was, and owes no more than that.
LEMMA CommitCarried ==
    ASSUME Carried, NEW m \in Movers, Commit(m)
    PROVE  CarriedOn'
<1> DEFINE s == mover[m].source
           kept == {ch \in chapters : ch.source = s}
<1>0. /\ s \in Others /\ s \in DOMAIN Published
      /\ mover[m] \in Requests /\ mover[m].at = "commit" /\ mover[m].carry \in BOOLEAN
  BY DEF Carried, Whole, CheckStands, Checked, Commit, Others, MoversTyped, Requests
<1>1. CASE stubs[s] = "attached"
  <2>1. mover' = [mover EXCEPT ![m] = Resting] /\ UNCHANGED <<titleVars, owed, wanted, lost, refreshing>>
    BY <1>1 DEF Commit
  <2>2. Resting \in Requests /\ Resting.at = "idle"
    BY NumberFacts DEF Resting, Requests, Places
  <2>3. MoversTyped' /\ \A n \in Movers : mover'[n] = IF n = m THEN Resting ELSE mover[n]
    BY <2>1, <2>2, MoverTyped DEF Carried
  <2>4. NothingForgotten'
    BY <1>0, <2>1, <2>2, <2>3, TitleRests DEF Carrying
  <2>5. QED
    BY <2>1, <2>3, <2>4 DEF Carried, CarriedOn, TitleTyped, titleVars
<1>2. CASE stubs[s] # "attached"
  <2>1. /\ primary' = s
        /\ chapters' = kept \cup (IF stubs[s] = "viewed" THEN ChaptersOf(s) ELSE {})
        /\ bookmarked' = bookmarked \cap kept /\ flagged' = flagged \cap kept
        /\ resume' = IF resume # None /\ resume.chapter \in kept THEN resume ELSE None
        /\ Account(m) /\ UNCHANGED refreshing
    BY <1>2 DEF Commit
  <2>2. PICK r \in Requests : mover' = [mover EXCEPT ![m] = r] /\ r = [mover[m] EXCEPT !.at = "fetch"]
    BY <1>0, <1>2 DEF Commit, Goes, Requests, Places
  <2>3. r.at = "fetch" /\ r.carry = mover[m].carry /\ r.highest = mover[m].highest /\ r.marks = mover[m].marks
    BY <1>0, <2>2 DEF Requests
  <2>4. MoversTyped' /\ \A n \in Movers : mover'[n] = IF n = m THEN r ELSE mover[n]
    BY <2>2, <2>3, MoverTyped DEF Carried
  <2>5. HighestRead \in Nat /\ owed \in Nat /\ owed \in Numbering /\ HighestRead \in Numbering
    BY HighestReadNumber, NumberFacts DEF Carried, TitleTyped
  <2>6. Max({owed, HighestRead}) \in {owed, HighestRead}
    BY <2>5, MaxNumber
  <2> DEFINE top == Max({owed, HighestRead})
  <2>7. top \in Nat /\ UpTo(Published[s], top) \in {0} \cup Published[s] /\ UpTo(Published[s], top) <= top
    <3>1. Published[s] \subseteq Numbering
      BY <1>0 DEF Numbering
    <3>2. top \in Nat
      BY <2>5, <2>6
    <3>3. QED
      BY <3>1, <3>2, UpToNumber
  <2>8. TitleTyped'
    <3>1. owed' \in Numbering /\ wanted' \subseteq Numbering
      <4>1. owed' \in {0} \cup Published[s] /\ wanted' \subseteq Published[s]
        BY <2>1, <2>7 DEF Account
      <4>2. QED
        BY <1>0, <4>1, NumberFacts DEF Numbering
    <3>2. chapters' \subseteq AllChapters
      BY <1>0, <2>1, ChapterNumbers DEF Carried, TitleTyped
    <3>3. bookmarked' \subseteq chapters' /\ flagged' \subseteq chapters'
      BY <2>1
    <3>4. resume' \in Progress \cup {None}
      BY <2>1 DEF Carried, TitleTyped
    <3>5. QED
      BY <1>0, <2>1, <3>1, <3>2, <3>3, <3>4 DEF Carried, TitleTyped
  <2>9. ASSUME ~lost', mover[m].carry PROVE NothingForgotten'
    <3>1. /\ owed' = UpTo(Published[s], top) /\ wanted' = (wanted \cup Numbers(bookmarked)) \cap Published[s]
          /\ ~lost /\ \A n \in Movers : ~Carrying(n)
      BY <2>1, <2>9 DEF Account
    <3>2. TookUp(mover[m])
      BY <1>0, <2>9, <3>1 DEF Carried, NothingForgotten
    <3>3. mover[m].highest \in Nat
      BY <1>0, NumberFacts DEF Requests
    <3>4. HighestRead <= mover[m].highest
      BY <3>2, <3>3, HighestReadNumber DEF Carried, TookUp
    <3>5. top <= mover[m].highest
      BY <2>6, <3>2, <3>4 DEF TookUp
    <3>6. owed' \in Nat /\ owed' <= mover[m].highest
      <4>1. owed' \in Nat
        BY <2>8, NumberFacts DEF TitleTyped
      <4>2. QED
        BY <2>7, <3>1, <3>3, <3>5, <4>1
    <3>7. wanted' \subseteq mover[m].marks
      BY <3>1, <3>2 DEF TookUp
    <3>8. Carrying(m)' /\ mover'[m] = r
      BY <2>3, <2>4, <2>9 DEF Carrying
    <3>9. Carries(mover[m])'
      BY <2>1, <2>3, <2>7, <3>1, <3>6, <3>7, <3>8 DEF Carries
    <3>10. \A n \in Movers : Carrying(n)' => n = m
      BY <2>4, <3>1 DEF Carrying
    <3>11. QED
      BY <3>8, <3>9, <3>10 DEF NothingForgotten
  <2>10. ASSUME ~lost', ~mover[m].carry PROVE NothingForgotten'
    <3>1. owed' = 0 /\ wanted' = {} /\ ~lost
      BY <2>1, <2>10 DEF Account
    <3>2. \A n \in Movers : Carries(mover[n])'
      BY <3>1 DEF Carries
    <3>3. ReadThrough' /\ MarksKept'
      BY <3>1 DEF ReadThrough, MarksKept
    <3>4. ASSUME \A n \in Movers : ~Carrying(n)', NEW n \in Movers, mover'[n].carry, mover'[n].at = "commit"
          PROVE  TookUp(mover[n])'
      <4>1. mover'[n] = mover[n]
        BY <2>3, <2>4, <3>4
      <4>2. \A k \in Movers : ~Carrying(k)
        BY <2>3, <2>4, <2>10, <3>4 DEF Carrying
      <4>3. TookUp(mover[n])
        BY <3>1, <3>4, <4>1, <4>2 DEF Carried, NothingForgotten
      <4>4. mover[n].highest \in Nat
        BY NumberFacts DEF Carried, MoversTyped, Requests
      <4>5. 0 <= mover[n].highest
        BY <4>4
      <4>6. /\ \A ch \in flagged' : ch.number <= mover[n].highest
            /\ resume' # None => resume'.chapter.number <= mover[n].highest
            /\ Numbers(bookmarked)' \subseteq mover[n].marks
        BY <2>1, <4>3 DEF TookUp, Numbers
      <4>7. QED
        BY <3>1, <4>1, <4>5, <4>6 DEF TookUp
    <3>5. QED
      BY <3>2, <3>3, <3>4 DEF NothingForgotten
  <2>11. NothingForgotten'
    BY <2>9, <2>10 DEF NothingForgotten
  <2>12. QED
    BY <2>4, <2>8, <2>11 DEF CarriedOn
<1>3. QED
  BY <1>1, <1>2

\* The reader, the updater and the library leave the requests alone, and a restart gives up
\* what they still owed.
LEMMA OthersCarried ==
    ASSUME Carried,
           \/ \E ch \in chapters : Bookmark(ch) \/ \E completed \in BOOLEAN : Report(ch, completed)
           \/ RefreshBegins \/ RefreshEnds \/ Crash
           \/ \E s \in Others : AddToLibrary(s)
    PROVE  CarriedOn'
<1>1. ASSUME NEW ch \in chapters, Bookmark(ch) PROVE CarriedOn'
  <2>1. /\ UNCHANGED <<primary, owed, wanted, chapters, flagged, resume, mover, refreshing>>
        /\ bookmarked' = bookmarked \cup {ch}
        /\ lost => lost'
        /\ ~lost' => \A n \in Movers : ~(mover[n].carry /\ mover[n].at = "commit")
    BY <1>1, MigrationAssumption DEF Bookmark, Overtakes
  <2>2. NothingForgotten'
    <3>1. bookmarked \subseteq bookmarked' /\ chapters \subseteq chapters' /\ flagged \subseteq flagged'
      BY <2>1
    <3>2. QED
      BY <2>1, <3>1, TitleGrows
  <2>3. QED
    BY <2>1, <2>2 DEF Carried, CarriedOn, TitleTyped, MoversTyped
<1>2. ASSUME NEW ch \in chapters, NEW completed \in BOOLEAN, Report(ch, completed) PROVE CarriedOn'
  <2>1. /\ UNCHANGED <<primary, owed, wanted, chapters, bookmarked, mover, refreshing>>
        /\ lost => lost'
        /\ ~lost' => \A n \in Movers : ~(mover[n].carry /\ mover[n].at = "commit")
        /\ Upsert(ch, completed)
    BY <1>2, MigrationAssumption DEF Report, Overtakes
  <2>2. TitleTyped' /\ flagged \subseteq flagged'
    BY <2>1, UpsertTyped DEF Carried
  <2>3. NothingForgotten'
    <3>1. bookmarked \subseteq bookmarked' /\ chapters \subseteq chapters'
      BY <2>1
    <3>2. QED
      BY <2>1, <2>2, <3>1, TitleGrows
  <2>4. QED
    BY <2>1, <2>2, <2>3 DEF Carried, CarriedOn, MoversTyped
<1>3. CASE RefreshEnds
  <2>1. /\ UNCHANGED <<primary, owed, wanted, lost, bookmarked, flagged, resume, mover>>
        /\ chapters' = chapters \cup ChaptersOf(refreshing) /\ refreshing # None /\ refreshing' = None
    BY <1>3 DEF RefreshEnds, Stored
  <2>2. NothingForgotten'
    <3>1. bookmarked \subseteq bookmarked' /\ chapters \subseteq chapters' /\ flagged \subseteq flagged'
      BY <2>1
    <3>2. QED
      BY <2>1, <3>1, TitleGrows
  <2>3. TitleTyped'
    BY <2>1, ChapterNumbers DEF Carried, TitleTyped
  <2>4. QED
    BY <2>1, <2>2, <2>3 DEF Carried, CarriedOn, MoversTyped
<1>4. CASE RefreshBegins \/ \E s \in Others : AddToLibrary(s)
  <2>1. UNCHANGED <<titleVars, owed, wanted, lost, mover>>
    BY <1>4 DEF RefreshBegins, AddToLibrary, ghostVars
  <2>2. refreshing' # None => refreshing' \in DOMAIN Published
    BY <1>4 DEF RefreshBegins, AddToLibrary, Carried, TitleTyped
  <2>3. NothingForgotten'
    BY <2>1, TitleGrows DEF titleVars
  <2>4. QED
    BY <2>1, <2>2, <2>3 DEF Carried, CarriedOn, TitleTyped, MoversTyped, titleVars
<1>5. CASE Crash
  <2>1. /\ UNCHANGED <<titleVars, owed, wanted>> /\ mover' = [m \in Movers |-> Resting] /\ refreshing' = None
        /\ ~lost' => ~lost /\ \A m \in Movers : ~Carrying(m)
    BY <1>5 DEF Crash
  <2>2. MoversTyped'
    BY <2>1, NumberFacts DEF MoversTyped, Resting, Requests, Places
  <2>3. NothingForgotten'
    <3>1. ~lost' => ReadThrough /\ MarksKept
      BY <2>1 DEF Carried, NothingForgotten
    <3>2. \A m \in Movers : ~Carrying(m)' /\ mover'[m].at # "commit"
      BY <2>1 DEF Carrying, Resting
    <3>3. QED
      BY <2>1, <3>1, <3>2 DEF NothingForgotten, ReadThrough, MarksKept, titleVars
  <2>4. QED
    BY <2>1, <2>2, <2>3 DEF Carried, CarriedOn, TitleTyped, titleVars
<1>6. QED
  BY <1>1, <1>2, <1>3, <1>4, <1>5

LEMMA StepCarried == Carried /\ [MigrationNext]_migrationVars => Carried'
<1> SUFFICES ASSUME Carried, [MigrationNext]_migrationVars PROVE Carried'
  OBVIOUS
<1>1. Whole'
  BY StepWhole DEF Carried
<1>2. ASSUME NEW m \in Movers, MoverStep(m) PROVE CarriedOn'
  BY <1>2, CheckCarried, CaptureCarried, CommitCarried, FetchCarried, StoreCarried, MarkThroughCarried,
     MarkBookmarksCarried, CarryResumeCarried DEF MoverStep
<1>3. CASE UNCHANGED migrationVars
  <2>1. UNCHANGED <<titleVars, owed, wanted, lost, mover, refreshing>>
    BY <1>3 DEF migrationVars, ghostVars
  <2>2. NothingForgotten'
    BY <2>1, TitleGrows DEF titleVars
  <2>3. QED
    BY <2>1, <2>2, <1>1 DEF Carried, TitleTyped, MoversTyped, titleVars
<1>4. CASE MigrationNext
  BY <1>1, <1>2, <1>4, OthersCarried DEF MigrationNext, Carried, CarriedOn
<1>5. QED
  BY <1>3, <1>4

-----------------------------------------------------------------------------
(* Where the title opens                                                   *)

Opens == opened /\ owed # 0 => resume # None /\ resume.chapter.number >= owed

\* The list a migration goes by has the chapters of the source.
Listed(r) == ChaptersOf(primary) \subseteq r.list /\ r.list \subseteq chapters

\* Whoever carries over knows that the title was open, and whoever commits next.
OpenCarried ==
    ~lost =>
        /\ \A m \in Movers : Carrying(m) /\ opened /\ owed # 0 =>
              /\ mover[m].resume # None
              /\ mover[m].at \in {"mark", "bookmark", "resume"} => Listed(mover[m])
        /\ (\A m \in Movers : ~Carrying(m)) =>
              /\ Opens
              /\ \A m \in Movers : mover[m].carry /\ mover[m].at = "commit" /\ resume # None =>
                    mover[m].resume # None

\* A step that leaves the title open where it is.
LEMMA OpenRests ==
    ASSUME OpenCarried, UNCHANGED <<primary, resume, opened, owed>>, lost => lost', chapters \subseteq chapters',
           ~lost' => \A n \in Movers :
               \/ mover'[n] = mover[n]
               \/ /\ ~Carrying(n) /\ ~Carrying(n)'
                  /\ mover'[n].at = "commit" /\ resume # None => mover'[n].resume # None
               \/ /\ Carrying(n) /\ Carrying(n)' /\ mover'[n].resume = mover[n].resume
                  /\ owed # 0 /\ mover'[n].at \in {"mark", "bookmark", "resume"} =>
                        \/ mover[n].at \in {"mark", "bookmark", "resume"} /\ mover'[n].list = mover[n].list
                        \/ Listed(mover[n])'
    PROVE  OpenCarried'
<1> SUFFICES ASSUME ~lost' PROVE OpenCarried'
  BY DEF OpenCarried
<1>1. ASSUME NEW n \in Movers, Carrying(n)', opened', owed' # 0
      PROVE  /\ mover'[n].resume # None
             /\ mover'[n].at \in {"mark", "bookmark", "resume"} => Listed(mover[n])'
  <2>1. Carrying(n) /\ opened /\ owed # 0 /\ mover'[n].resume = mover[n].resume
    BY <1>1 DEF Carrying
  <2>2. /\ mover[n].resume # None
        /\ mover[n].at \in {"mark", "bookmark", "resume"} => Listed(mover[n])
    BY <2>1 DEF OpenCarried
  <2>3. Listed(mover[n]) /\ mover'[n].list = mover[n].list => Listed(mover[n])'
    BY DEF Listed
  <2>4. QED
    BY <1>1, <2>1, <2>2, <2>3 DEF Carrying
<1>2. ASSUME \A n \in Movers : ~Carrying(n)'
      PROVE  /\ Opens'
             /\ \A m \in Movers : mover'[m].carry /\ mover'[m].at = "commit" /\ resume' # None =>
                    mover'[m].resume # None
  <2>1. \A n \in Movers : ~Carrying(n)
    BY <1>2 DEF Carrying
  <2>2. /\ Opens
        /\ \A m \in Movers : mover[m].carry /\ mover[m].at = "commit" /\ resume # None => mover[m].resume # None
    BY <2>1 DEF OpenCarried
  <2>3. QED
    BY <1>2, <2>1, <2>2 DEF Opens
<1>3. QED
  BY <1>1, <1>2 DEF OpenCarried

LEMMA OpenBegins == MigrationInit => OpenCarried
BY DEF MigrationInit, OpenCarried, Opens, Carrying, Resting

\* A request that looks, stores the list or marks.
LEMMA MoverOpens ==
    ASSUME Carried, OpenCarried, NEW m \in Movers,
           \/ \E s \in Others, carry \in BOOLEAN : Check(m, s, carry)
           \/ Capture(m) \/ Fetch(m) \/ Store(m) \/ MarkThrough(m) \/ MarkBookmarks(m)
    PROVE  OpenCarried'
<1>1. UNCHANGED <<primary, resume, opened, owed>> /\ (lost => lost') /\ chapters \subseteq chapters'
  <2>1. CASE \E s \in Others, carry \in BOOLEAN : Check(m, s, carry)
    <3>1. UNCHANGED <<titleVars, ghostVars>>
      BY <2>1 DEF Check
    <3>2. QED
      BY <3>1 DEF titleVars, ghostVars
  <2>2. CASE Capture(m) \/ Fetch(m)
    <3>1. UNCHANGED <<titleVars, ghostVars>>
      BY <2>2 DEF Capture, Fetch
    <3>2. QED
      BY <3>1 DEF titleVars, ghostVars
  <2>3. CASE Store(m)
    <3>1. UNCHANGED <<primary, resume, opened, owed>>
      BY <2>3 DEF Store
    <3>2. \/ chapters' = chapters \cup ChaptersOf(mover[m].fetched) /\ lost' = lost
          \/ lost' = (lost \/ mover[m].carry) /\ chapters' = chapters
      BY <2>3 DEF Store, Stored
    <3>3. lost => lost'
      BY <3>2
    <3>4. chapters \subseteq chapters'
      BY <3>2
    <3>5. QED
      BY <3>1, <3>3, <3>4
  <2>4. CASE MarkThrough(m)
    BY <2>4 DEF MarkThrough, Overtakes
  <2>5. CASE MarkBookmarks(m)
    BY <2>5 DEF MarkBookmarks, Overtakes
  <2>6. QED
    BY <2>1, <2>2, <2>3, <2>4, <2>5
<1>2. mover \in [Movers -> Requests] /\ mover[m] \in Requests
  BY DEF Carried, MoversTyped
<1>3. \A n \in Movers \ {m} : mover'[n] = mover[n]
  BY <1>2 DEF Check, Capture, Fetch, Store, MarkThrough, MarkBookmarks, Goes
<1>4. CASE \E s \in Others, carry \in BOOLEAN : Check(m, s, carry)
  <2>1. PICK s \in Others, carry \in BOOLEAN : Check(m, s, carry)
    BY <1>4
  <2>2. mover[m].at = "idle" /\ mover'[m] = [Resting EXCEPT !.at = "capture", !.source = s, !.carry = carry]
    BY <1>2, <2>1 DEF Check
  <2>3. mover'[m].at = "capture"
    BY <2>2 DEF Resting
  <2>4. QED
    BY <1>1, <1>3, <2>2, <2>3, OpenRests DEF Carrying
<1>5. CASE Capture(m)
  <2>1. mover[m].at = "capture" /\ mover'[m].at = "commit" /\ mover'[m].resume = resume
    BY <1>2, <1>5 DEF Capture, Requests
  <2>2. QED
    BY <1>1, <1>3, <2>1, OpenRests DEF Carrying
<1>6. CASE Fetch(m)
  <2>1. /\ mover[m].at = "fetch" /\ mover'[m].at = "store" /\ mover'[m].resume = mover[m].resume
        /\ mover'[m].carry = mover[m].carry
    BY <1>2, <1>6 DEF Fetch, Requests
  <2>2. Carrying(m) <=> Carrying(m)'
    BY <2>1 DEF Carrying
  <2>3. QED
    BY <1>1, <1>3, <2>1, <2>2, OpenRests
<1>7. CASE Store(m)
  <2>1. /\ mover[m].at = "store" /\ mover'[m].at = (IF mover[m].carry THEN "mark" ELSE "idle")
        /\ mover'[m].resume = mover[m].resume /\ mover'[m].carry = mover[m].carry /\ mover'[m].list = chapters'
    BY <1>2, <1>7 DEF Store, Requests
  <2>2. Carrying(m) <=> Carrying(m)'
    BY <2>1 DEF Carrying
  <2>3. ASSUME ~lost', Carrying(m), owed # 0 PROVE Listed(mover[m])'
    <3>1. mover[m].carry /\ ~lost /\ chapters' = chapters \cup ChaptersOf(mover[m].fetched)
      BY <1>1, <1>7, <2>3 DEF Store, Stored, Carrying
    <3>2. Carries(mover[m])
      BY <2>3, <3>1 DEF Carried, NothingForgotten
    <3>3. mover[m].fetched = primary
      BY <2>1, <2>3, <3>2 DEF Carries
    <3>4. ChaptersOf(primary)' = ChaptersOf(primary)
      BY <1>1 DEF ChaptersOf
    <3>5. QED
      BY <2>1, <3>1, <3>3, <3>4 DEF Listed
  <2>4. ~lost' => \/ /\ ~Carrying(m) /\ ~Carrying(m)' /\ mover'[m].at # "commit"
                  \/ /\ Carrying(m) /\ Carrying(m)' /\ mover'[m].resume = mover[m].resume
                     /\ owed # 0 => Listed(mover[m])'
    BY <2>1, <2>2, <2>3
  <2>5. QED
    BY <1>1, <1>3, <2>4, OpenRests
<1>8. CASE MarkThrough(m) \/ MarkBookmarks(m)
  <2>1. /\ mover[m].at \in {"mark", "bookmark"} /\ mover'[m].at \in {"bookmark", "resume"}
        /\ mover'[m].resume = mover[m].resume /\ mover'[m].carry = mover[m].carry
        /\ mover'[m].list = mover[m].list
    BY <1>2, <1>8 DEF MarkThrough, MarkBookmarks, Goes, Requests
  <2>2. Carrying(m) <=> Carrying(m)'
    BY <2>1 DEF Carrying
  <2>3. QED
    BY <1>1, <1>3, <2>1, <2>2, OpenRests
<1>9. QED
  BY <1>4, <1>5, <1>6, <1>7, <1>8

\* The greatest number of the list up to what was read is one that reaches what is owed.
LEMMA UpToReaches ==
    ASSUME NEW numbers, numbers \subseteq Numbering, NEW n \in Nat, NEW k \in numbers, k <= n, k # 0
    PROVE  UpTo(numbers, n) >= k /\ UpTo(numbers, n) # 0 /\ UpTo(numbers, n) \in numbers
<1> DEFINE these == {0} \cup {i \in numbers : i <= n}
<1>1. these \subseteq Numbering /\ these # {} /\ k \in these
  BY NumberFacts
<1>2. Max(these) \in these /\ Max(these) >= k
  BY <1>1, MaxNumber
<1>3. Max(these) \in Nat /\ k \in Nat
  BY <1>1, <1>2, NumberFacts
<1>4. QED
  BY <1>2, <1>3 DEF UpTo

LEMMA ResumeOpens ==
    ASSUME Carried, OpenCarried, NEW m \in Movers, CarryResume(m)
    PROVE  OpenCarried'
<1> DEFINE list == mover[m].list
           boundary == UpTo(Numbers(list), mover[m].highest)
<1>1. /\ mover[m] \in Requests /\ mover[m].at = "resume" /\ Carrying(m)
      /\ UNCHANGED <<primary, chapters, owed, opened>> /\ (lost => lost')
      /\ ~lost' => \A n \in Movers \ {m} : ~(mover[n].carry /\ mover[n].at = "commit")
  BY DEF Carried, MoversTyped, CarryResume, Overtakes, Carrying
<1>2. \A n \in Movers : mover'[n] = IF n = m THEN Resting ELSE mover[n]
  BY DEF Carried, MoversTyped, CarryResume
<1> SUFFICES ASSUME ~lost' PROVE OpenCarried'
  BY DEF OpenCarried
<1>3. ASSUME NEW n \in Movers, Carrying(n)', opened', owed' # 0
      PROVE  /\ mover'[n].resume # None
             /\ mover'[n].at \in {"mark", "bookmark", "resume"} => Listed(mover[n])'
  <2>1. n # m /\ mover'[n] = mover[n] /\ Carrying(n)
    BY <1>2, <1>3 DEF Carrying, Resting
  <2>2. /\ mover[n].resume # None
        /\ mover[n].at \in {"mark", "bookmark", "resume"} => Listed(mover[n])
    BY <1>1, <1>3, <2>1 DEF OpenCarried
  <2>3. Listed(mover[n]) => Listed(mover[n])'
    BY <1>1, <2>1 DEF Listed, ChaptersOf
  <2>4. QED
    BY <2>1, <2>2, <2>3
<1>4. Opens'
  <2> SUFFICES ASSUME opened, owed # 0 PROVE resume' # None /\ resume'.chapter.number >= owed
    BY <1>1 DEF Opens
  <2>1. mover[m].resume # None /\ Listed(mover[m])
    BY <1>1 DEF OpenCarried
  <2>2. owed <= mover[m].highest /\ owed \in Published[primary]
    BY <1>1 DEF Carried, NothingForgotten, Carries
  <2>3. list \subseteq AllChapters /\ mover[m].highest \in Nat /\ owed \in Nat
    BY <1>1, NumberFacts DEF Requests, Carried, TitleTyped
  <2>4. owed \in Numbers(list) /\ Numbers(list) \subseteq Numbering
    <3>1. [source |-> primary, number |-> owed] \in list
      BY <2>1, <2>2, ChapterNumbers DEF Listed
    <3>2. QED
      BY <2>3, <3>1, ChapterNumbers DEF Numbers
  <2>5. boundary >= owed /\ boundary # 0 /\ boundary \in Numbers(list)
    BY <2>2, <2>3, <2>4, UpToReaches
  <2> HIDE DEF boundary
  <2>6. PICK ch \in list, completed \in BOOLEAN : ch.number = boundary /\ Upsert(ch, completed)
    <3>1. PICK ch \in list, last \in BOOLEAN :
            ch.number = boundary /\ Upsert(ch, mover[m].resume.completed /\ last)
      BY <2>1, <2>5 DEF CarryResume, Listed, boundary
    <3>2. (mover[m].resume.completed /\ last) \in BOOLEAN
      OBVIOUS
    <3>3. QED
      BY <3>1, <3>2
  <2>7. resume' \in Progress /\ resume'.chapter = ch
    BY <2>3, <2>6 DEF Upsert, Progress, Carried, TitleTyped
  <2>8. QED
    BY <2>5, <2>6, <2>7, ProgressAssumption
<1>5. \A n \in Movers : ~(mover'[n].carry /\ mover'[n].at = "commit")
  BY <1>1, <1>2 DEF Resting
<1>6. QED
  BY <1>3, <1>4, <1>5 DEF OpenCarried

LEMMA CommitOpens ==
    ASSUME Carried, OpenCarried, NEW m \in Movers, Commit(m)
    PROVE  OpenCarried'
<1>1. mover \in [Movers -> Requests] /\ mover[m] \in Requests /\ mover[m].at = "commit"
  BY DEF Carried, MoversTyped, Commit
<1>2. CASE UNCHANGED titleVars /\ UNCHANGED <<owed, opened, lost>> /\ mover' = [mover EXCEPT ![m] = Resting]
  <2>1. mover'[m].at = "idle" /\ \A n \in Movers \ {m} : mover'[n] = mover[n]
    BY <1>1, <1>2 DEF Resting
  <2>2. QED
    BY <1>1, <1>2, <2>1, OpenRests DEF titleVars, Carrying
<1>3. CASE Account(m) /\ Goes(m, "fetch")
          /\ resume' = IF resume # None /\ resume.chapter \in {ch \in chapters : ch.source = mover[m].source}
                       THEN resume ELSE None
  <2> SUFFICES ASSUME ~lost' PROVE OpenCarried'
    BY DEF OpenCarried
  <2>1. /\ mover'[m].at = "fetch" /\ mover'[m].resume = mover[m].resume /\ mover'[m].carry = mover[m].carry
        /\ \A n \in Movers \ {m} : mover'[n] = mover[n]
    BY <1>1, <1>3 DEF Goes, Requests
  <2>2. CASE mover[m].carry
    <3>1. opened' = (resume # None) /\ ~lost /\ \A n \in Movers : ~Carrying(n)
      BY <1>3, <2>2 DEF Account
    <3>2. opened' => mover[m].resume # None
      BY <1>1, <2>2, <3>1 DEF OpenCarried
    <3>3. Carrying(m)' /\ \A n \in Movers : Carrying(n)' => n = m
      BY <2>1, <2>2, <3>1 DEF Carrying
    <3>4. QED
      BY <2>1, <3>2, <3>3 DEF OpenCarried
  <2>3. CASE ~mover[m].carry
    <3>1. ~opened' /\ ~lost
      BY <1>3, <2>3 DEF Account
    <3>2. ASSUME \A n \in Movers : ~Carrying(n)', NEW n \in Movers, mover'[n].carry, mover'[n].at = "commit", resume' # None
          PROVE  mover'[n].resume # None
      <4>1. mover'[n] = mover[n] /\ resume # None
        BY <1>3, <2>1, <3>2
      <4>2. \A k \in Movers : ~Carrying(k)
        BY <2>1, <2>3, <3>2 DEF Carrying
      <4>3. QED
        BY <3>1, <3>2, <4>1, <4>2 DEF OpenCarried
    <3>3. QED
      BY <3>1, <3>2 DEF OpenCarried, Opens
  <2>4. mover[m].carry \in BOOLEAN
    BY <1>1 DEF Requests
  <2>5. QED
    BY <2>2, <2>3, <2>4
<1>4. QED
  BY <1>2, <1>3 DEF Commit, titleVars

LEMMA OthersOpen ==
    ASSUME Carried, OpenCarried,
           \/ \E ch \in chapters : Bookmark(ch) \/ \E completed \in BOOLEAN : Report(ch, completed)
           \/ RefreshBegins \/ RefreshEnds \/ Crash
           \/ \E s \in Others : AddToLibrary(s)
    PROVE  OpenCarried'
<1>1. ASSUME NEW ch \in chapters, NEW completed \in BOOLEAN, Report(ch, completed) PROVE OpenCarried'
  <2>1. /\ mover' = mover /\ ~opened' /\ (lost => lost')
        /\ ~lost' => \A n \in Movers : ~(mover[n].carry /\ mover[n].at = "commit")
    BY <1>1, MigrationAssumption DEF Report, Overtakes
  <2>2. QED
    BY <2>1 DEF OpenCarried, Opens
<1>2. CASE Crash
  <2>1. /\ UNCHANGED <<titleVars, owed, opened>> /\ mover' = [m \in Movers |-> Resting]
        /\ ~lost' => ~lost /\ \A m \in Movers : ~Carrying(m)
    BY <1>2 DEF Crash
  <2>2. \A m \in Movers : mover'[m].at = "idle"
    BY <2>1 DEF Resting
  <2>3. (lost => lost') /\ UNCHANGED <<primary, resume, opened, owed, chapters>>
    BY <2>1 DEF titleVars
  <2>4. ~lost' => \A m \in Movers : ~Carrying(m) /\ ~Carrying(m)' /\ mover'[m].at # "commit"
    BY <2>1, <2>2 DEF Carrying
  <2>5. QED
    BY <2>3, <2>4, OpenRests
<1>3. CASE \/ \E ch \in chapters : Bookmark(ch)
           \/ RefreshBegins \/ RefreshEnds
           \/ \E s \in Others : AddToLibrary(s)
  <2>1. UNCHANGED <<primary, resume, opened, owed, mover>> /\ (lost => lost') /\ chapters \subseteq chapters'
    <3>1. CASE \E ch \in chapters : Bookmark(ch)
      BY <3>1 DEF Bookmark, Overtakes
    <3>2. CASE RefreshBegins
      BY <3>2 DEF RefreshBegins, titleVars, ghostVars
    <3>3. CASE RefreshEnds
      BY <3>3 DEF RefreshEnds, Stored
    <3>4. CASE \E s \in Others : AddToLibrary(s)
      BY <3>4 DEF AddToLibrary, titleVars
    <3>5. QED
      BY <1>3, <3>1, <3>2, <3>3, <3>4
  <2>2. QED
    BY <2>1, OpenRests
<1>4. QED
  BY <1>1, <1>2, <1>3

LEMMA StepOpens == Carried /\ OpenCarried /\ [MigrationNext]_migrationVars => OpenCarried'
<1> SUFFICES ASSUME Carried, OpenCarried, [MigrationNext]_migrationVars PROVE OpenCarried'
  OBVIOUS
<1>1. ASSUME NEW m \in Movers, MoverStep(m) PROVE OpenCarried'
  BY <1>1, MoverOpens, CommitOpens, ResumeOpens DEF MoverStep
<1>2. CASE UNCHANGED migrationVars
  BY <1>2, OpenRests DEF migrationVars, titleVars, ghostVars
<1>3. QED
  BY <1>1, <1>2, OthersOpen DEF MigrationNext

-----------------------------------------------------------------------------
\* Once no migration is at work, the title is read as far as what was read before reaches in
\* the chapters of its source, what was bookmarked is, and a title that was open when it
\* moved opens at a chapter that reaches as far, however many migrations, refreshes and
\* reports met, unless it was given up: a report came between, migrations crossed, a source
\* did not answer or the program stopped.
THEOREM ReadingCarried == Spec => []ReadingIsCarried
<1>1. MigrationInit => Carried /\ OpenCarried
  BY InitWhole, InitCarried, OpenBegins DEF Carried, CarriedOn
<1>2. Carried /\ OpenCarried => ReadingIsCarried
  <2> SUFFICES ASSUME Carried, OpenCarried, \A m \in Movers : ~Carrying(m), ~lost
               PROVE  /\ HighestRead >= owed /\ wanted \subseteq Numbers(bookmarked)
                      /\ opened /\ owed # 0 => resume # None /\ resume.chapter.number >= owed
    BY DEF ReadingIsCarried
  <2>1. ReadThrough /\ MarksKept /\ Opens
    BY DEF Carried, NothingForgotten, OpenCarried
  <2>2. QED
    BY <2>1, ReadThroughReads DEF Carried, MarksKept, Opens
<1>3. Carried /\ OpenCarried /\ [MigrationNext]_migrationVars => (Carried /\ OpenCarried)'
  BY StepCarried, StepOpens
<1>4. QED
  BY <1>1, <1>2, <1>3, MigrationRuns, PTL DEF MigrationSpec

-----------------------------------------------------------------------------
(* The settings: the inductive invariant                                   *)

Handler == [op : {"none", "list", "put", "reset"},
            at : {"idle", "look", "read", "fill", "write", "cache", "tell"},
            todo : SUBSET S!Keys, key : S!Keys \cup {None}, value : S!Values \cup {None},
            reset : SUBSET S!Keys]

\* A handler that changes a setting ends by looking at the one its part has a copy of.
HandlerFits(r) ==
    /\ r.at \in {"read", "fill", "cache"} => r.key \in S!Keys
    /\ r.at \in {"fill", "cache", "tell"} => r.value \in S!Values
    /\ IF r.at = "write" THEN r.op = "reset" ELSE r.reset = {}
    /\ r.at = "cache" => r.op = "put" /\ r.todo = {r.key}
    /\ r.at \in {"look", "read", "fill", "tell"} => r.op # "none"
    /\ r.at = "tell" => r.op # "list"
    /\ r.at \in {"look", "read", "fill", "tell"} /\ r.op # "list" =>
          \E k \in S!Observed : r.todo = {k} /\ (r.op = "put" \/ r.at # "look" => r.key = k)

SettingsTyped ==
    /\ table \in S!Tables /\ (\A k \in S!Held : table[k] \in S!Values)
    /\ cache \in [S!Keys -> S!Values \cup {None}]
    /\ copies \in [S!Held -> S!Values]
    /\ contested \subseteq S!Keys /\ deaf \subseteq S!Held
    /\ request \in [Clients -> Handler] /\ \A c \in Clients : HandlerFits(request[c])

\* What a handler has of k, it has as the table has it.
Holds(r, k) == r.at \in {"fill", "cache", "tell"} /\ r.key = k
\* It will tell the part what it finds of k in the map.
WillTell(r, k) == r.at \in {"look", "read"} /\ r.op # "list" /\ k \in r.todo
\* It has written k and is about to bring the map in line.
WillCorrect(r, k) == (r.key = k /\ r.at = "cache") \/ (r.at = "write" /\ k \in r.reset)
Changes(r, k) == r.op = "put" /\ k \in r.todo \cap S!Observed

Unspoilt(k) == cache[k] \in {None, S!Served(k)}

\* A setting nobody has contested: the values under way are those of the table, the map is
\* in line with it or will be before anybody is told, and so is the part's copy.
KeyKept(k) ==
    k \notin contested =>
        /\ \A c \in Clients : /\ Holds(request[c], k) => request[c].value = S!Served(k)
                              /\ WillTell(request[c], k) => Unspoilt(k)
        /\ Unspoilt(k) \/ \E c \in Clients : WillCorrect(request[c], k)
        /\ k \in S!Held \ deaf =>
              copies[k] = S!Served(k) \/ \E c \in Clients : Changes(request[c], k)

SettingsInv == SettingsTyped /\ \A k \in S!Keys : KeyKept(k)

-----------------------------------------------------------------------------
(* Lemmas: what a request that moves on leaves true                        *)

LEMMA ServedValues == ASSUME SettingsTyped, NEW k \in S!Keys PROVE S!Served(k) \in S!Values
BY DEF SettingsTyped, S!Tables, S!Keys, S!Observed, S!Held, S!Values, S!Served, S!Migrate, S!Standard

LEMMA SettingsTypes ==
    ASSUME SettingsInv
    PROVE  /\ cache \in [S!Keys -> S!Values \cup {None}] /\ copies \in [S!Held -> S!Values]
           /\ contested \subseteq S!Keys /\ deaf \subseteq S!Held
           /\ request \in [Clients -> Handler] /\ \A c \in Clients : HandlerFits(request[c])
           /\ S!Observed \subseteq S!Held /\ S!Held \subseteq S!Keys
BY DEF SettingsInv, SettingsTyped, S!Observed, S!Held, S!Keys

LEMMA SettingsBegin == Init => SettingsInv
<1> SUFFICES ASSUME Init PROVE SettingsInv OBVIOUS
<1>1. S!SettingsInit BY DEF Init
<1>2. SettingsTyped
  BY <1>1 DEF S!SettingsInit, SettingsTyped, S!Tables, S!Keys, S!Values, S!Observed, S!Held, S!Standard,
              S!Idle, S!Request, Handler, HandlerFits
<1>3. ASSUME NEW k \in S!Keys PROVE KeyKept(k)
  BY <1>1 DEF S!SettingsInit, KeyKept, Unspoilt, Holds, WillTell, S!Served, S!Migrate, S!Keys,
              S!Values, S!Observed, S!Held, S!Standard, S!Idle, S!Request
<1> QED BY <1>2, <1>3 DEF SettingsInv

\* One request moves, the table stays, and nothing is contested any less.
LEMMA RequestMoves ==
    ASSUME SettingsInv, NEW c \in Clients, NEW r \in Handler, HandlerFits(r),
           request' = [request EXCEPT ![c] = r], table' = table,
           contested \subseteq contested', contested' \subseteq S!Keys,
           deaf' \subseteq S!Held, cache' \in [S!Keys -> S!Values \cup {None}],
           copies' \in [S!Held -> S!Values],
           \A k \in S!Keys \ contested' :
              /\ cache'[k] = cache[k] \/ cache'[k] \in {None, S!Served(k)}
              /\ Holds(r, k) => r.value = S!Served(k)
              /\ WillTell(r, k) => cache'[k] \in {None, S!Served(k)}
              /\ WillCorrect(request[c], k) => WillCorrect(r, k) \/ cache'[k] \in {None, S!Served(k)}
              /\ k \in S!Held \ deaf' =>
                    \/ k \notin deaf /\ copies'[k] = copies[k]
                          /\ (Changes(request[c], k) => Changes(r, k) \/ copies'[k] = S!Served(k))
                    \/ copies'[k] = S!Served(k)
    PROVE  SettingsInv'
<1>1. /\ request' \in [Clients -> Handler] /\ request'[c] = r
      /\ \A d \in Clients \ {c} : request'[d] = request[d]
  BY DEF SettingsInv, SettingsTyped
<1>2. SettingsTyped'
  BY <1>1 DEF SettingsInv, SettingsTyped
<1>3. \A k \in S!Keys : S!Served(k)' = S!Served(k)
  BY DEF S!Served, S!Migrate
<1>4. ASSUME NEW k \in S!Keys, k \notin contested' PROVE KeyKept(k)'
  <2>0. cache'[k] \in {None, S!Served(k)} => Unspoilt(k)'
    BY <1>3 DEF Unspoilt
  <2>1. KeyKept(k) /\ k \notin contested
    BY <1>4 DEF SettingsInv
  <2>2. Unspoilt(k) => Unspoilt(k)'
    BY <1>3, <1>4 DEF Unspoilt
  <2>3. ASSUME NEW d \in Clients
        PROVE  /\ Holds(request'[d], k) => request'[d].value = S!Served(k)
               /\ WillTell(request'[d], k) => Unspoilt(k)'
    BY <1>1, <1>4, <2>0, <2>1, <2>2 DEF KeyKept
  <2>4. Unspoilt(k)' \/ \E d \in Clients : WillCorrect(request'[d], k)
    BY <1>1, <1>4, <2>0, <2>1, <2>2 DEF KeyKept
  <2>5. k \in S!Held \ deaf' =>
           copies'[k] = S!Served(k) \/ \E d \in Clients : Changes(request'[d], k)
    BY <1>1, <1>4, <2>1 DEF KeyKept
  <2> QED BY <1>3, <2>3, <2>4, <2>5 DEF KeyKept, Holds, WillTell, WillCorrect, Changes
<1> QED BY <1>2, <1>4 DEF SettingsInv, KeyKept

\* One request writes the table at one key, which is contested if another has a value of it.
LEMMA RequestWrites ==
    ASSUME SettingsInv, NEW c \in Clients, NEW r \in Handler, HandlerFits(r),
           NEW key \in S!Keys, NEW value \in S!Values,
           request' = [request EXCEPT ![c] = r], S!Written(c, key, value),
           cache' = cache, copies' = copies, deaf \subseteq deaf', deaf' \subseteq S!Held,
           Holds(r, key) => r.value = value,
           \A k \in S!Keys : Holds(r, k) => k = key,
           \A k \in S!Keys : ~WillTell(r, k),
           WillCorrect(r, key), key \in S!Held \ deaf' => Changes(r, key),
           \A k \in S!Keys : WillCorrect(request[c], k) => WillCorrect(r, k),
           \A k \in S!Keys : Changes(request[c], k) => Changes(r, k)
    PROVE  SettingsInv'
<1>1. /\ request' \in [Clients -> Handler] /\ request'[c] = r
      /\ \A d \in Clients \ {c} : request'[d] = request[d]
  BY DEF SettingsInv, SettingsTyped
<1>2. /\ table' = [table EXCEPT ![key] = value] /\ contested \ {key} \subseteq contested'
      /\ contested' \subseteq S!Keys /\ (S!InHand(c, key) => key \in contested')
  BY DEF S!Written, SettingsInv, SettingsTyped
<1>3. table' \in S!Tables /\ \A k \in S!Held : table'[k] \in S!Values
  BY <1>2 DEF SettingsInv, SettingsTyped, S!Tables
<1>4. SettingsTyped'
  BY <1>1, <1>2, <1>3 DEF SettingsInv, SettingsTyped
<1>5. S!Served(key)' = value /\ \A k \in S!Keys \ {key} : S!Served(k)' = S!Served(k)
  BY <1>2 DEF S!Served, S!Migrate, S!Values, S!Standard, SettingsInv, SettingsTyped, S!Tables
<1>6. ASSUME NEW k \in S!Keys, k \notin contested' PROVE KeyKept(k)'
  <2>1. KeyKept(k) /\ (k # key => k \notin contested)
    BY <1>2, <1>6 DEF SettingsInv
  <2>2. ASSUME NEW d \in Clients
        PROVE  /\ Holds(request'[d], k) => request'[d].value = S!Served(k)'
               /\ WillTell(request'[d], k) => Unspoilt(k)'
    <3>1. CASE d = c BY <1>1, <1>5, <3>1
    <3>2. CASE d # c /\ k # key BY <1>1, <1>5, <2>1, <3>2 DEF KeyKept, Unspoilt
    <3>3. CASE d # c /\ k = key
      BY <1>1, <1>2, <1>6, <3>3 DEF Holds, WillTell, S!InHand
    <3> QED BY <3>1, <3>2, <3>3
  <2>3. Unspoilt(k)' \/ \E d \in Clients : WillCorrect(request'[d], k)
    BY <1>1, <1>5, <2>1 DEF KeyKept, Unspoilt
  <2>4. k \in S!Held \ deaf' =>
           copies'[k] = S!Served(k)' \/ \E d \in Clients : Changes(request'[d], k)
    BY <1>1, <1>5, <2>1 DEF KeyKept
  <2> QED BY <2>2, <2>3, <2>4 DEF KeyKept, Holds, WillTell, WillCorrect, Changes
<1> QED BY <1>4, <1>6 DEF SettingsInv, KeyKept

\* Requests that look and hold nothing leave everything true.
LEMMA LooksOn ==
    ASSUME NEW todo \in SUBSET S!Keys
    PROVE  LET r == [S!Listing EXCEPT !.todo = todo] IN
           /\ r \in Handler /\ HandlerFits(r)
           /\ \A k \in S!Keys : ~Holds(r, k) /\ ~WillTell(r, k) /\ ~WillCorrect(r, k)
BY DEF S!Listing, S!Request, Handler, HandlerFits, Holds, WillTell, WillCorrect

LEMMA ListingFits ==
    /\ S!Listing \in Handler /\ HandlerFits(S!Listing)
    /\ \A k \in S!Keys : ~Holds(S!Listing, k) /\ ~WillTell(S!Listing, k) /\ ~WillCorrect(S!Listing, k)
BY DEF S!Listing, S!Request, Handler, HandlerFits, Holds, WillTell, WillCorrect

LEMMA IdleFits ==
    /\ S!Idle \in Handler /\ HandlerFits(S!Idle)
    /\ \A k \in S!Keys : /\ ~Holds(S!Idle, k) /\ ~WillTell(S!Idle, k)
                         /\ ~WillCorrect(S!Idle, k) /\ ~Changes(S!Idle, k)
BY DEF S!Idle, S!Request, Handler, HandlerFits, Holds, WillTell, WillCorrect, Changes

-----------------------------------------------------------------------------
(* The steps of a request                                                  *)

LEMMA ListSettingsKeeps == ASSUME SettingsInv, NEW c \in Clients, S!ListSettings(c) PROVE SettingsInv'
BY ListingFits, IdleFits, SettingsTypes, RequestMoves DEF S!ListSettings, S!Becomes

\* Get returned what the table has of a key, unless the key is contested.
LEMMA GotMoves ==
    ASSUME SettingsInv, NEW c \in Clients, NEW k \in S!Keys, NEW value \in S!Values,
           request[c].at \in {"look", "fill"}, S!Got(c, k, value),
           request[c].at = "look" => k \in request[c].todo,
           request[c].at = "fill" => k = request[c].key,
           request[c].op = "list" \/ k \in contested \/ value = S!Served(k)
    PROVE  \E r \in Handler :
              /\ HandlerFits(r) /\ request' = [request EXCEPT ![c] = r]
              /\ \A j \in S!Keys : ~WillTell(r, j) /\ ~WillCorrect(request[c], j)
              /\ \A j \in S!Keys \ contested : Holds(r, j) => r.value = S!Served(j)
              /\ \A j \in S!Keys : Changes(request[c], j) => Changes(r, j)
<1> DEFINE q == request[c]
<1>1. q \in Handler /\ HandlerFits(q) BY SettingsTypes
<1>2. \A j \in S!Keys : ~WillCorrect(q, j) BY DEF WillCorrect
<1>3. CASE q.op # "list"
  <2> DEFINE r == [q EXCEPT !.at = "tell", !.key = k, !.value = value]
  <2>1. PICK o \in S!Observed : q.todo = {o} /\ (q.op = "put" \/ q.at # "look" => q.key = o)
    BY <1>1, <1>3 DEF HandlerFits
  <2>2. k = o BY <2>1
  <2>3. r \in Handler BY <1>1 DEF Handler
  <2>4. HandlerFits(r) BY <1>1, <1>3, <2>1, <2>2 DEF HandlerFits, Handler
  <2>5. \A j \in S!Keys : ~WillTell(r, j) BY <1>1 DEF WillTell, Handler
  <2>6. \A j \in S!Keys \ contested : Holds(r, j) => r.value = S!Served(j)
    BY <1>1, <1>3 DEF Holds, Handler
  <2>7. \A j \in S!Keys : Changes(q, j) => Changes(r, j)
    BY <1>1, <2>1, <2>2 DEF Changes, Handler
  <2> HIDE DEF r
  <2>8. request' = [request EXCEPT ![c] = r] BY <1>3 DEF r, S!Got, S!Becomes
  <2> QED BY <1>2, <2>3, <2>4, <2>5, <2>6, <2>7, <2>8
<1>4. CASE q.op = "list"
  <2>1. \A j : ~Changes(q, j) BY <1>4 DEF Changes
  <2>2. q.todo \ {k} \in SUBSET S!Keys BY <1>1 DEF Handler
  <2>3. CASE q.todo \ {k} = {}
    BY <1>2, <1>4, <2>1, <2>3, IdleFits DEF S!Got, S!Becomes
  <2>4. CASE q.todo \ {k} # {}
    BY <1>2, <1>4, <2>1, <2>2, <2>4, LooksOn DEF S!Got, S!Becomes
  <2> QED BY <2>3, <2>4
<1> QED BY <1>3, <1>4

LEMMA LookKeeps == ASSUME SettingsInv, NEW c \in Clients, S!Look(c) PROVE SettingsInv'
<1> DEFINE q == request[c]
<1>1. q \in Handler /\ HandlerFits(q) BY SettingsTypes
<1>2. /\ q.at = "look" /\ UNCHANGED <<table, cache, copies, contested, deaf>>
      /\ \A k \in S!Keys : Unspoilt(k) => Unspoilt(k)'
  BY DEF S!Look, Unspoilt, S!Served, S!Migrate
<1>3. PICK k \in q.todo :
         /\ \A j \in q.todo : S!Place[k] <= S!Place[j]
         /\ IF cache[k] # None THEN S!Got(c, k, cache[k])
            ELSE S!Becomes(c, [q EXCEPT !.at = "read", !.key = k])
  BY Zenon DEF S!Look
<1>4. k \in S!Keys BY <1>1, <1>3 DEF Handler
<1>5. q.op = "list" \/ k \in contested \/ cache[k] \in {None, S!Served(k)}
  BY <1>2, <1>3, <1>4 DEF SettingsInv, KeyKept, WillTell, Unspoilt
<1>6. CASE cache[k] # None
  <2>1. cache[k] \in S!Values BY <1>4, <1>6, SettingsTypes
  <2>2. PICK r \in Handler :
              /\ HandlerFits(r) /\ request' = [request EXCEPT ![c] = r]
              /\ \A j \in S!Keys : ~WillTell(r, j) /\ ~WillCorrect(q, j)
              /\ \A j \in S!Keys \ contested : Holds(r, j) => r.value = S!Served(j)
              /\ \A j \in S!Keys : Changes(q, j) => Changes(r, j)
    BY <1>2, <1>3, <1>4, <1>5, <1>6, <2>1, GotMoves
  <2> QED BY <1>2, <2>2, SettingsTypes, RequestMoves
<1>7. CASE cache[k] = None
  <2> DEFINE r == [q EXCEPT !.at = "read", !.key = k]
  <2>1. r \in Handler BY <1>1, <1>4 DEF Handler
  <2>2. HandlerFits(r) BY <1>1, <1>2, <1>3, <1>4 DEF HandlerFits, Handler
  <2>3. \A j \in S!Keys : /\ ~Holds(r, j) /\ ~WillCorrect(q, j)
                          /\ (WillTell(r, j) => WillTell(q, j)) /\ (Changes(q, j) => Changes(r, j))
    BY <1>1, <1>2 DEF Handler, Holds, WillCorrect, WillTell, Changes
  <2>4. \A j \in S!Keys \ contested : WillTell(q, j) => cache'[j] \in {None, S!Served(j)}
    BY <1>2 DEF SettingsInv, KeyKept, Unspoilt
  <2> HIDE DEF r
  <2>5. request' = [request EXCEPT ![c] = r] BY <1>3, <1>7 DEF r, S!Becomes
  <2> QED BY <1>2, <2>1, <2>2, <2>3, <2>4, <2>5, SettingsTypes, RequestMoves
<1> QED BY <1>6, <1>7

\* Get's query answered with a value of the key it asks for, the table's or a wrong one.
LEMMA Answered ==
    ASSUME SettingsInv, NEW c \in Clients, NEW r \in Handler, request' = [request EXCEPT ![c] = r],
           request[c].at = "read", r.at = "fill", r.value \in S!Values, r.reset = {},
           r.op = request[c].op, r.todo = request[c].todo, r.key = request[c].key,
           UNCHANGED <<table, cache, copies, deaf>>,
           \/ r.value = S!Served(request[c].key) /\ contested' = contested
           \/ contested' = contested \cup {request[c].key}
    PROVE  SettingsInv'
<1> DEFINE q == request[c]
<1>1. q \in Handler /\ HandlerFits(q) BY SettingsTypes
<1>2. q.key \in S!Keys BY <1>1 DEF HandlerFits
<1>3. /\ HandlerFits(r)
      /\ \A j \in S!Keys : /\ ~WillTell(r, j) /\ ~WillCorrect(q, j) /\ (Changes(q, j) => Changes(r, j))
                           /\ (Holds(r, j) => j = q.key)
  BY <1>1, <1>2 DEF HandlerFits, WillTell, WillCorrect, Changes, Holds
<1>4. contested \subseteq contested' /\ contested' \subseteq S!Keys
  BY <1>2, SettingsTypes
<1>5. \A k \in S!Keys \ contested' : Holds(r, k) => r.value = S!Served(k)
  BY <1>3
<1> QED BY <1>3, <1>4, <1>5, SettingsTypes, RequestMoves

LEMMA ReadKeeps == ASSUME SettingsInv, NEW c \in Clients, S!Read(c) PROVE SettingsInv'
<1> DEFINE q == request[c]
<1>1. q \in Handler /\ HandlerFits(q) BY SettingsTypes
<1>2. q.at = "read" /\ UNCHANGED <<table, cache, copies, deaf>> /\ q.key \in S!Keys
  BY <1>1 DEF S!Read, HandlerFits
<1>3. S!Served(q.key) \in S!Values /\ S!Standard \in S!Values
  BY <1>2, ServedValues DEF SettingsInv, S!Values
<1>4. \/ /\ S!Becomes(c, [q EXCEPT !.at = "fill", !.value = S!Served(q.key)])
         /\ contested' = contested
      \/ /\ S!Becomes(c, [q EXCEPT !.at = "fill", !.value = S!Standard])
         /\ contested' = contested \cup {q.key}
  BY DEF S!Read
<1>5. CASE S!Becomes(c, [q EXCEPT !.at = "fill", !.value = S!Served(q.key)]) /\ contested' = contested
  <2> DEFINE r == [q EXCEPT !.at = "fill", !.value = S!Served(q.key)]
  <2>1. /\ r \in Handler /\ r.at = "fill" /\ r.value = S!Served(q.key) /\ r.reset = {}
        /\ r.op = q.op /\ r.todo = q.todo /\ r.key = q.key
    BY <1>1, <1>2, <1>3 DEF Handler, HandlerFits
  <2>2. request' = [request EXCEPT ![c] = r] BY <1>5 DEF S!Becomes
  <2> HIDE DEF r
  <2> QED BY <1>2, <1>3, <1>5, <2>1, <2>2, Answered
<1>6. CASE /\ S!Becomes(c, [q EXCEPT !.at = "fill", !.value = S!Standard])
           /\ contested' = contested \cup {q.key}
  <2> DEFINE r == [q EXCEPT !.at = "fill", !.value = S!Standard]
  <2>1. /\ r \in Handler /\ r.at = "fill" /\ r.value \in S!Values /\ r.reset = {}
        /\ r.op = q.op /\ r.todo = q.todo /\ r.key = q.key
    BY <1>1, <1>2, <1>3 DEF Handler, HandlerFits
  <2>2. request' = [request EXCEPT ![c] = r] BY <1>6 DEF S!Becomes
  <2> HIDE DEF r
  <2> QED BY <1>2, <1>6, <2>1, <2>2, Answered
<1> QED BY <1>4, <1>5, <1>6

LEMMA FillKeeps == ASSUME SettingsInv, NEW c \in Clients, S!Fill(c) PROVE SettingsInv'
<1> DEFINE q == request[c]
<1>1. q \in Handler /\ HandlerFits(q) BY SettingsTypes
<1>2. /\ q.at = "fill" /\ UNCHANGED <<table, copies, contested, deaf>>
      /\ q.key \in S!Keys /\ q.value \in S!Values /\ cache' = [cache EXCEPT ![q.key] = q.value]
  BY <1>1 DEF S!Fill, HandlerFits
<1>3. q.key \in contested \/ q.value = S!Served(q.key)
  BY <1>2 DEF SettingsInv, KeyKept, Holds
<1>4. PICK r \in Handler :
              /\ HandlerFits(r) /\ request' = [request EXCEPT ![c] = r]
              /\ \A j \in S!Keys : ~WillTell(r, j) /\ ~WillCorrect(q, j)
              /\ \A j \in S!Keys \ contested : Holds(r, j) => r.value = S!Served(j)
              /\ \A j \in S!Keys : Changes(q, j) => Changes(r, j)
  BY <1>2, <1>3, GotMoves DEF S!Fill
<1>5. /\ cache' \in [S!Keys -> S!Values \cup {None}]
      /\ \A k \in S!Keys \ contested : cache'[k] = cache[k] \/ cache'[k] \in {None, S!Served(k)}
  BY <1>2, <1>3, SettingsTypes
<1> QED BY <1>2, <1>4, <1>5, SettingsTypes, RequestMoves

LEMMA PutKeeps ==
    ASSUME SettingsInv, NEW c \in Clients, NEW k \in S!Keys, NEW value \in S!Values, S!Put(c, k, value)
    PROVE  SettingsInv'
<1> DEFINE r == S!Request("put", "cache", {k}, k, value)
<1>1. /\ r \in Handler /\ HandlerFits(r) /\ r.value = value /\ WillCorrect(r, k)
      /\ k \in S!Observed => Changes(r, k)
      /\ \A j \in S!Keys : (Holds(r, j) => j = k) /\ ~WillTell(r, j)
  BY DEF S!Request, Handler, HandlerFits, Holds, WillTell, WillCorrect, Changes
<1>2. /\ request[c] = S!Idle /\ request' = [request EXCEPT ![c] = r] /\ S!Written(c, k, value)
      /\ cache' = cache /\ copies' = copies /\ deaf' = deaf \cup ({k} \cap (S!Held \ S!Observed))
  BY DEF S!Put, S!Becomes
<1> HIDE DEF r
<1>3. /\ deaf \subseteq deaf' /\ deaf' \subseteq S!Held
      /\ k \in S!Held \ deaf' => Changes(r, k)
  BY <1>1, <1>2, SettingsTypes
<1> QED BY <1>1, <1>2, <1>3, IdleFits, RequestWrites

LEMMA CacheSetKeeps == ASSUME SettingsInv, NEW c \in Clients, S!CacheSet(c) PROVE SettingsInv'
<1> DEFINE q == request[c]
<1>1. q \in Handler /\ HandlerFits(q) BY SettingsTypes
<1>2. PICK key \in S!Keys, value \in S!Values : q.key = key /\ q.value = value
  BY <1>1 DEF S!CacheSet, HandlerFits
<1>3. /\ q.at = "cache" /\ q.op = "put" /\ q.todo = {key} /\ q.reset = {}
      /\ UNCHANGED <<table, copies, contested, deaf>> /\ cache' = [cache EXCEPT ![key] = value]
  BY <1>1, <1>2 DEF S!CacheSet, HandlerFits
<1>4. key \in contested \/ value = S!Served(key)
  BY <1>2, <1>3 DEF SettingsInv, KeyKept, Holds
<1>5. /\ cache' \in [S!Keys -> S!Values \cup {None}] /\ cache'[key] = value
      /\ \A k \in S!Keys \ contested : cache'[k] = cache[k] \/ cache'[k] \in {None, S!Served(k)}
  BY <1>3, <1>4, SettingsTypes
<1>6. key \in contested \/ cache'[key] \in {None, S!Served(key)}
  BY <1>3, <1>4, <1>5
<1>7. \A k \in S!Keys : WillCorrect(q, k) => k = key
  BY <1>2, <1>3 DEF WillCorrect
<1>8. ASSUME key \in S!Observed, NEW at \in {"look", "tell"}, S!Becomes(c, [q EXCEPT !.at = at])
      PROVE  SettingsInv'
  <2> DEFINE r == [q EXCEPT !.at = at]
  <2>1. /\ r \in Handler /\ HandlerFits(r)
        /\ \A k \in S!Keys : /\ (WillTell(r, k) => k = key) /\ (Changes(q, k) => Changes(r, k))
                             /\ (Holds(r, k) => k = key /\ r.value = value)
    BY <1>1, <1>2, <1>3, <1>8 DEF Handler, HandlerFits, WillTell, Changes, Holds
  <2> HIDE DEF r
  <2>2. request' = [request EXCEPT ![c] = r] BY <1>8 DEF r, S!Becomes
  <2>3. \A k \in S!Keys \ contested' :
           /\ cache'[k] = cache[k] \/ cache'[k] \in {None, S!Served(k)}
           /\ Holds(r, k) => r.value = S!Served(k)
           /\ WillTell(r, k) => cache'[k] \in {None, S!Served(k)}
           /\ WillCorrect(request[c], k) => WillCorrect(r, k) \/ cache'[k] \in {None, S!Served(k)}
    BY <1>3, <1>4, <1>5, <1>6, <1>7, <2>1
  <2>4. \A k \in S!Keys \ contested' : k \in S!Held \ deaf' =>
           k \notin deaf /\ copies'[k] = copies[k] /\ (Changes(request[c], k) => Changes(r, k))
    BY <1>3, <2>1
  <2> QED BY <1>3, <1>5, <2>1, <2>2, <2>3, <2>4, SettingsTypes, RequestMoves
<1>9. ASSUME key \notin S!Observed, S!Becomes(c, S!Listing) PROVE SettingsInv'
  <2>1. \A k \in S!Held : ~Changes(q, k)
    BY <1>3, <1>9 DEF Changes
  <2>2. request' = [request EXCEPT ![c] = S!Listing] BY <1>9 DEF S!Becomes
  <2>3. \A k \in S!Keys \ contested' :
           WillCorrect(request[c], k) => cache'[k] \in {None, S!Served(k)}
    BY <1>3, <1>6, <1>7
  <2>4. \A k \in S!Keys \ contested' : k \in S!Held \ deaf' =>
           k \notin deaf /\ copies'[k] = copies[k] /\ ~Changes(request[c], k)
    BY <1>3, <2>1
  <2> QED BY <1>3, <1>5, <2>2, <2>3, <2>4, ListingFits, SettingsTypes, RequestMoves
<1> QED BY <1>2, <1>8, <1>9 DEF S!CacheSet, S!Keys, S!Observed, S!Held

LEMMA TellKeeps == ASSUME SettingsInv, NEW c \in Clients, S!Tell(c) PROVE SettingsInv'
<1> DEFINE q == request[c]
<1>1. q \in Handler /\ HandlerFits(q) BY SettingsTypes
<1>2. q.at = "tell" BY DEF S!Tell
<1>3. PICK key \in S!Observed : q.todo = {key} /\ q.key = key
  BY <1>1, <1>2 DEF HandlerFits
<1>4. PICK value \in S!Values : q.value = value
  BY <1>1, <1>2 DEF HandlerFits
<1>5. /\ UNCHANGED <<table, cache, contested>> /\ request' = [request EXCEPT ![c] = S!Listing]
      /\ copies' = [copies EXCEPT ![key] = value] /\ deaf' = deaf \ {key}
  BY <1>3, <1>4 DEF S!Tell, S!Becomes
<1>6. key \in contested \/ value = S!Served(key)
  BY <1>2, <1>3, <1>4 DEF SettingsInv, KeyKept, Holds, S!Observed, S!Held, S!Keys
<1>7. \A k \in S!Keys : /\ ~WillCorrect(q, k) /\ (Changes(q, k) => k = key)
  BY <1>1, <1>2, <1>3 DEF WillCorrect, Changes, HandlerFits
<1>8. /\ copies' \in [S!Held -> S!Values] /\ deaf' \subseteq S!Held
      /\ \A k \in S!Held : IF k = key THEN copies'[k] = value ELSE copies'[k] = copies[k]
  BY <1>5, SettingsTypes
<1>9. \A k \in S!Keys \ contested' : k \in S!Held \ deaf' =>
         \/ /\ k \notin deaf /\ copies'[k] = copies[k]
            /\ Changes(q, k) => Changes(S!Listing, k) \/ copies'[k] = S!Served(k)
         \/ copies'[k] = S!Served(k)
  BY <1>5, <1>6, <1>7, <1>8
<1>10. deaf' \subseteq S!Held /\ contested' \subseteq S!Keys
  BY <1>5, <1>8, SettingsTypes
<1> QED BY <1>5, <1>7, <1>8, <1>9, <1>10, ListingFits, SettingsTypes, RequestMoves

LEMMA ResetKeeps ==
    ASSUME SettingsInv, NEW c \in Clients, NEW keys \in SUBSET S!Keys, S!Reset(c, keys)
    PROVE  SettingsInv'
<1> DEFINE r == S!Request("reset", "write", keys, None, None)
<1>1. /\ r \in Handler /\ HandlerFits(r)
      /\ \A k \in S!Keys : ~Holds(r, k) /\ ~WillTell(r, k)
  BY DEF S!Request, Handler, HandlerFits, Holds, WillTell
<1>2. /\ request[c] = S!Idle /\ request' = [request EXCEPT ![c] = r]
      /\ UNCHANGED <<table, cache, copies, contested, deaf>>
  BY DEF S!Reset, S!Becomes
<1> HIDE DEF r
<1> QED BY <1>1, <1>2, IdleFits, SettingsTypes, RequestMoves

LEMMA ResetKeyKeeps == ASSUME SettingsInv, NEW c \in Clients, S!ResetKey(c) PROVE SettingsInv'
<1> DEFINE q == request[c]
<1>1. q \in Handler /\ HandlerFits(q) BY SettingsTypes
<1>2. PICK k \in q.todo : /\ S!Written(c, k, S!Standard) /\ deaf' = deaf \cup ({k} \cap S!Held)
                          /\ S!Becomes(c, [q EXCEPT !.todo = @ \ {k}, !.reset = @ \cup {k}])
  BY Zenon DEF S!ResetKey
<1>3. q.at = "write" /\ q.op = "reset" /\ k \in S!Keys /\ UNCHANGED <<cache, copies>>
  BY <1>1 DEF S!ResetKey, HandlerFits, Handler
<1> DEFINE r == [q EXCEPT !.todo = @ \ {k}, !.reset = @ \cup {k}]
<1>4. /\ r \in Handler /\ HandlerFits(r) /\ WillCorrect(r, k)
      /\ \A j \in S!Keys : /\ ~Holds(r, j) /\ ~WillTell(r, j) /\ ~Changes(q, j)
                           /\ (WillCorrect(q, j) => WillCorrect(r, j))
  BY <1>1, <1>3 DEF Handler, HandlerFits, Holds, WillTell, WillCorrect, Changes
<1>5. request' = [request EXCEPT ![c] = r] BY <1>2 DEF S!Becomes
<1> HIDE DEF r
<1>6. S!Standard \in S!Values /\ deaf \subseteq deaf' /\ deaf' \subseteq S!Held /\ k \notin S!Held \ deaf'
  BY <1>2, SettingsTypes DEF S!Values
<1> QED BY <1>2, <1>3, <1>4, <1>5, <1>6, RequestWrites

LEMMA ResetFailsKeeps == ASSUME SettingsInv, NEW c \in Clients, S!ResetFails(c) PROVE SettingsInv'
<1> DEFINE q == request[c]
<1>1. q \in Handler /\ HandlerFits(q) BY SettingsTypes
<1>2. /\ q.at = "write" /\ q.op = "reset" /\ contested' = contested \cup q.reset
      /\ request' = [request EXCEPT ![c] = S!Idle] /\ UNCHANGED <<table, cache, copies, deaf>>
  BY <1>1 DEF S!ResetFails, S!Becomes, HandlerFits
<1>3. contested \subseteq contested' /\ contested' \subseteq S!Keys
  BY <1>1, <1>2, SettingsTypes DEF Handler
<1>4. \A k \in S!Keys \ contested' : ~WillCorrect(q, k) /\ ~Changes(q, k)
  BY <1>2 DEF WillCorrect, Changes
<1> QED BY <1>2, <1>3, <1>4, IdleFits, SettingsTypes, RequestMoves

LEMMA ClearCacheKeeps == ASSUME SettingsInv, NEW c \in Clients, S!ClearCache(c) PROVE SettingsInv'
<1> DEFINE q == request[c]
<1>1. q \in Handler /\ HandlerFits(q) BY SettingsTypes
<1>2. /\ q.at = "write" /\ q.op = "reset" /\ UNCHANGED <<table, copies, contested, deaf>>
      /\ \A k \in S!Keys : cache'[k] = None
      /\ cache' \in [S!Keys -> S!Values \cup {None}]
  BY <1>1 DEF S!ClearCache, S!Empty, HandlerFits
<1> DEFINE told == S!Request("reset", "look", {"level"}, None, None)
<1>3. /\ told \in Handler /\ HandlerFits(told)
      /\ \A k \in S!Keys : ~Holds(told, k)
  BY DEF S!Request, Handler, HandlerFits, Holds, S!Keys, S!Observed, S!Held
<1> HIDE DEF told
<1>4. \E r \in {told, S!Listing} : request' = [request EXCEPT ![c] = r]
  BY DEF S!ClearCache, S!Becomes, told
<1>5. PICK r \in {told, S!Listing} : request' = [request EXCEPT ![c] = r]
  BY <1>4
<1>6. r \in Handler /\ HandlerFits(r) /\ \A k \in S!Keys : ~Holds(r, k) /\ ~Changes(q, k)
  BY <1>2, <1>3, ListingFits DEF Changes
<1> QED BY <1>2, <1>5, <1>6, SettingsTypes, RequestMoves

\* A restore leaves the requests as they are.
LEMMA RestoreKeeps ==
    ASSUME SettingsInv, NEW c \in Clients, NEW values \in S!Restorable, S!Restore(c, values)
    PROVE  SettingsInv'
<1> DEFINE changed == {k \in S!Keys : table[k] # values[k]}
<1>1. /\ request[c] = S!Idle /\ table' = values /\ UNCHANGED <<cache, copies, request>>
      /\ contested' = contested \cup {k \in changed : cache[k] # None \/ S!InHand(c, k)}
      /\ deaf' = deaf \cup (changed \cap S!Held)
  BY DEF S!Restore
<1>2. values \in S!Tables /\ \A k \in S!Held : values[k] \in S!Values
  BY DEF S!Restorable, S!Tables, S!Values, S!Observed, S!Held, S!Standard, S!Keys
<1>3. SettingsTyped'
  BY <1>1, <1>2 DEF SettingsInv, SettingsTyped
<1>4. ASSUME NEW k \in S!Keys, k \notin contested' PROVE KeyKept(k)'
  <2>1. KeyKept(k) /\ k \notin contested
    BY <1>1, <1>4 DEF SettingsInv
  <2>2. CASE k \in changed
    <3>1. cache[k] = None /\ ~S!InHand(c, k)
      BY <1>1, <1>4, <2>2
    <3>2. \A d \in Clients : ~Holds(request[d], k) /\ ~WillTell(request[d], k)
      BY <1>1, <3>1, IdleFits DEF S!InHand, Holds, WillTell
    <3>3. k \notin S!Held \ deaf'
      BY <1>1, <2>2
    <3> QED BY <1>1, <3>1, <3>2, <3>3 DEF KeyKept, Unspoilt, Holds, WillTell
  <2>3. CASE k \notin changed
    <3>1. S!Served(k)' = S!Served(k) /\ (k \in S!Held \ deaf' => k \notin deaf)
      BY <1>1, <2>3 DEF S!Served, S!Migrate
    <3> QED BY <1>1, <2>1, <3>1 DEF KeyKept, Unspoilt, Holds, WillTell, WillCorrect, Changes
  <2> QED BY <2>2, <2>3
<1> QED BY <1>3, <1>4 DEF SettingsInv, KeyKept

LEMMA RestartKeeps == ASSUME SettingsInv, S!Restart PROVE SettingsInv'
<1>1. /\ table' = table /\ contested' = {} /\ deaf' = {} /\ request' = [c \in Clients |-> S!Idle]
      /\ cache' = [k \in S!Keys |-> IF k \in S!Held THEN S!Served(k) ELSE None]
      /\ copies' = [k \in S!Held |-> S!Served(k)]
  BY DEF S!Restart, S!Loaded, S!Observed, S!Held, S!Keys
<1>2. \A k \in S!Keys : S!Served(k) \in S!Values /\ S!Served(k)' = S!Served(k)
  BY <1>1, ServedValues DEF SettingsInv, S!Served, S!Migrate
<1>3. SettingsTyped'
  BY <1>1, <1>2, IdleFits, SettingsTypes DEF SettingsInv, SettingsTyped
<1>4. ASSUME NEW k \in S!Keys PROVE KeyKept(k)'
  <2>1. \A c \in Clients : request'[c] = S!Idle
    BY <1>1
  <2>2. Unspoilt(k)' /\ (k \in S!Held => copies'[k] = S!Served(k)')
    BY <1>1, <1>2 DEF Unspoilt
  <2>3. \A c \in Clients : ~Holds(request'[c], k) /\ ~WillTell(request'[c], k)
    BY <2>1, IdleFits
  <2> QED BY <2>2, <2>3 DEF KeyKept, Holds, WillTell
<1> QED BY <1>3, <1>4 DEF SettingsInv, KeyKept

LEMMA SettingsKept == SettingsInv /\ [Next]_vars => SettingsInv'
<1> SUFFICES ASSUME SettingsInv, [Next]_vars PROVE SettingsInv' OBVIOUS
<1>1. CASE UNCHANGED settingsVars
  BY <1>1 DEF settingsVars, SettingsInv, SettingsTyped, KeyKept, Unspoilt, S!Served, S!Migrate
<1>2. CASE S!SettingsNext
  <2>1. CASE S!Restart BY <2>1, RestartKeeps
  <2>2. ASSUME NEW c \in Clients, S!ClientStep(c) PROVE SettingsInv'
    <3>1. CASE \E k \in S!Keys, value \in S!Values : S!Put(c, k, value) BY <3>1, PutKeeps
    <3>2. CASE \E keys \in {{k} : k \in S!Keys} \cup {S!Keys} : S!Reset(c, keys)
      BY <3>2, ResetKeeps
    <3>3. CASE \E values \in S!Restorable : S!Restore(c, values) BY <3>3, RestoreKeeps
    <3> QED BY <2>2, <3>1, <3>2, <3>3, ListSettingsKeeps, LookKeeps, ReadKeeps, FillKeeps,
               CacheSetKeeps, TellKeeps, ResetKeyKeeps, ResetFailsKeeps, ClearCacheKeeps
            DEF S!ClientStep
  <2> QED BY <1>2, <2>1, <2>2 DEF S!SettingsNext
<1>3. UNCHANGED settingsVars \/ S!SettingsNext
  BY DEF Next, vars, ChaptersStep, MigrationStep, ReadingStep, SettingsStep
<1> QED BY <1>1, <1>2, <1>3

\* Once no handler changes it, a setting is served as the table has it, and the part that hears
\* of its changes works with that value, unless another request had the key in hand when it was
\* last written or the map was not told: for every number of requests, writes, failures and
\* restarts.
THEOREM SettingsServed == Spec => []SettingsAreServed
<1>1. SettingsInv => SettingsAreServed
  <2> SUFFICES ASSUME SettingsInv PROVE S!TypeOK /\ S!SettingsAreServed
    BY DEF SettingsAreServed
  <2>1. S!TypeOK
    BY DEF SettingsInv, SettingsTyped, S!TypeOK, Handler
  <2>2. ASSUME NEW k \in S!Keys \ contested, ~S!Changing(k)
        PROVE  Unspoilt(k) /\ (k \in S!Held \ deaf => copies[k] = S!Served(k))
    <3>1. \A c \in Clients : ~WillCorrect(request[c], k) /\ ~Changes(request[c], k)
      BY <2>2, SettingsTypes DEF S!Changing, WillCorrect, Changes, HandlerFits
    <3> QED BY <3>1 DEF SettingsInv, KeyKept
  <2> QED BY <2>1, <2>2 DEF S!SettingsAreServed, Unspoilt
<1> QED BY <1>1, SettingsBegin, SettingsKept, PTL DEF Spec

-----------------------------------------------------------------------------
(* Where a title was left off: the last report, wherever it travels        *)

Entry == [number : Nat, chapter : Chapters, page : Nat, complete : BOOLEAN, secs : Nat, done : BOOLEAN]
At(e) == [chapter |-> e.chapter, page |-> e.page]

\* What has been reported and not been heard of: under way, or waiting to be sent again.
UnderWay == posts \cup R!Range(retry) \cup R!Range(flush.left)

\* What waits, and the saver, go with the page.
PageTyped ==
    /\ reader \in [chapter : Chapters \cup {None}, page : Nat, secs : Nat,
                   last : {None} \cup R!Positions, armed : BOOLEAN]
    /\ posts \subseteq Entry /\ retry \in Seq(Entry)
    /\ flush \in [at : {"idle", "send", "wait"}, left : Seq(Entry), awaits : Nat]
    /\ reader.chapter = None => retry = <<>> /\ ~reader.armed

\* The last report is handled, given up or under way, and it says what was last asked for;
\* the row shows it, or an older one.
Followed ==
    /\ reports \in Nat /\ handled \subseteq 1..reports
    /\ \A e \in UnderWay : /\ e \in Entry /\ e.number \in 1..reports
                           /\ e.number = reports => At(e) = seen
                           /\ e.done => e.number \in handled
    /\ \/ reports = 0
       \/ reports \in handled \cup lostReports
       \/ \E e \in UnderWay : e.number = reports
    /\ progress \in {None} \cup R!Rows
    /\ handled \subseteq lostReports \/ progress # None
    /\ progress # None => progress.shows <= reports /\ (progress.shows = reports => At(progress) = seen)
    /\ reader.last # None => reader.last = seen

ReadingInv == PageTyped /\ Followed

LEMMA RecordsAreSome == None \notin Chapters \cup R!Positions \cup R!Rows
BY RecordsAssumption DEF R!ReadingAssumption

LEMMA Waiting ==
    ASSUME NEW s \in Seq(Entry)
    PROVE  /\ \A e \in Entry : /\ Append(s, e) \in Seq(Entry)
                               /\ R!Range(Append(s, e)) = R!Range(s) \cup {e}
           /\ s # <<>> => /\ Head(s) \in Entry /\ Tail(s) \in Seq(Entry)
                          /\ R!Range(s) = {Head(s)} \cup R!Range(Tail(s))
           /\ R!Range(<<>>) = {} /\ R!Range(s) \subseteq Entry
           /\ \A e \in Entry : Append(s, e) # <<>>
<1>1. ASSUME NEW e \in Entry
      PROVE  Append(s, e) \in Seq(Entry) /\ R!Range(Append(s, e)) = R!Range(s) \cup {e} /\ Append(s, e) # <<>>
  <2>1. /\ Append(s, e) \in Seq(Entry) /\ Len(Append(s, e)) = Len(s) + 1 /\ Append(s, e)[Len(s) + 1] = e
        /\ \A i \in 1..Len(s) : Append(s, e)[i] = s[i]
    OBVIOUS
  <2>2. DOMAIN Append(s, e) = 1..Len(s) + 1 /\ DOMAIN s = 1..Len(s) /\ Len(s) \in Nat
    BY <2>1
  <2>3. ASSUME NEW x PROVE x \in R!Range(Append(s, e)) <=> x \in R!Range(s) \cup {e}
    BY <2>1, <2>2 DEF R!Range
  <2> QED BY <2>1, <2>3
<1>2. ASSUME s # <<>>
      PROVE  /\ Head(s) \in Entry /\ Tail(s) \in Seq(Entry)
             /\ R!Range(s) = {Head(s)} \cup R!Range(Tail(s))
  <2>1. /\ Head(s) = s[1] /\ Tail(s) \in Seq(Entry) /\ Len(Tail(s)) = Len(s) - 1 /\ Len(s) \in Nat \ {0}
        /\ \A i \in 1..(Len(s) - 1) : Tail(s)[i] = s[i + 1]
    BY <1>2
  <2>2. DOMAIN Tail(s) = 1..(Len(s) - 1) /\ DOMAIN s = 1..Len(s)
    BY <2>1
  <2>3. ASSUME NEW x PROVE x \in R!Range(s) <=> x = Head(s) \/ x \in R!Range(Tail(s))
    <3>1. ASSUME NEW i \in 1..Len(s), x = s[i], i # 1 PROVE x \in R!Range(Tail(s))
      <4>1. i - 1 \in 1..(Len(s) - 1) /\ Tail(s)[i - 1] = s[i]
        BY <2>1, <3>1
      <4> QED BY <2>2, <3>1, <4>1 DEF R!Range
    <3>2. ASSUME NEW i \in 1..(Len(s) - 1), x = Tail(s)[i] PROVE x \in R!Range(s)
      <4>1. i + 1 \in 1..Len(s) /\ x = s[i + 1]
        BY <2>1, <3>2
      <4> QED BY <2>2, <4>1 DEF R!Range
    <3>3. 1 \in DOMAIN s
      BY <2>1, <2>2
    <3> QED BY <2>1, <2>2, <3>1, <3>2, <3>3 DEF R!Range
  <2> QED BY <1>2, <2>1, <2>3
<1>3. R!Range(<<>>) = {} /\ R!Range(s) \subseteq Entry
  BY DEF R!Range
<1> QED BY <1>1, <1>2, <1>3

LEMMA ReadingBegins == Init => ReadingInv
<1> SUFFICES ASSUME R!ReadingInit PROVE ReadingInv
  BY DEF Init
<1>1. <<>> \in Seq(Entry) /\ R!Range(<<>>) = {}
  BY DEF R!Range
<1>2. PageTyped
  BY <1>1 DEF R!ReadingInit, R!Closed, R!NoFlush, PageTyped
<1>3. UnderWay = {}
  BY <1>1 DEF R!ReadingInit, R!NoFlush, UnderWay
<1> QED BY <1>2, <1>3 DEF R!ReadingInit, R!Closed, Followed, ReadingInv

\* Requests change hands, and nothing is reported.
LEMMA MovesFollowed ==
    ASSUME Followed, UNCHANGED <<reports, seen, handled, progress>>, lostReports \subseteq lostReports',
           reader'.last \in {None, reader.last},
           \A e \in UnderWay' : e \in UnderWay \/ \E d \in UnderWay : e = [d EXCEPT !.done = FALSE],
           \A e \in UnderWay : \/ e.number \in handled \cup lostReports'
                               \/ \E d \in UnderWay' : d.number = e.number
    PROVE  Followed'
<1>1. \A e \in UnderWay' : /\ e \in Entry /\ e.number \in 1..reports
                           /\ e.number = reports => At(e) = seen
                           /\ e.done => e.number \in handled
  <2> SUFFICES ASSUME NEW e \in UnderWay', NEW d \in UnderWay, e = [d EXCEPT !.done = FALSE]
               PROVE  /\ e \in Entry /\ e.number \in 1..reports
                      /\ e.number = reports => At(e) = seen
                      /\ e.done => e.number \in handled
    BY DEF Followed
  <2>1. d \in Entry /\ d.number \in 1..reports /\ (d.number = reports => At(d) = seen)
    BY DEF Followed
  <2>2. e \in Entry /\ e.number = d.number /\ e.chapter = d.chapter /\ e.page = d.page /\ ~e.done
    BY <2>1 DEF Entry
  <2> QED BY <2>1, <2>2 DEF At
<1>2. \/ reports = 0
      \/ reports \in handled \cup lostReports'
      \/ \E e \in UnderWay' : e.number = reports
  BY DEF Followed
<1> QED BY <1>1, <1>2 DEF Followed, At

\* What a report carries and what it leaves is what is on the clock.
LEMMA ReportedIs ==
    ASSUME reader.secs \in Nat
    PROVE  /\ R!Reported \in Nat /\ reader.secs - R!Reported \in Nat
           /\ reader.secs = R!Reported + (reader.secs - R!Reported) /\ (reader.secs = 0 => R!Reported = 0)
<1>1. MaxReport \in Nat
  BY RecordsAssumption DEF R!ReadingAssumption
<1> DEFINE n == reader.secs
<1>2. n \in Nat /\ R!Reported = IF n > MaxReport THEN MaxReport ELSE n
  BY DEF R!Reported
<1> HIDE DEF n
<1>3. /\ R!Reported \in Nat /\ n - R!Reported \in Nat
      /\ n = R!Reported + (n - R!Reported) /\ (n = 0 => R!Reported = 0)
  BY <1>1, <1>2
<1> QED BY <1>3 DEF n

\* A position is saved: it is the one reported last, or it is reported now.
LEMMA SaveFollowed ==
    ASSUME Followed, NEW position \in R!Positions, NEW others, R!SaveAtPage(position, others),
           reader.secs \in Nat, reader'.last \in {None, position}, UNCHANGED <<handled, progress>>,
           \A e \in UnderWay' : e \in UnderWay \cup posts', posts' \subseteq UnderWay', posts \subseteq UnderWay,
           \A e \in UnderWay : e \in UnderWay' \/ e.number \in R!Numbers(others)
    PROVE  Followed'
<1>1. seen' = position /\ R!Numbers(others) \subseteq lostReports' /\ lostReports \subseteq lostReports'
  BY DEF R!SaveAtPage, R!GiveUp, R!Numbers
<1>2. CASE ~R!Informs(position)
  <2>1. UNCHANGED <<reports, posts>> /\ reader.last = position
    BY <1>2 DEF R!SaveAtPage, R!Informs
  <2>2. seen' = seen
    BY <1>1, <2>1, RecordsAreSome DEF Followed
  <2> QED BY <1>1, <2>1, <2>2, MovesFollowed
<1>3. CASE R!Informs(position)
  <2> DEFINE entry == [number |-> reports + 1, chapter |-> position.chapter, page |-> position.page,
                       complete |-> position.page >= Pages, secs |-> R!Reported, done |-> FALSE]
  <2>1. /\ reports' = reports + 1 /\ posts' = IF trace THEN posts \cup {entry} ELSE posts
        /\ ~trace => entry.number \in lostReports'
    BY <1>3 DEF R!SaveAtPage, R!GiveUp, R!Numbers
  <2>2. /\ entry \in Entry /\ At(entry) = position /\ entry.number = reports' /\ ~entry.done
        /\ reports \in Nat /\ handled \subseteq 1..reports
    BY <2>1, ReportedIs DEF Followed, Entry, At, R!Positions
  <2> HIDE DEF entry
  <2>3. \A e \in UnderWay' : /\ e \in Entry /\ e.number \in 1..reports'
                             /\ e.number = reports' => At(e) = seen'
                             /\ e.done => e.number \in handled
    <3> TAKE e \in UnderWay'
    <3>1. CASE e = entry
      BY <1>1, <2>1, <2>2, <3>1
    <3>2. CASE e \in UnderWay
      BY <2>1, <2>2, <3>2 DEF Followed
    <3> QED BY <2>1, <3>1, <3>2
  <2>4. reports' \in lostReports' \/ \E e \in UnderWay' : e.number = reports'
    BY <2>1, <2>2
  <2>5. progress # None => progress.shows <= reports' /\ progress.shows # reports'
    BY <2>1, <2>2 DEF Followed, R!Rows
  <2> QED BY <1>1, <2>1, <2>2, <2>3, <2>4, <2>5 DEF Followed
<1> QED BY <1>2, <1>3

\* What a save does to the requests under way.
LEMMA SavedPosts ==
    ASSUME ReadingInv, NEW position \in R!Positions, NEW others, R!SaveAtPage(position, others)
    PROVE  posts \subseteq posts' /\ posts' \subseteq Entry
<1>1. reports \in Nat /\ posts \subseteq Entry /\ reader.secs \in Nat
  BY DEF ReadingInv, PageTyped, Followed
<1> DEFINE entry == [number |-> reports + 1, chapter |-> position.chapter, page |-> position.page,
                     complete |-> position.page >= Pages, secs |-> R!Reported, done |-> FALSE]
<1>2. posts' = posts \/ posts' = posts \cup {entry}
  BY DEF R!SaveAtPage
<1>3. entry \in Entry
  BY <1>1, ReportedIs DEF R!Positions, Entry
<1> QED BY <1>1, <1>2, <1>3

LEMMA TurnKeeps ==
    ASSUME ReadingInv, NEW page \in 1..Pages, R!Turn(page)
    PROVE  ReadingInv'
<1> DEFINE there == [chapter |-> reader.chapter, page |-> page]
<1>1. /\ R!SaveAtPage(there, {}) /\ reader.chapter # None
      /\ reader' = [reader EXCEPT !.page = page, !.secs = 0, !.last = there]
      /\ UNCHANGED <<retry, flush, handled, progress>>
  BY DEF R!Turn, R!KeepDaemon
<1>2. there \in R!Positions /\ page \in Nat
  BY <1>1, RecordsAssumption DEF ReadingInv, PageTyped, R!Positions, R!ReadingAssumption
<1> HIDE DEF there
<1>3. reader'.last = there /\ reader.secs \in Nat
  BY <1>1 DEF ReadingInv, PageTyped
<1>4. posts \subseteq posts' /\ posts' \subseteq Entry
  BY <1>1, <1>2, SavedPosts
<1>5. PageTyped'
  BY <1>1, <1>2, <1>4 DEF ReadingInv, PageTyped
<1>6. UnderWay' = UnderWay \cup posts'
  BY <1>1, <1>4 DEF UnderWay
<1>7. posts \subseteq UnderWay
  BY DEF UnderWay
<1>8. Followed'
  BY <1>1, <1>2, <1>3, <1>6, <1>7, SaveFollowed DEF ReadingInv
<1> QED BY <1>5, <1>8 DEF ReadingInv

\* The saver of the page, which `others` do not outlive.
LEMMA SaverKeeps ==
    ASSUME ReadingInv, reader.chapter # None, NEW others, R!RunSaver(others),
           reader'.last \in {None, IF reader.armed THEN R!Here ELSE reader.last},
           UNCHANGED <<flush, handled, progress>>,
           retry' = retry \/ (retry' = <<>> /\ others = R!Range(retry))
    PROVE  Followed' /\ posts' \subseteq Entry
<1>1. R!Here \in R!Positions /\ reader.secs \in Nat /\ posts \subseteq UnderWay
  BY DEF ReadingInv, PageTyped, R!Here, R!Positions, UnderWay
<1>2. R!Range(retry') \subseteq R!Range(retry)
  BY Waiting DEF ReadingInv, PageTyped
<1>3. \A e \in R!Range(retry) : e \in R!Range(retry') \/ e.number \in R!Numbers(others)
  BY DEF R!Numbers
<1>4. CASE reader.armed
  <2>1. R!SaveAtPage(R!Here, others)
    BY <1>4 DEF R!RunSaver
  <2>2. posts \subseteq posts' /\ posts' \subseteq Entry
    BY <1>1, <2>1, SavedPosts
  <2>3. /\ \A e \in UnderWay' : e \in UnderWay \cup posts'
        /\ posts' \subseteq UnderWay'
        /\ \A e \in UnderWay : e \in UnderWay' \/ e.number \in R!Numbers(others)
    BY <1>2, <1>3, <2>2 DEF UnderWay
  <2> QED BY <1>1, <1>4, <2>1, <2>2, <2>3, SaveFollowed DEF ReadingInv
<1>5. CASE ~reader.armed
  <2>1. UNCHANGED <<seen, reports, posts>> /\ lostReports' = lostReports \cup R!Numbers(others)
    BY <1>5 DEF R!RunSaver
  <2>2. /\ \A e \in UnderWay' : e \in UnderWay
        /\ \A e \in UnderWay : e \in UnderWay' \/ e.number \in lostReports'
    BY <1>2, <1>3, <2>1 DEF UnderWay
  <2>3. posts' \subseteq Entry
    BY <2>1 DEF ReadingInv, PageTyped
  <2>4. Followed'
    BY <1>5, <2>1, <2>2, MovesFollowed DEF ReadingInv
  <2> QED BY <2>3, <2>4
<1> QED BY <1>4, <1>5

LEMMA SwitchKeeps ==
    ASSUME ReadingInv, NEW c \in Chapters, R!Switch(c)
    PROVE  ReadingInv'
<1>1. /\ reader.chapter \notin {None, c} /\ R!RunSaver({})
      /\ reader' = [reader EXCEPT !.chapter = c, !.page = 1, !.secs = 0, !.armed = TRUE,
                                  !.last = IF reader.armed THEN R!Here ELSE @]
      /\ UNCHANGED <<retry, flush, handled, progress>>
  BY DEF R!Switch, R!KeepDaemon
<1>2. R!Here \in R!Positions
  BY <1>1 DEF ReadingInv, PageTyped, R!Here, R!Positions
<1>3. reader'.last = IF reader.armed THEN R!Here ELSE reader.last
  BY <1>1 DEF ReadingInv, PageTyped
<1>4. Followed' /\ posts' \subseteq Entry
  BY <1>1, <1>3, SaverKeeps
<1>5. reader'.chapter # None
  BY <1>1, RecordsAreSome DEF ReadingInv, PageTyped
<1>6. PageTyped'
  BY <1>1, <1>2, <1>4, <1>5 DEF ReadingInv, PageTyped
<1> QED BY <1>4, <1>6 DEF ReadingInv

LEMMA LeaveKeeps == ASSUME ReadingInv, R!Leave PROVE ReadingInv'
<1>1. /\ reader.chapter # None /\ R!RunSaver(R!Range(retry)) /\ reader' = R!Closed /\ retry' = <<>>
      /\ UNCHANGED <<flush, handled, progress>>
  BY DEF R!Leave, R!KeepDaemon
<1>2. reader'.last = None
  BY <1>1 DEF R!Closed
<1>3. Followed' /\ posts' \subseteq Entry
  BY <1>1, <1>2, SaverKeeps
<1>4. PageTyped'
  BY <1>1, <1>3 DEF ReadingInv, PageTyped, R!Closed
<1> QED BY <1>3, <1>4 DEF ReadingInv

LEMMA FlushSaveKeeps == ASSUME ReadingInv, R!FlushSave PROVE ReadingInv'
<1>1. flush' = R!NoFlush /\ flush.left = <<>> /\ UNCHANGED <<retry, handled, progress>>
  BY DEF R!FlushSave, R!KeepDaemon
<1>2. R!Range(flush.left) = {} /\ R!Range(flush'.left) = {}
  BY <1>1 DEF R!NoFlush, R!Range
<1>3. flush' \in [at : {"idle", "send", "wait"}, left : Seq(Entry), awaits : Nat]
  BY <1>1 DEF R!NoFlush
<1>4. CASE reader.armed /\ reader.chapter # None
  <2>1. /\ R!SaveAtPage(R!Here, {})
        /\ reader' = [reader EXCEPT !.secs = 0, !.last = R!Here, !.armed = FALSE]
    BY <1>4 DEF R!FlushSave
  <2>2. R!Here \in R!Positions
    BY <1>4 DEF ReadingInv, PageTyped, R!Here, R!Positions
  <2>3. reader'.last = R!Here /\ reader.secs \in Nat
    BY <2>1 DEF ReadingInv, PageTyped
  <2>4. posts \subseteq posts' /\ posts' \subseteq Entry
    BY <2>1, <2>2, SavedPosts
  <2>5. PageTyped'
    BY <1>1, <1>3, <2>1, <2>2, <2>4 DEF ReadingInv, PageTyped
  <2>6. UnderWay' = UnderWay \cup posts' /\ posts \subseteq UnderWay
    BY <1>1, <1>2, <2>4 DEF UnderWay
  <2>7. Followed'
    BY <1>1, <2>1, <2>2, <2>3, <2>6, SaveFollowed DEF ReadingInv
  <2> QED BY <2>5, <2>7 DEF ReadingInv
<1>5. CASE ~reader.armed
  <2>1. UNCHANGED <<reader, seen, reports, posts, lostReports>>
    BY <1>5 DEF R!FlushSave
  <2>2. UnderWay' = UnderWay
    BY <1>1, <1>2, <2>1 DEF UnderWay
  <2>3. Followed'
    BY <1>1, <2>1, <2>2, MovesFollowed DEF ReadingInv
  <2>4. PageTyped'
    BY <1>1, <1>3, <2>1 DEF ReadingInv, PageTyped
  <2> QED BY <2>3, <2>4 DEF ReadingInv
<1>6. reader.armed => reader.chapter # None
  BY DEF ReadingInv, PageTyped
<1> QED BY <1>4, <1>5, <1>6

LEMMA OpenKeeps == ASSUME ReadingInv, NEW c \in Chapters, R!Open(c) PROVE ReadingInv'
<1>1. /\ reader.chapter = None
      /\ reader' = [R!Closed EXCEPT !.chapter = c, !.armed = TRUE,
                      !.page = IF progress # None /\ progress.chapter = c THEN progress.page ELSE 1]
      /\ UNCHANGED <<seen, reports, posts, retry, flush, lostReports, handled, progress>>
  BY DEF R!Open, R!KeepDaemon
<1>2. reader'.last = None
  BY <1>1 DEF R!Closed
<1>3. UnderWay' = UnderWay
  BY <1>1 DEF UnderWay
<1>4. Followed'
  BY <1>1, <1>2, <1>3, MovesFollowed DEF ReadingInv
<1>5. progress # None => progress.page \in Nat
  BY DEF ReadingInv, Followed, R!Rows
<1>6. PageTyped'
  BY <1>1, <1>5, RecordsAreSome DEF ReadingInv, PageTyped, R!Closed
<1> QED BY <1>4, <1>6 DEF ReadingInv

\* The clock and what the user sets elsewhere touch no request.
LEMMA AsideKeeps ==
    ASSUME ReadingInv,
           \/ R!LearnIncognito \/ R!Second \/ R!SetIncognito
           \/ \E c \in Chapters : R!DeleteHistoryEvent(c) \/ \E value \in BOOLEAN : R!SetChapterRead(c, value)
    PROVE  ReadingInv'
<1>1. /\ UNCHANGED <<seen, reports, posts, retry, flush, lostReports, handled, progress>>
      /\ reader' = reader \/ (reader' = [reader EXCEPT !.secs = @ + 1])
  BY DEF R!LearnIncognito, R!Second, R!SetIncognito, R!DeleteHistoryEvent, R!SetChapterRead,
         R!KeepDaemon, R!KeepPage
<1>2. PageTyped' /\ reader'.last = reader.last
  BY <1>1 DEF ReadingInv, PageTyped
<1>3. UnderWay' = UnderWay
  BY <1>1 DEF UnderWay
<1>4. Followed'
  BY <1>1, <1>2, <1>3, MovesFollowed DEF ReadingInv
<1> QED BY <1>2, <1>4 DEF ReadingInv

LEMMA FlushKeeps == ASSUME ReadingInv, R!Flush \/ R!FlushNext PROVE ReadingInv'
<1>1. UNCHANGED <<reader, seen, reports, lostReports, handled, progress>>
  BY DEF R!Flush, R!FlushNext, R!KeepPage, R!KeepDaemon
<1>2. R!Range(<<>>) = {} /\ <<>> \in Seq(Entry)
  BY DEF R!Range
<1>3. CASE R!Flush
  <2>1. /\ flush = R!NoFlush /\ flush' = [at |-> "send", left |-> retry, awaits |-> 0]
        /\ retry' = <<>> /\ posts' = posts /\ reader.chapter # None
    BY <1>3 DEF R!Flush
  <2>2. UnderWay' = UnderWay
    BY <1>2, <2>1 DEF UnderWay, R!NoFlush
  <2>3. PageTyped'
    BY <1>1, <1>2, <2>1 DEF ReadingInv, PageTyped
  <2>4. Followed'
    BY <1>1, <2>2, MovesFollowed DEF ReadingInv
  <2> QED BY <2>3, <2>4 DEF ReadingInv
<1>4. CASE R!FlushNext
  <2> DEFINE p == Head(flush.left)
  <2>1. /\ flush.left # <<>> /\ posts' = posts \cup {p} /\ retry' = retry
        /\ flush' = [at |-> "wait", left |-> Tail(flush.left), awaits |-> p.number]
    BY <1>4 DEF R!FlushNext
  <2>2. /\ p \in Entry /\ Tail(flush.left) \in Seq(Entry)
        /\ R!Range(flush.left) = {p} \cup R!Range(Tail(flush.left))
    BY <2>1, Waiting DEF ReadingInv, PageTyped
  <2> HIDE DEF p
  <2>3. UnderWay' = UnderWay
    BY <2>1, <2>2 DEF UnderWay
  <2>4. PageTyped'
    BY <1>1, <2>1, <2>2 DEF ReadingInv, PageTyped, Entry
  <2>5. Followed'
    BY <1>1, <2>3, MovesFollowed DEF ReadingInv
  <2> QED BY <2>4, <2>5 DEF ReadingInv
<1> QED BY <1>3, <1>4

\* The flush that waits for a request that is over goes on with what is left.
LEMMA OverFlush ==
    ASSUME PageTyped, NEW p \in posts, R!Over(p)
    PROVE  /\ posts' = posts \ {p} /\ p \in Entry /\ flush'.left = flush.left
           /\ flush' \in [at : {"idle", "send", "wait"}, left : Seq(Entry), awaits : Nat]
BY DEF PageTyped, R!Over

LEMMA AnswerKeeps == ASSUME ReadingInv, NEW p \in posts, R!Answer(p) PROVE ReadingInv'
<1>1. /\ p.done /\ R!Over(p)
      /\ UNCHANGED <<reader, seen, reports, lostReports, handled, progress, retry>>
  BY DEF R!Answer, R!KeepPage, R!KeepDaemon
<1>2. /\ posts' = posts \ {p} /\ p \in Entry /\ flush'.left = flush.left
      /\ flush' \in [at : {"idle", "send", "wait"}, left : Seq(Entry), awaits : Nat]
  BY <1>1, OverFlush DEF ReadingInv
<1>3. p \in UnderWay /\ p.number \in handled
  BY <1>1 DEF ReadingInv, Followed, UnderWay
<1>4. UnderWay' \subseteq UnderWay /\ UnderWay \ {p} \subseteq UnderWay'
  BY <1>1, <1>2 DEF UnderWay
<1>5. \A e \in UnderWay : e.number \in handled \/ e \in UnderWay'
  BY <1>3, <1>4
<1>6. PageTyped'
  BY <1>1, <1>2 DEF ReadingInv, PageTyped
<1>7. Followed'
  BY <1>1, <1>4, <1>5, MovesFollowed DEF ReadingInv
<1> QED BY <1>6, <1>7 DEF ReadingInv

LEMMA FailKeeps == ASSUME ReadingInv, NEW p \in posts, R!Fail(p) PROVE ReadingInv'
<1> DEFINE again == [p EXCEPT !.done = FALSE]
           queued == Append(retry, again)
<1>1. /\ R!Over(p) /\ UNCHANGED <<reader, seen, reports, handled, progress>>
      /\ \/ reader.chapter = None /\ lostReports' = lostReports \cup R!Numbers({p}) /\ retry' = retry
         \/ /\ reader.chapter # None /\ lostReports' = lostReports \cup R!Numbers({Head(queued)})
            /\ retry' = Tail(queued)
         \/ reader.chapter # None /\ lostReports' = lostReports /\ retry' = queued
  BY DEF R!Fail, R!GiveUp, R!KeepPage, R!KeepDaemon
<1>2. /\ posts' = posts \ {p} /\ p \in Entry /\ flush'.left = flush.left
      /\ flush' \in [at : {"idle", "send", "wait"}, left : Seq(Entry), awaits : Nat]
  BY <1>1, OverFlush DEF ReadingInv
<1>3. again \in Entry /\ again.number = p.number /\ p \in UnderWay
  BY <1>2 DEF Entry, UnderWay
<1>4. retry \in Seq(Entry)
  BY DEF ReadingInv, PageTyped
<1>5. queued \in Seq(Entry) /\ queued # <<>>
      /\ R!Range(queued) = R!Range(retry) \cup {again}
  BY <1>3, <1>4, Waiting
<1> HIDE DEF queued
<1>6. /\ Tail(queued) \in Seq(Entry)
      /\ R!Range(queued) = {Head(queued)} \cup R!Range(Tail(queued))
  BY <1>5, Waiting
<1>7. PageTyped'
  BY <1>1, <1>2, <1>5, <1>6 DEF ReadingInv, PageTyped
<1>8. \A e : R!Numbers({e}) = {e.number}
  BY DEF R!Numbers
<1>9. /\ \A e \in UnderWay' : e \in UnderWay \/ e = again
      /\ \A e \in UnderWay : \/ e.number \in lostReports'
                             \/ \E d \in UnderWay' : d.number = e.number
  <2>1. CASE retry' = retry /\ lostReports' = lostReports \cup {p.number}
    BY <1>2, <2>1 DEF UnderWay
  <2>2. CASE retry' = Tail(queued) /\ lostReports' = lostReports \cup {Head(queued).number}
    <3>1. \A e \in R!Range(retry) \cup {again} : e = Head(queued) \/ e \in R!Range(retry')
      BY <1>5, <1>6, <2>2
    <3>2. \A e \in R!Range(retry') : e \in R!Range(retry) \cup {again}
      BY <1>5, <1>6, <2>2
    <3> HIDE DEF again
    <3> QED BY <1>2, <1>3, <2>2, <3>1, <3>2 DEF UnderWay
  <2>3. CASE retry' = queued
    <3> HIDE DEF again
    <3> QED BY <1>2, <1>3, <1>5, <2>3 DEF UnderWay
  <2> QED BY <1>1, <1>8, <2>1, <2>2, <2>3
<1>10. lostReports \subseteq lostReports'
  BY <1>1
<1>11. Followed'
  BY <1>1, <1>3, <1>9, <1>10, MovesFollowed DEF ReadingInv
<1> QED BY <1>7, <1>11 DEF ReadingInv

\* A report is handled: recorded, or given up where no trace is wanted.
LEMMA HandleKeeps == ASSUME ReadingInv, NEW p \in posts, R!Handle(p) PROVE ReadingInv'
<1> DEFINE heard == [p EXCEPT !.done = TRUE]
<1>1. /\ posts' = (posts \ {p}) \cup {heard} /\ handled' = handled \cup {p.number}
      /\ UNCHANGED <<reader, seen, reports, retry, flush>>
  BY DEF R!Handle, R!KeepPage
<1>2. \/ lostReports' = lostReports \cup {p.number} /\ progress' = progress
      \/ /\ lostReports' = lostReports
         /\ progress' = [chapter |-> p.chapter, page |-> p.page, shows |-> p.number,
                         completed |-> p.complete \/ (progress # None /\ progress.completed)]
  BY DEF R!Handle, R!GiveUp, R!Numbers, R!Upsert
<1>3. p \in Entry /\ p \in UnderWay /\ p.number \in 1..reports /\ (p.number = reports => At(p) = seen)
  BY DEF ReadingInv, Followed, UnderWay
<1>4. heard \in Entry /\ heard.number = p.number /\ At(heard) = At(p)
  BY <1>3 DEF Entry, At
<1>5. PageTyped'
  BY <1>1, <1>4 DEF ReadingInv, PageTyped
<1> HIDE DEF heard
<1>6. /\ \A e \in UnderWay' : e \in UnderWay \/ e = heard
      /\ \A e \in UnderWay : \E d \in UnderWay' : d.number = e.number
  BY <1>1, <1>4 DEF UnderWay
<1>7. \A e \in UnderWay' : /\ e \in Entry /\ e.number \in 1..reports
                           /\ e.number = reports => At(e) = seen
                           /\ e.done => e.number \in handled'
  BY <1>1, <1>3, <1>4, <1>6 DEF ReadingInv, Followed
<1>8. \/ reports = 0
      \/ reports \in handled' \cup lostReports'
      \/ \E e \in UnderWay' : e.number = reports
  BY <1>1, <1>2, <1>6 DEF ReadingInv, Followed
<1>9. /\ progress' \in {None} \cup R!Rows
      /\ handled' \subseteq lostReports' \/ progress' # None
      /\ progress' # None =>
           progress'.shows <= reports /\ (progress'.shows = reports => At(progress') = seen)
  <2>1. CASE progress' = progress /\ lostReports' = lostReports \cup {p.number}
    BY <1>1, <2>1 DEF ReadingInv, Followed
  <2>2. CASE progress' = [chapter |-> p.chapter, page |-> p.page, shows |-> p.number,
                          completed |-> p.complete \/ (progress # None /\ progress.completed)]
    <3>1. progress' \in R!Rows
      BY <1>3, <2>2 DEF R!Rows, Entry
    <3>2. progress'.shows = p.number /\ At(progress') = At(p)
      BY <2>2 DEF At
    <3>3. reports \in Nat
      BY DEF ReadingInv, Followed
    <3> QED BY <1>3, <3>1, <3>2, <3>3, RecordsAreSome
  <2> QED BY <1>2, <2>1, <2>2
<1>10. reports \in Nat /\ handled' \subseteq 1..reports /\ (reader.last # None => reader.last = seen)
  BY <1>1, <1>3 DEF ReadingInv, Followed
<1>11. Followed'
  BY <1>1, <1>7, <1>8, <1>9, <1>10 DEF Followed, At
<1> QED BY <1>5, <1>11 DEF ReadingInv

LEMMA ReadingKept == ReadingInv /\ [Next]_vars => ReadingInv'
<1> SUFFICES ASSUME ReadingInv, [Next]_vars PROVE ReadingInv'
  OBVIOUS
<1>1. CASE UNCHANGED readingVars
  BY <1>1 DEF readingVars, ReadingInv, PageTyped, Followed, UnderWay
<1>2. CASE R!ReadingNext
  BY <1>2, TurnKeeps, SwitchKeeps, LeaveKeeps, FlushSaveKeeps, OpenKeeps, AsideKeeps, FlushKeeps,
     AnswerKeeps, FailKeeps, HandleKeeps DEF R!ReadingNext
<1> QED BY <1>1, <1>2 DEF Next, vars, ChaptersStep, MigrationStep, ReadingStep, SettingsStep

\* Once the page is left and no request is under way, the title is where its reader was, unless
\* the last report was given up or an older one was handled after it: for every number of
\* chapters, pages, reports and failures, and every length of the retry queue.  It is the half
\* of ReadingIsRecorded about the position.
THEOREM ResumeKept == Spec => [](part = "reading" => R!ResumeIsLast)
<1>1. ReadingInv => R!ResumeIsLast
  <2> SUFFICES ASSUME ReadingInv, R!Quiet, reports > 0
               PROVE  \/ reports \in lostReports
                      \/ reports \in handled /\ progress # None /\
                            (progress.shows # reports \/ At(progress) = seen)
    BY DEF R!ResumeIsLast, At
  <2>1. UnderWay = {}
    BY DEF ReadingInv, PageTyped, R!Quiet, R!NoFlush, UnderWay, R!Range
  <2>2. reports # 0
    BY DEF ReadingInv, Followed
  <2> QED BY <2>1, <2>2 DEF ReadingInv, Followed
<1> QED BY <1>1, ReadingBegins, ReadingKept, PTL DEF Spec

-----------------------------------------------------------------------------
(* Sums of seconds: what the fold over the requests under way computes     *)

Adds(iter, U) ==
    iter = [s \in SUBSET U |->
              IF s = {} THEN 0
              ELSE LET x == CHOOSE x \in s : TRUE IN iter[s \ {x}] + x.secs]
SecondsOf(U) == (CHOOSE iter : Adds(iter, U))[U]

\* Among finite sets one is smallest.
LEMMA SomeSmallest ==
    ASSUME NEW those, those # {}, \A s \in those : IsFiniteSet(s)
    PROVE  \E s \in those : \A t \in those : ~(Cardinality(t) < Cardinality(s))
<1> DEFINE Sizes == {Cardinality(s) : s \in those}
<1>1. Sizes \subseteq Nat /\ Sizes # {}
  BY FS_CardinalityType
<1>2. PICK k \in Sizes : \A j \in Sizes : ~(<<j, k>> \in OpToRel(<, Nat))
  <2> HIDE DEF Sizes
  <2> QED BY <1>1, NatLessThanWellFounded, WFMin
<1>3. \A j \in Sizes : ~(j < k)
  BY <1>1, <1>2 DEF OpToRel
<1> QED BY <1>2, <1>3

\* Without a member a finite set is smaller.
LEMMA OneLess ==
    ASSUME NEW s, IsFiniteSet(s), NEW x \in s
    PROVE  IsFiniteSet(s \ {x}) /\ Cardinality(s \ {x}) < Cardinality(s)
<1>1. IsFiniteSet(s \ {x}) /\ Cardinality(s \ {x}) = Cardinality(s) - 1 /\ Cardinality(s) \in Nat
  BY FS_RemoveElement, FS_CardinalityType
<1> QED BY <1>1

LEMMA AddsUnique ==
    ASSUME NEW U, IsFiniteSet(U), NEW g, NEW h, Adds(g, U), Adds(h, U)
    PROVE  g = h
<1> DEFINE Bad == {s \in SUBSET U : g[s] # h[s]}
<1>1. DOMAIN g = SUBSET U /\ DOMAIN h = SUBSET U
      /\ g = [s \in SUBSET U |-> g[s]] /\ h = [s \in SUBSET U |-> h[s]]
  BY DEF Adds
<1> SUFFICES ASSUME Bad # {} PROVE FALSE
  BY <1>1
<1>2. PICK s \in Bad : \A t \in Bad : ~(Cardinality(t) < Cardinality(s))
  <2>1. \A s \in Bad : IsFiniteSet(s)
    BY FS_Subset
  <2> HIDE DEF Bad
  <2> QED BY <2>1, SomeSmallest
<1>3. s # {}
  BY <1>2 DEF Adds
<1> DEFINE x == CHOOSE x \in s : TRUE
<1>4. x \in s
  BY <1>3
<1>5. g[s] = g[s \ {x}] + x.secs /\ h[s] = h[s \ {x}] + x.secs
  BY <1>3 DEF Adds
<1> HIDE DEF x
<1>6. s \ {x} \notin Bad
  <2>1. IsFiniteSet(s)
    BY FS_Subset
  <2> QED BY <1>2, <1>4, <2>1, OneLess
<1> QED BY <1>2, <1>5, <1>6

LEMMA AddsBelow ==
    ASSUME NEW U, NEW g, Adds(g, U), NEW t \in SUBSET U
    PROVE  Adds([s \in SUBSET t |-> g[s]], t)
<1> DEFINE h == [s \in SUBSET t |-> g[s]]
<1>1. ASSUME NEW s \in SUBSET t
      PROVE  h[s] = IF s = {} THEN 0 ELSE LET x == CHOOSE x \in s : TRUE IN h[s \ {x}] + x.secs
  <2>1. s \in SUBSET U /\ h[s] = g[s] /\ s \ {CHOOSE x \in s : TRUE} \in SUBSET t
    OBVIOUS
  <2>2. h[s \ {CHOOSE x \in s : TRUE}] = g[s \ {CHOOSE x \in s : TRUE}]
    BY <2>1
  <2>3. g[s] = IF s = {} THEN 0 ELSE LET x == CHOOSE x \in s : TRUE IN g[s \ {x}] + x.secs
    BY <2>1 DEF Adds
  <2> QED BY <2>1, <2>2, <2>3
<1> QED BY <1>1 DEF Adds

\* The sum exists for every finite set.
LEMMA AddsExists ==
    ASSUME NEW W, IsFiniteSet(W)
    PROVE  \E g : Adds(g, W)
<1> DEFINE Bad == {U \in SUBSET W : ~\E g : Adds(g, U)}
<1> SUFFICES ASSUME Bad # {} PROVE FALSE
  BY DEF Adds
<1>1. PICK U \in Bad : \A t \in Bad : ~(Cardinality(t) < Cardinality(U))
  <2>1. \A s \in Bad : IsFiniteSet(s)
    BY FS_Subset
  <2> HIDE DEF Bad
  <2> QED BY <2>1, SomeSmallest
<1>2. U \in SUBSET W /\ IsFiniteSet(U) /\ ~\E g : Adds(g, U)
  BY FS_Subset
<1>3. \A s \in SUBSET U : IsFiniteSet(s)
  BY <1>2, FS_Subset
<1>4. \A s \in SUBSET U : s # U => \E g : Adds(g, s)
  <2> SUFFICES ASSUME NEW s \in SUBSET U, s # U PROVE s \notin Bad
    BY <1>2
  <2>1. PICK x \in U : x \notin s
    OBVIOUS
  <2>2. IsFiniteSet(U \ {x}) /\ Cardinality(U \ {x}) < Cardinality(U) /\ s \subseteq U \ {x}
    BY <1>2, <2>1, OneLess
  <2>3. Cardinality(s) <= Cardinality(U \ {x})
    BY <2>2, FS_Subset
  <2>4. Cardinality(s) \in Nat /\ Cardinality(U) \in Nat /\ Cardinality(U \ {x}) \in Nat
    BY <1>2, <1>3, <2>2, FS_CardinalityType
  <2> QED BY <1>1, <2>2, <2>3, <2>4
<1> DEFINE Of(s) == CHOOSE g : Adds(g, s)
           c == CHOOSE x \in U : TRUE
           f == [s \in SUBSET U |-> IF s = {} THEN 0
                                    ELSE IF s = U THEN Of(U \ {c})[U \ {c}] + c.secs ELSE Of(s)[s]]
<1>5. \A s \in SUBSET U : s # U => Adds(Of(s), s)
  BY <1>4
<1>6. U # {} => Of({})[{}] = 0
  <2>1. U # {} => Adds(Of({}), {})
    BY <1>5
  <2> HIDE DEF Of
  <2> QED BY <2>1 DEF Adds
<1>7. ASSUME NEW s \in SUBSET U, s # {}
      PROVE  LET x == CHOOSE x \in s : TRUE IN f[s] = f[s \ {x}] + x.secs
  <2> DEFINE x == CHOOSE x \in s : TRUE
             t == s \ {x}
  <2>1. x \in s /\ t \in SUBSET U /\ t # U
    BY <1>7
  <2>2. f[t] = Of(t)[t]
    BY <1>6, <2>1
  <2>3. CASE s = U
    BY <2>2, <2>3, <1>7
  <2>4. CASE s # U
    <3>1. Adds(Of(s), s) /\ Adds(Of(t), t) /\ t \in SUBSET s
      BY <1>5, <2>1, <2>4
    <3>2. [r \in SUBSET t |-> Of(s)[r]] = Of(t)
      <4>1. Adds([r \in SUBSET t |-> Of(s)[r]], t)
        BY <3>1, AddsBelow
      <4>2. IsFiniteSet(t)
        BY <1>3, <2>1
      <4> HIDE DEF Of, t
      <4> QED BY <3>1, <4>1, <4>2, AddsUnique
    <3>3. Of(s)[t] = Of(t)[t]
      <4>1. [r \in SUBSET t |-> Of(s)[r]][t] = Of(s)[t]
        OBVIOUS
      <4> HIDE DEF Of, t
      <4> QED BY <3>2, <4>1
    <3>4. Of(s)[s] = Of(s)[t] + x.secs
      <4> HIDE DEF Of
      <4> QED BY <1>7, <3>1 DEF Adds
    <3>5. f[s] = Of(s)[s]
      BY <1>7, <2>4
    <3> QED BY <2>2, <3>3, <3>4, <3>5
  <2> QED BY <2>3, <2>4
<1>8. f[{}] = 0 /\ {} \in SUBSET U
  OBVIOUS
<1>9. Adds(f, U)
  <2>1. f = [s \in SUBSET U |-> f[s]]
    OBVIOUS
  <2> HIDE DEF f
  <2> QED BY <1>7, <1>8, <2>1 DEF Adds
<1> QED BY <1>2, <1>9

LEMMA SumStep ==
    ASSUME NEW U, IsFiniteSet(U), U # {}
    PROVE  LET x == CHOOSE x \in U : TRUE IN SecondsOf(U) = SecondsOf(U \ {x}) + x.secs
<1> DEFINE g == CHOOSE g : Adds(g, U)
           x == CHOOSE x \in U : TRUE
           t == U \ {x}
           h == CHOOSE h : Adds(h, t)
<1>1. Adds(g, U)
  BY AddsExists
<1>2. IsFiniteSet(t) /\ t \in SUBSET U
  BY FS_Subset
<1>3. Adds(h, t) /\ Adds([s \in SUBSET t |-> g[s]], t)
  <2>1. \E i : Adds(i, t)
    BY <1>2, AddsExists
  <2> HIDE DEF g, t
  <2> QED BY <1>1, <1>2, <2>1, AddsBelow
<1>4. g[U] = g[t] + x.secs
  <2> HIDE DEF g
  <2> QED BY <1>1 DEF Adds
<1> HIDE DEF g, t, h
<1>5. h = [s \in SUBSET t |-> g[s]]
  BY <1>2, <1>3, AddsUnique
<1>6. h[t] = g[t]
  BY <1>5
<1> QED BY <1>4, <1>6 DEF SecondsOf, g, t, h

LEMMA SumOfNone == SecondsOf({}) = 0
<1> DEFINE g == CHOOSE g : Adds(g, {})
<1>1. Adds(g, {})
  BY AddsExists, FS_EmptySet
<1> HIDE DEF g
<1>2. g[{}] = 0
  BY <1>1 DEF Adds
<1> QED BY <1>2 DEF SecondsOf, g

\* A sum of seconds is a number, in whichever order they are added.
LEMMA SumIsNat ==
    ASSUME NEW U, IsFiniteSet(U), \A e \in U : e.secs \in Nat
    PROVE  SecondsOf(U) \in Nat
<1> DEFINE Bad == {s \in SUBSET U : SecondsOf(s) \notin Nat}
<1> SUFFICES ASSUME Bad # {} PROVE FALSE
  OBVIOUS
<1>1. \A s \in SUBSET U : IsFiniteSet(s)
  BY FS_Subset
<1>2. PICK s \in Bad : \A t \in Bad : ~(Cardinality(t) < Cardinality(s))
  <2> HIDE DEF Bad
  <2>1. \A s \in Bad : IsFiniteSet(s)
    BY <1>1 DEF Bad
  <2> QED BY <2>1, SomeSmallest
<1>3. s # {} /\ s \in SUBSET U
  BY <1>2, SumOfNone
<1> DEFINE x == CHOOSE x \in s : TRUE
<1>4. x \in s /\ SecondsOf(s) = SecondsOf(s \ {x}) + x.secs
  BY <1>1, <1>3, SumStep
<1> HIDE DEF x
<1>5. SecondsOf(s \ {x}) \in Nat
  BY <1>1, <1>2, <1>3, <1>4, OneLess
<1> QED BY <1>2, <1>3, <1>4, <1>5

LEMMA SumWithout ==
    ASSUME NEW U, IsFiniteSet(U), \A e \in U : e.secs \in Nat, NEW y \in U
    PROVE  SecondsOf(U) = SecondsOf(U \ {y}) + y.secs
<1> DEFINE Bad == {s \in SUBSET U : \E e \in s : SecondsOf(s) # SecondsOf(s \ {e}) + e.secs}
<1> SUFFICES ASSUME Bad # {} PROVE FALSE
  OBVIOUS
<1>1. \A s \in SUBSET U : IsFiniteSet(s) /\ SecondsOf(s) \in Nat
  BY FS_Subset, SumIsNat
<1>2. PICK s \in Bad : \A t \in Bad : ~(Cardinality(t) < Cardinality(s))
  <2> HIDE DEF Bad
  <2>1. \A s \in Bad : IsFiniteSet(s)
    BY <1>1 DEF Bad
  <2> QED BY <2>1, SomeSmallest
<1>3. PICK e \in s : SecondsOf(s) # SecondsOf(s \ {e}) + e.secs
  BY <1>2
<1> DEFINE x == CHOOSE x \in s : TRUE
<1>4. x \in s /\ s \in SUBSET U /\ SecondsOf(s) = SecondsOf(s \ {x}) + x.secs
  BY <1>1, <1>2, <1>3, SumStep
<1> HIDE DEF x
<1>5. x # e
  BY <1>3, <1>4
<1>6. SecondsOf(s \ {x}) = SecondsOf((s \ {x}) \ {e}) + e.secs
  <2>1. s \ {x} \notin Bad /\ e \in s \ {x} /\ s \ {x} \in SUBSET U
    BY <1>1, <1>2, <1>4, <1>5, OneLess
  <2> QED BY <2>1
<1>7. SecondsOf(s \ {e}) = SecondsOf((s \ {e}) \ {x}) + x.secs
  <2>1. s \ {e} \notin Bad /\ x \in s \ {e} /\ s \ {e} \in SUBSET U
    BY <1>1, <1>2, <1>4, <1>5, OneLess
  <2> QED BY <2>1
<1>8. (s \ {x}) \ {e} = (s \ {e}) \ {x} /\ (s \ {x}) \ {e} \in SUBSET U
  BY <1>4
<1>9. SecondsOf((s \ {x}) \ {e}) \in Nat /\ x.secs \in Nat /\ e.secs \in Nat
  BY <1>1, <1>4, <1>8
<1> DEFINE r == SecondsOf((s \ {x}) \ {e})
<1>10. SecondsOf(s) = (r + e.secs) + x.secs /\ SecondsOf(s \ {e}) = r + x.secs
  BY <1>4, <1>6, <1>7, <1>8
<1> HIDE DEF r
<1>11. r \in Nat
  BY <1>9 DEF r
<1>12. (r + e.secs) + x.secs = (r + x.secs) + e.secs
  BY <1>9, <1>11
<1> QED BY <1>3, <1>10, <1>12

LEMMA SumOfBoth ==
    ASSUME NEW A, NEW B, IsFiniteSet(A \cup B), \A e \in A \cup B : e.secs \in Nat, A \cap B = {}
    PROVE  SecondsOf(A \cup B) = SecondsOf(A) + SecondsOf(B)
<1> DEFINE U == A \cup B
           Bad == {s \in SUBSET B : SecondsOf(A \cup s) # SecondsOf(A) + SecondsOf(s)}
<1> SUFFICES ASSUME Bad # {} PROVE FALSE
  OBVIOUS
<1>1. \A s \in SUBSET U : IsFiniteSet(s) /\ SecondsOf(s) \in Nat
  BY FS_Subset, SumIsNat
<1>2. PICK s \in Bad : \A t \in Bad : ~(Cardinality(t) < Cardinality(s))
  <2> HIDE DEF Bad
  <2>1. \A s \in Bad : IsFiniteSet(s)
    BY <1>1 DEF Bad
  <2> QED BY <2>1, SomeSmallest
<1>3. s \in SUBSET B /\ SecondsOf(A \cup s) # SecondsOf(A) + SecondsOf(s)
  BY <1>2
<1>4. SecondsOf(A) \in Nat
  BY <1>1
<1>5. s # {}
  <2> SUFFICES ASSUME s = {} PROVE FALSE
    OBVIOUS
  <2>1. A \cup s = A
    OBVIOUS
  <2> QED BY <1>3, <1>4, <2>1, SumOfNone
<1>6. PICK x \in s : TRUE
  BY <1>5
<1>7. SecondsOf(A \cup (s \ {x})) = SecondsOf(A) + SecondsOf(s \ {x})
  BY <1>1, <1>2, <1>3, <1>6, OneLess
<1>8. SecondsOf(s) = SecondsOf(s \ {x}) + x.secs
  BY <1>1, <1>3, <1>6, SumWithout
<1>9. SecondsOf(A \cup s) = SecondsOf((A \cup s) \ {x}) + x.secs
  <2>1. A \cup s \in SUBSET U /\ x \in A \cup s
    BY <1>3, <1>6
  <2> QED BY <1>1, <2>1, SumWithout
<1>10. (A \cup s) \ {x} = A \cup (s \ {x})
  BY <1>3, <1>6
<1>11. SecondsOf(s \ {x}) \in Nat /\ x.secs \in Nat
  BY <1>1, <1>3, <1>6
<1> DEFINE a == SecondsOf(A)
           r == SecondsOf(s \ {x})
<1>12. SecondsOf(A \cup s) = (a + r) + x.secs /\ SecondsOf(s) = r + x.secs /\ a \in Nat /\ r \in Nat
  BY <1>4, <1>7, <1>8, <1>9, <1>10, <1>11
<1>13. SecondsOf(A \cup s) # a + SecondsOf(s)
  BY <1>3
<1> HIDE DEF a, r
<1>14. (a + r) + x.secs = a + (r + x.secs)
  BY <1>11, <1>12
<1> QED BY <1>12, <1>13, <1>14

-----------------------------------------------------------------------------
(* Where a title was left off: the seconds                                 *)

\* What the entries have to say that is not recorded yet, when `heard` was handled.
Outstanding(entries, heard) == SecondsOf({e \in entries : e.number \notin heard})

Once(s) == \A i, j \in 1..Len(s) : s[i] = s[j] => i = j

\* An entry travels once: it is under way, or waits, in one place.
Apart ==
    /\ IsFiniteSet(UnderWay)
    /\ \A e, d \in UnderWay : e.number = d.number => e = d
    /\ posts \cap R!Range(retry) = {} /\ posts \cap R!Range(flush.left) = {}
    /\ R!Range(retry) \cap R!Range(flush.left) = {}
    /\ Once(retry) /\ Once(flush.left)
    /\ reader.chapter = None => reader.secs = 0

Accounted ==
    /\ elapsed \in Nat /\ seconds \in Nat /\ given \in Nat /\ capped \in Nat /\ repeated \in Nat
    /\ elapsed + repeated = seconds + given + capped + reader.secs + Outstanding(UnderWay, handled)

SecondsInv == ReadingInv /\ Apart /\ Accounted

LEMMA TotalIsSum == \A entries : R!Total(entries) = Outstanding(entries, handled)
<1> SUFFICES ASSUME NEW entries PROVE R!Total(entries) = Outstanding(entries, handled)
  OBVIOUS
<1> QED BY DEF R!Total, R!FoldSet, R!MapThenFoldSet, R!Unheard, Outstanding, SecondsOf, Adds

LEMMA AccountedIs == Accounted => R!SecondsKept
BY TotalIsSum DEF Accounted, R!SecondsKept, UnderWay

LEMMA NoneOutstanding ==
    /\ \A heard : Outstanding({}, heard) = 0
    /\ \A e \in Entry : \A heard : Outstanding({e}, heard) = IF e.number \in heard THEN 0 ELSE e.secs
<1>1. ASSUME NEW heard PROVE Outstanding({}, heard) = 0
  <2>1. {e \in {} : e.number \notin heard} = {}
    OBVIOUS
  <2> QED BY <2>1, SumOfNone DEF Outstanding
<1>2. ASSUME NEW e \in Entry, NEW heard
      PROVE  Outstanding({e}, heard) = IF e.number \in heard THEN 0 ELSE e.secs
  <2>1. CASE e.number \in heard
    <3>1. {d \in {e} : d.number \notin heard} = {}
      BY <2>1
    <3> QED BY <2>1, <3>1, SumOfNone DEF Outstanding
  <2>2. CASE e.number \notin heard
    <3>1. {d \in {e} : d.number \notin heard} = {e} /\ {e} \ {e} = {}
      BY <2>2
    <3>2. IsFiniteSet({e}) /\ \A d \in {e} : d.secs \in Nat
      BY FS_Singleton DEF Entry
    <3>3. SecondsOf({e}) = SecondsOf({e} \ {e}) + e.secs
      BY <3>2, SumWithout
    <3>4. e.secs \in Nat
      BY DEF Entry
    <3>5. SecondsOf({e}) = e.secs
      BY <3>1, <3>3, <3>4, SumOfNone
    <3> QED BY <2>2, <3>1, <3>5 DEF Outstanding
  <2> QED BY <2>1, <2>2
<1> QED BY <1>1, <1>2

\* What is outstanding of disjoint sets is outstanding of both.
LEMMA BothOutstanding ==
    ASSUME NEW these, NEW those, IsFiniteSet(these \cup those), these \cup those \subseteq Entry, NEW heard,
           these \cap those = {}
    PROVE  /\ Outstanding(these \cup those, heard) = Outstanding(these, heard) + Outstanding(those, heard)
           /\ Outstanding(these, heard) \in Nat /\ Outstanding(those, heard) \in Nat
<1> DEFINE entries == these \cup those
           Of(set) == {e \in set : e.number \notin heard}
<1>1. /\ Of(entries) = Of(these) \cup Of(those) /\ Of(these) \cap Of(those) = {}
      /\ Of(entries) \in SUBSET entries /\ Of(these) \in SUBSET entries /\ Of(those) \in SUBSET entries
  OBVIOUS
<1>2. \A set \in SUBSET entries : IsFiniteSet(set) /\ \A e \in set : e.secs \in Nat
  BY FS_Subset DEF Entry
<1> HIDE DEF Of, entries
<1>3. SecondsOf(Of(these)) \in Nat /\ SecondsOf(Of(those)) \in Nat
  BY <1>1, <1>2, SumIsNat
<1>4. SecondsOf(Of(these) \cup Of(those)) = SecondsOf(Of(these)) + SecondsOf(Of(those))
  <2>1. IsFiniteSet(Of(these) \cup Of(those)) /\ \A e \in Of(these) \cup Of(those) : e.secs \in Nat
    BY <1>1, <1>2
  <2> QED BY <1>1, <2>1, SumOfBoth
<1> QED BY <1>1, <1>3, <1>4 DEF Outstanding, Of, entries

\* What is outstanding is apportioned to the parts of a set.
LEMMA Apportioned ==
    ASSUME NEW whole, IsFiniteSet(whole), whole \subseteq Entry, NEW these, NEW those,
           whole = these \cup those, these \cap those = {}, NEW heard
    PROVE  /\ Outstanding(whole, heard) = Outstanding(these, heard) + Outstanding(those, heard)
           /\ Outstanding(these, heard) \in Nat /\ Outstanding(those, heard) \in Nat
<1>1. IsFiniteSet(these \cup those) /\ these \cup those \subseteq Entry
  OBVIOUS
<1>2. /\ Outstanding(these \cup those, heard) = Outstanding(these, heard) + Outstanding(those, heard)
      /\ Outstanding(these, heard) \in Nat /\ Outstanding(those, heard) \in Nat
  BY <1>1, BothOutstanding
<1> QED BY <1>2

\* What has been heard of does not count.
LEMMA HeardIsNothing ==
    ASSUME NEW these, NEW those, NEW heard,
           \A e : e \in these /\ e.number \notin heard <=> e \in those /\ e.number \notin heard
    PROVE  Outstanding(these, heard) = Outstanding(those, heard)
<1>1. {e \in these : e.number \notin heard} = {e \in those : e.number \notin heard}
  OBVIOUS
<1> QED BY <1>1 DEF Outstanding

LEMMA OnceGrows ==
    ASSUME NEW s \in Seq(Entry), Once(s)
    PROVE  /\ \A e \in Entry : e \notin R!Range(s) => Once(Append(s, e))
           /\ s # <<>> => Once(Tail(s)) /\ Head(s) \notin R!Range(Tail(s))
           /\ Once(<<>>)
<1>1. ASSUME NEW e \in Entry, e \notin R!Range(s) PROVE Once(Append(s, e))
  <2>1. /\ Len(Append(s, e)) = Len(s) + 1 /\ Append(s, e)[Len(s) + 1] = e /\ Len(s) \in Nat
        /\ \A i \in 1..Len(s) : Append(s, e)[i] = s[i] /\ s[i] # e
    BY <1>1 DEF R!Range
  <2> QED BY <2>1 DEF Once
<1>2. ASSUME s # <<>> PROVE Once(Tail(s)) /\ Head(s) \notin R!Range(Tail(s))
  <2>1. /\ Head(s) = s[1] /\ Len(Tail(s)) = Len(s) - 1 /\ Len(s) \in Nat \ {0}
        /\ \A i \in 1..(Len(s) - 1) : Tail(s)[i] = s[i + 1] /\ i + 1 \in 1..Len(s) /\ i + 1 # 1
        /\ DOMAIN Tail(s) = 1..(Len(s) - 1) /\ 1 \in 1..Len(s)
    BY <1>2
  <2>2. \A i, j \in 1..(Len(s) - 1) : i + 1 = j + 1 => i = j
    BY <2>1
  <2>3. Once(Tail(s))
    BY <2>1, <2>2 DEF Once
  <2>4. \A i \in 1..(Len(s) - 1) : Tail(s)[i] # s[1]
    BY <2>1 DEF Once
  <2> QED BY <2>1, <2>3, <2>4 DEF R!Range
<1>3. Once(<<>>)
  BY DEF Once
<1> QED BY <1>1, <1>2, <1>3

LEMMA SecondsBegin == Init => SecondsInv
<1> SUFFICES ASSUME Init PROVE SecondsInv
  OBVIOUS
<1>1. R!Range(<<>>) = {} /\ Once(<<>>)
  BY DEF R!Range, Once
<1>2. /\ posts = {} /\ retry = <<>> /\ flush.left = <<>> /\ reader.secs = 0
      /\ elapsed = 0 /\ seconds = 0 /\ given = 0 /\ capped = 0 /\ repeated = 0
  BY DEF Init, R!ReadingInit, R!Closed, R!NoFlush
<1>3. UnderWay = {}
  BY <1>1, <1>2 DEF UnderWay
<1>4. Apart
  BY <1>1, <1>2, <1>3, FS_EmptySet DEF Apart
<1>5. Accounted
  BY <1>2, <1>3, NoneOutstanding DEF Accounted
<1> QED BY <1>4, <1>5, ReadingBegins DEF SecondsInv

LEMMA SecondsTypes ==
    ASSUME SecondsInv
    PROVE  /\ reader.secs \in Nat /\ IsFiniteSet(UnderWay) /\ UnderWay \subseteq Entry
           /\ elapsed \in Nat /\ seconds \in Nat /\ given \in Nat /\ capped \in Nat /\ repeated \in Nat
           /\ reports \in Nat /\ \A e \in UnderWay : e.number <= reports
           /\ retry \in Seq(Entry) /\ flush.left \in Seq(Entry) /\ posts \subseteq Entry
           /\ Outstanding(UnderWay, handled) \in Nat
<1>1. /\ reader.secs \in Nat /\ IsFiniteSet(UnderWay) /\ UnderWay \subseteq Entry
      /\ elapsed \in Nat /\ seconds \in Nat /\ given \in Nat /\ capped \in Nat /\ repeated \in Nat
      /\ reports \in Nat /\ \A e \in UnderWay : e.number <= reports
      /\ retry \in Seq(Entry) /\ flush.left \in Seq(Entry) /\ posts \subseteq Entry
  BY DEF SecondsInv, ReadingInv, PageTyped, Followed, Apart, Accounted
<1>2. UnderWay \cup {} = UnderWay /\ UnderWay \cap {} = {}
  OBVIOUS
<1>3. Outstanding(UnderWay, handled) \in Nat
  BY <1>1, <1>2, BothOutstanding
<1> QED BY <1>1, <1>3

\* Entries are given up, or taken along by a report that carries the seconds on the clock.
LEMMA SaveAccounts ==
    ASSUME SecondsInv, NEW position \in R!Positions, NEW others \in SUBSET UnderWay,
           R!SaveAtPage(position, others), reader'.secs = 0, UNCHANGED <<handled, elapsed, repeated, seconds>>,
           UnderWay' = (UnderWay \ others) \cup (posts' \ posts),
           retry' \in {retry, <<>>}, flush'.left \in {flush.left, <<>>}
    PROVE  Apart' /\ Accounted'
<1> DEFINE rest == UnderWay \ others
           entry == [number |-> reports + 1, chapter |-> position.chapter, page |-> position.page,
                     complete |-> position.page >= Pages, secs |-> R!Reported, done |-> FALSE]
           T(set) == Outstanding(set, handled)
<1>1. /\ reader.secs \in Nat /\ reports \in Nat /\ IsFiniteSet(UnderWay) /\ UnderWay \subseteq Entry
      /\ elapsed \in Nat /\ seconds \in Nat /\ given \in Nat /\ capped \in Nat /\ repeated \in Nat
      /\ \A e \in UnderWay : e.number <= reports
      /\ elapsed + repeated = seconds + given + capped + reader.secs + T(UnderWay)
  BY SecondsTypes DEF SecondsInv, Accounted
<1>2. /\ entry \in Entry /\ entry.number = reports + 1 /\ entry.secs = R!Reported
      /\ entry \notin UnderWay /\ entry.number \notin handled
  <2>1. entry \in Entry /\ entry.number = reports + 1 /\ entry.secs = R!Reported
    BY <1>1, ReportedIs DEF Entry, R!Positions
  <2>2. handled \subseteq 1..reports
    BY DEF SecondsInv, ReadingInv, Followed
  <2> HIDE DEF entry
  <2> QED BY <1>1, <2>1, <2>2
<1>3. /\ IsFiniteSet(rest) /\ IsFiniteSet(others) /\ rest \subseteq Entry /\ others \subseteq Entry
      /\ T(UnderWay) = T(others) + T(rest) /\ T(others) \in Nat /\ T(rest) \in Nat
  <2>1. UnderWay = others \cup rest /\ others \cap rest = {}
    OBVIOUS
  <2>2. IsFiniteSet(rest) /\ IsFiniteSet(others)
    BY <1>1, FS_Subset
  <2>3. IsFiniteSet(UnderWay) /\ UnderWay \subseteq Entry
    BY <1>1
  <2> HIDE DEF rest
  <2>4. /\ Outstanding(UnderWay, handled) = Outstanding(others, handled) + Outstanding(rest, handled)
        /\ Outstanding(others, handled) \in Nat /\ Outstanding(rest, handled) \in Nat
    BY ONLY <2>1, <2>3, Apportioned
  <2> QED BY <1>1, <2>1, <2>2, <2>4
<1>4. \/ /\ ~R!Informs(position) /\ reader.secs = 0 /\ capped' = capped
         /\ posts' = posts /\ given' = given + T(others)
      \/ /\ capped' = capped + (reader.secs - R!Reported)
         /\ \/ posts' = posts \cup {entry} /\ given' = given + T(others \cup {})
            \/ posts' = posts /\ given' = given + T(others \cup {entry})
  <2>1. CASE R!Informs(position)
    <3>1. posts' = (IF trace THEN posts \cup {entry} ELSE posts)
          /\ given' = given + R!Total(others \cup IF trace THEN {} ELSE {entry})
          /\ capped' = capped + (reader.secs - R!Reported)
      BY <2>1 DEF R!SaveAtPage, R!GiveUp
    <3> HIDE DEF entry
    <3> QED BY <3>1, TotalIsSum
  <2>2. CASE ~R!Informs(position)
    <3>1. posts' = posts /\ given' = given + R!Total(others) /\ capped' = capped
      BY <2>2 DEF R!SaveAtPage, R!GiveUp
    <3>2. reader.secs = 0
      BY <1>1, <2>2 DEF R!Informs
    <3> QED BY <2>2, <3>1, <3>2, TotalIsSum
  <2> QED BY <2>1, <2>2
<1> HIDE DEF entry
<1>5. T(others \cup {entry}) = T(others) + R!Reported
  <2>1. IsFiniteSet(others \cup {entry}) /\ others \cup {entry} \subseteq Entry /\ others \cap {entry} = {}
    BY <1>2, <1>3, FS_AddElement
  <2>2. T({entry}) = R!Reported
    BY <1>2, NoneOutstanding
  <2>3. T(others \cup {entry}) = T(others) + T({entry})
    BY <2>1, BothOutstanding
  <2> QED BY <2>2, <2>3
<1>6. T(rest \cup {entry}) = T(rest) + R!Reported
  <2>1. IsFiniteSet(rest \cup {entry}) /\ rest \cup {entry} \subseteq Entry /\ rest \cap {entry} = {}
    <3>1. entry \notin rest
      BY <1>2
    <3> HIDE DEF rest
    <3> QED BY <1>2, <1>3, <3>1, FS_AddElement
  <2>2. T({entry}) = R!Reported
    BY <1>2, NoneOutstanding
  <2>3. T(rest \cup {entry}) = T(rest) + T({entry})
    BY <2>1, BothOutstanding
  <2> QED BY <2>2, <2>3
<1>7. /\ capped' = capped + (reader.secs - R!Reported)
      /\ \/ UnderWay' = rest /\ posts' = posts /\ given' = given + (T(others) + R!Reported)
         \/ UnderWay' = rest \cup {entry} /\ posts' = posts \cup {entry} /\ given' = given + T(others)
  <2>1. posts \subseteq UnderWay
    BY DEF UnderWay
  <2>2. others \cup {} = others
    OBVIOUS
  <2>3. posts' = posts \cup {entry} => posts' \ posts = {entry}
    BY <1>2, <2>1
  <2>4. reader.secs = 0 =>
           T(others) + R!Reported = T(others) /\ capped + (reader.secs - R!Reported) = capped
    BY <1>1, <1>3, ReportedIs
  <2> HIDE DEF T
  <2> QED BY <1>4, <1>5, <2>2, <2>3, <2>4
<1>8. Accounted'
  <2> DEFINE o == T(others)
             t == T(rest)
             u == Outstanding(UnderWay', handled')
  <2>1. \/ u = t /\ given' = given + (o + R!Reported)
        \/ u = t + R!Reported /\ given' = given + o
    BY <1>6, <1>7
  <2>2. elapsed + repeated = seconds + given + capped + reader.secs + (o + t) /\ o \in Nat /\ t \in Nat
    BY <1>1, <1>3
  <2>3. elapsed' = elapsed /\ repeated' = repeated /\ seconds' = seconds /\ reader'.secs = 0
    OBVIOUS
  <2> HIDE DEF o, t, u
  <2>4. u \in Nat /\ given' \in Nat /\ capped' \in Nat /\ elapsed + repeated = seconds + given' + capped' + 0 + u
    <3> DEFINE n == R!Reported
               over == reader.secs - R!Reported
               g == given'
               k == capped'
    <3>1. /\ n \in Nat /\ over \in Nat /\ k = capped + over
          /\ (u = t /\ g = given + (o + n)) \/ (u = t + n /\ g = given + o)
          /\ elapsed + repeated = seconds + given + capped + (n + over) + (o + t)
      <4>1. n \in Nat /\ over \in Nat /\ reader.secs = n + over
        BY <1>1, ReportedIs
      <4>2. k = capped + over
        BY <1>7
      <4> QED BY ONLY <2>1, <2>2, <4>1, <4>2 DEF n, g
    <3>2. given \in Nat /\ capped \in Nat /\ seconds \in Nat /\ elapsed \in Nat /\ repeated \in Nat
      BY <1>1
    <3> HIDE DEF n, over, g, k
    <3>3. u \in Nat /\ g \in Nat /\ k \in Nat
      BY <2>2, <3>1, <3>2
    <3>4. elapsed + repeated = seconds + g + k + u
      BY <2>2, <3>1, <3>2, <3>3
    <3>5. elapsed + repeated = seconds + g + k + 0 + u
      BY <3>2, <3>3, <3>4
    <3> QED BY <3>3, <3>5 DEF g, k
  <2>5. elapsed' + repeated' = seconds' + given' + capped' + reader'.secs + Outstanding(UnderWay', handled')
    BY <2>3, <2>4 DEF u
  <2>6. elapsed' \in Nat /\ seconds' \in Nat /\ given' \in Nat /\ capped' \in Nat /\ repeated' \in Nat
    BY <1>1, <2>3, <2>4
  <2> QED BY <2>5, <2>6 DEF Accounted
<1>9. Apart'
  <2>1. IsFiniteSet(UnderWay')
    BY <1>3, <1>7, FS_AddElement
  <2>2. \A e, d \in UnderWay' : e.number = d.number => e = d
    <3>1. \A e \in rest : e.number # entry.number
      BY <1>1, <1>2
    <3>2. \A e, d \in rest : e.number = d.number => e = d
      BY DEF SecondsInv, Apart
    <3> QED BY <1>7, <3>1, <3>2
  <2>3. /\ R!Range(retry') \subseteq R!Range(retry) /\ R!Range(flush'.left) \subseteq R!Range(flush.left)
        /\ R!Range(retry) \subseteq UnderWay /\ R!Range(flush.left) \subseteq UnderWay
    BY Waiting, SecondsTypes DEF UnderWay
  <2>4. Once(retry') /\ Once(flush'.left)
    BY DEF SecondsInv, Apart, Once
  <2>5. /\ posts' \cap R!Range(retry') = {} /\ posts' \cap R!Range(flush'.left) = {}
        /\ R!Range(retry') \cap R!Range(flush'.left) = {}
    BY <1>2, <1>7, <2>3 DEF SecondsInv, Apart
  <2> QED BY <2>1, <2>2, <2>4, <2>5 DEF Apart
<1> QED BY <1>8, <1>9

\* Without its saver the page gives up the seconds on the clock.
LEMMA GiveUpAccounts ==
    ASSUME SecondsInv, NEW others \in SUBSET UnderWay, reader'.secs = 0, posts' = posts,
           given' = given + R!Total(others) + reader.secs, UNCHANGED <<handled, elapsed, repeated, seconds, capped>>,
           UnderWay' = UnderWay \ others, retry' \in {retry, <<>>}, flush' = flush
    PROVE  Apart' /\ Accounted'
<1> DEFINE o == Outstanding(others, handled)
           t == Outstanding(UnderWay \ others, handled)
<1>1. /\ reader.secs \in Nat /\ IsFiniteSet(UnderWay) /\ UnderWay \subseteq Entry
      /\ elapsed \in Nat /\ seconds \in Nat /\ given \in Nat /\ capped \in Nat /\ repeated \in Nat
      /\ elapsed + repeated = seconds + given + capped + reader.secs + Outstanding(UnderWay, handled)
  BY SecondsTypes DEF SecondsInv, Accounted
<1>2. /\ Outstanding(UnderWay, handled) = o + t /\ o \in Nat /\ t \in Nat
  <2> DEFINE rest == UnderWay \ others
  <2>1. UnderWay = others \cup rest /\ others \cap rest = {}
    OBVIOUS
  <2>2. IsFiniteSet(UnderWay) /\ UnderWay \subseteq Entry
    BY <1>1
  <2> HIDE DEF rest
  <2>3. /\ Outstanding(UnderWay, handled) = Outstanding(others, handled) + Outstanding(rest, handled)
        /\ Outstanding(others, handled) \in Nat /\ Outstanding(rest, handled) \in Nat
    BY ONLY <2>1, <2>2, Apportioned
  <2> QED BY <2>3 DEF rest
<1>3. given' = given + o + reader.secs /\ Outstanding(UnderWay', handled') = t
  BY TotalIsSum
<1> HIDE DEF o, t
<1>4. given' \in Nat /\ elapsed + repeated = seconds + given' + capped + 0 + t
  <2> DEFINE n == reader.secs
             g == given'
  <2>1. /\ n \in Nat /\ o \in Nat /\ t \in Nat /\ g = given + o + n
        /\ elapsed + repeated = seconds + given + capped + n + (o + t)
    BY <1>1, <1>2, <1>3
  <2>2. /\ elapsed \in Nat /\ seconds \in Nat /\ given \in Nat /\ capped \in Nat /\ repeated \in Nat
    BY <1>1
  <2> HIDE DEF n, g
  <2>3. g \in Nat /\ elapsed + repeated = seconds + g + capped + 0 + t
    BY <2>1, <2>2
  <2> QED BY <2>3 DEF g
<1>5. Accounted'
  BY <1>1, <1>3, <1>4 DEF Accounted
<1>6. IsFiniteSet(UnderWay')
  BY <1>1, FS_Subset
<1>7. R!Range(retry') \subseteq R!Range(retry) /\ Once(retry')
  BY Waiting, SecondsTypes DEF SecondsInv, Apart, Once
<1>8. Apart'
  BY <1>6, <1>7 DEF SecondsInv, Apart
<1> QED BY <1>5, <1>8

\* The saver of the page is run, and what waits goes with the page or stays.
LEMMA SaverAccounts ==
    ASSUME SecondsInv, reader.chapter # None, NEW others, R!RunSaver(others), reader'.secs = 0,
           UNCHANGED <<handled, elapsed, repeated, seconds, flush>>,
           \/ others = {} /\ retry' = retry
           \/ others = R!Range(retry) /\ retry' = <<>>
    PROVE  Apart' /\ Accounted'
<1>1. R!Here \in R!Positions /\ others \in SUBSET UnderWay /\ R!Range(<<>>) = {}
  BY DEF SecondsInv, ReadingInv, PageTyped, R!Here, R!Positions, UnderWay, R!Range
<1>2. /\ posts \cap R!Range(retry) = {} /\ posts \cap R!Range(flush.left) = {}
      /\ R!Range(retry) \cap R!Range(flush.left) = {}
  BY DEF SecondsInv, Apart
<1>3. posts \subseteq posts' => UnderWay' = (UnderWay \ others) \cup (posts' \ posts)
  BY <1>1, <1>2 DEF UnderWay
<1>4. retry' \in {retry, <<>>} /\ flush'.left \in {flush.left, <<>>}
  OBVIOUS
<1>5. CASE reader.armed
  <2>1. R!SaveAtPage(R!Here, others)
    BY <1>5 DEF R!RunSaver
  <2>2. posts \subseteq posts'
    BY <1>1, <2>1, SavedPosts DEF SecondsInv
  <2> QED BY <1>1, <1>3, <1>4, <2>1, <2>2, SaveAccounts
<1>6. CASE ~reader.armed
  <2>1. posts' = posts /\ given' = given + R!Total(others) + reader.secs /\ capped' = capped
    BY <1>6 DEF R!RunSaver
  <2>2. UnderWay' = UnderWay \ others
    BY <1>3, <2>1
  <2> QED BY <1>1, <1>4, <2>1, <2>2, GiveUpAccounts
<1> QED BY <1>5, <1>6

LEMMA TurnAccounts == ASSUME SecondsInv, NEW page \in 1..Pages, R!Turn(page) PROVE Apart' /\ Accounted'
<1> DEFINE there == [chapter |-> reader.chapter, page |-> page]
<1>1. /\ R!SaveAtPage(there, {}) /\ reader.chapter # None
      /\ reader' = [reader EXCEPT !.page = page, !.secs = 0, !.last = there]
      /\ UNCHANGED <<retry, flush, handled, elapsed, repeated, seconds>>
  BY DEF R!Turn, R!KeepDaemon
<1>2. there \in R!Positions
  BY <1>1, RecordsAssumption DEF SecondsInv, ReadingInv, PageTyped, R!Positions, R!ReadingAssumption
<1> HIDE DEF there
<1>3. reader'.secs = 0
  BY <1>1 DEF SecondsInv, ReadingInv, PageTyped
<1>4. posts \subseteq posts'
  BY <1>1, <1>2, SavedPosts DEF SecondsInv
<1>5. UnderWay' = (UnderWay \ {}) \cup (posts' \ posts) /\ {} \in SUBSET UnderWay
  BY <1>1, <1>4 DEF UnderWay
<1>6. retry' \in {retry, <<>>} /\ flush'.left \in {flush.left, <<>>}
  BY <1>1
<1> QED BY <1>1, <1>2, <1>3, <1>5, <1>6, SaveAccounts

LEMMA SwitchAccounts == ASSUME SecondsInv, NEW c \in Chapters, R!Switch(c) PROVE Apart' /\ Accounted'
<1>1. /\ reader.chapter # None /\ R!RunSaver({}) /\ reader'.secs = 0 /\ retry' = retry
      /\ UNCHANGED <<handled, elapsed, repeated, seconds, flush>>
  BY DEF R!Switch, R!KeepDaemon, SecondsInv, ReadingInv, PageTyped
<1> QED BY <1>1, SaverAccounts

LEMMA LeaveAccounts == ASSUME SecondsInv, R!Leave PROVE Apart' /\ Accounted'
<1>1. /\ reader.chapter # None /\ R!RunSaver(R!Range(retry)) /\ reader'.secs = 0 /\ retry' = <<>>
      /\ UNCHANGED <<handled, elapsed, repeated, seconds, flush>>
  BY DEF R!Leave, R!KeepDaemon, R!Closed
<1> QED BY <1>1, SaverAccounts

\* Nothing is reported: the clock goes on, or not.
LEMMA RestAccounts ==
    ASSUME SecondsInv, UNCHANGED <<handled, seconds, given, capped, repeated, posts, retry>>, flush'.left = flush.left,
           \/ elapsed' = elapsed /\ reader'.secs = reader.secs
           \/ elapsed' = elapsed + 1 /\ reader'.secs = reader.secs + 1,
           reader'.chapter = None => reader'.secs = 0
    PROVE  Apart' /\ Accounted'
<1>1. UnderWay' = UnderWay
  BY DEF UnderWay
<1>2. Apart'
  BY <1>1 DEF SecondsInv, Apart
<1> DEFINE u == Outstanding(UnderWay, handled)
<1>3. /\ elapsed \in Nat /\ seconds \in Nat /\ given \in Nat /\ capped \in Nat /\ repeated \in Nat
      /\ reader.secs \in Nat /\ u \in Nat /\ elapsed + repeated = seconds + given + capped + reader.secs + u
  BY SecondsTypes DEF SecondsInv, Accounted
<1>4. Outstanding(UnderWay', handled') = u
  BY <1>1
<1> HIDE DEF u
<1>5. elapsed' \in Nat /\ elapsed' + repeated = seconds + given + capped + reader'.secs + u
  <2>1. CASE elapsed' = elapsed /\ reader'.secs = reader.secs
    BY <1>3, <2>1
  <2>2. CASE elapsed' = elapsed + 1 /\ reader'.secs = reader.secs + 1
    <3> DEFINE n == reader.secs
    <3>1. n \in Nat /\ elapsed + repeated = seconds + given + capped + n + u /\ reader'.secs = n + 1
      BY <1>3, <2>2
    <3> HIDE DEF n
    <3>2. (elapsed + 1) + repeated = seconds + given + capped + (n + 1) + u /\ elapsed + 1 \in Nat
      BY <1>3, <3>1
    <3> QED BY <2>2, <3>1, <3>2
  <2> QED BY <2>1, <2>2
<1>6. Accounted'
  BY <1>3, <1>4, <1>5 DEF Accounted
<1> QED BY <1>2, <1>6

LEMMA AsideAccounts ==
    ASSUME SecondsInv,
           \/ R!LearnIncognito \/ R!Second \/ R!SetIncognito
           \/ \E c \in Chapters : \/ R!DeleteHistoryEvent(c) \/ R!Open(c)
                                  \/ \E value \in BOOLEAN : R!SetChapterRead(c, value)
    PROVE  Apart' /\ Accounted'
<1>1. UNCHANGED <<handled, seconds, given, capped, repeated, posts, retry, flush>>
  BY DEF R!LearnIncognito, R!Second, R!SetIncognito, R!DeleteHistoryEvent, R!SetChapterRead, R!Open,
         R!KeepDaemon, R!KeepPage
<1>2. CASE \/ R!LearnIncognito \/ R!SetIncognito
           \/ \E c \in Chapters : R!DeleteHistoryEvent(c) \/ \E value \in BOOLEAN : R!SetChapterRead(c, value)
  <2>1. elapsed' = elapsed /\ reader' = reader
    BY <1>2 DEF R!LearnIncognito, R!SetIncognito, R!DeleteHistoryEvent, R!SetChapterRead, R!KeepPage
  <2> QED BY <1>1, <2>1, RestAccounts DEF SecondsInv, Apart
<1>3. CASE R!Second
  <2>1. /\ reader.chapter # None /\ elapsed' = elapsed + 1
        /\ reader'.secs = reader.secs + 1 /\ reader'.chapter = reader.chapter
    BY <1>3 DEF R!Second, SecondsInv, ReadingInv, PageTyped
  <2> QED BY <1>1, <2>1, RestAccounts
<1>4. CASE \E c \in Chapters : R!Open(c)
  <2>1. reader.secs = 0 /\ reader'.secs = 0 /\ elapsed' = elapsed
    BY <1>4 DEF R!Open, R!Closed, SecondsInv, Apart
  <2> QED BY <1>1, <2>1, RestAccounts
<1> QED BY <1>2, <1>3, <1>4

LEMMA FlushSaveAccounts == ASSUME SecondsInv, R!FlushSave PROVE Apart' /\ Accounted'
<1>1. /\ flush'.left = <<>> /\ flush.left = <<>>
      /\ UNCHANGED <<retry, handled, elapsed, repeated, seconds>>
  BY DEF R!FlushSave, R!KeepDaemon, R!NoFlush
<1>2. CASE reader.armed /\ reader.chapter # None
  <2>1. /\ R!SaveAtPage(R!Here, {})
        /\ reader' = [reader EXCEPT !.secs = 0, !.last = R!Here, !.armed = FALSE]
    BY <1>2 DEF R!FlushSave
  <2>2. R!Here \in R!Positions /\ reader'.secs = 0
    BY <1>2, <2>1 DEF SecondsInv, ReadingInv, PageTyped, R!Here, R!Positions
  <2>3. posts \subseteq posts'
    BY <2>1, <2>2, SavedPosts DEF SecondsInv
  <2>4. UnderWay' = (UnderWay \ {}) \cup (posts' \ posts) /\ {} \in SUBSET UnderWay
    BY <1>1, <2>3 DEF UnderWay
  <2>5. retry' \in {retry, <<>>} /\ flush'.left \in {flush.left, <<>>}
    BY <1>1
  <2> QED BY <1>1, <2>1, <2>2, <2>4, <2>5, SaveAccounts
<1>3. CASE ~reader.armed
  <2>1. UNCHANGED <<reader, posts, given, capped>>
    BY <1>3 DEF R!FlushSave
  <2> QED BY <1>1, <2>1, RestAccounts DEF SecondsInv, Apart
<1>4. reader.armed => reader.chapter # None
  BY DEF SecondsInv, ReadingInv, PageTyped
<1> QED BY <1>2, <1>3, <1>4

\* What waits is taken up by a flush, and sent.
LEMMA FlushAccounts == ASSUME SecondsInv, R!Flush \/ R!FlushNext PROVE Apart' /\ Accounted'
<1>1. UNCHANGED <<reader, handled, seconds, given, capped, repeated, elapsed>>
  BY DEF R!Flush, R!FlushNext, R!KeepPage, R!KeepDaemon
<1>2. R!Range(<<>>) = {} /\ Once(<<>>) /\ retry \in Seq(Entry) /\ flush.left \in Seq(Entry)
  BY SecondsTypes DEF R!Range, Once
<1>3. /\ posts \cap R!Range(retry) = {} /\ posts \cap R!Range(flush.left) = {}
      /\ R!Range(retry) \cap R!Range(flush.left) = {}
      /\ Once(retry) /\ Once(flush.left)
  BY DEF SecondsInv, Apart
<1>4. /\ UnderWay' = UnderWay
      /\ posts' \cap R!Range(retry') = {} /\ posts' \cap R!Range(flush'.left) = {}
      /\ R!Range(retry') \cap R!Range(flush'.left) = {}
      /\ Once(retry') /\ Once(flush'.left)
  <2>1. CASE R!Flush
    <3>1. flush.left = <<>> /\ flush'.left = retry /\ retry' = <<>> /\ posts' = posts
      BY <2>1 DEF R!Flush, R!NoFlush
    <3> QED BY <1>2, <1>3, <3>1 DEF UnderWay
  <2>2. CASE R!FlushNext
    <3> DEFINE p == Head(flush.left)
               rest == Tail(flush.left)
    <3>1. flush.left # <<>> /\ posts' = posts \cup {p} /\ retry' = retry /\ flush'.left = rest
      BY <2>2 DEF R!FlushNext
    <3>2. R!Range(flush.left) = {p} \cup R!Range(rest)
      BY <1>2, <3>1, Waiting
    <3>3. Once(rest) /\ p \notin R!Range(rest)
      BY <1>2, <1>3, <3>1, OnceGrows
    <3> HIDE DEF p, rest
    <3> QED BY <1>3, <3>1, <3>2, <3>3 DEF UnderWay
  <2> QED BY <2>1, <2>2
<1>5. Apart'
  BY <1>1, <1>4 DEF SecondsInv, Apart
<1>6. Accounted'
  BY <1>1, <1>4 DEF SecondsInv, Accounted
<1> QED BY <1>5, <1>6

\* A request that is over leaves what was under way.
LEMMA OverLeaves ==
    ASSUME SecondsInv, NEW p \in posts
    PROVE  /\ p \in UnderWay /\ p \in Entry /\ IsFiniteSet(UnderWay \ {p}) /\ UnderWay \ {p} \subseteq Entry
           /\ UnderWay \ {p} = (posts \ {p}) \cup R!Range(retry) \cup R!Range(flush.left)
           /\ \A e \in UnderWay \ {p} : e.number # p.number
           /\ \A heard : /\ Outstanding(UnderWay, heard)
                              = Outstanding(UnderWay \ {p}, heard) + Outstanding({p}, heard)
                         /\ Outstanding(UnderWay \ {p}, heard) \in Nat /\ Outstanding({p}, heard) \in Nat
<1>1. IsFiniteSet(UnderWay) /\ UnderWay \subseteq Entry
  BY SecondsTypes
<1>2. p \in UnderWay /\ UnderWay \ {p} = (posts \ {p}) \cup R!Range(retry) \cup R!Range(flush.left)
  BY DEF SecondsInv, Apart, UnderWay
<1>3. IsFiniteSet(UnderWay \ {p})
  BY <1>1, FS_Subset
<1>4. \A e \in UnderWay \ {p} : e.number # p.number
  BY <1>2 DEF SecondsInv, Apart
<1>5. ASSUME NEW heard
      PROVE  /\ Outstanding(UnderWay, heard) = Outstanding(UnderWay \ {p}, heard) + Outstanding({p}, heard)
             /\ Outstanding(UnderWay \ {p}, heard) \in Nat /\ Outstanding({p}, heard) \in Nat
  <2> DEFINE rest == UnderWay \ {p}
  <2>1. UnderWay = rest \cup {p} /\ rest \cap {p} = {}
    BY <1>2
  <2> HIDE DEF rest
  <2>2. /\ Outstanding(UnderWay, heard) = Outstanding(rest, heard) + Outstanding({p}, heard)
        /\ Outstanding(rest, heard) \in Nat /\ Outstanding({p}, heard) \in Nat
    BY ONLY <1>1, <2>1, Apportioned
  <2> QED BY <2>2 DEF rest
<1> QED BY <1>1, <1>2, <1>3, <1>4, <1>5

LEMMA AnswerAccounts == ASSUME SecondsInv, NEW p \in posts, R!Answer(p) PROVE Apart' /\ Accounted'
<1>1. /\ p.done /\ R!Over(p)
      /\ UNCHANGED <<reader, handled, seconds, given, capped, repeated, elapsed, retry>>
  BY DEF R!Answer, R!KeepPage, R!KeepDaemon
<1>2. posts' = posts \ {p} /\ flush'.left = flush.left
  BY <1>1, OverFlush DEF SecondsInv, ReadingInv
<1>3. UnderWay' = UnderWay \ {p}
  BY <1>1, <1>2, OverLeaves DEF UnderWay
<1>4. p.number \in handled
  BY <1>1 DEF SecondsInv, ReadingInv, Followed, UnderWay
<1>5. Outstanding(UnderWay \ {p}, handled) = Outstanding(UnderWay, handled)
  BY <1>4, HeardIsNothing
<1>6. IsFiniteSet(UnderWay \ {p})
  BY OverLeaves
<1>7. Apart'
  BY <1>1, <1>2, <1>3, <1>6 DEF SecondsInv, Apart
<1>8. Accounted'
  BY <1>1, <1>3, <1>5 DEF SecondsInv, Accounted
<1> QED BY <1>7, <1>8

\* A request that failed is queued again: it counts as it did.
Again(p) == [p EXCEPT !.done = FALSE]
Queued(p) == Append(retry, Again(p))
Back(p) == (UnderWay \ {p}) \cup {Again(p)}

LEMMA QueuedAgain ==
    ASSUME SecondsInv, NEW p \in posts
    PROVE  /\ Again(p) \in Entry /\ Queued(p) \in Seq(Entry) /\ Queued(p) # <<>> /\ Once(Queued(p))
           /\ Back(p) = (posts \ {p}) \cup R!Range(Queued(p)) \cup R!Range(flush.left)
           /\ IsFiniteSet(Back(p)) /\ Back(p) \subseteq Entry
           /\ \A e, d \in Back(p) : e.number = d.number => e = d
           /\ (posts \ {p}) \cap R!Range(Queued(p)) = {} /\ R!Range(Queued(p)) \cap R!Range(flush.left) = {}
           /\ Outstanding(Back(p), handled) = Outstanding(UnderWay, handled)
<1> DEFINE again == Again(p)
           queued == Queued(p)
           back == Back(p)
<1>0. again = [p EXCEPT !.done = FALSE] /\ queued = Append(retry, again)
  BY DEF Again, Queued
<1>1. /\ p \in UnderWay /\ p \in Entry /\ IsFiniteSet(UnderWay \ {p}) /\ UnderWay \ {p} \subseteq Entry
      /\ UnderWay \ {p} = (posts \ {p}) \cup R!Range(retry) \cup R!Range(flush.left)
      /\ \A e \in UnderWay \ {p} : e.number # p.number
  BY OverLeaves
<1>2. again \in Entry /\ again.number = p.number /\ again.secs = p.secs /\ retry \in Seq(Entry)
  BY <1>0, <1>1, SecondsTypes DEF Entry
<1>3. again \notin UnderWay \ {p}
  BY <1>1, <1>2
<1>4. queued \in Seq(Entry) /\ queued # <<>> /\ R!Range(queued) = R!Range(retry) \cup {again}
  BY <1>0, <1>2, Waiting
<1>5. /\ Once(retry) /\ again \notin R!Range(retry) /\ again \notin R!Range(flush.left)
      /\ posts \cap R!Range(retry) = {} /\ R!Range(retry) \cap R!Range(flush.left) = {}
  BY <1>1, <1>3 DEF SecondsInv, Apart
<1>6. Once(queued)
  BY <1>0, <1>2, <1>5, OnceGrows
<1> DEFINE rest == UnderWay \ {p}
<1> HIDE DEF again, queued
<1>6a. back = (UnderWay \ {p}) \cup {again}
  BY DEF Back, again
<1> HIDE DEF back
<1>7. back = (posts \ {p}) \cup R!Range(queued) \cup R!Range(flush.left)
  BY <1>1, <1>4, <1>6a
<1>8. again \notin posts \ {p}
  BY <1>1, <1>3
<1>9. (posts \ {p}) \cap R!Range(queued) = {} /\ R!Range(queued) \cap R!Range(flush.left) = {}
  BY <1>4, <1>5, <1>8
<1>10. \A e, d \in rest : e.number = d.number => e = d
  BY DEF SecondsInv, Apart
<1>11. IsFiniteSet(rest) /\ rest \subseteq Entry /\ again \notin rest /\ \A e \in rest : e.number # p.number
  BY <1>1, <1>3
<1>12. Outstanding(UnderWay, handled) = Outstanding(rest, handled) + Outstanding({p}, handled)
  BY OverLeaves
<1> HIDE DEF rest
<1>12a. back = rest \cup {again}
  BY <1>6a DEF rest
<1>13. \A e, d \in back : e.number = d.number => e = d
  BY <1>2, <1>10, <1>11, <1>12a
<1>14. IsFiniteSet(back) /\ back \subseteq Entry
  <2>1. IsFiniteSet(rest \cup {again})
    BY <1>11, FS_AddElement
  <2> QED BY <1>2, <1>11, <1>12a, <2>1
<1>15. back = rest \cup {again} /\ rest \cap {again} = {}
  BY <1>11, <1>12a
<1>16. /\ Outstanding(back, handled) = Outstanding(rest, handled) + Outstanding({again}, handled)
       /\ Outstanding(rest, handled) \in Nat /\ Outstanding({again}, handled) \in Nat
  BY ONLY <1>14, <1>15, Apportioned
<1>17. Outstanding({again}, handled) = Outstanding({p}, handled)
  BY <1>1, <1>2, NoneOutstanding
<1> QED BY <1>2, <1>4, <1>6, <1>7, <1>9, <1>12, <1>13, <1>14, <1>16, <1>17 DEF rest, again, queued, back

\* What was outstanding and is given up is accounted for.
LEMMA GivenUp ==
    ASSUME elapsed \in Nat, seconds \in Nat, given \in Nat, capped \in Nat, repeated \in Nat,
           reader.secs \in Nat,
           NEW rest \in Nat, NEW over \in Nat,
           elapsed + repeated = seconds + given + capped + reader.secs + (rest + over),
           given' = given + over, Outstanding(UnderWay', handled') = rest,
           UNCHANGED <<reader, seconds, capped, repeated, elapsed>>
    PROVE  Accounted'
<1> DEFINE n == reader.secs
<1>1. n \in Nat /\ elapsed + repeated = seconds + given + capped + n + (rest + over) /\ reader'.secs = n
  OBVIOUS
<1> HIDE DEF n
<1>2. given + over \in Nat /\ elapsed + repeated = seconds + (given + over) + capped + n + rest
  BY <1>1
<1> QED BY <1>1, <1>2 DEF Accounted

\* A request or its answer is lost: it waits, or one is given up.
LEMMA FailAccounts == ASSUME SecondsInv, NEW p \in posts, R!Fail(p) PROVE Apart' /\ Accounted'
<1> DEFINE again == Again(p)
           queued == Queued(p)
           back == Back(p)
<1>1. /\ R!Over(p) /\ UNCHANGED <<reader, handled, seconds, capped, repeated, elapsed>>
      /\ \/ given' = given + R!Total({p}) /\ retry' = retry
         \/ given' = given + R!Total({Head(queued)}) /\ retry' = Tail(queued)
         \/ given' = given /\ retry' = queued
  BY DEF R!Fail, R!GiveUp, R!KeepPage, R!KeepDaemon, Again, Queued
<1>2. posts' = posts \ {p} /\ flush'.left = flush.left
  BY <1>1, OverFlush DEF SecondsInv, ReadingInv
<1>3. /\ again \in Entry /\ queued \in Seq(Entry) /\ queued # <<>> /\ Once(queued)
      /\ back = (posts \ {p}) \cup R!Range(queued) \cup R!Range(flush.left)
      /\ IsFiniteSet(back) /\ back \subseteq Entry
      /\ \A e, d \in back : e.number = d.number => e = d
      /\ (posts \ {p}) \cap R!Range(queued) = {} /\ R!Range(queued) \cap R!Range(flush.left) = {}
      /\ Outstanding(back, handled) = Outstanding(UnderWay, handled)
  BY QueuedAgain
<1>4. /\ elapsed \in Nat /\ seconds \in Nat /\ given \in Nat /\ capped \in Nat /\ repeated \in Nat /\ reader.secs \in Nat
      /\ elapsed + repeated = seconds + given + capped + reader.secs + Outstanding(UnderWay, handled)
  BY SecondsTypes DEF SecondsInv, Accounted
<1>5. /\ posts \cap R!Range(retry) = {} /\ posts \cap R!Range(flush.left) = {}
      /\ R!Range(retry) \cap R!Range(flush.left) = {}
      /\ Once(retry) /\ Once(flush.left) /\ (reader.chapter = None => reader.secs = 0)
  BY DEF SecondsInv, Apart
<1> HIDE DEF back, queued, again
<1>6. CASE given' = given + R!Total({p}) /\ retry' = retry
  <2>1. UnderWay' = UnderWay \ {p} /\ IsFiniteSet(UnderWay \ {p})
    BY <1>2, <1>6, OverLeaves DEF UnderWay
  <2>2. /\ Outstanding(UnderWay, handled) = Outstanding(UnderWay \ {p}, handled) + Outstanding({p}, handled)
        /\ Outstanding(UnderWay \ {p}, handled) \in Nat /\ Outstanding({p}, handled) \in Nat
    BY OverLeaves
  <2>3. given' = given + Outstanding({p}, handled)
    BY <1>6, TotalIsSum
  <2>4. Accounted'
    <3>1. Outstanding(UnderWay', handled') = Outstanding(UnderWay \ {p}, handled)
      BY <1>1, <2>1
    <3>2. UNCHANGED <<reader, seconds, capped, repeated, elapsed>>
      BY <1>1
    <3> QED BY <1>4, <2>2, <2>3, <3>1, <3>2, GivenUp
  <2>5. Apart'
    BY <1>1, <1>2, <1>5, <1>6, <2>1 DEF SecondsInv, Apart
  <2> QED BY <2>4, <2>5
<1>7. CASE given' = given + R!Total({Head(queued)}) /\ retry' = Tail(queued)
  <2> DEFINE x == Head(queued)
             rest == back \ {x}
  <2>1. x \in Entry /\ R!Range(queued) = {x} \cup R!Range(retry')
    BY <1>3, <1>7, Waiting
  <2>2. Once(retry') /\ x \notin R!Range(retry')
    BY <1>3, <1>7, OnceGrows
  <2>3. given' = given + Outstanding({x}, handled)
    BY <1>7, TotalIsSum
  <2> HIDE DEF x
  <2>4. UnderWay' = rest
    BY <1>2, <1>3, <1>5, <2>1, <2>2 DEF UnderWay
  <2>5. back = rest \cup {x} /\ rest \cap {x} = {}
    BY <1>3, <2>1
  <2>6. IsFiniteSet(rest) /\ \A e, d \in rest : e.number = d.number => e = d
    BY <1>3, FS_Subset
  <2> HIDE DEF rest
  <2>7. IsFiniteSet(back) /\ back \subseteq Entry
    BY <1>3
  <2>8. /\ Outstanding(back, handled) = Outstanding(rest, handled) + Outstanding({x}, handled)
        /\ Outstanding(rest, handled) \in Nat /\ Outstanding({x}, handled) \in Nat
    BY ONLY <2>7, <2>5, Apportioned
  <2>9. Accounted'
    <3>1. Outstanding(UnderWay', handled') = Outstanding(rest, handled)
      BY <1>1, <2>4
    <3>2. UNCHANGED <<reader, seconds, capped, repeated, elapsed>>
      BY <1>1
    <3> QED BY <1>3, <1>4, <2>3, <2>8, <3>1, <3>2, GivenUp
  <2>10. Apart'
    BY <1>1, <1>2, <1>3, <1>5, <2>1, <2>2, <2>4, <2>6 DEF Apart
  <2> QED BY <2>9, <2>10
<1>8. CASE given' = given /\ retry' = queued
  <2>1. UnderWay' = back
    BY <1>2, <1>3, <1>8 DEF UnderWay
  <2>2. Accounted'
    <3>1. Outstanding(UnderWay', handled') = Outstanding(UnderWay, handled)
      BY <1>1, <1>3, <2>1
    <3> QED BY <1>1, <1>4, <1>8, <3>1 DEF Accounted
  <2>3. Apart'
    BY <1>1, <1>2, <1>3, <1>5, <1>8, <2>1 DEF Apart
  <2> QED BY <2>2, <2>3
<1> QED BY <1>1, <1>6, <1>7, <1>8

\* A report is handled: recorded, perhaps once more, or given up where no trace is wanted.
LEMMA HandleAccounts == ASSUME SecondsInv, NEW p \in posts, R!Handle(p) PROVE Apart' /\ Accounted'
<1> DEFINE heard == [p EXCEPT !.done = TRUE]
           rest == UnderWay \ {p}
           o == Outstanding(rest, handled)
           w == Outstanding({p}, handled)
<1>1. /\ posts' = (posts \ {p}) \cup {heard} /\ handled' = handled \cup {p.number}
      /\ UNCHANGED <<reader, retry, flush, elapsed, capped>>
      /\ \/ given' = given + R!Total({p}) /\ seconds' = seconds /\ repeated' = repeated
         \/ /\ given' = given /\ seconds' = seconds + p.secs
            /\ repeated' = IF p.number \in handled THEN repeated + p.secs ELSE repeated
  BY DEF R!Handle, R!GiveUp, R!Upsert, R!KeepPage
<1>2. /\ p \in UnderWay /\ p \in Entry /\ IsFiniteSet(rest) /\ rest \subseteq Entry
      /\ rest = (posts \ {p}) \cup R!Range(retry) \cup R!Range(flush.left)
      /\ \A e \in rest : e.number # p.number
      /\ Outstanding(UnderWay, handled) = o + w /\ o \in Nat /\ w \in Nat
  BY OverLeaves
<1>3. heard \in Entry /\ heard.number = p.number /\ p.secs \in Nat
  BY <1>2 DEF Entry
<1>4. \A e, d \in rest : e.number = d.number => e = d
  BY DEF SecondsInv, Apart
<1>5. w = IF p.number \in handled THEN 0 ELSE p.secs
  BY <1>2, NoneOutstanding
<1> HIDE DEF heard, rest
<1>6. UnderWay' = rest \cup {heard}
  BY <1>1, <1>2 DEF UnderWay
<1>7. heard \notin rest /\ heard.number \in handled'
  BY <1>1, <1>2, <1>3
<1>8. Outstanding(UnderWay', handled') = o
  <2>1. Outstanding(rest \cup {heard}, handled') = Outstanding(rest, handled')
    BY <1>7, HeardIsNothing
  <2>2. {e \in rest : e.number \notin handled'} = {e \in rest : e.number \notin handled}
    BY <1>1, <1>2
  <2> QED BY <1>6, <2>1, <2>2 DEF Outstanding
<1>9. /\ elapsed \in Nat /\ seconds \in Nat /\ given \in Nat /\ capped \in Nat /\ repeated \in Nat /\ reader.secs \in Nat
      /\ elapsed + repeated = seconds + given + capped + reader.secs + (o + w)
  BY <1>2, SecondsTypes DEF SecondsInv, Accounted
<1>10. R!Total({p}) = w
  BY TotalIsSum
<1> HIDE DEF o, w
<1>11. /\ seconds' \in Nat /\ given' \in Nat /\ repeated' \in Nat
       /\ elapsed + repeated' = seconds' + given' + capped + reader.secs + o
  <2> DEFINE n == reader.secs
             k == p.secs
  <2>1. n \in Nat /\ k \in Nat /\ elapsed + repeated = seconds + given + capped + n + (o + w)
    BY <1>3, <1>9
  <2>2. \/ given' = given + w /\ seconds' = seconds /\ repeated' = repeated
        \/ given' = given /\ seconds' = seconds + k /\ w = 0 /\ repeated' = repeated + k
        \/ given' = given /\ seconds' = seconds + k /\ w = k /\ repeated' = repeated
    BY <1>1, <1>5, <1>10
  <2> HIDE DEF n, k
  <2>3. CASE given' = given + w /\ seconds' = seconds /\ repeated' = repeated
    BY <1>2, <1>9, <2>1, <2>3 DEF n
  <2>4. CASE given' = given /\ seconds' = seconds + k /\ w = 0 /\ repeated' = repeated + k
    BY <1>2, <1>9, <2>1, <2>4 DEF n
  <2>5. CASE given' = given /\ seconds' = seconds + k /\ w = k /\ repeated' = repeated
    BY <1>2, <1>9, <2>1, <2>5 DEF n
  <2> QED BY <2>2, <2>3, <2>4, <2>5
<1>12. Accounted'
  BY <1>1, <1>8, <1>9, <1>11 DEF Accounted
<1>13. Apart'
  <2>1. IsFiniteSet(UnderWay')
    BY <1>2, <1>6, FS_AddElement
  <2>2. \A e, d \in UnderWay' : e.number = d.number => e = d
    BY <1>2, <1>3, <1>4, <1>6
  <2>3. posts' \cap R!Range(retry) = {} /\ posts' \cap R!Range(flush.left) = {}
    BY <1>1, <1>2, <1>7 DEF SecondsInv, Apart
  <2> QED BY <1>1, <2>1, <2>2, <2>3 DEF SecondsInv, Apart
<1> QED BY <1>12, <1>13

LEMMA SecondsStep == SecondsInv /\ [Next]_vars => SecondsInv'
<1> SUFFICES ASSUME SecondsInv, [Next]_vars PROVE SecondsInv'
  OBVIOUS
<1>1. ReadingInv'
  BY ReadingKept DEF SecondsInv
<1>2. CASE UNCHANGED readingVars
  <2>1. UnderWay' = UnderWay
    BY <1>2 DEF readingVars, UnderWay
  <2>2. Apart' /\ Accounted'
    BY <1>2, <2>1 DEF readingVars, SecondsInv, Apart, Accounted
  <2> QED BY <1>1, <2>2 DEF SecondsInv
<1>3. CASE R!ReadingNext
  <2>1. Apart' /\ Accounted'
    BY <1>3, TurnAccounts, SwitchAccounts, LeaveAccounts, AsideAccounts, FlushAccounts, FlushSaveAccounts,
       AnswerAccounts, FailAccounts, HandleAccounts DEF R!ReadingNext
  <2> QED BY <1>1, <2>1 DEF SecondsInv
<1> QED BY <1>2, <1>3 DEF Next, vars, ChaptersStep, MigrationStep, ReadingStep, SettingsStep

\* No second of reading is lost between the writes nor recorded twice, but for those of a report
\* given up, those above the cap of a report and those of a request made again for want of its
\* answer; and the title is where its reader was: for every number of chapters, pages, reports,
\* seconds and failures, every cap and every retry queue.
THEOREM ReadingRecorded == Spec => []ReadingIsRecorded
<1>1. SecondsInv => R!SecondsKept
  BY AccountedIs DEF SecondsInv
<1>2. (part = "reading" => R!ResumeIsLast) /\ SecondsInv => ReadingIsRecorded
  BY <1>1 DEF ReadingIsRecorded
<1> QED BY <1>2, ResumeKept, SecondsBegin, SecondsStep, PTL DEF Spec

-----------------------------------------------------------------------------
(* The chapters of a title: what a refresh adopts                          *)

Locators == [release : Releases, version : Nat, shape : {"id", "page", "path"}]
Items == [release : Releases, version : Nat]

\* A chapter has the attributes of the release it is linked to; backups name no language.
BackedUp(r) == \E b \in Backups : \E i \in DOMAIN b : b[i].release = r
Described(r) == {Attributes[r]} \cup {a \in {[Attributes[r] EXCEPT !.language = None]} : BackedUp(r)}
Row == [attributes : UNION {Described(r) : r \in Releases}, link : Locators \cup {None}, read : BOOLEAN]
Fits(row) == row.link # None => row.attributes \in Described(row.link.release)
OneEach(list) ==
    \A i, k \in DOMAIN list :
        list[i].link # None /\ list[k].link # None /\ list[i].link.release = list[k].link.release => i = k

\* What a rung compares of a release besides its locator.
Key(rung, r) ==
    LET a == Attributes[r]
    IN  <<None, None, None, L!NumberAttributes(a), L!NumberGroup(a), L!NumberTitle(a), a.title>>[rung]
\* A release that another could be taken for on some rung: the same number and group, the same
\* title, no group for either ...
Confusable(r) ==
    \E s \in Releases \ {r}, rung \in 4..7 : Key(rung, r) # None /\ Key(rung, s) = Key(rung, r)
\* ... and a rung that tells it from every other.
Telling(rung, r) == Key(rung, r) # None /\ \A s \in Releases : Key(rung, s) = Key(rung, r) => s = r
\* Each release has such a rung; the first names the language, which a backup does not.
Recognisable ==
    \A r \in Releases : \E rung \in 4..7 :
        Telling(rung, r) /\ (rung = 4 /\ BackedUp(r) => Attributes[r].language = None)
\* Of releases with a number and a group in common, or a number and no group, all name their
\* language or none does.
LanguagesAgree ==
    \A r, s \in Releases :
        LET a == Attributes[r]
            b == Attributes[s]
        IN  a.number # None /\ a.number = b.number /\ a.group = b.group
                => (a.language = None <=> b.language = None)
\* A backup has a release once.
HeldOnce == \A b \in Backups : \A i, k \in DOMAIN b : b[i].release = b[k].release => i = k

LEMMA LinksAreSome == None \notin Locators
BY RecordsAssumption DEF L!LibraryAssumption, Locators

LEMMA AttributesKept ==
    ASSUME NEW r \in Releases, NEW a \in Described(r)
    PROVE  /\ a.number = Attributes[r].number /\ a.title = Attributes[r].title
           /\ a.group = Attributes[r].group /\ a.number \in Nat \cup {None}
           /\ <<a.number, a.group>> # None
           /\ a = Attributes[r] \/ (a.language = None /\ BackedUp(r))
BY RecordsAssumption DEF L!LibraryAssumption, Described

LEMMA IdFacts ==
    ASSUME NEW item \in Items
    PROVE  /\ L!Id(item) \in Locators /\ L!Id(item).release = item.release /\ L!Id(item) # None
           /\ L!Page(item).release = item.release
           /\ L!Token(L!Id(item)) = <<item.release, item.version>>
BY LinksAreSome DEF Items, Locators, L!Id, L!Page, L!Locator, L!Token

LEMMA KeyOfItem ==
    ASSUME NEW item, NEW rung \in 4..7
    PROVE  L!ItemKey(rung, item) = Key(rung, item.release)
<1>1. rung \in {4, 5, 6, 7}
  OBVIOUS
<1> QED BY <1>1 DEF L!ItemKey, Key

\* A key of a stored chapter that is one of a published item: the releases are the same, or the
\* chapter's own has that key as well.
LEMMA SameKey ==
    ASSUME LanguagesAgree, NEW row \in Row, row.link # None, Fits(row), NEW item \in Items, NEW rung \in 1..7,
           L!ItemKey(rung, item) # None, L!StoredKey(rung, row) = L!ItemKey(rung, item)
    PROVE  \/ row.link.release = item.release
           \/ rung \in 4..7 /\ Key(rung, row.link.release) = L!ItemKey(rung, item)
<1> DEFINE r == row.link.release
           s == item.release
           a == row.attributes
           c == Attributes[r]
           b == Attributes[s]
<1>1. r \in Releases /\ s \in Releases /\ row.link \in Locators
  BY DEF Row, Locators, Items
<1>2. /\ a.number = c.number /\ a.title = c.title /\ a.group = c.group
      /\ a = c \/ a.language = None
  BY <1>1, AttributesKept DEF Fits
<1>3. SUFFICES ASSUME r # s PROVE rung \in 4..7 /\ Key(rung, r) = L!ItemKey(rung, item)
  OBVIOUS
<1>4. c.number # None /\ c.number = b.number /\ c.group = b.group => (c.language = None <=> b.language = None)
  BY <1>1 DEF LanguagesAgree
<1>5. /\ L!Id(item).release = s /\ L!Page(item).release = s
      /\ L!Token(L!Id(item)) = <<item.release, item.version>>
  BY IdFacts
<1>6. CASE rung = 1
  <2>1. row.link = L!Id(item)
    BY <1>6 DEF L!StoredKey, L!ItemKey
  <2> QED BY <1>3, <1>5, <2>1
<1>7. CASE rung = 2
  <2>1. row.link = L!Page(item)
    BY <1>7 DEF L!StoredKey, L!ItemKey
  <2> QED BY <1>3, <1>5, <2>1
<1>8. CASE rung = 3
  <2>1. L!Token(row.link) = L!Token(L!Id(item)) /\ L!Token(L!Id(item)) # None
    BY <1>8 DEF L!StoredKey, L!ItemKey
  <2>2. L!Token(row.link) = <<row.link.release, row.link.version>>
    BY <2>1 DEF L!Token
  <2>3. <<row.link.release, row.link.version>> = <<item.release, item.version>>
    BY <1>5, <2>1, <2>2
  <2> QED BY <1>3, <2>3
<1>9. CASE rung = 4
  <2>1. L!NumberAttributes(a) = L!NumberAttributes(b) /\ L!NumberAttributes(b) # None
    BY <1>9 DEF L!StoredKey, L!ItemKey
  <2>2. a.number # None /\ a.number = b.number /\ a.group = b.group /\ a.language = b.language
    BY <2>1 DEF L!NumberAttributes, L!Keyed
  <2>3. c.number = a.number /\ c.group = a.group /\ c.language = a.language
    BY <1>2, <1>4, <2>2
  <2>4. L!NumberAttributes(c) = L!NumberAttributes(a)
    BY <2>3 DEF L!NumberAttributes
  <2> QED BY <1>9, <2>1, <2>4 DEF L!ItemKey, Key
<1>10. CASE rung = 5
  <2>1. L!NumberGroup(a) = L!NumberGroup(b)
    BY <1>10 DEF L!StoredKey, L!ItemKey
  <2>2. L!NumberGroup(c) = L!NumberGroup(a)
    BY <1>2 DEF L!NumberGroup
  <2> QED BY <1>10, <2>1, <2>2 DEF L!ItemKey, Key
<1>11. CASE rung = 6
  <2>1. L!NumberTitle(a) = L!NumberTitle(b)
    BY <1>11 DEF L!StoredKey, L!ItemKey
  <2>2. L!NumberTitle(c) = L!NumberTitle(a)
    BY <1>2 DEF L!NumberTitle
  <2> QED BY <1>11, <2>1, <2>2 DEF L!ItemKey, Key
<1>12. CASE rung = 7
  <2>1. a.title = b.title
    BY <1>12 DEF L!StoredKey, L!ItemKey
  <2> QED BY <1>2, <1>12, <2>1 DEF L!ItemKey, Key
<1> QED BY <1>6, <1>7, <1>8, <1>9, <1>10, <1>11, <1>12

\* Every release has a telling rung on which its chapter has its key, whatever its locator.
LEMMA SomeKeyTells ==
    ASSUME Recognisable, NEW row \in Row, row.link # None, Fits(row), NEW item \in Items,
           row.link.release = item.release
    PROVE  \E rung \in 4..7 : Telling(rung, item.release) /\ L!StoredKey(rung, row) = L!ItemKey(rung, item)
<1> DEFINE a == row.attributes
           b == Attributes[item.release]
<1>1. item.release \in Releases /\ a \in Described(item.release)
  BY DEF Row, Items, Fits
<1>2. /\ a.number = b.number /\ a.title = b.title /\ a.group = b.group
      /\ a = b \/ (a.language = None /\ BackedUp(item.release))
  BY <1>1, AttributesKept
<1>3. PICK rung \in 4..7 : /\ Telling(rung, item.release)
                           /\ rung = 4 /\ BackedUp(item.release) => b.language = None
  BY <1>1 DEF Recognisable
<1>4. CASE rung = 4
  <2>1. a.language = b.language
    BY <1>2, <1>3, <1>4
  <2>2. L!NumberAttributes(a) = L!NumberAttributes(b)
    BY <1>2, <2>1 DEF L!NumberAttributes
  <2>3. L!StoredKey(rung, row) = L!ItemKey(rung, item)
    BY <1>4, <2>2 DEF L!StoredKey, L!ItemKey
  <2> QED BY <1>3, <2>3
<1>5. CASE rung = 5
  <2>1. L!NumberGroup(a) = L!NumberGroup(b)
    BY <1>2 DEF L!NumberGroup
  <2>2. L!StoredKey(rung, row) = L!ItemKey(rung, item)
    BY <1>5, <2>1 DEF L!StoredKey, L!ItemKey
  <2> QED BY <1>3, <2>2
<1>6. CASE rung = 6
  <2>1. L!NumberTitle(a) = L!NumberTitle(b)
    BY <1>2 DEF L!NumberTitle
  <2>2. L!StoredKey(rung, row) = L!ItemKey(rung, item)
    BY <1>6, <2>1 DEF L!StoredKey, L!ItemKey
  <2> QED BY <1>3, <2>2
<1>7. CASE rung = 7
  <2>1. L!StoredKey(rung, row) = L!ItemKey(rung, item)
    BY <1>2, <1>7 DEF L!StoredKey, L!ItemKey
  <2> QED BY <1>3, <2>1
<1> QED BY <1>3, <1>4, <1>5, <1>6, <1>7

\* One rung of the climb, and the climb.
Found(rung, last, before, items) == L!OneToOnePairs(rung, last.stored, last.pending, before)
Onto(rung, last, before, items) ==
    LET found == Found(rung, last, before, items) IN
    [stored  |-> last.stored \ {p[1] : p \in found},
     pending |-> last.pending \ {p[2] : p \in found},
     pairs   |-> IF rung = 1 THEN {} ELSE last.pairs \cup found]
Foot(before, items) == [stored |-> DOMAIN before, pending |-> items, pairs |-> {}]
Climbs(c, before, items) ==
    c = [rung \in 0..7 |-> IF rung = 0 THEN Foot(before, items) ELSE Onto(rung, c[rung - 1], before, items)]

LEMMA ClimbIsThere == ASSUME NEW before, NEW items PROVE \E c : Climbs(c, before, items)
<1> DEFINE s(rung, last) == Onto(rung, last, before, items)
           f0 == Foot(before, items)
           f1 == s(1, f0)
           f2 == s(2, f1)
           f3 == s(3, f2)
           f4 == s(4, f3)
           f5 == s(5, f4)
           f6 == s(6, f5)
           f7 == s(7, f6)
           c == [rung \in 0..7 |-> IF rung = 0 THEN f0 ELSE IF rung = 1 THEN f1 ELSE IF rung = 2 THEN f2
                                   ELSE IF rung = 3 THEN f3 ELSE IF rung = 4 THEN f4 ELSE IF rung = 5 THEN f5
                                   ELSE IF rung = 6 THEN f6 ELSE f7]
<1> HIDE DEF f1, f2, f3, f4, f5, f6, f7
<1>1. /\ c[0] = f0 /\ c[1] = f1 /\ c[2] = f2 /\ c[3] = f3 /\ c[4] = f4 /\ c[5] = f5 /\ c[6] = f6 /\ c[7] = f7
      /\ DOMAIN c = 0..7 /\ c = [rung \in 0..7 |-> c[rung]]
  OBVIOUS
<1> HIDE DEF c
<1>2. \A rung \in 1..7 : c[rung] = Onto(rung, c[rung - 1], before, items)
  <2> TAKE rung \in 1..7
  <2>1. rung \in {1, 2, 3, 4, 5, 6, 7}
    OBVIOUS
  <2>2. rung = 1 => rung - 1 = 0
    OBVIOUS
  <2>3. c[1] = Onto(1, c[0], before, items)
    BY <1>1 DEF f1
  <2>4. c[2] = Onto(2, c[1], before, items)
    BY <1>1 DEF f2
  <2>5. c[3] = Onto(3, c[2], before, items)
    BY <1>1 DEF f3
  <2>6. c[4] = Onto(4, c[3], before, items)
    BY <1>1 DEF f4
  <2>7. c[5] = Onto(5, c[4], before, items)
    BY <1>1 DEF f5
  <2>8. c[6] = Onto(6, c[5], before, items)
    BY <1>1 DEF f6
  <2>9. c[7] = Onto(7, c[6], before, items)
    BY <1>1 DEF f7
  <2> QED BY <2>1, <2>3, <2>4, <2>5, <2>6, <2>7, <2>8, <2>9
<1>3. c = [rung \in 0..7 |-> IF rung = 0 THEN Foot(before, items) ELSE Onto(rung, c[rung - 1], before, items)]
  BY <1>1, <1>2
<1> QED BY <1>3 DEF Climbs

LEMMA AdoptedIs ==
    ASSUME NEW before, NEW items
    PROVE  \E c : Climbs(c, before, items) /\ L!Adopted(before, items) = c[7].pairs
<1>1. L!Adopted(before, items) = (CHOOSE c : Climbs(c, before, items))[7].pairs
  BY DEF L!Adopted, Climbs, Onto, Found, Foot
<1> QED BY <1>1, ClimbIsThere

\* What a refresh compares: the chapters it listed, all of them with a locator, and an answer.
Listing(before) ==
    /\ before \in Seq(Row) /\ OneEach(before)
    /\ \A i \in DOMAIN before : before[i].link # None /\ Fits(before[i])
Answer(items) == items \subseteq Items /\ \A t, u \in items : t.release = u.release => t = u

Paired(pairs, before, items) ==
    \A p \in pairs : /\ p = <<p[1], p[2]>> /\ p[1] \in DOMAIN before /\ p[2] \in items
                     /\ before[p[1]].link.release = p[2].release
\* A listed chapter that could be taken for another is of a release that is in the answer.
Covered(before, items) ==
    \A k \in DOMAIN before :
        Confusable(before[k].link.release) => \E t \in items : t.release = before[k].link.release
\* A chapter and the item of its release leave together.
OnRung(last, before, items) ==
    /\ last.stored \subseteq DOMAIN before /\ last.pending \subseteq items
    /\ Paired(last.pairs, before, items)
    /\ \A k \in DOMAIN before, t \in items :
          before[k].link.release = t.release => (k \in last.stored <=> t \in last.pending)

LEMMA ListedRow ==
    ASSUME NEW before, Listing(before), NEW i \in DOMAIN before
    PROVE  before[i] \in Row /\ before[i].link # None /\ Fits(before[i])
BY DEF Listing

LEMMA FoundPairs ==
    ASSUME LanguagesAgree, NEW before, Listing(before), NEW items, Answer(items), Covered(before, items),
           NEW last, OnRung(last, before, items), NEW rung \in 1..7
    PROVE  /\ Paired(Found(rung, last, before, items), before, items)
           /\ \A p \in Found(rung, last, before, items) : p[1] \in last.stored /\ p[2] \in last.pending
                 /\ L!StoredKey(rung, before[p[1]]) = L!ItemKey(rung, p[2])
<1> SUFFICES ASSUME NEW p \in Found(rung, last, before, items)
             PROVE  /\ p = <<p[1], p[2]>> /\ p[1] \in DOMAIN before /\ p[2] \in items
                    /\ before[p[1]].link.release = p[2].release
                    /\ p[1] \in last.stored /\ p[2] \in last.pending
                    /\ L!StoredKey(rung, before[p[1]]) = L!ItemKey(rung, p[2])
  BY DEF Paired
<1>1. /\ p \in last.stored \X last.pending
      /\ L!StoredKey(rung, before[p[1]]) # None
      /\ L!ItemKey(rung, p[2]) = L!StoredKey(rung, before[p[1]])
  BY DEF Found, L!OneToOnePairs
<1>2. /\ p = <<p[1], p[2]>> /\ p[1] \in last.stored /\ p[2] \in last.pending
      /\ p[1] \in DOMAIN before /\ p[2] \in items /\ p[2] \in Items
  <2>1. p = <<p[1], p[2]>> /\ p[1] \in last.stored /\ p[2] \in last.pending
    BY <1>1
  <2> QED BY <2>1 DEF OnRung, Answer
<1>3. before[p[1]] \in Row /\ before[p[1]].link # None /\ Fits(before[p[1]])
  BY <1>2, ListedRow
<1>4. before[p[1]].link.release = p[2].release
  <2> DEFINE k == p[1]
             item == p[2]
             r == before[k].link.release
  <2>1. SUFFICES ASSUME r # item.release PROVE FALSE
    OBVIOUS
  <2>2. rung \in 4..7 /\ Key(rung, r) = L!ItemKey(rung, item) /\ L!ItemKey(rung, item) # None
    BY <1>1, <1>2, <1>3, <2>1, SameKey
  <2>3. Key(rung, item.release) = L!ItemKey(rung, item) /\ item.release \in Releases
    BY <1>2, <2>2, KeyOfItem DEF Items
  <2>4. Confusable(r)
    BY <2>1, <2>2, <2>3 DEF Confusable
  <2>5. PICK t \in items : t.release = r
    BY <1>2, <2>4 DEF Covered
  <2>6. t \in last.pending
    BY <1>2, <2>5 DEF OnRung
  <2>7. L!ItemKey(rung, t) = L!StoredKey(rung, before[k])
    BY <1>1, <2>2, <2>5, KeyOfItem
  <2>8. t = item
    BY <2>6, <2>7 DEF Found, L!OneToOnePairs
  <2> QED BY <2>1, <2>5, <2>8
<1> QED BY <1>1, <1>2, <1>4

LEMMA RungKeeps ==
    ASSUME LanguagesAgree, NEW before, Listing(before), NEW items, Answer(items), Covered(before, items),
           NEW last, OnRung(last, before, items), NEW rung \in 1..7
    PROVE  OnRung(Onto(rung, last, before, items), before, items)
<1> DEFINE found == Found(rung, last, before, items)
           next == Onto(rung, last, before, items)
<1>1. Paired(found, before, items)
  BY FoundPairs
<1>2. /\ next.stored = last.stored \ {p[1] : p \in found}
      /\ next.pending = last.pending \ {p[2] : p \in found}
      /\ next.pairs \subseteq last.pairs \cup found
  BY DEF Onto
<1> HIDE DEF found, next
<1>3. next.stored \subseteq DOMAIN before /\ next.pending \subseteq items /\ Paired(next.pairs, before, items)
  BY <1>1, <1>2 DEF OnRung, Paired
<1>4. ASSUME NEW k \in DOMAIN before, NEW t \in items, before[k].link.release = t.release
      PROVE  k \in next.stored <=> t \in next.pending
  <2>1. \A p \in found : p[1] \in DOMAIN before /\ p[2] \in items /\ before[p[1]].link.release = p[2].release
    BY <1>1 DEF Paired
  <2>2. \A p \in found : p[1] = k => p[2] = t
    BY <1>4, <2>1 DEF Answer
  <2>3. \A p \in found : p[2] = t => p[1] = k
    BY <1>4, <2>1 DEF Listing, OneEach
  <2>4. k \in last.stored <=> t \in last.pending
    BY <1>4 DEF OnRung
  <2> QED BY <1>2, <2>2, <2>3, <2>4
<1>5. OnRung(next, before, items)
  BY <1>3, <1>4 DEF OnRung
<1> QED BY <1>5 DEF next

\* A chapter and the item of its release stay together until they are paired.
LEMMA RungMatches ==
    ASSUME LanguagesAgree, NEW before, Listing(before), NEW items, Answer(items), Covered(before, items),
           NEW last, OnRung(last, before, items), NEW rung \in 1..7,
           NEW k \in DOMAIN before, NEW item \in items, before[k].link.release = item.release,
           before[k].link # L!Id(item),
           (<<k, item>> \in last.pairs /\ rung # 1) \/ (k \in last.stored /\ item \in last.pending)
    PROVE  LET next == Onto(rung, last, before, items) IN
           /\ <<k, item>> \in next.pairs \/ (k \in next.stored /\ item \in next.pending)
           /\ (rung \in 4..7 /\ Telling(rung, item.release) /\ L!StoredKey(rung, before[k]) = L!ItemKey(rung, item))
                 => <<k, item>> \in next.pairs
<1> DEFINE found == Found(rung, last, before, items)
           next == Onto(rung, last, before, items)
<1>1. /\ Paired(found, before, items)
      /\ \A p \in found : p[1] \in last.stored /\ p[2] \in last.pending
            /\ L!StoredKey(rung, before[p[1]]) = L!ItemKey(rung, p[2])
  BY FoundPairs
<1>2. /\ next.stored = last.stored \ {p[1] : p \in found}
      /\ next.pending = last.pending \ {p[2] : p \in found}
      /\ next.pairs = IF rung = 1 THEN {} ELSE last.pairs \cup found
  BY DEF Onto
<1>3. \A j \in DOMAIN before : before[j].link.release = item.release => j = k
  BY DEF Listing, OneEach
<1>4. \A t \in items : before[k].link.release = t.release => t = item
  BY DEF Answer
<1>5. rung = 1 => <<k, item>> \notin found
  <2> SUFFICES ASSUME rung = 1, <<k, item>> \in found PROVE FALSE
    OBVIOUS
  <2>1. L!StoredKey(1, before[k]) = L!ItemKey(1, item)
    BY <1>1
  <2>2. L!StoredKey(1, before[k]) = before[k].link /\ L!ItemKey(1, item) = L!Id(item)
    BY DEF L!StoredKey, L!ItemKey
  <2> QED BY <2>1, <2>2
<1> HIDE DEF next
<1>6. ASSUME rung \in 4..7, Telling(rung, item.release), L!StoredKey(rung, before[k]) = L!ItemKey(rung, item),
             k \in last.stored, item \in last.pending
      PROVE  <<k, item>> \in found
  <2> DEFINE key == L!ItemKey(rung, item)
  <2>1. key = Key(rung, item.release) /\ key # None /\ item \in Items
    BY <1>6, KeyOfItem DEF Telling, Answer
  <2>2. \A i \in last.stored : L!StoredKey(rung, before[i]) = key => i = k
    <3> SUFFICES ASSUME NEW i \in last.stored, L!StoredKey(rung, before[i]) = key PROVE i = k
      OBVIOUS
    <3>1. i \in DOMAIN before
      BY DEF OnRung
    <3>2. before[i] \in Row /\ before[i].link # None /\ Fits(before[i])
      BY <3>1, ListedRow
    <3>3. before[i].link.release \in Releases
      BY <3>2 DEF Row, Locators
    <3>4. before[i].link.release = item.release \/ Key(rung, before[i].link.release) = key
      BY <2>1, <3>2, SameKey
    <3>5. before[i].link.release = item.release
      BY <1>6, <2>1, <3>3, <3>4 DEF Telling
    <3> QED BY <1>3, <3>1, <3>5
  <2>3. \A t \in last.pending : L!ItemKey(rung, t) = key => t = item
    <3> SUFFICES ASSUME NEW t \in last.pending, L!ItemKey(rung, t) = key PROVE t = item
      OBVIOUS
    <3>1. t \in items /\ t.release \in Releases
      BY DEF OnRung, Answer, Items
    <3>2. Key(rung, t.release) = Key(rung, item.release)
      BY <1>6, <2>1, KeyOfItem
    <3>3. t.release = item.release
      BY <1>6, <3>1, <3>2 DEF Telling
    <3> QED BY <3>1, <3>3 DEF Answer
  <2>4. <<k, item>> \in last.stored \X last.pending /\ <<k, item>>[1] = k /\ <<k, item>>[2] = item
    BY <1>6
  <2> QED BY <1>6, <2>1, <2>2, <2>3, <2>4 DEF Found, L!OneToOnePairs
<1> HIDE DEF found
<1>7. ASSUME <<k, item>> \notin found PROVE k \notin {p[1] : p \in found} /\ item \notin {p[2] : p \in found}
  <2>1. \A p \in found : p = <<p[1], p[2]>> /\ p[1] \in DOMAIN before /\ p[2] \in items
                         /\ before[p[1]].link.release = p[2].release
    BY <1>1 DEF Paired
  <2>2. \A p \in found : p[1] = k => p[2] = item
    BY <1>4, <2>1
  <2>3. \A p \in found : p[2] = item => p[1] = k
    BY <1>3, <2>1
  <2> QED BY <1>7, <2>1, <2>2, <2>3
<1>8. <<k, item>> \in next.pairs \/ (k \in next.stored /\ item \in next.pending)
  BY <1>2, <1>5, <1>7
<1>9. ASSUME rung \in 4..7, Telling(rung, item.release), L!StoredKey(rung, before[k]) = L!ItemKey(rung, item)
      PROVE  <<k, item>> \in next.pairs
  BY <1>2, <1>6, <1>9
<1> QED BY <1>8, <1>9 DEF next

LEMMA AdoptionFits ==
    ASSUME LanguagesAgree, Recognisable, NEW before, Listing(before), NEW items, Answer(items),
           Covered(before, items)
    PROVE  /\ Paired(L!Adopted(before, items), before, items)
           /\ \A k \in DOMAIN before, item \in items :
                 before[k].link.release = item.release /\ before[k].link # L!Id(item)
                    => <<k, item>> \in L!Adopted(before, items)
<1>1. PICK c : Climbs(c, before, items) /\ L!Adopted(before, items) = c[7].pairs
  BY AdoptedIs
<1>2. c[0] = Foot(before, items) /\ \A rung \in 1..7 : c[rung] = Onto(rung, c[rung - 1], before, items)
  BY <1>1 DEF Climbs
<1> DEFINE up(n) == c[n + 1] = Onto(n + 1, c[n], before, items) /\ n + 1 \in 1..7
<1>3. up(0) /\ up(1) /\ up(2) /\ up(3) /\ up(4) /\ up(5) /\ up(6)
  <2>1. \A n \in 0..6 : n + 1 \in 1..7 /\ (n + 1) - 1 = n
    OBVIOUS
  <2>2. \A n \in 0..6 : up(n)
    BY <1>2, <2>1
  <2> HIDE DEF up
  <2> QED BY <2>2
<1> DEFINE on(n) == OnRung(c[n], before, items)
<1>4. on(0)
  BY <1>2 DEF OnRung, Foot, Paired
<1>5. \A n \in 0..6 : on(n) /\ up(n) => on(n + 1)
  BY RungKeeps
<1>6. on(0) /\ on(1) /\ on(2) /\ on(3) /\ on(4) /\ on(5) /\ on(6) /\ on(7)
  <2> HIDE DEF on, up
  <2>1. on(0 + 1)
    BY <1>3, <1>4, <1>5
  <2>2. on(1 + 1)
    BY <1>3, <1>5, <2>1
  <2>3. on(2 + 1)
    BY <1>3, <1>5, <2>2
  <2>4. on(3 + 1)
    BY <1>3, <1>5, <2>3
  <2>5. on(4 + 1)
    BY <1>3, <1>5, <2>4
  <2>6. on(5 + 1)
    BY <1>3, <1>5, <2>5
  <2>7. on(6 + 1)
    BY <1>3, <1>5, <2>6
  <2> QED BY <1>4, <2>1, <2>2, <2>3, <2>4, <2>5, <2>6, <2>7
<1>7. ASSUME NEW k \in DOMAIN before, NEW item \in items,
             before[k].link.release = item.release, before[k].link # L!Id(item)
      PROVE  <<k, item>> \in c[7].pairs
  <2> DEFINE in(n) == <<k, item>> \in c[n].pairs
             free(n) == k \in c[n].stored /\ item \in c[n].pending
             shared(n) == n \in 4..7 /\ Telling(n, item.release) /\ L!StoredKey(n, before[k]) = L!ItemKey(n, item)
  <2>1. free(0)
    BY <1>2 DEF Foot
  <2>2. \A n \in 0..6 : on(n) /\ up(n) /\ (free(n) \/ (in(n) /\ n # 0))
                           => (in(n + 1) \/ free(n + 1)) /\ (n # 0 /\ shared(n + 1) => in(n + 1))
    <3> SUFFICES ASSUME NEW n \in 0..6, on(n), up(n), free(n) \/ (in(n) /\ n # 0)
                 PROVE  (in(n + 1) \/ free(n + 1)) /\ (n # 0 /\ shared(n + 1) => in(n + 1))
      OBVIOUS
    <3> DEFINE m == n + 1
               next == Onto(m, c[n], before, items)
    <3>1. /\ m \in 1..7 /\ (m # 1 <=> n # 0) /\ c[m] = next
      OBVIOUS
    <3>2. (<<k, item>> \in c[n].pairs /\ m # 1) \/ (k \in c[n].stored /\ item \in c[n].pending)
      BY <3>1
    <3> HIDE DEF m
    <3>3. /\ <<k, item>> \in next.pairs \/ (k \in next.stored /\ item \in next.pending)
          /\ (m \in 4..7 /\ Telling(m, item.release) /\ L!StoredKey(m, before[k]) = L!ItemKey(m, item))
                => <<k, item>> \in next.pairs
      BY <1>7, <3>1, <3>2, RungMatches
    <3> HIDE DEF next
    <3>4. (in(m) \/ free(m)) /\ (n # 0 /\ shared(m) => in(m))
      BY <3>1, <3>3
    <3> QED BY <3>4 DEF m
  <2>3. \A n \in 1..6 : up(n) /\ in(n) => in(n + 1)
    <3> SUFFICES ASSUME NEW n \in 1..6, up(n), in(n) PROVE in(n + 1)
      OBVIOUS
    <3>1. n + 1 # 1
      OBVIOUS
    <3>2. c[n] = c[n] /\ c[n].pairs \subseteq Onto(n + 1, c[n], before, items).pairs
      BY <3>1 DEF Onto
    <3> QED BY <3>2
  <2>4. \E n \in 4..7 : shared(n)
    <3>1. before[k] \in Row /\ before[k].link # None /\ Fits(before[k]) /\ item \in Items
      BY ListedRow DEF Answer
    <3> QED BY <1>7, <3>1, SomeKeyTells
  <2> HIDE DEF in, free, shared, on, up
  <2>5. free(0 + 1) \/ in(0 + 1)
    BY <1>3, <1>6, <2>1, <2>2
  <2>6. (free(1 + 1) \/ in(1 + 1)) /\ (shared(1 + 1) => in(1 + 1))
    BY <1>3, <1>6, <2>2, <2>5
  <2>7. (free(2 + 1) \/ in(2 + 1)) /\ (shared(2 + 1) => in(2 + 1)) /\ (in(2) => in(2 + 1))
    BY <1>3, <1>6, <2>2, <2>3, <2>6
  <2>8. (free(3 + 1) \/ in(3 + 1)) /\ (shared(3 + 1) => in(3 + 1)) /\ (in(3) => in(3 + 1))
    BY <1>3, <1>6, <2>2, <2>3, <2>7
  <2>9. (free(4 + 1) \/ in(4 + 1)) /\ (shared(4 + 1) => in(4 + 1)) /\ (in(4) => in(4 + 1))
    BY <1>3, <1>6, <2>2, <2>3, <2>8
  <2>10. (free(5 + 1) \/ in(5 + 1)) /\ (shared(5 + 1) => in(5 + 1)) /\ (in(5) => in(5 + 1))
    BY <1>3, <1>6, <2>2, <2>3, <2>9
  <2>11. (shared(6 + 1) => in(6 + 1)) /\ (in(6) => in(6 + 1))
    BY <1>3, <1>6, <2>2, <2>3, <2>10
  <2>12. in(7)
    <3>1. \A n \in 4..7 : n \in {4, 5, 6, 7}
      OBVIOUS
    <3> QED BY <2>4, <2>6, <2>7, <2>8, <2>9, <2>10, <2>11, <3>1
  <2> QED BY <2>12 DEF in
<1>8. Paired(c[7].pairs, before, items)
  BY <1>6 DEF OnRung
<1> QED BY <1>1, <1>7, <1>8

-----------------------------------------------------------------------------
(* The chapters of a title: the inductive invariant                        *)

Labels == {"idle", "resolve", "list", "next", "write", "link", "record"}
Refresher == [pc : Labels, before : Seq(Row), items : SUBSET Items, todo : SUBSET Items,
              item : Items \cup {None}, row : Nat, new : SUBSET Nat]

ChaptersTyped ==
    /\ moves \in Nat /\ moves <= MaxMoves
    /\ published \in [Releases -> Nat \cup {None}]
    /\ \A r \in Releases : published[r] = None \/ (published[r] \in Nat /\ published[r] <= moves + 1)
    /\ rows \in Seq(Row) /\ log \subseteq DOMAIN rows /\ fetched \in BOOLEAN /\ due \subseteq Releases
    /\ refresher \in [Refreshers -> Refresher]
    /\ \A p \in Refreshers : L!RefresherOK(p)

Fitting == \A i \in DOMAIN rows : Fits(rows[i])

\* A locator that is the source's own at this moment.
Current(link) == link = L!Locator(link.release, published[link.release], "id")

\* What a refresh listed is there still, under a locator of the same release; when it is at
\* work, what it did not list has none or the current one, and it has the current answer.
HasListed(p) ==
    refresher[p].pc \in {"next", "write", "link"} \/ (refresher[p].pc = "resolve" /\ p \notin Viewers)
Snapshot(p) ==
    LET before == refresher[p].before IN
    /\ Listing(before)
    /\ \A k \in DOMAIN before : /\ k \in DOMAIN rows /\ rows[k].link # None
                                /\ rows[k].link.release = before[k].link.release
    /\ HasListed(p) => \A k \in DOMAIN rows : \/ rows[k].link = None \/ Current(rows[k].link)
                                              \/ k \in DOMAIN before /\ rows[k].link = before[k].link
    /\ refresher[p].pc \in {"list", "next", "write", "link"} => refresher[p].items = L!Details

\* The row it has chosen for an item is the only one of the release, unless another refresh has
\* linked one to the very locator; it is of that release, or new.
Chosen(p) ==
    LET item == refresher[p].item
        i == refresher[p].row
    IN  refresher[p].pc \in {"write", "link"} =>
            /\ item \in refresher[p].items
            /\ \A k \in DOMAIN rows : rows[k].link # None /\ rows[k].link.release = item.release
                                        => k = i \/ rows[k].link = L!Id(item)
            /\ i # 0 => \/ rows[i].link # None /\ rows[i].link.release = item.release
                        \/ /\ rows[i].link = None /\ refresher[p].pc = "link"
                           /\ rows[i].attributes = Attributes[item.release]

\* A new row is of one refresh.
Own ==
    \A p, q \in Refreshers :
        L!At(p, "link") /\ L!At(q, "link") /\ refresher[p].row = refresher[q].row
            /\ rows[refresher[p].row].link = None => p = q

RowsInv == Fitting /\ OneEach(rows) /\ L!ReadFollowsRelease
RefreshInv == (\A p \in Refreshers : Snapshot(p) /\ Chosen(p)) /\ Own
ChaptersInv == ChaptersTyped /\ RowsInv /\ RefreshInv

\* A chapter that could be taken for another is one its source shows.
OnShow == {r \in Releases : L!Shown(r)}
Lasting ==
    \A i \in DOMAIN rows :
        rows[i].link # None /\ Confusable(rows[i].link.release) => rows[i].link.release \in OnShow

\* The source rests while it is asked, and each of its releases has a rung that tells it apart.
Distinct == Overlap = FALSE /\ LanguagesAgree /\ Recognisable /\ HeldOnce
\* It withdraws only what nothing else could be taken for.
KeepsConfusable == \A r \in OnShow : Confusable(r) => r \in OnShow'

LEMMA NothingListed == Listing(<<>>) /\ <<>> \in Seq(Row)
BY DEF Listing, OneEach

LEMMA RestingFits ==
    /\ L!Resting \in Refresher /\ L!Resting.pc = "idle" /\ L!Resting.before = <<>> /\ L!Resting.row = 0
    /\ L!Resting.new = {} /\ L!Resting.todo = {} /\ L!Resting.items = {}
BY NothingListed DEF L!Resting, Refresher, Labels

LEMMA DetailsFit ==
    ASSUME ChaptersTyped
    PROVE  /\ L!Details \subseteq Items /\ Answer(L!Details)
           /\ \A item \in L!Details : /\ item = [release |-> item.release, version |-> published[item.release]]
                                      /\ Current(L!Id(item)) /\ item.release \in Releases
                                      /\ \A link : Current(link) /\ link.release = item.release => link = L!Id(item)
<1> SUFFICES ASSUME NEW item \in L!Details
             PROVE  /\ item \in Items /\ item.release \in Releases
                    /\ item = [release |-> item.release, version |-> published[item.release]]
                    /\ Current(L!Id(item))
                    /\ \A link : Current(link) /\ link.release = item.release => link = L!Id(item)
  BY DEF Answer
<1>1. PICK r \in Releases : L!Shown(r) /\ item = [release |-> r, version |-> published[r]]
  BY DEF L!Details
<1>2. published[r] \in Nat /\ item.release = r /\ item.version = published[r]
  BY <1>1 DEF L!Shown, ChaptersTyped
<1> QED BY <1>1, <1>2 DEF Items, Current, L!Id, L!Locator

LEMMA ChapterRows ==
    ASSUME ChaptersTyped
    PROVE  /\ DOMAIN rows = 1..Len(rows) /\ Len(rows) \in Nat
           /\ \A i \in DOMAIN rows : rows[i] \in Row /\ (rows[i].link # None => rows[i].link.release \in Releases)
           /\ L!Listable <=> \A i \in DOMAIN rows : rows[i].link # None
<1>1. rows \in Seq(Row)
  BY DEF ChaptersTyped
<1>2. DOMAIN rows = 1..Len(rows) /\ Len(rows) \in Nat /\ \A i \in DOMAIN rows : rows[i] \in Row
  BY <1>1
<1>3. \A i \in DOMAIN rows : rows[i].link # None => rows[i].link.release \in Releases
  BY <1>2 DEF Row, Locators
<1> QED BY <1>2, <1>3 DEF L!Listable

LEMMA ChaptersBegin == ASSUME Distinct, Init PROVE ChaptersInv
<1>1. L!Init
  BY DEF Init
<1>2. PICK b \in Backups, shown \in SUBSET Releases :
          /\ \A i \in DOMAIN b : b[i].release \in shown
          /\ rows = [i \in DOMAIN b |-> L!Imported(b[i])]
          /\ published = [r \in Releases |-> IF r \in shown THEN 1 ELSE 0]
  BY <1>1 DEF L!Init
<1>3. /\ log = {} /\ fetched = FALSE /\ refresher = [p \in Refreshers |-> L!Resting] /\ due = {} /\ moves = 0
  BY <1>1 DEF L!Init
<1>4. b \in Seq([release : Releases, shape : {"page", "path"}]) /\ MaxMoves \in Nat
  BY RecordsAssumption DEF L!LibraryAssumption
<1>4a. DOMAIN b = 1..Len(b) /\ \A i \in 1..Len(b) : b[i] \in [release : Releases, shape : {"page", "path"}]
  <2> DEFINE entries == [release : Releases, shape : {"page", "path"}]
  <2>1. b \in Seq(entries)
    BY <1>4
  <2> HIDE DEF entries
  <2>2. DOMAIN b = 1..Len(b) /\ \A i \in 1..Len(b) : b[i] \in entries
    BY <2>1
  <2> QED BY <2>2 DEF entries
<1>5. ASSUME NEW i \in DOMAIN b
      PROVE  /\ rows[i] \in Row /\ rows[i].link # None /\ rows[i].link.release = b[i].release /\ Fits(rows[i])
  <2>1. b[i].release \in Releases /\ b[i].shape \in {"page", "path"}
    <3>1. b[i] \in [release : Releases, shape : {"page", "path"}]
      BY <1>4a, <1>5
    <3> QED BY <3>1
  <2>2. /\ rows[i].attributes = [Attributes[b[i].release] EXCEPT !.language = None] /\ rows[i].read = FALSE
        /\ rows[i] = [attributes |-> rows[i].attributes, link |-> rows[i].link, read |-> rows[i].read]
        /\ rows[i].link = L!Locator(b[i].release, 1, b[i].shape)
    BY <1>2 DEF L!Imported, L!Row
  <2>3. rows[i].link \in Locators /\ rows[i].link.release = b[i].release
    BY <2>1, <2>2 DEF Locators, L!Locator
  <2>4. rows[i].attributes \in Described(b[i].release)
    BY <1>5, <2>2 DEF Described, BackedUp
  <2> QED BY <2>1, <2>2, <2>3, <2>4, LinksAreSome DEF Row, Fits
<1>6. DOMAIN b = 1..Len(b) /\ Len(b) \in Nat /\ DOMAIN rows = 1..Len(b)
  BY <1>2, <1>4
<1>7. rows \in Seq(Row)
  <2>1. rows = [i \in 1..Len(b) |-> rows[i]]
    BY <1>2, <1>6
  <2> QED BY <1>5, <1>6, <2>1
<1>8. OneEach(rows) /\ Fitting
  BY <1>2, <1>5, <1>6 DEF OneEach, Fitting, Distinct, HeldOnce
<1>9. \A p \in Refreshers : refresher[p] = L!Resting
  BY <1>3
<1>10. ChaptersTyped
  <2>1. \A p \in Refreshers : L!RefresherOK(p)
    BY <1>7, <1>9, RestingFits DEF L!RefresherOK, L!At
  <2>2. refresher \in [Refreshers -> Refresher]
    BY <1>3, RestingFits
  <2>3. /\ published \in [Releases -> Nat \cup {None}]
        /\ \A r \in Releases : published[r] \in Nat /\ published[r] <= moves + 1
    BY <1>2, <1>3
  <2>4. moves \in Nat /\ moves <= MaxMoves
    <3>1. moves = 0
      BY <1>3
    <3> QED BY <1>4, <3>1
  <2>5. log \subseteq DOMAIN rows /\ fetched \in BOOLEAN /\ due \subseteq Releases
    BY <1>3
  <2> QED BY <1>7, <2>1, <2>2, <2>3, <2>4, <2>5 DEF ChaptersTyped
<1>11. RefreshInv
  BY <1>9, RestingFits, NothingListed DEF RefreshInv, Snapshot, HasListed, Chosen, Own, L!At
<1> QED BY <1>3, <1>8, <1>10, <1>11 DEF ChaptersInv, RowsInv, L!ReadFollowsRelease

\* One refresh goes on, and the chapters stay as they are.
LEMMA OneRefreshMoves ==
    ASSUME ChaptersInv, NEW p \in Refreshers, NEW r \in Refresher, refresher' = [refresher EXCEPT ![p] = r],
           UNCHANGED <<published, rows, due, moves>>, log' \subseteq DOMAIN rows, fetched' \in BOOLEAN,
           r.pc # "link", r.row \in 0..Len(rows), r.new \subseteq DOMAIN rows, r.todo \subseteq r.items,
           Snapshot(p)', Chosen(p)'
    PROVE  ChaptersInv'
<1>1. /\ refresher \in [Refreshers -> Refresher] /\ refresher' \in [Refreshers -> Refresher]
      /\ refresher'[p] = r /\ \A q \in Refreshers \ {p} : refresher'[q] = refresher[q]
  BY DEF ChaptersInv, ChaptersTyped
<1>2. L!RefresherOK(p)'
  <2>1. r.pc \in Labels
    BY DEF Refresher
  <2> QED BY <1>1, <2>1 DEF L!RefresherOK, L!At, Labels
<1>3. \A q \in Refreshers \ {p} : L!RefresherOK(q)' /\ Snapshot(q)' /\ Chosen(q)'
  <2> TAKE q \in Refreshers \ {p}
  <2>1. L!RefresherOK(q)'
    BY <1>1 DEF ChaptersInv, ChaptersTyped, L!RefresherOK, L!At
  <2>2. L!Details' = L!Details
    BY DEF L!Details, L!Shown
  <2>3. Snapshot(q)'
    BY <1>1, <2>2 DEF ChaptersInv, RefreshInv, Snapshot, HasListed, Current
  <2>4. Chosen(q)'
    BY <1>1 DEF ChaptersInv, RefreshInv, Chosen
  <2> QED BY <2>1, <2>3, <2>4
<1>4. Own'
  BY <1>1 DEF ChaptersInv, RefreshInv, Own, L!At
<1>5. ChaptersTyped'
  BY <1>1, <1>2, <1>3 DEF ChaptersInv, ChaptersTyped
<1>6. RowsInv'
  BY DEF ChaptersInv, RowsInv, Fitting, OneEach, L!ReadFollowsRelease
<1> QED BY <1>3, <1>4, <1>5, <1>6 DEF ChaptersInv, RefreshInv

-----------------------------------------------------------------------------
(* The chapters of a title: each step keeps the invariant                  *)

LEMMA RefresherFacts ==
    ASSUME ChaptersInv, NEW p \in Refreshers
    PROVE  /\ refresher[p] \in Refresher /\ refresher \in [Refreshers -> Refresher]
           /\ refresher[p].row \in 0..Len(rows) /\ refresher[p].new \subseteq DOMAIN rows
           /\ refresher[p].todo \subseteq refresher[p].items
           /\ (refresher[p].pc = "link" => refresher[p].row # 0)
           /\ Snapshot(p) /\ Chosen(p) /\ Listing(refresher[p].before)
           /\ log \subseteq DOMAIN rows /\ fetched \in BOOLEAN
BY DEF ChaptersInv, ChaptersTyped, RefreshInv, Snapshot, L!RefresherOK, L!At

LEMMA RowsListed == ASSUME ChaptersInv, L!Listable PROVE Listing(rows)
<1>1. \A i \in DOMAIN rows : rows[i].link # None
  BY ChapterRows DEF ChaptersInv
<1>2. rows \in Seq(Row)
  BY DEF ChaptersInv, ChaptersTyped
<1> QED BY <1>1, <1>2 DEF ChaptersInv, RowsInv, Fitting, Listing

\* A refresh is over, or fails; what it recorded stays.
LEMMA RestKeeps ==
    ASSUME ChaptersInv, NEW p \in Refreshers, L!Rest(p), UNCHANGED <<published, rows, due, moves>>,
           log' \subseteq DOMAIN rows, fetched' \in BOOLEAN
    PROVE  ChaptersInv'
<1> DEFINE r == L!Resting
<1>1. refresher' = [refresher EXCEPT ![p] = r] /\ refresher'[p] = r
  BY RefresherFacts DEF L!Rest
<1>2. /\ r \in Refresher /\ r.pc = "idle" /\ r.before = <<>> /\ r.row = 0
      /\ r.new = {} /\ r.todo = {} /\ r.items = {}
  BY RestingFits
<1> HIDE DEF r
<1>3. Snapshot(p)' /\ Chosen(p)'
  BY <1>1, <1>2, NothingListed DEF Snapshot, HasListed, Chosen
<1>4. r.pc # "link" /\ r.row \in 0..Len(rows) /\ r.new \subseteq DOMAIN rows /\ r.todo \subseteq r.items
  BY <1>2, ChapterRows DEF ChaptersInv
<1> QED BY <1>1, <1>2, <1>3, <1>4, OneRefreshMoves

LEMMA BeginKeeps == ASSUME ChaptersInv, NEW p \in Refreshers, L!Begin(p) PROVE ChaptersInv'
<1>1. /\ refresher[p].pc = "idle" /\ UNCHANGED <<published, rows, due, moves, log, fetched>>
      /\ \/ p \in Viewers /\ refresher' = [refresher EXCEPT ![p].pc = "resolve"]
         \/ L!Listable /\ refresher' = [refresher EXCEPT ![p].pc = "resolve", ![p].before = rows]
  BY DEF L!Begin, L!At, L!countVars
<1>2. /\ refresher[p] \in Refresher /\ refresher \in [Refreshers -> Refresher]
      /\ refresher[p].row \in 0..Len(rows) /\ refresher[p].new \subseteq DOMAIN rows
      /\ refresher[p].todo \subseteq refresher[p].items /\ Snapshot(p)
      /\ log \subseteq DOMAIN rows /\ fetched \in BOOLEAN /\ rows \in Seq(Row)
  BY RefresherFacts DEF ChaptersInv, ChaptersTyped
<1>3. CASE p \in Viewers /\ refresher' = [refresher EXCEPT ![p].pc = "resolve"]
  <2> DEFINE r == [refresher[p] EXCEPT !.pc = "resolve"]
  <2>1. /\ r \in Refresher /\ refresher' = [refresher EXCEPT ![p] = r] /\ refresher'[p] = r
        /\ r.pc = "resolve" /\ r.before = refresher[p].before /\ r.row = refresher[p].row
        /\ r.new = refresher[p].new /\ r.todo = refresher[p].todo /\ r.items = refresher[p].items
    BY <1>2, <1>3 DEF Refresher, Labels
  <2> HIDE DEF r
  <2>2. Snapshot(p)' /\ Chosen(p)'
    BY <1>1, <1>2, <1>3, <2>1 DEF Snapshot, HasListed, Chosen
  <2> QED BY <1>1, <1>2, <2>1, <2>2, OneRefreshMoves
<1>4. CASE L!Listable /\ refresher' = [refresher EXCEPT ![p].pc = "resolve", ![p].before = rows]
  <2> DEFINE r == [refresher[p] EXCEPT !.pc = "resolve", !.before = rows]
  <2>1. /\ r \in Refresher /\ refresher' = [refresher EXCEPT ![p] = r] /\ refresher'[p] = r
        /\ r.pc = "resolve" /\ r.before = rows /\ r.row = refresher[p].row
        /\ r.new = refresher[p].new /\ r.todo = refresher[p].todo /\ r.items = refresher[p].items
    BY <1>2, <1>4 DEF Refresher, Labels
  <2> HIDE DEF r
  <2>2. Listing(rows)
    BY <1>4, RowsListed
  <2>3. Snapshot(p)' /\ Chosen(p)'
    BY <1>1, <2>1, <2>2 DEF Snapshot, HasListed, Chosen, Listing
  <2> QED BY <1>1, <1>2, <2>1, <2>3, OneRefreshMoves
<1> QED BY <1>1, <1>3, <1>4

LEMMA ResolveKeeps == ASSUME ChaptersInv, NEW p \in Refreshers, L!Resolve(p) PROVE ChaptersInv'
<1> DEFINE label == IF p \in Viewers THEN "list" ELSE "next"
<1>1. /\ refresher[p].pc = "resolve" /\ UNCHANGED <<published, rows, due, moves, log, fetched>>
      /\ \/ L!Rest(p)
         \/ refresher' = [refresher EXCEPT ![p].pc = label, ![p].items = L!Details, ![p].todo = L!Details]
  BY DEF L!Resolve, L!At, L!countVars
<1>2. /\ refresher[p] \in Refresher /\ refresher \in [Refreshers -> Refresher]
      /\ refresher[p].row \in 0..Len(rows) /\ refresher[p].new \subseteq DOMAIN rows /\ Snapshot(p)
      /\ log \subseteq DOMAIN rows /\ fetched \in BOOLEAN
  BY RefresherFacts
<1>3. L!Details \subseteq Items /\ L!Details' = L!Details
  <2>1. L!Details \subseteq Items
    BY DetailsFit DEF ChaptersInv
  <2>2. L!Details' = L!Details
    BY <1>1 DEF L!Details, L!Shown
  <2> QED BY <2>1, <2>2
<1>4. CASE refresher' = [refresher EXCEPT ![p].pc = label, ![p].items = L!Details, ![p].todo = L!Details]
  <2> DEFINE d == L!Details
             r == [refresher[p] EXCEPT !.pc = label, !.items = d, !.todo = d]
  <2> HIDE DEF d
  <2>1. label \in Labels /\ (label = "list" \/ (label = "next" /\ p \notin Viewers))
    BY DEF Labels
  <2>2. d \in SUBSET Items
    BY <1>3 DEF d
  <2> HIDE DEF label
  <2>3. /\ r \in Refresher /\ refresher'[p] = r
        /\ r.pc = label /\ r.before = refresher[p].before /\ r.row = refresher[p].row
        /\ r.new = refresher[p].new /\ r.todo = d /\ r.items = d
    BY <1>2, <1>4, <2>1, <2>2 DEF Refresher, d
  <2>4. refresher' = [refresher EXCEPT ![p] = r]
    BY <1>2, <1>4 DEF Refresher, d
  <2> HIDE DEF r
  <2>5. d' = d
    BY <1>3 DEF d
  <2>6. Snapshot(p)'
    BY <1>1, <1>2, <1>3, <2>1, <2>3 DEF Snapshot, HasListed, Current, d
  <2>7. Chosen(p)' /\ r.pc # "link"
    BY <2>1, <2>3 DEF Chosen
  <2>8. r.row \in 0..Len(rows) /\ r.new \subseteq DOMAIN rows /\ r.todo \subseteq r.items
    BY <1>2, <2>3
  <2>9. UNCHANGED <<published, rows, due, moves>> /\ log' \subseteq DOMAIN rows /\ fetched' \in BOOLEAN
    BY <1>1, <1>2
  <2>10. r \in Refresher
    BY <2>3
  <2> QED BY <2>4, <2>6, <2>7, <2>8, <2>9, <2>10, OneRefreshMoves
<1> QED BY <1>1, <1>2, <1>4, RestKeeps

LEMMA ListKeeps == ASSUME ChaptersInv, NEW p \in Refreshers, L!List(p) PROVE ChaptersInv'
<1>1. /\ refresher[p].pc = "list" /\ UNCHANGED <<published, rows, due, moves, log, fetched>>
      /\ \/ L!Rest(p)
         \/ L!Listable /\ refresher' = [refresher EXCEPT ![p].pc = "next", ![p].before = rows]
  BY DEF L!List, L!At, L!countVars
<1>2. /\ refresher[p] \in Refresher /\ refresher \in [Refreshers -> Refresher]
      /\ refresher[p].row \in 0..Len(rows) /\ refresher[p].new \subseteq DOMAIN rows
      /\ refresher[p].todo \subseteq refresher[p].items /\ Snapshot(p)
      /\ log \subseteq DOMAIN rows /\ fetched \in BOOLEAN /\ rows \in Seq(Row)
  BY RefresherFacts DEF ChaptersInv, ChaptersTyped
<1>3. CASE L!Listable /\ refresher' = [refresher EXCEPT ![p].pc = "next", ![p].before = rows]
  <2> DEFINE r == [refresher[p] EXCEPT !.pc = "next", !.before = rows]
  <2>1. /\ r \in Refresher /\ refresher' = [refresher EXCEPT ![p] = r] /\ refresher'[p] = r
        /\ r.pc = "next" /\ r.before = rows /\ r.row = refresher[p].row
        /\ r.new = refresher[p].new /\ r.todo = refresher[p].todo /\ r.items = refresher[p].items
    BY <1>2, <1>3 DEF Refresher, Labels
  <2> HIDE DEF r
  <2>2. Listing(rows) /\ L!Details' = L!Details
    BY <1>1, <1>3, RowsListed DEF L!Details, L!Shown
  <2>3. Snapshot(p)' /\ Chosen(p)'
    BY <1>1, <1>2, <2>1, <2>2 DEF Snapshot, HasListed, Chosen, Listing
  <2> QED BY <1>1, <1>2, <2>1, <2>3, OneRefreshMoves
<1> QED BY <1>1, <1>2, <1>3, RestKeeps

\* The chapter an item is stored in is the only one of its release.
LEMMA KnownIsTheOne ==
    ASSUME Distinct, ChaptersInv, Lasting, NEW p \in Refreshers, refresher[p].pc = "next",
           NEW item \in refresher[p].todo
    PROVE  /\ item \in L!Details
           /\ \A i \in L!Known(p, item) : i \in DOMAIN rows /\ rows[i].link # None
                                          /\ rows[i].link.release = item.release
           /\ \A k \in DOMAIN rows : rows[k].link # None /\ rows[k].link.release = item.release
                                       => k \in L!Known(p, item)
<1> DEFINE before == refresher[p].before
           items == refresher[p].items
           linked == {i \in DOMAIN rows : rows[i].link = L!Id(item)}
           adopted == L!Adopted(before, items)
<1>1. items = L!Details /\ item \in items /\ Listing(before)
  BY RefresherFacts DEF Snapshot
<1>2. Answer(items) /\ item \in Items /\ \A link : Current(link) /\ link.release = item.release => link = L!Id(item)
  BY <1>1, DetailsFit DEF ChaptersInv
<1>3. L!Id(item) # None /\ L!Id(item).release = item.release
  BY <1>2, IdFacts
<1>4. /\ \A k \in DOMAIN before : /\ k \in DOMAIN rows /\ rows[k].link # None
                                  /\ rows[k].link.release = before[k].link.release
      /\ \A k \in DOMAIN rows : \/ rows[k].link = None \/ Current(rows[k].link)
                                \/ k \in DOMAIN before /\ rows[k].link = before[k].link
  BY RefresherFacts DEF Snapshot, HasListed
<1>5. OneEach(rows)
  BY DEF ChaptersInv, RowsInv
<1>6. L!Known(p, item) = IF linked # {} THEN linked ELSE {pair[1] : pair \in {q \in adopted : q[2] = item}}
  BY DEF L!Known
<1>7. CASE linked # {}
  <2>1. PICK j \in DOMAIN rows : rows[j].link = L!Id(item)
    BY <1>7
  <2>2. \A k \in DOMAIN rows : rows[k].link # None /\ rows[k].link.release = item.release => k = j
    BY <1>3, <1>5, <2>1 DEF OneEach
  <2> HIDE DEF adopted
  <2> QED BY <1>1, <1>3, <1>6, <1>7, <2>1, <2>2
<1>8. CASE linked = {}
  <2>1. L!Known(p, item) = {pair[1] : pair \in {q \in adopted : q[2] = item}}
    BY <1>6, <1>8
  <2>2. /\ Paired(adopted, before, items)
        /\ \A k \in DOMAIN before : before[k].link.release = item.release /\ before[k].link # L!Id(item)
                                       => <<k, item>> \in adopted
    <3>1. Covered(before, items)
      <4> SUFFICES ASSUME NEW k \in DOMAIN before, Confusable(before[k].link.release)
                   PROVE  \E t \in items : t.release = before[k].link.release
        BY DEF Covered
      <4> DEFINE r == before[k].link.release
                 t == [release |-> r, version |-> published[r]]
      <4>2. r \in Releases /\ L!Shown(r)
        BY <1>4 DEF Lasting, OnShow
      <4>3. t \in L!Details /\ t.release = r
        BY <4>2 DEF L!Details
      <4> QED BY <1>1, <4>3
    <3> HIDE DEF before, items
    <3> QED BY <1>1, <1>2, <3>1, AdoptionFits DEF Distinct
  <2> HIDE DEF adopted, before
  <2>3. \A i \in L!Known(p, item) : i \in DOMAIN before /\ before[i].link.release = item.release
    BY <2>1, <2>2 DEF Paired
  <2>4. ASSUME NEW k \in DOMAIN rows, rows[k].link # None, rows[k].link.release = item.release
        PROVE  k \in L!Known(p, item)
    <3>1. rows[k].link # L!Id(item)
      BY <1>8
    <3>2. k \in DOMAIN before /\ rows[k].link = before[k].link
      BY <1>2, <1>4, <2>4, <3>1 DEF before
    <3>3. <<k, item>> \in adopted
      BY <2>2, <2>4, <3>1, <3>2
    <3>4. <<k, item>>[1] = k /\ <<k, item>>[2] = item
      OBVIOUS
    <3> QED BY <2>1, <3>3, <3>4
  <2>5. \A k \in DOMAIN before : /\ k \in DOMAIN rows /\ rows[k].link # None
                                 /\ rows[k].link.release = before[k].link.release
    BY <1>4 DEF before
  <2> QED BY <1>1, <2>3, <2>4, <2>5
<1> QED BY <1>7, <1>8

LEMMA LookupKeeps == ASSUME Distinct, ChaptersInv, Lasting, NEW p \in Refreshers, L!Lookup(p) PROVE ChaptersInv'
<1>1. refresher[p].pc = "next" /\ UNCHANGED <<published, rows, due, moves, log, fetched>>
  BY DEF L!Lookup, L!At, L!countVars
<1>2. PICK item \in refresher[p].todo :
          refresher' = [refresher EXCEPT ![p].pc = "write", ![p].item = item, ![p].todo = @ \ {item},
                          ![p].row = IF L!Known(p, item) = {} THEN 0 ELSE CHOOSE i \in L!Known(p, item) : TRUE]
  BY DEF L!Lookup
<1> DEFINE known == L!Known(p, item)
           i == IF known = {} THEN 0 ELSE CHOOSE i \in known : TRUE
           todo == refresher[p].todo \ {item}
           r == [refresher[p] EXCEPT !.pc = "write", !.item = item, !.todo = todo, !.row = i]
<1>3. /\ refresher[p] \in Refresher /\ refresher \in [Refreshers -> Refresher]
      /\ refresher[p].new \subseteq DOMAIN rows
      /\ refresher[p].todo \subseteq refresher[p].items /\ Snapshot(p)
      /\ log \subseteq DOMAIN rows /\ fetched \in BOOLEAN
  BY RefresherFacts
<1>4. /\ item \in L!Details
      /\ \A k \in known : k \in DOMAIN rows /\ rows[k].link # None /\ rows[k].link.release = item.release
      /\ \A k \in DOMAIN rows : rows[k].link # None /\ rows[k].link.release = item.release => k \in known
  BY <1>1, KnownIsTheOne
<1>5. (known = {} /\ i = 0) \/ (known # {} /\ i \in known)
  OBVIOUS
<1>6. DOMAIN rows = 1..Len(rows) /\ Len(rows) \in Nat
  BY ChapterRows DEF ChaptersInv
<1>7. refresher' = [refresher EXCEPT ![p].pc = "write", ![p].item = item, ![p].todo = @ \ {item}, ![p].row = i]
  BY <1>2
<1> HIDE DEF known, i
<1>8. i \in 0..Len(rows) /\ item \in Items
  BY <1>4, <1>5, <1>6, DetailsFit DEF ChaptersInv
<1>9. /\ r \in Refresher /\ r.pc = "write" /\ r.before = refresher[p].before /\ r.row = i /\ r.item = item
      /\ r.new = refresher[p].new /\ r.todo = todo /\ r.items = refresher[p].items
  <2>1. todo \in SUBSET Items /\ i \in Nat
    BY <1>3, <1>6, <1>8 DEF Refresher
  <2> HIDE DEF todo
  <2> QED BY <1>3, <1>8, <2>1 DEF Refresher, Labels
<1>10. refresher' = [refresher EXCEPT ![p] = r] /\ refresher'[p] = r
  BY <1>3, <1>7 DEF Refresher
<1>11. todo \subseteq refresher[p].items
  BY <1>3
<1> HIDE DEF r, todo
<1>12. L!Details' = L!Details
  BY <1>1 DEF L!Details, L!Shown
<1>13. Snapshot(p)'
  BY <1>1, <1>3, <1>9, <1>10, <1>12 DEF Snapshot, HasListed, Current
<1>14. OneEach(rows)
  BY DEF ChaptersInv, RowsInv
<1>15. \A k \in DOMAIN rows : rows[k].link # None /\ rows[k].link.release = item.release => k = i
  BY <1>4, <1>5, <1>14 DEF OneEach
<1>16. i # 0 => rows[i].link # None /\ rows[i].link.release = item.release
  BY <1>4, <1>5
<1>17. item \in refresher[p].items
  BY <1>3
<1>18. Chosen(p)'
  BY <1>1, <1>9, <1>10, <1>15, <1>16, <1>17 DEF Chosen
<1> QED BY <1>1, <1>3, <1>8, <1>9, <1>10, <1>11, <1>13, <1>18, OneRefreshMoves

LEMMA StoredKeeps == ASSUME ChaptersInv, NEW p \in Refreshers, L!Stored(p) PROVE ChaptersInv'
<1>1. /\ refresher[p].pc = "next" /\ UNCHANGED <<published, rows, due, moves, log>> /\ fetched' = TRUE
      /\ L!Rest(p) \/ refresher' = [refresher EXCEPT ![p].pc = "record"]
  BY DEF L!Stored, L!At, L!countVars
<1>2. /\ refresher[p] \in Refresher /\ refresher \in [Refreshers -> Refresher]
      /\ refresher[p].row \in 0..Len(rows) /\ refresher[p].new \subseteq DOMAIN rows
      /\ refresher[p].todo \subseteq refresher[p].items /\ Snapshot(p) /\ log \subseteq DOMAIN rows
  BY RefresherFacts
<1>3. log' \subseteq DOMAIN rows /\ fetched' \in BOOLEAN
  BY <1>1, <1>2
<1>4. CASE refresher' = [refresher EXCEPT ![p].pc = "record"]
  <2> DEFINE r == [refresher[p] EXCEPT !.pc = "record"]
  <2>1. /\ r \in Refresher /\ refresher' = [refresher EXCEPT ![p] = r] /\ refresher'[p] = r
        /\ r.pc = "record" /\ r.before = refresher[p].before /\ r.row = refresher[p].row
        /\ r.new = refresher[p].new /\ r.todo = refresher[p].todo /\ r.items = refresher[p].items
    BY <1>2, <1>4 DEF Refresher, Labels
  <2> HIDE DEF r
  <2>2. Snapshot(p)' /\ Chosen(p)'
    BY <1>1, <1>2, <2>1 DEF Snapshot, HasListed, Chosen
  <2> QED BY <1>1, <1>2, <1>3, <2>1, <2>2, OneRefreshMoves
<1> QED BY <1>1, <1>3, <1>4, RestKeeps

LEMMA RecordKeeps == ASSUME ChaptersInv, NEW p \in Refreshers, L!Record(p) PROVE ChaptersInv'
<1>1. /\ refresher[p].pc = "record" /\ UNCHANGED <<published, rows, due, moves, fetched>>
      /\ \/ L!Rest(p) /\ log' = log
         \/ refresher' = refresher /\ \E i \in refresher[p].new \ log : log' = log \cup {i}
  BY DEF L!Record, L!At, L!countVars
<1>2. /\ refresher[p] \in Refresher /\ refresher \in [Refreshers -> Refresher]
      /\ refresher[p].row \in 0..Len(rows) /\ refresher[p].new \subseteq DOMAIN rows
      /\ refresher[p].todo \subseteq refresher[p].items /\ Snapshot(p)
      /\ log \subseteq DOMAIN rows /\ fetched \in BOOLEAN
  BY RefresherFacts
<1>3. log' \subseteq DOMAIN rows /\ fetched' \in BOOLEAN
  BY <1>1, <1>2
<1>4. CASE refresher' = refresher
  <2> DEFINE r == refresher[p]
  <2>1. refresher' = [refresher EXCEPT ![p] = r] /\ refresher'[p] = r
    BY <1>2, <1>4
  <2>2. Snapshot(p)' /\ Chosen(p)'
    BY <1>1, <1>2, <2>1 DEF Snapshot, HasListed, Chosen
  <2> HIDE DEF r
  <2> QED BY <1>1, <1>2, <1>3, <2>1, <2>2, OneRefreshMoves DEF r
<1> QED BY <1>1, <1>3, <1>4, RestKeeps

\* The chapters change otherwise than in their locators, and some are added without one.
LEMMA LinksStay ==
    ASSUME ChaptersInv, published' = published, rows' \in Seq(Row), Len(rows) <= Len(rows'),
           \A k \in DOMAIN rows :
              /\ k \in DOMAIN rows' /\ rows'[k].link = rows[k].link
              /\ rows[k].link = None => rows'[k].attributes = rows[k].attributes,
           \A k \in DOMAIN rows' : k \in DOMAIN rows \/ rows'[k].link = None
    PROVE  /\ OneEach(rows')
           /\ \A q \in Refreshers : refresher'[q] = refresher[q] =>
                 L!RefresherOK(q)' /\ Snapshot(q)' /\ Chosen(q)'
<1>1. OneEach(rows')
  BY DEF ChaptersInv, RowsInv, OneEach
<1>2. ASSUME NEW q \in Refreshers, refresher'[q] = refresher[q]
      PROVE  L!RefresherOK(q)' /\ Snapshot(q)' /\ Chosen(q)'
  <2>1. /\ refresher[q].row \in 0..Len(rows) /\ refresher[q].new \subseteq DOMAIN rows
        /\ Snapshot(q) /\ Chosen(q) /\ L!RefresherOK(q) /\ Len(rows) \in Nat /\ Len(rows') \in Nat
        /\ DOMAIN rows = 1..Len(rows)
    BY RefresherFacts, ChapterRows DEF ChaptersInv, ChaptersTyped
  <2>2. L!RefresherOK(q)'
    BY <1>2, <2>1 DEF L!RefresherOK, L!At
  <2>3. L!Details' = L!Details
    BY DEF L!Details, L!Shown
  <2>4. Snapshot(q)'
    <3>1. \A link : Current(link)' <=> Current(link)
      BY DEF Current
    <3> QED BY <1>2, <2>1, <2>3, <3>1 DEF Snapshot, HasListed
  <2>5. Chosen(q)'
    <3> SUFFICES ASSUME refresher[q].pc \in {"write", "link"}
                 PROVE  LET item == refresher[q].item
                            i == refresher[q].row
                        IN  /\ item \in refresher[q].items
                            /\ \A k \in DOMAIN rows' : rows'[k].link # None /\ rows'[k].link.release = item.release
                                                         => k = i \/ rows'[k].link = L!Id(item)
                            /\ i # 0 => \/ rows'[i].link # None /\ rows'[i].link.release = item.release
                                        \/ /\ rows'[i].link = None /\ refresher[q].pc = "link"
                                           /\ rows'[i].attributes = Attributes[item.release]
      BY <1>2 DEF Chosen
    <3>1. refresher[q].row # 0 => refresher[q].row \in DOMAIN rows
      BY <2>1
    <3> QED BY <2>1, <3>1 DEF Chosen
  <2> QED BY <2>2, <2>4, <2>5
<1> QED BY <1>1, <1>2

\* The reader marks a chapter.
LEMMA MarkedKeeps ==
    ASSUME ChaptersInv, L!Listable, NEW i \in DOMAIN rows, NEW value \in BOOLEAN,
           rows' = [rows EXCEPT ![i].read = value], UNCHANGED <<published, log, fetched, refresher, moves>>,
           \/ due' = due \ {rows[i].link.release}
           \/ value /\ due' = due
           \/ value /\ due' = due \cup {rows[i].link.release}
    PROVE  ChaptersInv'
<1>1. /\ rows \in Seq(Row) /\ DOMAIN rows = 1..Len(rows) /\ Len(rows) \in Nat
      /\ \A k \in DOMAIN rows : rows[k] \in Row /\ rows[k].link # None /\ rows[k].link.release \in Releases
  BY ChapterRows DEF ChaptersInv, ChaptersTyped
<1>2. /\ DOMAIN rows' = DOMAIN rows /\ Len(rows') = Len(rows) /\ rows' \in Seq(Row)
      /\ \A k \in DOMAIN rows : /\ rows'[k].link = rows[k].link /\ rows'[k].attributes = rows[k].attributes
                                /\ rows'[k].read = IF k = i THEN value ELSE rows[k].read
  <2>1. /\ DOMAIN rows' = DOMAIN rows
        /\ \A k \in DOMAIN rows : rows'[k] = IF k = i THEN [rows[i] EXCEPT !.read = value] ELSE rows[k]
    BY <1>1
  <2>2. /\ [rows[i] EXCEPT !.read = value] \in Row /\ [rows[i] EXCEPT !.read = value].link = rows[i].link
        /\ [rows[i] EXCEPT !.read = value].attributes = rows[i].attributes
        /\ [rows[i] EXCEPT !.read = value].read = value
    BY <1>1 DEF Row
  <2>3. rows' \in Seq(Row) /\ Len(rows') = Len(rows)
    <3>1. rows' = [rows EXCEPT ![i] = [rows[i] EXCEPT !.read = value]]
      OBVIOUS
    <3> QED BY <1>1, <2>2, <3>1
  <2> QED BY <2>1, <2>2, <2>3
<1>3. OneEach(rows') /\ \A q \in Refreshers : L!RefresherOK(q)' /\ Snapshot(q)' /\ Chosen(q)'
  <2>1. Len(rows) <= Len(rows')
    BY <1>1, <1>2
  <2> QED BY <1>1, <1>2, <2>1, LinksStay
<1>4. Own'
  BY <1>1, <1>2, RefresherFacts DEF ChaptersInv, RefreshInv, Own, L!At
<1>5. Fitting'
  BY <1>2 DEF ChaptersInv, RowsInv, Fitting, Fits
<1>6. L!ReadFollowsRelease'
  <2> SUFFICES ASSUME NEW r \in due'
               PROVE  \E k \in DOMAIN rows' : rows'[k].read /\ rows'[k].link # None /\ rows'[k].link.release = r
    BY DEF L!ReadFollowsRelease
  <2>1. CASE r = rows[i].link.release /\ value
    BY <1>1, <1>2, <2>1
  <2>2. CASE r \in due /\ (r # rows[i].link.release \/ value)
    <3>1. PICK k \in DOMAIN rows : rows[k].read /\ rows[k].link # None /\ rows[k].link.release = r
      BY <2>2 DEF ChaptersInv, RowsInv, L!ReadFollowsRelease
    <3> QED BY <1>2, <2>2, <3>1
  <2> QED BY <2>1, <2>2
<1>7. due' \subseteq Releases
  BY <1>1 DEF ChaptersInv, ChaptersTyped
<1>8. ChaptersTyped'
  BY <1>2, <1>3, <1>7 DEF ChaptersInv, ChaptersTyped
<1> QED BY <1>3, <1>4, <1>5, <1>6, <1>8 DEF ChaptersInv, RowsInv, RefreshInv

LEMMA MarkKeeps ==
    ASSUME ChaptersInv, NEW i \in DOMAIN rows, NEW value \in BOOLEAN, L!Mark(i, value)
    PROVE  ChaptersInv'
BY MarkedKeeps DEF L!Mark

LEMMA AcknowledgeKeeps == ASSUME ChaptersInv, NEW i \in log, L!Acknowledge(i) PROVE ChaptersInv'
<1>1. i \in DOMAIN rows
  BY DEF ChaptersInv, ChaptersTyped
<1>2. /\ L!Listable /\ rows' = [rows EXCEPT ![i].read = TRUE]
      /\ UNCHANGED <<published, log, fetched, refresher, moves>>
      /\ due' = due \/ due' = due \cup {rows[i].link.release}
  BY DEF L!Acknowledge
<1> QED BY <1>1, <1>2, MarkedKeeps

\* The source releases, moves or withdraws a chapter, or the daemon starts again: nobody is at work.
LEMMA NobodyAtWork ==
    ASSUME ChaptersInv, UNCHANGED rows, \A p \in Refreshers : refresher'[p] \in {refresher[p], L!Resting},
           \A p \in Refreshers : refresher'[p].pc = "idle",
           refresher' \in [Refreshers -> Refresher], log' = log, fetched' = fetched, due' \subseteq due,
           moves' \in Nat, moves' <= MaxMoves, published' \in [Releases -> Nat \cup {None}],
           \A r \in Releases : published'[r] = None \/ (published'[r] \in Nat /\ published'[r] <= moves' + 1)
    PROVE  ChaptersInv'
<1>1. \A p \in Refreshers : L!RefresherOK(p)' /\ Snapshot(p)' /\ Chosen(p)'
  <2> TAKE p \in Refreshers
  <2>1. CASE refresher'[p] = refresher[p]
    <3>1. L!RefresherOK(p)'
      BY <2>1 DEF ChaptersInv, ChaptersTyped, L!RefresherOK, L!At
    <3>2. Snapshot(p)' /\ Chosen(p)'
      BY <2>1 DEF ChaptersInv, RefreshInv, Snapshot, HasListed, Chosen
    <3> QED BY <3>1, <3>2
  <2>2. CASE refresher'[p] = L!Resting
    <3>1. 0 \in 0..Len(rows)
      BY ChapterRows DEF ChaptersInv
    <3>2. L!RefresherOK(p)'
      BY <2>2, <3>1, RestingFits DEF L!RefresherOK, L!At
    <3>3. Snapshot(p)' /\ Chosen(p)'
      BY <2>2, RestingFits, NothingListed DEF Snapshot, HasListed, Chosen
    <3> QED BY <3>2, <3>3
  <2> QED BY <2>1, <2>2
<1>2. Own'
  BY DEF Own, L!At
<1>3. RowsInv'
  BY DEF ChaptersInv, RowsInv, Fitting, OneEach, L!ReadFollowsRelease
<1>4. ChaptersTyped'
  BY <1>1 DEF ChaptersInv, ChaptersTyped
<1> QED BY <1>1, <1>2, <1>3, <1>4 DEF ChaptersInv, RefreshInv

LEMMA SourceKeeps ==
    ASSUME Distinct, ChaptersInv, NEW r \in Releases, L!Publish(r) \/ L!Withdraw(r)
    PROVE  ChaptersInv'
<1>1. /\ \A p \in Refreshers : refresher[p].pc = "idle"
      /\ moves < MaxMoves /\ moves' = moves + 1 /\ UNCHANGED <<rows, log, fetched, refresher>>
      /\ due' \subseteq due
      /\ \/ \E version \in IF published[r] = None THEN 1 .. moves + 1 ELSE {published[r] + 1} :
               published' = [published EXCEPT ![r] = version]
         \/ published' = [published EXCEPT ![r] = None]
  BY DEF L!Publish, L!Withdraw, L!Settled, L!At, Distinct
<1>2. /\ published \in [Releases -> Nat \cup {None}] /\ moves \in Nat /\ MaxMoves \in Nat
      /\ \A s \in Releases : published[s] = None \/ (published[s] \in Nat /\ published[s] <= moves + 1)
      /\ refresher \in [Refreshers -> Refresher]
  BY RecordsAssumption DEF ChaptersInv, ChaptersTyped, L!LibraryAssumption
<1>3. moves' \in Nat /\ moves' <= MaxMoves
  BY <1>1, <1>2
<1>4. /\ published' \in [Releases -> Nat \cup {None}]
      /\ \A s \in Releases : published'[s] = None \/ (published'[s] \in Nat /\ published'[s] <= moves' + 1)
  <2>1. ASSUME NEW version \in IF published[r] = None THEN 1 .. moves + 1 ELSE {published[r] + 1},
               published' = [published EXCEPT ![r] = version]
        PROVE  /\ published' \in [Releases -> Nat \cup {None}]
               /\ \A s \in Releases : published'[s] = None
                                     \/ (published'[s] \in Nat /\ published'[s] <= moves' + 1)
    <3>1. version \in Nat /\ version <= moves' + 1
      <4>1. CASE published[r] = None
        BY <1>1, <1>2, <2>1, <4>1
      <4>2. CASE published[r] # None
        BY <1>1, <1>2, <2>1, <4>2
      <4> QED BY <4>1, <4>2
    <3>2. \A s \in Releases : published'[s] = IF s = r THEN version ELSE published[s]
      BY <1>2, <2>1
    <3>3. published' \in [Releases -> Nat \cup {None}]
      BY <1>2, <2>1, <3>1
    <3>4. \A s \in Releases : published[s] = None \/ (published[s] \in Nat /\ published[s] <= moves' + 1)
      BY <1>1, <1>2
    <3> QED BY <3>1, <3>2, <3>3, <3>4
  <2>2. CASE published' = [published EXCEPT ![r] = None]
    <3>1. \A s \in Releases : published[s] = None \/ (published[s] \in Nat /\ published[s] <= moves' + 1)
      BY <1>1, <1>2
    <3> QED BY <1>2, <2>2, <3>1
  <2> QED BY <1>1, <2>1, <2>2
<1> QED BY <1>1, <1>2, <1>3, <1>4, NobodyAtWork

LEMMA CrashKeeps == ASSUME ChaptersInv, L!Crash PROVE ChaptersInv'
<1>1. /\ refresher' = [p \in Refreshers |-> L!Resting]
      /\ UNCHANGED <<published, rows, log, fetched, due, moves>>
  BY DEF L!Crash
<1>2. /\ \A p \in Refreshers : refresher'[p] = L!Resting /\ refresher'[p].pc = "idle"
      /\ refresher' \in [Refreshers -> Refresher]
  BY <1>1, RestingFits
<1>3. /\ moves' \in Nat /\ moves' <= MaxMoves /\ published' \in [Releases -> Nat \cup {None}]
      /\ \A r \in Releases : published'[r] = None \/ (published'[r] \in Nat /\ published'[r] <= moves' + 1)
  BY <1>1 DEF ChaptersInv, ChaptersTyped
<1> QED BY <1>1, <1>2, <1>3, NobodyAtWork

LEMMA WriteKeeps == ASSUME ChaptersInv, NEW p \in Refreshers, L!Write(p) PROVE ChaptersInv'
<1> DEFINE item == refresher[p].item
           i == refresher[p].row
           a == Attributes[item.release]
           n == Len(rows)
           j == IF i = 0 THEN n + 1 ELSE i
           r == [refresher[p] EXCEPT !.pc = "link", !.row = j]
<1>1. /\ refresher[p].pc = "write" /\ UNCHANGED <<published, log, fetched, due, moves>>
      /\ \/ i = 0 /\ rows' = Append(rows, L!Row(a, None))
            /\ refresher' = [refresher EXCEPT ![p].pc = "link", ![p].row = n + 1]
         \/ i # 0 /\ rows' = [rows EXCEPT ![i].attributes = a] /\ refresher' = [refresher EXCEPT ![p].pc = "link"]
  BY DEF L!Write, L!At, L!countVars
<1>2. /\ refresher[p] \in Refresher /\ refresher \in [Refreshers -> Refresher]
      /\ i \in 0..n /\ refresher[p].new \subseteq DOMAIN rows
      /\ refresher[p].todo \subseteq refresher[p].items /\ Snapshot(p)
      /\ log \subseteq DOMAIN rows /\ fetched \in BOOLEAN
  BY RefresherFacts
<1>3. /\ rows \in Seq(Row) /\ DOMAIN rows = 1..n /\ n \in Nat
      /\ \A k \in DOMAIN rows : rows[k] \in Row
  BY ChapterRows DEF ChaptersInv, ChaptersTyped
<1>4. /\ item \in refresher[p].items
      /\ \A k \in DOMAIN rows : rows[k].link # None /\ rows[k].link.release = item.release
                                  => k = i \/ rows[k].link = L!Id(item)
      /\ i # 0 => rows[i].link # None /\ rows[i].link.release = item.release
  BY <1>1, RefresherFacts DEF Chosen
<1>5. item \in Items /\ item.release \in Releases /\ refresher[p].items = L!Details
  BY <1>1, <1>2, <1>4, DetailsFit DEF Snapshot, ChaptersInv
<1>6. a \in Described(item.release) /\ a \in UNION {Described(s) : s \in Releases}
  BY <1>5 DEF Described
<1>7. j \in 1..(n + 1) /\ j # 0
  BY <1>2, <1>3
<1>8. /\ r \in Refresher /\ refresher'[p] = r
      /\ r.pc = "link" /\ r.before = refresher[p].before /\ r.row = j /\ r.item = item
      /\ r.new = refresher[p].new /\ r.todo = refresher[p].todo /\ r.items = refresher[p].items
      /\ \A q \in Refreshers \ {p} : refresher'[q] = refresher[q]
      /\ refresher' \in [Refreshers -> Refresher]
  <2>1. j \in Nat
    BY <1>3, <1>7
  <2>2. /\ r \in Refresher /\ r.pc = "link" /\ r.before = refresher[p].before /\ r.row = j /\ r.item = item
        /\ r.new = refresher[p].new /\ r.todo = refresher[p].todo /\ r.items = refresher[p].items
    BY <1>2, <2>1 DEF Refresher, Labels
  <2>3. refresher' = [refresher EXCEPT ![p] = r]
    BY <1>1, <1>2 DEF Refresher
  <2> HIDE DEF r
  <2> QED BY <1>2, <2>2, <2>3
<1>9. /\ rows' \in Seq(Row) /\ Len(rows) <= Len(rows') /\ j \in DOMAIN rows'
      /\ DOMAIN rows' = DOMAIN rows \cup {j} /\ DOMAIN rows' = 1..Len(rows') /\ Len(rows') \in Nat
      /\ \A k \in DOMAIN rows : /\ k \in DOMAIN rows' /\ rows'[k].link = rows[k].link
                                /\ rows'[k].read = rows[k].read
                                /\ k # j => rows'[k] = rows[k]
      /\ rows'[j].attributes = a /\ (j \in DOMAIN rows <=> i # 0)
      /\ i = 0 => rows'[j].link = None
  <2>1. CASE i = 0
    <3>1. L!Row(a, None) \in Row /\ L!Row(a, None).link = None /\ L!Row(a, None).attributes = a
      BY <1>6 DEF L!Row, Row
    <3>2. rows' = Append(rows, L!Row(a, None)) /\ j = n + 1
      BY <1>1, <2>1
    <3> DEFINE new == L!Row(a, None)
    <3> HIDE DEF new, a, item, i
    <3>3. /\ rows' \in Seq(Row) /\ Len(rows') = n + 1 /\ rows'[n + 1] = new
          /\ \A k \in 1..n : rows'[k] = rows[k]
      BY <1>3, <3>1, <3>2 DEF new
    <3> HIDE DEF j
    <3> QED BY <1>3, <2>1, <3>1, <3>2, <3>3 DEF new
  <2>2. CASE i # 0
    <3>1. i \in DOMAIN rows /\ j = i
      BY <1>2, <1>3, <2>2
    <3>2. rows' = [rows EXCEPT ![i] = [rows[i] EXCEPT !.attributes = a]]
      BY <1>1, <2>2
    <3>3. /\ [rows[i] EXCEPT !.attributes = a] \in Row /\ [rows[i] EXCEPT !.attributes = a].link = rows[i].link
          /\ [rows[i] EXCEPT !.attributes = a].read = rows[i].read
          /\ [rows[i] EXCEPT !.attributes = a].attributes = a
      BY <1>3, <1>6, <3>1 DEF Row
    <3> DEFINE row == [rows[i] EXCEPT !.attributes = a]
    <3>4. /\ rows' \in Seq(Row) /\ Len(rows') = Len(rows) /\ rows'[i] = row /\ DOMAIN rows' = DOMAIN rows
          /\ \A k \in DOMAIN rows : k # i => rows'[k] = rows[k]
      <4>1. row \in Row /\ rows' = [rows EXCEPT ![i] = row]
        BY <3>2, <3>3
      <4> HIDE DEF row, i
      <4> QED BY <1>3, <3>1, <4>1
    <3>5. row.attributes = a /\ row.link = rows[i].link /\ row.read = rows[i].read
      BY <3>3
    <3> HIDE DEF row, j, a, i
    <3>6. DOMAIN rows' = 1..Len(rows') /\ Len(rows') \in Nat /\ Len(rows) <= Len(rows')
      BY <1>3, <3>4
    <3>7. \A k \in DOMAIN rows : rows'[k].link = rows[k].link /\ rows'[k].read = rows[k].read
      BY <3>1, <3>4, <3>5
    <3> QED BY <2>2, <3>1, <3>4, <3>5, <3>6, <3>7
  <2> QED BY <2>1, <2>2
<1> HIDE DEF r, j, a
<1>10. /\ OneEach(rows')
       /\ \A q \in Refreshers \ {p} : L!RefresherOK(q)' /\ Snapshot(q)' /\ Chosen(q)'
  <2>1. \A k \in DOMAIN rows : rows[k].link = None => rows'[k].attributes = rows[k].attributes
    <3>1. j \in DOMAIN rows => rows[j].link # None
      BY <1>4, <1>9 DEF j
    <3> QED BY <1>9, <3>1
  <2>2. \A k \in DOMAIN rows' : k \in DOMAIN rows \/ rows'[k].link = None
    BY <1>9
  <2> QED BY <1>1, <1>8, <1>9, <2>1, <2>2, LinksStay
<1>11. L!RefresherOK(p)'
  BY <1>2, <1>7, <1>8, <1>9 DEF L!RefresherOK, L!At
<1>12. L!Details' = L!Details
  BY <1>1 DEF L!Details, L!Shown
<1>13. \A link : Current(link)' <=> Current(link)
  BY <1>1 DEF Current
<1>14. Snapshot(p)'
  <2>1. /\ Listing(refresher[p].before)
        /\ \A k \in DOMAIN refresher[p].before : /\ k \in DOMAIN rows /\ rows[k].link # None
                                /\ rows[k].link.release = refresher[p].before[k].link.release
        /\ \A k \in DOMAIN rows : \/ rows[k].link = None \/ Current(rows[k].link)
                    \/ (k \in DOMAIN refresher[p].before /\ rows[k].link = refresher[p].before[k].link)
        /\ refresher[p].items = L!Details
    <3>1. HasListed(p)
      BY <1>1 DEF HasListed
    <3>2. Snapshot(p)
      BY <1>2
    <3>3. refresher[p].pc = "write"
      BY <1>1
    <3> QED BY ONLY <3>1, <3>2, <3>3 DEF Snapshot
  <2> QED BY <1>8, <1>9, <1>12, <1>13, <2>1 DEF Snapshot, HasListed
<1>15. Chosen(p)'
  <2>1. \A k \in DOMAIN rows' : rows'[k].link # None /\ rows'[k].link.release = item.release
                                  => k = j \/ rows'[k].link = L!Id(item)
    BY <1>4, <1>9 DEF j
  <2>2. \/ rows'[j].link # None /\ rows'[j].link.release = item.release
        \/ rows'[j].link = None /\ rows'[j].attributes = Attributes[item.release]
    BY <1>4, <1>9 DEF j, a
  <2> QED BY <1>4, <1>8, <2>1, <2>2 DEF Chosen
<1>16. Own'
  <2>1. \A q \in Refreshers \ {p} : (L!At(q, "link")' <=> L!At(q, "link")) /\ refresher'[q].row = refresher[q].row
    BY <1>8 DEF L!At
  <2>2. \A q \in Refreshers \ {p} : L!At(q, "link") => refresher[q].row \in DOMAIN rows
    BY <1>3, RefresherFacts DEF L!At
  <2>3. ASSUME NEW q \in Refreshers \ {p}, L!At(q, "link"), refresher[q].row = j, rows'[j].link = None
        PROVE  FALSE
    BY <1>4, <1>9, <2>2, <2>3 DEF j
  <2>4. ASSUME NEW q \in Refreshers \ {p}, NEW s \in Refreshers \ {p}, L!At(q, "link"), L!At(s, "link"),
               refresher[q].row = refresher[s].row, rows'[refresher[q].row].link = None
        PROVE  q = s
    BY <1>9, <2>2, <2>4 DEF ChaptersInv, RefreshInv, Own
  <2> QED BY <1>8, <2>1, <2>3, <2>4 DEF Own
<1>17. Fitting'
  <2> SUFFICES ASSUME NEW k \in DOMAIN rows' PROVE Fits(rows'[k])
    BY DEF Fitting
  <2>1. CASE k # j
    BY <1>9, <2>1 DEF ChaptersInv, RowsInv, Fitting
  <2>2. CASE k = j
    BY <1>4, <1>6, <1>9, <2>2 DEF Fits, j
  <2> QED BY <2>1, <2>2
<1>18. L!ReadFollowsRelease'
  BY <1>1, <1>9 DEF L!ReadFollowsRelease, ChaptersInv, RowsInv
<1>19. log' \subseteq DOMAIN rows'
  BY <1>1, <1>2, <1>9
<1>20. ChaptersTyped'
  BY <1>1, <1>8, <1>9, <1>10, <1>11, <1>19 DEF ChaptersInv, ChaptersTyped
<1> QED BY <1>10, <1>11, <1>14, <1>15, <1>16, <1>17, <1>18, <1>20 DEF ChaptersInv, RowsInv, RefreshInv

LEMMA LinkKeeps == ASSUME ChaptersInv, NEW p \in Refreshers, L!Link(p) PROVE ChaptersInv'
<1> DEFINE item == refresher[p].item
           i == refresher[p].row
           id == L!Id(item)
           new == IF i \in DOMAIN refresher[p].before THEN refresher[p].new ELSE refresher[p].new \cup {i}
           r == [refresher[p] EXCEPT !.pc = "next", !.item = None, !.row = 0, !.new = new]
           row == [rows[i] EXCEPT !.link = id]
<1>1. /\ refresher[p].pc = "link" /\ UNCHANGED <<published, log, fetched, due, moves>>
      /\ \/ L!Rest(p) /\ UNCHANGED rows
         \/ /\ \A k \in DOMAIN rows \ {i} : rows[k].link # id
            /\ rows' = [rows EXCEPT ![i].link = id]
            /\ refresher' = [refresher EXCEPT ![p].pc = "next", ![p].item = None, ![p].row = 0, ![p].new = new]
  <2>1. /\ refresher[p].pc = "link" /\ UNCHANGED <<published, log, fetched, due, moves>>
        /\ \/ L!Rest(p) /\ UNCHANGED rows
           \/ /\ \A k \in DOMAIN rows \ {i} : rows[k].link # id
              /\ rows' = [rows EXCEPT ![i].link = id]
              /\ refresher' = [refresher EXCEPT
                    ![p].pc = "next", ![p].item = None, ![p].row = 0,
                    ![p].new = IF i \in DOMAIN refresher[p].before THEN @ ELSE @ \cup {i}]
    BY DEF L!Link, L!At, L!countVars
  <2> QED BY <2>1
<1>2. /\ refresher[p] \in Refresher /\ refresher \in [Refreshers -> Refresher]
      /\ i \in 0..Len(rows) /\ i # 0 /\ refresher[p].new \subseteq DOMAIN rows
      /\ refresher[p].todo \subseteq refresher[p].items /\ Snapshot(p)
      /\ log \subseteq DOMAIN rows /\ fetched \in BOOLEAN
  BY <1>1, RefresherFacts
<1>3. CASE L!Rest(p) /\ UNCHANGED rows
  <2>1. log' \subseteq DOMAIN rows /\ fetched' \in BOOLEAN
    BY <1>1, <1>2
  <2> QED BY <1>1, <1>3, <2>1, RestKeeps
<1>4. CASE /\ \A k \in DOMAIN rows \ {i} : rows[k].link # id
           /\ rows' = [rows EXCEPT ![i].link = id]
           /\ refresher' = [refresher EXCEPT ![p].pc = "next", ![p].item = None, ![p].row = 0, ![p].new = new]
  <2>1. /\ rows \in Seq(Row) /\ DOMAIN rows = 1..Len(rows) /\ Len(rows) \in Nat
        /\ \A k \in DOMAIN rows : rows[k] \in Row
    BY ChapterRows DEF ChaptersInv, ChaptersTyped
  <2>2. i \in DOMAIN rows
    BY <1>2, <2>1
  <2>3. refresher[p].items = L!Details /\ item \in L!Details
    BY <1>1, RefresherFacts DEF Snapshot, Chosen
  <2>4. /\ item \in Items /\ item.release \in Releases /\ Current(id) /\ Answer(L!Details)
    BY <2>3, DetailsFit DEF ChaptersInv
  <2>5. id \in Locators /\ id.release = item.release /\ id # None
    BY <2>4, IdFacts
  \* The row is the only one of the release, and linked to it or new.
  <2>6. \A k \in DOMAIN rows : rows[k].link # None /\ rows[k].link.release = item.release => k = i
    BY <1>1, <1>4, RefresherFacts DEF Chosen
  <2>7. \/ rows[i].link # None /\ rows[i].link.release = item.release
        \/ rows[i].link = None /\ rows[i].attributes = Attributes[item.release]
    BY <1>1, <1>2, RefresherFacts DEF Chosen
  <2>8. new \subseteq DOMAIN rows /\ new \in SUBSET Nat
    BY <1>2, <2>1, <2>2 DEF Refresher
  <2>9. /\ r \in Refresher /\ refresher'[p] = r
        /\ r.pc = "next" /\ r.before = refresher[p].before /\ r.row = 0
        /\ r.new = new /\ r.todo = refresher[p].todo /\ r.items = refresher[p].items
        /\ \A q \in Refreshers \ {p} : refresher'[q] = refresher[q]
        /\ refresher' \in [Refreshers -> Refresher]
    <3> HIDE DEF new
    <3>1. /\ r \in Refresher /\ r.pc = "next" /\ r.before = refresher[p].before /\ r.row = 0
          /\ r.new = new /\ r.todo = refresher[p].todo /\ r.items = refresher[p].items
      BY <1>2, <2>8 DEF Refresher, Labels
    <3>2. refresher' = [refresher EXCEPT ![p] = r]
      BY <1>2, <1>4 DEF Refresher
    <3> HIDE DEF r
    <3> QED BY <1>2, <3>1, <3>2
  <2> HIDE DEF r, new
  <2>10. row \in Row /\ row.link = id /\ row.attributes = rows[i].attributes /\ row.read = rows[i].read
    BY <2>1, <2>2, <2>5 DEF Row
  <2>11. rows' = [rows EXCEPT ![i] = row]
    BY <1>4
  <2> HIDE DEF row, i, id, item
  <2>12. /\ rows' \in Seq(Row) /\ Len(rows') = Len(rows) /\ DOMAIN rows' = DOMAIN rows /\ rows'[i] = row
         /\ \A k \in DOMAIN rows : k # i => rows'[k] = rows[k]
    BY <2>1, <2>2, <2>10, <2>11
  <2>13. L!Details' = L!Details /\ \A link : Current(link)' <=> Current(link)
    BY <1>1 DEF L!Details, L!Shown, Current
  <2>14. \A q \in Refreshers : L!RefresherOK(q)'
    <3>1. L!RefresherOK(p)'
      <4>1. 0 \in 0..Len(rows)
        BY <2>1
      <4> QED BY <1>2, <2>8, <2>9, <2>12, <4>1 DEF L!RefresherOK, L!At
    <3>2. \A q \in Refreshers \ {p} : L!RefresherOK(q)'
      BY <2>9, <2>12 DEF ChaptersInv, ChaptersTyped, L!RefresherOK, L!At
    <3> QED BY <3>1, <3>2
  <2>15. ASSUME NEW q \in Refreshers PROVE Snapshot(q)'
    <3>1. /\ Listing(refresher[q].before)
          /\ \A k \in DOMAIN refresher[q].before : /\ k \in DOMAIN rows /\ rows[k].link # None
                                  /\ rows[k].link.release = refresher[q].before[k].link.release
          /\ HasListed(q) => \A k \in DOMAIN rows :
                      \/ rows[k].link = None \/ Current(rows[k].link)
                      \/ (k \in DOMAIN refresher[q].before /\ rows[k].link = refresher[q].before[k].link)
          /\ refresher[q].pc \in {"list", "next", "write", "link"} => refresher[q].items = L!Details
      <4>1. Snapshot(q)
        BY RefresherFacts
      <4> QED BY ONLY <4>1 DEF Snapshot
    <3>2. /\ refresher'[q].before = refresher[q].before /\ refresher'[q].items = refresher[q].items
          /\ HasListed(q)' => HasListed(q)
          /\ refresher'[q].pc \in {"list", "next", "write", "link"}
                => refresher[q].pc \in {"list", "next", "write", "link"}
      <4>1. CASE q = p
        BY <1>1, <2>9, <4>1 DEF HasListed
      <4>2. CASE q # p
        BY <2>9, <4>2 DEF HasListed
      <4> QED BY <4>1, <4>2
    <3>3. \A k \in DOMAIN refresher[q].before : /\ k \in DOMAIN rows' /\ rows'[k].link # None
                                  /\ rows'[k].link.release = refresher[q].before[k].link.release
      BY <2>5, <2>7, <2>10, <2>12, <3>1
    <3>4. HasListed(q) => \A k \in DOMAIN rows' :
                      \/ rows'[k].link = None \/ Current(rows'[k].link)
                      \/ (k \in DOMAIN refresher[q].before /\ rows'[k].link = refresher[q].before[k].link)
      BY <2>4, <2>10, <2>12, <3>1
    <3> QED BY <2>13, <3>1, <3>2, <3>3, <3>4 DEF Snapshot
  <2>16. Chosen(p)'
    BY <2>9 DEF Chosen
  <2>17. ASSUME NEW q \in Refreshers \ {p} PROVE Chosen(q)'
    <3> DEFINE it == refresher[q].item
               j == refresher[q].row
    <3>1. refresher'[q] = refresher[q]
      BY <2>9
    <3>2. SUFFICES ASSUME refresher[q].pc \in {"write", "link"}
                   PROVE  /\ it \in refresher[q].items
                          /\ \A k \in DOMAIN rows' : rows'[k].link # None /\ rows'[k].link.release = it.release
                                                       => k = j \/ rows'[k].link = L!Id(it)
                          /\ j # 0 => \/ rows'[j].link # None /\ rows'[j].link.release = it.release
                                      \/ /\ rows'[j].link = None /\ refresher[q].pc = "link"
                                         /\ rows'[j].attributes = Attributes[it.release]
      BY <3>1 DEF Chosen
    <3>3. /\ it \in refresher[q].items
          /\ \A k \in DOMAIN rows : rows[k].link # None /\ rows[k].link.release = it.release
                                      => k = j \/ rows[k].link = L!Id(it)
          /\ j # 0 => \/ rows[j].link # None /\ rows[j].link.release = it.release
                      \/ /\ rows[j].link = None /\ refresher[q].pc = "link"
                         /\ rows[j].attributes = Attributes[it.release]
          /\ refresher[q].items = L!Details /\ j \in 0..Len(rows)
      <4>1. Chosen(q) /\ Snapshot(q) /\ j \in 0..Len(rows)
        BY RefresherFacts
      <4>2. refresher[q].items = L!Details
        BY <3>2, <4>1 DEF Snapshot
      <4> QED BY <3>2, <4>1, <4>2 DEF Chosen
    <3>4. it.release = item.release => it = item
      BY <2>3, <2>4, <3>3 DEF Answer
    <3> HIDE DEF it, j
    <3>5. \A k \in DOMAIN rows' : rows'[k].link # None /\ rows'[k].link.release = it.release
                                    => k = j \/ rows'[k].link = L!Id(it)
      BY <2>5, <2>10, <2>12, <3>3, <3>4 DEF id
    <3>6. ASSUME j # 0
          PROVE  \/ rows'[j].link # None /\ rows'[j].link.release = it.release
                 \/ /\ rows'[j].link = None /\ refresher[q].pc = "link"
                    /\ rows'[j].attributes = Attributes[it.release]
      <4>1. j \in DOMAIN rows
        BY <2>1, <3>3, <3>6
      <4>2. CASE j # i
        BY <2>12, <3>3, <3>6, <4>1, <4>2
      <4>3. CASE j = i /\ rows[i].link # None
        BY <2>5, <2>7, <2>10, <2>12, <3>3, <3>6, <4>3
      <4>4. CASE j = i /\ rows[i].link = None
        <5>1. refresher[q].pc = "link"
          BY <3>3, <3>6, <4>4
        <5>2. p = q
          BY <1>1, <4>4, <5>1 DEF ChaptersInv, RefreshInv, Own, L!At, i, j
        <5> QED BY <5>2
      <4> QED BY <4>2, <4>3, <4>4
    <3> QED BY <3>3, <3>5, <3>6
  <2>18. Own'
    <3> SUFFICES ASSUME NEW q \in Refreshers, NEW s \in Refreshers,
                        refresher'[q].pc = "link", refresher'[s].pc = "link",
                        refresher'[q].row = refresher'[s].row, rows'[refresher'[q].row].link = None
                 PROVE  q = s
      BY DEF Own, L!At
    <3>1. q # p /\ s # p
      BY <2>9
    <3>2. /\ refresher'[q] = refresher[q] /\ refresher'[s] = refresher[s]
          /\ refresher[q].row \in DOMAIN rows
      BY <2>1, <2>9, <3>1, RefresherFacts
    <3>3. refresher[q].row # i
      BY <2>5, <2>10, <2>12, <3>2
    <3> QED BY <2>12, <3>2, <3>3 DEF ChaptersInv, RefreshInv, Own, L!At
  <2>19. OneEach(rows')
    BY <2>5, <2>6, <2>10, <2>12 DEF OneEach, ChaptersInv, RowsInv
  <2>20. Fitting'
    <3>1. Fits(rows'[i])
      <4>1. Attributes[item.release] \in Described(item.release)
        BY DEF Described
      <4>2. Fits(rows[i])
        BY <2>2 DEF ChaptersInv, RowsInv, Fitting
      <4> QED BY <2>5, <2>7, <2>10, <2>12, <4>1, <4>2 DEF Fits
    <3> QED BY <2>12, <3>1 DEF Fitting, ChaptersInv, RowsInv
  <2>21. L!ReadFollowsRelease'
    <3> SUFFICES ASSUME NEW s \in due
                 PROVE  \E k \in DOMAIN rows' : rows'[k].read /\ rows'[k].link # None /\ rows'[k].link.release = s
      BY <1>1 DEF L!ReadFollowsRelease
    <3>1. PICK k \in DOMAIN rows : rows[k].read /\ rows[k].link # None /\ rows[k].link.release = s
      BY DEF ChaptersInv, RowsInv, L!ReadFollowsRelease
    <3> QED BY <2>5, <2>7, <2>10, <2>12, <3>1
  <2>22. log' \subseteq DOMAIN rows'
    BY <1>1, <1>2, <2>12
  <2>23. ChaptersTyped'
    BY <1>1, <2>9, <2>12, <2>14, <2>22 DEF ChaptersInv, ChaptersTyped
  <2> QED BY <2>15, <2>16, <2>17, <2>18, <2>19, <2>20, <2>21, <2>23 DEF ChaptersInv, RowsInv, RefreshInv
<1> QED BY <1>1, <1>3, <1>4

\* The chapters of a title keep the invariant, whatever its refreshes, its source and its reader do.
LEMMA ChaptersGoOn == Distinct /\ ChaptersInv /\ Lasting /\ [Next]_vars => ChaptersInv'
<1> SUFFICES ASSUME Distinct, ChaptersInv, Lasting, [Next]_vars PROVE ChaptersInv'
  OBVIOUS
<1>1. CASE UNCHANGED chapterVars
  <2>1. UNCHANGED <<published, rows, log, fetched, refresher, due, moves>>
    BY <1>1 DEF chapterVars
  <2>2. L!Details' = L!Details /\ \A link : Current(link)' <=> Current(link)
    BY <2>1 DEF L!Details, L!Shown, Current
  <2>3. ChaptersTyped'
    BY <2>1 DEF ChaptersInv, ChaptersTyped, L!RefresherOK, L!At
  <2>4. RowsInv'
    BY <2>1 DEF ChaptersInv, RowsInv, Fitting, OneEach, L!ReadFollowsRelease
  <2>5. \A p \in Refreshers : Snapshot(p)' /\ Chosen(p)'
    BY <2>1, <2>2 DEF ChaptersInv, RefreshInv, Snapshot, HasListed, Chosen
  <2>6. Own'
    BY <2>1 DEF ChaptersInv, RefreshInv, Own, L!At
  <2> QED BY <2>3, <2>4, <2>5, <2>6 DEF ChaptersInv, RefreshInv
<1>2. CASE L!Next
  <2>1. ASSUME NEW p \in Refreshers, L!Begin(p) \/ L!Step(p) PROVE ChaptersInv'
    BY <2>1, BeginKeeps, ResolveKeeps, ListKeeps, LookupKeeps, WriteKeeps, LinkKeeps, StoredKeeps,
       RecordKeeps DEF L!Step
  <2>2. ASSUME NEW i \in DOMAIN rows, NEW value \in BOOLEAN, L!Mark(i, value) PROVE ChaptersInv'
    BY <2>2, MarkKeeps
  <2>3. ASSUME NEW i \in log, L!Acknowledge(i) PROVE ChaptersInv'
    BY <2>3, AcknowledgeKeeps
  <2> QED BY <1>2, <2>1, <2>2, <2>3, CrashKeeps, SourceKeeps DEF L!Next
<1> QED BY <1>1, <1>2 DEF Next, vars, ChaptersStep, MigrationStep, ReadingStep, SettingsStep

LEMMA LastingBegins == Init => Lasting
<1> SUFFICES ASSUME Init, NEW i \in DOMAIN rows PROVE rows[i].link.release \in OnShow
  BY DEF Lasting
<1>1. L!Init
  BY DEF Init
<1>2. PICK b \in Backups, shown \in SUBSET Releases :
          /\ \A k \in DOMAIN b : b[k].release \in shown
          /\ rows = [k \in DOMAIN b |-> L!Imported(b[k])]
          /\ published = [r \in Releases |-> IF r \in shown THEN 1 ELSE 0]
  BY <1>1 DEF L!Init
<1>3. rows[i].link.release = b[i].release /\ b[i].release \in shown
  BY <1>2 DEF L!Imported, L!Row, L!Locator
<1>4. b[i].release \in Releases /\ published[b[i].release] = 1 /\ None \notin Nat
  BY <1>2, <1>3, RecordsAssumption DEF L!LibraryAssumption
<1> QED BY <1>3, <1>4 DEF OnShow, L!Shown

\* A refresh links only what its source shows.
LEMMA LastingGoesOn == ChaptersInv /\ Lasting /\ [Next]_vars /\ [KeepsConfusable]_vars => Lasting'
<1> SUFFICES ASSUME ChaptersInv, Lasting, [Next]_vars, [KeepsConfusable]_vars PROVE Lasting'
  OBVIOUS
<1>1. DOMAIN rows = 1..Len(rows) /\ Len(rows) \in Nat /\ \A i \in DOMAIN rows : rows[i] \in Row
  BY ChapterRows DEF ChaptersInv, ChaptersTyped
<1>2. \A r \in OnShow : Confusable(r) => r \in OnShow'
  BY DEF KeepsConfusable, OnShow, L!Shown, vars, chapterVars
<1> DEFINE from(i) == i \in DOMAIN rows /\ rows[i].link # None /\ rows[i].link.release = rows'[i].link.release
           linked(i) == rows'[i].link.release \in OnShow'
<1>3. SUFFICES \A i \in DOMAIN rows' : rows'[i].link = None \/ from(i) \/ linked(i)
  <2> SUFFICES ASSUME NEW i \in DOMAIN rows', rows'[i].link # None, Confusable(rows'[i].link.release)
               PROVE  rows'[i].link.release \in OnShow'
    BY DEF Lasting
  <2>1. CASE from(i)
    BY <1>2, <2>1 DEF Lasting
  <2> QED BY <1>3, <2>1
<1>4. CASE UNCHANGED rows
  BY <1>4
<1>5. ASSUME NEW p \in Refreshers, L!Write(p) PROVE \A i \in DOMAIN rows' : rows'[i].link = None \/ from(i)
  <2>1. CASE rows' = Append(rows, L!Row(Attributes[refresher[p].item.release], None))
    <3>1. \A i \in DOMAIN rows' : (i \in DOMAIN rows /\ rows'[i] = rows[i]) \/ rows'[i].link = None
      BY <1>1, <2>1, ChapterRows DEF L!Row, ChaptersInv, ChaptersTyped
    <3> QED BY <3>1
  <2>2. CASE rows' = [rows EXCEPT ![refresher[p].row].attributes = Attributes[refresher[p].item.release]]
    <3>1. \A i \in DOMAIN rows' : i \in DOMAIN rows /\ rows'[i].link = rows[i].link
      BY <1>1, <2>2 DEF Row
    <3> QED BY <3>1
  <2> QED BY <1>5, <2>1, <2>2 DEF L!Write
<1>6. ASSUME NEW p \in Refreshers, L!Link(p) PROVE \A i \in DOMAIN rows' : rows'[i].link = None \/ from(i) \/ linked(i)
  <2> DEFINE id == L!Id(refresher[p].item)
             j == refresher[p].row
  <2>1. refresher[p].item \in L!Details /\ UNCHANGED published
    BY <1>6, RefresherFacts DEF L!Link, L!At, Chosen, Snapshot
  <2>2. id.release \in OnShow'
    BY <2>1 DEF OnShow, L!Details, L!Shown, L!Id, L!Locator
  <2> HIDE DEF id
  <2>3. rows' = rows \/ rows' = [rows EXCEPT ![j].link = id]
    BY <1>6 DEF L!Link, id
  <2>4. \A i \in DOMAIN rows' : i \in DOMAIN rows /\ (rows'[i].link = rows[i].link \/ rows'[i].link = id)
    BY <1>1, <2>3 DEF Row
  <2> QED BY <2>2, <2>4
<1>7. ASSUME NEW i \in DOMAIN rows, NEW value \in BOOLEAN, L!Mark(i, value) \/ L!Acknowledge(i)
      PROVE  \A k \in DOMAIN rows' : rows'[k].link = None \/ from(k)
  <2>1. rows' = [rows EXCEPT ![i].read = value] \/ rows' = [rows EXCEPT ![i].read = TRUE]
    BY <1>7 DEF L!Mark, L!Acknowledge
  <2>2. \A k \in DOMAIN rows' : k \in DOMAIN rows /\ rows'[k].link = rows[k].link
    BY <1>1, <2>1 DEF Row
  <2> QED BY <2>2
<1>8. CASE L!Next
  <2>1. ASSUME NEW p \in Refreshers, L!Begin(p) \/ L!Step(p) PROVE UNCHANGED rows \/ L!Write(p) \/ L!Link(p)
    BY <2>1 DEF L!Begin, L!Step, L!Resolve, L!List, L!Lookup, L!Stored, L!Record
  <2>2. L!Crash \/ (\E r \in Releases : L!Publish(r) \/ L!Withdraw(r)) => UNCHANGED rows
    BY DEF L!Crash, L!Publish, L!Withdraw
  <2>3. \A i \in log : i \in DOMAIN rows
    BY DEF ChaptersInv, ChaptersTyped
  <2> HIDE DEF from, linked
  <2>4. CASE \E p \in Refreshers : L!Begin(p) \/ L!Step(p)
    BY <1>4, <1>5, <1>6, <2>1, <2>4
  <2>5. CASE (\E i \in DOMAIN rows, value \in BOOLEAN : L!Mark(i, value)) \/ (\E i \in log : L!Acknowledge(i))
    BY <1>7, <2>3, <2>5
  <2> QED BY <1>4, <1>8, <2>2, <2>4, <2>5 DEF L!Next
<1>9. UNCHANGED rows \/ L!Next
  BY DEF Next, vars, chapterVars, ChaptersStep, MigrationStep, ReadingStep, SettingsStep
<1> HIDE DEF from, linked
<1> QED BY <1>4, <1>8, <1>9

LEMMA ChaptersTypes == ChaptersInv => L!TypeOK
<1> SUFFICES ASSUME ChaptersInv PROVE L!TypeOK
  OBVIOUS
<1>1. published \in [Releases -> (0..MaxMoves + 1) \cup {None}]
  <2>1. moves \in Nat /\ moves <= MaxMoves /\ MaxMoves \in Nat /\ published \in [Releases -> Nat \cup {None}]
    BY RecordsAssumption DEF ChaptersInv, ChaptersTyped, L!LibraryAssumption
  <2>2. \A r \in Releases : published[r] = None \/ published[r] \in 0..MaxMoves + 1
    BY <2>1 DEF ChaptersInv, ChaptersTyped
  <2> QED BY <2>1, <2>2
<1>2. ASSUME NEW i \in DOMAIN rows
      PROVE  rows[i].read \in BOOLEAN /\ rows[i].attributes.number \in Nat \cup {None}
  <2>1. rows[i] \in Row
    BY ChapterRows DEF ChaptersInv
  <2>2. PICK r \in Releases : rows[i].attributes \in Described(r)
    BY <2>1 DEF Row
  <2> QED BY <2>1, <2>2, AttributesKept DEF Row
<1> QED BY <1>1, <1>2 DEF ChaptersInv, ChaptersTyped, L!TypeOK

\* The move of a title has its types in every behaviour.
LEMMA MigrationTyped == Spec => []TypeOK
<1>1. MigrationInit => Carried
  BY InitWhole, InitCarried DEF Carried, CarriedOn
<1>2. Carried => TypeOK
  BY DEF Carried, TitleTyped, MoversTyped, Requests, Places, Whole, StubsShaped, AllChapters, TypeOK
<1> QED BY <1>1, <1>2, StepCarried, MigrationRuns, PTL DEF MigrationSpec

\* One chapter for a release, though it moves and comes back, for every number of releases, refreshes of
\* the title at once, moves, marks and crashes, where the source rests while it is asked, each
\* release has a rung of its own, be it the number alone or a title in a group of equals, and only
\* what nothing else could be taken for is withdrawn.
THEOREM ChaptersKept == ASSUME Distinct PROVE Spec /\ [][KeepsConfusable]_vars => []NoFork
<1>1. ChaptersInv => L!TypeOK /\ L!NoFork
  BY ChaptersTypes DEF ChaptersInv, RowsInv, OneEach, L!NoFork
<1>2. Init => ChaptersInv /\ Lasting
  BY ChaptersBegin, LastingBegins
<1>3. ChaptersInv /\ Lasting /\ [Next]_vars /\ [KeepsConfusable]_vars => ChaptersInv' /\ Lasting'
  BY ChaptersGoOn, LastingGoesOn
<1>4. TypeOK /\ ChaptersInv => NoFork
  BY <1>1 DEF NoFork
<1> QED BY <1>2, <1>3, <1>4, MigrationTyped, PTL DEF Spec

\* What was read stays read through every locator, in the same generality.
THEOREM ReadKept == ASSUME Distinct PROVE Spec /\ [][KeepsConfusable]_vars => []ReadFollowsRelease
<1>1. ChaptersInv => ReadFollowsRelease
  BY DEF ChaptersInv, RowsInv, ReadFollowsRelease
<1>2. Init => ChaptersInv /\ Lasting
  BY ChaptersBegin, LastingBegins
<1>3. ChaptersInv /\ Lasting /\ [Next]_vars /\ [KeepsConfusable]_vars => ChaptersInv' /\ Lasting'
  BY ChaptersGoOn, LastingGoesOn
<1> QED BY <1>1, <1>2, <1>3, PTL DEF Spec

=============================================================================
