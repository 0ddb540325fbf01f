------------------------- MODULE MigrationJobs_proofs -------------------------
(***************************************************************************)
(* Proofs about MigrationJobs for every set of titles and pages, every     *)
(* list of sources, every number of slots and every bound.                 *)
(***************************************************************************)
EXTENDS MigrationJobs, FiniteSetTheorems, TLAPS

-----------------------------------------------------------------------------
(* The inductive invariant                                                 *)

Labels == {"none", "queued", "start", "search", "store", "finish", "publish", "drop", "tell", "done"}
Work == [pc : Labels, at : 1 .. Len(Targets) + 1, answer : [Sources -> Answers],
         best : Ranks \cup {None}, stored : [Sources -> Ranks \cup {None}],
         event : Statuses \cup {None}]

TypeInv ==
    /\ job \in [started : BOOLEAN, closed : BOOLEAN, stopped : BOOLEAN, kept : BOOLEAN]
    /\ prioritize \in BOOLEAN
    /\ status \in [Titles -> Statuses] /\ view \in [Clients -> [Titles -> Statuses]]
    /\ work \in [Titles -> Work]
    /\ asked \subseteq Titles /\ leaving \subseteq Clients /\ ended \subseteq Clients
    /\ stream \in [Clients -> Stream \cup {None}]

\* The titles that hold a slot are finitely many, whatever the number of titles.
Working == {t \in Titles : InSlot(t)}
SlotsHold == IsFiniteSet(Working) /\ Cardinality(Working) <= Slots

\* What the search of a title knows: which sources have answered, and what was stored.
Consulted(w, n) == \A i \in 1 .. n : w.answer[Targets[i]] # "asked"
Found(w) == \E s \in Sources : w.answer[s] \in {"none", "match"}
Outcome(w) ==
    /\ w.event = "failed" => \A s \in Sources : w.answer[s] = "failed"
    /\ w.event = "notFound" => (\A s \in Sources : w.answer[s] = "asked") \/ Found(w)
SearchOK(w) ==
    /\ w.pc \in {"queued", "start"} => w.at = 1 /\ \A s \in Sources : w.answer[s] = "asked"
    /\ \A s \in Sources : w.stored[s] # None => w.best # None /\ w.stored[s] <= w.best
    /\ w.pc = "search" /\ ~prioritize => Consulted(w, w.at - 1)
    /\ w.pc = "store" => Found(w)
    /\ w.pc = "store" /\ ~prioritize =>
          w.at <= Len(Targets) /\ w.answer[Targets[w.at]] = "match" /\ Consulted(w, w.at)
    /\ w.pc = "finish" => Outcome(w)

\* What a title came to, from the verdict to the state that is shown.
Settled(t) == work[t].pc \in {"finish", "publish", "drop", "tell"}
ResultOK(t) ==
    /\ Settled(t) => work[t].event \in Statuses \ {"searching"}
    /\ Settled(t) /\ work[t].event = "cancelled" => t \in asked \/ job.stopped
    /\ work[t].pc \in {"publish", "tell"} => status[t] = work[t].event
    /\ work[t].pc = "done" => status[t] # "searching"
    /\ status[t] = "cancelled" => t \in asked \/ job.stopped
    /\ work[t].pc = "none" <=> ~job.started
    /\ job.closed => work[t].pc \in {"none", "done"}

\* The frames a page has still to read: they tell what the titles came to, and the last
\* one that the job is over.
FramesOK(c) ==
    \A i \in 1 .. Len(stream[c].frames) :
        LET frame == stream[c].frames[i]
        IN  \/ frame = CompleteFrame /\ job.closed /\ i = Len(stream[c].frames)
            \/ /\ frame.title \in Titles /\ frame.status \in Statuses
               /\ work[frame.title].pc = "done" /\ frame.status = status[frame.title]

\* A page that is attached shows the state of a title, or has a frame that tells it, or
\* is about to be sent one.
Told(c, t) == \E i \in 1 .. Len(stream[c].frames) : stream[c].frames[i] = Frame(t, status[t])
Follows(c, t) ==
    \/ view[c][t] = status[t] \/ Told(c, t)
    \/ stream[c].open /\ work[t].pc \in {"publish", "tell"}

PageOK(c) ==
    /\ Attached(c) => /\ job.started /\ stream[c].open = ~job.closed
                      /\ FramesOK(c) /\ \A t \in Titles : Follows(c, t)
    /\ c \in ended => /\ job.closed /\ view[c] = status
                      /\ Attached(c) => stream[c].frames = <<>>

JobInv ==
    /\ TypeInv /\ SlotsHold
    /\ \A t \in Titles : SearchOK(work[t]) /\ ResultOK(t)
    /\ \A c \in Clients : PageOK(c)
    /\ UnattendedStops
-----------------------------------------------------------------------------
(* The search of one title                                                 *)

\* What a step of a search leaves behind: the title still holds its slot, and the record
\* of its search is a true one.
Searched(t) ==
    /\ work' \in [Titles -> Work] /\ \A u \in Titles \ {t} : work'[u] = work[u]
    /\ work[t].pc \in {"start", "search", "store"} /\ work'[t].pc \in {"search", "store", "finish"}
    /\ SearchOK(work'[t])
    /\ work'[t].pc = "finish" => /\ work'[t].event \in Statuses \ {"searching"}
                                 /\ work'[t].event = "cancelled" => t \in asked \/ job.stopped
    /\ UNCHANGED <<jobVars, asked, leaving, pageVars, connects, cancels>>

\* The sources are those of the list.
LEMMA SourcesListed ==
    /\ Len(Targets) \in Nat /\ Targets \in [1 .. Len(Targets) -> Sources]
    /\ \A s \in Sources : \E i \in 1 .. Len(Targets) : s = Targets[i]
BY MigrationAssumption DEF Sources, Range

\* A search that ends with a verdict its answers bear out.
LEMMA FinishSearched ==
    ASSUME TypeInv, NEW t \in Titles, SearchOK(work[t]), work[t].pc \in {"start", "search", "store"},
           NEW event \in Statuses \ {"searching"}, Finish(t, event),
           event = "cancelled" => Canceled(t),
           event = "failed" => \A s \in Sources : work[t].answer[s] = "failed",
           event = "notFound" => (\A s \in Sources : work[t].answer[s] = "asked") \/ Found(work[t]),
           UNCHANGED <<jobVars, asked, leaving, pageVars, connects, cancels>>
    PROVE  Searched(t)
<1> DEFINE w == [work[t] EXCEPT !.pc = "finish", !.event = event]
<1>1. work[t] \in Work
  BY DEF TypeInv
<1>2. work' = [work EXCEPT ![t] = w] /\ work'[t] = w
  BY DEF Finish, TypeInv
<1>3. w \in Work /\ w.pc = "finish" /\ w.event = event
  BY <1>1 DEF Work, Labels
<1>4. w.answer = work[t].answer /\ w.stored = work[t].stored /\ w.best = work[t].best
  BY <1>1 DEF Work
<1>5. SearchOK(w)
  BY <1>3, <1>4 DEF SearchOK, Outcome, Found
<1>6. QED
  BY <1>2, <1>3, <1>5 DEF Searched, TypeInv, Canceled

LEMMA StartSearched ==
    ASSUME TypeInv, NEW t \in Titles, SearchOK(work[t]), StartSearch(t)
    PROVE  Searched(t)
<1>1. \/ Canceled(t) /\ Finish(t, "cancelled")
      \/ ~Canceled(t) /\ Finish(t, "notFound")
      \/ ~Canceled(t) /\ work' = [work EXCEPT ![t].pc = "search"]
  BY DEF StartSearch
<1>2. work[t].pc = "start" /\ UNCHANGED <<jobVars, asked, leaving, pageVars, connects, cancels>>
  BY DEF StartSearch, At
<1>3. \A s \in Sources : work[t].answer[s] = "asked"
  BY <1>2 DEF SearchOK
<1>4. CASE Canceled(t) /\ Finish(t, "cancelled")
  BY <1>2, <1>4, FinishSearched DEF Statuses
<1>5. CASE Finish(t, "notFound")
  BY <1>2, <1>3, <1>5, FinishSearched DEF Statuses
<1>6. CASE work' = [work EXCEPT ![t].pc = "search"]
  <2> DEFINE w == [work[t] EXCEPT !.pc = "search"]
  <2>1. work[t] \in Work /\ work' = [work EXCEPT ![t] = w] /\ work'[t] = w
    BY <1>6 DEF TypeInv
  <2>2. w \in Work /\ w.pc = "search" /\ w.at = 1 /\ w.stored = work[t].stored /\ w.best = work[t].best
    BY <1>2, <2>1 DEF Work, Labels, SearchOK
  <2>3. SearchOK(w)
    BY <2>2 DEF SearchOK, Consulted
  <2>4. QED
    BY <1>2, <2>1, <2>2, <2>3 DEF Searched, TypeInv
<1>7. QED
  BY <1>1, <1>4, <1>5, <1>6

LEMMA AskNextSearched ==
    ASSUME TypeInv, NEW t \in Titles, SearchOK(work[t]), AskNext(t)
    PROVE  Searched(t)
<1> DEFINE i == work[t].at
<1>0. work[t] \in Work /\ i \in 1 .. Len(Targets) + 1
  BY DEF TypeInv, Work
<1>1. CASE Canceled(t)
  BY <1>1, FinishSearched DEF AskNext, At, Statuses
<1>2. CASE ~Canceled(t) /\ i > Len(Targets)
  <2>1. \A s \in Sources : work[t].answer[s] # "asked"
    BY <1>0, <1>2, SourcesListed DEF SearchOK, AskNext, At, Consulted
  <2>2. Verdict(t) = "notFound" => Found(work[t])
    BY DEF Verdict, Answered, Found
  <2>3. Verdict(t) = "failed" => \A s \in Sources : work[t].answer[s] = "failed"
    BY <1>0, <2>1 DEF Verdict, Answered, Work, Answers
  <2>4. Verdict(t) \in {"notFound", "failed"}
    BY DEF Verdict
  <2>5. Finish(t, Verdict(t)) /\ At(t, "search") /\ UNCHANGED <<jobVars, asked, leaving, pageVars, connects, cancels>>
    BY <1>2 DEF AskNext
  <2>6. QED
    BY <2>2, <2>3, <2>4, <2>5, FinishSearched DEF At, Statuses
<1>3. CASE ~Canceled(t) /\ i <= Len(Targets)
  <2>1. PICK a \in {"failed", "none", "match"} :
            work' = [work EXCEPT ![t].answer[Targets[i]] = a,
                                 ![t].pc = IF a = "match" THEN "store" ELSE "search",
                                 ![t].at = IF a = "match" THEN i ELSE i + 1]
    <3>1. ~(i > Len(Targets))
      BY <1>0, <1>3, SourcesListed
    <3>2. QED
      BY <1>3, <3>1, Zenon DEF AskNext
  <2> DEFINE w == [work[t] EXCEPT !.answer = [work[t].answer EXCEPT ![Targets[i]] = a],
                                  !.pc = IF a = "match" THEN "store" ELSE "search",
                                  !.at = IF a = "match" THEN i ELSE i + 1]
  <2>2. Targets[i] \in Sources
    BY <1>0, <1>3, SourcesListed
  <2>3. work' = [work EXCEPT ![t] = w] /\ work'[t] = w
    BY <2>1 DEF TypeInv
  <2>4. w \in Work
    <3>1. (IF a = "match" THEN i ELSE i + 1) \in 1 .. Len(Targets) + 1
      BY <1>0, <1>3, SourcesListed
    <3>2. [work[t].answer EXCEPT ![Targets[i]] = a] \in [Sources -> Answers]
      BY <1>0, <2>2 DEF Work, Answers
    <3>3. QED
      BY <1>0, <3>1, <3>2 DEF Work, Labels
  <2>5. SearchOK(w)
    <3>1. \A s \in Sources : w.answer[s] = IF s = Targets[i] THEN a ELSE work[t].answer[s]
      BY <1>0 DEF Work
    <3>2. w.best = work[t].best /\ w.stored = work[t].stored
      BY <1>0 DEF Work
    <3>3. Consulted(work[t], i - 1)
      BY DEF SearchOK, AskNext, At
    <3>4. Consulted(w, i)
      BY <1>0, <1>3, <3>1, <3>3, SourcesListed DEF Consulted
    <3>5. CASE a = "match"
      <4>1. w.pc = "store" /\ w.at = i /\ w.answer[Targets[i]] = "match"
        BY <1>0, <2>2, <3>1, <3>5 DEF Work
      <4>2. Found(w)
        BY <2>2, <4>1 DEF Found
      <4>3. QED
        BY <1>3, <3>2, <3>4, <4>1, <4>2 DEF SearchOK
    <3>6. CASE a # "match"
      <4>1. w.pc = "search" /\ w.at = i + 1
        BY <1>0, <3>6 DEF Work
      <4>2. QED
        BY <1>0, <3>2, <3>4, <4>1 DEF SearchOK
    <3>7. QED
      BY <3>5, <3>6
  <2>6. w.pc \in {"search", "store"}
    BY <1>0 DEF Work
  <2>7. QED
    BY <2>3, <2>4, <2>5, <2>6 DEF Searched, AskNext, At, TypeInv
<1>4. QED
  BY <1>0, <1>1, <1>2, <1>3, SourcesListed

LEMMA AskAllSearched ==
    ASSUME TypeInv, NEW t \in Titles, SearchOK(work[t]), AskAll(t)
    PROVE  Searched(t)
<1>1. PICK s \in Sources, a \in {"failed", "none", "match"} : work' = [work EXCEPT ![t].answer[s] = a]
  BY DEF AskAll
<1> DEFINE w == [work[t] EXCEPT !.answer = [work[t].answer EXCEPT ![s] = a]]
<1>2. work[t] \in Work /\ work' = [work EXCEPT ![t] = w] /\ work'[t] = w
  BY <1>1 DEF TypeInv
<1>3. w \in Work /\ w.pc = "search" /\ w.stored = work[t].stored /\ w.best = work[t].best
  BY <1>2 DEF Work, Answers, AskAll, At
<1>4. SearchOK(w)
  BY <1>3 DEF SearchOK, AskAll
<1>5. QED
  BY <1>2, <1>3, <1>4 DEF Searched, AskAll, At, TypeInv

LEMMA CompareAllSearched ==
    ASSUME TypeInv, NEW t \in Titles, SearchOK(work[t]), CompareAll(t)
    PROVE  Searched(t)
<1>1. /\ work[t].pc = "search" /\ prioritize /\ \A s \in Sources : work[t].answer[s] # "asked"
      /\ UNCHANGED <<jobVars, asked, leaving, pageVars, connects, cancels>>
  BY DEF CompareAll, At
<1>2. CASE Canceled(t)
  BY <1>1, <1>2, FinishSearched DEF CompareAll, Statuses
<1>3. CASE ~Canceled(t) /\ ~Answered(t)
  <2>1. \A s \in Sources : work[t].answer[s] = "failed"
    BY <1>1, <1>3 DEF Answered, TypeInv, Work, Answers
  <2>2. QED
    BY <1>1, <1>3, <2>1, FinishSearched DEF CompareAll, Statuses
<1>4. CASE ~Canceled(t) /\ Answered(t)
  <2> DEFINE w == [work[t] EXCEPT !.pc = "store"]
  <2>1. work[t] \in Work /\ work' = [work EXCEPT ![t] = w] /\ work'[t] = w
    BY <1>4 DEF TypeInv, CompareAll
  <2>2. w \in Work /\ w.pc = "store" /\ w.answer = work[t].answer /\ w.stored = work[t].stored
        /\ w.best = work[t].best
    BY <2>1 DEF Work, Labels
  <2>3. SearchOK(w)
    BY <1>1, <1>4, <2>2 DEF SearchOK, Found, Answered
  <2> HIDE DEF w
  <2>4. work' \in [Titles -> Work] /\ \A u \in Titles \ {t} : work'[u] = work[u]
    BY <2>1, <2>2 DEF TypeInv
  <2>5. work'[t].pc = "store" /\ SearchOK(work'[t])
    BY <2>1, <2>2, <2>3
  <2>6. QED
    BY <1>1, <2>4, <2>5, Zenon DEF Searched
<1>5. QED
  BY <1>2, <1>3, <1>4

\* What is stored keeps the best rank best.
LEMMA MaterializeSearched ==
    ASSUME TypeInv, NEW t \in Titles, SearchOK(work[t]), Materialize(t)
    PROVE  Searched(t)
<1> DEFINE i == work[t].at
           s == Targets[i]
<1>1. /\ work[t].pc = "store" /\ i <= Len(Targets) /\ work[t] \in Work
      /\ UNCHANGED <<jobVars, asked, leaving, pageVars, connects, cancels>>
  BY DEF Materialize, At, TypeInv
<1>2. i \in 1 .. Len(Targets) /\ s \in Sources /\ i + 1 \in 1 .. Len(Targets) + 1
  BY <1>1, SourcesListed DEF Work
<1>3. Found(work[t])
  BY <1>1 DEF SearchOK
<1>4. ASSUME NEW rank \in Ranks,
             work' = [work EXCEPT ![t].stored[s] = rank,
                                  ![t].best = IF Keeps(t, rank) THEN rank ELSE @,
                                  ![t].pc = IF prioritize THEN "store" ELSE "finish",
                                  ![t].event = IF prioritize THEN None ELSE "success",
                                  ![t].at = i + 1]
      PROVE  Searched(t)
  <2> DEFINE w == [work[t] EXCEPT !.stored = [work[t].stored EXCEPT ![s] = rank],
                                  !.best = IF Keeps(t, rank) THEN rank ELSE work[t].best,
                                  !.pc = IF prioritize THEN "store" ELSE "finish",
                                  !.event = IF prioritize THEN None ELSE "success",
                                  !.at = i + 1]
  <2>1. work' = [work EXCEPT ![t] = w] /\ work'[t] = w
    BY <1>4 DEF TypeInv
  <2>2. w \in Work
    BY <1>1, <1>2 DEF Work, Labels, Statuses
  <2>3. w.answer = work[t].answer /\ w.pc = (IF prioritize THEN "store" ELSE "finish")
        /\ w.event = IF prioritize THEN None ELSE "success"
    BY <1>1 DEF Work
  <2>4. \A x \in Sources : w.stored[x] = IF x = s THEN rank ELSE work[t].stored[x]
    BY <1>1, <1>2 DEF Work
  <2>5. w.best = IF Keeps(t, rank) THEN rank ELSE work[t].best
    BY <1>1 DEF Work
  <2>6. rank \in Nat /\ rank # None /\ (work[t].best # None => work[t].best \in Nat)
        /\ \A x \in Sources : work[t].stored[x] # None => work[t].stored[x] \in Nat
    BY <1>1, MigrationAssumption DEF Work
  <2>7. \A x \in Sources : work[t].stored[x] # None
            => work[t].best # None /\ work[t].stored[x] <= work[t].best
    BY DEF SearchOK
  <2>8. w.best # None /\ rank <= w.best /\ (work[t].best # None => work[t].best <= w.best) /\ w.best \in Nat
    BY <2>5, <2>6 DEF Keeps
  <2>9. \A x \in Sources : w.stored[x] # None => w.best # None /\ w.stored[x] <= w.best
    BY <2>4, <2>6, <2>7, <2>8
  <2>10. SearchOK(w)
    BY <1>3, <2>3, <2>9 DEF SearchOK, Outcome, Found
  <2>11. QED
    BY <1>1, <2>1, <2>2, <2>3, <2>10 DEF Searched, TypeInv, Statuses
<1>5. ASSUME work[t].answer[s] = "match",
             work' = [work EXCEPT ![t].pc = IF prioritize THEN "store" ELSE "search", ![t].at = i + 1]
      PROVE  Searched(t)
  <2> DEFINE w == [work[t] EXCEPT !.pc = IF prioritize THEN "store" ELSE "search", !.at = i + 1]
  <2>1. work' = [work EXCEPT ![t] = w] /\ work'[t] = w
    BY <1>5 DEF TypeInv
  <2>2. w \in Work /\ w.answer = work[t].answer /\ w.stored = work[t].stored /\ w.best = work[t].best
    BY <1>1, <1>2 DEF Work, Labels
  <2>3. w.pc = (IF prioritize THEN "store" ELSE "search") /\ w.at = i + 1
    BY <1>1 DEF Work
  <2>4. ~prioritize => Consulted(w, i)
    BY <1>1, <2>2 DEF SearchOK, Consulted
  <2>5. SearchOK(w)
    BY <1>2, <1>3, <2>2, <2>3, <2>4 DEF SearchOK, Found
  <2>6. QED
    BY <1>1, <2>1, <2>2, <2>3, <2>5 DEF Searched, TypeInv
<1>6. ASSUME work[t].answer[s] # "match", work' = [work EXCEPT ![t].at = i + 1]
      PROVE  Searched(t)
  <2> DEFINE w == [work[t] EXCEPT !.at = i + 1]
  <2>1. work' = [work EXCEPT ![t] = w] /\ work'[t] = w
    BY <1>6 DEF TypeInv
  <2>2. /\ w \in Work /\ w.pc = "store"
        /\ w.answer = work[t].answer /\ w.stored = work[t].stored /\ w.best = work[t].best
    BY <1>1, <1>2 DEF Work, Labels
  <2>3. prioritize
    BY <1>1, <1>6 DEF SearchOK
  <2>4. SearchOK(w)
    BY <1>3, <2>2, <2>3 DEF SearchOK, Found
  <2> HIDE DEF w
  <2>5. work' \in [Titles -> Work] /\ \A u \in Titles \ {t} : work'[u] = work[u]
    BY <2>1, <2>2 DEF TypeInv
  <2>6. QED
    BY <1>1, <2>1, <2>2, <2>4, <2>5 DEF Searched
<1>7. CASE Canceled(t) /\ Finish(t, "cancelled")
  BY <1>1, <1>7, FinishSearched DEF Statuses
<1>8. QED
  BY <1>4, <1>5, <1>6, <1>7, ZenonT(30) DEF Materialize

LEMMA ChooseSearched ==
    ASSUME TypeInv, NEW t \in Titles, SearchOK(work[t]), Choose(t)
    PROVE  Searched(t)
<1>1. work[t].pc = "store" /\ UNCHANGED <<jobVars, asked, leaving, pageVars, connects, cancels>>
  BY DEF Choose, At
<1>2. Found(work[t])
  BY <1>1 DEF SearchOK
<1>3. \E event \in {"notFound", "success"} : Finish(t, event)
  BY DEF Choose
<1>4. QED
  BY <1>1, <1>2, <1>3, FinishSearched DEF Statuses

LEMMA SearchSteps ==
    ASSUME TypeInv, NEW t \in Titles, SearchOK(work[t]),
           \/ StartSearch(t) \/ AskNext(t) \/ AskAll(t)
           \/ CompareAll(t) \/ Materialize(t) \/ Choose(t)
    PROVE  Searched(t)
BY StartSearched, AskNextSearched, AskAllSearched, CompareAllSearched, MaterializeSearched, ChooseSearched

-----------------------------------------------------------------------------
(* The job around the searches                                             *)

\* What is said of a title and of a page depends on nothing else.
LEMMA SearchFollowed ==
    ASSUME JobInv, NEW t \in Titles, Searched(t)
    PROVE  JobInv'
<1>1. /\ work' \in [Titles -> Work] /\ \A u \in Titles \ {t} : work'[u] = work[u]
      /\ UNCHANGED <<job, prioritize, status, stream, view, ended, asked, leaving>>
  BY DEF Searched, jobVars, pageVars
<1>2. work[t].pc \in {"start", "search", "store"} /\ work'[t].pc \in {"search", "store", "finish"}
  BY DEF Searched
<1>3. TypeInv'
  BY <1>1 DEF JobInv, TypeInv
<1>4. SlotsHold'
  <2>1. Working' = Working
    BY <1>1, <1>2 DEF Working, InSlot
  <2>2. QED
    BY <2>1 DEF JobInv, SlotsHold
<1>5. ASSUME NEW u \in Titles PROVE SearchOK(work[u])' /\ ResultOK(u)'
  <2>1. CASE u = t
    <3>1. SearchOK(work[t])'
      BY <1>1 DEF Searched, SearchOK, Consulted, Found, Outcome
    <3>2. ResultOK(t)'
      BY <1>1, <1>2 DEF JobInv, ResultOK, Settled, Searched
    <3>3. QED
      BY <2>1, <3>1, <3>2
  <2>2. CASE u # t
    <3>1. SearchOK(work[u])'
      BY <1>1, <2>2 DEF JobInv, SearchOK, Consulted, Found, Outcome
    <3>2. ResultOK(u)'
      BY <1>1, <2>2 DEF JobInv, ResultOK, Settled
    <3>3. QED
      BY <3>1, <3>2
  <2>3. QED
    BY <2>1, <2>2
<1>6. ASSUME NEW c \in Clients PROVE PageOK(c)'
  <2>1. ASSUME FramesOK(c) PROVE FramesOK(c)'
    BY <1>1, <1>2, <2>1 DEF FramesOK
  <2>2. ASSUME NEW u \in Titles, Follows(c, u) PROVE Follows(c, u)'
    BY <1>1, <1>2, <2>2 DEF Follows, Told
  <2>3. QED
    BY <1>1, <2>1, <2>2 DEF JobInv, PageOK, Attached
<1>7. UnattendedStops'
  BY <1>1 DEF JobInv, UnattendedStops, Subscribers, Subscribed
<1>8. QED
  BY <1>3, <1>4, <1>5, <1>6, <1>7 DEF JobInv

\* The slot is taken while there is one, or the title is dropped with the job.
LEMMA TakeSlotKeeps ==
    ASSUME JobInv, NEW t \in Titles, TakeSlot(t)
    PROVE  JobInv'
<1>1. /\ work[t].pc = "queued" /\ work[t] \in Work
      /\ UNCHANGED <<job, prioritize, status, stream, view, ended, asked, leaving>>
  BY DEF TakeSlot, At, jobVars, pageVars, JobInv, TypeInv
<1>2. /\ work' \in [Titles -> Work] /\ \A u \in Titles \ {t} : work'[u] = work[u]
      /\ work'[t].answer = work[t].answer /\ work'[t].stored = work[t].stored
      /\ work'[t].best = work[t].best /\ work'[t].at = work[t].at
      /\ \/ work'[t].pc = "start" /\ Cardinality(Working) < Slots
         \/ work'[t].pc = "drop" /\ work'[t].event = "cancelled" /\ job.stopped
  <2>1. CASE work' = [work EXCEPT ![t].pc = "start"] /\ Cardinality(Working) < Slots
    BY <1>1, <2>1 DEF Work, Labels, JobInv, TypeInv
  <2>2. CASE work' = [work EXCEPT ![t].pc = "drop", ![t].event = "cancelled"] /\ job.stopped
    BY <1>1, <2>2 DEF Work, Labels, Statuses, JobInv, TypeInv
  <2>3. QED
    BY <2>1, <2>2 DEF TakeSlot, Working
<1>3. TypeInv'
  BY <1>1, <1>2 DEF JobInv, TypeInv
<1>4. SlotsHold'
  <2>1. CASE work'[t].pc = "start"
    <3>1. Working' = Working \cup {t} /\ t \notin Working
      BY <1>1, <1>2, <2>1 DEF Working, InSlot
    <3>2. IsFiniteSet(Working) /\ Cardinality(Working) \in Nat /\ Cardinality(Working) < Slots
      BY <1>2, <2>1, FS_CardinalityType DEF JobInv, SlotsHold
    <3>3. IsFiniteSet(Working') /\ Cardinality(Working') = Cardinality(Working) + 1
      BY <3>1, <3>2, FS_AddElement
    <3>4. QED
      BY <3>2, <3>3, MigrationAssumption DEF SlotsHold
  <2>2. CASE work'[t].pc = "drop"
    <3>1. Working' = Working
      BY <1>1, <1>2, <2>2 DEF Working, InSlot
    <3>2. QED
      BY <3>1 DEF JobInv, SlotsHold
  <2>3. QED
    BY <1>2, <2>1, <2>2
<1>5. ASSUME NEW u \in Titles PROVE SearchOK(work[u])' /\ ResultOK(u)'
  <2>1. CASE u = t
    <3>1. SearchOK(work[t])'
      BY <1>1, <1>2 DEF JobInv, SearchOK, Consulted, Found, Outcome
    <3>2. ResultOK(t)'
      BY <1>1, <1>2 DEF JobInv, ResultOK, Settled, Statuses
    <3>3. QED
      BY <2>1, <3>1, <3>2
  <2>2. CASE u # t
    <3>1. SearchOK(work[u])'
      BY <1>1, <1>2, <2>2 DEF JobInv, SearchOK, Consulted, Found, Outcome
    <3>2. ResultOK(u)'
      BY <1>1, <1>2, <2>2 DEF JobInv, ResultOK, Settled
    <3>3. QED
      BY <3>1, <3>2
  <2>3. QED
    BY <2>1, <2>2
<1>6. ASSUME NEW c \in Clients PROVE PageOK(c)'
  <2>1. ASSUME FramesOK(c) PROVE FramesOK(c)'
    BY <1>1, <1>2, <2>1 DEF FramesOK
  <2>2. ASSUME NEW u \in Titles, Follows(c, u) PROVE Follows(c, u)'
    BY <1>1, <1>2, <2>2 DEF Follows, Told
  <2>3. QED
    BY <1>1, <2>1, <2>2 DEF JobInv, PageOK, Attached
<1>7. UnattendedStops'
  BY <1>1 DEF JobInv, UnattendedStops, Subscribers, Subscribed
<1>8. QED
  BY <1>3, <1>4, <1>5, <1>6, <1>7 DEF JobInv

\* The state of a title changes before its frame is sent: a page that has neither is
\* attached to an open channel.
LEMMA SetStateKeeps ==
    ASSUME JobInv, NEW t \in Titles, SetState(t)
    PROVE  JobInv'
<1> DEFINE event == work[t].event
<1>1. /\ work[t].pc \in {"finish", "drop"} /\ work[t] \in Work /\ event \in Statuses \ {"searching"}
      /\ event = "cancelled" => t \in asked \/ job.stopped
      /\ UNCHANGED <<job, prioritize, stream, view, ended, asked, leaving>>
  BY DEF SetState, At, pageVars, JobInv, TypeInv, ResultOK, Settled
<1>2. /\ status' \in [Titles -> Statuses]
      /\ \A u \in Titles : status'[u] = IF u = t THEN event ELSE status[u]
  BY <1>1 DEF SetState, JobInv, TypeInv
<1>3. /\ work' \in [Titles -> Work] /\ \A u \in Titles \ {t} : work'[u] = work[u]
      /\ work'[t].event = event /\ work'[t].stored = work[t].stored /\ work'[t].best = work[t].best
      /\ work'[t].pc = IF work[t].pc = "finish" THEN "publish" ELSE "tell"
  BY <1>1 DEF SetState, At, Work, Labels, JobInv, TypeInv
<1>4. TypeInv'
  BY <1>1, <1>2, <1>3 DEF JobInv, TypeInv
<1>5. SlotsHold'
  <2>1. Working' = Working
    BY <1>1, <1>3 DEF Working, InSlot
  <2>2. QED
    BY <2>1 DEF JobInv, SlotsHold
<1>6. ASSUME NEW u \in Titles PROVE SearchOK(work[u])' /\ ResultOK(u)'
  <2>1. CASE u = t
    <3>1. SearchOK(work[t])'
      BY <1>1, <1>3 DEF JobInv, SearchOK
    <3>2. ResultOK(t)'
      BY <1>1, <1>2, <1>3 DEF JobInv, ResultOK, Settled
    <3>3. QED
      BY <2>1, <3>1, <3>2
  <2>2. CASE u # t
    <3>1. SearchOK(work[u])'
      BY <1>1, <1>3, <2>2 DEF JobInv, SearchOK, Consulted, Found, Outcome
    <3>2. ResultOK(u)'
      BY <1>1, <1>2, <1>3, <2>2 DEF JobInv, ResultOK, Settled
    <3>3. QED
      BY <3>1, <3>2
  <2>3. QED
    BY <2>1, <2>2
<1>7. ~job.closed
  BY <1>1 DEF JobInv, ResultOK
<1>8. ASSUME NEW c \in Clients PROVE PageOK(c)'
  <2>1. ASSUME Attached(c) PROVE FramesOK(c)'
    <3>1. FramesOK(c)
      BY <2>1 DEF JobInv, PageOK
    <3>2. QED
      BY <1>1, <1>2, <1>3, <3>1 DEF FramesOK
  <2>2. ASSUME Attached(c), NEW u \in Titles PROVE Follows(c, u)'
    <3>1. stream[c].open /\ Follows(c, u)
      BY <1>7, <2>2 DEF JobInv, PageOK
    <3>2. QED
      BY <1>1, <1>2, <1>3, <3>1 DEF Follows, Told
  <2>3. QED
    BY <1>1, <1>7, <2>1, <2>2 DEF JobInv, PageOK, Attached
<1>9. UnattendedStops'
  BY <1>1 DEF JobInv, UnattendedStops, Subscribers, Subscribed
<1>10. QED
  BY <1>4, <1>5, <1>6, <1>8, <1>9 DEF JobInv

\* A stream of an attached page.
LEMMA StreamShape ==
    ASSUME TypeInv, NEW c \in Clients, Attached(c)
    PROVE  /\ stream[c] \in Stream /\ stream[c].open \in BOOLEAN
           /\ stream[c].frames \in Seq(Frames)
           /\ Len(stream[c].frames) \in Nat
<1>1. stream[c] \in Stream
  BY DEF TypeInv, Attached
<1>2. QED
  BY <1>1 DEF Stream

\* A frame is sent to every open stream, and to no other.
LEMMA SendShape ==
    ASSUME TypeInv, NEW frame \in Frames,
           Send(frame)
    PROVE  /\ stream' \in [Clients -> Stream \cup {None}]
           /\ \A c \in Clients : Subscribed(c) =>
                 /\ stream'[c].frames = Append(stream[c].frames, frame)
                 /\ stream'[c].open = stream[c].open /\ stream'[c] # None
           /\ \A c \in Clients : ~Subscribed(c) => stream'[c] = stream[c]
<1>1. \A c \in Clients : stream'[c] = IF Subscribed(c)
                                      THEN [stream[c] EXCEPT !.frames = Append(@, frame)]
                                      ELSE stream[c]
  BY DEF Send
<1>2. ASSUME NEW c \in Clients, Subscribed(c)
      PROVE  /\ stream'[c] \in Stream /\ stream'[c].frames = Append(stream[c].frames, frame)
             /\ stream'[c].open = stream[c].open
  <2>1. stream[c] \in Stream /\ stream[c].frames \in Seq(Frames)
    BY <1>2, StreamShape DEF Subscribed, Attached
  <2>2. stream'[c] = [stream[c] EXCEPT !.frames = Append(stream[c].frames, frame)]
    BY <1>1, <1>2
  <2>3. Append(stream[c].frames, frame) \in Seq(Frames)
    BY <2>1
  <2>4. QED
    BY <2>1, <2>2, <2>3 DEF Stream
<1>3. QED
  BY <1>1, <1>2, StreamAssumption DEF Send, TypeInv

LEMMA PublishKeeps ==
    ASSUME JobInv, NEW t \in Titles, Publish(t)
    PROVE  JobInv'
<1> DEFINE frame == Frame(t, work[t].event)
<1>1. /\ work[t].pc \in {"publish", "tell"} /\ work[t].event = status[t]
      /\ status[t] \in Statuses \ {"searching"}
      /\ UNCHANGED <<job, prioritize, status, view, ended, asked, leaving>>
  BY DEF Publish, At, jobVars, JobInv, TypeInv, ResultOK, Settled
<1>2. frame = Frame(t, status[t]) /\ frame.title = t /\ frame.status = status[t]
      /\ frame \in Frames
  BY <1>1 DEF Frame, Frames
<1>3. /\ stream' \in [Clients -> Stream \cup {None}]
      /\ \A c \in Clients : Subscribed(c) =>
            /\ stream'[c].frames = Append(stream[c].frames, frame)
            /\ stream'[c].open = stream[c].open /\ stream'[c] # None
      /\ \A c \in Clients : ~Subscribed(c) => stream'[c] = stream[c]
  BY <1>2, SendShape DEF Publish, JobInv
<1>4. /\ work' \in [Titles -> Work] /\ \A u \in Titles \ {t} : work'[u] = work[u]
      /\ work'[t].pc = "done" /\ \A s \in Sources : work'[t].stored[s] = None
  <2> DEFINE w == [Idle EXCEPT !.pc = "done"]
  <2>1. 1 \in 1 .. Len(Targets) + 1
    BY SourcesListed
  <2>2. w \in Work /\ w.pc = "done" /\ \A s \in Sources : w.stored[s] = None
    BY <2>1 DEF Idle, Work, Labels, Answers
  <2>3. work' = [work EXCEPT ![t] = w]
    BY DEF Publish
  <2>4. QED
    BY <2>2, <2>3 DEF JobInv, TypeInv
<1>5. TypeInv'
  BY <1>1, <1>3, <1>4 DEF JobInv, TypeInv
<1>6. SlotsHold'
  <2>1. Working' \subseteq Working
    BY <1>1, <1>4 DEF Working, InSlot
  <2>2. IsFiniteSet(Working') /\ Cardinality(Working') <= Cardinality(Working)
    BY <2>1, FS_Subset DEF JobInv, SlotsHold
  <2>3. Cardinality(Working) \in Nat /\ Cardinality(Working') \in Nat /\ Cardinality(Working) <= Slots
    BY <2>2, FS_CardinalityType DEF JobInv, SlotsHold
  <2>4. QED
    BY <2>2, <2>3, MigrationAssumption DEF SlotsHold
<1>7. ASSUME NEW u \in Titles PROVE SearchOK(work[u])' /\ ResultOK(u)'
  <2>1. CASE u = t
    <3>1. SearchOK(work[t])'
      BY <1>4 DEF SearchOK
    <3>2. ResultOK(t)'
      BY <1>1, <1>4 DEF JobInv, ResultOK, Settled
    <3>3. QED
      BY <2>1, <3>1, <3>2
  <2>2. CASE u # t
    <3>1. SearchOK(work[u])'
      BY <1>1, <1>4, <2>2 DEF JobInv, SearchOK, Consulted, Found, Outcome
    <3>2. ResultOK(u)'
      BY <1>1, <1>4, <2>2 DEF JobInv, ResultOK, Settled
    <3>3. QED
      BY <3>1, <3>2
  <2>3. QED
    BY <2>1, <2>2
<1>8. ~job.closed
  BY <1>1 DEF JobInv, ResultOK
<1>9. ASSUME NEW c \in Clients PROVE PageOK(c)'
  <2>1. CASE ~Attached(c)
    <3>1. ~Attached(c)'
      BY <1>3, <2>1 DEF Attached, Subscribed
    <3>2. QED
      BY <1>1, <1>8, <3>1 DEF JobInv, PageOK
  <2>2. CASE Attached(c)
    <3> DEFINE old == stream[c].frames
               new == stream'[c].frames
    <3>1. Subscribed(c) /\ FramesOK(c) /\ \A u \in Titles : Follows(c, u)
      BY <1>8, <2>2 DEF JobInv, PageOK, Attached, Subscribed
    <3>2. /\ old \in Seq(Frames)
          /\ Len(old) \in Nat /\ new = Append(old, frame)
      BY <1>3, <2>2, <3>1, StreamShape DEF JobInv
    <3>3. /\ Len(new) = Len(old) + 1 /\ new[Len(new)] = frame
          /\ \A i \in 1 .. Len(old) : new[i] = old[i] /\ i \in 1 .. Len(new)
      BY <3>2, <1>2
    <3>4. FramesOK(c)'
      <4>1. ASSUME NEW i \in 1 .. Len(new)
            PROVE  /\ new[i].title \in Titles /\ new[i].status \in Statuses
                   /\ work'[new[i].title].pc = "done" /\ new[i].status = status'[new[i].title]
        <5>1. CASE i = Len(new)
          BY <1>1, <1>2, <1>4, <3>3, <5>1
        <5>2. CASE i # Len(new)
          <6>1. i \in 1 .. Len(old) /\ new[i] = old[i]
            BY <3>2, <3>3, <5>2
          <6>2. QED
            BY <1>1, <1>4, <1>8, <3>1, <6>1 DEF FramesOK
        <5>3. QED
          BY <5>1, <5>2
      <4>2. QED
        BY <4>1 DEF FramesOK
    <3>5. ASSUME NEW u \in Titles PROVE Follows(c, u)'
      <4>1. CASE u = t
        <5>1. Len(new) \in 1 .. Len(new) /\ new[Len(new)] = Frame(t, status'[t])
          BY <1>1, <1>2, <3>2, <3>3 DEF Frame
        <5>2. QED
          BY <4>1, <5>1 DEF Follows, Told
      <4>2. CASE u # t
        <5>1. Told(c, u) => Told(c, u)'
          BY <1>1, <3>3 DEF Told, Frame
        <5>2. QED
          BY <1>1, <1>3, <1>4, <3>1, <4>2, <5>1 DEF Follows
      <4>3. QED
        BY <4>1, <4>2
    <3>6. QED
      BY <1>1, <1>3, <1>8, <2>2, <3>1, <3>4, <3>5 DEF JobInv, PageOK, Attached
  <2>3. QED
    BY <2>1, <2>2
<1>10. UnattendedStops'
  <2>1. Subscribers' = Subscribers
    BY <1>3 DEF Subscribers, Subscribed
  <2>2. QED
    BY <1>1, <2>1 DEF JobInv, UnattendedStops
<1>11. QED
  BY <1>5, <1>6, <1>7, <1>9, <1>10 DEF JobInv

\* The end is the last frame of every open stream, and closes it.
LEMMA CompleteKeeps ==
    ASSUME JobInv, Complete
    PROVE  JobInv'
<1>1. /\ job.started /\ ~job.closed /\ \A t \in Titles : work[t].pc = "done"
      /\ UNCHANGED <<prioritize, status, work, view, ended, asked, leaving>>
  BY DEF Complete, At
<1>2. job' \in [started : BOOLEAN, closed : BOOLEAN, stopped : BOOLEAN, kept : BOOLEAN]
      /\ job'.closed = TRUE /\ job'.started /\ job'.stopped = job.stopped
  BY <1>1 DEF Complete, JobInv, TypeInv
<1>3. CompleteFrame \in Frames
  BY DEF CompleteFrame, Frame, Frames
<1>4. ASSUME NEW c \in Clients, Subscribed(c)
      PROVE  /\ stream'[c] \in Stream /\ stream'[c].open = FALSE
             /\ stream'[c].frames = Append(stream[c].frames, CompleteFrame)
  <2>1. stream'[c] = [open |-> FALSE, frames |-> Append(stream[c].frames, CompleteFrame)]
    BY <1>4 DEF Complete
  <2>2. Append(stream[c].frames, CompleteFrame) \in Seq(Frames)
    BY <1>3, <1>4, StreamShape DEF JobInv, Subscribed, Attached
  <2>3. QED
    BY <2>1, <2>2 DEF Stream
<1>5. \A c \in Clients : ~Subscribed(c) => stream'[c] = stream[c]
  BY DEF Complete
<1>6. TypeInv'
  <2>1. stream' \in [Clients -> Stream \cup {None}]
    BY <1>4, <1>5 DEF Complete, JobInv, TypeInv
  <2>2. QED
    BY <1>1, <1>2, <2>1 DEF JobInv, TypeInv
<1>7. SlotsHold'
  BY <1>1 DEF JobInv, SlotsHold, Working, InSlot
<1>8. ASSUME NEW u \in Titles PROVE SearchOK(work[u])' /\ ResultOK(u)'
  <2>1. SearchOK(work[u])'
    BY <1>1 DEF JobInv, SearchOK, Consulted, Found, Outcome
  <2>2. ResultOK(u)'
    BY <1>1, <1>2 DEF JobInv, ResultOK, Settled
  <2>3. QED
    BY <2>1, <2>2
<1>9. ASSUME NEW c \in Clients PROVE PageOK(c)'
  <2>1. c \notin ended'
    BY <1>1 DEF JobInv, PageOK
  <2>2. CASE ~Attached(c)
    <3>1. ~Attached(c)'
      BY <1>5, <2>2 DEF Attached, Subscribed
    <3>2. QED
      BY <2>1, <3>1 DEF PageOK
  <2>3. CASE Attached(c)
    <3> DEFINE old == stream[c].frames
               new == stream'[c].frames
    <3>1. Subscribed(c) /\ FramesOK(c) /\ \A u \in Titles : Follows(c, u)
      BY <1>1, <2>3 DEF JobInv, PageOK, Attached, Subscribed
    <3>2. /\ old \in Seq(Frames)
          /\ Len(old) \in Nat /\ new = Append(old, CompleteFrame)
      BY <1>4, <2>3, <3>1, StreamShape DEF JobInv
    <3>3. /\ Len(new) = Len(old) + 1 /\ new[Len(new)] = CompleteFrame
          /\ \A i \in 1 .. Len(old) : new[i] = old[i] /\ i \in 1 .. Len(new)
      BY <3>2, <1>3
    <3>4. FramesOK(c)'
      <4>1. ASSUME NEW i \in 1 .. Len(new), i # Len(new)
            PROVE  /\ new[i].title \in Titles /\ new[i].status \in Statuses
                   /\ work'[new[i].title].pc = "done" /\ new[i].status = status'[new[i].title]
        <5>1. i \in 1 .. Len(old) /\ new[i] = old[i]
          BY <3>2, <3>3, <4>1
        <5>2. QED
          BY <1>1, <3>1, <5>1 DEF FramesOK
      <4>2. QED
        BY <1>2, <3>3, <4>1 DEF FramesOK
    <3>5. ASSUME NEW u \in Titles PROVE Follows(c, u)'
      <4>1. Told(c, u) => Told(c, u)'
        BY <1>1, <3>3 DEF Told, Frame
      <4>2. view[c][u] = status[u] \/ Told(c, u)
        BY <1>1, <3>1 DEF Follows
      <4>3. QED
        BY <1>1, <4>1, <4>2 DEF Follows
    <3>6. QED
      BY <1>2, <1>4, <2>1, <3>1, <3>4, <3>5 DEF PageOK
  <2>4. QED
    BY <2>2, <2>3
<1>10. UnattendedStops'
  BY <1>2 DEF UnattendedStops
<1>11. QED
  BY <1>6, <1>7, <1>8, <1>9, <1>10 DEF JobInv

-----------------------------------------------------------------------------
(* The pages                                                               *)

\* A step that changes neither the titles nor the job leaves what is said of them.
LEMMA TitlesStay ==
    ASSUME JobInv, UNCHANGED <<prioritize, status, work, asked>>,
           job'.stopped = job.stopped, job'.started = job.started, job'.closed = job.closed
    PROVE  SlotsHold' /\ \A t \in Titles : SearchOK(work[t])' /\ ResultOK(t)'
<1>1. SlotsHold'
  BY DEF JobInv, SlotsHold, Working, InSlot
<1>2. ASSUME NEW t \in Titles PROVE SearchOK(work[t])' /\ ResultOK(t)'
  <2>1. SearchOK(work[t])'
    BY DEF JobInv, SearchOK, Consulted, Found, Outcome
  <2>2. ResultOK(t)'
    BY DEF JobInv, ResultOK, Settled
  <2>3. QED
    BY <2>1, <2>2
<1>3. QED
  BY <1>1, <1>2

\* So does it leave what is said of a page whose stream and view it does not touch.
LEMMA PageStays ==
    ASSUME JobInv, NEW c \in Clients, UNCHANGED <<status, work>>,
           job'.started = job.started, job'.closed = job.closed,
           stream'[c] = stream[c], view'[c] = view[c], c \in ended' <=> c \in ended
    PROVE  PageOK(c)'
<1>1. FramesOK(c) => FramesOK(c)'
  BY DEF FramesOK
<1>2. ASSUME NEW t \in Titles, Follows(c, t) PROVE Follows(c, t)'
  BY <1>2 DEF Follows, Told
<1>3. QED
  BY <1>1, <1>2 DEF JobInv, PageOK, Attached

\* The snapshot and the subscription are one step, so a page misses no frame.
LEMMA SubscribeKeeps ==
    ASSUME JobInv, NEW c \in Clients, Subscribe(c)
    PROVE  JobInv'
<1>1. /\ ~Attached(c) /\ c \notin ended
      /\ view' = [view EXCEPT ![c] = status]
      /\ UNCHANGED <<prioritize, status, asked, leaving>>
  BY DEF Subscribe
<1>2. view' \in [Clients -> [Titles -> Statuses]] /\ view'[c] = status
      /\ \A d \in Clients \ {c} : view'[d] = view[d]
  BY <1>1 DEF JobInv, TypeInv
<1>3. CASE job.closed
  <2>1. ended' = ended \cup {c} /\ UNCHANGED <<job, work, stream>>
    BY <1>3 DEF Subscribe
  <2>2. TypeInv'
    BY <1>1, <1>2, <2>1 DEF JobInv, TypeInv
  <2>3. SlotsHold' /\ \A t \in Titles : SearchOK(work[t])' /\ ResultOK(t)'
    BY <1>1, <2>1, TitlesStay
  <2>4. ASSUME NEW d \in Clients PROVE PageOK(d)'
    <3>1. CASE d = c
      BY <1>1, <1>2, <1>3, <2>1, <3>1 DEF PageOK, Attached
    <3>2. CASE d # c
      BY <1>1, <1>2, <2>1, <3>2, PageStays
    <3>3. QED
      BY <3>1, <3>2
  <2>5. UnattendedStops'
    BY <1>3, <2>1 DEF UnattendedStops
  <2>6. QED
    BY <2>2, <2>3, <2>4, <2>5 DEF JobInv
<1>4. CASE ~job.closed
  <2>1. /\ job' = [job EXCEPT !.started = TRUE]
        /\ work' = (IF job.started THEN work ELSE [t \in Titles |-> [Idle EXCEPT !.pc = "queued"]])
        /\ stream' = [stream EXCEPT ![c] = [open |-> TRUE, frames |-> <<>>]]
        /\ ended' = ended
    BY <1>4 DEF Subscribe
  <2>2. /\ job' \in [started : BOOLEAN, closed : BOOLEAN, stopped : BOOLEAN, kept : BOOLEAN]
        /\ job'.started = TRUE /\ job'.closed = FALSE /\ job'.stopped = job.stopped
    BY <1>4, <2>1 DEF JobInv, TypeInv
  <2>3. /\ [open |-> TRUE, frames |-> <<>>] \in Stream
        /\ stream' \in [Clients -> Stream \cup {None}]
        /\ stream'[c] = [open |-> TRUE, frames |-> <<>>]
        /\ \A d \in Clients \ {c} : stream'[d] = stream[d]
    BY <2>1 DEF JobInv, TypeInv, Stream
  <2>4. Attached(c)' /\ c \in Subscribers'
    <3>1. stream'[c] \in Stream /\ stream'[c].open = TRUE
      BY <2>3
    <3>2. stream'[c] # None
      BY <3>1, StreamAssumption
    <3>3. QED
      BY <3>1, <3>2 DEF Attached, Subscribers, Subscribed
  <2>5. UnattendedStops'
    BY <2>4 DEF UnattendedStops
  <2>6. FramesOK(c)' /\ \A t \in Titles : Follows(c, t)'
    BY <1>1, <1>2, <2>3 DEF FramesOK, Follows
  <2>7. PageOK(c)'
    BY <1>1, <2>1, <2>2, <2>3, <2>6 DEF PageOK
  <2>8. CASE job.started
    <3>1. work' = work
      BY <2>1, <2>8
    <3>2. TypeInv'
      BY <1>1, <1>2, <2>1, <2>2, <2>3, <3>1 DEF JobInv, TypeInv
    <3>3. SlotsHold' /\ \A t \in Titles : SearchOK(work[t])' /\ ResultOK(t)'
      BY <1>1, <1>4, <2>2, <2>8, <3>1, TitlesStay DEF JobInv, TypeInv
    <3>4. ASSUME NEW d \in Clients, d # c PROVE PageOK(d)'
      BY <1>1, <1>2, <1>4, <2>1, <2>2, <2>3, <2>8, <3>1, <3>4, PageStays DEF JobInv, TypeInv
    <3>5. QED
      BY <2>5, <2>7, <3>2, <3>3, <3>4 DEF JobInv
  <2>9. CASE ~job.started
    <3>1. /\ [Idle EXCEPT !.pc = "queued"] \in Work
          /\ \A t \in Titles : work'[t] = [Idle EXCEPT !.pc = "queued"]
          /\ work' \in [Titles -> Work]
      <4>1. 1 \in 1 .. Len(Targets) + 1
        BY SourcesListed
      <4>2. [Idle EXCEPT !.pc = "queued"] \in Work
        BY <4>1 DEF Idle, Work, Labels, Answers
      <4>3. QED
        BY <2>1, <2>9, <4>2
    <3>2. \A t \in Titles : work'[t].pc = "queued" /\ work[t].pc = "none"
      BY <2>9, <3>1 DEF Idle, JobInv, ResultOK
    <3>3. TypeInv'
      BY <1>1, <1>2, <2>1, <2>2, <2>3, <3>1 DEF JobInv, TypeInv
    <3>4. SlotsHold'
      <4>1. Working' = Working
        BY <3>2 DEF Working, InSlot
      <4>2. QED
        BY <4>1 DEF JobInv, SlotsHold
    <3>5. ASSUME NEW t \in Titles PROVE SearchOK(work[t])' /\ ResultOK(t)'
      <4>1. SearchOK(work[t])'
        BY <3>1, <3>2 DEF SearchOK, Idle
      <4>2. ResultOK(t)'
        BY <1>1, <2>2, <3>2 DEF JobInv, ResultOK, Settled
      <4>3. QED
        BY <4>1, <4>2
    <3>6. ASSUME NEW d \in Clients, d # c PROVE PageOK(d)'
      <4>1. ~Attached(d) /\ d \notin ended
        BY <1>4, <2>9 DEF JobInv, PageOK
      <4>2. QED
        BY <2>1, <2>3, <3>6, <4>1 DEF PageOK, Attached
    <3>7. QED
      BY <2>5, <2>7, <3>3, <3>4, <3>5, <3>6 DEF JobInv
  <2>10. QED
    BY <2>8, <2>9
<1>5. QED
  BY <1>3, <1>4

\* Reading a frame shows what it tells; the last one leaves nothing unread.
LEMMA ReceiveKeeps ==
    ASSUME JobInv, NEW c \in Clients, Receive(c)
    PROVE  JobInv'
<1> DEFINE old == stream[c].frames
           new == stream'[c].frames
<1>1. /\ Attached(c) /\ old # <<>> /\ UNCHANGED <<job, prioritize, status, work, asked, leaving>>
      /\ stream' = [stream EXCEPT ![c].frames = Tail(@)]
  BY DEF Receive, jobVars
<1>2. /\ stream[c] \in Stream /\ stream[c] # None /\ old \in Seq(Frames) /\ Len(old) \in Nat
      /\ stream[c].open \in BOOLEAN
  BY <1>1, StreamShape DEF JobInv, Attached
<1>3. /\ Tail(old) \in Seq(Frames) /\ Len(old) > 0 /\ Len(Tail(old)) = Len(old) - 1
      /\ \A i \in 1 .. Len(Tail(old)) : Tail(old)[i] = old[i + 1] /\ i + 1 \in 1 .. Len(old)
      /\ Head(old) = old[1] /\ 1 \in 1 .. Len(old)
  BY <1>1, <1>2
<1>4. /\ stream'[c] \in Stream /\ stream'[c].open = stream[c].open /\ new = Tail(old)
      /\ \A d \in Clients \ {c} : stream'[d] = stream[d]
      /\ stream' \in [Clients -> Stream \cup {None}]
  <2>1. stream'[c] = [stream[c] EXCEPT !.frames = Tail(old)]
    BY <1>1 DEF JobInv, TypeInv
  <2>2. stream'[c] \in Stream /\ stream'[c].open = stream[c].open /\ new = Tail(old)
    BY <1>2, <1>3, <2>1 DEF Stream
  <2>3. QED
    BY <1>1, <2>2 DEF JobInv, TypeInv
<1>5. FramesOK(c) /\ \A t \in Titles : Follows(c, t)
  BY <1>1 DEF JobInv, PageOK
<1>6. stream'[c] # None
  BY <1>4, StreamAssumption
<1>7. Subscribers' = Subscribers
  BY <1>2, <1>4, <1>6 DEF Subscribers, Subscribed
<1>8. SlotsHold' /\ \A t \in Titles : SearchOK(work[t])' /\ ResultOK(t)'
  BY <1>1, TitlesStay
<1>9. UnattendedStops'
  BY <1>1, <1>7 DEF JobInv, UnattendedStops
<1>10. FramesOK(c)'
  <2>1. ASSUME NEW i \in 1 .. Len(new)
        PROVE  \/ new[i] = CompleteFrame /\ job'.closed /\ i = Len(new)
               \/ /\ new[i].title \in Titles /\ new[i].status \in Statuses
                  /\ work'[new[i].title].pc = "done" /\ new[i].status = status'[new[i].title]
    <3>1. i + 1 \in 1 .. Len(old) /\ new[i] = old[i + 1] /\ (i + 1 = Len(old) => i = Len(new))
      BY <1>2, <1>3, <1>4
    <3>2. QED
      BY <1>1, <1>5, <3>1 DEF FramesOK
  <2>2. QED
    BY <2>1 DEF FramesOK
<1>11. c \notin ended
  BY <1>1 DEF JobInv, PageOK
<1>12. CASE Head(old) = CompleteFrame
  <2>1. ended' = ended \cup {c} /\ view' = view
    BY <1>12 DEF Receive
  <2>2. old[1].status \notin Statuses
    BY <1>3, <1>12 DEF CompleteFrame, Frame, Statuses
  <2>3. job.closed /\ Len(old) = 1
    BY <1>3, <1>5, <2>2 DEF FramesOK
  <2>4. new = <<>>
    BY <1>3, <1>4, <2>3
  <2>5. ASSUME NEW t \in Titles PROVE view[c][t] = status[t]
    <3>1. work[t].pc \in {"none", "done"}
      BY <2>3 DEF JobInv, ResultOK
    <3>2. ~Told(c, t)
      <4>1. ASSUME NEW i \in 1 .. Len(old) PROVE old[i] # Frame(t, status[t])
        <5>1. i = 1
          BY <2>3
        <5>2. status[t] \in Statuses /\ Frame(t, status[t]).status = status[t]
          BY DEF JobInv, TypeInv, Frame
        <5>3. QED
          BY <2>2, <5>1, <5>2
      <4>2. QED
        BY <4>1 DEF Told
    <3>3. QED
      BY <1>5, <3>1, <3>2 DEF Follows
  <2>6. view'[c] = status'
    BY <1>1, <2>1, <2>5 DEF JobInv, TypeInv
  <2>7. TypeInv'
    BY <1>1, <1>4, <2>1 DEF JobInv, TypeInv
  <2>8. PageOK(c)'
    <3>1. \A t \in Titles : Follows(c, t)'
      BY <2>6 DEF Follows
    <3>2. QED
      BY <1>1, <1>4, <1>10, <2>3, <2>4, <2>6, <3>1 DEF JobInv, PageOK
  <2>9. ASSUME NEW d \in Clients, d # c PROVE PageOK(d)'
    BY <1>1, <1>4, <2>1, <2>9, PageStays
  <2>10. QED
    BY <1>8, <1>9, <2>7, <2>8, <2>9 DEF JobInv
<1>13. CASE Head(old) # CompleteFrame
  <2> DEFINE u == old[1].title
  <2>1. ended' = ended /\ view' = [view EXCEPT ![c][u] = old[1].status]
    BY <1>3, <1>13 DEF Receive
  <2>2. u \in Titles /\ old[1].status = status[u] /\ status[u] \in Statuses
    BY <1>3, <1>5, <1>13 DEF FramesOK, JobInv, TypeInv
  <2>3. /\ view' \in [Clients -> [Titles -> Statuses]] /\ \A d \in Clients \ {c} : view'[d] = view[d]
        /\ \A t \in Titles : view'[c][t] = IF t = u THEN status[u] ELSE view[c][t]
    BY <2>1, <2>2 DEF JobInv, TypeInv
  <2>4. TypeInv'
    BY <1>1, <1>4, <2>1, <2>3 DEF JobInv, TypeInv
  <2>5. ASSUME NEW t \in Titles PROVE Follows(c, t)'
    <3>1. CASE t = u
      BY <1>1, <2>3, <3>1 DEF Follows
    <3>2. CASE t # u
      <4>1. ASSUME Told(c, t) PROVE Told(c, t)'
        <5>1. PICK i \in 1 .. Len(old) : old[i] = Frame(t, status[t])
          BY <4>1 DEF Told
        <5>2. i # 1
          BY <3>2, <5>1 DEF Frame
        <5>3. i - 1 \in 1 .. Len(new) /\ new[i - 1] = old[i]
          BY <1>2, <1>3, <1>4, <5>2
        <5>4. QED
          BY <1>1, <5>1, <5>3 DEF Told, Frame
      <4>2. view[c][t] = status[t] \/ Told(c, t) \/ (stream[c].open /\ work[t].pc \in {"publish", "tell"})
        BY <1>5 DEF Follows
      <4>3. QED
        BY <1>1, <1>4, <2>3, <3>2, <4>1, <4>2 DEF Follows
    <3>3. QED
      BY <3>1, <3>2
  <2>6. PageOK(c)'
    BY <1>1, <1>4, <1>10, <1>11, <2>1, <2>5 DEF JobInv, PageOK
  <2>7. ASSUME NEW d \in Clients, d # c PROVE PageOK(d)'
    BY <1>1, <1>4, <2>1, <2>3, <2>7, PageStays
  <2>8. QED
    BY <1>8, <1>9, <2>4, <2>6, <2>7 DEF JobInv
<1>14. QED
  BY <1>12, <1>13

\* The page that leaves a running job last is remembered as the one that cancels it.
LEMMA UnsubscribeKeeps ==
    ASSUME JobInv, NEW c \in Clients, Unsubscribe(c)
    PROVE  JobInv'
<1>1. /\ leaving' = (IF LeavesLast(c) THEN leaving \cup {c} ELSE leaving)
      /\ stream' = [stream EXCEPT ![c] = None]
      /\ UNCHANGED <<job, prioritize, status, work, asked, view, ended>>
  BY DEF Unsubscribe, jobVars
<1>2. stream' \in [Clients -> Stream \cup {None}] /\ stream'[c] = None
      /\ \A d \in Clients \ {c} : stream'[d] = stream[d]
  BY <1>1 DEF JobInv, TypeInv
<1>3. TypeInv'
  BY <1>1, <1>2 DEF JobInv, TypeInv
<1>4. SlotsHold' /\ \A t \in Titles : SearchOK(work[t])' /\ ResultOK(t)'
  BY <1>1, TitlesStay
<1>5. ASSUME NEW d \in Clients PROVE PageOK(d)'
  <2>1. CASE d = c
    BY <1>1, <1>2, <2>1 DEF JobInv, PageOK, Attached
  <2>2. CASE d # c
    BY <1>1, <1>2, <2>2, PageStays
  <2>3. QED
    BY <2>1, <2>2
<1>6. UnattendedStops'
  <2>1. Subscribers' = Subscribers \ {c}
    BY <1>2 DEF Subscribers, Subscribed
  <2>2. QED
    BY <1>1, <2>1 DEF UnattendedStops, LeavesLast
<1>7. QED
  BY <1>3, <1>4, <1>5, <1>6 DEF JobInv

\* Stopping the job, or a title of it, makes a cancelled title a rightful one.
LEMMA CancelKeeps ==
    ASSUME JobInv, UNCHANGED <<prioritize, status, work, pageVars>>,
           job' \in [started : BOOLEAN, closed : BOOLEAN, stopped : BOOLEAN, kept : BOOLEAN],
           job'.started = job.started, job.stopped => job'.stopped,
           asked \subseteq asked', asked' \subseteq Titles, leaving' \subseteq leaving,
           job'.closed = job.closed \/ (job'.closed /\ ~job.started),
           leaving' = leaving \/ job'.stopped
    PROVE  JobInv'
<1>1. UNCHANGED <<stream, view, ended>>
  BY DEF pageVars
<1>2. TypeInv'
  BY <1>1 DEF JobInv, TypeInv
<1>3. SlotsHold'
  BY DEF JobInv, SlotsHold, Working, InSlot
<1>4. ASSUME NEW t \in Titles PROVE SearchOK(work[t])' /\ ResultOK(t)'
  <2>1. SearchOK(work[t])'
    BY DEF JobInv, SearchOK, Consulted, Found, Outcome
  <2>2. ResultOK(t)'
    BY DEF JobInv, ResultOK, Settled
  <2>3. QED
    BY <2>1, <2>2
<1>5. ASSUME NEW c \in Clients PROVE PageOK(c)'
  <2>1. CASE job'.closed = job.closed
    BY <1>1, <2>1, PageStays
  <2>2. CASE job'.closed /\ ~job.started
    BY <1>1, <2>2 DEF JobInv, PageOK, Attached
  <2>3. QED
    BY <2>1, <2>2
<1>6. UnattendedStops'
  <2>1. Subscribers' = Subscribers
    BY <1>1 DEF Subscribers, Subscribed
  <2>2. QED
    BY <2>1 DEF JobInv, UnattendedStops
<1>7. QED
  BY <1>2, <1>3, <1>4, <1>5, <1>6 DEF JobInv

-----------------------------------------------------------------------------
(* The theorems                                                            *)

LEMMA InitHolds == Init => JobInv
<1> SUFFICES ASSUME Init PROVE JobInv
  OBVIOUS
<1>1. 1 \in 1 .. Len(Targets) + 1
  BY SourcesListed
<1>2. Idle \in Work
  BY <1>1 DEF Idle, Work, Labels, Answers
<1>3. TypeInv
  BY <1>2, MigrationAssumption DEF Init, TypeInv, Unread, Statuses
<1>4. SlotsHold
  <2>1. Working = {}
    BY DEF Init, Working, InSlot, Idle
  <2>2. QED
    BY <2>1, FS_EmptySet, MigrationAssumption DEF SlotsHold
<1>5. ASSUME NEW t \in Titles PROVE SearchOK(work[t]) /\ ResultOK(t)
  BY DEF Init, Idle, Unread, SearchOK, ResultOK, Settled
<1>6. ASSUME NEW c \in Clients PROVE PageOK(c)
  BY DEF Init, PageOK, Attached
<1>7. UnattendedStops
  BY DEF Init, UnattendedStops
<1>8. QED
  BY <1>3, <1>4, <1>5, <1>6, <1>7 DEF JobInv

LEMMA StepsKeep == JobInv /\ [Next]_vars => JobInv'
<1> SUFFICES ASSUME JobInv, [Next]_vars PROVE JobInv'
  OBVIOUS
<1>1. ASSUME NEW t \in Titles, TitleStep(t) PROVE JobInv'
  <2>1. CASE TakeSlot(t)
    BY <2>1, TakeSlotKeeps
  <2>2. CASE \/ StartSearch(t) \/ AskNext(t) \/ AskAll(t)
             \/ CompareAll(t) \/ Materialize(t) \/ Choose(t)
    BY <2>2, SearchSteps, SearchFollowed DEF JobInv
  <2>3. CASE SetState(t)
    BY <2>3, SetStateKeeps
  <2>4. CASE Publish(t)
    BY <2>4, PublishKeeps
  <2>5. QED
    BY <1>1, <2>1, <2>2, <2>3, <2>4 DEF TitleStep
<1>2. ASSUME NEW t \in Titles, CancelTitle(t) PROVE JobInv'
  BY <1>2, CancelKeeps DEF CancelTitle, jobVars, JobInv, TypeInv
<1>3. ASSUME NEW c \in Clients, CancelUnattended(c) PROVE JobInv'
  BY <1>3, CancelKeeps DEF CancelUnattended, JobInv, TypeInv
<1>4. CASE CancelAll
  BY <1>4, CancelKeeps DEF CancelAll, JobInv, TypeInv
<1>5. CASE Expire
  BY <1>5, CancelKeeps DEF Expire, JobInv, TypeInv
<1>6. CASE UNCHANGED vars
  BY <1>6, CancelKeeps DEF vars, jobVars, JobInv, TypeInv
<1>7. QED
  BY <1>1, <1>2, <1>3, <1>4, <1>5, <1>6, CompleteKeeps, SubscribeKeeps, ReceiveKeeps, UnsubscribeKeeps
     DEF Next

LEMMA JobInvariant == Spec => []JobInv
BY InitHolds, StepsKeep, PTL DEF Spec

\* A page that was told the job is over shows what every title came to, the end of a job
\* is final, the best of the stored replacements is taken, a title is canceled only for
\* its own sake or the job's, and a job nobody follows stops: for every number of titles,
\* sources, slots and pages, whenever they connect, drop and connect again.
THEOREM JobsAreSound == Spec => []JobSound
<1>1. ASSUME JobInv PROVE JobSound
  <2>1. TypeOK
    <3>1. \A t \in Titles : WorkOK(t)
      BY <1>1 DEF JobInv, TypeInv, WorkOK, Work, Labels
    <3>2. Cardinality({t \in Titles : InSlot(t)}) <= Slots
      BY <1>1 DEF JobInv, SlotsHold, Working
    <3>3. /\ job \in [started : BOOLEAN, closed : BOOLEAN, stopped : BOOLEAN, kept : BOOLEAN]
          /\ status \in [Titles -> Statuses] /\ view \in [Clients -> [Titles -> Statuses]]
          /\ asked \subseteq Titles /\ leaving \subseteq Clients /\ ended \subseteq Clients
      BY <1>1 DEF JobInv, TypeInv
    <3>4. QED
      BY <3>1, <3>2, <3>3, Zenon DEF TypeOK
  <2>2. PagesAgree
    BY <1>1 DEF JobInv, TypeInv, PageOK, PagesAgree
  <2>3. CompleteIsFinal
    <3>1. ASSUME job.closed PROVE Subscribers = {}
      BY <1>1, <3>1 DEF JobInv, PageOK, Subscribers, Subscribed, Attached
    <3>2. ASSUME job.closed, job.started, NEW t \in Titles PROVE status[t] # "searching"
      BY <1>1, <3>2 DEF JobInv, ResultOK
    <3>3. QED
      BY <3>1, <3>2 DEF CompleteIsFinal
  <2>4. BestIsChosen
    BY <1>1 DEF JobInv, SearchOK, BestIsChosen
  <2>5. CancelIsContained
    BY <1>1 DEF JobInv, ResultOK, CancelIsContained
  <2>6. UnattendedStops
    BY <1>1 DEF JobInv
  <2>7. QED
    BY <2>1, <2>2, <2>3, <2>4, <2>5, <2>6 DEF JobSound
<1>2. QED
  BY <1>1, JobInvariant, PTL

\* An outage is never reported as an empty result: "failed" means that every source
\* failed, and "notFound" that some source answered, or that nobody could be asked.
THEOREM OutagesShown == Spec => []OutagesAreShown
<1>1. ASSUME JobInv PROVE OutagesAreShown
  BY <1>1 DEF JobInv, SearchOK, Outcome, Found, OutagesAreShown, At
<1>2. QED
  BY <1>1, JobInvariant, PTL
=============================================================================
