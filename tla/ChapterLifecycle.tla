-------------------------- MODULE ChapterLifecycle --------------------------
(***************************************************************************)
(* What the download queue promises about a chapter, without rows, workers *)
(* or files: the states its queue entry moves through and when the chapter *)
(* counts as downloaded (README.md, "Downloads", and the status guards of  *)
(* internal/db/repository.go).  One step may move several chapters alike.  *)
(***************************************************************************)
CONSTANTS Chapters

VARIABLES entry,       \* the state of each chapter's queue entry
          downloaded   \* the chapters whose archive is registered

lifeVars == <<entry, downloaded>>

EntryState == {"ABSENT", "PENDING", "DOWNLOADING", "PAUSED", "FAILED"}

Init == /\ entry = [c \in Chapters |-> "ABSENT"]
        /\ downloaded = {}

Move(cs, from, to) ==
    /\ \A c \in cs : entry[c] \in from
    /\ entry' = [c \in Chapters |-> IF c \in cs THEN to ELSE entry[c]]

\* Queued by the user, or queued again after a failure.
Queue(cs) == Move(cs, {"ABSENT", "FAILED"}, "PENDING") /\ UNCHANGED downloaded

\* A worker takes it up, and puts it back.
Start(cs)   == Move(cs, {"PENDING"}, "DOWNLOADING") /\ UNCHANGED downloaded
PutBack(cs) == Move(cs, {"DOWNLOADING"}, "PENDING") /\ UNCHANGED downloaded

\* The user stops it and lets it go on.
Stop(cs) == Move(cs, {"PENDING", "DOWNLOADING"}, "PAUSED") /\ UNCHANGED downloaded
GoOn(cs) == Move(cs, {"PAUSED"}, "PENDING") /\ UNCHANGED downloaded

Fail(cs) == Move(cs, {"DOWNLOADING"}, "FAILED") /\ UNCHANGED downloaded

\* It becomes downloaded in the step that takes it out of flight and off the
\* queue, and in no other.
Finish(cs) == /\ Move(cs, {"DOWNLOADING"}, "ABSENT")
              /\ downloaded' = downloaded \cup cs

Cancel(cs) == Move(cs, EntryState, "ABSENT") /\ UNCHANGED downloaded

\* The chapter itself leaves the library.
Retire(cs) == /\ Move(cs, EntryState, "ABSENT")
              /\ downloaded' = downloaded \ cs

Next == \E cs \in SUBSET Chapters :
            \/ Queue(cs) \/ Start(cs) \/ PutBack(cs) \/ Stop(cs) \/ GoOn(cs)
            \/ Fail(cs) \/ Finish(cs) \/ Cancel(cs) \/ Retire(cs)

LifecycleSpec == Init /\ [][Next]_lifeVars
=============================================================================
