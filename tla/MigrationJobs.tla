---------------------------- MODULE MigrationJobs ----------------------------
(***************************************************************************)
(* A search for replacements of the titles of a source                     *)
(* (internal/api/migration_jobs.go): the job, the goroutine of each title, *)
(* the slots they share, the sources they consult, and the pages that      *)
(* follow it over a websocket and reconnect                                *)
(* (web/src/hooks/useMigrationEvents.ts).                                  *)
(*                                                                         *)
(* One job.  What a page shows is what it made of the snapshot and the     *)
(* frames it has read.                                                     *)
(***************************************************************************)
EXTENDS Naturals, Sequences, FiniteSets, SequencesExt

CONSTANTS Titles,       \* titles of the job
          Targets,      \* the sources to consult, in order
          Ranks,        \* how good a replacement is, in the order of betterChapter
          Clients,      \* pages
          Slots,        \* migrationTitleConcurrency
          Prioritize,   \* the values of prioritizeByChapters to explore
          MaxConnects,  \* bound: connections of all pages
          MaxCancels,   \* bound: titles or jobs canceled by a page
          None

ASSUME MigrationAssumption ==
    /\ Targets \in Seq(Range(Targets)) /\ IsInjective(Targets)
    /\ Ranks \subseteq Nat /\ None \notin Ranks
    /\ Slots \in Nat \ {0} /\ Prioritize \subseteq BOOLEAN
    /\ {MaxConnects, MaxCancels} \subseteq Nat

VARIABLES
    job,        \* started, closed, stopped (its context), kept by the manager
    prioritize, \* consult every source, or stop at the first match
    status,     \* migrationTitle.state of each title
    work,       \* what the goroutine of each title does next, and its locals
    asked,      \* titles with cancelRequested
    leaving,    \* pages whose handler found itself the last and cancels next
    stream,     \* the subscription of each page: its channel, oldest frame first
    view,       \* what each page shows for each title
    ended,      \* pages that were told the job is over
    connects, cancels

jobVars  == <<job, prioritize, status>>
pageVars == <<stream, view, ended>>
vars == <<jobVars, work, asked, leaving, pageVars, connects, cancels>>

Sources == Range(Targets)
Statuses == {"searching", "success", "notFound", "failed", "cancelled"}
\* A source has not answered, failed, has no match, or has one to materialize.
Answers == {"asked", "failed", "none", "match"}
\* A subscription: a channel that is open or closed, and the frames it holds.
Frames == [title : Titles \cup {None}, status : Statuses \cup {"complete"}]
Stream == [open : BOOLEAN, frames : Seq(Frames)]

ASSUME StreamAssumption == None \notin Stream

Idle == [pc |-> "none", at |-> 1, answer |-> [s \in Sources |-> "asked"], best |-> None,
         stored |-> [s \in Sources |-> None], event |-> None]
Unread == [t \in Titles |-> "searching"]

Init ==
    /\ job = [started |-> FALSE, closed |-> FALSE, stopped |-> FALSE, kept |-> TRUE]
    /\ prioritize \in Prioritize
    /\ status = Unread
    /\ work = [t \in Titles |-> Idle]
    /\ asked = {} /\ leaving = {}
    /\ stream = [c \in Clients |-> None]
    /\ view = [c \in Clients |-> Unread] /\ ended = {}
    /\ connects = 0 /\ cancels = 0

Subscribed(c) == stream[c] # None /\ stream[c].open
Subscribers == {c \in Clients : Subscribed(c)}
Attached(c) == stream[c] # None

-----------------------------------------------------------------------------
(* A title: work, searchTitle, searchInOrder, searchPrioritized            *)

At(t, label) == work[t].pc = label
InSlot(t) == work[t].pc \in {"start", "search", "store", "finish", "publish"}

\* Mutant of Canceled: what was asked for one title stops them all.
CanceledByAny(t) == job.stopped \/ (asked # {} /\ InSlot(t))

\* The context of a title is canceled with the job's or by cancelTitle, which
\* reaches it once the goroutine has a slot.
Canceled(t) == job.stopped \/ (t \in asked /\ InSlot(t))

Finish(t, event) == work' = [work EXCEPT ![t].pc = "finish", ![t].event = event]

\* Mutant of TakeSlot: one slot too many.
TakeSlotLate(t) ==
    /\ At(t, "queued")
    /\ Cardinality({u \in Titles : InSlot(u)}) <= Slots
    /\ work' = [work EXCEPT ![t].pc = "start"]
    /\ UNCHANGED <<jobVars, asked, leaving, pageVars, connects, cancels>>

\* A free slot, or the job is stopped; when both hold, either.
TakeSlot(t) ==
    /\ At(t, "queued")
    /\ \/ /\ Cardinality({u \in Titles : InSlot(u)}) < Slots
          /\ work' = [work EXCEPT ![t].pc = "start"]
       \/ /\ job.stopped
          /\ work' = [work EXCEPT ![t].pc = "drop", ![t].event = "cancelled"]
    /\ UNCHANGED <<jobVars, asked, leaving, pageVars, connects, cancels>>

\* A title nobody can be asked about is settled at once.
StartSearch(t) ==
    /\ At(t, "start")
    /\ \/ Canceled(t) /\ Finish(t, "cancelled")
       \/ ~Canceled(t) /\ Finish(t, "notFound")
       \/ ~Canceled(t) /\ work' = [work EXCEPT ![t].pc = "search"]
    /\ UNCHANGED <<jobVars, asked, leaving, pageVars, connects, cancels>>

\* Mutant of Answered: a failure counts as an answer.
AnsweredAll(t) == \E s \in Sources : work[t].answer[s] # "asked"

Answered(t) == \E s \in Sources : work[t].answer[s] \in {"none", "match"}

\* What a search without a replacement comes to.
Verdict(t) == IF Answered(t) THEN "notFound" ELSE "failed"

\* In order: the next source is asked, unless the title was canceled or every
\* source has been asked.
AskNext(t) ==
    LET i == work[t].at
    IN  /\ At(t, "search") /\ ~prioritize
        /\ IF Canceled(t) THEN Finish(t, "cancelled")
           ELSE IF i > Len(Targets) THEN Finish(t, Verdict(t))
           ELSE \E a \in {"failed", "none", "match"} :
                   work' = [work EXCEPT ![t].answer[Targets[i]] = a,
                                        ![t].pc = IF a = "match" THEN "store" ELSE "search",
                                        ![t].at = IF a = "match" THEN i ELSE i + 1]
        /\ UNCHANGED <<jobVars, asked, leaving, pageVars, connects, cancels>>

\* With priorities every source is asked at once; a canceled search fails.
AskAll(t) ==
    /\ At(t, "search") /\ prioritize
    /\ \E s \in Sources :
          /\ work[t].answer[s] = "asked"
          /\ \E a \in IF Canceled(t) THEN {"failed"} ELSE {"failed", "none", "match"} :
                work' = [work EXCEPT ![t].answer[s] = a]
    /\ UNCHANGED <<jobVars, asked, leaving, pageVars, connects, cancels>>

CompareAll(t) ==
    /\ At(t, "search") /\ prioritize /\ \A s \in Sources : work[t].answer[s] # "asked"
    /\ IF Canceled(t) THEN Finish(t, "cancelled")
       ELSE IF ~Answered(t) THEN Finish(t, "failed")
       ELSE work' = [work EXCEPT ![t].pc = "store"]
    /\ UNCHANGED <<jobVars, asked, leaving, pageVars, connects, cancels>>

\* Mutant of Keeps: the match that was materialized last.
KeepsLast(t, rank) == TRUE

\* betterChapter is strict: the earlier of two equals stays.
Keeps(t, rank) == work[t].best = None \/ rank > work[t].best

\* materialize: the stub is stored and its chapters are fetched, or storing fails,
\* or the title was canceled during the fetch.  Without priorities the first
\* replacement is taken; with them the best one.
Materialize(t) ==
    LET i == work[t].at
        s == Targets[i]
    IN  /\ At(t, "store") /\ i <= Len(Targets)
        /\ \/ /\ work[t].answer[s] = "match"
              /\ \E rank \in Ranks :
                    work' = [work EXCEPT ![t].stored[s] = rank,
                                         ![t].best = IF Keeps(t, rank) THEN rank ELSE @,
                                         ![t].pc = IF prioritize THEN "store" ELSE "finish",
                                         ![t].event = IF prioritize THEN None ELSE "success",
                                         ![t].at = i + 1]
           \/ /\ work[t].answer[s] = "match" /\ ~Canceled(t)
              /\ work' = [work EXCEPT ![t].pc = IF prioritize THEN "store" ELSE "search", ![t].at = i + 1]
           \/ work[t].answer[s] = "match" /\ Canceled(t) /\ Finish(t, "cancelled")
           \/ work[t].answer[s] # "match" /\ work' = [work EXCEPT ![t].at = i + 1]
        /\ UNCHANGED <<jobVars, asked, leaving, pageVars, connects, cancels>>

Choose(t) ==
    /\ At(t, "store") /\ work[t].at > Len(Targets)
    /\ Finish(t, IF work[t].best = None THEN "notFound" ELSE "success")
    /\ UNCHANGED <<jobVars, asked, leaving, pageVars, connects, cancels>>

Frame(t, s) == [title |-> t, status |-> s]
CompleteFrame == Frame(None, "complete")

\* Mutant of Send: the channel holds one frame, and a full one is skipped.
SendUnlessFull(frame) ==
    stream' = [c \in Clients |-> IF Subscribed(c) /\ stream[c].frames = <<>>
                                 THEN [stream[c] EXCEPT !.frames = Append(@, frame)]
                                 ELSE stream[c]]

\* publish: the channel holds a frame for every title and more, so none is skipped.
Send(frame) ==
    stream' = [c \in Clients |-> IF Subscribed(c)
                                 THEN [stream[c] EXCEPT !.frames = Append(@, frame)]
                                 ELSE stream[c]]

\* finish, under the lock: the state ...
SetState(t) ==
    /\ At(t, "finish") \/ At(t, "drop")
    /\ status' = [status EXCEPT ![t] = work[t].event]
    /\ work' = [work EXCEPT ![t].pc = IF At(t, "finish") THEN "publish" ELSE "tell"]
    /\ UNCHANGED <<job, prioritize, asked, leaving, pageVars, connects, cancels>>

\* ... then, under the lock again, the frame; the slot is free after that.
Publish(t) ==
    /\ At(t, "publish") \/ At(t, "tell")
    /\ Send(Frame(t, work[t].event))
    /\ work' = [work EXCEPT ![t] = [Idle EXCEPT !.pc = "done"]]
    /\ UNCHANGED <<jobVars, asked, leaving, view, ended, connects, cancels>>

TitleStep(t) == \/ TakeSlot(t) \/ StartSearch(t) \/ AskNext(t) \/ AskAll(t) \/ CompareAll(t)
                \/ Materialize(t) \/ Choose(t) \/ SetState(t) \/ Publish(t)

\* Mutant of Complete: the channels are closed and stay registered.
CompleteRegistered ==
    /\ job.started /\ ~job.closed /\ \A t \in Titles : At(t, "done")
    /\ job' = [job EXCEPT !.closed = TRUE]
    /\ UNCHANGED <<prioritize, status, work, asked, leaving, pageVars, connects, cancels>>

\* Mutant of Complete: a job that was stopped returns early.
CompleteUnlessStopped ==
    /\ job.started /\ ~job.closed /\ ~job.stopped /\ \A t \in Titles : At(t, "done")
    /\ job' = [job EXCEPT !.closed = TRUE]
    /\ stream' = [c \in Clients |-> IF Subscribed(c)
                                    THEN [open |-> FALSE, frames |-> Append(stream[c].frames, CompleteFrame)]
                                    ELSE stream[c]]
    /\ UNCHANGED <<prioritize, status, work, asked, leaving, view, ended, connects, cancels>>

\* complete: every listener is told and its channel closed.
Complete ==
    /\ job.started /\ ~job.closed /\ \A t \in Titles : At(t, "done")
    /\ job' = [job EXCEPT !.closed = TRUE]
    /\ stream' = [c \in Clients |-> IF Subscribed(c)
                                    THEN [open |-> FALSE, frames |-> Append(stream[c].frames, CompleteFrame)]
                                    ELSE stream[c]]
    /\ UNCHANGED <<prioritize, status, work, asked, leaving, view, ended, connects, cancels>>

-----------------------------------------------------------------------------
(* The pages                                                               *)

\* A page connects, also again after its socket dropped.  The snapshot and the
\* subscription are one step; the first subscription starts the work, and a job
\* that is over answers with the snapshot alone.
Subscribe(c) ==
    /\ job.kept /\ ~Attached(c) /\ c \notin ended /\ c \notin leaving /\ connects < MaxConnects
    /\ connects' = connects + 1
    /\ view' = [view EXCEPT ![c] = status]
    /\ IF job.closed
       THEN /\ ended' = ended \cup {c}
            /\ UNCHANGED <<job, work, stream>>
       ELSE /\ job' = [job EXCEPT !.started = TRUE]
            /\ work' = IF job.started THEN work ELSE [t \in Titles |-> [Idle EXCEPT !.pc = "queued"]]
            /\ stream' = [stream EXCEPT ![c] = [open |-> TRUE, frames |-> <<>>]]
            /\ UNCHANGED ended
    /\ UNCHANGED <<prioritize, status, asked, leaving, cancels>>

\* The handler writes the next frame to the socket and the page applies it.
Receive(c) ==
    /\ Attached(c) /\ stream[c].frames # <<>>
    /\ LET frame == Head(stream[c].frames)
       IN  IF frame = CompleteFrame
           THEN ended' = ended \cup {c} /\ UNCHANGED view
           ELSE view' = [view EXCEPT ![c][frame.title] = frame.status] /\ UNCHANGED ended
    /\ stream' = [stream EXCEPT ![c].frames = Tail(@)]
    /\ UNCHANGED <<jobVars, work, asked, leaving, connects, cancels>>

\* Mutant of LeavesLast: counted before the page is removed.
LeavesEmpty(c) == Subscribers = {} /\ job.started /\ ~job.closed

\* unsubscribe: nobody is left to follow the job.
LeavesLast(c) == Subscribers \ {c} = {} /\ job.started /\ ~job.closed

\* The socket drops, or the page is left, or the channel was closed and read.
Unsubscribe(c) ==
    /\ Attached(c)
    /\ leaving' = IF LeavesLast(c) THEN leaving \cup {c} ELSE leaving
    /\ stream' = [stream EXCEPT ![c] = None]
    /\ UNCHANGED <<jobVars, work, asked, view, ended, connects, cancels>>

\* The cancel of the last page follows outside the lock; a page may have
\* connected since.
CancelUnattended(c) ==
    /\ c \in leaving
    /\ leaving' = leaving \ {c}
    /\ job' = [job EXCEPT !.stopped = TRUE]
    /\ UNCHANGED <<prioritize, status, work, asked, pageVars, connects, cancels>>

CancelAll ==
    /\ job.kept /\ cancels < MaxCancels
    /\ cancels' = cancels + 1
    /\ job' = IF job.started THEN [job EXCEPT !.stopped = TRUE] ELSE [job EXCEPT !.closed = TRUE]
    /\ UNCHANGED <<prioritize, status, work, asked, leaving, pageVars, connects>>

CancelTitle(t) ==
    /\ job.kept /\ cancels < MaxCancels
    /\ cancels' = cancels + 1
    /\ asked' = asked \cup {t}
    /\ UNCHANGED <<jobVars, work, leaving, pageVars, connects>>

\* pruneLocked, when a later job starts: a job that has been over for long.
Expire ==
    /\ job.kept /\ job.closed
    /\ job' = [job EXCEPT !.kept = FALSE]
    /\ UNCHANGED <<prioritize, status, work, asked, leaving, pageVars, connects, cancels>>

Next ==
    \/ \E t \in Titles : TitleStep(t) \/ CancelTitle(t)
    \/ \E c \in Clients : Subscribe(c) \/ Receive(c) \/ Unsubscribe(c) \/ CancelUnattended(c)
    \/ Complete \/ CancelAll \/ Expire

Spec == Init /\ [][Next]_vars

\* Searches have a timeout and handlers finish; no page has to stay or to connect.
Fairness ==
    /\ \A t \in Titles : WF_vars(TitleStep(t))
    /\ WF_vars(Complete) /\ WF_vars(\E c \in Clients : CancelUnattended(c))

FairSpec == Spec /\ Fairness

-----------------------------------------------------------------------------
(* Properties                                                              *)

WorkOK(t) ==
    /\ work[t].pc \in {"none", "queued", "start", "search", "store", "finish", "publish", "drop",
                       "tell", "done"}
    /\ work[t].at \in 1 .. Len(Targets) + 1 /\ work[t].answer \in [Sources -> Answers]
    /\ work[t].stored \in [Sources -> Ranks \cup {None}] /\ work[t].best \in Ranks \cup {None}
    /\ work[t].event \in Statuses \cup {None}
TypeOK ==
    /\ job \in [started : BOOLEAN, closed : BOOLEAN, stopped : BOOLEAN, kept : BOOLEAN]
    /\ status \in [Titles -> Statuses] /\ view \in [Clients -> [Titles -> Statuses]]
    /\ \A t \in Titles : WorkOK(t)
    /\ asked \subseteq Titles /\ leaving \subseteq Clients /\ ended \subseteq Clients
    /\ Cardinality({t \in Titles : InSlot(t)}) <= Slots

\* A page that was told the job is over shows what every title came to, at
\* whatever moment it connected or connected again.
PagesAgree == \A c \in ended : view[c] = status

\* "complete marks the end of the job": no listener holds an open channel to a
\* job that is over, and a job that was canceled before the first page came does not begin.
CompleteIsFinal ==
    job.closed => Subscribers = {} /\ (job.started => \A t \in Titles : status[t] # "searching")

\* "Reporting this as notFound would hide an outage behind an empty result".
OutagesAreShown ==
    \A t \in Titles : At(t, "finish") =>
        /\ work[t].event = "failed" => \A s \in Sources : work[t].answer[s] = "failed"
        /\ work[t].event = "notFound" => \/ \A s \in Sources : work[t].answer[s] = "asked"
                                         \/ \E s \in Sources : work[t].answer[s] \in {"none", "match"}

\* With priorities the replacement is the best of those that were stored.
BestIsChosen ==
    \A t \in Titles : At(t, "finish") /\ work[t].event = "success" =>
        \A s \in Sources : work[t].stored[s] # None => work[t].stored[s] <= work[t].best

\* cancelTitle leaves "the rest of the job running": a title is canceled for its
\* own sake, with the job, or because nobody was left to follow it.
CancelIsContained ==
    \A t \in Titles : status[t] = "cancelled" => t \in asked \/ job.stopped

\* Every search of a begun job ends, whoever leaves or cancels.
JobEnds == job.started ~> job.closed

\* "a page that navigated away must not keep issuing source requests".
UnattendedStops ==
    job.started /\ ~job.closed /\ Subscribers = {} => job.stopped \/ leaving # {}

\* What a job shows is what it came to: pages that were told its end agree with it, its
\* end is final, the best match is taken, no title is canceled for another's sake, and no
\* job runs on for nobody.
JobSound ==
    TypeOK /\ PagesAgree /\ CompleteIsFinal /\ BestIsChosen /\ CancelIsContained /\ UnattendedStops
=============================================================================
