--------------------------- MODULE DownloadQueue ---------------------------
(***************************************************************************)
(* The downloader: the workers of internal/downloader/queue.go, the API    *)
(* handlers that steer them, the queue table they share (QueueTable), the  *)
(* staging directories and the finished archives on disk, and the crash    *)
(* and restart of the daemon.                                              *)
(*                                                                         *)
(* A worker runs process() between its own reads and writes of the shared  *)
(* state; every statement, file operation and flag read that another       *)
(* worker or a handler can get in between is a step of its own.  Steps     *)
(* that touch nothing shared (fetching bytes, unscrambling, pacing and     *)
(* retries) are part of the step that ends them, which may fail.           *)
(***************************************************************************)
EXTENDS QueueTable

CONSTANTS Workers,      \* Options.Workers goroutines
          Paths,        \* archive paths
          PathOf,       \* the path Archiver.Write gives a chapter
          Format,       \* "cbz" or "folder", the title's download format
          Replaces,     \* whether a rename replaces what stands at its target: that of a
                        \* file does on POSIX systems, of a folder and on Windows it may not
          PageCounts,   \* lengths of the page list a source may answer with
          DbFaults,     \* whether writing the page rows may fail
          Commands,     \* the user commands a run exercises
          MaxCommands,  \* bound: user commands in a behaviour
          MaxCrashes,   \* bound: crashes in a behaviour
          None,         \* no chapter
          Removed       \* nothing, since replacePath removed what stood there

ASSUME PathAssumption == /\ PathOf \in [Chapters -> Paths] /\ Format \in {"cbz", "folder"}
                         /\ Replaces \in BOOLEAN /\ (Replaces => Format = "cbz")
ASSUME PageAssumption == PageCounts \subseteq Nat \ {0} /\ DbFaults \in BOOLEAN
ASSUME BoundAssumption == MaxCommands \in Nat /\ MaxCrashes \in Nat
ASSUME NoneAssumption == None \notin Chapters /\ Removed \notin Chapters \cup {None}

VARIABLES
    queue,          \* the download_queue table
    lastId,         \* its autoincrement counter
    library,        \* rows of the chapters table that still exist
    downloaded,     \* chapters with downloaded = 1
    dirs,           \* existing staging directories .tmp/<id>
    staged,         \* <<id, page index>> of every staged page file
    archive,        \* the chapter whose pages the file at a path holds, None or Removed
    paused,         \* Queue.paused
    pausedSources,  \* Queue.pausedSources
    pc,             \* what each worker does next
    job,            \* the locals of process() in each worker
    held,           \* PausedSources of the ClaimOptions each worker resolved
    discards,       \* ids whose cancel handler has yet to call removeStaged
    yieldDue,       \* a reorder handler has yet to yield superseded rows
    up,             \* the daemon runs
    commands,       \* user commands issued so far
    crashes         \* crashes so far

tableVars  == <<queue, lastId, library, downloaded>>
fileVars   == <<dirs, staged, archive>>
flagVars   == <<paused, pausedSources>>
workerVars == <<pc, job, held>>
apiVars    == <<discards, yieldDue>>
metaVars   == <<up, commands, crashes>>
vars == <<tableVars, fileVars, flagVars, workerVars, apiVars, metaVars>>

\* id: the claimed row; chapter: its chapter; pages: length of the page list;
\* done: length of the done slice; index: pages held in memory, which is the
\* index of the page the loop is at.
Job == [id : Nat, chapter : Chapters \cup {None}, pages : Nat, done : Nat, index : Nat]
NoJob == [id |-> 0, chapter |-> None, pages |-> 0, done |-> 0, index |-> 0]

Checks == {"checkFetch", "checkStaged", "checkArchive", "checkRefused"}
Labels == Checks \cup {"idle", "claim", "read", "open", "start", "page", "fetch",
                       "progress", "save", "archive", "replace", "register", "unregister",
                       "fail", "discard", "release", "cleanup"}

StagedOf(id) == {entry \in staged : entry[1] = id}
\* Mutant of RemoveStaged: the directory entry goes, its files stay.
RemoveStagedDir(ids) == dirs' = dirs \ ids /\ UNCHANGED staged

RemoveStaged(ids) == /\ dirs' = dirs \ ids
                     /\ staged' = {entry \in staged : entry[1] \notin ids}

Init ==
    /\ queue = [id \in {} |-> NewRow(None, 0)] /\ lastId = 0
    /\ library = Chapters /\ downloaded = {}
    /\ dirs = {} /\ staged = {} /\ archive = [p \in Paths |-> None]
    /\ paused = FALSE /\ pausedSources = {}
    /\ pc = [w \in Workers |-> "idle"]
    /\ job = [w \in Workers |-> NoJob]
    /\ held = [w \in Workers |-> {}]
    /\ discards = {} /\ yieldDue = FALSE
    /\ up = TRUE /\ commands = 0 /\ crashes = 0

-----------------------------------------------------------------------------
(* Workers                                                                 *)

Goto(w, label) == pc' = [pc EXCEPT ![w] = label]
Leave(w) == Goto(w, "idle") /\ job' = [job EXCEPT ![w] = NoJob]

InFlightRow(id) == id \in WithStatus(queue, {"DOWNLOADING"})

\* The head of the runWorker loop: a paused downloader claims nothing, and
\* claimOptions reads the paused sources before the claim statement runs.
ResolveGates(w) ==
    /\ pc[w] = "idle" /\ ~paused
    /\ Goto(w, "claim")
    /\ held' = [held EXCEPT ![w] = pausedSources]
    /\ UNCHANGED <<tableVars, fileVars, flagVars, job, apiVars>>

\* Mutant of Claim: an unsuccessful claim is tried again without resolving the
\* gates anew.
ClaimWithOldGates(w) ==
    /\ pc[w] = "claim"
    /\ \E id \in Heads(queue, held[w]) :
          /\ queue' = SetStatus(queue, {id}, "DOWNLOADING")
          /\ job' = [job EXCEPT ![w].id = id]
          /\ Goto(w, "read")
    /\ held' = [held EXCEPT ![w] = {}]
    /\ UNCHANGED <<lastId, library, downloaded, fileVars, flagVars, apiVars>>

Claim(w) ==
    /\ pc[w] = "claim"
    /\ held' = [held EXCEPT ![w] = {}]
    /\ \/ /\ Claimable(queue, held[w]) = {}
          /\ Leave(w)
          /\ UNCHANGED queue
       \/ \E id \in Heads(queue, held[w]) :
          /\ queue' = SetStatus(queue, {id}, "DOWNLOADING")
          /\ job' = [job EXCEPT ![w].id = id]
          /\ Goto(w, "read")
    /\ UNCHANGED <<lastId, library, downloaded, fileVars, flagVars, apiVars>>

\* GetQueueItem after the claim committed: the item process() works from.
ReadItem(w) ==
    /\ pc[w] = "read"
    /\ \/ /\ job[w].id \notin DOMAIN queue
          /\ Leave(w)
       \/ /\ job[w].id \in DOMAIN queue
          /\ job' = [job EXCEPT ![w].chapter = queue[job[w].id].chapter,
                                ![w].done = queue[job[w].id].done]
          /\ Goto(w, "open")
    /\ UNCHANGED <<tableVars, fileVars, flagVars, held, apiVars>>

\* The source lists the pages, or fails or lists none; MkdirAll.
OpenItem(w) ==
    /\ pc[w] = "open"
    /\ \/ /\ Goto(w, "fail")
          /\ UNCHANGED <<job, dirs>>
       \/ \E n \in PageCounts :
          /\ job' = [job EXCEPT ![w].pages = n]
          /\ dirs' = dirs \cup {job[w].id}
          /\ Goto(w, "start")
    /\ UNCHANGED <<tableVars, staged, archive, flagVars, held, apiVars>>

\* UpdateQueueProgress, before the loop and after every page.
RecordProgress(w) ==
    /\ pc[w] \in {"start", "progress"}
    /\ \/ /\ AcceptsProgress(queue, job[w].id, job[w].pages, job[w].done)
          /\ queue' = UpdateProgress(queue, job[w].id, job[w].pages, job[w].done)
          /\ Goto(w, IF pc[w] = "start" THEN "page" ELSE "save")
       \/ /\ ~AcceptsProgress(queue, job[w].id, job[w].pages, job[w].done)
          /\ Goto(w, "checkRefused")
          /\ UNCHANGED queue
    /\ UNCHANGED <<lastId, library, downloaded, fileVars, flagVars, job, held, apiVars>>

\* The head of the page loop: a staged page is taken from disk.
NextPage(w) ==
    /\ pc[w] = "page"
    /\ \/ /\ job[w].index = job[w].pages
          /\ Goto(w, "checkArchive")
          /\ UNCHANGED job
       \/ /\ job[w].index < job[w].pages
          /\ <<job[w].id, job[w].index>> \in staged
          /\ job' = [job EXCEPT ![w].index = @ + 1]
          /\ UNCHANGED pc
       \/ /\ job[w].index < job[w].pages
          /\ <<job[w].id, job[w].index>> \notin staged
          /\ Goto(w, "checkFetch")
          /\ UNCHANGED job
    /\ UNCHANGED <<tableVars, fileVars, flagVars, held, apiVars>>

(***************************************************************************)
(* interrupted(): the row is gone or PAUSED, so its staged pages go; or it *)
(* is no longer in flight, so the work stops; or the downloader or the     *)
(* source is paused, so the row is released; or the work goes on.          *)
(***************************************************************************)
Proceed == [checkFetch |-> "fetch", checkStaged |-> "page",
            checkArchive |-> "archive", checkRefused |-> "fail"]

Boundary(w) ==
    LET id == job[w].id
        pausing == paused \/ SourceOf[job[w].chapter] \in pausedSources
    IN  /\ pc[w] \in Checks
        /\ \/ /\ id \notin DOMAIN queue \/ id \in WithStatus(queue, {"PAUSED"})
              /\ Goto(w, "discard") /\ UNCHANGED job
           \/ /\ id \in WithStatus(queue, {"PENDING", "FAILED"})
              /\ Leave(w)
           \/ /\ InFlightRow(id) /\ pausing
              /\ Goto(w, "release") /\ UNCHANGED job
           \/ /\ InFlightRow(id) /\ ~pausing
              /\ Goto(w, Proceed[pc[w]]) /\ UNCHANGED job
        /\ UNCHANGED <<tableVars, fileVars, flagVars, held, apiVars>>

Discard(w) ==
    /\ pc[w] = "discard"
    /\ RemoveStaged({job[w].id})
    /\ Leave(w)
    /\ UNCHANGED <<tableVars, archive, flagVars, held, apiVars>>

\* releaseForPause: ReleaseQueueItem leaves a row alone that is not in flight.
Release(w) ==
    /\ pc[w] = "release"
    /\ queue' = SetStatus(queue, {job[w].id} \cap WithStatus(queue, {"DOWNLOADING"}), "PENDING")
    /\ Leave(w)
    /\ UNCHANGED <<lastId, library, downloaded, fileVars, flagVars, held, apiVars>>

\* Mutant of FetchPage: the page is counted and not staged.
FetchUnstaged(w) ==
    /\ pc[w] = "fetch"
    /\ \/ /\ Goto(w, "fail")
          /\ UNCHANGED job
       \/ /\ job' = [job EXCEPT ![w].index = @ + 1, ![w].done = @ + 1]
          /\ Goto(w, "progress")
    /\ UNCHANGED <<tableVars, fileVars, flagVars, held, apiVars>>

\* Fetch, unscramble and stage one page.  A staging directory that was removed
\* meanwhile refuses the write.
FetchPage(w) ==
    /\ pc[w] = "fetch"
    /\ \/ /\ Goto(w, "fail")
          /\ UNCHANGED <<job, staged>>
       \/ /\ job[w].id \in dirs
          /\ staged' = staged \cup {<<job[w].id, job[w].index>>}
          /\ job' = [job EXCEPT ![w].index = @ + 1, ![w].done = @ + 1]
          /\ Goto(w, "progress")
    /\ UNCHANGED <<tableVars, dirs, archive, flagVars, held, apiVars>>

\* SaveQueuePageProgress.
SavePages(w) ==
    /\ pc[w] = "save"
    /\ \/ /\ AcceptsProgress(queue, job[w].id, job[w].pages, job[w].done)
          /\ queue' = SaveDone(queue, job[w].id, job[w].done)
          /\ Goto(w, "checkStaged")
       \/ /\ ~AcceptsProgress(queue, job[w].id, job[w].pages, job[w].done)
          /\ Goto(w, "checkRefused")
          /\ UNCHANGED queue
    /\ UNCHANGED <<lastId, library, downloaded, fileVars, flagVars, job, held, apiVars>>

\* Mutant of WriteArchive: the temporary file is never renamed to its path.
WriteTemporary(w) ==
    /\ pc[w] = "archive"
    /\ Goto(w, "register") \/ Goto(w, "fail")
    /\ UNCHANGED <<tableVars, fileVars, flagVars, job, held, apiVars>>

Stands(p) == archive[p] \in Chapters
PutAt(w) == archive' = [archive EXCEPT ![PathOf[job[w].chapter]] = job[w].chapter]

\* Archiver.Write up to the first rename of replacePath.  A rename that is refused
\* where something stands is followed by the removal of what does.
WriteArchive(w) ==
    LET p == PathOf[job[w].chapter]
    IN  /\ pc[w] = "archive"
        /\ \/ Goto(w, "fail") /\ UNCHANGED archive
           \/ /\ Format = "folder" => ~Stands(p)
              /\ PutAt(w) /\ Goto(w, "register")
           \/ /\ ~Replaces /\ Stands(p)
              /\ archive' = [archive EXCEPT ![p] = Removed]
              /\ Goto(w, "replace")
        /\ UNCHANGED <<tableVars, dirs, staged, flagVars, job, held, apiVars>>

\* The second rename of replacePath.  Where a folder was put meanwhile it is refused.
Replace(w) ==
    /\ pc[w] = "replace"
    /\ \/ Goto(w, "fail") /\ UNCHANGED archive
       \/ /\ Format = "folder" => ~Stands(PathOf[job[w].chapter])
          /\ PutAt(w) /\ Goto(w, "register")
    /\ UNCHANGED <<tableVars, dirs, staged, flagVars, job, held, apiVars>>

(***************************************************************************)
(* UpsertPages and CompleteQueueDownload.  The transaction matches the row *)
(* by chapter, and only one still in flight; the page rows need the        *)
(* chapter to exist.                                                       *)
(***************************************************************************)
\* Mutant of CompletedRows: the delete matches a row in any state.
CompletedInAnyState(c) == RowsOf(queue, c)

CompletedRows(c) == RowsOf(queue, c) \cap WithStatus(queue, {"DOWNLOADING"})

Complete(w) ==
    /\ pc[w] = "register"
    /\ \/ /\ \/ DbFaults
             \/ job[w].chapter \notin library
             \/ CompletedRows(job[w].chapter) = {}
          /\ Goto(w, "unregister")
          /\ UNCHANGED <<queue, downloaded>>
       \/ /\ job[w].chapter \in library
          /\ CompletedRows(job[w].chapter) # {}
          /\ downloaded' = downloaded \cup {job[w].chapter}
          /\ queue' = Without(queue, CompletedRows(job[w].chapter))
          /\ Goto(w, "cleanup")
    /\ UNCHANGED <<lastId, library, fileVars, flagVars, job, held, apiVars>>

\* os.Remove deletes a file, and refuses a directory that is not empty.
RemoveFile(ps) ==
    archive' = [p \in Paths |-> IF p \in ps /\ Format = "cbz" THEN None ELSE archive[p]]

\* Mutant of RemoveArtifact: the refused completion leaves the file.
KeepArtifact(w) ==
    /\ pc[w] = "unregister"
    /\ Goto(w, "fail")
    /\ UNCHANGED <<tableVars, fileVars, flagVars, job, held, apiVars>>

RemoveArtifact(w) ==
    /\ pc[w] = "unregister"
    /\ RemoveFile({PathOf[job[w].chapter]})
    /\ Goto(w, "fail")
    /\ UNCHANGED <<tableVars, dirs, staged, flagVars, job, held, apiVars>>

Cleanup(w) ==
    /\ pc[w] = "cleanup"
    /\ RemoveStaged({job[w].id})
    /\ Leave(w)
    /\ UNCHANGED <<tableVars, archive, flagVars, held, apiVars>>

\* Mutant of Fail: the worker leaves without recording the failure.
FailUnrecorded(w) == /\ pc[w] = "fail" /\ Leave(w)
                     /\ UNCHANGED <<tableVars, fileVars, flagVars, held, apiVars>>

\* fail(): a row that is no longer in flight keeps its state.
Fail(w) ==
    /\ pc[w] = "fail"
    /\ queue' = SetStatus(queue, {job[w].id} \cap WithStatus(queue, {"DOWNLOADING"}), "FAILED")
    /\ Leave(w)
    /\ UNCHANGED <<lastId, library, downloaded, fileVars, flagVars, held, apiVars>>

WorkerStep(w) ==
    /\ up
    /\ UNCHANGED metaVars
    /\ \/ ResolveGates(w) \/ Claim(w) \/ ReadItem(w) \/ OpenItem(w)
       \/ RecordProgress(w) \/ NextPage(w) \/ Boundary(w) \/ Discard(w)
       \/ Release(w) \/ FetchPage(w) \/ SavePages(w) \/ WriteArchive(w)
       \/ Replace(w) \/ Complete(w) \/ RemoveArtifact(w) \/ Cleanup(w) \/ Fail(w)

-----------------------------------------------------------------------------
(* User commands: the API handlers                                         *)

Command(name) == /\ name \in Commands /\ up /\ commands < MaxCommands
                 /\ commands' = commands + 1
                 /\ UNCHANGED <<up, crashes, workerVars>>

EnqueueChapter(c) ==
    /\ Command("enqueue") /\ c \in library
    /\ \E p \in NextPositions(queue) :
          \/ /\ RowsOf(queue, c) = {}
             /\ queue' = InsertRow(queue, c, lastId + 1, p)
             /\ lastId' = lastId + 1
          \/ /\ RowsOf(queue, c) # {}
             /\ queue' = RequeueFailed(queue, c, p)
             /\ UNCHANGED lastId
    /\ UNCHANGED <<library, downloaded, fileVars, flagVars, apiVars>>

\* transitionQueueItem: refused unless the row is in an allowed state.
Transition(name, id, allowed, target) ==
    /\ Command(name) /\ id \in WithStatus(queue, allowed)
    /\ queue' = SetStatus(queue, {id}, target)
    /\ UNCHANGED <<lastId, library, downloaded, fileVars, flagVars, apiVars>>

PauseItem(id)  == Transition("pause", id, {"PENDING", "DOWNLOADING"}, "PAUSED")
ResumeItem(id) == Transition("resume", id, {"PAUSED"}, "PENDING")
RetryItem(id)  == Transition("retry", id, {"FAILED"}, "PENDING")

RetryFailedItems(s) ==
    LET ids == RowsFrom(queue, s) \cap WithStatus(queue, {"FAILED"})
    IN  /\ Command("retrySource") /\ ids # {}
        /\ queue' = SetStatus(queue, ids, "PENDING")
        /\ UNCHANGED <<lastId, library, downloaded, fileVars, flagVars, apiVars>>

\* The rows go in one transaction, their staged pages afterwards.
CancelRows(name, ids) ==
    /\ Command(name) /\ ids # {}
    /\ queue' = Without(queue, ids)
    /\ discards' = discards \cup ids
    /\ UNCHANGED <<lastId, library, downloaded, fileVars, flagVars, yieldDue>>

Cancel(id) == CancelRows("cancel", {id})
CancelAll  == CancelRows("cancelAll", DOMAIN queue)

DiscardCanceled(id) ==
    /\ up /\ id \in discards
    /\ RemoveStaged({id})
    /\ discards' = discards \ {id}
    /\ UNCHANGED <<tableVars, archive, flagVars, workerVars, yieldDue, metaVars>>

\* Reorder: the new order and the yield it plans are two transactions.
\* Bound: one reorder handler at a time.
Reorder(rank) ==
    /\ Command("reorder") /\ ~yieldDue
    /\ queue' = SetOrder(queue, rank)
    /\ yieldDue' = TRUE
    /\ UNCHANGED <<lastId, library, downloaded, fileVars, flagVars, discards>>

YieldSuperseded ==
    /\ up /\ yieldDue
    /\ queue' = SetStatus(queue, Superseded(queue), "PENDING")
    /\ yieldDue' = FALSE
    /\ UNCHANGED <<lastId, library, downloaded, fileVars, flagVars, workerVars,
                   discards, metaVars>>

PauseAll == /\ Command("pauseAll") /\ ~paused
            /\ paused' = TRUE
            /\ UNCHANGED <<tableVars, fileVars, pausedSources, apiVars>>

ResumeAll == /\ Command("resumeAll")
             /\ paused' = FALSE /\ pausedSources' = {}
             /\ UNCHANGED <<tableVars, fileVars, apiVars>>

PauseSource(s) == /\ Command("pauseSource")
                  /\ pausedSources' = pausedSources \cup {s}
                  /\ UNCHANGED <<tableVars, fileVars, paused, apiVars>>

ResumeSource(s) == /\ Command("resumeSource")
                   /\ pausedSources' = pausedSources \ {s}
                   /\ UNCHANGED <<tableVars, fileVars, paused, apiVars>>

(***************************************************************************)
(* MigrateMangaSource: the chapters of the source a title leaves are       *)
(* deleted and their queue rows cascade; the handler removes the archives  *)
(* of the downloaded ones when the user asked for it, which one step does  *)
(* here: nothing else reads or writes the path of a chapter that is gone.  *)
(***************************************************************************)
RetireChapters(s) ==
    LET retired == {c \in library : SourceOf[c] = s}
        lost == {id \in DOMAIN queue : queue[id].chapter \in retired}
    IN  /\ Command("migrate") /\ retired # {}
        /\ library' = library \ retired
        /\ downloaded' = downloaded \ retired
        /\ queue' = Without(queue, lost)
        /\ \/ RemoveFile({PathOf[c] : c \in retired \cap downloaded})
           \/ UNCHANGED archive
        /\ UNCHANGED <<lastId, dirs, staged, flagVars, apiVars>>

\* Full permutations of a set of rows, as a client sends them.
Ranks(ids) == Injection(ids, 0 .. Cardinality(ids) - 1)

UserCommand ==
    \/ \E c \in Chapters : EnqueueChapter(c)
    \/ \E id \in DOMAIN queue :
          PauseItem(id) \/ ResumeItem(id) \/ RetryItem(id) \/ Cancel(id)
    \/ \E s \in Sources :
          RetryFailedItems(s) \/ PauseSource(s) \/ ResumeSource(s) \/ RetireChapters(s)
    \/ CancelAll \/ PauseAll \/ ResumeAll
    \/ \E ids \in SUBSET DOMAIN queue \ {{}} : \E rank \in Ranks(ids) : Reorder(rank)

HandlerStep == YieldSuperseded \/ \E id \in discards : DiscardCanceled(id)

-----------------------------------------------------------------------------
(* Crash and restart of the daemon                                         *)

\* Everything in memory is lost; rows and files stay.
Crash ==
    /\ up /\ crashes < MaxCrashes
    /\ up' = FALSE /\ crashes' = crashes + 1
    /\ pc' = [w \in Workers |-> "idle"]
    /\ job' = [w \in Workers |-> NoJob]
    /\ held' = [w \in Workers |-> {}]
    /\ discards' = {} /\ yieldDue' = FALSE
    /\ paused' = FALSE /\ pausedSources' = {}
    /\ UNCHANGED <<tableVars, fileVars, commands>>

\* Mutant of Restart: the rows a crash left in flight are not reset.
RestartWithoutReset == ~up /\ up' = TRUE
                       /\ UNCHANGED <<tableVars, fileVars, flagVars, workerVars, apiVars,
                                      commands, crashes>>

\* Run: ResetInterruptedQueue, then the workers start.
Restart ==
    /\ ~up
    /\ up' = TRUE
    /\ queue' = SetStatus(queue, WithStatus(queue, {"DOWNLOADING"}), "PENDING")
    /\ UNCHANGED <<lastId, library, downloaded, fileVars, flagVars, workerVars,
                   apiVars, commands, crashes>>

Next == \/ \E w \in Workers : WorkerStep(w)
        \/ UserCommand \/ HandlerStep \/ Crash \/ Restart

Spec == Init /\ [][Next]_vars

\* Goroutines and handlers that can take a step do; a daemon that went down is
\* started again.  The user owes nothing.
Fairness == /\ \A w \in Workers : WF_vars(WorkerStep(w))
            /\ WF_vars(HandlerStep)
            /\ WF_vars(Restart)

FairSpec == Spec /\ Fairness

-----------------------------------------------------------------------------
(* Properties                                                              *)

TableOK == /\ queue \in [DOMAIN queue -> Row] /\ lastId \in Nat /\ DOMAIN queue \subseteq 1 .. lastId
           /\ library \subseteq Chapters /\ downloaded \subseteq library
FilesOK == /\ dirs \subseteq 1 .. lastId /\ staged \subseteq dirs \X Nat
           /\ archive \in [Paths -> Chapters \cup {None, Removed}]
FlagsOK == paused \in BOOLEAN /\ pausedSources \subseteq Sources
WorkersOK == /\ pc \in [Workers -> Labels] /\ job \in [Workers -> Job]
             /\ held \in [Workers -> SUBSET Sources]
HandlersOK == discards \subseteq 1 .. lastId /\ yieldDue \in BOOLEAN
MetaOK == up \in BOOLEAN /\ commands \in Nat /\ crashes \in Nat

\* A staged page lies in a directory that exists, and a chapter that is marked
\* downloaded exists.
TypeOK == TableOK /\ FilesOK /\ FlagsOK /\ WorkersOK /\ HandlersOK /\ MetaOK

\* The labels at which a worker still works on its row: it will yet look at the
\* row or write it.
Working == Labels \ {"idle", "claim", "discard", "cleanup"}
WorksOn(w, id) == pc[w] \in Working /\ job[w].id = id

\* A row in flight always has a worker on it.  Nothing but a restart ever picks
\* up a row that is DOWNLOADING, so a worker that left one behind, by whatever
\* mix of commands and of other workers, would strand the chapter.
NoAbandonedDownload ==
    up => \A id \in WithStatus(queue, {"DOWNLOADING"}) : \E w \in Workers : WorksOn(w, id)

\* Only the user moves a row out of PAUSED or FAILED: no worker that still holds
\* the row, no yield, crash or restart changes it or takes it away.
UserDecisionsStand ==
    [][commands' = commands =>
         \A id \in WithStatus(queue, {"PAUSED", "FAILED"}) :
            id \in DOMAIN queue' /\ queue'[id] = queue[id]]_vars

\* The claim gates hold of the rows in flight at all times, not only when a row
\* is claimed: no source above its cap, no more sources than may be active.
GatesRespected ==
    /\ \A s \in Sources : Cap[s] > 0 => Cardinality(InFlight(queue, s)) <= Cap[s]
    /\ MaxActiveSources > 0 => Cardinality(ActiveSources(queue)) <= MaxActiveSources

\* The row never records more fetched pages than its staging directory holds, at
\* any moment of a fetch, a pause or a crash: what a resumed attempt counts as
\* done, it finds on disk.
SavedPagesOnDisk ==
    \A id \in DOMAIN queue : queue[id].done <= Cardinality(StagedOf(id))

Readable(c) == archive[PathOf[c]] = c \/ (~Replaces /\ archive[PathOf[c]] = Removed)

\* A chapter the library calls downloaded has its own pages at its path, also while it
\* is downloaded again: where a rename replaces what stands there, at all times; where
\* it may not, unless replacePath took the old archive away and has put, or a failure or
\* a crash left, nothing there since.
DownloadedIsReadable == \A c \in downloaded : Readable(c)

\* An archive at a chapter's path is registered, or its writer is about to
\* register or to remove it.  A crash in between leaves the file: nothing sweeps
\* the download directory.
NoOrphanedArchive ==
    crashes = 0 => \A c \in library : archive[PathOf[c]] = c =>
                      \/ c \in downloaded
                      \/ \E w \in Workers : /\ pc[w] \in {"register", "unregister"}
                                           /\ job[w].chapter = c

\* A row that enters flight leaves it again: every download ends, is put back,
\* stopped or canceled, whoever else worked on the row.
DownloadsSettle ==
    \A id \in 1 .. MaxCommands : InFlightRow(id) ~> ~InFlightRow(id)

\* A pending row is claimed, unless it is held back by a pause or taken away.
PendingIsServed ==
    \A id \in 1 .. MaxCommands :
        id \in WithStatus(queue, {"PENDING"}) ~>
            \/ id \notin WithStatus(queue, {"PENDING"})
            \/ paused \/ SourceOf[queue[id].chapter] \in pausedSources

\* The queue implements the lifecycle of a chapter: its entry is the status of
\* the row it has, and a chapter is downloaded only from flight.
EntryOf(c) == IF RowsOf(queue, c) = {} THEN "ABSENT"
              ELSE queue[CHOOSE id \in RowsOf(queue, c) : TRUE].status

Lifecycle == INSTANCE ChapterLifecycle WITH entry <- [c \in Chapters |-> EntryOf(c)]

ImplementsLifecycle == Lifecycle!LifecycleSpec
=============================================================================
