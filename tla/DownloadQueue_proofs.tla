------------------------ MODULE DownloadQueue_proofs ------------------------
(***************************************************************************)
(* Proofs about DownloadQueue for every number of workers, chapters,       *)
(* sources, pages, commands and crashes.                                   *)
(***************************************************************************)
EXTENDS DownloadQueue, FiniteSetTheorems, TLAPS

USE SourceOfAssumption, CapAssumption, PathAssumption, PageAssumption,
    BoundAssumption, NoneAssumption

-----------------------------------------------------------------------------
(* The statements of the repository keep the table's shape                 *)

Table(q) == q \in [DOMAIN q -> Row]

\* An UPDATE of the status keeps every row and changes nothing but the status.
LEMMA SetStatusTable ==
    ASSUME NEW q, Table(q), NEW ids, NEW st \in Status
    PROVE  LET r == SetStatus(q, ids, st) IN
           /\ Table(r) /\ DOMAIN r = DOMAIN q
           /\ \A id \in DOMAIN q :
                 /\ r[id].chapter = q[id].chapter
                 /\ r[id].status = IF id \in ids THEN st ELSE q[id].status
                 /\ id \notin ids => r[id] = q[id]
BY DEF Table, SetStatus, Row, Status

\* A DELETE keeps the other rows as they are.
LEMMA WithoutTable ==
    ASSUME NEW q, Table(q), NEW ids
    PROVE  LET r == Without(q, ids) IN
           /\ Table(r) /\ DOMAIN r = DOMAIN q \ ids
           /\ \A id \in DOMAIN r : r[id] = q[id]
BY DEF Table, Without, Restrict

\* The position behind every row is a number.
LEMMA NextPositionType ==
    ASSUME NEW q, Table(q), NEW p \in NextPositions(q)
    PROVE  p \in Nat
BY DEF Table, NextPositions, Row

\* An INSERT adds one PENDING row under the new id.
LEMMA InsertRowTable ==
    ASSUME NEW q, Table(q), NEW c \in Chapters, NEW id, id \notin DOMAIN q, NEW p \in Nat
    PROVE  LET r == InsertRow(q, c, id, p) IN
           /\ Table(r) /\ DOMAIN r = DOMAIN q \cup {id}
           /\ r[id] = NewRow(c, p)
           /\ \A i \in DOMAIN q : r[i] = q[i]
BY DEF Table, InsertRow, NewRow, Row, Status

\* Queueing a chapter again touches its FAILED row only.
LEMMA RequeueFailedTable ==
    ASSUME NEW q, Table(q), NEW c, NEW p \in Nat
    PROVE  LET r == RequeueFailed(q, c, p) IN
           /\ Table(r) /\ DOMAIN r = DOMAIN q
           /\ \A id \in DOMAIN q :
                 /\ r[id].chapter = q[id].chapter
                 /\ \/ r[id] = q[id]
                    \/ q[id].status = "FAILED" /\ r[id].status = "PENDING"
BY ZenonT(30) DEF Table, RequeueFailed, Row, Status

\* A progress update moves one row to DOWNLOADING.
LEMMA UpdateProgressTable ==
    ASSUME NEW q, Table(q), NEW id \in DOMAIN q, NEW total \in Nat, NEW done \in Nat
    PROVE  LET r == UpdateProgress(q, id, total, done) IN
           /\ Table(r) /\ DOMAIN r = DOMAIN q
           /\ r[id].chapter = q[id].chapter /\ r[id].status = "DOWNLOADING"
           /\ \A i \in DOMAIN q : i # id => r[i] = q[i]
BY DEF Table, UpdateProgress, Row, Status

\* Saving the fetched pages of one row leaves its status alone.
LEMMA SaveDoneTable ==
    ASSUME NEW q, Table(q), NEW id \in DOMAIN q, NEW done \in Nat
    PROVE  LET r == SaveDone(q, id, done) IN
           /\ Table(r) /\ DOMAIN r = DOMAIN q
           /\ r[id].chapter = q[id].chapter /\ r[id].status = q[id].status
           /\ \A i \in DOMAIN q : i # id => r[i] = q[i]
BY DEF Table, SaveDone, Row

\* A reorder changes positions only.
LEMMA SetOrderTable ==
    ASSUME NEW q, Table(q), NEW rank, \A id \in DOMAIN rank : rank[id] \in Nat
    PROVE  LET r == SetOrder(q, rank) IN
           /\ Table(r) /\ DOMAIN r = DOMAIN q
           /\ \A id \in DOMAIN q : /\ r[id].chapter = q[id].chapter
                                   /\ r[id].status = q[id].status
BY DEF Table, SetOrder, Row

-----------------------------------------------------------------------------
(* Type correctness                                                        *)

\* A worker past its claim holds an id the table has issued.
JobIds == \A w \in Workers : pc[w] \notin {"idle", "claim"} => job[w].id \in 1 .. lastId

TypeInv == TypeOK /\ JobIds

\* The program starts well typed.
LEMMA InitTypes == Init => TypeInv
<1> SUFFICES ASSUME Init PROVE TypeInv
  OBVIOUS
<1>1. TableOK
  BY DEF Init, TableOK
<1>2. FilesOK /\ FlagsOK /\ HandlersOK /\ MetaOK
  BY DEF Init, FilesOK, FlagsOK, HandlersOK, MetaOK
<1>3. WorkersOK
  BY DEF Init, WorkersOK, Labels, NoJob, Job
<1>4. JobIds
  BY DEF Init, JobIds
<1>5. QED
  BY <1>1, <1>2, <1>3, <1>4 DEF TypeInv, TypeOK

\* A worker that moves on and changes its locals keeps its types, if they stay
\* in range and it still knows an id the table has issued.
LEMMA LocalTypes ==
    ASSUME WorkersOK, JobIds, NEW w \in Workers, NEW l \in Labels, NEW j \in Job,
           l \notin {"idle", "claim"} => j.id \in 1 .. lastId,
           pc' = [pc EXCEPT ![w] = l], job' = [job EXCEPT ![w] = j],
           held' \in [Workers -> SUBSET Sources], lastId' = lastId
    PROVE  WorkersOK' /\ JobIds'
BY DEF WorkersOK, JobIds

\* A worker that only moves on.
LEMMA GotoTypes ==
    ASSUME WorkersOK, JobIds, NEW w \in Workers, NEW l \in Labels, Goto(w, l),
           pc[w] \notin {"idle", "claim"}, UNCHANGED <<job, held, lastId>>
    PROVE  WorkersOK' /\ JobIds'
BY DEF WorkersOK, JobIds, Goto

\* A worker that is done with its row.
LEMMA LeaveTypes ==
    ASSUME WorkersOK, JobIds, NEW w \in Workers, Leave(w),
           held' \in [Workers -> SUBSET Sources], UNCHANGED lastId
    PROVE  WorkersOK' /\ JobIds'
BY DEF WorkersOK, JobIds, Leave, Goto, Labels, Checks, NoJob, Job

\* What is left to show of a step of a worker.
LEMMA WorkerFrame ==
    ASSUME TypeInv, UNCHANGED <<lastId, library, metaVars, flagVars, apiVars>>,
           queue' \in [DOMAIN queue' -> Row], DOMAIN queue' \subseteq 1 .. lastId,
           downloaded' \subseteq library,
           FilesOK', WorkersOK', JobIds'
    PROVE  TypeInv'
BY DEF TypeInv, TypeOK, TableOK, FlagsOK, HandlersOK, MetaOK, metaVars, flagVars, apiVars

\* Every step a worker takes keeps the types.
LEMMA WorkerTypes ==
    ASSUME TypeInv, NEW w \in Workers, WorkerStep(w)
    PROVE  TypeInv'
<1>m. UNCHANGED metaVars
  BY DEF WorkerStep
<1>t. Table(queue) /\ DOMAIN queue \subseteq 1 .. lastId /\ downloaded \subseteq library
  BY DEF TypeInv, TypeOK, TableOK, Table
<1>f. FilesOK /\ WorkersOK /\ JobIds /\ held \in [Workers -> SUBSET Sources]
  BY DEF TypeInv, TypeOK, WorkersOK
<1>j. job[w] \in Job /\ (pc[w] \notin {"idle", "claim"} => job[w].id \in 1 .. lastId)
  BY <1>f DEF WorkersOK, JobIds
<1>s. pausedSources \subseteq Sources
  BY DEF TypeInv, TypeOK, FlagsOK
<1> USE DEF tableVars, fileVars
<1>1. CASE ResolveGates(w)
  <2>1. WorkersOK' /\ JobIds'
    BY <1>1, <1>f, <1>s DEF ResolveGates, Goto, WorkersOK, JobIds, Labels
  <2>2. FilesOK'
    BY <1>1, <1>f DEF ResolveGates, FilesOK
  <2>3. QED
    BY <1>1, <1>t, <1>m, <2>1, <2>2, WorkerFrame DEF ResolveGates, Table
<1>2. CASE Claim(w)
  <2>1. /\ held' \in [Workers -> SUBSET Sources]
        /\ UNCHANGED <<lastId, library, downloaded, fileVars, flagVars, apiVars>>
    BY <1>2, <1>f DEF Claim
  <2>2. FilesOK'
    BY <1>f, <2>1 DEF FilesOK
  <2>3. CASE UNCHANGED queue /\ Leave(w)
    <3>1. WorkersOK' /\ JobIds'
      BY <1>f, <2>1, <2>3, LeaveTypes
    <3>2. QED
      BY <1>t, <1>m, <2>1, <2>2, <2>3, <3>1, WorkerFrame DEF Table
  <2>4. ASSUME NEW id \in Heads(queue, held[w]),
               queue' = SetStatus(queue, {id}, "DOWNLOADING"),
               job' = [job EXCEPT ![w].id = id],
               Goto(w, "read")
        PROVE  TypeInv'
    <3>1. id \in 1 .. lastId
      BY <1>t DEF Heads, Claimable, WithStatus
    <3>2. Table(queue') /\ DOMAIN queue' = DOMAIN queue
      BY <1>t, <2>4, SetStatusTable DEF Status
    <3>3. [job[w] EXCEPT !.id = id] \in Job /\ [job[w] EXCEPT !.id = id].id = id
      BY <1>j, <3>1, <1>t DEF Job
    <3>4. WorkersOK' /\ JobIds'
      BY <1>f, <2>1, <2>4, <3>1, <3>3, LocalTypes DEF Goto, Labels
    <3>5. QED
      BY <1>t, <1>m, <2>1, <2>2, <3>2, <3>4, WorkerFrame DEF Table
  <2>5. QED
    BY <1>2, <2>3, <2>4 DEF Claim
<1>3. CASE ReadItem(w)
  <2>1. UNCHANGED <<tableVars, fileVars, flagVars, held, apiVars>> /\ pc[w] = "read"
    BY <1>3 DEF ReadItem
  <2>2. FilesOK'
    BY <1>f, <2>1 DEF FilesOK
  <2>3. ASSUME Leave(w) PROVE WorkersOK' /\ JobIds'
    BY <1>f, <2>1, <2>3, LeaveTypes
  <2>4. ASSUME job[w].id \in DOMAIN queue,
               job' = [job EXCEPT ![w].chapter = queue[job[w].id].chapter,
                                  ![w].done = queue[job[w].id].done],
               Goto(w, "open")
        PROVE  WorkersOK' /\ JobIds'
    <3>1. queue[job[w].id].chapter \in Chapters /\ queue[job[w].id].done \in Nat
      BY <1>t, <2>4 DEF Table, Row
    <3> DEFINE j == [job[w] EXCEPT !.chapter = queue[job[w].id].chapter,
                                   !.done = queue[job[w].id].done]
    <3>2. j \in Job /\ j.id = job[w].id
      BY <1>j, <3>1 DEF Job
    <3>3. job' = [job EXCEPT ![w] = j]
      BY <1>f, <2>4 DEF WorkersOK, Job
    <3> HIDE DEF j
    <3>4. QED
      BY <1>f, <1>j, <2>1, <2>4, <3>2, <3>3, LocalTypes DEF Goto, Labels
  <2>5. WorkersOK' /\ JobIds'
    BY <1>3, <2>3, <2>4 DEF ReadItem
  <2>6. QED
    BY <1>t, <1>m, <2>1, <2>2, <2>5, WorkerFrame DEF Table
<1>4. CASE OpenItem(w)
  <2>1. /\ UNCHANGED <<tableVars, staged, archive, flagVars, held, apiVars>>
        /\ pc[w] = "open" /\ job[w].id \in 1 .. lastId
    BY <1>4, <1>j DEF OpenItem
  <2>2. CASE Goto(w, "fail") /\ UNCHANGED <<job, dirs>>
    <3>1. FilesOK'
      BY <1>f, <2>1, <2>2 DEF FilesOK
    <3>2. WorkersOK' /\ JobIds'
      BY <1>f, <2>1, <2>2, GotoTypes DEF Labels
    <3>3. QED
      BY <1>t, <1>m, <2>1, <3>1, <3>2, WorkerFrame DEF Table
  <2>3. ASSUME NEW n \in PageCounts,
               job' = [job EXCEPT ![w].pages = n],
               dirs' = dirs \cup {job[w].id},
               Goto(w, "start")
        PROVE  TypeInv'
    <3>1. FilesOK'
      BY <1>f, <2>1, <2>3 DEF FilesOK
    <3>2. [job[w] EXCEPT !.pages = n] \in Job /\ [job[w] EXCEPT !.pages = n].id = job[w].id
      BY <1>j, <2>3 DEF Job
    <3>3. WorkersOK' /\ JobIds'
      BY <1>f, <2>1, <2>3, <3>2, LocalTypes DEF Goto, Labels
    <3>4. QED
      BY <1>t, <1>m, <2>1, <3>1, <3>3, WorkerFrame DEF Table
  <2>4. QED
    BY <1>4, <2>2, <2>3 DEF OpenItem
<1>5. CASE RecordProgress(w)
  <2>1. /\ UNCHANGED <<lastId, library, downloaded, fileVars, flagVars, job, held, apiVars>>
        /\ pc[w] \in {"start", "progress"}
        /\ \E l \in {"page", "save", "checkRefused"} : Goto(w, l)
    BY <1>5 DEF RecordProgress
  <2>2. FilesOK'
    BY <1>f, <2>1 DEF FilesOK
  <2>3. WorkersOK' /\ JobIds'
    BY <1>f, <2>1, GotoTypes DEF Labels, Checks
  <2>4. CASE UNCHANGED queue
    BY <1>t, <1>m, <2>1, <2>2, <2>3, <2>4, WorkerFrame DEF Table
  <2>5. CASE /\ AcceptsProgress(queue, job[w].id, job[w].pages, job[w].done)
             /\ queue' = UpdateProgress(queue, job[w].id, job[w].pages, job[w].done)
    <3>1. job[w].id \in DOMAIN queue
      BY <2>5 DEF AcceptsProgress, Progressable, WithStatus
    <3>2. job[w].pages \in Nat /\ job[w].done \in Nat
      BY <1>j DEF Job
    <3> DEFINE id == job[w].id
    <3> DEFINE pages == job[w].pages
    <3> DEFINE done == job[w].done
    <3>3. queue' = UpdateProgress(queue, id, pages, done)
      BY <2>5
    <3>4. id \in DOMAIN queue /\ pages \in Nat /\ done \in Nat
      BY <3>1, <3>2
    <3> HIDE DEF id, pages, done
    <3>5. Table(queue') /\ DOMAIN queue' = DOMAIN queue
      BY <1>t, <3>3, <3>4, UpdateProgressTable
    <3>6. QED
      BY <1>t, <1>m, <2>1, <2>2, <2>3, <3>5, WorkerFrame DEF Table
  <2>6. QED
    BY <1>5, <2>4, <2>5 DEF RecordProgress
<1>6. CASE NextPage(w)
  <2>1. UNCHANGED <<tableVars, fileVars, flagVars, held, apiVars>> /\ pc[w] = "page"
    BY <1>6 DEF NextPage
  <2>2. FilesOK'
    BY <1>f, <2>1 DEF FilesOK
  <2>3. ASSUME UNCHANGED job, NEW l \in Checks, Goto(w, l) PROVE WorkersOK' /\ JobIds'
    BY <1>f, <2>1, <2>3, GotoTypes DEF Labels, Checks
  <2>4. ASSUME job' = [job EXCEPT ![w].index = @ + 1], UNCHANGED pc PROVE WorkersOK' /\ JobIds'
    <3>1. /\ [job[w] EXCEPT !.index = @ + 1] \in Job
          /\ [job[w] EXCEPT !.index = @ + 1].id = job[w].id
      BY <1>j DEF Job
    <3>2. pc' = [pc EXCEPT ![w] = "page"]
      BY <1>f, <2>1, <2>4 DEF WorkersOK
    <3>3. QED
      BY <1>f, <1>j, <2>1, <2>4, <3>1, <3>2, LocalTypes DEF Labels
  <2>5. WorkersOK' /\ JobIds'
    BY <1>6, <2>3, <2>4 DEF NextPage, Checks
  <2>6. QED
    BY <1>t, <1>m, <2>1, <2>2, <2>5, WorkerFrame DEF Table
<1>7. CASE Boundary(w)
  <2>1. /\ UNCHANGED <<tableVars, fileVars, flagVars, held, apiVars>>
        /\ pc[w] \in Checks
    BY <1>7 DEF Boundary
  <2>2. FilesOK'
    BY <1>f, <2>1 DEF FilesOK
  <2>3. ASSUME Leave(w) PROVE WorkersOK' /\ JobIds'
    BY <1>f, <2>1, <2>3, LeaveTypes
  <2>4. ASSUME UNCHANGED job, NEW l \in {"discard", "release", Proceed[pc[w]]}, Goto(w, l)
        PROVE  WorkersOK' /\ JobIds'
    <3>1. Proceed[pc[w]] \in Labels
      BY <2>1 DEF Proceed, Checks, Labels
    <3>2. QED
      BY <1>f, <2>1, <2>4, <3>1, GotoTypes DEF Labels, Checks
  <2>5. WorkersOK' /\ JobIds'
    BY <1>7, <2>3, <2>4 DEF Boundary
  <2>6. QED
    BY <1>t, <1>m, <2>1, <2>2, <2>5, WorkerFrame DEF Table
<1>8. CASE Discard(w)
  <2>1. UNCHANGED <<tableVars, archive, flagVars, held, apiVars>>
    BY <1>8 DEF Discard
  <2>2. FilesOK'
    BY <1>8, <1>f, <2>1 DEF Discard, RemoveStaged, FilesOK
  <2>3. WorkersOK' /\ JobIds'
    BY <1>8, <1>f, <2>1, LeaveTypes DEF Discard
  <2>4. QED
    BY <1>t, <1>m, <2>1, <2>2, <2>3, WorkerFrame DEF Table
<1>9. CASE Release(w)
  <2>1. UNCHANGED <<lastId, library, downloaded, fileVars, flagVars, held, apiVars>>
    BY <1>9 DEF Release
  <2>2. FilesOK'
    BY <1>f, <2>1 DEF FilesOK
  <2>3. WorkersOK' /\ JobIds'
    BY <1>9, <1>f, <2>1, LeaveTypes DEF Release
  <2>4. Table(queue') /\ DOMAIN queue' = DOMAIN queue
    BY <1>9, <1>t, SetStatusTable DEF Release, Status
  <2>5. QED
    BY <1>t, <1>m, <2>1, <2>2, <2>3, <2>4, WorkerFrame DEF Table
<1>10. CASE FetchPage(w)
  <2>1. UNCHANGED <<tableVars, dirs, archive, flagVars, held, apiVars>> /\ pc[w] = "fetch"
    BY <1>10 DEF FetchPage
  <2>2. CASE Goto(w, "fail") /\ UNCHANGED <<job, staged>>
    <3>1. FilesOK'
      BY <1>f, <2>1, <2>2 DEF FilesOK
    <3>2. WorkersOK' /\ JobIds'
      BY <1>f, <2>1, <2>2, GotoTypes DEF Labels
    <3>3. QED
      BY <1>t, <1>m, <2>1, <3>1, <3>2, WorkerFrame DEF Table
  <2>3. CASE /\ job[w].id \in dirs
             /\ staged' = staged \cup {<<job[w].id, job[w].index>>}
             /\ job' = [job EXCEPT ![w].index = @ + 1, ![w].done = @ + 1]
             /\ Goto(w, "progress")
    <3>1. FilesOK'
      BY <1>f, <1>j, <2>1, <2>3 DEF FilesOK, Job
    <3> DEFINE j == [job[w] EXCEPT !.index = @ + 1, !.done = @ + 1]
    <3>a. job[w].index + 1 \in Nat /\ job[w].done + 1 \in Nat
      BY <1>j DEF Job
    <3>2. j \in Job /\ j.id = job[w].id
      BY <1>j, <3>a DEF Job
    <3>3. job' = [job EXCEPT ![w] = j]
      BY <1>f, <2>3 DEF WorkersOK, Job
    <3> HIDE DEF j
    <3>4. WorkersOK' /\ JobIds'
      BY <1>f, <1>j, <2>1, <2>3, <3>2, <3>3, LocalTypes DEF Goto, Labels
    <3>5. QED
      BY <1>t, <1>m, <2>1, <3>1, <3>4, WorkerFrame DEF Table
  <2>4. QED
    BY <1>10, <2>2, <2>3 DEF FetchPage
<1>11. CASE SavePages(w)
  <2>1. /\ UNCHANGED <<lastId, library, downloaded, fileVars, flagVars, job, held, apiVars>>
        /\ pc[w] = "save"
        /\ \E l \in {"checkStaged", "checkRefused"} : Goto(w, l)
    BY <1>11 DEF SavePages
  <2>2. FilesOK'
    BY <1>f, <2>1 DEF FilesOK
  <2>3. WorkersOK' /\ JobIds'
    BY <1>f, <2>1, GotoTypes DEF Labels, Checks
  <2>4. CASE UNCHANGED queue
    BY <1>t, <1>m, <2>1, <2>2, <2>3, <2>4, WorkerFrame DEF Table
  <2>5. CASE /\ AcceptsProgress(queue, job[w].id, job[w].pages, job[w].done)
             /\ queue' = SaveDone(queue, job[w].id, job[w].done)
    <3>1. job[w].id \in DOMAIN queue
      BY <2>5 DEF AcceptsProgress, Progressable, WithStatus
    <3>2. job[w].done \in Nat
      BY <1>j DEF Job
    <3>3. Table(queue') /\ DOMAIN queue' = DOMAIN queue
      BY <1>t, <2>5, <3>1, <3>2, SaveDoneTable
    <3>4. QED
      BY <1>t, <1>m, <2>1, <2>2, <2>3, <3>3, WorkerFrame DEF Table
  <2>6. QED
    BY <1>11, <2>4, <2>5 DEF SavePages
<1>12. CASE WriteArchive(w) \/ Replace(w)
  <2>1. /\ UNCHANGED <<tableVars, dirs, staged, flagVars, job, held, apiVars>>
        /\ pc[w] \in {"archive", "replace"}
        /\ \E l \in {"fail", "register", "replace"} : Goto(w, l)
        /\ archive' = archive \/ PutAt(w)
           \/ archive' = [archive EXCEPT ![PathOf[job[w].chapter]] = Removed]
    BY <1>12 DEF WriteArchive, Replace
  <2>2. FilesOK'
    BY <1>f, <1>j, <2>1 DEF PutAt, FilesOK, Job
  <2>3. WorkersOK' /\ JobIds'
    BY <1>f, <2>1, GotoTypes DEF Labels
  <2>4. QED
    BY <1>t, <1>m, <2>1, <2>2, <2>3, WorkerFrame DEF Table
<1>13. CASE Complete(w)
  <2>1. /\ UNCHANGED <<lastId, library, fileVars, flagVars, job, held, apiVars>>
        /\ pc[w] = "register"
        /\ \E l \in {"unregister", "cleanup"} : Goto(w, l)
    BY <1>13 DEF Complete
  <2>2. FilesOK'
    BY <1>f, <2>1 DEF FilesOK
  <2>3. WorkersOK' /\ JobIds'
    BY <1>f, <2>1, GotoTypes DEF Labels
  <2>4. CASE UNCHANGED <<queue, downloaded>>
    BY <1>t, <1>m, <2>1, <2>2, <2>3, <2>4, WorkerFrame DEF Table
  <2>5. CASE /\ job[w].chapter \in library
             /\ downloaded' = downloaded \cup {job[w].chapter}
             /\ queue' = Without(queue, CompletedRows(job[w].chapter))
    <3>1. Table(queue') /\ DOMAIN queue' \subseteq DOMAIN queue
      BY <1>t, <2>5, WithoutTable
    <3>2. QED
      BY <1>t, <1>m, <2>1, <2>2, <2>3, <2>5, <3>1, WorkerFrame DEF Table
  <2>6. QED
    BY <1>13, <2>4, <2>5 DEF Complete
<1>14. CASE RemoveArtifact(w)
  <2>1. UNCHANGED <<tableVars, dirs, staged, flagVars, job, held, apiVars>>
        /\ pc[w] = "unregister"
    BY <1>14 DEF RemoveArtifact
  <2>2. FilesOK'
    BY <1>14, <1>f, <2>1 DEF RemoveArtifact, RemoveFile, FilesOK
  <2>3. WorkersOK' /\ JobIds'
    BY <1>14, <1>f, <2>1, GotoTypes DEF RemoveArtifact, Labels
  <2>4. QED
    BY <1>t, <1>m, <2>1, <2>2, <2>3, WorkerFrame DEF Table
<1>15. CASE Cleanup(w)
  <2>1. UNCHANGED <<tableVars, archive, flagVars, held, apiVars>>
    BY <1>15 DEF Cleanup
  <2>2. FilesOK'
    BY <1>15, <1>f, <2>1 DEF Cleanup, RemoveStaged, FilesOK
  <2>3. WorkersOK' /\ JobIds'
    BY <1>15, <1>f, <2>1, LeaveTypes DEF Cleanup
  <2>4. QED
    BY <1>t, <1>m, <2>1, <2>2, <2>3, WorkerFrame DEF Table
<1>16. CASE Fail(w)
  <2>1. UNCHANGED <<lastId, library, downloaded, fileVars, flagVars, held, apiVars>>
    BY <1>16 DEF Fail
  <2>2. FilesOK'
    BY <1>f, <2>1 DEF FilesOK
  <2>3. WorkersOK' /\ JobIds'
    BY <1>16, <1>f, <2>1, LeaveTypes DEF Fail
  <2>4. Table(queue') /\ DOMAIN queue' = DOMAIN queue
    BY <1>16, <1>t, SetStatusTable DEF Fail, Status
  <2>5. QED
    BY <1>t, <1>m, <2>1, <2>2, <2>3, <2>4, WorkerFrame DEF Table
<1>17. QED
  BY <1>1, <1>2, <1>3, <1>4, <1>5, <1>6, <1>7, <1>8, <1>9, <1>10, <1>11, <1>12,
     <1>13, <1>14, <1>15, <1>16 DEF WorkerStep

\* What is left to show of a user command.
LEMMA CommandFrame ==
    ASSUME TypeInv, NEW name, Command(name),
           Table(queue'), DOMAIN queue' \subseteq 1 .. lastId, UNCHANGED lastId,
           library' \subseteq Chapters, downloaded' \subseteq library',
           FilesOK', FlagsOK', HandlersOK'
    PROVE  TypeInv'
<1>1. TableOK'
  BY DEF TypeInv, TypeOK, TableOK, Table
<1>2. WorkersOK' /\ JobIds'
  BY DEF TypeInv, TypeOK, WorkersOK, JobIds, Command, workerVars
<1>3. MetaOK'
  BY DEF TypeInv, TypeOK, MetaOK, Command
<1>4. QED
  BY <1>1, <1>2, <1>3 DEF TypeInv, TypeOK

\* A command that rewrites the table and touches neither files nor flags.
LEMMA TableCommand ==
    ASSUME TypeInv, NEW name, Command(name), Table(queue'), DOMAIN queue' \subseteq DOMAIN queue,
           UNCHANGED <<lastId, library, downloaded, fileVars, flagVars>>,
           discards' \subseteq discards \cup DOMAIN queue, yieldDue' \in BOOLEAN
    PROVE  TypeInv'
<1>1. /\ DOMAIN queue' \subseteq 1 .. lastId /\ library' \subseteq Chapters
      /\ downloaded' \subseteq library' /\ HandlersOK'
  BY DEF TypeInv, TypeOK, TableOK, HandlersOK
<1>2. FilesOK' /\ FlagsOK'
  BY DEF TypeInv, TypeOK, FilesOK, FlagsOK, fileVars, flagVars
<1>3. QED
  BY <1>1, <1>2, CommandFrame

\* Every user command keeps the types.
LEMMA CommandTypes ==
    ASSUME TypeInv, UserCommand
    PROVE  TypeInv'
<1>t. /\ Table(queue) /\ lastId \in Nat /\ DOMAIN queue \subseteq 1 .. lastId
      /\ library \subseteq Chapters /\ downloaded \subseteq library
  BY DEF TypeInv, TypeOK, TableOK, Table
<1>f. FilesOK /\ FlagsOK /\ HandlersOK
  BY DEF TypeInv, TypeOK
<1>h. discards \subseteq 1 .. lastId /\ yieldDue \in BOOLEAN
  BY <1>f DEF HandlersOK
<1>1. ASSUME NEW c \in Chapters, EnqueueChapter(c) PROVE TypeInv'
  <2>1. PICK p \in NextPositions(queue) :
           \/ /\ RowsOf(queue, c) = {}
              /\ queue' = InsertRow(queue, c, lastId + 1, p)
              /\ lastId' = lastId + 1
           \/ /\ RowsOf(queue, c) # {}
              /\ queue' = RequeueFailed(queue, c, p)
              /\ UNCHANGED lastId
    BY <1>1 DEF EnqueueChapter
  <2>2. p \in Nat
    BY <1>t, NextPositionType
  <2>3. Command("enqueue") /\ UNCHANGED <<library, downloaded, fileVars, flagVars, apiVars>>
    BY <1>1 DEF EnqueueChapter
  <2>4. CASE queue' = InsertRow(queue, c, lastId + 1, p) /\ lastId' = lastId + 1
    <3>1. lastId + 1 \notin DOMAIN queue /\ 1 .. lastId \subseteq 1 .. lastId'
          /\ lastId + 1 \in 1 .. lastId'
      BY <1>t, <2>4
    <3>2. Table(queue') /\ DOMAIN queue' = DOMAIN queue \cup {lastId + 1}
      BY <1>t, <2>2, <2>4, <3>1 DEF InsertRow, NewRow, Table, Row, Status
    <3>3. TableOK'
      BY <1>t, <2>3, <2>4, <3>1, <3>2 DEF TableOK, Table
    <3>4. FilesOK' /\ FlagsOK' /\ HandlersOK'
      BY <1>f, <2>3, <3>1 DEF FilesOK, FlagsOK, HandlersOK, fileVars, flagVars, apiVars
    <3>5. WorkersOK' /\ JobIds'
      BY <2>3, <3>1 DEF TypeInv, TypeOK, WorkersOK, JobIds, Command, workerVars
    <3>6. MetaOK'
      BY <2>3 DEF TypeInv, TypeOK, MetaOK, Command
    <3>7. QED
      BY <3>3, <3>4, <3>5, <3>6 DEF TypeInv, TypeOK
  <2>5. CASE queue' = RequeueFailed(queue, c, p) /\ UNCHANGED lastId
    <3>1. Table(queue') /\ DOMAIN queue' = DOMAIN queue
      BY <1>t, <2>2, <2>5, RequeueFailedTable
    <3>2. QED
      BY <1>t, <1>h, <2>3, <2>5, <3>1, TableCommand DEF apiVars
  <2>6. QED
    BY <2>1, <2>4, <2>5
<1>2. ASSUME NEW name, NEW ids, NEW st \in Status, Command(name),
             queue' = SetStatus(queue, ids, st),
             UNCHANGED <<lastId, library, downloaded, fileVars, flagVars, apiVars>>
      PROVE  TypeInv'
  <2>1. Table(queue') /\ DOMAIN queue' = DOMAIN queue
    BY <1>t, <1>2, SetStatusTable
  <2>2. QED
    BY <1>t, <1>h, <1>2, <2>1, TableCommand DEF apiVars
<1>3. ASSUME NEW id \in DOMAIN queue, PauseItem(id) \/ ResumeItem(id) \/ RetryItem(id)
      PROVE  TypeInv'
  BY <1>2, <1>3 DEF PauseItem, ResumeItem, RetryItem, Transition, Status
<1>4. ASSUME NEW s \in Sources, RetryFailedItems(s) PROVE TypeInv'
  BY <1>2, <1>4 DEF RetryFailedItems, Status
<1>5. ASSUME NEW name, NEW ids, ids \subseteq DOMAIN queue, CancelRows(name, ids)
      PROVE  TypeInv'
  <2>1. Command(name) /\ UNCHANGED <<lastId, library, downloaded, fileVars, flagVars, yieldDue>>
    BY <1>5 DEF CancelRows
  <2>2. Table(queue') /\ DOMAIN queue' \subseteq DOMAIN queue
    BY <1>t, <1>5, WithoutTable DEF CancelRows
  <2>3. discards' \subseteq discards \cup DOMAIN queue
    BY <1>5 DEF CancelRows
  <2>4. QED
    BY <1>h, <2>1, <2>2, <2>3, TableCommand
<1>6. ASSUME (\E id \in DOMAIN queue : Cancel(id)) \/ CancelAll PROVE TypeInv'
  <2>1. \E name : \E ids : ids \subseteq DOMAIN queue /\ CancelRows(name, ids)
    BY <1>6 DEF Cancel, CancelAll
  <2>2. QED
    BY <1>5, <2>1
<1>7. ASSUME NEW ids \in SUBSET DOMAIN queue, NEW rank \in Ranks(ids), Reorder(rank)
      PROVE  TypeInv'
  <2>1. IsFiniteSet(ids)
    <3>1. IsFiniteSet(1 .. lastId)
      BY <1>t, FS_Interval
    <3>2. ids \subseteq 1 .. lastId
      BY <1>t
    <3>3. QED
      BY <3>1, <3>2, FS_Subset
  <2>2. Cardinality(ids) \in Nat
    BY <2>1, FS_CardinalityType
  <2>3. \A id \in DOMAIN rank : rank[id] \in Nat
    BY <2>2 DEF Ranks, Injection
  <2>4. Table(queue') /\ DOMAIN queue' = DOMAIN queue
    BY <1>t, <1>7, <2>3, SetOrderTable DEF Reorder
  <2>5. Command("reorder") /\ yieldDue' \in BOOLEAN
        /\ UNCHANGED <<lastId, library, downloaded, fileVars, flagVars, discards>>
    BY <1>7 DEF Reorder
  <2>6. QED
    BY <2>4, <2>5, TableCommand
<1>8. ASSUME NEW name, Command(name), UNCHANGED <<tableVars, fileVars, apiVars>>, FlagsOK'
      PROVE  TypeInv'
  <2>1. Table(queue') /\ UNCHANGED <<queue, lastId, library, downloaded>>
    BY <1>t, <1>8 DEF tableVars
  <2>2. FilesOK' /\ HandlersOK'
    BY <1>f, <1>8, <2>1 DEF FilesOK, HandlersOK, fileVars, apiVars
  <2>3. QED
    BY <1>t, <1>8, <2>1, <2>2, CommandFrame
<1>9. ASSUME NEW s \in Sources, PauseSource(s) \/ ResumeSource(s) PROVE TypeInv'
  <2>1. FlagsOK'
    BY <1>f, <1>9 DEF PauseSource, ResumeSource, FlagsOK
  <2>2. QED
    BY <1>8, <1>9, <2>1 DEF PauseSource, ResumeSource
<1>10. ASSUME PauseAll \/ ResumeAll PROVE TypeInv'
  <2>1. FlagsOK'
    BY <1>f, <1>10 DEF PauseAll, ResumeAll, FlagsOK
  <2>2. QED
    BY <1>8, <1>10, <2>1 DEF PauseAll, ResumeAll
<1>11. ASSUME NEW s \in Sources, RetireChapters(s) PROVE TypeInv'
  <2>1. /\ Command("migrate") /\ UNCHANGED <<lastId, dirs, staged, flagVars, apiVars>>
        /\ library' \subseteq library /\ downloaded' \subseteq library'
    BY <1>t, <1>11 DEF RetireChapters
  <2>2. Table(queue') /\ DOMAIN queue' \subseteq DOMAIN queue
    <3> DEFINE lost == {id \in DOMAIN queue : queue[id].chapter \in {c \in library : SourceOf[c] = s}}
    <3>1. queue' = Without(queue, lost)
      BY <1>11 DEF RetireChapters
    <3> HIDE DEF lost
    <3>2. QED
      BY <1>t, <3>1, WithoutTable
  <2>3. archive' \in [Paths -> Chapters \cup {None, Removed}]
    BY <1>f, <1>11 DEF RetireChapters, RemoveFile, FilesOK
  <2>4. FilesOK' /\ FlagsOK' /\ HandlersOK'
    BY <1>f, <2>1, <2>3 DEF FilesOK, FlagsOK, HandlersOK, flagVars, apiVars
  <2>5. QED
    BY <1>t, <2>1, <2>2, <2>4, CommandFrame
<1>12. QED
  BY <1>1, <1>3, <1>4, <1>6, <1>7, <1>9, <1>10, <1>11 DEF UserCommand

\* The steps that are left: the rest of a handler, a crash and a restart.
LEMMA OtherTypes ==
    ASSUME TypeInv, HandlerStep \/ Crash \/ Restart
    PROVE  TypeInv'
<1>t. Table(queue)
  BY DEF TypeInv, TypeOK, TableOK, Table
<1> USE DEF TypeInv, TypeOK, TableOK, FilesOK, FlagsOK, HandlersOK, MetaOK
<1>1. CASE YieldSuperseded
  <2>1. Table(queue') /\ DOMAIN queue' = DOMAIN queue
    BY <1>t, <1>1, SetStatusTable DEF YieldSuperseded, Status
  <2>2. WorkersOK' /\ JobIds'
    BY <1>1 DEF YieldSuperseded, workerVars, WorkersOK, JobIds
  <2>3. QED
    BY <1>1, <2>1, <2>2 DEF YieldSuperseded, Table, fileVars, flagVars, metaVars
<1>2. ASSUME NEW id \in discards, DiscardCanceled(id) PROVE TypeInv'
  <2>1. WorkersOK' /\ JobIds'
    BY <1>2 DEF DiscardCanceled, workerVars, tableVars, WorkersOK, JobIds
  <2>2. QED
    BY <1>2, <2>1 DEF DiscardCanceled, RemoveStaged, tableVars, flagVars, metaVars
<1>3. CASE Crash
  <2>1. WorkersOK' /\ JobIds'
    BY <1>3 DEF Crash, WorkersOK, JobIds, Labels, NoJob, Job, tableVars
  <2>2. TableOK' /\ FilesOK'
    BY <1>3 DEF Crash, tableVars, fileVars
  <2>3. FlagsOK' /\ HandlersOK'
    BY <1>3 DEF Crash, tableVars
  <2>4. crashes' \in Nat /\ commands' \in Nat
    BY <1>3 DEF Crash
  <2>5. up' \in BOOLEAN
    BY <1>3 DEF Crash
  <2>6. QED
    BY <2>1, <2>2, <2>3, <2>4, <2>5
<1>4. CASE Restart
  <2>1. Table(queue') /\ DOMAIN queue' = DOMAIN queue
    BY <1>t, <1>4, SetStatusTable DEF Restart, Status
  <2>2. WorkersOK' /\ JobIds'
    BY <1>4 DEF Restart, workerVars, WorkersOK, JobIds
  <2>3. QED
    BY <1>4, <2>1, <2>2 DEF Restart, Table, fileVars, flagVars, apiVars
<1>5. QED
  BY <1>1, <1>2, <1>3, <1>4 DEF HandlerStep

\* Nothing happens.
LEMMA StutterTypes ==
    ASSUME TypeInv, UNCHANGED vars
    PROVE  TypeInv'
BY DEF TypeInv, TypeOK, TableOK, FilesOK, FlagsOK, WorkersOK, HandlersOK, MetaOK, JobIds,
       vars, tableVars, fileVars, flagVars, workerVars, apiVars, metaVars

\* TypeInv is inductive, so it holds throughout.
LEMMA TypeInvariant == Spec => []TypeInv
<1>1. Init => TypeInv
  BY InitTypes
<1>2. TypeInv /\ [Next]_vars => TypeInv'
  BY WorkerTypes, CommandTypes, OtherTypes, StutterTypes DEF Next
<1>3. QED
  BY <1>1, <1>2, PTL DEF Spec

\* The state of the downloader, its table, its files and its workers stays well
\* typed: a staged page always lies in a staging directory that exists, every
\* staging directory names an id the table issued, and a chapter marked
\* downloaded exists.
THEOREM TypeCorrect == Spec => []TypeOK
BY TypeInvariant, PTL DEF TypeInv

-----------------------------------------------------------------------------
(* What the user decided stands                                            *)

\* A step that adds no row, moves no row to another chapter, and leaves the
\* PAUSED and the FAILED rows as they are.
RowsKept(q, r) ==
    /\ DOMAIN r \subseteq DOMAIN q
    /\ \A id \in DOMAIN r : r[id].chapter = q[id].chapter
    /\ \A id \in WithStatus(q, {"PAUSED", "FAILED"}) : id \in DOMAIN r /\ r[id] = q[id]

\* A status change of rows that are pending or in flight keeps the rows.
LEMMA SetStatusKeeps ==
    ASSUME NEW q, Table(q), NEW ids, NEW st \in Status,
           ids \subseteq WithStatus(q, {"PENDING", "DOWNLOADING"})
    PROVE  RowsKept(q, SetStatus(q, ids, st))
BY SetStatusTable DEF RowsKept, WithStatus

\* So does a change of nothing.
LEMMA SameKeeps == ASSUME NEW q PROVE RowsKept(q, q)
BY DEF RowsKept, WithStatus

\* No step of a worker touches a row the user paused or a row that failed, and
\* none adds a row.
LEMMA WorkerRows ==
    ASSUME TypeInv, NEW w \in Workers, WorkerStep(w)
    PROVE  RowsKept(queue, queue')
<1>t. Table(queue) /\ job[w] \in Job
  BY DEF TypeInv, TypeOK, TableOK, WorkersOK, Table
<1>1. CASE UNCHANGED queue
  BY <1>1, SameKeeps
<1>2. ASSUME NEW id \in Heads(queue, held[w]), queue' = SetStatus(queue, {id}, "DOWNLOADING")
      PROVE  RowsKept(queue, queue')
  <2>1. {id} \subseteq WithStatus(queue, {"PENDING", "DOWNLOADING"})
    BY DEF Heads, Claimable, WithStatus
  <2>2. QED
    BY <1>t, <1>2, <2>1, SetStatusKeeps DEF Status
<1>3. ASSUME NEW st \in Status,
             queue' = SetStatus(queue, {job[w].id} \cap WithStatus(queue, {"DOWNLOADING"}), st)
      PROVE  RowsKept(queue, queue')
  <2>1. {job[w].id} \cap WithStatus(queue, {"DOWNLOADING"})
           \subseteq WithStatus(queue, {"PENDING", "DOWNLOADING"})
    BY DEF WithStatus
  <2>2. QED
    BY <1>t, <1>3, <2>1, SetStatusKeeps
<1>4. ASSUME AcceptsProgress(queue, job[w].id, job[w].pages, job[w].done),
             \/ queue' = UpdateProgress(queue, job[w].id, job[w].pages, job[w].done)
             \/ queue' = SaveDone(queue, job[w].id, job[w].done)
      PROVE  RowsKept(queue, queue')
  <2> DEFINE id == job[w].id
  <2> DEFINE pages == job[w].pages
  <2> DEFINE done == job[w].done
  <2>1. id \in WithStatus(queue, {"PENDING", "DOWNLOADING"}) /\ id \in DOMAIN queue
    BY <1>4 DEF AcceptsProgress, Progressable, WithStatus
  <2>2. pages \in Nat /\ done \in Nat
    BY <1>t DEF Job
  <2>3. queue' = UpdateProgress(queue, id, pages, done) \/ queue' = SaveDone(queue, id, done)
    BY <1>4
  <2> HIDE DEF id, pages, done
  <2>4. /\ DOMAIN queue' = DOMAIN queue /\ queue'[id].chapter = queue[id].chapter
        /\ \A i \in DOMAIN queue : i # id => queue'[i] = queue[i]
    <3>1. CASE queue' = UpdateProgress(queue, id, pages, done)
      BY <1>t, <2>1, <2>2, <3>1, UpdateProgressTable
    <3>2. CASE queue' = SaveDone(queue, id, done)
      BY <1>t, <2>1, <2>2, <3>2, SaveDoneTable
    <3>3. QED
      BY <2>3, <3>1, <3>2
  <2>5. QED
    BY <2>1, <2>4 DEF RowsKept, WithStatus
<1>5. ASSUME queue' = Without(queue, CompletedRows(job[w].chapter))
      PROVE  RowsKept(queue, queue')
  BY <1>t, <1>5 DEF Without, Restrict, CompletedRows, RowsOf, RowsKept, WithStatus
<1>6. CASE Claim(w)
  BY <1>1, <1>2, <1>6 DEF Claim
<1>7. CASE RecordProgress(w)
  BY <1>1, <1>4, <1>7 DEF RecordProgress
<1>8. CASE SavePages(w)
  BY <1>1, <1>4, <1>8 DEF SavePages
<1>9. CASE Release(w)
  BY <1>3, <1>9 DEF Release, Status
<1>10. CASE Fail(w)
  BY <1>3, <1>10 DEF Fail, Status
<1>11. CASE Complete(w)
  BY <1>1, <1>5, <1>11 DEF Complete
<1>12. CASE \/ ResolveGates(w) \/ ReadItem(w) \/ OpenItem(w) \/ NextPage(w) \/ Boundary(w)
            \/ Discard(w) \/ FetchPage(w) \/ WriteArchive(w) \/ Replace(w) \/ RemoveArtifact(w) \/ Cleanup(w)
  <2>1. UNCHANGED queue
    BY <1>12 DEF ResolveGates, ReadItem, OpenItem, NextPage, Boundary, Discard, FetchPage,
                 WriteArchive, Replace, RemoveArtifact, Cleanup, tableVars
  <2>2. QED
    BY <1>1, <2>1
<1>13. QED
  BY <1>6, <1>7, <1>8, <1>9, <1>10, <1>11, <1>12 DEF WorkerStep

\* The same of the rest of a handler, a crash and a restart.
LEMMA OtherRows ==
    ASSUME TypeInv, HandlerStep \/ Crash \/ Restart
    PROVE  RowsKept(queue, queue')
<1>t. Table(queue)
  BY DEF TypeInv, TypeOK, TableOK, Table
<1>1. CASE YieldSuperseded
  <2>1. Superseded(queue) \subseteq WithStatus(queue, {"PENDING", "DOWNLOADING"})
    BY DEF Superseded, WithStatus
  <2>2. QED
    BY <1>t, <1>1, <2>1, SetStatusKeeps DEF YieldSuperseded, Status
<1>2. CASE Restart
  <2>1. WithStatus(queue, {"DOWNLOADING"}) \subseteq WithStatus(queue, {"PENDING", "DOWNLOADING"})
    BY DEF WithStatus
  <2>2. QED
    BY <1>t, <1>2, <2>1, SetStatusKeeps DEF Restart, Status
<1>3. CASE Crash \/ \E id \in discards : DiscardCanceled(id)
  <2>1. UNCHANGED queue
    BY <1>3 DEF Crash, DiscardCanceled, tableVars
  <2>2. QED
    BY <2>1, SameKeeps
<1>4. QED
  BY <1>1, <1>2, <1>3 DEF HandlerStep

\* Every user command counts.
LEMMA CommandCounts ==
    ASSUME TypeInv, UserCommand
    PROVE  commands' # commands
<1>1. \E name : Command(name)
  BY DEF UserCommand, EnqueueChapter, PauseItem, ResumeItem, RetryItem, Transition, Cancel,
         CancelAll, CancelRows, RetryFailedItems, PauseSource, ResumeSource, RetireChapters,
         PauseAll, ResumeAll, Reorder
<1>2. commands \in Nat /\ commands' = commands + 1
  BY <1>1 DEF Command, TypeInv, TypeOK, MetaOK
<1>3. QED
  BY <1>2

\* Only the user moves a row out of PAUSED or FAILED, whatever the workers that
\* still hold the row, a yield, a crash or a restart do.
THEOREM DecisionsStand == Spec => UserDecisionsStand
<1> DEFINE Rests == commands' = commands =>
                        \A id \in WithStatus(queue, {"PAUSED", "FAILED"}) :
                           id \in DOMAIN queue' /\ queue'[id] = queue[id]
<1>1. TypeInv /\ [Next]_vars => [Rests]_vars
  <2> SUFFICES ASSUME TypeInv, Next PROVE Rests
    OBVIOUS
  <2>1. CASE UserCommand
    BY <2>1, CommandCounts
  <2>2. CASE \E w \in Workers : WorkerStep(w)
    BY <2>2, WorkerRows DEF RowsKept
  <2>3. CASE HandlerStep \/ Crash \/ Restart
    BY <2>3, OtherRows DEF RowsKept
  <2>4. QED
    BY <2>1, <2>2, <2>3 DEF Next
<1>2. QED
  BY <1>1, TypeInvariant, PTL DEF Spec, UserDecisionsStand

-----------------------------------------------------------------------------
(* No download is abandoned                                                *)

Flight(q) == WithStatus(q, {"DOWNLOADING"})

\* A worker past the read of its row knows the chapter of the row, if the row
\* still exists: ids are never reused and rows do not change their chapter.
\* Without it a completion, which matches rows by chapter, could leave the
\* worker's own row in flight.
ChapterKnown ==
    \A w \in Workers : pc[w] \in Working \ {"read"} /\ job[w].id \in DOMAIN queue =>
        queue[job[w].id].chapter = job[w].chapter

\* A worker stays on its row, and no other row enters flight.
LEMMA Stays ==
    ASSUME NEW w \in Workers, pc'[w] \in Working, job'[w].id = job[w].id,
           Flight(queue') \subseteq Flight(queue) \cup {job[w].id},
           NEW id \in Flight(queue')
    PROVE  WorksOn(w, id)' \/ (id \in Flight(queue) /\ ~WorksOn(w, id))
BY DEF WorksOn

\* A worker leaves its row, which is not in flight any more.
LEMMA Leaves ==
    ASSUME NEW w \in Workers, job[w].id \notin Flight(queue'),
           Flight(queue') \subseteq Flight(queue), NEW id \in Flight(queue')
    PROVE  WorksOn(w, id)' \/ (id \in Flight(queue) /\ ~WorksOn(w, id))
BY DEF WorksOn

\* Whatever a worker does, a row in flight afterwards is either the one it works
\* on or was in flight before in other hands.
LEMMA WorkerFlight ==
    ASSUME TypeInv, ChapterKnown, NEW w \in Workers, WorkerStep(w),
           NEW id \in Flight(queue')
    PROVE  WorksOn(w, id)' \/ (id \in Flight(queue) /\ ~WorksOn(w, id))
<1> DEFINE Goal == WorksOn(w, id)' \/ (id \in Flight(queue) /\ ~WorksOn(w, id))
<1>t. Table(queue) /\ pc \in [Workers -> Labels] /\ job \in [Workers -> Job]
  BY DEF TypeInv, TypeOK, TableOK, WorkersOK, Table
<1>j. job[w] \in Job
  BY <1>t
<1>1. CASE ResolveGates(w) \/ Discard(w) \/ Cleanup(w)
  <2>1. UNCHANGED queue /\ pc[w] \notin Working
    BY <1>1 DEF ResolveGates, Discard, Cleanup, tableVars, Working
  <2>2. QED
    BY <2>1 DEF WorksOn
<1>2. CASE Claim(w)
  <2>1. pc[w] \notin Working
    BY <1>2 DEF Claim, Working
  <2>2. CASE UNCHANGED queue
    BY <2>1, <2>2 DEF WorksOn
  <2>3. ASSUME NEW r \in Heads(queue, held[w]),
               queue' = SetStatus(queue, {r}, "DOWNLOADING"),
               job' = [job EXCEPT ![w].id = r],
               Goto(w, "read")
        PROVE  Goal
    <3>1. pc'[w] \in Working /\ job'[w].id = r
      BY <1>t, <1>j, <2>3 DEF Goto, Working, Labels, Job
    <3>2. id = r \/ id \in Flight(queue)
      BY <1>t, <2>3, SetStatusTable DEF Flight, WithStatus, Status
    <3>3. QED
      BY <2>1, <3>1, <3>2 DEF WorksOn
  <2>4. QED
    BY <1>2, <2>2, <2>3 DEF Claim
<1>3. CASE ReadItem(w)
  <2>1. UNCHANGED queue
    BY <1>3 DEF ReadItem, tableVars
  <2>2. CASE job[w].id \notin DOMAIN queue
    <3>1. job[w].id \notin Flight(queue')
      BY <2>1, <2>2 DEF Flight, WithStatus
    <3>2. QED
      BY <2>1, <3>1, Leaves
  <2>3. CASE job[w].id \in DOMAIN queue
    <3>1. pc'[w] \in Working /\ job'[w].id = job[w].id
      BY <1>3, <1>t, <1>j, <2>3 DEF ReadItem, Goto, Working, Labels, Job
    <3>2. QED
      BY <2>1, <3>1, Stays
  <2>4. QED
    BY <2>2, <2>3
<1>4. CASE OpenItem(w) \/ NextPage(w) \/ FetchPage(w) \/ WriteArchive(w) \/ Replace(w) \/ RemoveArtifact(w)
  <2>1. UNCHANGED queue
    BY <1>4 DEF OpenItem, NextPage, FetchPage, WriteArchive, Replace, RemoveArtifact, tableVars
  <2>2. pc'[w] \in Working
    BY <1>4, <1>t DEF OpenItem, NextPage, FetchPage, WriteArchive, Replace, RemoveArtifact, Goto,
                      Working, Labels, Checks
  <2>3. job'[w].id = job[w].id
    BY <1>4, <1>t, <1>j DEF OpenItem, NextPage, FetchPage, WriteArchive, Replace, RemoveArtifact, Job
  <2>4. QED
    BY <2>1, <2>2, <2>3, Stays
<1>5. CASE RecordProgress(w) \/ SavePages(w)
  <2>1. UNCHANGED job /\ pc'[w] \in Working
    BY <1>5, <1>t DEF RecordProgress, SavePages, Goto, Working, Labels, Checks
  <2>2. \A i \in DOMAIN queue' : i # job[w].id => i \in DOMAIN queue /\ queue'[i] = queue[i]
    BY <1>5, <1>t DEF RecordProgress, SavePages, UpdateProgress, SaveDone
  <2>3. QED
    BY <2>1, <2>2, Stays DEF Flight, WithStatus
<1>6. CASE Boundary(w)
  <2>1. UNCHANGED queue /\ pc[w] \in Checks
    BY <1>6 DEF Boundary, tableVars
  <2>2. CASE job[w].id \notin Flight(queue)
    BY <2>1, <2>2, Leaves
  <2>3. CASE job[w].id \in Flight(queue)
    <3>1. UNCHANGED job /\ (Goto(w, "release") \/ Goto(w, Proceed[pc[w]]))
      BY <1>6, <2>3 DEF Boundary, Flight, WithStatus
    <3>2. Proceed[pc[w]] \in Working
      BY <2>1 DEF Proceed, Checks, Working, Labels
    <3>3. pc'[w] \in Working
      BY <1>t, <3>1, <3>2 DEF Goto, Working, Labels
    <3>4. QED
      BY <2>1, <3>1, <3>3, Stays
  <2>4. QED
    BY <2>2, <2>3
<1>7. ASSUME NEW st \in {"PENDING", "FAILED"},
             queue' = SetStatus(queue, {job[w].id} \cap Flight(queue), st)
      PROVE  Goal
  <2>1. job[w].id \notin Flight(queue') /\ Flight(queue') \subseteq Flight(queue)
    BY <1>7, <1>t, SetStatusTable, SMTT(30) DEF Flight, WithStatus, Status
  <2>2. QED
    BY <2>1, Leaves
<1>8. CASE Release(w)
  BY <1>7, <1>8 DEF Release, Flight
<1>9. CASE Fail(w)
  BY <1>7, <1>9 DEF Fail, Flight
<1>10. CASE Complete(w)
  <2>1. pc[w] = "register" /\ UNCHANGED job
    BY <1>10 DEF Complete
  <2>2. CASE UNCHANGED queue /\ Goto(w, "unregister")
    <3>1. pc'[w] \in Working
      BY <1>t, <2>2 DEF Goto, Working, Labels
    <3>2. QED
      BY <2>1, <2>2, <3>1, Stays
  <2>3. CASE queue' = Without(queue, CompletedRows(job[w].chapter))
    <3>1. Flight(queue') \subseteq Flight(queue)
      BY <1>t, <2>3 DEF Without, Restrict, Flight, WithStatus, Table
    <3>2. job[w].id \in Flight(queue) => job[w].id \in CompletedRows(job[w].chapter)
      BY <2>1 DEF ChapterKnown, Working, Labels, Flight, WithStatus, CompletedRows, RowsOf
    <3>3. job[w].id \notin Flight(queue')
      BY <1>t, <2>3, <3>1, <3>2 DEF Without, Restrict, Flight, WithStatus, Table
    <3>4. QED
      BY <3>1, <3>3, Leaves
  <2>4. QED
    BY <1>10, <2>2, <2>3 DEF Complete
<1>11. QED
  BY <1>1, <1>2, <1>3, <1>4, <1>5, <1>6, <1>8, <1>9, <1>10 DEF WorkerStep

\* A worker leaves the other workers alone, and keeps the row and the chapter it
\* has read while it works.
LEMMA WorkerLocal ==
    ASSUME TypeInv, NEW w \in Workers, WorkerStep(w)
    PROVE  /\ up /\ \A v \in Workers \ {w} : pc'[v] = pc[v] /\ job'[v] = job[v]
           /\ pc'[w] \in Working \ {"read"} =>
                 /\ job'[w].id = job[w].id
                 /\ \/ pc[w] \in Working \ {"read"} /\ job'[w].chapter = job[w].chapter
                    \/ /\ UNCHANGED queue
                       /\ job'[w].chapter = queue[job[w].id].chapter
<1>t. pc \in [Workers -> Labels] /\ job \in [Workers -> Job] /\ job[w] \in Job
  BY DEF TypeInv, TypeOK, WorkersOK
<1>u. up
  BY DEF WorkerStep
<1> DEFINE Others == \A v \in Workers \ {w} : pc'[v] = pc[v] /\ job'[v] = job[v]
<1> DEFINE Kept == /\ pc[w] \in Working \ {"read"}
                   /\ job'[w].id = job[w].id /\ job'[w].chapter = job[w].chapter
<1>1. CASE ResolveGates(w) \/ Claim(w)
  BY <1>1, <1>t, <1>u DEF ResolveGates, Claim, Goto, Leave, Working
<1>2. CASE Discard(w) \/ Cleanup(w) \/ Release(w) \/ Fail(w)
  BY <1>2, <1>t, <1>u DEF Discard, Cleanup, Release, Fail, Goto, Leave, Working
<1>3. CASE ReadItem(w)
  <2>1. CASE Leave(w)
    BY <2>1, <1>t, <1>u DEF Goto, Leave, Working
  <2>2. CASE /\ job' = [job EXCEPT ![w].chapter = queue[job[w].id].chapter,
                                   ![w].done = queue[job[w].id].done]
             /\ Goto(w, "open")
    <3>1. UNCHANGED queue
      BY <1>3 DEF ReadItem, tableVars
    <3>2. job'[w].id = job[w].id /\ job'[w].chapter = queue[job[w].id].chapter
      BY <1>t, <2>2 DEF Job
    <3>3. Others
      BY <1>t, <2>2 DEF Goto
    <3>4. QED
      BY <1>u, <3>1, <3>2, <3>3
  <2>3. QED
    BY <1>3, <2>1, <2>2 DEF ReadItem
<1>4. CASE OpenItem(w) \/ NextPage(w) \/ FetchPage(w)
  <2>1. Others
    BY <1>4, <1>t DEF OpenItem, NextPage, FetchPage, Goto
  <2>2. pc[w] \in Working \ {"read"}
    BY <1>4 DEF OpenItem, NextPage, FetchPage, Working, Labels
  <2>3. job'[w].id = job[w].id /\ job'[w].chapter = job[w].chapter
    BY <1>4, <1>t DEF OpenItem, NextPage, FetchPage, Job
  <2>4. QED
    BY <1>u, <2>1, <2>2, <2>3
<1>5. CASE RecordProgress(w) \/ SavePages(w) \/ WriteArchive(w) \/ Replace(w) \/ Complete(w) \/ RemoveArtifact(w)
  BY <1>5, <1>t, <1>u DEF RecordProgress, SavePages, WriteArchive, Replace, Complete, RemoveArtifact,
                          Goto, Working, Labels, Checks
<1>6. CASE Boundary(w)
  BY <1>6, <1>t, <1>u DEF Boundary, Goto, Leave, Working, Labels, Checks
<1>7. QED
  BY <1>1, <1>2, <1>3, <1>4, <1>5, <1>6 DEF WorkerStep

\* A worker's step abandons no row and keeps what the workers know.
LEMMA WorkerKeepsFlight ==
    ASSUME TypeInv, ChapterKnown, NoAbandonedDownload, NEW w \in Workers, WorkerStep(w)
    PROVE  ChapterKnown' /\ NoAbandonedDownload'
<1>1. RowsKept(queue, queue')
  BY WorkerRows
<1>2. ChapterKnown'
  <2>1. ASSUME NEW v \in Workers, v # w, pc'[v] \in Working \ {"read"},
               job'[v].id \in DOMAIN queue'
        PROVE  queue'[job'[v].id].chapter = job'[v].chapter
    BY <1>1, <2>1, WorkerLocal DEF RowsKept, ChapterKnown
  <2>2. ASSUME pc'[w] \in Working \ {"read"}, job'[w].id \in DOMAIN queue'
        PROVE  queue'[job'[w].id].chapter = job'[w].chapter
    BY <1>1, <2>2, WorkerLocal DEF RowsKept, ChapterKnown
  <2>3. QED
    BY <2>1, <2>2 DEF ChapterKnown
<1>3. NoAbandonedDownload'
  <2> SUFFICES ASSUME NEW id \in Flight(queue') PROVE \E v \in Workers : WorksOn(v, id)'
    BY DEF NoAbandonedDownload, Flight
  <2>1. CASE id \in Flight(queue) /\ ~WorksOn(w, id)
    <3>1. PICK v \in Workers : WorksOn(v, id)
      BY <2>1, WorkerLocal DEF NoAbandonedDownload, Flight
    <3>2. WorksOn(v, id)'
      BY <2>1, <3>1, WorkerLocal DEF WorksOn
    <3>3. QED
      BY <3>2
  <2>2. QED
    BY <2>1, WorkerFlight
<1>4. QED
  BY <1>2, <1>3

\* Nothing a user orders puts a row in flight, and a row that exists keeps its
\* chapter; only the next id can be new.
LEMMA CommandRows ==
    ASSUME TypeInv, UserCommand
    PROVE  /\ Flight(queue') \subseteq Flight(queue) /\ UNCHANGED <<workerVars, up>>
           /\ \A id \in 1 .. lastId : id \in DOMAIN queue' =>
                 id \in DOMAIN queue /\ queue'[id].chapter = queue[id].chapter
<1> DEFINE Rows(q, r) == /\ Flight(r) \subseteq Flight(q)
                         /\ \A id \in 1 .. lastId : id \in DOMAIN r =>
                               id \in DOMAIN q /\ r[id].chapter = q[id].chapter
<1>t. Table(queue) /\ lastId \in Nat /\ DOMAIN queue \subseteq 1 .. lastId
  BY DEF TypeInv, TypeOK, TableOK, Table
<1>w. UNCHANGED <<workerVars, up>>
  BY DEF UserCommand, EnqueueChapter, PauseItem, ResumeItem, RetryItem, Transition, Cancel,
         CancelAll, CancelRows, RetryFailedItems, PauseSource, ResumeSource, RetireChapters,
         PauseAll, ResumeAll, Reorder, Command
<1>1. ASSUME NEW ids, NEW st \in {"PENDING", "PAUSED"}, queue' = SetStatus(queue, ids, st)
      PROVE  Rows(queue, queue')
  BY <1>t, <1>1, SetStatusTable DEF Flight, WithStatus, Status
<1>2. ASSUME NEW ids, queue' = Without(queue, ids) PROVE Rows(queue, queue')
  BY <1>t, <1>2 DEF Without, Restrict, Flight, WithStatus, Table
<1>3. CASE UNCHANGED queue
  BY <1>3, <1>w
<1>4. ASSUME NEW c \in Chapters, EnqueueChapter(c) PROVE Rows(queue, queue')
  <2>1. PICK p \in NextPositions(queue) :
           \/ queue' = InsertRow(queue, c, lastId + 1, p)
           \/ queue' = RequeueFailed(queue, c, p)
    BY <1>4 DEF EnqueueChapter
  <2>2. p \in Nat
    BY <1>t, NextPositionType
  <2>3. CASE queue' = InsertRow(queue, c, lastId + 1, p)
    <3>1. /\ DOMAIN queue' = DOMAIN queue \cup {lastId + 1} /\ lastId + 1 \notin 1 .. lastId
          /\ queue'[lastId + 1].status = "PENDING"
          /\ \A i \in DOMAIN queue : queue'[i] = queue[i]
      BY <1>t, <2>3 DEF InsertRow, NewRow
    <3>2. QED
      BY <1>t, <3>1 DEF Flight, WithStatus
  <2>4. CASE queue' = RequeueFailed(queue, c, p)
    BY <1>t, <2>2, <2>4, RequeueFailedTable DEF Flight, WithStatus
  <2>5. QED
    BY <2>1, <2>3, <2>4
<1>5. ASSUME NEW ids \in SUBSET DOMAIN queue, NEW rank \in Ranks(ids), Reorder(rank)
      PROVE  Rows(queue, queue')
  BY <1>t, <1>5 DEF Reorder, SetOrder, Table, Row, Flight, WithStatus
<1>6. ASSUME NEW id \in DOMAIN queue, PauseItem(id) \/ ResumeItem(id) \/ RetryItem(id)
      PROVE  Rows(queue, queue')
  BY <1>1, <1>6 DEF PauseItem, ResumeItem, RetryItem, Transition
<1>7. ASSUME NEW s \in Sources, RetryFailedItems(s) PROVE Rows(queue, queue')
  BY <1>1, <1>7 DEF RetryFailedItems
<1>8. ASSUME (\E id \in DOMAIN queue : Cancel(id)) \/ CancelAll PROVE Rows(queue, queue')
  BY <1>2, <1>8 DEF Cancel, CancelAll, CancelRows
<1>9. ASSUME NEW s \in Sources, RetireChapters(s) PROVE Rows(queue, queue')
  BY <1>2, <1>9 DEF RetireChapters
<1>10. CASE PauseAll \/ ResumeAll \/ \E s \in Sources : PauseSource(s) \/ ResumeSource(s)
  BY <1>3, <1>10 DEF PauseAll, ResumeAll, PauseSource, ResumeSource, tableVars
<1>11. QED
  BY <1>w, <1>4, <1>5, <1>6, <1>7, <1>8, <1>9, <1>10 DEF UserCommand

\* So no command and no rest of a handler abandons a row.
LEMMA OthersKeepFlight ==
    ASSUME TypeInv, ChapterKnown, NoAbandonedDownload,
           Flight(queue') \subseteq Flight(queue), UNCHANGED <<workerVars, up>>,
           \A id \in 1 .. lastId : id \in DOMAIN queue' =>
              id \in DOMAIN queue /\ queue'[id].chapter = queue[id].chapter
    PROVE  ChapterKnown' /\ NoAbandonedDownload'
<1>1. ChapterKnown'
  <2> SUFFICES ASSUME NEW w \in Workers, pc[w] \in Working \ {"read"},
                      job[w].id \in DOMAIN queue'
               PROVE  queue'[job[w].id].chapter = job[w].chapter
    BY DEF ChapterKnown, workerVars
  <2>1. job[w].id \in 1 .. lastId
    BY DEF TypeInv, JobIds, Working
  <2>2. QED
    BY <2>1 DEF ChapterKnown
<1>2. NoAbandonedDownload'
  BY DEF NoAbandonedDownload, Flight, WorksOn, workerVars
<1>3. QED
  BY <1>1, <1>2

\* The rest of a handler, a crash and a restart abandon no row.
LEMMA OtherStepsKeepFlight ==
    ASSUME TypeInv, ChapterKnown, NoAbandonedDownload, HandlerStep \/ Crash \/ Restart
    PROVE  ChapterKnown' /\ NoAbandonedDownload'
<1>t. Table(queue)
  BY DEF TypeInv, TypeOK, TableOK, Table
<1>r. /\ DOMAIN queue' \subseteq DOMAIN queue
      /\ \A id \in DOMAIN queue' : queue'[id].chapter = queue[id].chapter
  BY OtherRows DEF RowsKept
<1>1. CASE HandlerStep
  <2>1. UNCHANGED <<workerVars, up>>
    BY <1>1 DEF HandlerStep, YieldSuperseded, DiscardCanceled, metaVars
  <2>2. CASE YieldSuperseded
    BY <1>t, <2>2, SetStatusTable, <2>1, <1>r, OthersKeepFlight
       DEF YieldSuperseded, Flight, WithStatus, Status
  <2>3. CASE UNCHANGED queue
    BY <2>1, <2>3, OthersKeepFlight
  <2>4. QED
    BY <1>1, <2>2, <2>3 DEF HandlerStep, DiscardCanceled, tableVars
<1>2. CASE Crash
  BY <1>2 DEF Crash, ChapterKnown, NoAbandonedDownload, Working
<1>3. CASE Restart
  <2>1. UNCHANGED workerVars
    BY <1>3 DEF Restart
  <2>2. ChapterKnown'
    BY <1>r, <2>1 DEF ChapterKnown, workerVars
  <2>3. WithStatus(queue', {"DOWNLOADING"}) = {}
    BY <1>t, <1>3, SetStatusTable DEF Restart, WithStatus, Status
  <2>4. QED
    BY <2>2, <2>3 DEF NoAbandonedDownload
<1>4. QED
  BY <1>1, <1>2, <1>3

\* A row in flight always has a worker on it: no mix of workers, commands and
\* crashes leaves a row DOWNLOADING that nobody will look at again.
THEOREM NoDownloadAbandoned == Spec => []NoAbandonedDownload
<1> DEFINE FlightInv == ChapterKnown /\ NoAbandonedDownload
<1>1. Init => FlightInv
  BY DEF Init, ChapterKnown, NoAbandonedDownload, Working, WithStatus
<1>2. TypeInv /\ FlightInv /\ [Next]_vars => FlightInv'
  <2> SUFFICES ASSUME TypeInv, FlightInv, [Next]_vars PROVE FlightInv'
    OBVIOUS
  <2>1. CASE \E w \in Workers : WorkerStep(w)
    BY <2>1, WorkerKeepsFlight
  <2>2. CASE UserCommand
    BY <2>2, CommandRows, OthersKeepFlight
  <2>3. CASE HandlerStep \/ Crash \/ Restart
    BY <2>3, OtherStepsKeepFlight
  <2>4. CASE UNCHANGED vars
    BY <2>4 DEF vars, tableVars, workerVars, metaVars, ChapterKnown, NoAbandonedDownload, WorksOn
  <2>5. QED
    BY <2>1, <2>2, <2>3, <2>4 DEF Next
<1>3. QED
  BY <1>1, <1>2, TypeInvariant, PTL DEF Spec

-----------------------------------------------------------------------------
(* The queue implements the lifecycle of a chapter                         *)

\* The state of a chapter's entry in a table, and a move of some of them: EntryOf and Move
\* of ChapterLifecycle, of a table and the next.
EntryIn(q, c) == IF RowsOf(q, c) = {} THEN "ABSENT" ELSE q[CHOOSE id \in RowsOf(q, c) : TRUE].status

Moved(q, r, cs, from, to) ==
    /\ cs \in SUBSET Chapters
    /\ \A c \in cs : EntryIn(q, c) \in from
    /\ \A c \in Chapters : EntryIn(r, c) = IF c \in cs THEN to ELSE EntryIn(q, c)

\* A chapter has one row: it is queued again only when its row is gone or FAILED.
OneRow(q) == \A i, j \in DOMAIN q : q[i].chapter = q[j].chapter => i = j

AbstractStep == Lifecycle!Next \/ UNCHANGED Lifecycle!lifeVars

LEMMA MoveImplemented ==
    ASSUME NEW cs, NEW from, NEW to, Moved(queue, queue', cs, from, to)
    PROVE  Lifecycle!Move(cs, from, to) /\ cs \in SUBSET Chapters
BY DEF Moved, EntryIn, EntryOf, Lifecycle!Move

LEMMA NothingMoved ==
    ASSUME \A c \in Chapters : EntryIn(queue', c) = EntryIn(queue, c), UNCHANGED downloaded
    PROVE  AbstractStep
<1>1. [c \in Chapters |-> EntryOf(c)]' = [c \in Chapters |-> EntryOf(c)]
  BY DEF EntryIn, EntryOf
<1>2. QED
  BY <1>1 DEF AbstractStep, Lifecycle!lifeVars

\* With one row a chapter, the entry is the status of it.
LEMMA EntryIsStatus ==
    ASSUME NEW q, OneRow(q)
    PROVE  /\ \A id \in DOMAIN q : EntryIn(q, q[id].chapter) = q[id].status
           /\ \A c : RowsOf(q, c) = {} => EntryIn(q, c) = "ABSENT"
<1>1. ASSUME NEW id \in DOMAIN q PROVE EntryIn(q, q[id].chapter) = q[id].status
  <2>1. RowsOf(q, q[id].chapter) = {id}
    BY DEF RowsOf, OneRow
  <2>2. QED
    BY <2>1 DEF EntryIn
<1>2. QED
  BY <1>1 DEF EntryIn

\* Tables with the same rows for a chapter agree on its entry.
LEMMA SameEntries ==
    ASSUME NEW q, NEW r, OneRow(q), OneRow(r), DOMAIN r = DOMAIN q,
           \A id \in DOMAIN q : r[id].chapter = q[id].chapter /\ r[id].status = q[id].status
    PROVE  \A c : EntryIn(r, c) = EntryIn(q, c)
<1> SUFFICES ASSUME NEW c PROVE EntryIn(r, c) = EntryIn(q, c)
  OBVIOUS
<1>1. RowsOf(r, c) = RowsOf(q, c)
  BY DEF RowsOf
<1>2. CASE RowsOf(q, c) = {}
  BY <1>1, <1>2, EntryIsStatus
<1>3. ASSUME NEW id \in RowsOf(q, c) PROVE EntryIn(r, c) = EntryIn(q, c)
  <2>1. id \in DOMAIN q /\ q[id].chapter = c
    BY <1>3 DEF RowsOf
  <2>2. QED
    BY <2>1, EntryIsStatus
<1>4. QED
  BY <1>2, <1>3

\* An UPDATE of the status moves the chapters of the rows it finds.
LEMMA StatusMoves ==
    ASSUME NEW q, Table(q), OneRow(q), NEW ids \in SUBSET DOMAIN q, NEW from, NEW st \in Status,
           \A id \in ids : q[id].status \in from
    PROVE  LET r == SetStatus(q, ids, st) IN
           OneRow(r) /\ Moved(q, r, {q[id].chapter : id \in ids}, from, st)
<1> DEFINE r == SetStatus(q, ids, st)
           cs == {q[id].chapter : id \in ids}
<1>1. /\ DOMAIN r = DOMAIN q
      /\ \A id \in DOMAIN q : /\ r[id].chapter = q[id].chapter
                              /\ r[id].status = IF id \in ids THEN st ELSE q[id].status
  BY SetStatusTable
<1> HIDE DEF r
<1>2. OneRow(r)
  BY <1>1 DEF OneRow
<1>3. cs \in SUBSET Chapters
  BY DEF Table, Row
<1>4. \A c \in cs : EntryIn(q, c) \in from
  BY EntryIsStatus
<1>5. ASSUME NEW c \in Chapters PROVE EntryIn(r, c) = IF c \in cs THEN st ELSE EntryIn(q, c)
  <2>1. RowsOf(r, c) = RowsOf(q, c)
    BY <1>1 DEF RowsOf
  <2>2. CASE RowsOf(q, c) = {}
    <3>1. c \notin cs
      BY <2>2 DEF RowsOf
    <3>2. QED
      BY <2>1, <2>2, <3>1 DEF EntryIn
  <2>3. ASSUME NEW id \in RowsOf(q, c) PROVE EntryIn(r, c) = IF c \in cs THEN st ELSE EntryIn(q, c)
    <3>1. id \in DOMAIN q /\ q[id].chapter = c
      BY <2>3 DEF RowsOf
    <3>2. EntryIn(r, c) = r[id].status /\ EntryIn(q, c) = q[id].status
      BY <1>1, <1>2, <3>1, EntryIsStatus
    <3>3. c \in cs <=> id \in ids
      BY <3>1 DEF OneRow
    <3>4. QED
      BY <1>1, <3>1, <3>2, <3>3
  <2>4. QED
    BY <2>2, <2>3
<1>6. QED
  BY <1>2, <1>3, <1>4, <1>5 DEF Moved, r

\* A DELETE takes the chapters of the rows off the queue.
LEMMA DeleteMoves ==
    ASSUME NEW q, Table(q), OneRow(q), NEW ids \in SUBSET DOMAIN q, NEW from,
           \A id \in ids : q[id].status \in from
    PROVE  LET r == Without(q, ids) IN
           OneRow(r) /\ Moved(q, r, {q[id].chapter : id \in ids}, from, "ABSENT")
<1> DEFINE r == Without(q, ids)
           cs == {q[id].chapter : id \in ids}
<1>1. DOMAIN r = DOMAIN q \ ids /\ \A id \in DOMAIN r : r[id] = q[id]
  BY WithoutTable
<1> HIDE DEF r
<1>2. OneRow(r)
  BY <1>1 DEF OneRow
<1>3. cs \in SUBSET Chapters
  BY DEF Table, Row
<1>4. \A c \in cs : EntryIn(q, c) \in from
  BY EntryIsStatus
<1>5. ASSUME NEW c \in Chapters PROVE EntryIn(r, c) = IF c \in cs THEN "ABSENT" ELSE EntryIn(q, c)
  <2>1. CASE RowsOf(q, c) = {}
    <3>1. RowsOf(r, c) = {} /\ c \notin cs
      BY <1>1, <2>1 DEF RowsOf
    <3>2. QED
      BY <2>1, <3>1 DEF EntryIn
  <2>2. ASSUME NEW id \in RowsOf(q, c), id \in ids
        PROVE  EntryIn(r, c) = IF c \in cs THEN "ABSENT" ELSE EntryIn(q, c)
    <3>1. RowsOf(r, c) = {} /\ c \in cs
      BY <1>1, <2>2 DEF RowsOf, OneRow
    <3>2. QED
      BY <3>1 DEF EntryIn
  <2>3. ASSUME NEW id \in RowsOf(q, c), id \notin ids
        PROVE  EntryIn(r, c) = IF c \in cs THEN "ABSENT" ELSE EntryIn(q, c)
    <3>1. id \in DOMAIN q /\ q[id].chapter = c /\ id \in DOMAIN r /\ r[id] = q[id]
      BY <1>1, <2>3 DEF RowsOf
    <3>2. EntryIn(r, c) = r[id].status /\ EntryIn(q, c) = q[id].status
      BY <1>2, <3>1, EntryIsStatus
    <3>3. c \notin cs
      BY <2>3, <3>1 DEF OneRow
    <3>4. QED
      BY <3>1, <3>2, <3>3
  <2>4. QED
    BY <2>1, <2>2, <2>3
<1>6. QED
  BY <1>2, <1>3, <1>4, <1>5 DEF Moved, r

\* An INSERT queues a chapter that has no row.
LEMMA InsertMoves ==
    ASSUME NEW q, Table(q), OneRow(q), NEW c \in Chapters, RowsOf(q, c) = {},
           NEW id, id \notin DOMAIN q, NEW p \in Nat
    PROVE  LET r == InsertRow(q, c, id, p) IN
           OneRow(r) /\ Moved(q, r, {c}, {"ABSENT"}, "PENDING")
<1> DEFINE r == InsertRow(q, c, id, p)
<1>1. /\ DOMAIN r = DOMAIN q \cup {id} /\ r[id].chapter = c /\ r[id].status = "PENDING"
      /\ \A i \in DOMAIN q : r[i] = q[i] /\ r[i].chapter # c
  <2>1. DOMAIN r = DOMAIN q \cup {id} /\ r[id] = NewRow(c, p) /\ \A i \in DOMAIN q : r[i] = q[i]
    BY DEF InsertRow
  <2> HIDE DEF r
  <2>2. \A i \in DOMAIN q : q[i].chapter # c
    BY DEF RowsOf
  <2>3. NewRow(c, p).chapter = c /\ NewRow(c, p).status = "PENDING"
    BY DEF NewRow
  <2>4. QED
    BY <2>1, <2>2, <2>3
<1> HIDE DEF r
<1>2. OneRow(r)
  BY <1>1 DEF OneRow
<1>3. EntryIn(q, c) = "ABSENT" /\ EntryIn(r, c) = "PENDING"
  BY <1>1, <1>2, EntryIsStatus
<1>4. ASSUME NEW d \in Chapters, d # c PROVE EntryIn(r, d) = EntryIn(q, d)
  <2>1. RowsOf(r, d) = RowsOf(q, d)
    BY <1>1, <1>4 DEF RowsOf
  <2>2. CASE RowsOf(q, d) = {}
    BY <2>1, <2>2 DEF EntryIn
  <2>3. ASSUME NEW i \in RowsOf(q, d) PROVE EntryIn(r, d) = EntryIn(q, d)
    <3>1. i \in DOMAIN q /\ q[i].chapter = d /\ i \in DOMAIN r /\ r[i] = q[i]
      BY <1>1, <2>3 DEF RowsOf
    <3>2. QED
      BY <1>2, <3>1, EntryIsStatus
  <2>4. QED
    BY <2>2, <2>3
<1>5. QED
  BY <1>2, <1>3, <1>4 DEF Moved, r

\* Rows that change their status together are a step of their chapters.
LEMMA RowsMove ==
    ASSUME Table(queue), OneRow(queue), NEW ids \in SUBSET DOMAIN queue, NEW from, NEW st \in Status,
           \A i \in ids : queue[i].status \in from, queue' = SetStatus(queue, ids, st)
    PROVE  /\ Lifecycle!Move({queue[i].chapter : i \in ids}, from, st)
           /\ {queue[i].chapter : i \in ids} \in SUBSET Chapters
           /\ OneRow(queue')
<1> DEFINE cs == {queue[i].chapter : i \in ids}
           r == SetStatus(queue, ids, st)
<1>1. OneRow(r) /\ Moved(queue, r, cs, from, st)
  <2>1. Table(queue) /\ OneRow(queue) /\ \A i \in ids : queue[i].status \in from
    OBVIOUS
  <2>2. LET t == SetStatus(queue, ids, st) IN
        OneRow(t) /\ Moved(queue, t, {queue[id].chapter : id \in ids}, from, st)
    BY <2>1, StatusMoves, Zenon
  <2>3. QED
    BY <2>2
<1>2. queue' = r
  OBVIOUS
<1> HIDE DEF cs, r
<1>3. OneRow(queue') /\ Moved(queue, queue', cs, from, st)
  BY <1>1, <1>2
<1>4. Lifecycle!Move(cs, from, st) /\ cs \in SUBSET Chapters
  BY <1>3, MoveImplemented
<1>5. QED
  BY <1>3, <1>4 DEF cs

\* Each worker's step moves at most one chapter, or several alike when the transaction of a
\* completion deletes more rows.
LEMMA WorkerImplements ==
    ASSUME TypeInv, OneRow(queue), NEW w \in Workers, WorkerStep(w)
    PROVE  AbstractStep
<1>t. Table(queue) /\ job[w] \in Job
  BY DEF TypeInv, TypeOK, TableOK, WorkersOK, Table
<1> DEFINE id == job[w].id
<1>1. CASE UNCHANGED <<queue, downloaded>>
  BY <1>1, NothingMoved
<1>2. ASSUME NEW ids \in SUBSET DOMAIN queue, NEW from, NEW st \in Status,
             \A i \in ids : queue[i].status \in from,
             queue' = SetStatus(queue, ids, st)
      PROVE  Lifecycle!Move({queue[i].chapter : i \in ids}, from, st)
             /\ {queue[i].chapter : i \in ids} \in SUBSET Chapters
  BY <1>t, <1>2, RowsMove
<1>3. CASE Claim(w)
  <2>1. CASE UNCHANGED queue
    BY <1>1, <1>3, <2>1 DEF Claim
  <2>2. ASSUME NEW i \in Heads(queue, held[w]), queue' = SetStatus(queue, {i}, "DOWNLOADING")
        PROVE  AbstractStep
    <3>1. i \in DOMAIN queue /\ queue[i].status = "PENDING"
      BY DEF Heads, Claimable, WithStatus
    <3> DEFINE ids == {i}
    <3>2. ids \in SUBSET DOMAIN queue /\ (\A k \in ids : queue[k].status \in {"PENDING"})
          /\ queue' = SetStatus(queue, ids, "DOWNLOADING")
      BY <2>2, <3>1
    <3> HIDE DEF ids
    <3>3. Lifecycle!Move({queue[k].chapter : k \in ids}, {"PENDING"}, "DOWNLOADING")
          /\ {queue[k].chapter : k \in ids} \in SUBSET Chapters
      BY <1>2, <3>2 DEF Status
    <3>4. UNCHANGED downloaded
      BY <1>3 DEF Claim
    <3>5. QED
      BY <3>3, <3>4 DEF AbstractStep, Lifecycle!Next, Lifecycle!Start
  <2>3. QED
    BY <1>3, <2>1, <2>2 DEF Claim
<1>4. CASE Release(w) \/ Fail(w)
  <2> DEFINE ids == {id} \cap WithStatus(queue, {"DOWNLOADING"})
  <2>1. UNCHANGED downloaded /\ \E st \in {"PENDING", "FAILED"} : queue' = SetStatus(queue, ids, st)
    BY <1>4 DEF Release, Fail
  <2>2. PICK st \in {"PENDING", "FAILED"} : queue' = SetStatus(queue, ids, st)
    BY <2>1
  <2>3. ids \in SUBSET DOMAIN queue /\ (\A i \in ids : queue[i].status \in {"DOWNLOADING"}) /\ st \in Status
    BY DEF WithStatus, Status
  <2> HIDE DEF ids
  <2>4. Lifecycle!Move({queue[i].chapter : i \in ids}, {"DOWNLOADING"}, st)
        /\ {queue[i].chapter : i \in ids} \in SUBSET Chapters
    BY <1>2, <2>2, <2>3
  <2>5. QED
    BY <2>1, <2>4 DEF AbstractStep, Lifecycle!Next, Lifecycle!PutBack, Lifecycle!Fail
<1>5. CASE RecordProgress(w) \/ SavePages(w)
  <2>1. CASE UNCHANGED queue
    BY <1>1, <1>5, <2>1 DEF RecordProgress, SavePages
  <2>2. CASE ~UNCHANGED queue
    <3>1. /\ id \in DOMAIN queue /\ queue[id].status \in {"PENDING", "DOWNLOADING"}
          /\ UNCHANGED downloaded
          /\ DOMAIN queue' = DOMAIN queue
          /\ \A i \in DOMAIN queue : i # id => queue'[i] = queue[i]
          /\ queue'[id].chapter = queue[id].chapter
          /\ queue'[id].status \in {queue[id].status, "DOWNLOADING"}
      <4>1. PICK pages \in Nat, done \in Nat :
              /\ AcceptsProgress(queue, id, pages, done) /\ UNCHANGED downloaded
              /\ queue' = UpdateProgress(queue, id, pages, done) \/ queue' = SaveDone(queue, id, done)
        <5>1. job[w].pages \in Nat /\ job[w].done \in Nat
          BY <1>t DEF Job
        <5>2. /\ AcceptsProgress(queue, id, job[w].pages, job[w].done) /\ UNCHANGED downloaded
              /\ \/ queue' = UpdateProgress(queue, id, job[w].pages, job[w].done)
                 \/ queue' = SaveDone(queue, id, job[w].done)
          BY <1>5, <2>2 DEF RecordProgress, SavePages
        <5>3. QED
          BY <5>1, <5>2
      <4>2. id \in DOMAIN queue /\ queue[id].status \in {"PENDING", "DOWNLOADING"}
        BY <4>1 DEF AcceptsProgress, Progressable, WithStatus
      <4> HIDE DEF id
      <4>3. CASE queue' = UpdateProgress(queue, id, pages, done)
        BY <1>t, <4>1, <4>2, <4>3, UpdateProgressTable
      <4>4. CASE queue' = SaveDone(queue, id, done)
        BY <1>t, <4>1, <4>2, <4>4, SaveDoneTable
      <4>5. QED
        BY <4>1, <4>3, <4>4
    <3>2. OneRow(queue')
      BY <3>1 DEF OneRow
    <3>3. CASE queue'[id].status = queue[id].status
      <4>1. \A i \in DOMAIN queue : queue'[i].chapter = queue[i].chapter /\ queue'[i].status = queue[i].status
        BY <3>1, <3>3
      <4>2. \A c : EntryIn(queue', c) = EntryIn(queue, c)
        BY <3>1, <3>2, <4>1, SameEntries
      <4>3. QED
        BY <3>1, <4>2, NothingMoved
    <3>4. CASE queue'[id].status # queue[id].status
      <4>1. queue[id].status = "PENDING" /\ queue'[id].status = "DOWNLOADING"
        BY <3>1, <3>4
      <4> DEFINE ids == {id}
                 r == SetStatus(queue, ids, "DOWNLOADING")
      <4>a. /\ ids \in SUBSET DOMAIN queue /\ \A i \in ids : queue[i].status \in {"PENDING"}
            /\ \A i \in DOMAIN queue : /\ queue'[i].chapter = queue[i].chapter
                                       /\ queue'[i].status = IF i \in ids THEN "DOWNLOADING" ELSE queue[i].status
        BY <3>1, <4>1
      <4> HIDE DEF ids
      <4>d. "DOWNLOADING" \in Status
        BY DEF Status
      <4>2. OneRow(r) /\ Moved(queue, r, {queue[i].chapter : i \in ids}, {"PENDING"}, "DOWNLOADING")
        BY <1>t, <4>a, <4>d, StatusMoves
      <4>3. /\ DOMAIN queue' = DOMAIN r
            /\ \A i \in DOMAIN r : queue'[i].chapter = r[i].chapter /\ queue'[i].status = r[i].status
        BY <1>t, <3>1, <4>a, SetStatusTable DEF Status
      <4>4. \A c : EntryIn(queue', c) = EntryIn(r, c)
        BY <3>2, <4>2, <4>3, SameEntries
      <4>5. Moved(queue, queue', {queue[i].chapter : i \in ids}, {"PENDING"}, "DOWNLOADING")
        BY <4>2, <4>4 DEF Moved
      <4>6. QED
        BY <3>1, <4>5, MoveImplemented DEF AbstractStep, Lifecycle!Next, Lifecycle!Start
    <3>5. QED
      BY <3>3, <3>4
  <2>3. QED
    BY <2>1, <2>2
<1>6. CASE Complete(w)
  <2>1. CASE UNCHANGED <<queue, downloaded>>
    BY <1>1, <2>1
  <2>2. CASE /\ CompletedRows(job[w].chapter) # {}
             /\ downloaded' = downloaded \cup {job[w].chapter}
             /\ queue' = Without(queue, CompletedRows(job[w].chapter))
    <3> DEFINE ids == CompletedRows(job[w].chapter)
    <3>1. ids \in SUBSET DOMAIN queue /\ (\A i \in ids : queue[i].status \in {"DOWNLOADING"})
      BY DEF CompletedRows, RowsOf, WithStatus
    <3>2. {queue[i].chapter : i \in ids} = {job[w].chapter}
      BY <2>2 DEF CompletedRows, RowsOf
    <3> HIDE DEF ids
    <3>3. Moved(queue, queue', {queue[i].chapter : i \in ids}, {"DOWNLOADING"}, "ABSENT")
      BY <1>t, <2>2, <3>1, DeleteMoves DEF ids
    <3>4. QED
      BY <2>2, <3>2, <3>3, MoveImplemented DEF AbstractStep, Lifecycle!Next, Lifecycle!Finish
  <2>3. QED
    BY <1>6, <2>1, <2>2 DEF Complete
<1>7. QED
  BY <1>1, <1>3, <1>4, <1>5, <1>6
     DEF WorkerStep, ResolveGates, ReadItem, OpenItem, NextPage, Boundary, Discard, FetchPage,
                 WriteArchive, Replace,
         RemoveArtifact, Cleanup, tableVars

\* A command moves the chapters it is about.
LEMMA CommandImplements ==
    ASSUME TypeInv, OneRow(queue), UserCommand
    PROVE  AbstractStep /\ OneRow(queue')
<1>t. Table(queue) /\ lastId \in Nat /\ DOMAIN queue \subseteq 1 .. lastId /\ Table(queue')
  BY CommandTypes DEF TypeInv, TypeOK, TableOK, Table
<1> DEFINE Goal == AbstractStep /\ OneRow(queue')
<1>1. CASE UNCHANGED <<queue, downloaded>>
  BY <1>1, NothingMoved
<1>2. ASSUME NEW ids \in SUBSET DOMAIN queue, NEW from, NEW st \in Status,
             \A i \in ids : queue[i].status \in from,
             queue' = SetStatus(queue, ids, st)
      PROVE  /\ Lifecycle!Move({queue[i].chapter : i \in ids}, from, st)
             /\ {queue[i].chapter : i \in ids} \in SUBSET Chapters
             /\ OneRow(queue')
  BY <1>t, <1>2, RowsMove
<1>3. ASSUME NEW ids \in SUBSET DOMAIN queue, queue' = Without(queue, ids)
      PROVE  /\ Lifecycle!Move({queue[i].chapter : i \in ids}, Lifecycle!EntryState, "ABSENT")
             /\ {queue[i].chapter : i \in ids} \in SUBSET Chapters
             /\ OneRow(queue')
  <2>1. \A i \in ids : queue[i].status \in Lifecycle!EntryState
    BY <1>t DEF Table, Row, Status, Lifecycle!EntryState
  <2> DEFINE from == Lifecycle!EntryState
  <2>2. \A i \in ids : queue[i].status \in from
    BY <2>1
  <2> HIDE DEF from
  <2>a. LET r == Without(queue, ids) IN
        OneRow(r) /\ Moved(queue, r, {queue[i].chapter : i \in ids}, from, "ABSENT")
    BY <1>t, <2>2, DeleteMoves
  <2>3. OneRow(queue') /\ Moved(queue, queue', {queue[i].chapter : i \in ids}, from, "ABSENT")
    BY <1>3, <2>a
  <2>4. Lifecycle!Move({queue[i].chapter : i \in ids}, from, "ABSENT")
        /\ {queue[i].chapter : i \in ids} \in SUBSET Chapters
    BY <2>3, MoveImplemented
  <2>5. QED
    BY <2>3, <2>4 DEF from
<1>4. ASSUME NEW c \in Chapters, EnqueueChapter(c) PROVE Goal
  <2>1. PICK p \in NextPositions(queue) :
           \/ RowsOf(queue, c) = {} /\ queue' = InsertRow(queue, c, lastId + 1, p)
           \/ queue' = RequeueFailed(queue, c, p)
    BY <1>4 DEF EnqueueChapter
  <2>2. p \in Nat /\ UNCHANGED downloaded
    BY <1>4, <1>t, NextPositionType DEF EnqueueChapter
  <2>3. CASE RowsOf(queue, c) = {} /\ queue' = InsertRow(queue, c, lastId + 1, p)
    <3>1. lastId + 1 \notin DOMAIN queue
      BY <1>t
    <3>2. OneRow(queue') /\ Moved(queue, queue', {c}, {"ABSENT"}, "PENDING")
      BY <1>t, <2>2, <2>3, <3>1, InsertMoves
    <3>3. Moved(queue, queue', {c}, {"ABSENT", "FAILED"}, "PENDING")
      BY <3>2 DEF Moved
    <3>4. QED
      BY <2>2, <3>2, <3>3, MoveImplemented DEF AbstractStep, Lifecycle!Next, Lifecycle!Queue
  <2>4. CASE queue' = RequeueFailed(queue, c, p)
    <3> DEFINE ids == {id \in DOMAIN queue : queue[id].chapter = c /\ queue[id].status = "FAILED"}
               r == SetStatus(queue, ids, "PENDING")
    <3>1. ids \in SUBSET DOMAIN queue /\ \A i \in ids : queue[i].status \in {"ABSENT", "FAILED"}
      OBVIOUS
    <3>2. /\ DOMAIN queue' = DOMAIN queue
          /\ \A i \in DOMAIN queue : /\ queue'[i].chapter = queue[i].chapter
                                     /\ queue'[i].status = IF i \in ids THEN "PENDING" ELSE queue[i].status
      BY <1>t, <2>4 DEF RequeueFailed, Table, Row
    <3> HIDE DEF ids
    <3>3. OneRow(r) /\ Moved(queue, r, {queue[i].chapter : i \in ids}, {"ABSENT", "FAILED"}, "PENDING")
      BY <1>t, <3>1, StatusMoves DEF Status
    <3>4. /\ DOMAIN queue' = DOMAIN r
          /\ \A i \in DOMAIN r : queue'[i].chapter = r[i].chapter /\ queue'[i].status = r[i].status
      BY <1>t, <3>2, SetStatusTable DEF Status
    <3>5. OneRow(queue')
      BY <3>2 DEF OneRow
    <3>6. \A d : EntryIn(queue', d) = EntryIn(r, d)
      BY <3>3, <3>4, <3>5, SameEntries
    <3>7. Moved(queue, queue', {queue[i].chapter : i \in ids}, {"ABSENT", "FAILED"}, "PENDING")
      BY <3>3, <3>6 DEF Moved
    <3>8. QED
      BY <2>2, <3>5, <3>7, MoveImplemented DEF AbstractStep, Lifecycle!Next, Lifecycle!Queue
  <2>5. QED
    BY <2>1, <2>3, <2>4
<1>5. ASSUME NEW id \in DOMAIN queue, NEW name, NEW allowed, NEW target \in Status,
             Transition(name, id, allowed, target)
      PROVE  /\ Lifecycle!Move({queue[i].chapter : i \in {id}}, allowed, target)
             /\ {queue[i].chapter : i \in {id}} \in SUBSET Chapters
             /\ OneRow(queue') /\ UNCHANGED downloaded
  <2>1. id \in DOMAIN queue /\ queue[id].status \in allowed /\ queue' = SetStatus(queue, {id}, target)
        /\ UNCHANGED downloaded
    BY <1>5 DEF Transition, WithStatus
  <2> DEFINE ids == {id}
  <2>2. ids \in SUBSET DOMAIN queue /\ (\A i \in ids : queue[i].status \in allowed)
        /\ queue' = SetStatus(queue, ids, target)
    BY <2>1
  <2> HIDE DEF ids
  <2>3. /\ Lifecycle!Move({queue[i].chapter : i \in ids}, allowed, target)
        /\ {queue[i].chapter : i \in ids} \in SUBSET Chapters
        /\ OneRow(queue')
    BY <1>2, <2>2
  <2>4. QED
    BY <2>1, <2>3 DEF ids
<1>6. ASSUME NEW id \in DOMAIN queue, PauseItem(id) PROVE Goal
  BY <1>5, <1>6 DEF PauseItem, Status, AbstractStep, Lifecycle!Next, Lifecycle!Stop
<1>7. ASSUME NEW id \in DOMAIN queue, ResumeItem(id) PROVE Goal
  BY <1>5, <1>7 DEF ResumeItem, Status, AbstractStep, Lifecycle!Next, Lifecycle!GoOn
<1>8. ASSUME NEW id \in DOMAIN queue, RetryItem(id) PROVE Goal
  <2>1. /\ Lifecycle!Move({queue[i].chapter : i \in {id}}, {"FAILED"}, "PENDING")
        /\ {queue[i].chapter : i \in {id}} \in SUBSET Chapters
        /\ OneRow(queue') /\ UNCHANGED downloaded
    BY <1>5, <1>8 DEF RetryItem, Status
  <2>2. Lifecycle!Move({queue[i].chapter : i \in {id}}, {"ABSENT", "FAILED"}, "PENDING")
    BY <2>1 DEF Lifecycle!Move
  <2>3. QED
    BY <2>1, <2>2 DEF AbstractStep, Lifecycle!Next, Lifecycle!Queue
<1>9. ASSUME NEW s \in Sources, RetryFailedItems(s) PROVE Goal
  <2> DEFINE ids == RowsFrom(queue, s) \cap WithStatus(queue, {"FAILED"})
  <2>1. /\ ids \in SUBSET DOMAIN queue /\ \A i \in ids : queue[i].status \in {"ABSENT", "FAILED"}
        /\ queue' = SetStatus(queue, ids, "PENDING") /\ UNCHANGED downloaded
    BY <1>9 DEF RetryFailedItems, RowsFrom, WithStatus
  <2> HIDE DEF ids
  <2>2. /\ Lifecycle!Move({queue[i].chapter : i \in ids}, {"ABSENT", "FAILED"}, "PENDING")
        /\ {queue[i].chapter : i \in ids} \in SUBSET Chapters
        /\ OneRow(queue')
    BY <1>2, <2>1 DEF Status
  <2>3. QED
    BY <2>1, <2>2 DEF AbstractStep, Lifecycle!Next, Lifecycle!Queue
<1>10. ASSUME (\E id \in DOMAIN queue : Cancel(id)) \/ CancelAll PROVE Goal
  <2>1. PICK ids \in SUBSET DOMAIN queue : queue' = Without(queue, ids)
    BY <1>10 DEF Cancel, CancelAll, CancelRows
  <2>2. UNCHANGED downloaded
    BY <1>10 DEF Cancel, CancelAll, CancelRows
  <2>3. QED
    BY <1>3, <2>1, <2>2 DEF AbstractStep, Lifecycle!Next, Lifecycle!Cancel
<1>11. ASSUME NEW s \in Sources, RetireChapters(s) PROVE Goal
  <2> DEFINE retired == {c \in library : SourceOf[c] = s}
             gone == {i \in DOMAIN queue : queue[i].chapter \in retired}
  <2>1. /\ downloaded' = downloaded \ retired /\ queue' = Without(queue, gone)
        /\ gone \in SUBSET DOMAIN queue /\ retired \in SUBSET Chapters
    BY <1>11 DEF RetireChapters, TypeInv, TypeOK, TableOK
  <2> DEFINE cs == {queue[i].chapter : i \in gone}
  <2>2. OneRow(queue') /\ Moved(queue, queue', cs, Lifecycle!EntryState, "ABSENT")
    <3>1. \A i \in gone : queue[i].status \in Lifecycle!EntryState
      BY <1>t DEF Table, Row, Status, Lifecycle!EntryState
    <3> HIDE DEF gone
    <3>2. QED
      BY <1>t, <2>1, <3>1, DeleteMoves, SMTT(30)
  <2>3. \A c \in retired : EntryIn(queue', c) = "ABSENT" /\ (c \in cs \/ EntryIn(queue, c) = "ABSENT")
    <3> SUFFICES ASSUME NEW c \in retired
                 PROVE  EntryIn(queue', c) = "ABSENT" /\ (c \in cs \/ EntryIn(queue, c) = "ABSENT")
      OBVIOUS
    <3>1. CASE RowsOf(queue, c) = {}
      <4>1. EntryIn(queue, c) = "ABSENT"
        BY <3>1 DEF EntryIn
      <4>2. QED
        BY <2>1, <2>2, <4>1 DEF Moved
    <3>2. ASSUME NEW i \in RowsOf(queue, c) PROVE c \in cs
      BY <3>2 DEF RowsOf
    <3>3. QED
      BY <2>1, <2>2, <3>1, <3>2 DEF Moved
  <2>4. cs \subseteq retired
    OBVIOUS
  <2>5. Moved(queue, queue', retired, Lifecycle!EntryState, "ABSENT")
    <3>1. "ABSENT" \in Lifecycle!EntryState
      BY DEF Lifecycle!EntryState
    <3> HIDE DEF retired, cs
    <3>2. QED
      BY <2>1, <2>2, <2>3, <2>4, <3>1 DEF Moved
  <2> HIDE DEF retired
  <2>6. QED
    BY <2>1, <2>2, <2>5, MoveImplemented DEF AbstractStep, Lifecycle!Next, Lifecycle!Retire
<1>12. ASSUME NEW ids \in SUBSET DOMAIN queue, NEW rank \in Ranks(ids), Reorder(rank) PROVE Goal
  <2>1. /\ DOMAIN queue' = DOMAIN queue /\ UNCHANGED downloaded
        /\ \A id \in DOMAIN queue : queue'[id].chapter = queue[id].chapter /\ queue'[id].status = queue[id].status
    BY <1>t, <1>12 DEF Reorder, SetOrder, Table, Row
  <2>2. OneRow(queue')
    BY <2>1 DEF OneRow
  <2>3. \A c : EntryIn(queue', c) = EntryIn(queue, c)
    BY <2>1, <2>2, SameEntries
  <2>4. QED
    BY <2>1, <2>2, <2>3, NothingMoved
<1>13. CASE PauseAll \/ ResumeAll \/ \E s \in Sources : PauseSource(s) \/ ResumeSource(s)
  BY <1>1, <1>13 DEF PauseAll, ResumeAll, PauseSource, ResumeSource, tableVars
<1>14. QED
  BY <1>4, <1>6, <1>7, <1>8, <1>9, <1>10, <1>11, <1>12, <1>13 DEF UserCommand

\* The rest of a handler and a restart put chapters back; a crash moves none.
LEMMA OthersImplement ==
    ASSUME TypeInv, OneRow(queue), HandlerStep \/ Crash \/ Restart
    PROVE  AbstractStep /\ OneRow(queue')
<1>t. Table(queue)
  BY DEF TypeInv, TypeOK, TableOK, Table
<1>1. CASE YieldSuperseded \/ Restart
  <2>1. PICK ids \in SUBSET WithStatus(queue, {"DOWNLOADING"}) : queue' = SetStatus(queue, ids, "PENDING")
    BY <1>1 DEF YieldSuperseded, Restart, Superseded
  <2>2. ids \in SUBSET DOMAIN queue /\ \A i \in ids : queue[i].status \in {"DOWNLOADING"}
    BY DEF WithStatus
  <2>3. OneRow(queue') /\ Moved(queue, queue', {queue[i].chapter : i \in ids}, {"DOWNLOADING"}, "PENDING")
    BY <1>t, <2>1, <2>2, StatusMoves DEF Status
  <2>4. UNCHANGED downloaded
    BY <1>1 DEF YieldSuperseded, Restart
  <2>5. QED
    BY <2>3, <2>4, MoveImplemented DEF AbstractStep, Lifecycle!Next, Lifecycle!PutBack
<1>2. CASE UNCHANGED <<queue, downloaded>>
  BY <1>2, NothingMoved
<1>3. QED
  BY <1>1, <1>2 DEF HandlerStep, DiscardCanceled, Crash, tableVars

\* A worker adds no row and gives none another chapter.
LEMMA WorkerOneRow ==
    ASSUME TypeInv, OneRow(queue), NEW w \in Workers, WorkerStep(w)
    PROVE  OneRow(queue')
BY WorkerRows DEF RowsKept, OneRow

-----------------------------------------------------------------------------
\* The queue implements the lifecycle of a chapter: whatever workers, handlers, crashes and
\* restarts do to the rows, a chapter's entry moves only as ChapterLifecycle allows, and it
\* becomes downloaded only in the step that takes it out of flight and off the queue.
THEOREM LifecycleImplemented == Spec => ImplementsLifecycle
<1> DEFINE LifeInv == TypeInv /\ OneRow(queue)
<1>1. Init => LifeInv
  BY InitTypes DEF Init, OneRow
<1>2. LifeInv /\ [Next]_vars => LifeInv' /\ [Lifecycle!Next]_(Lifecycle!lifeVars)
  <2> SUFFICES ASSUME LifeInv, [Next]_vars
               PROVE  LifeInv' /\ [Lifecycle!Next]_(Lifecycle!lifeVars)
    OBVIOUS
  <2>1. TypeInv'
    BY WorkerTypes, CommandTypes, OtherTypes, StutterTypes DEF Next
  <2>2. CASE \E w \in Workers : WorkerStep(w)
    BY <2>1, <2>2, WorkerImplements, WorkerOneRow DEF AbstractStep
  <2>3. CASE UserCommand
    BY <2>1, <2>3, CommandImplements DEF AbstractStep
  <2>4. CASE HandlerStep \/ Crash \/ Restart
    BY <2>1, <2>4, OthersImplement DEF AbstractStep
  <2>5. CASE UNCHANGED vars
    <3>1. UNCHANGED <<queue, downloaded>>
      BY <2>5 DEF vars, tableVars
    <3>2. AbstractStep
      BY <3>1, NothingMoved
    <3>3. OneRow(queue')
      BY <3>1
    <3>4. QED
      BY <2>1, <3>2, <3>3 DEF AbstractStep
  <2>6. QED
    BY <2>2, <2>3, <2>4, <2>5 DEF Next
<1>3. Init => Lifecycle!Init
  BY DEF Init, Lifecycle!Init, EntryOf, RowsOf
<1>4. QED
  BY <1>1, <1>2, <1>3, PTL DEF Spec, ImplementsLifecycle, Lifecycle!LifecycleSpec

-----------------------------------------------------------------------------
(* No archive is left behind                                               *)

\* A worker between the file it wrote and its registration, or its removal.
Registering(w, c) == pc[w] \in {"register", "unregister"} /\ job[w].chapter = c

LEMMA WorkerKeepsArchives ==
    ASSUME TypeInv, Format = "cbz", NoOrphanedArchive, NEW w \in Workers, WorkerStep(w)
    PROVE  NoOrphanedArchive'
<1>t. /\ pc \in [Workers -> Labels] /\ job \in [Workers -> Job] /\ job[w] \in Job
      /\ archive \in [Paths -> Chapters \cup {None, Removed}] /\ library \subseteq Chapters
  BY DEF TypeInv, TypeOK, WorkersOK, FilesOK, TableOK
<1> SUFFICES ASSUME crashes' = 0, NEW c \in library', archive'[PathOf[c]] = c
             PROVE  c \in downloaded' \/ \E v \in Workers : Registering(v, c)'
  BY DEF NoOrphanedArchive, Registering
<1>0. /\ crashes = 0 /\ library' = library /\ c \in library /\ c \in Chapters
      /\ \A v \in Workers \ {w} : pc'[v] = pc[v] /\ job'[v] = job[v]
  <2>1. crashes' = crashes
    BY DEF WorkerStep, metaVars
  <2>2. library' = library
    BY DEF WorkerStep, ResolveGates, Claim, ReadItem, OpenItem, RecordProgress, NextPage, Boundary, Discard,
           Release, FetchPage, SavePages, WriteArchive, Replace, Complete, RemoveArtifact, Cleanup, Fail, tableVars
  <2>3. QED
    BY <1>t, <2>1, <2>2, WorkerLocal
<1>1. ASSUME downloaded \subseteq downloaded', archive'[PathOf[c]] = archive[PathOf[c]],
             Registering(w, c) => c \in downloaded' \/ Registering(w, c)'
      PROVE  c \in downloaded' \/ \E v \in Workers : Registering(v, c)'
  <2>1. c \in downloaded \/ \E v \in Workers : Registering(v, c)
    BY <1>0, <1>1 DEF NoOrphanedArchive, Registering
  <2>2. ASSUME NEW v \in Workers \ {w}, Registering(v, c) PROVE Registering(v, c)'
    BY <1>0, <2>2 DEF Registering
  <2>3. QED
    BY <1>1, <2>1, <2>2
<1>2. CASE WriteArchive(w) \/ Replace(w)
  <2>a. UNCHANGED <<downloaded, job>> /\ pc[w] \in {"archive", "replace"}
    BY <1>2 DEF WriteArchive, Replace, tableVars
  <2>1. CASE UNCHANGED archive \/ archive' = [archive EXCEPT ![PathOf[job[w].chapter]] = Removed]
    <3>1. PathOf[c] \in Paths /\ c # Removed
      BY <1>0
    <3>2. archive'[PathOf[c]] = archive[PathOf[c]]
      BY <1>t, <2>1, <3>1
    <3>3. QED
      BY <1>1, <2>a, <3>2 DEF Registering
  <2>2. CASE PutAt(w) /\ Goto(w, "register")
    <3>2. CASE job[w].chapter = c
      <4>1. Registering(w, c)'
        BY <1>t, <2>2, <2>a, <3>2 DEF Registering, Goto
      <4>2. QED
        BY <4>1
    <3>3. CASE job[w].chapter # c
      <4>1. PathOf[c] \in Paths
        BY <1>0
      <4>2. archive'[PathOf[c]] = archive[PathOf[c]]
        BY <1>t, <2>2, <3>3, <4>1 DEF PutAt
      <4>3. QED
        BY <1>1, <2>a, <4>2 DEF Registering
    <3>4. QED
      BY <3>2, <3>3
  <2>3. QED
    BY <1>2, <2>1, <2>2 DEF WriteArchive, Replace
<1>3. CASE Complete(w)
  <2>1. archive' = archive /\ job' = job /\ pc[w] = "register"
    BY <1>3 DEF Complete, fileVars
  <2>2. \/ downloaded' = downloaded /\ pc'[w] = "unregister"
        \/ downloaded' = downloaded \cup {job[w].chapter}
    BY <1>3, <1>t DEF Complete, Goto
  <2>3. QED
    BY <1>1, <2>1, <2>2 DEF Registering
<1>4. CASE RemoveArtifact(w)
  <2>1. /\ archive' = [p \in Paths |-> IF p = PathOf[job[w].chapter] THEN None ELSE archive[p]]
        /\ UNCHANGED downloaded
    BY <1>4 DEF RemoveArtifact, RemoveFile, tableVars
  <2>2. PathOf[c] \in Paths /\ c # None
    BY <1>0
  <2>3. PathOf[c] # PathOf[job[w].chapter] /\ archive'[PathOf[c]] = archive[PathOf[c]]
    BY <2>1, <2>2
  <2>4. ~Registering(w, c)
    BY <2>3 DEF Registering
  <2>5. QED
    BY <1>1, <2>1, <2>3, <2>4
<1>5. CASE ~(WriteArchive(w) \/ Replace(w) \/ Complete(w) \/ RemoveArtifact(w))
  <2>1. UNCHANGED <<downloaded, archive>>
    BY <1>5 DEF WorkerStep, ResolveGates, Claim, ReadItem, OpenItem, RecordProgress, NextPage, Boundary, Discard,
                RemoveStaged, Release, FetchPage, SavePages, Cleanup, Fail, tableVars, fileVars
  <2>2. pc[w] \notin {"register", "unregister"}
    BY <1>5 DEF WorkerStep, ResolveGates, Claim, ReadItem, OpenItem, RecordProgress, NextPage, Boundary, Discard,
                Release, FetchPage, SavePages, Cleanup, Fail, Checks
  <2>3. QED
    BY <1>1, <2>1, <2>2 DEF Registering
<1>6. QED
  BY <1>2, <1>3, <1>4, <1>5

\* A command, the rest of a handler and a restart write no file, and what stops being
\* downloaded leaves the library.
LEMMA OthersKeepArchives ==
    ASSUME TypeInv, NoOrphanedArchive, UserCommand \/ HandlerStep \/ Crash \/ Restart
    PROVE  NoOrphanedArchive'
<1>t. archive \in [Paths -> Chapters \cup {None, Removed}] /\ library \subseteq Chapters /\ crashes \in Nat
  BY DEF TypeInv, TypeOK, FilesOK, TableOK, MetaOK
<1>1. CASE Crash
  <2>1. crashes' # 0
    BY <1>1, <1>t DEF Crash
  <2>2. QED
    BY <2>1 DEF NoOrphanedArchive
<1>2. ASSUME UNCHANGED <<workerVars, crashes>>, library' \subseteq library,
             downloaded \cap library' \subseteq downloaded',
             \A c \in library' : archive'[PathOf[c]] = c => archive[PathOf[c]] = c
      PROVE  NoOrphanedArchive'
  BY <1>2 DEF NoOrphanedArchive, workerVars
<1>3. ASSUME NEW s \in Sources, RetireChapters(s) PROVE NoOrphanedArchive'
  <2>1. /\ UNCHANGED <<workerVars, crashes>> /\ library' \subseteq library
        /\ downloaded \cap library' \subseteq downloaded'
        /\ archive' = archive \/ \E ps : RemoveFile(ps)
    BY <1>3 DEF RetireChapters, Command
  <2>2. ASSUME NEW c \in library', archive'[PathOf[c]] = c PROVE archive[PathOf[c]] = c
    <3>1. PathOf[c] \in Paths /\ c # None
      BY <1>t, <2>1
    <3>2. QED
      BY <2>1, <2>2, <3>1 DEF RemoveFile
  <2>3. QED
    BY <1>2, <2>1, <2>2
<1>4. CASE UserCommand /\ ~\E s \in Sources : RetireChapters(s)
  <2>1. UNCHANGED <<workerVars, crashes, library, downloaded, archive>>
    BY <1>4 DEF UserCommand, EnqueueChapter, PauseItem, ResumeItem, RetryItem, Transition, Cancel, CancelAll,
                CancelRows, RetryFailedItems, PauseSource, ResumeSource, PauseAll, ResumeAll, Reorder, Command,
                tableVars, fileVars
  <2>2. QED
    BY <1>2, <2>1
<1>5. CASE HandlerStep \/ Restart
  <2>1. UNCHANGED <<workerVars, crashes, library, downloaded, archive>>
    BY <1>5 DEF HandlerStep, YieldSuperseded, DiscardCanceled, Restart, tableVars, fileVars, metaVars
  <2>2. QED
    BY <1>2, <2>1
<1>6. QED
  BY <1>1, <1>3, <1>4, <1>5

\* Without a crash, a file at a chapter's path is the chapter's registered archive, or its
\* writer is about to register or to remove it: for archives that are one file.  The
\* directory of the "folder" format stays when its completion is refused, since os.Remove
\* does not remove a directory with files in it.
THEOREM NoArchiveOrphaned ==
    ASSUME Format = "cbz"
    PROVE  Spec => []NoOrphanedArchive
<1>1. Init => NoOrphanedArchive
  BY DEF Init, NoOrphanedArchive, TypeInv
<1>2. TypeInv /\ NoOrphanedArchive /\ [Next]_vars => NoOrphanedArchive'
  <2> SUFFICES ASSUME TypeInv, NoOrphanedArchive, [Next]_vars PROVE NoOrphanedArchive'
    OBVIOUS
  <2>1. CASE UNCHANGED vars
    BY <2>1 DEF vars, tableVars, fileVars, workerVars, metaVars, NoOrphanedArchive
  <2>2. QED
    BY <2>1, WorkerKeepsArchives, OthersKeepArchives DEF Next
<1>3. QED
  BY <1>1, <1>2, TypeInvariant, PTL DEF Spec

-----------------------------------------------------------------------------
(***************************************************************************)
(* What the downloader guarantees only as long as some of the commands are *)
(* not used.  The three invariants the run "steady" checks fail when the   *)
(* user takes a row away from the worker that holds it; the theorems name  *)
(* the commands each of them cannot survive and prove it for all others,   *)
(* for every number of workers, chapters, sources, commands and crashes.   *)
(***************************************************************************)

-----------------------------------------------------------------------------
(* What every command leaves true                                          *)

\* A chapter has one row, a worker knows the chapter of its row, a worker that lives is one
\* of a daemon that runs, and a worker about to remove the staged pages of a finished row
\* holds an id that is gone.
Base == /\ TypeInv /\ OneRow(queue) /\ ChapterKnown /\ NoAbandonedDownload
        /\ ~up => ~yieldDue /\ \A w \in Workers : pc[w] = "idle"
        /\ \A w \in Workers : pc[w] = "cleanup" => job[w].id \notin DOMAIN queue

\* A failed chapter queued again waits with what its row has recorded.
LEMMA RequeuedRows ==
    ASSUME NEW q, Table(q), NEW c, NEW p
    PROVE  /\ DOMAIN RequeueFailed(q, c, p) = DOMAIN q
           /\ \A i \in DOMAIN q :
                 /\ RequeueFailed(q, c, p)[i].done = q[i].done
                 /\ \/ RequeueFailed(q, c, p)[i] = q[i]
                    \/ q[i].status = "FAILED" /\ RequeueFailed(q, c, p)[i].status = "PENDING"
<1>1. SUFFICES ASSUME NEW i \in DOMAIN q
               PROVE  /\ RequeueFailed(q, c, p)[i].done = q[i].done
                      /\ \/ RequeueFailed(q, c, p)[i] = q[i]
                         \/ q[i].status = "FAILED" /\ RequeueFailed(q, c, p)[i].status = "PENDING"
  BY DEF RequeueFailed
<1>2. q[i] \in Row
  BY DEF Table
<1>3. RequeueFailed(q, c, p)[i] = IF q[i].chapter = c /\ q[i].status = "FAILED"
                                  THEN [q[i] EXCEPT !.status = "PENDING", !.position = p,
                                                    !.total = 0, !.downloaded = 0]
                                  ELSE q[i]
  BY DEF RequeueFailed
<1>4. QED
  BY <1>2, <1>3 DEF Row

\* A worker whose completion went through holds an id that is gone.
LEMMA CompletedIsGone ==
    ASSUME TypeInv, OneRow(queue), ChapterKnown, NEW w \in Workers, WorkerStep(w), pc'[w] = "cleanup"
    PROVE  job'[w].id \notin DOMAIN queue'
<1>t. Table(queue) /\ pc \in [Workers -> Labels] /\ job \in [Workers -> Job]
  BY DEF TypeInv, TypeOK, TableOK, WorkersOK, Table
<1>1. CASE ~Complete(w)
  <2>1. CASE Boundary(w)
    <3>1. pc[w] \in Checks /\ (Leave(w) \/ Goto(w, "discard") \/ Goto(w, "release") \/ Goto(w, Proceed[pc[w]]))
      BY <2>1 DEF Boundary
    <3>2. Proceed[pc[w]] # "cleanup"
      BY <3>1 DEF Proceed, Checks
    <3>3. QED
      BY <1>t, <3>1, <3>2 DEF Goto, Leave
  <2>2. CASE ResolveGates(w) \/ Claim(w) \/ ReadItem(w) \/ OpenItem(w) \/ RecordProgress(w) \/ NextPage(w)
    BY <1>t, <2>2 DEF ResolveGates, Claim, ReadItem, OpenItem, RecordProgress, NextPage, Goto, Leave
  <2>3. CASE Discard(w) \/ Release(w) \/ FetchPage(w) \/ SavePages(w) \/ WriteArchive(w)
             \/ Replace(w) \/ RemoveArtifact(w)
             \/ Cleanup(w) \/ Fail(w)
    BY <1>t, <2>3 DEF Discard, Release, FetchPage, SavePages, WriteArchive, Replace, RemoveArtifact, Cleanup, Fail,
                     Goto, Leave
  <2>4. QED
    BY <1>1, <2>1, <2>2, <2>3 DEF WorkerStep
<1>2. CASE Complete(w)
  <2>1. /\ queue' = Without(queue, CompletedRows(job[w].chapter)) /\ job' = job /\ pc[w] = "register"
        /\ CompletedRows(job[w].chapter) # {}
    BY <1>2, <1>t DEF Complete, Goto
  <2>2. PICK r \in CompletedRows(job[w].chapter) : TRUE
    BY <2>1
  <2>3. r \in DOMAIN queue /\ queue[r].chapter = job[w].chapter
    BY <2>2 DEF CompletedRows, RowsOf
  <2>4. job[w].id \in DOMAIN queue => job[w].id = r
    BY <2>1, <2>3 DEF ChapterKnown, Working, Labels, OneRow
  <2>5. QED
    <3>1. DOMAIN queue' = DOMAIN queue \ CompletedRows(job[w].chapter)
      BY <2>1 DEF Without, Restrict
    <3>2. QED
      BY <2>1, <2>2, <2>4, <3>1
<1>3. QED
  BY <1>1, <1>2

\* Base holds throughout, whatever the commands.
LEMMA BaseHolds == Spec => []Base
<1>1. Init => Base
  <2> SUFFICES ASSUME Init PROVE Base
    OBVIOUS
  <2>1. TypeInv
    BY InitTypes
  <2>2. OneRow(queue) /\ up /\ \A w \in Workers : pc[w] = "idle"
    BY DEF Init, OneRow
  <2>3. ChapterKnown /\ NoAbandonedDownload
    BY DEF Init, ChapterKnown, NoAbandonedDownload, Working, WithStatus
  <2>4. QED
    BY <2>1, <2>2, <2>3 DEF Base
<1>2. Base /\ [Next]_vars => Base'
  <2> SUFFICES ASSUME Base, [Next]_vars PROVE Base'
    OBVIOUS
  <2>t. TypeInv /\ TypeInv'
    BY WorkerTypes, CommandTypes, OtherTypes, StutterTypes DEF Next, Base
  <2> DEFINE Rest == /\ ~up' => ~yieldDue' /\ \A w \in Workers : pc'[w] = "idle"
                     /\ \A w \in Workers : pc'[w] = "cleanup" => job'[w].id \notin DOMAIN queue'
  <2>1. ASSUME NEW w \in Workers, WorkerStep(w) PROVE Base'
    <3>1. OneRow(queue') /\ ChapterKnown' /\ NoAbandonedDownload'
      BY <2>1, WorkerOneRow, WorkerKeepsFlight DEF Base
    <3>2. ~up' => ~yieldDue' /\ \A v \in Workers : pc'[v] = "idle"
      BY <2>1 DEF WorkerStep, metaVars
    <3>3. DOMAIN queue' \subseteq DOMAIN queue
      BY <2>1, <2>t, WorkerRows DEF RowsKept
    <3>4. ASSUME NEW v \in Workers, pc'[v] = "cleanup" PROVE job'[v].id \notin DOMAIN queue'
      <4>1. CASE v = w
        BY <2>1, <3>4, <4>1, CompletedIsGone DEF Base
      <4>2. CASE v # w
        BY <2>1, <2>t, <3>3, <3>4, <4>2, WorkerLocal DEF Base
      <4>3. QED
        BY <4>1, <4>2
    <3>5. QED
      BY <2>t, <3>1, <3>2, <3>4 DEF Base
  <2>2. CASE UserCommand
    <3>1. OneRow(queue') /\ ChapterKnown' /\ NoAbandonedDownload'
      BY <2>2, CommandImplements, CommandRows, OthersKeepFlight DEF Base
    <3>2. UNCHANGED workerVars /\ up /\ up' = up
      BY <2>2 DEF UserCommand, EnqueueChapter, PauseItem, ResumeItem, RetryItem, Transition, Cancel,
             CancelAll, CancelRows, RetryFailedItems, PauseSource, ResumeSource, RetireChapters,
             PauseAll, ResumeAll, Reorder, Command
    <3>3. ASSUME NEW v \in Workers, pc'[v] = "cleanup" PROVE job'[v].id \notin DOMAIN queue'
      <4>1. job[v].id \in 1 .. lastId /\ job'[v] = job[v] /\ pc[v] = "cleanup"
        BY <2>t, <3>2, <3>3 DEF TypeInv, JobIds, workerVars
      <4>2. QED
        BY <2>2, <2>t, <4>1, CommandRows DEF Base
    <3>4. QED
      BY <2>t, <3>1, <3>2, <3>3 DEF Base
  <2>3. CASE HandlerStep \/ Crash \/ Restart
    <3>1. OneRow(queue') /\ ChapterKnown' /\ NoAbandonedDownload'
      BY <2>3, OthersImplement, OtherStepsKeepFlight DEF Base
    <3>2. DOMAIN queue' \subseteq DOMAIN queue
      BY <2>3, <2>t, OtherRows DEF RowsKept
    <3>3. CASE HandlerStep \/ Restart
      <4>1. UNCHANGED workerVars /\ up'
        <5>1. CASE Restart
          BY <5>1 DEF Restart
        <5>2. CASE YieldSuperseded
          BY <5>2 DEF YieldSuperseded, metaVars
        <5>3. ASSUME NEW id \in discards, DiscardCanceled(id) PROVE UNCHANGED workerVars /\ up'
          BY <5>3 DEF DiscardCanceled, metaVars
        <5>4. QED
          BY <3>3, <5>1, <5>2, <5>3 DEF HandlerStep
      <4>2. QED
        BY <2>t, <3>1, <3>2, <4>1 DEF Base, workerVars
    <3>4. CASE Crash
      <4>1. ~yieldDue' /\ \A v \in Workers : pc'[v] = "idle"
        BY <3>4 DEF Crash
      <4>2. QED
        BY <2>t, <3>1, <4>1 DEF Base
    <3>5. QED
      BY <2>3, <3>3, <3>4
  <2>4. CASE UNCHANGED vars
    BY <2>4, <2>t DEF Base, vars, tableVars, workerVars, metaVars, apiVars, OneRow, ChapterKnown,
                      NoAbandonedDownload, WorksOn
  <2>5. QED
    BY <2>1, <2>2, <2>3, <2>4 DEF Next
<1>3. QED
  BY <1>1, <1>2, PTL DEF Spec

-----------------------------------------------------------------------------
(* One worker a row, and the claim gates                                   *)

\* No row a worker works on is pending or failed, so no other worker can claim it: each row
\* has one worker.
Apart == /\ ~yieldDue
         /\ \A w \in Workers : pc[w] \in Working /\ job[w].id \in DOMAIN queue =>
               queue[job[w].id].status \in {"DOWNLOADING", "PAUSED"}
         /\ \A v, w \in Workers : pc[v] \in Working /\ pc[w] \in Working /\ job[v].id = job[w].id => v = w

\* What a worker's step does to its place and to the status of the rows: it stays on its row
\* or claims a pending one that passes the gates, and it changes no other row.
OnItsRow(w) == /\ pc'[w] \in Working => pc[w] \in Working /\ job'[w].id = job[w].id
               /\ \A id \in DOMAIN queue' :
                     \/ queue'[id].status = queue[id].status
                     \/ /\ id = job[w].id /\ pc[w] \in Working
                        /\ \/ pc'[w] \notin Working /\ queue'[id].status \in {"PENDING", "FAILED"}
                           \/ queue'[id].status = "DOWNLOADING"

Claims(w) == \E id \in Claimable(queue, held[w]) :
                /\ pc[w] \notin Working /\ job'[w].id = id /\ pc'[w] \in Working
                /\ DOMAIN queue' = DOMAIN queue /\ queue'[id].status = "DOWNLOADING"
                /\ \A i \in DOMAIN queue : i # id => queue'[i] = queue[i]

LEMMA WorkerClaimsOrStays ==
    ASSUME TypeInv, NEW w \in Workers, WorkerStep(w)
    PROVE  OnItsRow(w) \/ Claims(w)
<1>t. Table(queue) /\ pc \in [Workers -> Labels] /\ job \in [Workers -> Job] /\ job[w] \in Job
  BY DEF TypeInv, TypeOK, TableOK, WorkersOK, Table
<1>1. CASE Claim(w)
  <2>1. CASE Leave(w) /\ UNCHANGED queue
    BY <1>t, <2>1 DEF Leave, Goto, Working, OnItsRow
  <2>2. ASSUME NEW id \in Heads(queue, held[w]), queue' = SetStatus(queue, {id}, "DOWNLOADING"),
               job' = [job EXCEPT ![w].id = id], Goto(w, "read")
        PROVE  Claims(w)
    <3>1. id \in Claimable(queue, held[w]) /\ id \in DOMAIN queue
      BY DEF Heads, Claimable, WithStatus
    <3>2. job'[w].id = id /\ pc'[w] \in Working
      BY <1>t, <2>2 DEF Goto, Working, Labels, Job
    <3>3. pc[w] \notin Working
      BY <1>1 DEF Claim, Working
    <3>4. /\ DOMAIN queue' = DOMAIN queue /\ queue'[id].status = "DOWNLOADING"
          /\ \A i \in DOMAIN queue : i # id => queue'[i] = queue[i]
      BY <1>t, <2>2, <3>1, SetStatusTable DEF Status
    <3>5. QED
      BY <3>1, <3>2, <3>3, <3>4 DEF Claims
  <2>3. QED
    BY <1>1, <2>1, <2>2 DEF Claim
<1>2. CASE ResolveGates(w) \/ ReadItem(w) \/ Discard(w) \/ Cleanup(w)
  <2>1. UNCHANGED queue
    BY <1>2 DEF ResolveGates, ReadItem, Discard, Cleanup, tableVars
  <2>2. pc'[w] \in Working => pc[w] \in Working /\ job'[w].id = job[w].id
    BY <1>2, <1>t DEF ResolveGates, ReadItem, Discard, Cleanup, Goto, Leave, Working, Labels, Job
  <2>3. QED
    BY <2>1, <2>2 DEF OnItsRow
<1>3. CASE OpenItem(w) \/ NextPage(w) \/ FetchPage(w) \/ WriteArchive(w) \/ Replace(w)
           \/ RemoveArtifact(w) \/ Boundary(w)
  <2>1. UNCHANGED queue /\ pc[w] \in Working
    BY <1>3 DEF OpenItem, NextPage, FetchPage, WriteArchive, Replace, RemoveArtifact, Boundary, tableVars, Working,
                Labels, Checks
  <2>2. CASE Boundary(w)
    <3>1. UNCHANGED job \/ Leave(w)
      BY <2>2 DEF Boundary
    <3>2. QED
      BY <1>t, <2>1, <3>1 DEF Leave, Goto, Working, OnItsRow
  <2>3. CASE ~Boundary(w)
    <3>1. job'[w].id = job[w].id
      BY <1>3, <1>t, <2>3 DEF OpenItem, NextPage, FetchPage, WriteArchive, Replace, RemoveArtifact, Job
    <3>2. QED
      BY <2>1, <3>1 DEF OnItsRow
  <2>4. QED
    BY <2>2, <2>3
<1>4. CASE RecordProgress(w) \/ SavePages(w)
  <2>1. UNCHANGED job /\ pc[w] \in Working
    BY <1>4 DEF RecordProgress, SavePages, Working, Labels
  <2>2. CASE UNCHANGED queue
    BY <2>1, <2>2 DEF OnItsRow
  <2>3. CASE queue' = UpdateProgress(queue, job[w].id, job[w].pages, job[w].done)
    <3>1. \A id \in DOMAIN queue' : IF id = job[w].id THEN queue'[id].status = "DOWNLOADING"
                                    ELSE queue'[id] = queue[id]
      BY <1>t, <2>3 DEF UpdateProgress, Table, Row
    <3>2. QED
      BY <2>1, <3>1 DEF OnItsRow
  <2>4. CASE queue' = SaveDone(queue, job[w].id, job[w].done)
    <3>1. \A id \in DOMAIN queue' : queue'[id].status = queue[id].status
      BY <1>t, <2>4 DEF SaveDone, Table, Row
    <3>2. QED
      BY <2>1, <3>1 DEF OnItsRow
  <2>5. QED
    BY <1>4, <2>2, <2>3, <2>4 DEF RecordProgress, SavePages
<1>5. ASSUME NEW st \in {"PENDING", "FAILED"}, Leave(w), pc[w] \in Working,
             queue' = SetStatus(queue, {job[w].id} \cap WithStatus(queue, {"DOWNLOADING"}), st)
      PROVE  OnItsRow(w)
  <2>1. pc'[w] \notin Working
    BY <1>t, <1>5 DEF Leave, Goto, Working
  <2>2. \A id \in DOMAIN queue' : \/ queue'[id].status = queue[id].status
                                  \/ id = job[w].id /\ queue'[id].status = st
    BY <1>t, <1>5, SetStatusTable DEF Status
  <2>3. QED
    BY <1>5, <2>1, <2>2 DEF OnItsRow
<1>6. CASE Release(w) \/ Fail(w)
  BY <1>5, <1>6 DEF Release, Fail, Working, Labels
<1>7. CASE Complete(w)
  <2>1. UNCHANGED job /\ pc[w] \in Working
    BY <1>7 DEF Complete, Working, Labels
  <2>2. \A id \in DOMAIN queue' : queue'[id].status = queue[id].status
    BY <1>t, <1>7 DEF Complete, Without, Restrict
  <2>3. QED
    BY <2>1, <2>2 DEF OnItsRow
<1>8. QED
  BY <1>1, <1>2, <1>3, <1>4, <1>6, <1>7 DEF WorkerStep

\* A worker's step leaves each row with one worker.
LEMMA WorkerApart ==
    ASSUME TypeInv, Apart, NEW w \in Workers, WorkerStep(w)
    PROVE  Apart'
<1>1. /\ DOMAIN queue' \subseteq DOMAIN queue /\ ~yieldDue'
      /\ \A v \in Workers \ {w} : pc'[v] = pc[v] /\ job'[v] = job[v]
  <2>1. UNCHANGED yieldDue
    BY DEF WorkerStep, ResolveGates, Claim, ReadItem, OpenItem, RecordProgress, NextPage, Boundary, Discard,
           Release, FetchPage, SavePages, WriteArchive, Replace, Complete, RemoveArtifact, Cleanup, Fail, apiVars
  <2>2. QED
    BY <2>1, WorkerRows, WorkerLocal DEF RowsKept, Apart
<1>2. CASE OnItsRow(w)
  <2>1. ASSUME NEW v \in Workers, pc'[v] \in Working, job'[v].id \in DOMAIN queue'
        PROVE  queue'[job'[v].id].status \in {"DOWNLOADING", "PAUSED"}
    <3>1. pc[v] \in Working /\ job'[v].id = job[v].id /\ job[v].id \in DOMAIN queue
      BY <1>1, <1>2, <2>1 DEF OnItsRow
    <3>2. queue[job[v].id].status \in {"DOWNLOADING", "PAUSED"}
      BY <3>1 DEF Apart
    <3>3. job[v].id = job[w].id /\ pc[w] \in Working => v = w
      BY <3>1 DEF Apart
    <3>4. QED
      BY <1>2, <2>1, <3>1, <3>2, <3>3 DEF OnItsRow
  <2>2. ASSUME NEW v \in Workers, NEW u \in Workers, pc'[v] \in Working, pc'[u] \in Working,
               job'[v].id = job'[u].id
        PROVE  v = u
    BY <1>1, <1>2, <2>2 DEF OnItsRow, Apart
  <2>3. QED
    BY <1>1, <2>1, <2>2 DEF Apart
<1>3. CASE Claims(w)
  <2>1. PICK id \in Claimable(queue, held[w]) :
           /\ pc[w] \notin Working /\ job'[w].id = id /\ pc'[w] \in Working
           /\ DOMAIN queue' = DOMAIN queue /\ queue'[id].status = "DOWNLOADING"
           /\ \A i \in DOMAIN queue : i # id => queue'[i] = queue[i]
    BY <1>3 DEF Claims
  <2>2. id \in DOMAIN queue /\ queue[id].status = "PENDING"
    BY <2>1 DEF Claimable, WithStatus
  <2>3. \A v \in Workers \ {w} : pc'[v] \in Working => job'[v].id # id
    BY <1>1, <2>2 DEF Apart
  <2>4. ASSUME NEW v \in Workers, pc'[v] \in Working, job'[v].id \in DOMAIN queue'
        PROVE  queue'[job'[v].id].status \in {"DOWNLOADING", "PAUSED"}
    BY <1>1, <2>1, <2>3, <2>4 DEF Apart
  <2>5. ASSUME NEW v \in Workers, NEW u \in Workers, pc'[v] \in Working, pc'[u] \in Working,
               job'[v].id = job'[u].id
        PROVE  v = u
    BY <1>1, <2>1, <2>3, <2>5 DEF Apart
  <2>6. QED
    BY <1>1, <2>4, <2>5 DEF Apart
<1>4. QED
  BY <1>2, <1>3, WorkerClaimsOrStays

\* A command that is neither a resume nor a reorder changes no row a worker works on, except
\* that it may pause it or take it away.
LEMMA CommandApart ==
    ASSUME TypeInv, Apart, UserCommand, Commands \cap {"resume", "reorder"} = {}
    PROVE  Apart'
<1>t. Table(queue) /\ lastId \in Nat /\ DOMAIN queue \subseteq 1 .. lastId
  BY DEF TypeInv, TypeOK, TableOK, Table
<1>w. UNCHANGED <<workerVars, yieldDue>> /\ ~\E id, rank : ResumeItem(id) \/ Reorder(rank)
  BY DEF UserCommand, EnqueueChapter, PauseItem, ResumeItem, RetryItem, Transition, Cancel,
         CancelAll, CancelRows, RetryFailedItems, PauseSource, ResumeSource, RetireChapters,
         PauseAll, ResumeAll, Reorder, Command, apiVars
<1> DEFINE Same(i) == i \in DOMAIN queue'
                        => /\ i \in DOMAIN queue
                           /\ \/ queue'[i].status \in {queue[i].status, "PAUSED"}
                              \/ queue[i].status = "FAILED"
<1>0. SUFFICES \A i \in 1 .. lastId : Same(i)
  <2>1. \A w \in Workers : pc[w] \in Working => job[w].id \in 1 .. lastId
    BY DEF TypeInv, JobIds, Working
  <2>2. QED
    BY <1>w, <2>1 DEF Apart, workerVars
<1>1. ASSUME NEW ids, NEW st \in {"PENDING", "PAUSED"}, queue' = SetStatus(queue, ids, st),
             st = "PAUSED" \/ \A i \in ids \cap DOMAIN queue : queue[i].status = "FAILED"
      PROVE  \A i \in 1 .. lastId : Same(i)
  BY <1>t, <1>1, SetStatusTable DEF Status
<1>2. ASSUME NEW ids, queue' = Without(queue, ids) PROVE \A i \in 1 .. lastId : Same(i)
  BY <1>t, <1>2 DEF Without, Restrict
<1>3. CASE UNCHANGED queue
  BY <1>3
<1>4. ASSUME NEW c \in Chapters, EnqueueChapter(c) PROVE \A i \in 1 .. lastId : Same(i)
  <2>1. PICK p \in NextPositions(queue) :
           \/ queue' = InsertRow(queue, c, lastId + 1, p)
           \/ queue' = RequeueFailed(queue, c, p)
    BY <1>4 DEF EnqueueChapter
  <2>2. p \in Nat
    BY <1>t, NextPositionType
  <2>3. CASE queue' = InsertRow(queue, c, lastId + 1, p)
    <3>1. /\ DOMAIN queue' = DOMAIN queue \cup {lastId + 1} /\ lastId + 1 \notin 1 .. lastId
          /\ \A i \in DOMAIN queue : queue'[i] = queue[i]
      BY <1>t, <2>3 DEF InsertRow
    <3>2. QED
      BY <1>t, <3>1
  <2>4. CASE queue' = RequeueFailed(queue, c, p)
    BY <1>t, <2>2, <2>4, RequeueFailedTable
  <2>5. QED
    BY <2>1, <2>3, <2>4
<1>5. ASSUME NEW id \in DOMAIN queue, PauseItem(id) \/ RetryItem(id) PROVE \A i \in 1 .. lastId : Same(i)
  <2>1. CASE PauseItem(id)
    BY <1>1, <2>1 DEF PauseItem, Transition
  <2>2. CASE RetryItem(id)
    BY <1>1, <2>2 DEF RetryItem, Transition, WithStatus
  <2>3. QED
    BY <1>5, <2>1, <2>2
<1>6. ASSUME NEW s \in Sources, RetryFailedItems(s) PROVE \A i \in 1 .. lastId : Same(i)
  BY <1>1, <1>6 DEF RetryFailedItems, WithStatus
<1>7. ASSUME (\E id \in DOMAIN queue : Cancel(id)) \/ CancelAll PROVE \A i \in 1 .. lastId : Same(i)
  BY <1>2, <1>7 DEF Cancel, CancelAll, CancelRows
<1>8. ASSUME NEW s \in Sources, RetireChapters(s) PROVE \A i \in 1 .. lastId : Same(i)
  BY <1>2, <1>8 DEF RetireChapters
<1>9. CASE PauseAll \/ ResumeAll \/ \E s \in Sources : PauseSource(s) \/ ResumeSource(s)
  BY <1>3, <1>9 DEF PauseAll, ResumeAll, PauseSource, ResumeSource, tableVars
<1>10. QED
  BY <1>w, <1>4, <1>5, <1>6, <1>7, <1>8, <1>9 DEF UserCommand

\* Each row has one worker, throughout, if nobody resumes or reorders.
LEMMA ApartHolds ==
    ASSUME Commands \cap {"resume", "reorder"} = {}
    PROVE  Spec => []Apart
<1>1. Init => Apart
  BY DEF Init, Apart, Working
<1>2. Base /\ Apart /\ [Next]_vars => Apart'
  <2> SUFFICES ASSUME Base, Apart, [Next]_vars PROVE Apart'
    OBVIOUS
  <2>1. CASE \E w \in Workers : WorkerStep(w)
    BY <2>1, WorkerApart DEF Base
  <2>2. CASE UserCommand
    BY <2>2, CommandApart DEF Base
  <2>3. CASE Crash
    BY <2>3 DEF Crash, Apart, Working
  <2>4. CASE Restart
    <3>1. UNCHANGED <<workerVars, yieldDue>> /\ \A w \in Workers : pc[w] \notin Working
      BY <2>4 DEF Restart, Base, Working, apiVars
    <3>2. QED
      BY <3>1 DEF Apart, workerVars
  <2>5. CASE HandlerStep \/ UNCHANGED vars
    <3>1. UNCHANGED <<queue, workerVars, yieldDue>>
      BY <2>5 DEF HandlerStep, YieldSuperseded, DiscardCanceled, Apart, vars, tableVars, apiVars
    <3>2. QED
      BY <3>1 DEF Apart, workerVars
  <2>6. QED
    BY <2>1, <2>2, <2>3, <2>4, <2>5 DEF Next
<1>3. QED
  BY <1>1, <1>2, BaseHolds, PTL DEF Spec

\* The gates of a table, and the sources at work in it are finitely many.
Gates(q) ==
    /\ \A s \in Sources : Cap[s] > 0 => Cardinality(InFlight(q, s)) <= Cap[s]
    /\ MaxActiveSources > 0 => Cardinality(ActiveSources(q)) <= MaxActiveSources
    /\ IsFiniteSet(ActiveSources(q))

\* Rows that leave flight leave the gates respected.
LEMMA FewerInFlight ==
    ASSUME NEW q, NEW r, NEW n \in Nat, DOMAIN q \subseteq 1 .. n, Gates(q), Flight(r) \subseteq Flight(q),
           \A id \in Flight(r) : r[id].chapter = q[id].chapter
    PROVE  Gates(r)
<1>1. \A s \in Sources : InFlight(r, s) \subseteq InFlight(q, s)
  BY DEF InFlight, RowsFrom, Flight, WithStatus
<1>2. ActiveSources(r) \subseteq ActiveSources(q)
  BY <1>1 DEF ActiveSources
<1>3. ASSUME NEW s \in Sources, Cap[s] > 0 PROVE Cardinality(InFlight(r, s)) <= Cap[s]
  <2>1. IsFiniteSet(1 .. n) /\ InFlight(q, s) \in SUBSET (1 .. n)
    BY FS_Interval DEF InFlight, RowsFrom
  <2>2. IsFiniteSet(InFlight(q, s))
    BY <2>1, FS_Subset
  <2>3. /\ Cardinality(InFlight(r, s)) <= Cardinality(InFlight(q, s)) /\ IsFiniteSet(InFlight(r, s))
    BY <1>1, <2>2, FS_Subset
  <2>4. Cardinality(InFlight(r, s)) \in Nat /\ Cardinality(InFlight(q, s)) \in Nat
    BY <2>2, <2>3, FS_CardinalityType
  <2>5. Cardinality(InFlight(q, s)) <= Cap[s]
    BY <1>3 DEF Gates
  <2>6. QED
    BY <2>3, <2>4, <2>5
<1>4. IsFiniteSet(ActiveSources(r)) /\ Cardinality(ActiveSources(r)) <= Cardinality(ActiveSources(q))
  BY <1>2, FS_Subset DEF Gates
<1>5. Cardinality(ActiveSources(r)) \in Nat /\ Cardinality(ActiveSources(q)) \in Nat
  BY <1>4, FS_CardinalityType DEF Gates
<1>6. QED
  BY <1>3, <1>4, <1>5 DEF Gates

\* A claimed row passes the gates, so it leaves them respected.
LEMMA ClaimPassesGates ==
    ASSUME NEW q, NEW r, NEW n \in Nat, DOMAIN q \subseteq 1 .. n, Gates(q), NEW gates,
           NEW id \in Claimable(q, gates), DOMAIN r = DOMAIN q, r[id].chapter = q[id].chapter,
           q[id].chapter \in Chapters, \A i \in DOMAIN q : i # id => r[i] = q[i]
    PROVE  Gates(r)
<1> DEFINE src == SourceOf[q[id].chapter]
<1>1. /\ src \in Sources /\ id \in DOMAIN q
      /\ Cap[src] > 0 => Cardinality(InFlight(q, src)) < Cap[src]
      /\ MaxActiveSources > 0 => src \in ActiveSources(q) \/ Cardinality(ActiveSources(q)) < MaxActiveSources
  BY DEF Claimable, WithStatus
<1>2. \A s \in Sources : IF s = src THEN InFlight(r, s) \subseteq InFlight(q, s) \cup {id}
                         ELSE InFlight(r, s) = InFlight(q, s)
  BY <1>1 DEF InFlight, RowsFrom, WithStatus
<1>3. ActiveSources(r) \subseteq ActiveSources(q) \cup {src}
  BY <1>2 DEF ActiveSources
<1> HIDE DEF src
<1>4. ASSUME NEW s \in Sources, Cap[s] > 0 PROVE Cardinality(InFlight(r, s)) <= Cap[s]
  <2>1. CASE s # src
    BY <1>2, <1>4, <2>1 DEF Gates
  <2>2. CASE s = src
    <3>1. IsFiniteSet(1 .. n) /\ InFlight(q, s) \in SUBSET (1 .. n)
      BY FS_Interval DEF InFlight, RowsFrom
    <3>2. IsFiniteSet(InFlight(q, s))
      BY <3>1, FS_Subset
    <3>3. /\ IsFiniteSet(InFlight(q, s) \cup {id})
          /\ Cardinality(InFlight(q, s) \cup {id}) \in {Cardinality(InFlight(q, s)), Cardinality(InFlight(q, s)) + 1}
      BY <3>2, FS_AddElement
    <3>4. IsFiniteSet(InFlight(r, s)) /\ Cardinality(InFlight(r, s)) <= Cardinality(InFlight(q, s) \cup {id})
      BY <1>2, <2>2, <3>3, FS_Subset
    <3>5. Cardinality(InFlight(r, s)) \in Nat /\ Cardinality(InFlight(q, s)) \in Nat /\ Cap[s] \in Nat
      BY <3>2, <3>4, FS_CardinalityType
    <3>6. Cardinality(InFlight(q, s)) < Cap[s]
      BY <1>1, <1>4, <2>2
    <3>7. QED
      BY <3>3, <3>4, <3>5, <3>6
  <2>3. QED
    BY <2>1, <2>2
<1>5. IsFiniteSet(ActiveSources(q) \cup {src})
      /\ Cardinality(ActiveSources(q) \cup {src}) =
           IF src \in ActiveSources(q) THEN Cardinality(ActiveSources(q)) ELSE Cardinality(ActiveSources(q)) + 1
  BY FS_AddElement DEF Gates
<1>6. /\ IsFiniteSet(ActiveSources(r))
      /\ Cardinality(ActiveSources(r)) <= Cardinality(ActiveSources(q) \cup {src})
  BY <1>3, <1>5, FS_Subset
<1>7. Cardinality(ActiveSources(r)) \in Nat /\ Cardinality(ActiveSources(q)) \in Nat
  BY <1>6, FS_CardinalityType DEF Gates
<1>8. ASSUME MaxActiveSources > 0 PROVE Cardinality(ActiveSources(r)) <= MaxActiveSources
  BY <1>1, <1>5, <1>6, <1>7, <1>8 DEF Gates
<1>9. QED
  BY <1>4, <1>6, <1>8 DEF Gates

\* The claim gates hold of the rows in flight at all times, whatever users queue, pause,
\* cancel or migrate and however often the daemon dies, as long as they resume and reorder
\* no single row: a pending row then has no worker that could still put it back in flight
\* with a late progress update.
THEOREM GatesHold ==
    ASSUME Commands \cap {"resume", "reorder"} = {}
    PROVE  Spec => []GatesRespected
<1> DEFINE GatesInv == Gates(queue)
<1>1. Init => GatesInv
  <2> SUFFICES ASSUME Init PROVE Gates(queue)
    OBVIOUS
  <2>1. ActiveSources(queue) = {} /\ \A s \in Sources : InFlight(queue, s) = {}
    BY DEF Init, ActiveSources, InFlight, RowsFrom
  <2>2. QED
    BY <2>1, FS_EmptySet DEF Gates
<1>2. Base /\ Apart /\ GatesInv /\ [Next]_vars => GatesInv'
  <2> SUFFICES ASSUME Base, Apart, Gates(queue), [Next]_vars PROVE Gates(queue')
    OBVIOUS
  <2>t. /\ TypeInv /\ Table(queue) /\ lastId \in Nat /\ DOMAIN queue \subseteq 1 .. lastId
        /\ \A id \in DOMAIN queue : queue[id].chapter \in Chapters
    BY DEF Base, TypeInv, TypeOK, TableOK, Table, Row
  <2>1. ASSUME Flight(queue') \subseteq Flight(queue),
               \A id \in Flight(queue') : queue'[id].chapter = queue[id].chapter
        PROVE  Gates(queue')
    BY <2>t, <2>1, FewerInFlight
  <2>2. ASSUME NEW w \in Workers, WorkerStep(w) PROVE Gates(queue')
    <3>1. RowsKept(queue, queue')
      BY <2>t, <2>2, WorkerRows
    <3>2. CASE OnItsRow(w)
      <4>1. Flight(queue') \subseteq Flight(queue)
        BY <3>1, <3>2 DEF OnItsRow, RowsKept, Flight, WithStatus, Apart
      <4>2. QED
        BY <2>1, <3>1, <4>1 DEF RowsKept, Flight, WithStatus
    <3>3. CASE Claims(w)
      <4>1. PICK id \in Claimable(queue, held[w]) :
               /\ DOMAIN queue' = DOMAIN queue /\ \A i \in DOMAIN queue : i # id => queue'[i] = queue[i]
        BY <3>3 DEF Claims
      <4>2. id \in DOMAIN queue
        BY <4>1 DEF Claimable, WithStatus
      <4>3. queue'[id].chapter = queue[id].chapter /\ queue[id].chapter \in Chapters
        BY <2>t, <3>1, <4>1, <4>2 DEF RowsKept
      <4>4. QED
        BY <2>t, <4>1, <4>3, ClaimPassesGates
    <3>4. QED
      BY <2>t, <2>2, <3>2, <3>3, WorkerClaimsOrStays
  <2>3. CASE UserCommand
    <3>1. Flight(queue') \subseteq Flight(queue) /\ Flight(queue) \subseteq 1 .. lastId
      BY <2>t, <2>3, CommandRows DEF Flight, WithStatus
    <3>2. \A id \in Flight(queue') : queue'[id].chapter = queue[id].chapter
      BY <2>t, <2>3, <3>1, CommandRows DEF Flight, WithStatus
    <3>3. QED
      BY <2>1, <3>1, <3>2
  <2>4. CASE HandlerStep \/ Crash \/ Restart
    <3>1. RowsKept(queue, queue')
      BY <2>t, <2>4, OtherRows
    <3>2. Flight(queue') \subseteq Flight(queue)
      <4>1. CASE YieldSuperseded \/ Restart
        BY <2>t, <4>1, SetStatusTable DEF YieldSuperseded, Restart, Flight, WithStatus, Status
      <4>2. CASE UNCHANGED queue
        BY <4>2
      <4>3. QED
        BY <2>4, <4>1, <4>2 DEF HandlerStep, DiscardCanceled, Crash, tableVars
    <3>3. QED
      BY <2>1, <3>1, <3>2 DEF RowsKept, Flight, WithStatus
  <2>5. CASE UNCHANGED vars
    BY <2>5 DEF vars, tableVars
  <2>6. QED
    BY <2>2, <2>3, <2>4, <2>5 DEF Next
<1>3. GatesInv => GatesRespected
  BY DEF Gates, GatesRespected
<1>4. QED
  BY <1>1, <1>2, <1>3, BaseHolds, ApartHolds, PTL DEF Spec

-----------------------------------------------------------------------------
(* Saved pages are on disk                                                 *)

\* The staged pages a worker may count: the page it is about to stage is not one of them.
PagesOf(w) == StagedOf(job[w].id) \
                 (IF pc[w] \in {"checkFetch", "fetch"} THEN {<<job[w].id, job[w].index>>} ELSE {})

\* Pages are removed only under an id that is gone for good, nothing is paused, and a worker
\* counts no more pages than are staged.
PagesInv ==
    /\ IsFiniteSet(staged)
    /\ SavedPagesOnDisk
    /\ \A id \in DOMAIN queue : queue[id].status # "PAUSED"
    /\ \A w \in Workers : pc[w] = "discard" => job[w].id \notin DOMAIN queue
    /\ discards \cap DOMAIN queue = {}
    /\ \A w \in Workers : pc[w] \in Working \ {"read"} /\ job[w].id \in DOMAIN queue =>
          job[w].done <= Cardinality(PagesOf(w))

\* A set that grows counts no less.
LEMMA CountsGrow ==
    ASSUME NEW S, NEW T, IsFiniteSet(T), S \subseteq T, NEW n \in Nat, n <= Cardinality(S)
    PROVE  n <= Cardinality(T)
<1>1. IsFiniteSet(S) /\ Cardinality(S) <= Cardinality(T)
  BY FS_Subset
<1>2. Cardinality(S) \in Nat /\ Cardinality(T) \in Nat
  BY <1>1, FS_CardinalityType
<1>3. QED
  BY <1>1, <1>2

\* The staged pages of an id are finitely many.
LEMMA StagedFinite ==
    ASSUME IsFiniteSet(staged), NEW id, NEW S \in SUBSET StagedOf(id)
    PROVE  IsFiniteSet(S)
BY FS_Subset DEF StagedOf

\* A worker's step removes no staged page of a row that exists, and a row counts no page
\* that its worker did not stage.
LEMMA WorkerKeepsPages ==
    ASSUME Base, PagesInv, NEW w \in Workers, WorkerStep(w)
    PROVE  /\ IsFiniteSet(staged')
           /\ \A id \in DOMAIN queue' : StagedOf(id) \subseteq StagedOf(id)'
           /\ \A id \in DOMAIN queue' :
                 \/ queue'[id].done = queue[id].done
                 \/ /\ pc[w] = "save" /\ id = job[w].id /\ queue'[id].done = job[w].done
<1>t. /\ TypeInv /\ Table(queue) /\ pc \in [Workers -> Labels] /\ job \in [Workers -> Job] /\ job[w] \in Job
      /\ DOMAIN queue' \subseteq DOMAIN queue /\ IsFiniteSet(staged)
  BY WorkerRows DEF Base, TypeInv, TypeOK, TableOK, WorkersOK, Table, RowsKept, PagesInv
<1>1. CASE Discard(w) \/ Cleanup(w)
  <2>1. queue' = queue /\ job[w].id \notin DOMAIN queue /\ RemoveStaged({job[w].id})
    BY <1>1 DEF Discard, Cleanup, Base, PagesInv, tableVars
  <2>2. staged' \subseteq staged
    BY <2>1 DEF RemoveStaged
  <2>3. \A id \in DOMAIN queue' : StagedOf(id) \subseteq StagedOf(id)'
    BY <2>1 DEF RemoveStaged, StagedOf
  <2>4. QED
    BY <1>t, <2>1, <2>2, <2>3, FS_Subset
<1>2. CASE FetchPage(w)
  <2>1. queue' = queue /\ (staged' = staged \/ staged' = staged \cup {<<job[w].id, job[w].index>>})
    BY <1>2 DEF FetchPage, tableVars
  <2>2. IsFiniteSet(staged')
    <3>1. PICK x : x = <<job[w].id, job[w].index>>
      OBVIOUS
    <3>2. IsFiniteSet(staged \cup {x})
      BY <1>t, FS_AddElement
    <3>3. QED
      BY <1>t, <2>1, <3>1, <3>2
  <2>3. QED
    BY <2>1, <2>2 DEF StagedOf
<1>3. CASE ~(Discard(w) \/ Cleanup(w) \/ FetchPage(w))
  <2>1. UNCHANGED staged
    BY <1>3 DEF WorkerStep, ResolveGates, Claim, ReadItem, OpenItem, RecordProgress, NextPage, Boundary,
                Release, SavePages, WriteArchive, Replace, Complete, RemoveArtifact, Fail, fileVars
  <2>2. ASSUME NEW id \in DOMAIN queue'
        PROVE  \/ queue'[id].done = queue[id].done
               \/ pc[w] = "save" /\ id = job[w].id /\ queue'[id].done = job[w].done
    <3>1. ASSUME NEW ids, NEW st, queue' = SetStatus(queue, ids, st) PROVE queue'[id].done = queue[id].done
      BY <1>t, <3>1 DEF SetStatus, Table, Row
    <3>2. CASE Claim(w) \/ Release(w) \/ Fail(w)
      BY <3>1, <3>2 DEF Claim, Release, Fail
    <3>3. CASE RecordProgress(w)
      <4>1. CASE UNCHANGED queue
        BY <4>1
      <4>2. CASE queue' = UpdateProgress(queue, job[w].id, job[w].pages, job[w].done)
        BY <1>t, <4>2 DEF UpdateProgress, Table, Row
      <4>3. QED
        BY <3>3, <4>1, <4>2 DEF RecordProgress
    <3>4. CASE SavePages(w)
      <4>1. CASE UNCHANGED queue
        BY <4>1
      <4>2. CASE queue' = SaveDone(queue, job[w].id, job[w].done)
        BY <1>t, <3>4, <4>2 DEF SavePages, SaveDone, Table, Row
      <4>3. QED
        BY <3>4, <4>1, <4>2 DEF SavePages
    <3>5. CASE Complete(w)
      BY <1>t, <3>5 DEF Complete, Without, Restrict
    <3>6. CASE ResolveGates(w) \/ ReadItem(w) \/ OpenItem(w) \/ NextPage(w) \/ Boundary(w) \/ WriteArchive(w) \/ Replace(w)
               \/ RemoveArtifact(w)
      BY <3>6 DEF ResolveGates, ReadItem, OpenItem, NextPage, Boundary, WriteArchive, Replace,
                  RemoveArtifact, tableVars
    <3>7. QED
      BY <1>3, <3>2, <3>3, <3>4, <3>5, <3>6 DEF WorkerStep
  <2>3. QED
    BY <1>t, <2>1, <2>2 DEF StagedOf
<1>4. QED
  BY <1>1, <1>2, <1>3

\* A worker counts a page when it stages one that was missing, and never another.
LEMMA WorkerCounts ==
    ASSUME Base, PagesInv, NEW w \in Workers, WorkerStep(w), pc'[w] \in Working \ {"read"},
           job'[w].id \in DOMAIN queue'
    PROVE  job'[w].done <= Cardinality(PagesOf(w)')
<1>t. /\ TypeInv /\ Table(queue) /\ pc \in [Workers -> Labels] /\ job \in [Workers -> Job] /\ job[w] \in Job
      /\ DOMAIN queue' \subseteq DOMAIN queue /\ IsFiniteSet(staged)
  BY WorkerRows DEF Base, TypeInv, TypeOK, TableOK, WorkersOK, Table, RowsKept, PagesInv
<1>f. /\ IsFiniteSet(staged') /\ IsFiniteSet(PagesOf(w)') /\ IsFiniteSet(PagesOf(w))
  <2>1. IsFiniteSet(staged')
    BY WorkerKeepsPages
  <2>2. PagesOf(w) \subseteq staged /\ PagesOf(w)' \subseteq staged'
    BY DEF PagesOf, StagedOf
  <2>3. QED
    BY <1>t, <2>1, <2>2, FS_Subset
<1>0. ASSUME pc[w] \in Working \ {"read"}, job'[w].id = job[w].id, job'[w].done = job[w].done,
             PagesOf(w) \subseteq PagesOf(w)'
      PROVE  job'[w].done <= Cardinality(PagesOf(w)')
  <2>1. job[w].done <= Cardinality(PagesOf(w)) /\ job[w].done \in Nat
    BY <1>t, <1>0 DEF PagesInv, Job
  <2>2. QED
    BY <1>f, <1>0, <2>1, CountsGrow
<1>1. CASE ReadItem(w)
  <2>1. /\ job[w].id \in DOMAIN queue /\ queue' = queue /\ staged' = staged
        /\ job'[w].id = job[w].id /\ job'[w].done = queue[job[w].id].done /\ pc'[w] = "open"
    <3>1. job[w].id \in DOMAIN queue
      BY <1>t, <1>1 DEF ReadItem, Leave, Goto, Working
    <3>2. job' = [job EXCEPT ![w].chapter = queue[job[w].id].chapter, ![w].done = queue[job[w].id].done]
      BY <1>1, <3>1 DEF ReadItem
    <3>3. job'[w].id = job[w].id /\ job'[w].done = queue[job[w].id].done
      BY <1>t, <3>2 DEF Job
    <3>4. QED
      BY <1>t, <1>1, <3>1, <3>3 DEF ReadItem, Goto, tableVars, fileVars
  <2>2. PagesOf(w)' = StagedOf(job[w].id)
    BY <2>1 DEF PagesOf, StagedOf
  <2>3. QED
    BY <2>1, <2>2 DEF PagesInv, SavedPagesOnDisk
<1>2. CASE NextPage(w)
  <2>1. /\ job'[w].id = job[w].id /\ job'[w].done = job[w].done /\ staged' = staged /\ pc[w] = "page"
    BY <1>t, <1>2 DEF NextPage, fileVars, Job
  <2>2. PagesOf(w)' = StagedOf(job[w].id)
    <3>1. CASE pc'[w] \in {"checkFetch", "fetch"}
      <4>1. <<job[w].id, job[w].index>> \notin staged /\ job' = job
        BY <1>t, <1>2, <3>1 DEF NextPage, Goto
      <4>2. QED
        BY <2>1, <4>1 DEF PagesOf, StagedOf
    <3>2. CASE pc'[w] \notin {"checkFetch", "fetch"}
      BY <2>1, <3>2 DEF PagesOf, StagedOf
    <3>3. QED
      BY <3>1, <3>2
  <2>3. pc[w] \in Working \ {"read"} /\ PagesOf(w) \subseteq PagesOf(w)'
    BY <2>1, <2>2 DEF PagesOf, Working, Labels
  <2>4. QED
    BY <1>0, <2>1, <2>3
<1>3. CASE FetchPage(w)
  <2>1. pc[w] = "fetch" /\ pc[w] \in Working \ {"read"}
    BY <1>3 DEF FetchPage, Working, Labels
  <2>2. CASE UNCHANGED <<job, staged>> /\ Goto(w, "fail")
    <3>1. PagesOf(w) \subseteq PagesOf(w)'
      BY <1>t, <2>2 DEF PagesOf, StagedOf, Goto
    <3>2. QED
      BY <1>0, <2>1, <2>2, <3>1
  <2>3. CASE /\ staged' = staged \cup {<<job[w].id, job[w].index>>}
             /\ job' = [job EXCEPT ![w].index = @ + 1, ![w].done = @ + 1]
             /\ Goto(w, "progress")
    <3>1. job'[w].id = job[w].id /\ job'[w].done = job[w].done + 1 /\ pc'[w] = "progress"
      BY <1>t, <2>3 DEF Goto, Job
    <3>2. PICK x : x = <<job[w].id, job[w].index>>
      OBVIOUS
    <3>3. PagesOf(w)' = PagesOf(w) \cup {x} /\ x \notin PagesOf(w)
      BY <2>1, <2>3, <3>1, <3>2 DEF PagesOf, StagedOf
    <3>4. Cardinality(PagesOf(w) \cup {x}) = Cardinality(PagesOf(w)) + 1
      BY <1>f, <3>3, FS_AddElement
    <3>5. job[w].done <= Cardinality(PagesOf(w)) /\ job[w].done \in Nat /\ Cardinality(PagesOf(w)) \in Nat
      BY <1>t, <1>f, <2>1, <3>1, FS_CardinalityType DEF PagesInv, Job
    <3>6. QED
      BY <3>1, <3>3, <3>4, <3>5
  <2>4. QED
    BY <1>3, <2>2, <2>3 DEF FetchPage
<1>4. CASE Boundary(w)
  <2>1. UNCHANGED staged /\ pc[w] \in Checks /\ pc[w] \in Working \ {"read"}
    BY <1>4 DEF Boundary, fileVars, Checks, Working, Labels
  <2>2. UNCHANGED job /\ (Goto(w, "discard") \/ Goto(w, "release") \/ Goto(w, Proceed[pc[w]]))
    BY <1>4, <1>t DEF Boundary, Leave, Goto, Working
  <2>3. Proceed[pc[w]] \in {"checkFetch", "fetch"} => pc[w] = "checkFetch"
    BY <2>1 DEF Proceed, Checks
  <2>4. PagesOf(w) \subseteq PagesOf(w)'
    BY <1>t, <2>1, <2>2, <2>3 DEF PagesOf, StagedOf, Goto
  <2>5. QED
    BY <1>0, <2>1, <2>2, <2>4
<1>5. CASE OpenItem(w) \/ RecordProgress(w) \/ SavePages(w) \/ WriteArchive(w) \/ Replace(w)
           \/ Complete(w) \/ RemoveArtifact(w)
  <2>1. UNCHANGED staged /\ pc[w] \in Working \ {"read"} /\ pc'[w] \notin {"checkFetch", "fetch"}
    BY <1>5, <1>t DEF OpenItem, RecordProgress, SavePages, WriteArchive, Replace, Complete,
                RemoveArtifact, fileVars,
                      Goto, Working, Labels
  <2>2. job'[w].id = job[w].id /\ job'[w].done = job[w].done
    BY <1>5, <1>t DEF OpenItem, RecordProgress, SavePages, WriteArchive, Replace, Complete, RemoveArtifact, Job
  <2>3. PagesOf(w) \subseteq PagesOf(w)'
    BY <2>1, <2>2 DEF PagesOf, StagedOf
  <2>4. QED
    BY <1>0, <2>1, <2>2, <2>3
<1>6. CASE ResolveGates(w) \/ Claim(w) \/ Discard(w) \/ Release(w) \/ Cleanup(w) \/ Fail(w)
  BY <1>6, <1>t DEF ResolveGates, Claim, Discard, Release, Cleanup, Fail, Goto, Leave, Working
<1>7. QED
  BY <1>1, <1>2, <1>3, <1>4, <1>5, <1>6 DEF WorkerStep

\* A worker's step keeps the saved pages on disk.
LEMMA WorkerPages ==
    ASSUME Base, PagesInv, NEW w \in Workers, WorkerStep(w)
    PROVE  PagesInv'
<1>t. /\ TypeInv /\ Table(queue) /\ pc \in [Workers -> Labels] /\ job \in [Workers -> Job]
      /\ \A v \in Workers : job[v].done \in Nat /\ \A id \in DOMAIN queue : queue[id].done \in Nat
  BY DEF Base, TypeInv, TypeOK, TableOK, WorkersOK, Table, Job, Row
<1>k. /\ DOMAIN queue' \subseteq DOMAIN queue
      /\ \A v \in Workers \ {w} : pc'[v] = pc[v] /\ job'[v] = job[v]
  BY <1>t, WorkerRows, WorkerLocal DEF RowsKept
<1>f. /\ IsFiniteSet(staged') /\ \A id : IsFiniteSet(StagedOf(id)')
      /\ \A v \in Workers : IsFiniteSet(PagesOf(v)')
  <2>1. IsFiniteSet(staged')
    BY WorkerKeepsPages
  <2>2. \A id : StagedOf(id)' \in SUBSET staged'
    BY DEF StagedOf
  <2>3. \A v \in Workers : PagesOf(v)' \in SUBSET staged'
    BY DEF PagesOf, StagedOf
  <2>4. QED
    BY <2>1, <2>2, <2>3, FS_Subset
<1>1. SavedPagesOnDisk'
  <2> SUFFICES ASSUME NEW id \in DOMAIN queue' PROVE queue'[id].done <= Cardinality(StagedOf(id)')
    BY DEF SavedPagesOnDisk
  <2>1. StagedOf(id) \subseteq StagedOf(id)' /\ id \in DOMAIN queue /\ IsFiniteSet(StagedOf(id)')
    BY <1>k, <1>f, WorkerKeepsPages
  <2>2. CASE queue'[id].done = queue[id].done
    <3>1. queue[id].done \in Nat /\ queue[id].done <= Cardinality(StagedOf(id))
      BY <1>t, <2>1 DEF PagesInv, SavedPagesOnDisk
    <3>2. QED
      BY <2>1, <2>2, <3>1, CountsGrow
  <2>3. CASE pc[w] = "save" /\ id = job[w].id /\ queue'[id].done = job[w].done
    <3>1. job[w].done \in Nat /\ job[w].done <= Cardinality(StagedOf(id))
      BY <1>t, <2>1, <2>3 DEF PagesInv, PagesOf, Working, Labels
    <3>2. QED
      BY <2>1, <2>3, <3>1, CountsGrow
  <2>4. QED
    BY <2>2, <2>3, WorkerKeepsPages
<1>2. \A id \in DOMAIN queue' : queue'[id].status # "PAUSED"
  BY <1>k, <1>t, WorkerClaimsOrStays DEF OnItsRow, Claims, PagesInv
<1>3. ASSUME NEW v \in Workers, pc'[v] = "discard" PROVE job'[v].id \notin DOMAIN queue'
  <2>1. CASE v # w
    BY <1>k, <1>3, <2>1 DEF PagesInv
  <2>2. CASE v = w /\ Boundary(w)
    <3>1. pc[w] \in Checks
      BY <2>2 DEF Boundary
    <3>2. Proceed[pc[w]] # "discard"
      BY <3>1 DEF Proceed, Checks
    <3>3. job' = job /\ (job[w].id \notin DOMAIN queue \/ job[w].id \in WithStatus(queue, {"PAUSED"}))
      BY <1>3, <1>t, <2>2, <3>2 DEF Boundary, Leave, Goto
    <3>4. QED
      BY <1>k, <2>2, <3>3 DEF PagesInv, WithStatus
  <2>3. CASE v = w /\ ~Boundary(w)
    <3>1. pc'[w] # "discard"
      BY <1>t, <2>3 DEF WorkerStep, ResolveGates, Claim, ReadItem, OpenItem, RecordProgress, NextPage, Discard,
             Release, FetchPage, SavePages, WriteArchive, Replace, Complete, RemoveArtifact, Cleanup,
                         Fail, Goto, Leave
    <3>2. QED
      BY <1>3, <2>3, <3>1
  <2>4. QED
    BY <2>1, <2>2, <2>3
<1>4. discards' \cap DOMAIN queue' = {}
  <2>1. discards' = discards
    BY DEF WorkerStep, ResolveGates, Claim, ReadItem, OpenItem, RecordProgress, NextPage, Boundary, Discard,
           Release, FetchPage, SavePages, WriteArchive, Replace, Complete, RemoveArtifact, Cleanup, Fail, apiVars
  <2>2. QED
    BY <1>k, <2>1 DEF PagesInv
<1>5. ASSUME NEW v \in Workers, pc'[v] \in Working \ {"read"}, job'[v].id \in DOMAIN queue'
      PROVE  job'[v].done <= Cardinality(PagesOf(v)')
  <2>1. CASE v # w
    <3>1. /\ job'[v] = job[v] /\ pc'[v] = pc[v] /\ job[v].done \in Nat
          /\ job[v].done <= Cardinality(PagesOf(v))
      BY <1>t, <1>k, <1>5, <2>1 DEF PagesInv
    <3>2. StagedOf(job[v].id) \subseteq StagedOf(job[v].id)'
      <4>1. PICK id : id = job[v].id
        OBVIOUS
      <4>2. StagedOf(id) \subseteq StagedOf(id)' /\ job'[v].id = id
        BY <1>5, <3>1, <4>1, WorkerKeepsPages
      <4>3. QED
        BY <4>1, <4>2 DEF StagedOf
    <3>3. PagesOf(v) \subseteq PagesOf(v)'
      BY <3>1, <3>2 DEF PagesOf
    <3>4. QED
      BY <1>f, <3>1, <3>3, CountsGrow
  <2>2. CASE v = w
    BY <1>5, <2>2, WorkerCounts
  <2>3. QED
    BY <2>1, <2>2
<1>6. QED
  BY <1>f, <1>1, <1>2, <1>3, <1>4, <1>5 DEF PagesInv

\* A command, the rest of a handler, a crash and a restart stage nothing, count nothing, and
\* remove only what is staged under an id that is gone.
LEMMA OthersKeepPages ==
    ASSUME Base, PagesInv, Next, ~\E w \in Workers : WorkerStep(w), "pause" \notin Commands
    PROVE  PagesInv'
<1>t. /\ TypeInv /\ Table(queue) /\ lastId \in Nat /\ DOMAIN queue \subseteq 1 .. lastId
      /\ discards \subseteq 1 .. lastId
      /\ \A w \in Workers : pc[w] \notin {"idle", "claim"} => job[w].id \in 1 .. lastId
  BY DEF Base, TypeInv, TypeOK, TableOK, HandlersOK, JobIds, Table
<1> DEFINE Rows(q, r) == /\ \A id \in 1 .. lastId : id \in DOMAIN r => id \in DOMAIN q
                         /\ \A id \in DOMAIN r :
                               /\ r[id].status # "PAUSED"
                               /\ r[id].done = 0 \/ (id \in DOMAIN q /\ r[id].done = q[id].done)
<1>0. ASSUME Rows(queue, queue'),
             staged' \subseteq staged, \A id \in DOMAIN queue' : id \in 1 .. lastId => StagedOf(id)' = StagedOf(id),
             discards' \cap DOMAIN queue' = {}, UNCHANGED workerVars \/ \A w \in Workers : pc'[w] = "idle"
      PROVE  PagesInv'
  <2>1. IsFiniteSet(staged')
    BY <1>0, FS_Subset DEF PagesInv
  <2>2. SavedPagesOnDisk'
    <3> SUFFICES ASSUME NEW id \in DOMAIN queue' PROVE queue'[id].done <= Cardinality(StagedOf(id)')
      BY DEF SavedPagesOnDisk
    <3>1. CASE queue'[id].done = 0
      <4>1. StagedOf(id)' \in SUBSET staged'
        BY DEF StagedOf
      <4>2. Cardinality(StagedOf(id)') \in Nat
        BY <2>1, <4>1, FS_Subset, FS_CardinalityType
      <4>3. QED
        BY <3>1, <4>2
    <3>2. CASE id \in DOMAIN queue /\ queue'[id].done = queue[id].done
      BY <1>t, <1>0, <3>2 DEF PagesInv, SavedPagesOnDisk
    <3>3. QED
      BY <1>0, <3>1, <3>2
  <2>3. CASE UNCHANGED workerVars
    <3>1. \A w \in Workers : pc'[w] = "discard" => job'[w].id \notin DOMAIN queue'
      BY <1>t, <1>0, <2>3 DEF PagesInv, workerVars
    <3>2. ASSUME NEW w \in Workers, pc'[w] \in Working \ {"read"}, job'[w].id \in DOMAIN queue'
          PROVE  job'[w].done <= Cardinality(PagesOf(w)')
      <4>1. pc'[w] = pc[w] /\ job'[w] = job[w] /\ job[w].id \in 1 .. lastId
        BY <1>t, <2>3, <3>2 DEF workerVars, Working
      <4>2. job[w].id \in DOMAIN queue
        BY <1>0, <3>2, <4>1
      <4>3. PICK id : id = job[w].id
        OBVIOUS
      <4>4. StagedOf(id)' = StagedOf(id)
        BY <1>0, <3>2, <4>1, <4>3
      <4>5. PagesOf(w)' = PagesOf(w)
        BY <4>1, <4>3, <4>4 DEF PagesOf, StagedOf
      <4>6. QED
        BY <3>2, <4>1, <4>2, <4>5 DEF PagesInv
    <3>3. QED
      BY <1>0, <2>1, <2>2, <3>1, <3>2 DEF PagesInv
  <2>4. CASE \A w \in Workers : pc'[w] = "idle"
    BY <1>0, <2>1, <2>2, <2>4 DEF PagesInv, Working
  <2>5. QED
    BY <1>0, <2>3, <2>4
<1>s. ASSUME UNCHANGED staged PROVE /\ staged' \subseteq staged /\ \A id : StagedOf(id)' = StagedOf(id)
  BY <1>s DEF StagedOf
<1>1. ASSUME NEW ids, NEW st \in {"PENDING"}, queue' = SetStatus(queue, ids, st) PROVE Rows(queue, queue')
  <2>1. \A id \in DOMAIN queue : SetStatus(queue, ids, st)[id].done = queue[id].done
    BY <1>t DEF SetStatus, Table, Row
  <2>2. QED
    BY <1>t, <1>1, <2>1, SetStatusTable DEF Status, PagesInv
<1>2. ASSUME NEW ids, queue' = Without(queue, ids) PROVE Rows(queue, queue')
  BY <1>t, <1>2 DEF Without, Restrict, PagesInv
<1>3. CASE UserCommand
  <2>w. UNCHANGED <<workerVars, staged>> /\ ~\E id : PauseItem(id)
    BY <1>3 DEF UserCommand, EnqueueChapter, PauseItem, ResumeItem, RetryItem, Transition, Cancel,
           CancelAll, CancelRows, RetryFailedItems, PauseSource, ResumeSource, RetireChapters,
           PauseAll, ResumeAll, Reorder, Command, fileVars
  <2>0. ASSUME Rows(queue, queue'), discards' \cap DOMAIN queue' = {} PROVE PagesInv'
    BY <1>0, <1>s, <2>w, <2>0
  <2>d. ASSUME UNCHANGED discards, Rows(queue, queue') PROVE PagesInv'
    BY <1>t, <2>0, <2>d DEF PagesInv
  <2>1. ASSUME NEW c \in Chapters, EnqueueChapter(c) PROVE PagesInv'
    <3>1. PICK p \in NextPositions(queue) :
             \/ queue' = InsertRow(queue, c, lastId + 1, p)
             \/ queue' = RequeueFailed(queue, c, p)
      BY <2>1 DEF EnqueueChapter
    <3>2. CASE queue' = InsertRow(queue, c, lastId + 1, p)
      <4>1. /\ DOMAIN queue' = DOMAIN queue \cup {lastId + 1} /\ lastId + 1 \notin 1 .. lastId
            /\ queue'[lastId + 1].done = 0 /\ queue'[lastId + 1].status = "PENDING"
            /\ \A i \in DOMAIN queue : queue'[i] = queue[i]
        BY <1>t, <3>2 DEF InsertRow, NewRow
      <4>2. QED
        BY <1>t, <2>1, <2>d, <4>1 DEF EnqueueChapter, PagesInv, apiVars
    <3>3. CASE queue' = RequeueFailed(queue, c, p)
      <4>1. /\ DOMAIN queue' = DOMAIN queue
            /\ \A i \in DOMAIN queue : /\ queue'[i].done = queue[i].done
                                       /\ queue'[i].status \in {queue[i].status, "PENDING"}
        BY <1>t, <3>3, RequeuedRows
      <4>2. QED
        BY <1>t, <2>1, <2>d, <4>1 DEF EnqueueChapter, PagesInv, apiVars
    <3>4. QED
      BY <3>1, <3>2, <3>3
  <2>2. ASSUME NEW id \in DOMAIN queue, ResumeItem(id) \/ RetryItem(id) PROVE PagesInv'
    BY <1>1, <2>2, <2>d DEF ResumeItem, RetryItem, Transition, apiVars
  <2>3. ASSUME NEW s \in Sources, RetryFailedItems(s) PROVE PagesInv'
    BY <1>1, <2>3, <2>d DEF RetryFailedItems, apiVars
  <2>4. ASSUME NEW ids, NEW name, CancelRows(name, ids) PROVE PagesInv'
    <3>1. Rows(queue, queue')
      BY <1>2, <2>4 DEF CancelRows
    <3>2. DOMAIN queue' = DOMAIN queue \ ids /\ discards' = discards \cup ids
      BY <2>4 DEF CancelRows, Without, Restrict
    <3>3. QED
      BY <2>0, <3>1, <3>2 DEF PagesInv
  <2>5. ASSUME NEW s \in Sources, RetireChapters(s) PROVE PagesInv'
    BY <1>2, <2>5, <2>d DEF RetireChapters, apiVars
  <2>6. ASSUME NEW ids \in SUBSET DOMAIN queue, NEW rank \in Ranks(ids), Reorder(rank) PROVE PagesInv'
    <3>1. Rows(queue, queue')
      BY <1>t, <2>6 DEF Reorder, SetOrder, Table, Row, PagesInv
    <3>2. QED
      BY <2>6, <2>d, <3>1 DEF Reorder
  <2>7. CASE PauseAll \/ ResumeAll \/ \E s \in Sources : PauseSource(s) \/ ResumeSource(s)
    BY <2>7, <2>d, <1>t DEF PauseAll, ResumeAll, PauseSource, ResumeSource, tableVars, apiVars, PagesInv
  <2>8. QED
    BY <1>3, <2>w, <2>1, <2>2, <2>3, <2>4, <2>5, <2>6, <2>7 DEF UserCommand, Cancel, CancelAll
<1>4. ASSUME NEW id \in discards, DiscardCanceled(id) PROVE PagesInv'
  <2>1. UNCHANGED <<queue, workerVars>> /\ discards' \subseteq discards /\ RemoveStaged({id})
    BY <1>4 DEF DiscardCanceled, tableVars
  <2>2. id \notin DOMAIN queue
    BY DEF PagesInv
  <2>3. staged' \subseteq staged /\ \A i \in DOMAIN queue : StagedOf(i)' = StagedOf(i)
    BY <2>1, <2>2 DEF RemoveStaged, StagedOf
  <2>4. QED
    BY <1>0, <1>t, <2>1, <2>3 DEF PagesInv
<1>5. CASE YieldSuperseded \/ Restart
  <2>1. UNCHANGED <<staged, discards, workerVars>> /\ Rows(queue, queue')
    BY <1>1, <1>5 DEF YieldSuperseded, Restart, fileVars, apiVars
  <2>2. QED
    BY <1>0, <1>s, <1>t, <2>1 DEF PagesInv
<1>6. CASE Crash
  BY <1>0, <1>s, <1>t, <1>6 DEF Crash, tableVars, fileVars, PagesInv
<1>7. QED
  BY <1>3, <1>4, <1>5, <1>6 DEF Next, HandlerStep

\* A row never records more fetched pages than its staging directory holds, at any moment of
\* a fetch, a cancel, a reorder or a crash, unless the user pauses a row: its worker then
\* removes the staged pages of a row that stays.
THEOREM PagesSaved ==
    ASSUME "pause" \notin Commands
    PROVE  Spec => []SavedPagesOnDisk
<1>1. Init => PagesInv
  BY FS_EmptySet DEF Init, PagesInv, SavedPagesOnDisk, Working
<1>2. Base /\ PagesInv /\ [Next]_vars => PagesInv'
  <2> SUFFICES ASSUME Base, PagesInv, [Next]_vars PROVE PagesInv'
    OBVIOUS
  <2>1. CASE UNCHANGED vars
    BY <2>1 DEF vars, tableVars, fileVars, workerVars, apiVars, PagesInv, SavedPagesOnDisk, PagesOf, StagedOf
  <2>2. QED
    BY <2>1, WorkerPages, OthersKeepPages DEF Next
<1>3. PagesInv => SavedPagesOnDisk
  BY DEF PagesInv
<1>4. QED
  BY <1>1, <1>2, <1>3, BaseHolds, PTL DEF Spec

-----------------------------------------------------------------------------
(* What the library calls downloaded can be read                           *)

\* The commands that take a row from the worker that holds it.
Disturbing == {"pause", "resume", "reorder", "cancel", "cancelAll"}

\* A worker past the read of its row holds one that is in flight, or one of a chapter that a
\* migration retired; only the latter's completion is refused.
Owned ==
    /\ \A id \in DOMAIN queue : queue[id].status # "PAUSED"
    /\ \A w \in Workers : pc[w] \in Working \ {"read"} =>
          job[w].id \in Flight(queue) \/ job[w].chapter \notin library
    /\ \A w \in Workers : pc[w] = "unregister" => job[w].chapter \notin library

\* A worker's step removes a row only when it completes its download.
LEMMA WorkerRemovesOwn ==
    ASSUME TypeInv, NEW w \in Workers, WorkerStep(w)
    PROVE  /\ library' = library
           /\ \/ DOMAIN queue' = DOMAIN queue
              \/ /\ Complete(w) /\ pc[w] = "register" /\ job[w].chapter \in library /\ pc'[w] = "cleanup"
                 /\ CompletedRows(job[w].chapter) # {}
                 /\ DOMAIN queue' = DOMAIN queue \ CompletedRows(job[w].chapter)
<1>t. pc \in [Workers -> Labels]
  BY DEF TypeInv, TypeOK, WorkersOK
<1>1. library' = library
  BY DEF WorkerStep, ResolveGates, Claim, ReadItem, OpenItem, RecordProgress, NextPage, Boundary, Discard,
         Release, FetchPage, SavePages, WriteArchive, Replace, Complete, RemoveArtifact, Cleanup, Fail, tableVars
<1>2. CASE Complete(w)
  BY <1>t, <1>1, <1>2 DEF Complete, Without, Restrict, Goto
<1>3. CASE Claim(w) \/ Release(w) \/ Fail(w) \/ RecordProgress(w) \/ SavePages(w)
  BY <1>1, <1>3 DEF Claim, Release, Fail, RecordProgress, SavePages, SetStatus, UpdateProgress, SaveDone
<1>4. CASE ResolveGates(w) \/ ReadItem(w) \/ OpenItem(w) \/ NextPage(w) \/ Boundary(w) \/ Discard(w)
           \/ FetchPage(w) \/ WriteArchive(w) \/ Replace(w) \/ RemoveArtifact(w) \/ Cleanup(w)
  BY <1>1, <1>4 DEF ResolveGates, ReadItem, OpenItem, NextPage, Boundary, Discard, FetchPage, WriteArchive, Replace,
         RemoveArtifact, Cleanup, tableVars
<1>5. QED
  BY <1>2, <1>3, <1>4 DEF WorkerStep

\* A worker's step leaves every other worker its row.
LEMMA WorkerOwned ==
    ASSUME Base, Apart, Owned, DbFaults = FALSE, NEW w \in Workers, WorkerStep(w)
    PROVE  Owned'
<1>t. TypeInv /\ pc \in [Workers -> Labels] /\ job \in [Workers -> Job] /\ job[w] \in Job
  BY DEF Base, TypeInv, TypeOK, WorkersOK
<1>k. /\ DOMAIN queue' \subseteq DOMAIN queue /\ library' = library
      /\ \A v \in Workers \ {w} : pc'[v] = pc[v] /\ job'[v] = job[v]
  BY <1>t, WorkerRows, WorkerLocal, WorkerRemovesOwn DEF RowsKept
<1>1. \A id \in DOMAIN queue' : queue'[id].status # "PAUSED"
  BY <1>k, <1>t, WorkerClaimsOrStays DEF OnItsRow, Claims, Owned
<1>2. ASSUME NEW v \in Workers \ {w}, pc[v] \in Working, job[v].id \in Flight(queue)
      PROVE  job[v].id \in Flight(queue')
  <2>1. job[v].id \in DOMAIN queue /\ queue[job[v].id].status = "DOWNLOADING"
    BY <1>2 DEF Flight, WithStatus
  <2>2. ~(pc[w] \in Working /\ job[w].id = job[v].id)
    BY <1>2 DEF Apart
  <2>3. job[v].id \in DOMAIN queue'
    <3>1. CASE DOMAIN queue' = DOMAIN queue
      BY <2>1, <3>1
    <3>2. CASE /\ Complete(w) /\ pc[w] = "register" /\ job[w].chapter \in library
               /\ DOMAIN queue' = DOMAIN queue \ CompletedRows(job[w].chapter)
      <4>1. job[w].id \in DOMAIN queue /\ queue[job[w].id].chapter = job[w].chapter /\ pc[w] \in Working
        BY <3>2 DEF Owned, Base, ChapterKnown, Working, Labels, Flight, WithStatus
      <4>2. job[v].id \notin CompletedRows(job[w].chapter)
        BY <2>1, <2>2, <4>1 DEF CompletedRows, RowsOf, Base, OneRow
      <4>3. QED
        BY <2>1, <3>2, <4>2
    <3>3. QED
      BY <1>t, <3>1, <3>2, WorkerRemovesOwn
  <2>4. queue'[job[v].id].status = "DOWNLOADING"
    <3>1. CASE OnItsRow(w)
      BY <2>1, <2>2, <2>3, <3>1 DEF OnItsRow
    <3>2. CASE Claims(w)
      BY <2>1, <3>2 DEF Claims, Claimable, WithStatus
    <3>3. QED
      BY <1>t, <3>1, <3>2, WorkerClaimsOrStays
  <2>5. QED
    BY <2>3, <2>4 DEF Flight, WithStatus
<1>3. ASSUME pc'[w] \in Working \ {"read"}, job'[w].chapter \in library
      PROVE  job'[w].id \in Flight(queue')
  <2>1. CASE ReadItem(w)
    <3>1. job[w].id \in DOMAIN queue /\ pc[w] \in Working
      BY <1>t, <1>3, <2>1 DEF ReadItem, Leave, Goto, Working, Labels
    <3>2. queue[job[w].id].status = "DOWNLOADING"
      BY <3>1 DEF Apart, Owned
    <3>3. queue' = queue /\ job'[w].id = job[w].id
      BY <1>t, <1>3, <2>1, WorkerLocal DEF ReadItem, tableVars
    <3>4. QED
      BY <3>1, <3>2, <3>3 DEF Flight, WithStatus
  <2>2. CASE ~ReadItem(w)
    <3>1. pc[w] # "read"
      BY <2>2 DEF WorkerStep, ResolveGates, Claim, OpenItem, RecordProgress, NextPage, Boundary, Discard,
             Release, FetchPage, SavePages, WriteArchive, Replace, Complete, RemoveArtifact, Cleanup, Fail, Checks
    <3>2. job'[w].id = job[w].id
      BY <1>t, <1>3, WorkerLocal
    <3>3. pc[w] \in Working \ {"read"} /\ job'[w].chapter = job[w].chapter
      <4>1. CASE Claim(w)
        BY <1>t, <1>3, <4>1 DEF Claim, Leave, Goto, Working
      <4>2. CASE OnItsRow(w)
        <5>1. pc[w] \in Working \ {"read"}
          BY <1>3, <3>1, <4>2 DEF OnItsRow
        <5>2. job'[w].chapter = job[w].chapter
          <6>1. CASE OpenItem(w) \/ NextPage(w) \/ FetchPage(w)
            BY <1>t, <6>1 DEF OpenItem, NextPage, FetchPage, Job
          <6>2. CASE RecordProgress(w) \/ SavePages(w) \/ WriteArchive(w) \/ Replace(w)
                     \/ Complete(w) \/ RemoveArtifact(w)
            BY <6>2 DEF RecordProgress, SavePages, WriteArchive, Replace, Complete, RemoveArtifact
          <6>3. CASE Boundary(w) \/ Discard(w) \/ Release(w) \/ Cleanup(w) \/ Fail(w) \/ ResolveGates(w) \/ Claim(w)
            BY <1>t, <1>3, <5>1, <6>3 DEF Boundary, Discard, Release, Cleanup, Fail, ResolveGates, Claim, Leave,
                   Goto, Working
          <6>4. QED
            BY <2>2, <6>1, <6>2, <6>3 DEF WorkerStep
        <5>3. QED
          BY <5>1, <5>2
      <4>3. CASE Claims(w) /\ ~Claim(w)
        BY <1>t, <1>3, <3>1, <4>3 DEF Claims, WorkerStep, ResolveGates, OpenItem, RecordProgress, NextPage,
               Boundary, Discard, Release, FetchPage, SavePages, WriteArchive, Replace, Complete,
                           RemoveArtifact, Cleanup,
               Fail, ReadItem, Goto, Leave, Working, Labels, Checks
      <4>4. QED
        BY <1>t, <4>1, <4>2, <4>3, WorkerClaimsOrStays
    <3>4. job[w].id \in Flight(queue)
      BY <1>3, <3>3 DEF Owned
    <3>5. job[w].id \in DOMAIN queue'
      BY <1>t, <1>3, <3>4, WorkerRemovesOwn DEF Working, Flight, WithStatus
    <3>6. queue'[job[w].id].status = "DOWNLOADING"
      BY <1>t, <1>3, <3>3, <3>4, <3>5, WorkerClaimsOrStays DEF OnItsRow, Claims, Flight, WithStatus
    <3>7. QED
      BY <3>2, <3>5, <3>6 DEF Flight, WithStatus
  <2>3. QED
    BY <2>1, <2>2
<1>4. ASSUME pc'[w] = "unregister" PROVE job'[w].chapter \notin library
  <2>1. CASE Complete(w)
    <3>1. job' = job /\ pc[w] = "register" /\ (job[w].chapter \notin library \/ CompletedRows(job[w].chapter) = {})
      BY <1>t, <1>4, <2>1 DEF Complete, Goto
    <3>2. ASSUME job[w].chapter \in library PROVE job[w].id \in CompletedRows(job[w].chapter)
      BY <3>1, <3>2 DEF Owned, Base, ChapterKnown, CompletedRows, RowsOf, Flight, WithStatus, Working, Labels
    <3>3. QED
      BY <3>1, <3>2
  <2>2. CASE Boundary(w)
    <3>1. pc[w] \in Checks
      BY <2>2 DEF Boundary
    <3>2. Proceed[pc[w]] # "unregister"
      BY <3>1 DEF Proceed, Checks
    <3>3. QED
      BY <1>t, <1>4, <2>2, <3>2 DEF Boundary, Leave, Goto
  <2>3. CASE ~Complete(w) /\ ~Boundary(w)
    BY <1>t, <1>4, <2>3 DEF WorkerStep, ResolveGates, Claim, ReadItem, OpenItem, RecordProgress, NextPage, Discard,
           Release, FetchPage, SavePages, WriteArchive, Replace, RemoveArtifact, Cleanup, Fail, Goto, Leave
  <2>4. QED
    BY <2>1, <2>2, <2>3
<1>5. ASSUME NEW v \in Workers, pc'[v] \in Working \ {"read"}
      PROVE  job'[v].id \in Flight(queue') \/ job'[v].chapter \notin library'
  BY <1>k, <1>2, <1>3, <1>5 DEF Owned
<1>6. ASSUME NEW v \in Workers, pc'[v] = "unregister" PROVE job'[v].chapter \notin library'
  BY <1>k, <1>4, <1>6 DEF Owned
<1>7. QED
  BY <1>1, <1>5, <1>6 DEF Owned

\* A command that disturbs no worker takes away only rows of chapters that go with them.
LEMMA CommandOwned ==
    ASSUME Base, Owned, UserCommand, Commands \cap Disturbing = {}
    PROVE  Owned'
<1>t. /\ TypeInv /\ Table(queue) /\ lastId \in Nat /\ DOMAIN queue \subseteq 1 .. lastId
      /\ library \subseteq Chapters /\ \A w \in Workers : job[w].chapter \in Chapters \cup {None}
  BY DEF Base, TypeInv, TypeOK, TableOK, WorkersOK, Table, Job
<1>w. UNCHANGED workerVars /\ library' \subseteq library
  <2>1. ASSUME NEW src \in Sources, RetireChapters(src) PROVE library' \subseteq library
    BY <2>1 DEF RetireChapters
  <2>2. ASSUME ~\E src \in Sources : RetireChapters(src) PROVE library' = library
    BY <2>2 DEF UserCommand, EnqueueChapter, PauseItem, ResumeItem, RetryItem, Transition, Cancel, CancelAll,
           CancelRows, RetryFailedItems, PauseSource, ResumeSource, PauseAll, ResumeAll, Reorder, tableVars
  <2>3. QED
    BY <1>t, <2>1, <2>2, CommandRows
<1>d. ~\E id, rank : PauseItem(id) \/ ResumeItem(id) \/ Reorder(rank) \/ Cancel(id) \/ CancelAll
  BY DEF PauseItem, ResumeItem, Transition, Reorder, Cancel, CancelAll, CancelRows, Command, Disturbing
<1>0. ASSUME \A id \in DOMAIN queue' : queue'[id].status # "PAUSED",
             \A id \in Flight(queue) : id \in Flight(queue') \/ queue[id].chapter \notin library'
      PROVE  Owned'
  BY <1>w, <1>0 DEF Owned, Base, ChapterKnown, workerVars, Working, Labels, Flight, WithStatus
<1>1. ASSUME NEW ids, queue' = SetStatus(queue, ids, "PENDING"),
             \A i \in ids \cap DOMAIN queue : queue[i].status = "FAILED"
      PROVE  Owned'
  BY <1>t, <1>0, <1>1, SetStatusTable DEF Status, Owned, Flight, WithStatus
<1>2. ASSUME NEW c \in Chapters, EnqueueChapter(c) PROVE Owned'
  <2>1. PICK p \in NextPositions(queue) :
           \/ queue' = InsertRow(queue, c, lastId + 1, p)
           \/ queue' = RequeueFailed(queue, c, p)
    BY <1>2 DEF EnqueueChapter
  <2>2. CASE queue' = InsertRow(queue, c, lastId + 1, p)
    <3>1. /\ DOMAIN queue' = DOMAIN queue \cup {lastId + 1} /\ lastId + 1 \notin 1 .. lastId
          /\ queue'[lastId + 1].status = "PENDING" /\ \A i \in DOMAIN queue : queue'[i] = queue[i]
      BY <1>t, <2>2 DEF InsertRow, NewRow
    <3>2. QED
      BY <1>t, <1>0, <3>1 DEF Owned, Flight, WithStatus
  <2>3. CASE queue' = RequeueFailed(queue, c, p)
    <3>1. /\ DOMAIN queue' = DOMAIN queue
          /\ \A i \in DOMAIN queue : \/ queue'[i] = queue[i]
                                     \/ queue[i].status = "FAILED" /\ queue'[i].status = "PENDING"
      BY <1>t, <2>3, RequeuedRows
    <3>2. QED
      BY <1>0, <3>1 DEF Owned, Flight, WithStatus
  <2>4. QED
    BY <2>1, <2>2, <2>3
<1>3. ASSUME NEW id \in DOMAIN queue, RetryItem(id) PROVE Owned'
  BY <1>1, <1>3 DEF RetryItem, Transition, WithStatus
<1>4. ASSUME NEW s \in Sources, RetryFailedItems(s) PROVE Owned'
  BY <1>1, <1>4 DEF RetryFailedItems, WithStatus
<1>5. ASSUME NEW s \in Sources, RetireChapters(s) PROVE Owned'
  <2> DEFINE retired == {c \in library : SourceOf[c] = s}
  <2>1. /\ library' = library \ retired
        /\ queue' = Without(queue, {id \in DOMAIN queue : queue[id].chapter \in retired})
    BY <1>5 DEF RetireChapters
  <2>2. /\ \A id \in DOMAIN queue' : id \in DOMAIN queue /\ queue'[id] = queue[id]
        /\ \A id \in DOMAIN queue : id \in DOMAIN queue' \/ queue[id].chapter \in retired
    BY <2>1 DEF Without, Restrict
  <2>3. QED
    BY <1>0, <2>1, <2>2 DEF Owned, Flight, WithStatus
<1>6. CASE PauseAll \/ ResumeAll \/ \E s \in Sources : PauseSource(s) \/ ResumeSource(s)
  <2>1. UNCHANGED queue
    BY <1>6 DEF PauseAll, ResumeAll, PauseSource, ResumeSource, tableVars
  <2>2. QED
    BY <1>0, <2>1 DEF Owned
<1>7. QED
  BY <1>d, <1>2, <1>3, <1>4, <1>5, <1>6 DEF UserCommand

\* Every worker owns its row, throughout, if the database takes the page rows and no command
\* takes a row from a worker.
LEMMA OwnedHolds ==
    ASSUME Commands \cap Disturbing = {}, DbFaults = FALSE
    PROVE  Spec => []Owned
<1>1. Init => Owned
  BY DEF Init, Owned, Working
<1>2. Base /\ Apart /\ Owned /\ [Next]_vars => Owned'
  <2> SUFFICES ASSUME Base, Apart, Owned, [Next]_vars PROVE Owned'
    OBVIOUS
  <2>t. Table(queue)
    BY DEF Base, TypeInv, TypeOK, TableOK, Table
  <2>1. CASE \E w \in Workers : WorkerStep(w)
    BY <2>1, WorkerOwned
  <2>2. CASE UserCommand
    BY <2>2, CommandOwned
  <2>3. CASE Crash
    BY <2>3 DEF Crash, Owned, Working, tableVars
  <2>4. CASE Restart
    <3>1. UNCHANGED workerVars /\ \A w \in Workers : pc[w] = "idle"
      BY <2>4 DEF Restart, Base
    <3>2. \A id \in DOMAIN queue' : queue'[id].status # "PAUSED"
      BY <2>4, <2>t, SetStatusTable DEF Restart, Owned, Status
    <3>3. QED
      BY <3>1, <3>2 DEF Owned, workerVars, Working
  <2>5. CASE HandlerStep \/ UNCHANGED vars
    <3>1. UNCHANGED <<queue, library, workerVars>>
      BY <2>5 DEF HandlerStep, YieldSuperseded, DiscardCanceled, Apart, vars, tableVars
    <3>2. QED
      BY <3>1 DEF Owned, workerVars
  <2>6. QED
    BY <2>1, <2>2, <2>3, <2>4, <2>5 DEF Next
<1>3. Commands \cap {"resume", "reorder"} = {}
  BY DEF Disturbing
<1>4. Spec => []Apart
  BY <1>3, ApartHolds
<1>5. QED
  BY <1>1, <1>2, <1>4, BaseHolds, PTL DEF Spec

\* A file is at the path of every downloaded chapter, and of every chapter about to become
\* one; a file is removed only of a chapter that left the library.
ReadInv ==
    /\ DownloadedIsReadable
    /\ \A w \in Workers : pc[w] = "register" /\ job[w].chapter \in library
          => Readable(job[w].chapter)
    /\ \A w \in Workers : pc[w] \in Working \ {"read"} => job[w].chapter \in Chapters

Removable == Format = "folder" \/ \A w \in Workers : pc[w] = "unregister" => job[w].chapter \notin library

\* A worker past the read of its row knows which chapter it downloads.
LEMMA WorkerKnows ==
    ASSUME TypeInv, ReadInv, NEW w \in Workers, WorkerStep(w), pc'[w] \in Working \ {"read"}
    PROVE  job'[w].chapter \in Chapters
<1>t. /\ Table(queue) /\ pc \in [Workers -> Labels] /\ job \in [Workers -> Job] /\ job[w] \in Job
  BY DEF TypeInv, TypeOK, TableOK, WorkersOK, Table
<1>1. CASE pc[w] \in Working \ {"read"} /\ job'[w].chapter = job[w].chapter
  BY <1>1 DEF ReadInv
<1>2. CASE ReadItem(w)
  <2>1. job[w].id \in DOMAIN queue
    BY <1>t, <1>2 DEF ReadItem, Leave, Goto, Working
  <2>2. job'[w].chapter = queue[job[w].id].chapter
    BY <1>t, <1>2, <2>1 DEF ReadItem, Job
  <2>3. QED
    BY <1>t, <2>1, <2>2 DEF Table, Row
<1>3. CASE OpenItem(w) \/ NextPage(w) \/ FetchPage(w)
  <2>1. pc[w] \in Working \ {"read"} /\ job'[w].chapter = job[w].chapter
    BY <1>t, <1>3 DEF OpenItem, NextPage, FetchPage, Working, Labels, Job
  <2>2. QED
    BY <1>1, <2>1
<1>4. CASE RecordProgress(w) \/ SavePages(w) \/ WriteArchive(w) \/ Replace(w) \/ Complete(w) \/ RemoveArtifact(w)
  BY <1>1, <1>4 DEF RecordProgress, SavePages, WriteArchive, Replace, Complete, RemoveArtifact, Working, Labels
<1>5. CASE Boundary(w)
  <2>1. pc[w] \in Working \ {"read"} /\ job' = job
    BY <1>t, <1>5 DEF Boundary, Leave, Goto, Working, Labels, Checks
  <2>2. QED
    BY <1>1, <2>1
<1>6. CASE ResolveGates(w) \/ Claim(w) \/ Discard(w) \/ Release(w) \/ Cleanup(w) \/ Fail(w)
  BY <1>t, <1>6 DEF ResolveGates, Claim, Discard, Release, Cleanup, Fail, Leave, Goto, Working
<1>7. QED
  BY <1>2, <1>3, <1>4, <1>5, <1>6 DEF WorkerStep

LEMMA WorkerReadable ==
    ASSUME TypeInv, ReadInv, Removable, NEW w \in Workers, WorkerStep(w),
           \A c, d \in Chapters : PathOf[c] = PathOf[d] => c = d
    PROVE  ReadInv'
<1>t. /\ pc \in [Workers -> Labels] /\ job \in [Workers -> Job] /\ job[w] \in Job
      /\ library \subseteq Chapters /\ downloaded \subseteq library
      /\ archive \in [Paths -> Chapters \cup {None, Removed}] /\ PathOf \in [Chapters -> Paths]
  BY DEF TypeInv, TypeOK, TableOK, FilesOK, WorkersOK
<1>k. /\ library' = library
      /\ \A v \in Workers \ {w} : pc'[v] = pc[v] /\ job'[v] = job[v]
  BY <1>t, WorkerLocal, WorkerRemovesOwn
<1>c. \A v \in Workers : pc'[v] \in Working \ {"read"} => job'[v].chapter \in Chapters
  BY <1>k, WorkerKnows DEF ReadInv
<1>1. CASE WriteArchive(w) \/ Replace(w)
  <2>1. /\ job' = job /\ downloaded' = downloaded /\ pc[w] \in {"archive", "replace"}
        /\ \/ archive' = archive /\ pc'[w] = "fail"
           \/ PutAt(w)
           \/ /\ ~Replaces /\ pc'[w] = "replace"
              /\ archive' = [archive EXCEPT ![PathOf[job[w].chapter]] = Removed]
    BY <1>1, <1>t DEF WriteArchive, Replace, Goto, tableVars
  <2>2. job[w].chapter \in Chapters
    BY <2>1 DEF ReadInv, Working, Labels, Checks
  <2>3. ASSUME NEW c \in library, Readable(c) PROVE Readable(c)'
    BY <1>t, <2>1, <2>2, <2>3 DEF Readable, PutAt
  <2>4. job[w].chapter \in library /\ pc'[w] = "register" => Readable(job[w].chapter)'
    BY <1>t, <2>1 DEF Readable, PutAt
  <2>5. QED
    BY <1>t, <1>k, <1>c, <2>1, <2>3, <2>4 DEF ReadInv, DownloadedIsReadable
<1>2. CASE Complete(w)
  <2>1. /\ job' = job /\ archive' = archive /\ pc'[w] # "register" /\ pc[w] = "register"
        /\ downloaded' = downloaded \/ (downloaded' = downloaded \cup {job[w].chapter} /\ job[w].chapter \in library)
    BY <1>2, <1>t DEF Complete, Goto, fileVars
  <2>2. QED
    BY <1>k, <1>c, <2>1 DEF ReadInv, DownloadedIsReadable, Readable
<1>3. CASE RemoveArtifact(w)
  <2>1. /\ job' = job /\ downloaded' = downloaded /\ pc[w] = "unregister" /\ pc'[w] # "register"
        /\ archive' = [p \in Paths |-> IF p = PathOf[job[w].chapter] /\ Format = "cbz" THEN None ELSE archive[p]]
    BY <1>3, <1>t DEF RemoveArtifact, RemoveFile, Goto, tableVars
  <2>2. ASSUME NEW c \in library, Readable(c) PROVE Readable(c)'
    <3>1. CASE Format = "folder"
      BY <1>t, <2>1, <2>2, <3>1 DEF Readable
    <3>2. CASE job[w].chapter \notin library
      <4>1. job[w].chapter \in Chapters
        BY <2>1 DEF ReadInv, Working, Labels
      <4>2. PathOf[c] # PathOf[job[w].chapter] /\ PathOf[c] \in Paths
        BY <1>t, <3>2, <4>1
      <4>3. QED
        BY <2>1, <2>2, <4>2 DEF Readable
    <3>3. QED
      BY <2>1, <3>1, <3>2 DEF Removable
  <2>3. QED
    BY <1>t, <1>k, <1>c, <2>1, <2>2 DEF ReadInv, DownloadedIsReadable
<1>4. CASE ~(WriteArchive(w) \/ Replace(w) \/ Complete(w) \/ RemoveArtifact(w))
  <2>1. UNCHANGED <<downloaded, archive>>
    BY <1>4 DEF WorkerStep, ResolveGates, Claim, ReadItem, OpenItem, RecordProgress, NextPage, Boundary, Discard,
                RemoveStaged, Release, FetchPage, SavePages, Cleanup, Fail, tableVars, fileVars
  <2>2. pc'[w] # "register"
    <3>1. CASE Boundary(w)
      <4>1. pc[w] \in Checks
        BY <3>1 DEF Boundary
      <4>2. Proceed[pc[w]] # "register"
        BY <4>1 DEF Proceed, Checks
      <4>3. QED
        BY <1>t, <3>1, <4>2 DEF Boundary, Leave, Goto
    <3>2. CASE ~Boundary(w)
      BY <1>t, <1>4, <3>2 DEF WorkerStep, ResolveGates, Claim, ReadItem, OpenItem, RecordProgress, NextPage, Discard,
             Release, FetchPage, SavePages, Cleanup, Fail, Goto, Leave
    <3>3. QED
      BY <3>1, <3>2
  <2>3. QED
    BY <1>k, <1>c, <2>1, <2>2 DEF ReadInv, DownloadedIsReadable, Readable
<1>5. QED
  BY <1>1, <1>2, <1>3, <1>4

\* A migration removes the files of the chapters it retires, and of no other.
LEMMA OthersReadable ==
    ASSUME TypeInv, ReadInv, UserCommand \/ HandlerStep \/ Crash \/ Restart,
           \A c, d \in Chapters : PathOf[c] = PathOf[d] => c = d
    PROVE  ReadInv'
<1>t. /\ library \subseteq Chapters /\ downloaded \subseteq library
      /\ archive \in [Paths -> Chapters \cup {None, Removed}] /\ PathOf \in [Chapters -> Paths]
  BY DEF TypeInv, TypeOK, TableOK, FilesOK
<1>1. ASSUME NEW s \in Sources, RetireChapters(s) PROVE ReadInv'
  <2> DEFINE retired == {c \in library : SourceOf[c] = s}
  <2>1. /\ UNCHANGED workerVars /\ library' = library \ retired /\ downloaded' = downloaded \ retired
        /\ archive' = archive \/ RemoveFile({PathOf[c] : c \in retired \cap downloaded})
    BY <1>1 DEF RetireChapters, Command
  <2>2. ASSUME NEW c \in library, c \notin retired, Readable(c) PROVE Readable(c)'
    <3>1. PathOf[c] \in Paths /\ PathOf[c] \notin {PathOf[d] : d \in retired \cap downloaded}
      BY <1>t, <2>2
    <3>2. QED
      BY <1>t, <2>1, <2>2, <3>1 DEF RemoveFile, Readable
  <2>3. QED
    BY <1>t, <2>1, <2>2 DEF ReadInv, DownloadedIsReadable, workerVars
<1>2. CASE UserCommand /\ ~\E s \in Sources : RetireChapters(s)
  <2>1. UNCHANGED <<workerVars, library, downloaded, archive>>
    BY <1>2 DEF UserCommand, EnqueueChapter, PauseItem, ResumeItem, RetryItem, Transition, Cancel, CancelAll,
                CancelRows, RetryFailedItems, PauseSource, ResumeSource, PauseAll, ResumeAll, Reorder, Command,
                tableVars, fileVars
  <2>2. QED
    BY <2>1 DEF ReadInv, DownloadedIsReadable, Readable, workerVars
<1>3. CASE HandlerStep \/ Restart
  <2>1. UNCHANGED <<workerVars, library, downloaded, archive>>
    BY <1>3 DEF HandlerStep, YieldSuperseded, DiscardCanceled, Restart, tableVars, fileVars
  <2>2. QED
    BY <2>1 DEF ReadInv, DownloadedIsReadable, Readable, workerVars
<1>4. CASE Crash
  BY <1>4 DEF Crash, ReadInv, DownloadedIsReadable, Readable, tableVars, fileVars, Working
<1>5. QED
  BY <1>1, <1>2, <1>3, <1>4

\* A chapter the library calls downloaded has its own pages at its path, when no two chapters
\* share a path and either the title keeps its chapters as folders, which os.Remove does not
\* delete, or the page rows can be written and no command takes a row from the worker that
\* holds it.  Otherwise the refused completion of a second download deletes the file of the
\* first, as the run "lost_archive" shows.  What is exempt where a rename does not replace
\* is the archive that a second download took away and has not put back (Readable).
THEOREM DownloadedStaysReadable ==
    ASSUME \A c, d \in Chapters : PathOf[c] = PathOf[d] => c = d,
           Format = "folder" \/ (DbFaults = FALSE /\ Commands \cap Disturbing = {})
    PROVE  Spec => []DownloadedIsReadable
<1>1. Init => ReadInv
  BY DEF Init, ReadInv, DownloadedIsReadable, Working
<1>2. Base /\ Removable /\ ReadInv /\ [Next]_vars => ReadInv'
  <2> SUFFICES ASSUME Base, Removable, ReadInv, [Next]_vars PROVE ReadInv'
    OBVIOUS
  <2>1. CASE UNCHANGED vars
    BY <2>1 DEF vars, tableVars, fileVars, workerVars, ReadInv, DownloadedIsReadable,
       Readable
  <2>2. QED
    BY <2>1, WorkerReadable, OthersReadable DEF Next, Base
<1>3. ReadInv => DownloadedIsReadable
  BY DEF ReadInv
<1>4. Spec => []Removable
  <2>1. CASE Format = "folder"
    <3>1. Base => Removable
      BY <2>1 DEF Removable
    <3>2. QED
      BY <3>1, BaseHolds, PTL
  <2>2. CASE DbFaults = FALSE /\ Commands \cap Disturbing = {}
    <3>1. Spec => []Owned
      BY <2>2, OwnedHolds
    <3>2. Owned => Removable
      BY DEF Owned, Removable
    <3>3. QED
      BY <3>1, <3>2, PTL
  <2>3. QED
    BY <2>1, <2>2
<1>5. QED
  BY <1>1, <1>2, <1>3, <1>4, BaseHolds, PTL DEF Spec

=============================================================================
