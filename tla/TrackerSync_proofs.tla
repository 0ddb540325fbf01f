------------------------- MODULE TrackerSync_proofs -------------------------
(***************************************************************************)
(* Proofs about TrackerSync for every set of workers, requests, entries    *)
(* and chapter numbers, and every bound.                                   *)
(***************************************************************************)
EXTENDS TrackerSync, TLAPS

-----------------------------------------------------------------------------
(* The inductive invariant                                                 *)

Worker == [pc : {"down", "idle", "read", "push", "mark", "complete"}, job : JobIds \cup {None},
           copy : Copy \cup {None}]
Call == [pc : {"idle", "enqueue", "finish", "date", "upsert", "forget", "zero", "rate", "keep"},
         copy : BindingIds \cup Lookup \cup {None}, number : Nat, job : JobIds \cup {None},
         score : Scores \cup {None}, to : Remotes \cup {None}]
Progresses == {0} \cup {Progress(n) : n \in Numbers}

TypeInv ==
    /\ binding \in Binding \cup {None} /\ jobs \in [JobIds -> Job \cup {None}]
    /\ worker \in [Workers -> Worker] /\ call \in [Calls -> Call]
    /\ remote \in [Remotes -> Progresses] /\ pushed \subseteq Remotes \X Numbers
    /\ reads \in 0 .. MaxReads /\ changes \in 0 .. MaxChanges

\* One row for a chapter of a binding.
JobsApart ==
    \A j, k \in JobIds : /\ jobs[j] # None /\ jobs[k] # None
                         /\ jobs[j].binding = jobs[k].binding /\ jobs[j].number = jobs[k].number
                         => j = k

\* A worker at a job carries the binding and the chapter of the row, if the row is still
\* there; what it is about to record the site has accepted.
WorkerFits(r) ==
    /\ r.pc \in {"idle", "down"} => r.job = None
    /\ r.pc \notin {"idle", "down"} => r.job \in JobIds
    /\ r.pc \in {"push", "mark", "complete"} <=> r.copy # None
    /\ r.job \in JobIds /\ r.copy # None /\ jobs[r.job] # None =>
          jobs[r.job].binding = r.copy.id /\ jobs[r.job].number = r.copy.number
    /\ r.pc \in {"mark", "complete"} => <<r.copy.remote, r.copy.number>> \in pushed

CallFits(r) ==
    /\ r.pc \in {"enqueue", "date"} => r.copy \in BindingIds
    /\ r.pc \in {"enqueue", "finish", "date"} => r.number \in Numbers
    /\ r.pc \in {"date", "upsert", "rate"} => r.to \in Remotes
    /\ r.pc = "upsert" => r.number \in BindingIds
    /\ r.pc = "rate" => r.number \in Numbers \cup {0}
    /\ r.pc = "enqueue" => r.job \in JobIds
    /\ r.pc = "upsert" => r.copy \in Lookup \cup {None}
    /\ r.pc \in {"forget", "zero"} => r.copy \in Lookup

\* A row's id is given out once: the id a request will insert has no row and no worker.
IdsFresh ==
    /\ \A j \in JobIds : jobs[j] # None => j <= reads
    /\ \A w \in Workers : worker[w].job \in JobIds => worker[w].job <= reads
    /\ \A c \in Calls : call[c].pc = "enqueue" =>
          /\ call[c].job <= reads /\ jobs[call[c].job] = None
          /\ \A w \in Workers : worker[w].job # call[c].job
          /\ \A d \in Calls : call[d].pc = "enqueue" /\ call[d].job = call[c].job => d = c

SyncInv ==
    /\ TypeInv /\ JobsApart /\ IdsFresh
    /\ \A w \in Workers : WorkerFits(worker[w])
    /\ \A c \in Calls : CallFits(call[c])
    /\ NoStrandedJob

-----------------------------------------------------------------------------
(* Rows that change, workers and requests that move                        *)

\* Rows change their status or go: none appears, none is about another chapter.
RowsAge ==
    /\ jobs' \in [JobIds -> Job \cup {None}]
    /\ \A j \in JobIds : jobs'[j] # None =>
          jobs[j] # None /\ jobs'[j].binding = jobs[j].binding /\ jobs'[j].number = jobs[j].number

\* The table keeps one row for a chapter, and no worker is misled.
LEMMA AgedRowsFit ==
    ASSUME SyncInv, RowsAge, pushed \subseteq pushed'
    PROVE  /\ JobsApart'
           /\ \A r \in Worker : WorkerFits(r) => WorkerFits(r)'
<1>1. JobsApart'
  BY DEF SyncInv, JobsApart, RowsAge
<1>2. ASSUME NEW r \in Worker, WorkerFits(r) PROVE WorkerFits(r)'
  BY <1>2 DEF WorkerFits, RowsAge
<1>3. QED
  BY <1>1, <1>2

\* Rows age and one worker moves to a job that has a row, or leaves.
LEMMA WorkerKeeps ==
    ASSUME SyncInv, RowsAge, NEW w \in Workers, NEW r \in Worker, worker' = [worker EXCEPT ![w] = r],
           WorkerFits(r)', r.job = worker[w].job \/ r.job = None \/ jobs[r.job] # None,
           UNCHANGED <<reads, changes>>, call' \in [Calls -> Call],
           \A c \in Calls : call'[c] = call[c] \/ call'[c].pc = "idle",
           binding' \in Binding \cup {None},
           remote' \in [Remotes -> Progresses], pushed \subseteq pushed', pushed' \subseteq Remotes \X Numbers,
           \A j \in JobIds : jobs'[j] # None /\ jobs'[j].status = "RUNNING" =>
              \/ killed'
              \/ \E v \in Workers : worker'[v].job = j
    PROVE  SyncInv'
<1>1. /\ worker' \in [Workers -> Worker] /\ worker'[w] = r /\ \A v \in Workers \ {w} : worker'[v] = worker[v]
      /\ \A v \in Workers : worker[v] \in Worker /\ WorkerFits(worker[v])
  BY DEF SyncInv, TypeInv
<1>2. TypeInv'
  BY <1>1 DEF SyncInv, TypeInv, RowsAge
<1>3. JobsApart' /\ \A v \in Workers : WorkerFits(worker[v])'
  <2>1. \A v \in Workers \ {w} : WorkerFits(worker[v])'
    <3> SUFFICES ASSUME NEW v \in Workers \ {w} PROVE WorkerFits(worker[v])'
      OBVIOUS
    <3>1. worker'[v] = worker[v] /\ worker[v] \in Worker /\ WorkerFits(worker[v])
      BY <1>1
    <3>2. QED
      BY <3>1 DEF WorkerFits, RowsAge
  <2>2. QED
    BY <1>1, <2>1, AgedRowsFit DEF WorkerFits
<1>4. IdsFresh'
  <2>1. \A v \in Workers : \/ worker'[v].job = worker[v].job
                           \/ worker'[v].job = None
                           \/ jobs[worker'[v].job] # None
    BY <1>1
  <2>2. \A c \in Calls : call'[c].pc = "enqueue" => call'[c] = call[c] /\ call[c].job \in JobIds
    BY DEF SyncInv, CallFits
  <2>3. QED
    BY <2>1, <2>2, NoneAssumption DEF SyncInv, IdsFresh, RowsAge
<1>5. \A c \in Calls : CallFits(call[c])'
  BY DEF SyncInv, CallFits
<1>6. NoStrandedJob'
  BY DEF NoStrandedJob, Has, Stored
<1>7. QED
  BY <1>2, <1>3, <1>4, <1>5, <1>6 DEF SyncInv

\* Rows age while a request moves; it inserts nothing next.
LEMMA CallKeeps ==
    ASSUME SyncInv, RowsAge, call' \in [Calls -> Call], UNCHANGED <<worker, killed, reads>>,
           changes' \in 0 .. MaxChanges,
           \A c \in Calls : call'[c] # call[c] => CallFits(call[c])' /\ call'[c].pc # "enqueue",
           binding' \in Binding \cup {None},
           remote' \in [Remotes -> Progresses], pushed \subseteq pushed', pushed' \subseteq Remotes \X Numbers,
           \A j \in JobIds : jobs'[j] # None => jobs'[j].status \in {"PENDING", jobs[j].status}
    PROVE  SyncInv'
<1>1. TypeInv'
  BY DEF SyncInv, TypeInv, RowsAge
<1>2. JobsApart' /\ \A v \in Workers : WorkerFits(worker[v])'
  <2>1. ASSUME NEW v \in Workers PROVE WorkerFits(worker[v])'
    <3>1. worker'[v] = worker[v] /\ worker[v] \in Worker /\ WorkerFits(worker[v])
      BY DEF SyncInv, TypeInv
    <3>2. QED
      BY <3>1 DEF WorkerFits, RowsAge
  <2>2. QED
    BY <2>1, AgedRowsFit
<1>3. IdsFresh'
  <2>1. \A c \in Calls : call'[c].pc = "enqueue" => call'[c] = call[c] /\ call[c].job \in JobIds
    BY DEF SyncInv, CallFits
  <2>2. QED
    BY <2>1 DEF SyncInv, IdsFresh, RowsAge
<1>4. \A c \in Calls : CallFits(call[c])'
  BY DEF SyncInv, CallFits
<1>5. NoStrandedJob'
  BY DEF SyncInv, NoStrandedJob, Has, Stored, RowsAge
<1>6. QED
  BY <1>1, <1>2, <1>3, <1>4, <1>5 DEF SyncInv

LEMMA SameRows ==
    ASSUME SyncInv, jobs' = jobs
    PROVE  RowsAge /\ \A j \in JobIds : jobs'[j] # None => jobs'[j].status \in {"PENDING", jobs[j].status}
BY DEF SyncInv, TypeInv, RowsAge

-----------------------------------------------------------------------------
(* The steps of the workers                                                *)

\* What the tables, the site and the requests hold.
LEMMA AtRest ==
    ASSUME SyncInv
    PROVE  /\ \A j \in JobIds : jobs[j] # None => jobs[j] \in Job
           /\ binding # None => binding \in Binding
           /\ jobs \in [JobIds -> Job \cup {None}] /\ None \notin JobIds
           /\ call \in [Calls -> Call] /\ worker \in [Workers -> Worker]
           /\ binding \in Binding \cup {None} /\ remote \in [Remotes -> Progresses]
           /\ pushed \subseteq Remotes \X Numbers /\ changes \in 0 .. MaxChanges
           /\ \A c \in Calls : call[c] \in Call /\ CallFits(call[c])
BY NoneAssumption DEF SyncInv, TypeInv

\* A worker's locals, and the rows it sees.
LEMMA AtWork ==
    ASSUME SyncInv, NEW w \in Workers
    PROVE  /\ worker[w] \in Worker /\ WorkerFits(worker[w])
           /\ \A j \in JobIds : jobs[j] # None => jobs[j] \in Job
           /\ binding # None => binding \in Binding
           /\ worker[w].copy # None => worker[w].copy \in Copy
           /\ jobs \in [JobIds -> Job \cup {None}] /\ None \notin JobIds
           /\ call \in [Calls -> Call] /\ worker \in [Workers -> Worker]
           /\ binding \in Binding \cup {None} /\ remote \in [Remotes -> Progresses]
           /\ pushed \subseteq Remotes \X Numbers
BY NoneAssumption DEF SyncInv, TypeInv, Worker

LEMMA StartKeeps ==
    ASSUME SyncInv, NEW w \in Workers, Start(w)
    PROVE  SyncInv'
<1>1. /\ worker[w].pc = "down" /\ Goto(w, "idle") /\ Prepare
      /\ UNCHANGED <<binding, call, remote, pushed, reads, changes>>
  BY DEF Start, At, siteVars
<1>2. PICK r \in Worker : /\ worker' = [worker EXCEPT ![w] = r]
                          /\ r.pc = "idle" /\ r.job = None /\ r.copy = None
  <2> DEFINE q == [worker[w] EXCEPT !.pc = "idle"]
  <2>1. q \in Worker /\ q.pc = "idle" /\ q.job = None /\ q.copy = None
    BY <1>1, AtWork DEF Worker, WorkerFits
  <2>2. worker' = [worker EXCEPT ![w] = q]
    BY <1>1 DEF Goto
  <2>3. QED
    BY <2>1, <2>2
<1>3. WorkerFits(r)'
  BY <1>2, NoneAssumption DEF WorkerFits
<1>4. RowsAge /\ \A j \in JobIds : jobs'[j] # None =>
         jobs'[j].status # "RUNNING" /\ jobs'[j].status \in {"PENDING", jobs[j].status}
  <2>1. ASSUME NEW j \in JobIds, Has(j, "RUNNING")
        PROVE  /\ jobs'[j] \in Job /\ jobs'[j].status = "PENDING"
               /\ jobs[j] # None /\ jobs'[j].binding = jobs[j].binding /\ jobs'[j].number = jobs[j].number
    <3>1. jobs[j] \in Job /\ jobs'[j] = [jobs[j] EXCEPT !.status = "PENDING", !.due = TRUE] /\ jobs[j] # None
      BY <1>1, <2>1, AtWork DEF Prepare, Has, Stored
    <3>2. QED
      BY <3>1 DEF Job
  <2>2. ASSUME NEW j \in JobIds, ~Has(j, "RUNNING")
        PROVE  jobs'[j] = jobs[j] /\ (jobs[j] # None => jobs[j].status # "RUNNING")
    BY <1>1, <2>2 DEF Prepare, Has, Stored
  <2>3. jobs' \in [JobIds -> Job \cup {None}]
    BY <1>1, <2>1, <2>2, AtWork DEF Prepare
  <2>4. QED
    BY <2>1, <2>2, <2>3 DEF RowsAge
<1>5. QED
  BY <1>1, <1>2, <1>3, <1>4, WorkerKeeps, AtWork

LEMMA ClaimKeeps ==
    ASSUME SyncInv, NEW w \in Workers, Claim(w)
    PROVE  SyncInv'
<1>1. PICK j \in JobIds : /\ Has(j, "PENDING") /\ jobs' = [jobs EXCEPT ![j].status = "RUNNING"]
                          /\ worker' = [worker EXCEPT ![w] = [Rest EXCEPT !.pc = "read", !.job = j]]
  BY DEF Claim
<1> DEFINE r == [Rest EXCEPT !.pc = "read", !.job = j]
<1>2. UNCHANGED <<binding, call, remote, pushed, killed, reads, changes>> /\ worker[w].pc = "idle"
  BY DEF Claim, siteVars, countVars, At
<1>3. r \in Worker /\ r.pc = "read" /\ r.job = j /\ r.copy = None
  BY DEF Rest, Worker
<1>4. WorkerFits(r)'
  BY <1>3 DEF WorkerFits
<1>5. jobs[j] \in Job /\ jobs[j] # None /\ worker[w].job = None
  BY <1>1, <1>2, AtWork DEF Has, Stored, WorkerFits
<1>6. /\ jobs'[j] \in Job /\ jobs'[j].status = "RUNNING"
      /\ jobs'[j].binding = jobs[j].binding /\ jobs'[j].number = jobs[j].number
      /\ \A k \in JobIds \ {j} : jobs'[k] = jobs[k]
      /\ jobs' \in [JobIds -> Job \cup {None}]
  <2>1. jobs' = [jobs EXCEPT ![j] = [jobs[j] EXCEPT !.status = "RUNNING"]]
    BY <1>1
  <2>2. [jobs[j] EXCEPT !.status = "RUNNING"] \in Job
    BY <1>5 DEF Job
  <2>3. QED
    BY <1>5, <2>1, <2>2, AtWork DEF Job
<1>7. RowsAge
  BY <1>5, <1>6 DEF RowsAge
<1>8. ASSUME NEW k \in JobIds, jobs'[k] # None, jobs'[k].status = "RUNNING"
      PROVE  killed' \/ \E v \in Workers : worker'[v].job = k
  <2>1. worker'[w].job = j
    BY <1>1, <1>3, AtWork DEF SyncInv, TypeInv
  <2>2. CASE k # j
    <3>1. jobs[k] # None /\ jobs[k].status = "RUNNING"
      BY <1>6, <1>8, <2>2
    <3>2. killed \/ \E v \in Workers : worker[v].job = k
      BY <3>1 DEF SyncInv, NoStrandedJob, Has, Stored
    <3>3. \A v \in Workers : worker[v].job = k => v # w /\ worker'[v] = worker[v]
      BY <1>1, <1>5, AtWork DEF SyncInv, TypeInv
    <3>4. QED
      BY <1>2, <3>2, <3>3
  <2>3. QED
    BY <2>1, <2>2
<1> HIDE DEF r
<1>9. worker' = [worker EXCEPT ![w] = r]
  BY <1>1 DEF r
<1>10. QED
  BY <1>2, <1>3, <1>4, <1>5, <1>7, <1>8, <1>9, WorkerKeeps, AtWork

\* A worker that leaves its job leaves no RUNNING row behind.
LEMMA LeaveKeeps ==
    ASSUME SyncInv, NEW w \in Workers, Leave(w), RowsAge,
           UNCHANGED <<binding, call, killed, reads, changes>>,
           remote' \in [Remotes -> Progresses], pushed \subseteq pushed', pushed' \subseteq Remotes \X Numbers,
           \A j \in JobIds : j # worker[w].job => jobs'[j] = jobs[j],
           \A j \in JobIds : j = worker[w].job /\ jobs'[j] # None => jobs'[j].status # "RUNNING"
    PROVE  SyncInv'
<1>1. Rest \in Worker /\ Rest.pc = "idle" /\ Rest.job = None /\ Rest.copy = None
  BY DEF Rest, Worker
<1>2. WorkerFits(Rest)'
  BY <1>1, NoneAssumption DEF WorkerFits
<1>3. worker' = [worker EXCEPT ![w] = Rest] /\ \A v \in Workers \ {w} : worker'[v] = worker[v]
  BY DEF Leave, SyncInv, TypeInv
<1>4. ASSUME NEW j \in JobIds, jobs'[j] # None, jobs'[j].status = "RUNNING"
      PROVE  killed' \/ \E v \in Workers : worker'[v].job = j
  <2>1. j # worker[w].job /\ jobs[j] # None /\ jobs[j].status = "RUNNING"
    BY <1>4
  <2>2. killed \/ \E v \in Workers : worker[v].job = j
    BY <2>1 DEF SyncInv, NoStrandedJob, Has, Stored
  <2>3. QED
    BY <1>3, <2>1, <2>2
<1>5. QED
  BY <1>1, <1>2, <1>3, <1>4, WorkerKeeps, AtWork

\* The row of a failed job, if it is still there, waits or is given up.
LEMMA FailureAges ==
    ASSUME SyncInv, NEW w \in Workers, worker[w].job \in JobIds, NEW retry \in BOOLEAN, FailTrackerSync(w, retry)
    PROVE  /\ RowsAge
           /\ \A j \in JobIds : j # worker[w].job => jobs'[j] = jobs[j]
           /\ \A j \in JobIds : j = worker[w].job /\ jobs'[j] # None => jobs'[j].status \in {"PENDING", "FAILED"}
<1> DEFINE j == worker[w].job
<1>1. CASE ~Stored(j)
  BY <1>1, AtWork DEF FailTrackerSync, Stored, RowsAge
<1>2. CASE Stored(j)
  <2>1. jobs[j] \in Job /\ jobs[j] # None
    BY <1>2, AtWork DEF Stored
  <2>2. PICK q \in Job : /\ jobs' = [jobs EXCEPT ![j] = q] /\ q.status \in {"PENDING", "FAILED"}
                         /\ q.binding = jobs[j].binding /\ q.number = jobs[j].number
    <3>1. CASE retry
      <4>1. jobs' = [jobs EXCEPT ![j] = [jobs[j] EXCEPT !.status = "PENDING", !.due = FALSE]]
        BY <1>2, <3>1 DEF FailTrackerSync
      <4>2. [jobs[j] EXCEPT !.status = "PENDING", !.due = FALSE] \in Job
        BY <2>1 DEF Job
      <4>3. QED
        BY <2>1, <4>1, <4>2 DEF Job
    <3>2. CASE ~retry
      <4>1. jobs' = [jobs EXCEPT ![j] = [jobs[j] EXCEPT !.status = "FAILED"]]
        BY <1>2, <3>2 DEF FailTrackerSync
      <4>2. [jobs[j] EXCEPT !.status = "FAILED"] \in Job
        BY <2>1 DEF Job
      <4>3. QED
        BY <2>1, <4>1, <4>2 DEF Job
    <3>3. QED
      BY <3>1, <3>2
  <2>3. jobs'[j] = q /\ (\A k \in JobIds : k # j => jobs'[k] = jobs[k]) /\ jobs' \in [JobIds -> Job \cup {None}]
    BY <2>2, AtWork
  <2>4. QED
    BY <2>1, <2>2, <2>3 DEF RowsAge
<1>3. QED
  BY <1>1, <1>2

LEMMA ReadBindingKeeps ==
    ASSUME SyncInv, NEW w \in Workers, ReadBinding(w)
    PROVE  SyncInv'
<1> DEFINE j == worker[w].job
<1>1. /\ worker[w].pc = "read" /\ j \in JobIds
      /\ UNCHANGED <<binding, call, remote, pushed, killed, reads, changes>>
  BY AtWork DEF ReadBinding, At, siteVars, countVars, WorkerFits
<1>2. CASE Stored(j) /\ binding # None /\ binding.id = jobs[j].binding
  <2>1. PICK copy \in Copy : /\ copy.id = jobs[j].binding /\ copy.number = jobs[j].number /\ copy # None
                             /\ jobs' = jobs
                             /\ worker' = [worker EXCEPT ![w].pc = "push", ![w].copy = copy]
    <3> DEFINE copy == [id |-> binding.id, remote |-> binding.remote, number |-> jobs[j].number]
    <3>1. copy \in Copy /\ copy # None
      BY <1>1, <1>2, AtWork, NoneAssumption DEF Copy, Binding, Job, Stored
    <3>2. copy.id = jobs[j].binding /\ copy.number = jobs[j].number
      BY <1>2
    <3>3. QED
      BY <1>2, <3>1, <3>2 DEF ReadBinding
  <2>2. PICK r \in Worker : /\ worker' = [worker EXCEPT ![w] = r]
                            /\ r.pc = "push" /\ r.job = j /\ r.copy = copy
    <3> DEFINE q == [worker[w] EXCEPT !.pc = "push", !.copy = copy]
    <3>1. q \in Worker /\ q.pc = "push" /\ q.job = j /\ q.copy = copy
      BY <2>1, AtWork DEF Worker
    <3>2. QED
      BY <2>1, <3>1
  <2>3. jobs' = jobs
    BY <2>1
  <2>4. WorkerFits(r)'
    BY <1>1, <1>2, <2>1, <2>2, <2>3 DEF WorkerFits
  <2>5. ASSUME NEW k \in JobIds, jobs'[k] # None, jobs'[k].status = "RUNNING"
        PROVE  killed' \/ \E v \in Workers : worker'[v].job = k
    <3>1. killed \/ \E v \in Workers : worker[v].job = k
      BY <2>3, <2>5 DEF SyncInv, NoStrandedJob, Has, Stored
    <3>2. \A v \in Workers : worker'[v].job = worker[v].job
      BY <2>2, AtWork
    <3>3. QED
      BY <1>1, <3>1, <3>2
  <2>6. QED
    BY <1>1, <2>2, <2>3, <2>4, <2>5, WorkerKeeps, SameRows, AtWork
<1>3. CASE ~(Stored(j) /\ binding # None /\ binding.id = jobs[j].binding)
  <2>1. FailTrackerSync(w, FALSE) /\ Leave(w)
    BY <1>3 DEF ReadBinding
  <2>2. QED
    BY <1>1, <2>1, FailureAges, LeaveKeeps DEF SyncInv, TypeInv
<1>4. QED
  BY <1>2, <1>3

\* What a push does to the site: the entry shows the number, and it was accepted.
LEMMA PushReaches ==
    ASSUME SyncInv, NEW r \in Remotes, NEW n \in Numbers,
           remote' = [remote EXCEPT ![r] = Progress(n)], pushed' = pushed \cup {<<r, n>>}
    PROVE  /\ remote' \in [Remotes -> Progresses] /\ <<r, n>> \in pushed'
           /\ pushed \subseteq pushed' /\ pushed' \subseteq Remotes \X Numbers
<1>1. remote \in [Remotes -> Progresses] /\ pushed \subseteq Remotes \X Numbers /\ Progress(n) \in Progresses
  BY DEF SyncInv, TypeInv, Progresses
<1>2. remote' \in [Remotes -> Progresses]
  BY <1>1
<1>3. <<r, n>> \in Remotes \X Numbers
  OBVIOUS
<1>4. QED
  BY <1>1, <1>2, <1>3

LEMMA PushFailsKeeps ==
    ASSUME SyncInv, NEW w \in Workers, PushFails(w)
    PROVE  SyncInv'
<1>1. /\ worker[w].pc = "push" /\ worker[w].job \in JobIds /\ worker[w].copy \in Copy /\ Leave(w)
      /\ UNCHANGED <<binding, call, killed, reads, changes>>
  BY AtWork DEF PushFails, At, WorkerFits
<1>2. PICK retry \in BOOLEAN : FailTrackerSync(w, retry)
  BY DEF PushFails
<1>3. remote' \in [Remotes -> Progresses] /\ pushed \subseteq pushed' /\ pushed' \subseteq Remotes \X Numbers
  <2>1. CASE UNCHANGED <<remote, pushed>>
    BY <2>1, AtWork
  <2>2. CASE /\ remote' = [remote EXCEPT ![worker[w].copy.remote] = Progress(worker[w].copy.number)]
             /\ pushed' = pushed \cup {<<worker[w].copy.remote, worker[w].copy.number>>}
    <3>1. worker[w].copy.remote \in Remotes /\ worker[w].copy.number \in Numbers
      BY <1>1 DEF Copy
    <3>2. QED
      BY <2>2, <3>1, PushReaches
  <2>3. QED
    BY <2>1, <2>2 DEF PushFails
<1>4. QED
  BY <1>1, <1>2, <1>3, FailureAges, LeaveKeeps

\* A worker goes on with the job it is at.
LEMMA GoesOn ==
    ASSUME SyncInv, NEW w \in Workers, NEW l \in {"mark", "complete"}, worker[w].pc \in {"push", "mark", "complete"},
           Goto(w, l), UNCHANGED <<jobs, call, killed, reads, changes>>,
           binding' \in Binding \cup {None},
           remote' \in [Remotes -> Progresses], pushed \subseteq pushed', pushed' \subseteq Remotes \X Numbers,
           <<worker[w].copy.remote, worker[w].copy.number>> \in pushed'
    PROVE  SyncInv'
<1>1. PICK r \in Worker : /\ worker' = [worker EXCEPT ![w] = r]
                          /\ r.pc = l /\ r.job = worker[w].job /\ r.copy = worker[w].copy
  <2> DEFINE q == [worker[w] EXCEPT !.pc = l]
  <2>1. q \in Worker /\ q.pc = l /\ q.job = worker[w].job /\ q.copy = worker[w].copy
    BY AtWork DEF Worker
  <2>2. worker' = [worker EXCEPT ![w] = q]
    BY DEF Goto
  <2>3. QED
    BY <2>1, <2>2
<1>2. WorkerFits(r)'
  BY <1>1, AtWork DEF WorkerFits
<1>3. ASSUME NEW k \in JobIds, jobs'[k] # None, jobs'[k].status = "RUNNING"
      PROVE  killed' \/ \E v \in Workers : worker'[v].job = k
  <2>1. killed \/ \E v \in Workers : worker[v].job = k
    BY <1>3 DEF SyncInv, NoStrandedJob, Has, Stored
  <2>2. \A v \in Workers : worker'[v].job = worker[v].job
    BY <1>1, AtWork
  <2>3. QED
    BY <2>1, <2>2
<1>4. QED
  BY <1>1, <1>2, <1>3, WorkerKeeps, SameRows, AtWork

LEMMA AcceptedKeeps ==
    ASSUME SyncInv, NEW w \in Workers, PushAccepted(w)
    PROVE  SyncInv'
<1>1. /\ worker[w].pc = "push" /\ worker[w].copy \in Copy /\ Goto(w, "mark")
      /\ UNCHANGED <<jobs, binding, call, killed, reads, changes>>
      /\ remote' = [remote EXCEPT ![worker[w].copy.remote] = Progress(worker[w].copy.number)]
      /\ pushed' = pushed \cup {<<worker[w].copy.remote, worker[w].copy.number>>}
  BY AtWork DEF PushAccepted, At, WorkerFits, tableVars, countVars
<1>2. worker[w].copy.remote \in Remotes /\ worker[w].copy.number \in Numbers
  BY <1>1 DEF Copy
<1>3. /\ remote' \in [Remotes -> Progresses] /\ <<worker[w].copy.remote, worker[w].copy.number>> \in pushed'
      /\ pushed \subseteq pushed' /\ pushed' \subseteq Remotes \X Numbers
  BY <1>1, <1>2, PushReaches
<1>4. QED
  BY <1>1, <1>3, GoesOn, AtWork

LEMMA MarkKeeps ==
    ASSUME SyncInv, NEW w \in Workers, Mark(w)
    PROVE  SyncInv'
<1> DEFINE n == worker[w].copy.number
<1>1. /\ worker[w].pc = "mark" /\ worker[w].copy \in Copy /\ Goto(w, "complete")
      /\ <<worker[w].copy.remote, n>> \in pushed
      /\ UNCHANGED <<jobs, call, killed, reads, changes, remote, pushed>>
  BY AtWork DEF Mark, At, WorkerFits, siteVars, countVars
<1>2. n \in Numbers
  BY <1>1 DEF Copy
<1>3. binding' \in Binding \cup {None}
  <2>1. CASE binding # None /\ binding.id = worker[w].copy.id /\ binding' = [binding EXCEPT !.synced = n]
    BY <1>2, <2>1, AtWork DEF Binding
  <2>2. CASE binding' = binding
    BY <2>2, AtWork
  <2>3. QED
    BY <2>1, <2>2 DEF Mark
<1>4. QED
  BY <1>1, <1>3, GoesOn, AtWork

LEMMA CompleteKeeps ==
    ASSUME SyncInv, NEW w \in Workers, Complete(w)
    PROVE  SyncInv'
<1> DEFINE j == worker[w].job
<1>1. /\ worker[w].pc = "complete" /\ j \in JobIds /\ worker[w].copy # None /\ Leave(w)
      /\ <<worker[w].copy.remote, worker[w].copy.number>> \in pushed
      /\ UNCHANGED <<binding, call, killed, reads, changes, remote, pushed>>
  BY AtWork DEF Complete, At, WorkerFits, siteVars, countVars
<1>2. /\ RowsAge
      /\ \A k \in JobIds : k # j => jobs'[k] = jobs[k]
      /\ jobs'[j] # None => jobs'[j].status # "RUNNING"
  <2>1. CASE ~Stored(j)
    BY <1>1, <2>1, AtWork DEF Complete, Stored, RowsAge
  <2>2. CASE Stored(j)
    <3>1. jobs[j] \in Job /\ jobs[j] # None
      BY <1>1, <2>2, AtWork DEF Stored
    <3>2. PICK q \in Job : /\ jobs' = [jobs EXCEPT ![j] = q] /\ q.status = "COMPLETED"
                           /\ q.binding = jobs[j].binding /\ q.number = jobs[j].number
      <4> DEFINE t == [jobs[j] EXCEPT !.status = "COMPLETED"]
      <4>1. t \in Job /\ t.status = "COMPLETED" /\ t.binding = jobs[j].binding /\ t.number = jobs[j].number
        BY <3>1 DEF Job
      <4>2. jobs' = [jobs EXCEPT ![j] = t]
        BY <2>2 DEF Complete
      <4>3. QED
        BY <4>1, <4>2
    <3>3. jobs'[j] = q /\ (\A k \in JobIds : k # j => jobs'[k] = jobs[k]) /\ jobs' \in [JobIds -> Job \cup {None}]
      BY <1>1, <3>2, AtWork
    <3>4. QED
      BY <1>1, <3>1, <3>2, <3>3 DEF RowsAge
  <2>3. QED
    BY <2>1, <2>2
<1>3. QED
  BY <1>1, <1>2, LeaveKeeps, AtWork

\* A drained or killed process forgets its job; after a kill its row may stay RUNNING.
LEMMA DownKeeps ==
    ASSUME SyncInv, NEW w \in Workers, Return(w) \/ Kill(w)
    PROVE  SyncInv'
<1>1. PICK r \in Worker : worker' = [worker EXCEPT ![w] = r] /\ r.pc = "down" /\ r.job = None /\ r.copy = None
  <2> DEFINE q == [Rest EXCEPT !.pc = "down"]
  <2>1. q \in Worker /\ q.pc = "down" /\ q.job = None /\ q.copy = None
    BY DEF Rest, Worker
  <2>2. worker' = [worker EXCEPT ![w] = q]
    BY DEF Return, Kill
  <2>3. QED
    BY <2>1, <2>2
<1>2. UNCHANGED <<jobs, binding, remote, pushed, reads, changes>>
  BY DEF Return, Kill, tableVars, siteVars, countVars
<1>3. WorkerFits(r)'
  BY <1>1, NoneAssumption DEF WorkerFits
<1>4. call' \in [Calls -> Call] /\ \A c \in Calls : call'[c] = call[c] \/ call'[c].pc = "idle"
  <2>1. Free \in Call /\ Free.pc = "idle"
    BY DEF Free, Call
  <2>2. call' \in {call, [c \in Calls |-> Free]}
    BY DEF Return, Kill
  <2>3. QED
    BY <2>1, <2>2, AtWork
<1>5. ASSUME NEW k \in JobIds, jobs'[k] # None, jobs'[k].status = "RUNNING"
      PROVE  killed' \/ \E v \in Workers : worker'[v].job = k
  <2>1. CASE Kill(w)
    BY <2>1 DEF Kill
  <2>2. CASE Return(w)
    <3>1. killed \/ \E v \in Workers : worker[v].job = k
      BY <1>2, <1>5 DEF SyncInv, NoStrandedJob, Has, Stored
    <3>2. worker[w].job = None /\ killed' = killed
      BY <2>2, AtWork DEF Return, At, WorkerFits
    <3>3. \A v \in Workers : worker[v].job = k => v # w /\ worker'[v] = worker[v]
      BY <1>1, <3>2, AtWork
    <3>4. QED
      BY <3>1, <3>2, <3>3
  <2>3. QED
    BY <2>1, <2>2
<1>6. QED
  BY <1>1, <1>2, <1>3, <1>4, <1>5, WorkerKeeps, SameRows, AtWork

\* Time and the daemon's pruning change rows only.
LEMMA TimeKeeps ==
    ASSUME SyncInv, Prune \/ \E j \in JobIds : BecomeDue(j)
    PROVE  SyncInv'
<1>1. UNCHANGED <<binding, worker, call, remote, pushed, killed, reads, changes>>
  BY DEF Prune, BecomeDue, siteVars, countVars
<1>2. RowsAge /\ \A j \in JobIds : jobs'[j] # None => jobs'[j].status = jobs[j].status
  <2>1. CASE Prune
    <3>1. \A j \in JobIds : jobs'[j] \in {None, jobs[j]}
      BY <2>1 DEF Prune
    <3>2. jobs' \in [JobIds -> Job \cup {None}]
      BY <2>1, <3>1, AtRest DEF Prune
    <3>3. QED
      BY <3>1, <3>2 DEF RowsAge
  <2>2. ASSUME NEW j \in JobIds, BecomeDue(j)
        PROVE  RowsAge /\ \A k \in JobIds : jobs'[k] # None => jobs'[k].status = jobs[k].status
    <3>1. jobs[j] \in Job /\ jobs[j] # None /\ jobs' = [jobs EXCEPT ![j] = [jobs[j] EXCEPT !.due = TRUE]]
      BY <2>2, AtRest DEF BecomeDue, Has, Stored
    <3>2. [jobs[j] EXCEPT !.due = TRUE] \in Job
      BY <3>1 DEF Job
    <3>3. /\ jobs' \in [JobIds -> Job \cup {None}]
          /\ \A k \in JobIds : k # j => jobs'[k] = jobs[k]
      BY <3>1, <3>2, AtRest
    <3>4. jobs'[j].status = jobs[j].status /\ jobs'[j].binding = jobs[j].binding /\ jobs'[j].number = jobs[j].number
      BY <3>1, AtRest DEF Job
    <3>5. QED
      BY <3>1, <3>3, <3>4 DEF RowsAge
  <2>3. QED
    BY <2>1, <2>2
<1>3. \A c \in Calls : call'[c] = call[c]
  BY <1>1
<1>4. changes' \in 0 .. MaxChanges
  BY <1>1 DEF SyncInv, TypeInv
<1>5. QED
  BY <1>1, <1>2, <1>3, <1>4, CallKeeps, AtRest

-----------------------------------------------------------------------------
(* The steps of the requests                                               *)

LEMMA OneCallKeeps ==
    ASSUME SyncInv, RowsAge, NEW c \in Calls, NEW r \in Call, call' = [call EXCEPT ![c] = r],
           CallFits(r), r.pc # "enqueue",
           UNCHANGED <<worker, killed, reads>>, changes' \in 0 .. MaxChanges,
           binding' \in Binding \cup {None},
           remote' \in [Remotes -> Progresses], pushed \subseteq pushed', pushed' \subseteq Remotes \X Numbers,
           \A j \in JobIds : jobs'[j] # None => jobs'[j].status \in {"PENDING", jobs[j].status}
    PROVE  SyncInv'
<1>1. /\ call' \in [Calls -> Call] /\ call'[c] = r /\ \A d \in Calls : d # c => call'[d] = call[d]
  BY AtRest
<1>2. CallFits(r)'
  BY DEF CallFits
<1>3. \A d \in Calls : call'[d] # call[d] => CallFits(call[d])' /\ call'[d].pc # "enqueue"
  BY <1>1, <1>2 DEF CallFits
<1>4. QED
  BY <1>1, <1>3, CallKeeps

LEMMA FreeFits == Free \in Call /\ CallFits(Free) /\ Free.pc # "enqueue"
BY DEF Free, Call, CallFits

\* A request that goes on keeps its locals.
LEMMA CallGoes ==
    ASSUME SyncInv, NEW c \in Calls, NEW l \in {"finish", "forget", "zero", "keep"}, CallGoto(c, l),
           l = "finish" => call[c].number \in Numbers,
           l \in {"forget", "zero"} => call[c].copy \in Lookup
    PROVE  \E r \in Call : call' = [call EXCEPT ![c] = r] /\ CallFits(r) /\ r.pc # "enqueue"
<1> DEFINE r == [call[c] EXCEPT !.pc = l]
<1>1. r \in Call /\ r.pc = l /\ r.number = call[c].number /\ r.copy = call[c].copy
  BY AtRest DEF Call
<1>2. CallFits(r)
  BY <1>1 DEF CallFits
<1>3. call' = [call EXCEPT ![c] = r]
  BY DEF CallGoto
<1>4. QED
  BY <1>1, <1>2, <1>3

\* A chapter is read: its request gets an id no row and no worker has had.
LEMMA ReadKeeps ==
    ASSUME SyncInv, NEW c \in Calls, NEW n \in Numbers, Read(c, n)
    PROVE  SyncInv'
<1>1. /\ call[c].pc = "idle" /\ binding \in Binding /\ reads < MaxReads /\ reads' = reads + 1
      /\ UNCHANGED <<jobs, binding, worker, remote, pushed, killed, changes>>
      /\ reads \in 0 .. MaxReads /\ MaxReads \in Nat
  BY AtRest, SyncBoundAssumption DEF Read, CallAt, SyncInv, TypeInv, tableVars, siteVars
<1>2. reads' \in JobIds /\ reads' \in 0 .. MaxReads /\ reads \in Nat
  BY <1>1 DEF JobIds
<1>3. PICK r \in Call : /\ call' = [call EXCEPT ![c] = r] /\ r.pc = "enqueue" /\ r.number = n
                        /\ r.job = reads' /\ r.copy = binding.id
  <2> DEFINE q == [Free EXCEPT !.pc = "enqueue", !.number = n, !.job = reads', !.copy = binding.id]
  <2>1. n \in Nat /\ binding.id \in BindingIds
    BY <1>1, SyncBoundAssumption DEF Binding
  <2>2. q \in Call /\ q.pc = "enqueue" /\ q.number = n /\ q.job = reads' /\ q.copy = binding.id
    BY <1>2, <2>1 DEF Free, Call
  <2>3. call' = [call EXCEPT ![c] = q]
    BY DEF Read
  <2>4. QED
    BY <2>2, <2>3
<1>4. call' \in [Calls -> Call] /\ call'[c] = r /\ \A d \in Calls : d # c => call'[d] = call[d]
  BY <1>3, AtRest
<1>5. TypeInv'
  BY <1>1, <1>2, <1>4 DEF SyncInv, TypeInv
<1>6. CallFits(r)
  BY <1>1, <1>2, <1>3 DEF CallFits, Binding
<1>7. \A d \in Calls : CallFits(call[d])'
  BY <1>4, <1>6 DEF SyncInv, CallFits
<1>8. IdsFresh'
  <2>1. \A j \in JobIds : jobs[j] # None => j < reads'
    BY <1>1, <1>2 DEF SyncInv, IdsFresh, JobIds
  <2>2. \A w \in Workers : worker[w].job \in JobIds => worker[w].job < reads'
    BY <1>1, <1>2 DEF SyncInv, IdsFresh, JobIds
  <2>3. \A d \in Calls : call[d].pc = "enqueue" => call[d].job \in JobIds /\ call[d].job < reads'
    BY <1>1, <1>2 DEF SyncInv, IdsFresh, CallFits, JobIds
  <2>4. reads' \in Nat /\ \A j \in JobIds : j < reads' => j <= reads' /\ j # reads'
    BY <1>2 DEF JobIds
  <2>5. jobs[reads'] = None /\ \A w \in Workers : worker[w].job # reads'
    BY <1>2, <2>1, <2>2, <2>4
  <2>6. ASSUME NEW d \in Calls, call'[d].pc = "enqueue"
        PROVE  /\ call'[d].job <= reads' /\ jobs[call'[d].job] = None
               /\ \A w \in Workers : worker[w].job # call'[d].job
               /\ \A e \in Calls : call'[e].pc = "enqueue" /\ call'[e].job = call'[d].job => e = d
    <3>1. CASE d = c
      BY <1>3, <1>4, <2>3, <2>4, <2>5, <3>1, <1>2
    <3>2. CASE d # c
      <4>1. call'[d] = call[d] /\ call[d].pc = "enqueue"
        BY <1>4, <2>6, <3>2
      <4>2. call[d].job \in JobIds /\ call[d].job < reads' /\ call[d].job # reads'
        BY <2>3, <2>4, <4>1
      <4>3. QED
        BY <1>3, <1>4, <2>4, <4>1, <4>2 DEF SyncInv, IdsFresh
    <3>3. QED
      BY <3>1, <3>2
  <2>7. QED
    BY <1>1, <2>1, <2>2, <2>4, <2>6 DEF IdsFresh
<1>9. JobsApart' /\ (\A w \in Workers : WorkerFits(worker[w])') /\ NoStrandedJob'
  BY <1>1 DEF SyncInv, JobsApart, WorkerFits, NoStrandedJob, Has, Stored
<1>10. QED
  BY <1>5, <1>7, <1>8, <1>9 DEF SyncInv

\* The row of a chapter that has none: its id is fresh and its chapter is nobody else's.
LEMMA InsertKeeps ==
    ASSUME SyncInv, NEW c \in Calls, call[c].pc = "enqueue", SameJob(call[c].copy, call[c].number) = {},
           NEW q \in Job, q.binding = call[c].copy, q.number = call[c].number, q.status = "PENDING",
           jobs' = [jobs EXCEPT ![call[c].job] = q], CallGoto(c, "finish"),
           UNCHANGED <<binding, worker, remote, pushed, killed, reads, changes>>
    PROVE  SyncInv'
<1> DEFINE i == call[c].job
<1>1. /\ i \in JobIds /\ call[c].number \in Numbers /\ jobs[i] = None
      /\ \A w \in Workers : worker[w].job # i
      /\ \A d \in Calls : call[d].pc = "enqueue" /\ call[d].job = i => d = c
      /\ i <= reads
  BY DEF SyncInv, CallFits, IdsFresh
<1>2. PICK r \in Call : call' = [call EXCEPT ![c] = r] /\ CallFits(r) /\ r.pc # "enqueue"
  BY <1>1, CallGoes
<1>3. call' \in [Calls -> Call] /\ call'[c] = r /\ \A d \in Calls : d # c => call'[d] = call[d]
  BY <1>2, AtRest
<1>4. jobs' \in [JobIds -> Job \cup {None}] /\ jobs'[i] = q /\ \A j \in JobIds : j # i => jobs'[j] = jobs[j]
  BY <1>1, AtRest
<1>5. TypeInv'
  BY <1>3, <1>4 DEF SyncInv, TypeInv
<1>6. \A j \in JobIds : jobs[j] # None => jobs[j].binding # q.binding \/ jobs[j].number # q.number
  BY DEF SameJob, Stored
<1>7. JobsApart'
  BY <1>4, <1>6 DEF SyncInv, JobsApart
<1>8. ASSUME NEW w \in Workers PROVE WorkerFits(worker[w])'
  <2>1. worker'[w] = worker[w] /\ WorkerFits(worker[w]) /\ worker[w].job # i
    BY <1>1, AtWork
  <2>2. worker[w].job \in JobIds => jobs'[worker[w].job] = jobs[worker[w].job]
    BY <1>4, <2>1
  <2>3. QED
    BY <2>1, <2>2 DEF WorkerFits
<1>9. \A d \in Calls : CallFits(call[d])'
  BY <1>2, <1>3 DEF SyncInv, CallFits
<1>10. IdsFresh'
  <2>1. \A d \in Calls : call'[d].pc = "enqueue" => d # c /\ call'[d] = call[d] /\ call[d].job \in JobIds /\ call[d].job # i
    BY <1>1, <1>2, <1>3, AtRest DEF CallFits
  <2>2. QED
    BY <1>1, <1>4, <2>1 DEF SyncInv, IdsFresh
<1>11. NoStrandedJob'
  BY <1>4 DEF SyncInv, NoStrandedJob, Has, Stored
<1>12. QED
  BY <1>5, <1>7, <1>8, <1>9, <1>10, <1>11 DEF SyncInv

LEMMA EnqueueKeeps ==
    ASSUME SyncInv, NEW c \in Calls, Enqueue(c)
    PROVE  SyncInv'
<1> DEFINE id == call[c].copy
           n == call[c].number
<1>1. /\ call[c].pc = "enqueue" /\ id \in BindingIds /\ n \in Numbers /\ CallGoto(c, "finish")
      /\ UNCHANGED <<binding, worker, remote, pushed, killed, reads, changes>>
  BY AtRest DEF Enqueue, CallAt, CallFits, siteVars, countVars
<1>2. ASSUME RowsAge, \A j \in JobIds : jobs'[j] # None => jobs'[j].status \in {"PENDING", jobs[j].status}
      PROVE  SyncInv'
  BY <1>1, <1>2, CallGoes, OneCallKeeps, AtRest
<1>3. CASE binding = None \/ (binding # None /\ binding.id # id)
  BY <1>2, <1>3, SameRows DEF Enqueue
<1>4. CASE ~(binding = None \/ (binding # None /\ binding.id # id)) /\ SameJob(id, n) = {}
  <2> DEFINE q == [binding |-> id, number |-> n, due |-> TRUE, status |-> "PENDING"]
  <2>1. q \in Job
    BY <1>1 DEF Job
  <2>2. jobs' = [jobs EXCEPT ![call[c].job] = q]
    BY <1>4 DEF Enqueue
  <2>3. QED
    BY <1>1, <1>4, <2>1, <2>2, InsertKeeps
<1>5. CASE ~(binding = None \/ (binding # None /\ binding.id # id)) /\ SameJob(id, n) # {}
  <2>1. jobs' = [j \in JobIds |-> IF j \in SameJob(id, n) /\ jobs[j].status # "COMPLETED"
                                  THEN [jobs[j] EXCEPT !.status = "PENDING", !.due = TRUE]
                                  ELSE jobs[j]]
    BY <1>5 DEF Enqueue
  <2>2. ASSUME NEW j \in JobIds, j \in SameJob(id, n), jobs[j].status # "COMPLETED"
        PROVE  /\ jobs'[j] \in Job /\ jobs'[j].status = "PENDING" /\ jobs[j] # None
               /\ jobs'[j].binding = jobs[j].binding /\ jobs'[j].number = jobs[j].number
    <3>1. jobs[j] \in Job /\ jobs[j] # None
      BY <2>2, AtRest DEF SameJob, Stored
    <3>2. jobs'[j] = [jobs[j] EXCEPT !.status = "PENDING", !.due = TRUE]
      BY <2>1, <2>2
    <3>3. QED
      BY <3>1, <3>2 DEF Job
  <2>3. ASSUME NEW j \in JobIds, ~(j \in SameJob(id, n) /\ jobs[j].status # "COMPLETED")
        PROVE  jobs'[j] = jobs[j]
    BY <2>1, <2>3
  <2>4. jobs' \in [JobIds -> Job \cup {None}]
    BY <2>1, <2>2, <2>3, AtRest
  <2>5. RowsAge /\ \A j \in JobIds : jobs'[j] # None => jobs'[j].status \in {"PENDING", jobs[j].status}
    BY <2>2, <2>3, <2>4 DEF RowsAge
  <2>6. QED
    BY <1>2, <2>5
<1>6. QED
  BY <1>3, <1>4, <1>5

\* A request that pushes, or looks something up to push it.
LEMMA PushesKeep ==
    ASSUME SyncInv, NEW c \in Calls, Finish(c) \/ PushDate(c) \/ PushScore(c)
    PROVE  SyncInv'
<1>1. UNCHANGED <<binding, jobs, worker, killed, reads, changes>> /\ call[c] \in Call /\ CallFits(call[c])
  BY AtRest DEF Finish, PushDate, PushScore, tableVars, countVars
<1>2. remote' \in [Remotes -> Progresses] /\ pushed \subseteq pushed' /\ pushed' \subseteq Remotes \X Numbers
  <2>1. CASE UNCHANGED <<remote, pushed>>
    BY <2>1, AtRest
  <2>2. CASE /\ CallAt(c, "date")
             /\ remote' = [remote EXCEPT ![call[c].to] = Progress(call[c].number)]
             /\ pushed' = pushed \cup {<<call[c].to, call[c].number>>}
    <3>1. call[c].to \in Remotes /\ call[c].number \in Numbers
      BY <1>1, <2>2 DEF CallFits, CallAt
    <3>2. QED
      BY <2>2, <3>1, PushReaches
  <2>3. CASE /\ CallAt(c, "rate") /\ pushed' = pushed
             /\ remote' = [remote EXCEPT ![call[c].to] = Progress(call[c].number)]
    <3>1. call[c].number \in Numbers \cup {0}
      BY <1>1, <2>3 DEF CallFits, CallAt
    <3>2. Progress(call[c].number) \in Progresses
      BY <3>1 DEF Progress, Progresses
    <3>3. QED
      BY <2>3, <3>2, AtRest
  <2>4. QED
    BY <2>1, <2>2, <2>3 DEF Finish, PushDate, PushScore, siteVars
<1>3. PICK r \in Call : call' = [call EXCEPT ![c] = r] /\ CallFits(r) /\ r.pc # "enqueue"
  <2>1. CASE Done(c)
    BY <2>1, FreeFits DEF Done
  <2>2. CASE CallGoto(c, "keep")
    BY <2>2, CallGoes
  <2>3. CASE /\ CallAt(c, "finish") /\ binding # None
             /\ call' = [call EXCEPT ![c].pc = "date", ![c].copy = binding.id, ![c].to = binding.remote]
    <3> DEFINE r == [call[c] EXCEPT !.pc = "date", !.copy = binding.id, !.to = binding.remote]
    <3>1. binding.id \in BindingIds /\ binding.remote \in Remotes
      BY <2>3, AtRest DEF Binding
    <3>2. r \in Call /\ r.pc = "date" /\ r.copy = binding.id /\ r.to = binding.remote /\ r.number = call[c].number
      BY <1>1, <3>1 DEF Call
    <3>3. CallFits(r)
      BY <1>1, <2>3, <3>1, <3>2 DEF CallFits, CallAt
    <3>4. QED
      BY <2>3, <3>2, <3>3
  <2>4. QED
    BY <2>1, <2>2, <2>3 DEF Finish, PushDate, PushScore
<1>4. QED
  BY <1>1, <1>2, <1>3, OneCallKeeps, SameRows, AtRest

\* A request that begins by reading the binding.
LEMMA BeginsKeep ==
    ASSUME SyncInv, NEW c \in Calls,
           (\E r \in Remotes : Bind(c, r)) \/ (\E s \in Scores : Edit(c, s))
    PROVE  SyncInv'
<1>1. /\ UNCHANGED <<binding, jobs, worker, remote, pushed, killed, reads>>
      /\ changes < MaxChanges /\ changes' = changes + 1
  BY DEF Bind, Edit, tableVars, siteVars
<1>2. changes' \in 0 .. MaxChanges /\ changes' \in BindingIds
  BY <1>1, AtRest, SyncBoundAssumption DEF BindingIds
<1>3. PICK q \in Call : call' = [call EXCEPT ![c] = q] /\ CallFits(q) /\ q.pc # "enqueue"
  <2>1. ASSUME NEW r \in Remotes, Bind(c, r)
        PROVE  \E q \in Call : call' = [call EXCEPT ![c] = q] /\ CallFits(q) /\ q.pc # "enqueue"
    <3> DEFINE copy == IF binding = None THEN None ELSE [id |-> binding.id, remote |-> binding.remote]
               q == [Free EXCEPT !.pc = "upsert", !.to = r, !.number = changes', !.copy = copy]
    <3>1. copy \in Lookup \cup {None}
      BY AtRest DEF Binding, Lookup
    <3>2. changes' \in Nat
      BY <1>2 DEF BindingIds
    <3> HIDE DEF copy
    <3>3. q \in Call /\ q.pc = "upsert" /\ q.to = r /\ q.number = changes' /\ q.copy = copy
      BY <3>1, <3>2 DEF Free, Call
    <3>4. CallFits(q)
      BY <1>2, <3>1, <3>3 DEF CallFits
    <3>5. call' = [call EXCEPT ![c] = q]
      BY <2>1 DEF Bind, copy
    <3>6. QED
      BY <3>3, <3>4, <3>5
  <2>2. ASSUME NEW s \in Scores, Edit(c, s)
        PROVE  \E q \in Call : call' = [call EXCEPT ![c] = q] /\ CallFits(q) /\ q.pc # "enqueue"
    <3> DEFINE q == [Free EXCEPT !.pc = "rate", !.score = s, !.to = binding.remote, !.number = binding.synced]
    <3>1. Numbers \cup {0} \subseteq Nat
      BY SyncBoundAssumption
    <3>2. binding.remote \in Remotes /\ binding.synced \in Numbers \cup {0} /\ binding.synced \in Nat
      BY <2>2, <3>1, AtRest DEF Edit, Binding
    <3>3. q \in Call /\ q.pc = "rate" /\ q.to = binding.remote /\ q.number = binding.synced
      BY <3>2 DEF Free, Call
    <3>4. CallFits(q)
      BY <3>2, <3>3 DEF CallFits
    <3>5. call' = [call EXCEPT ![c] = q]
      BY <2>2 DEF Edit
    <3>6. QED
      BY <3>3, <3>4, <3>5
  <2>3. QED
    BY <2>1, <2>2
<1>4. QED
  BY <1>1, <1>2, <1>3, OneCallKeeps, SameRows, AtRest

\* The row of the binding is made, pointed elsewhere, zeroed or rated.
LEMMA BindingWritesKeep ==
    ASSUME SyncInv, NEW c \in Calls, Upsert(c) \/ Zero(c) \/ KeepScore(c)
    PROVE  SyncInv'
<1>1. UNCHANGED <<jobs, worker, remote, pushed, killed, reads, changes>> /\ call[c] \in Call /\ CallFits(call[c])
  BY AtRest DEF Upsert, Zero, KeepScore, siteVars, countVars
<1>2. binding' \in Binding \cup {None}
  <2>1. CASE binding' = binding
    BY <2>1, AtRest
  <2>2. CASE Upsert(c) /\ binding = None
    <3>1. binding' = [id |-> call[c].number, remote |-> call[c].to, synced |-> 0, score |-> None]
      BY <2>2 DEF Upsert
    <3>2. call[c].number \in BindingIds /\ call[c].to \in Remotes
      BY <1>1, <2>2 DEF Upsert, CallAt, CallFits
    <3>3. QED
      BY <3>1, <3>2 DEF Binding
  <2>3. CASE Upsert(c) /\ binding # None
    <3> DEFINE t == IF binding.remote = call[c].to THEN binding.score ELSE None
    <3>1. binding' = [binding EXCEPT !.remote = call[c].to, !.score = t]
      BY <2>3 DEF Upsert
    <3>2. binding \in Binding /\ call[c].to \in Remotes /\ t \in Scores \cup {None}
      BY <1>1, <2>3, AtRest DEF Upsert, CallAt, CallFits, Binding
    <3> HIDE DEF t
    <3>3. binding' \in Binding /\ binding'.id = binding.id /\ binding'.synced = binding.synced
      BY <3>1, <3>2 DEF Binding
    <3>4. QED
      BY <2>3, <3>3, AtRest
  <2>4. CASE Zero(c) /\ binding # None /\ binding' = [binding EXCEPT !.synced = 0]
    <3>1. binding' \in Binding /\ binding'.synced = 0
      BY <2>4, AtRest DEF Binding
    <3>2. QED
      BY <3>1
  <2>5. CASE KeepScore(c) /\ binding # None /\ binding' = [binding EXCEPT !.score = call[c].score]
    <3>1. call[c].score \in Scores \cup {None} /\ binding \in Binding
      BY <1>1, <2>5, AtRest DEF Call
    <3>2. binding' \in Binding /\ binding'.id = binding.id /\ binding'.synced = binding.synced
      BY <2>5, <3>1 DEF Binding
    <3>3. QED
      BY <2>5, <3>2, AtRest
  <2>6. QED
    BY <2>1, <2>2, <2>3, <2>4, <2>5 DEF Upsert, Zero, KeepScore
<1>3. PICK r \in Call : call' = [call EXCEPT ![c] = r] /\ CallFits(r) /\ r.pc # "enqueue"
  <2>1. CASE Done(c)
    BY <2>1, FreeFits DEF Done
  <2>2. CASE CallGoto(c, "forget") /\ Upsert(c) /\ call[c].copy # None
    BY <1>1, <2>2, CallGoes DEF Upsert, CallAt, CallFits
  <2>3. QED
    BY <2>1, <2>2 DEF Upsert, Zero, KeepScore
<1>4. QED
  BY <1>1, <1>2, <1>3, OneCallKeeps, SameRows, AtRest

\* The jobs of a binding go.
LEMMA GoneRows ==
    ASSUME SyncInv, NEW id,
           jobs' = [j \in JobIds |-> IF Stored(j) /\ jobs[j].binding = id THEN None ELSE jobs[j]]
    PROVE  RowsAge /\ \A j \in JobIds : jobs'[j] # None => jobs'[j].status \in {"PENDING", jobs[j].status}
<1>1. \A j \in JobIds : jobs'[j] \in {None, jobs[j]}
  OBVIOUS
<1>2. jobs' \in [JobIds -> Job \cup {None}]
  BY <1>1, AtRest
<1>3. QED
  BY <1>1, <1>2 DEF RowsAge

LEMMA ForgetKeeps ==
    ASSUME SyncInv, NEW c \in Calls, Forget(c)
    PROVE  SyncInv'
<1>1. UNCHANGED <<binding, worker, remote, pushed, killed, reads, changes>>
  BY DEF Forget, siteVars, countVars
<1>2. RowsAge /\ \A j \in JobIds : jobs'[j] # None => jobs'[j].status \in {"PENDING", jobs[j].status}
  BY GoneRows DEF Forget
<1>3. PICK r \in Call : call' = [call EXCEPT ![c] = r] /\ CallFits(r) /\ r.pc # "enqueue"
  BY CallGoes, AtRest DEF Forget, CallAt, CallFits
<1>4. QED
  BY <1>1, <1>2, <1>3, OneCallKeeps, AtRest

LEMMA UnbindKeeps ==
    ASSUME SyncInv, Unbind
    PROVE  SyncInv'
<1>1. /\ UNCHANGED <<worker, call, remote, pushed, killed, reads>> /\ binding' = None
      /\ changes < MaxChanges /\ changes' = changes + 1
  BY DEF Unbind, siteVars
<1>2. RowsAge /\ \A j \in JobIds : jobs'[j] # None => jobs'[j].status \in {"PENDING", jobs[j].status}
  BY GoneRows DEF Unbind
<1>3. changes' \in 0 .. MaxChanges
  BY <1>1, AtRest, SyncBoundAssumption
<1>4. QED
  BY <1>1, <1>2, <1>3, CallKeeps, AtRest

-----------------------------------------------------------------------------
(* What is claimed was accepted                                            *)

\* Every row is about the binding there is; a worker about to record a push has made it,
\* and to the entry the binding is pointed at, unless a rebind crossed it.
RowsOwned == \A j \in JobIds : jobs[j] # None => binding # None /\ jobs[j].binding = binding.id
WorkersThere ==
    binding # None /\ binding.id \notin crossed =>
      \A w \in Workers : worker[w].copy # None /\ worker[w].copy.id = binding.id =>
         worker[w].copy.remote = binding.remote

ClaimInv == crossed \subseteq BindingIds /\ RowsOwned /\ WorkersThere /\ ClaimsAreTrue

\* The binding is the one it was, but for its score.
SameBinding ==
    /\ binding = None <=> binding' = None
    /\ binding # None => /\ binding'.id = binding.id /\ binding'.remote = binding.remote
                         /\ binding'.synced = binding.synced

\* Whoever has still to clear something has it after the step.
StillClearing == \A c \in Calls : call[c].pc \in {"forget", "zero"} => call'[c] = call[c]

\* A row that completes is the row of a worker that has pushed its chapter; the other
\* steps add no claim.
LEMMA QuietKeeps ==
    ASSUME ClaimInv, SameBinding, StillClearing, crossed' = crossed, pushed \subseteq pushed',
           \A w \in Workers : \/ worker'[w].copy \in {worker[w].copy, None}
                              \/ binding # None /\ worker'[w].copy.remote = binding.remote,
           \A j \in JobIds : jobs'[j] # None => binding # None /\ jobs'[j].binding = binding.id,
           \A j \in JobIds : jobs'[j] # None /\ jobs'[j].status = "COMPLETED" =>
              \/ /\ jobs[j] # None /\ jobs[j].status = "COMPLETED"
                 /\ jobs'[j].number = jobs[j].number
              \/ /\ binding # None
                 /\ binding.id \notin crossed => <<binding.remote, jobs'[j].number>> \in pushed
    PROVE  ClaimInv'
<1>1. (crossed \subseteq BindingIds)' /\ RowsOwned'
  BY DEF ClaimInv, RowsOwned, SameBinding
<1>2. WorkersThere'
  BY DEF ClaimInv, WorkersThere, SameBinding
<1>3. ClaimsAreTrue'
  <2> SUFFICES ASSUME binding' # None, binding'.id \notin crossed'
               PROVE  /\ \A j \in JobIds : Has(j, "COMPLETED")' =>
                            \/ Clearing(binding.id, {"forget"})'
                            \/ <<binding'.remote, jobs'[j].number>> \in pushed'
                      /\ binding'.synced # 0 =>
                            \/ Clearing(binding.id, {"forget", "zero"})'
                            \/ <<binding'.remote, binding'.synced>> \in pushed'
    BY DEF ClaimsAreTrue, Clearing
  <2>1. /\ binding # None /\ binding.id \notin crossed
        /\ binding'.id = binding.id /\ binding'.remote = binding.remote /\ binding'.synced = binding.synced
    BY DEF SameBinding
  <2>2. /\ \A j \in JobIds : Has(j, "COMPLETED") =>
              Clearing(binding.id, {"forget"}) \/ <<binding.remote, jobs[j].number>> \in pushed
        /\ binding.synced # 0 =>
              Clearing(binding.id, {"forget", "zero"}) \/ <<binding.remote, binding.synced>> \in pushed
    BY <2>1 DEF ClaimInv, ClaimsAreTrue
  <2>3. /\ Clearing(binding.id, {"forget"}) => Clearing(binding.id, {"forget"})'
        /\ Clearing(binding.id, {"forget", "zero"}) => Clearing(binding.id, {"forget", "zero"})'
    <3>1. binding'.id = binding.id
      BY <2>1
    <3>2. QED
      BY <3>1 DEF StillClearing, Clearing
  <2>4. ASSUME NEW j \in JobIds, Has(j, "COMPLETED")'
        PROVE  Clearing(binding.id, {"forget"})' \/ <<binding'.remote, jobs'[j].number>> \in pushed'
    <3>1. jobs'[j] # None /\ jobs'[j].status = "COMPLETED"
      BY <2>4 DEF Has, Stored
    <3>2. CASE jobs[j] # None /\ jobs[j].status = "COMPLETED" /\ jobs'[j].number = jobs[j].number
      <4>1. Has(j, "COMPLETED")
        BY <3>2 DEF Has, Stored
      <4>2. QED
        BY <2>1, <2>2, <2>3, <3>2, <4>1
    <3>3. CASE <<binding.remote, jobs'[j].number>> \in pushed
      BY <2>1, <3>3
    <3>4. QED
      BY <2>1, <3>1, <3>2, <3>3
  <2>5. QED
    BY <2>1, <2>2, <2>3, <2>4
<1>4. QED
  BY <1>1, <1>2, <1>3 DEF ClaimInv

\* Rows go or change their status, and none completes.
RowsPause ==
    \A j \in JobIds : jobs'[j] # None =>
       /\ jobs[j] # None /\ jobs'[j].binding = jobs[j].binding /\ jobs'[j].number = jobs[j].number
       /\ jobs'[j].status = "COMPLETED" => jobs[j].status = "COMPLETED"

LEMMA PausedRows ==
    ASSUME ClaimInv, RowsPause
    PROVE  /\ \A j \in JobIds : jobs'[j] # None => binding # None /\ jobs'[j].binding = binding.id
           /\ \A j \in JobIds : jobs'[j] # None /\ jobs'[j].status = "COMPLETED" =>
                 /\ jobs[j] # None /\ jobs[j].status = "COMPLETED"
                 /\ jobs'[j].number = jobs[j].number
BY DEF ClaimInv, RowsOwned, RowsPause

\* A worker that looks, pushes or fails.
LEMMA WorkersQuiet ==
    ASSUME SyncInv, ClaimInv, NEW w \in Workers,
           Start(w) \/ Claim(w) \/ ReadBinding(w) \/ PushFails(w) \/ PushAccepted(w) \/ Return(w)
    PROVE  ClaimInv'
<1>1. UNCHANGED <<binding, call, crossed>> /\ pushed \subseteq pushed'
  BY DEF Start, Claim, ReadBinding, PushFails, PushAccepted, Return, siteVars, tableVars
<1>2. SameBinding /\ StillClearing
  BY <1>1 DEF SameBinding, StillClearing
<1>3. ASSUME NEW v \in Workers
      PROVE  \/ worker'[v].copy \in {worker[v].copy, None}
             \/ binding # None /\ worker'[v].copy.remote = binding.remote
  <2>1. worker \in [Workers -> Worker] /\ Rest.copy = None /\ \A u \in Workers : worker[u] \in Worker
    BY AtRest DEF Rest
  <2>2. CASE v # w
    BY <2>1, <2>2 DEF Start, Claim, ReadBinding, PushFails, PushAccepted, Return, Goto, Leave
  <2>3. CASE v = w /\ (Start(w) \/ PushAccepted(w))
    <3>1. worker'[w] = [worker[w] EXCEPT !.pc = "idle"] \/ worker'[w] = [worker[w] EXCEPT !.pc = "mark"]
      BY <2>1, <2>3 DEF Start, PushAccepted, Goto
    <3>2. worker'[w].copy = worker[w].copy
      BY <2>1, <3>1 DEF Worker
    <3>3. QED
      BY <2>3, <3>2
  <2>4. CASE v = w /\ (Claim(w) \/ PushFails(w) \/ Return(w))
    <3>1. \/ worker'[w] = Rest \/ worker'[w] = [Rest EXCEPT !.pc = "down"]
          \/ \E j \in JobIds : worker'[w] = [Rest EXCEPT !.pc = "read", !.job = j]
      BY <2>1, <2>4 DEF Claim, PushFails, Return, Leave
    <3>2. /\ Rest.copy = None /\ [Rest EXCEPT !.pc = "down"].copy = None
          /\ \A j \in JobIds : [Rest EXCEPT !.pc = "read", !.job = j].copy = None
      BY DEF Rest
    <3>3. QED
      BY <2>4, <3>1, <3>2
  <2>5. CASE v = w /\ ReadBinding(w)
    <3>1. CASE worker' = [worker EXCEPT ![w] = Rest]
      BY <2>1, <2>5, <3>1
    <3>2. CASE /\ binding # None
               /\ worker' = [worker EXCEPT ![w].pc = "push",
                                           ![w].copy = [id |-> binding.id, remote |-> binding.remote,
                                                        number |-> jobs[worker[w].job].number]]
      <4>1. worker'[w] = [worker[w] EXCEPT !.pc = "push",
                                           !.copy = [id |-> binding.id, remote |-> binding.remote,
                                                     number |-> jobs[worker[w].job].number]]
        BY <2>1, <3>2
      <4>2. worker'[w].copy = [id |-> binding.id, remote |-> binding.remote, number |-> jobs[worker[w].job].number]
        BY <2>1, <4>1 DEF Worker
      <4>3. worker'[w].copy.remote = binding.remote
        BY <4>2
      <4>4. QED
        BY <2>5, <3>2, <4>3
    <3>3. QED
      BY <2>5, <3>1, <3>2 DEF ReadBinding, Leave
  <2>6. QED
    BY <2>2, <2>3, <2>4, <2>5
<1>4. RowsPause
  <2>1. CASE jobs' = jobs
    BY <2>1 DEF RowsPause
  <2>2. CASE Start(w)
    <3>1. ASSUME NEW j \in JobIds, Has(j, "RUNNING")
          PROVE  /\ jobs[j] # None /\ jobs'[j].binding = jobs[j].binding /\ jobs'[j].number = jobs[j].number
                 /\ jobs'[j].status = "PENDING"
      <4>1. jobs[j] \in Job /\ jobs[j] # None /\ jobs'[j] = [jobs[j] EXCEPT !.status = "PENDING", !.due = TRUE]
        BY <2>2, <3>1, AtRest DEF Start, Prepare, Has, Stored
      <4>2. QED
        BY <4>1 DEF Job
    <3>2. \A j \in JobIds : ~Has(j, "RUNNING") => jobs'[j] = jobs[j]
      BY <2>2 DEF Start, Prepare
    <3>3. QED
      BY <3>1, <3>2 DEF RowsPause
  <2>3. CASE Claim(w)
    <3>1. PICK j \in JobIds : Has(j, "PENDING") /\ jobs' = [jobs EXCEPT ![j].status = "RUNNING"]
      BY <2>3 DEF Claim
    <3>2. jobs[j] \in Job /\ jobs[j] # None /\ jobs' = [jobs EXCEPT ![j] = [jobs[j] EXCEPT !.status = "RUNNING"]]
      BY <3>1, AtRest DEF Has, Stored
    <3>3. /\ jobs'[j].binding = jobs[j].binding /\ jobs'[j].number = jobs[j].number /\ jobs'[j].status = "RUNNING"
          /\ \A k \in JobIds \ {j} : jobs'[k] = jobs[k]
      BY <3>2, AtRest DEF Job
    <3>4. QED
      BY <3>2, <3>3 DEF RowsPause
  <2>4. ASSUME NEW retry \in BOOLEAN, FailTrackerSync(w, retry), worker[w].job \in JobIds PROVE RowsPause
    <3>1. /\ RowsAge
          /\ \A j \in JobIds : j # worker[w].job => jobs'[j] = jobs[j]
          /\ \A j \in JobIds : j = worker[w].job /\ jobs'[j] # None => jobs'[j].status \in {"PENDING", "FAILED"}
      BY <2>4, FailureAges
    <3>2. QED
      BY <3>1 DEF RowsAge, RowsPause
  <2>5. ReadBinding(w) \/ PushFails(w) => worker[w].job \in JobIds
    BY AtWork DEF ReadBinding, PushFails, At, WorkerFits
  <2>6. QED
    BY <2>1, <2>2, <2>3, <2>4, <2>5 DEF ReadBinding, PushFails, PushAccepted, Return, tableVars
<1>5. QED
  BY <1>1, <1>2, <1>3, <1>4, QuietKeeps, PausedRows

\* The row a worker completes is about the chapter it has pushed to the entry.
LEMMA CompletesTrue ==
    ASSUME SyncInv, ClaimInv, NEW w \in Workers, Complete(w)
    PROVE  ClaimInv'
<1> DEFINE j == worker[w].job
<1>1. /\ worker[w].pc = "complete" /\ j \in JobIds /\ worker[w].copy # None /\ Leave(w)
      /\ <<worker[w].copy.remote, worker[w].copy.number>> \in pushed
      /\ UNCHANGED <<binding, call, crossed, pushed>>
  BY AtWork DEF Complete, At, WorkerFits, siteVars
<1>2. SameBinding /\ StillClearing
  BY <1>1 DEF SameBinding, StillClearing
<1>3. \A v \in Workers : worker'[v].copy \in {worker[v].copy, None}
  <2>1. worker' = [worker EXCEPT ![w] = Rest] /\ Rest.copy = None /\ worker \in [Workers -> Worker]
    BY <1>1, AtRest DEF Leave, Rest
  <2>2. QED
    BY <2>1
<1>4. CASE ~Stored(j)
  <2>1. RowsPause
    BY <1>4 DEF Complete, RowsPause
  <2>2. QED
    BY <1>1, <1>2, <1>3, <2>1, QuietKeeps, PausedRows
<1>5. CASE Stored(j)
  <2>1. /\ jobs[j] \in Job /\ jobs[j] # None /\ jobs' = [jobs EXCEPT ![j] = [jobs[j] EXCEPT !.status = "COMPLETED"]]
        /\ jobs[j].binding = worker[w].copy.id /\ jobs[j].number = worker[w].copy.number
        /\ binding # None /\ jobs[j].binding = binding.id
    BY <1>1, <1>5, AtWork DEF Complete, Stored, WorkerFits, ClaimInv, RowsOwned
  <2>2. /\ jobs'[j].binding = jobs[j].binding /\ jobs'[j].number = jobs[j].number
        /\ \A k \in JobIds \ {j} : jobs'[k] = jobs[k]
    BY <1>1, <2>1, AtRest DEF Job
  <2>3. binding.id \notin crossed => <<binding.remote, jobs'[j].number>> \in pushed
    BY <1>1, <2>1, <2>2 DEF ClaimInv, WorkersThere
  <2>4. \A k \in JobIds : jobs'[k] # None => binding # None /\ jobs'[k].binding = binding.id
    BY <2>1, <2>2 DEF ClaimInv, RowsOwned
  <2>5. \A k \in JobIds : jobs'[k] # None /\ jobs'[k].status = "COMPLETED" =>
           \/ jobs[k] # None /\ jobs[k].status = "COMPLETED" /\ jobs'[k].number = jobs[k].number
           \/ /\ binding # None
              /\ binding.id \notin crossed => <<binding.remote, jobs'[k].number>> \in pushed
    BY <2>1, <2>2, <2>3
  <2>6. QED
    BY <1>1, <1>2, <1>3, <2>4, <2>5, QuietKeeps
<1>6. QED
  BY <1>4, <1>5

\* The number a worker marks it has pushed to the entry.
LEMMA MarksTrue ==
    ASSUME SyncInv, ClaimInv, NEW w \in Workers, Mark(w)
    PROVE  ClaimInv'
<1> DEFINE n == worker[w].copy.number
<1>1. /\ worker[w].pc = "mark" /\ worker[w].copy # None /\ Goto(w, "complete")
      /\ <<worker[w].copy.remote, n>> \in pushed
      /\ UNCHANGED <<jobs, call, crossed, pushed>>
  BY AtWork DEF Mark, At, WorkerFits, siteVars
<1>2. \A v \in Workers : worker'[v].copy = worker[v].copy
  <2>1. worker \in [Workers -> Worker] /\ worker[w] \in Worker
    BY AtWork
  <2>2. worker'[w] = [worker[w] EXCEPT !.pc = "complete"] /\ \A v \in Workers \ {w} : worker'[v] = worker[v]
    BY <1>1, <2>1 DEF Goto
  <2>3. worker'[w].copy = worker[w].copy
    BY <2>1, <2>2 DEF Worker
  <2>4. QED
    BY <2>2, <2>3
<1>3. CASE binding' = binding
  <2>1. SameBinding /\ StillClearing /\ RowsPause
    BY <1>1, <1>3 DEF SameBinding, StillClearing, RowsPause
  <2>2. QED
    BY <1>1, <1>2, <2>1, QuietKeeps, PausedRows
<1>4. CASE binding # None /\ binding.id = worker[w].copy.id /\ binding' = [binding EXCEPT !.synced = n]
  <2>1. binding' # None /\ binding'.id = binding.id /\ binding'.remote = binding.remote /\ binding'.synced = n
    <3>1. binding \in Binding /\ n \in Numbers /\ binding' \in Binding \cup {None}
      BY <1>1, <1>4, AtWork, MarkKeeps DEF Copy, SyncInv, TypeInv
    <3>2. binding'.id = binding.id /\ binding'.remote = binding.remote /\ binding'.synced = n
      BY <1>4, <3>1 DEF Binding
    <3>3. binding' \in Binding
      BY <1>4, <3>1 DEF Binding
    <3>4. QED
      BY <3>2, <3>3, NoneAssumption
  <2>2. RowsOwned' /\ WorkersThere'
    BY <1>1, <1>2, <1>4, <2>1 DEF ClaimInv, RowsOwned, WorkersThere
  <2>3. ClaimsAreTrue'
    <3> SUFFICES ASSUME binding'.id \notin crossed'
                 PROVE  /\ \A k \in JobIds : Has(k, "COMPLETED")' =>
                              \/ Clearing(binding.id, {"forget"})'
                              \/ <<binding'.remote, jobs'[k].number>> \in pushed'
                        /\ <<binding'.remote, binding'.synced>> \in pushed'
      BY DEF ClaimsAreTrue, Clearing
    <3>1. worker[w].copy.remote = binding.remote
      BY <1>1, <1>4, <2>1 DEF ClaimInv, WorkersThere
    <3>2. Clearing(binding.id, {"forget"}) => Clearing(binding.id, {"forget"})'
      BY <1>1, <2>1 DEF Clearing
    <3>3. \A k \in JobIds : Has(k, "COMPLETED")' => Has(k, "COMPLETED")
      BY <1>1 DEF Has, Stored
    <3>4. \A k \in JobIds : Has(k, "COMPLETED") =>
             Clearing(binding.id, {"forget"}) \/ <<binding.remote, jobs[k].number>> \in pushed
      BY <1>1, <1>4, <2>1 DEF ClaimInv, ClaimsAreTrue
    <3>5. QED
      BY <1>1, <2>1, <3>1, <3>2, <3>3, <3>4
  <2>4. QED
    BY <1>1, <2>2, <2>3 DEF ClaimInv
<1>5. QED
  BY <1>3, <1>4 DEF Mark

\* A process dies: what the daemon's requests had still to clear is crossed from now on.
LEMMA KillsTrue ==
    ASSUME SyncInv, ClaimInv, NEW w \in Workers, Kill(w)
    PROVE  ClaimInv'
<1>1. UNCHANGED <<binding, jobs, pushed>> /\ worker' = [worker EXCEPT ![w] = [Rest EXCEPT !.pc = "down"]]
  BY DEF Kill, tableVars
<1>2. \A v \in Workers : worker'[v].copy \in {worker[v].copy, None}
  <2>1. [Rest EXCEPT !.pc = "down"].copy = None /\ worker \in [Workers -> Worker]
    BY AtRest DEF Rest
  <2>2. QED
    BY <1>1, <2>1
<1>3. CASE UNCHANGED <<call, crossed>>
  <2>1. SameBinding /\ StillClearing /\ RowsPause
    BY <1>1, <1>3 DEF SameBinding, StillClearing, RowsPause
  <2>2. QED
    BY <1>1, <1>2, <1>3, <2>1, QuietKeeps, PausedRows
<1>4. CASE crossed' = crossed \cup {id \in BindingIds : Clearing(id, {"forget", "zero"})}
  <2>1. crossed' \subseteq BindingIds /\ crossed \subseteq crossed'
    BY <1>4 DEF ClaimInv
  <2>2. RowsOwned' /\ WorkersThere'
    BY <1>1, <1>2, <2>1 DEF ClaimInv, RowsOwned, WorkersThere
  <2>3. ClaimsAreTrue'
    <3> SUFFICES ASSUME binding # None, binding.id \notin crossed'
                 PROVE  /\ \A k \in JobIds : Has(k, "COMPLETED") => <<binding.remote, jobs[k].number>> \in pushed
                        /\ binding.synced # 0 => <<binding.remote, binding.synced>> \in pushed
      BY <1>1 DEF ClaimsAreTrue, Clearing, Has, Stored
    <3>1. binding.id \in BindingIds
      BY AtRest DEF Binding
    <3>2. ~Clearing(binding.id, {"forget", "zero"}) /\ binding.id \notin crossed
      BY <1>4, <3>1
    <3>3. ~Clearing(binding.id, {"forget"})
      BY <3>2 DEF Clearing
    <3>4. QED
      BY <3>2, <3>3 DEF ClaimInv, ClaimsAreTrue
  <2>4. QED
    BY <2>1, <2>2, <2>3 DEF ClaimInv
<1>5. QED
  BY <1>3, <1>4 DEF Kill

\* A request that looks, enqueues, pushes or rates clears nothing and completes no row.
LEMMA CallsQuiet ==
    ASSUME SyncInv, ClaimInv, NEW c \in Calls,
           \/ Enqueue(c) \/ Finish(c) \/ PushDate(c) \/ PushScore(c) \/ KeepScore(c)
           \/ (\E n \in Numbers : Read(c, n)) \/ (\E r \in Remotes : Bind(c, r)) \/ (\E s \in Scores : Edit(c, s))
    PROVE  ClaimInv'
<1>1. UNCHANGED <<worker, crossed>> /\ pushed \subseteq pushed' /\ call[c].pc \notin {"forget", "zero"}
  BY DEF Enqueue, Finish, PushDate, PushScore, KeepScore, Read, Bind, Edit, siteVars, CallAt
<1>2. StillClearing
  <2>1. \A d \in Calls \ {c} : call'[d] = call[d]
    BY AtRest DEF Enqueue, Finish, PushDate, PushScore, KeepScore, Read, Bind, Edit, CallGoto, Done
  <2>2. QED
    BY <1>1, <2>1 DEF StillClearing
<1>3. SameBinding
  <2>1. CASE binding' = binding
    BY <2>1 DEF SameBinding
  <2>2. CASE KeepScore(c) /\ binding # None
    <3>1. call[c].score \in Scores \cup {None} /\ binding \in Binding
      BY <2>2, AtRest DEF Call
    <3>2. binding' = [binding EXCEPT !.score = call[c].score]
      BY <2>2 DEF KeepScore
    <3>3. /\ binding' \in Binding /\ binding'.id = binding.id /\ binding'.remote = binding.remote
          /\ binding'.synced = binding.synced
      BY <3>1, <3>2 DEF Binding
    <3>4. QED
      BY <2>2, <3>3, NoneAssumption DEF SameBinding
  <2>3. QED
    BY <2>1, <2>2 DEF Enqueue, Finish, PushDate, PushScore, KeepScore, Read, Bind, Edit, tableVars
<1>4. /\ \A j \in JobIds : jobs'[j] # None => binding # None /\ jobs'[j].binding = binding.id
      /\ \A j \in JobIds : jobs'[j] # None /\ jobs'[j].status = "COMPLETED" =>
            jobs[j] # None /\ jobs[j].status = "COMPLETED" /\ jobs'[j].number = jobs[j].number
  <2>1. CASE jobs' = jobs
    BY <2>1 DEF ClaimInv, RowsOwned
  <2>2. CASE Enqueue(c) /\ binding # None /\ binding.id = call[c].copy
    <3>1. call[c].job \in JobIds
      BY <2>2, AtRest DEF Enqueue, CallAt, CallFits
    <3>2. CASE SameJob(call[c].copy, call[c].number) = {}
      <4> DEFINE q == [binding |-> call[c].copy, number |-> call[c].number, due |-> TRUE, status |-> "PENDING"]
      <4>1. jobs' = [jobs EXCEPT ![call[c].job] = q]
        BY <2>2, <3>2 DEF Enqueue
      <4>2. jobs'[call[c].job] = q /\ \A j \in JobIds \ {call[c].job} : jobs'[j] = jobs[j]
        BY <3>1, <4>1, AtRest
      <4>3. q.binding = binding.id /\ q.status = "PENDING"
        BY <2>2
      <4> HIDE DEF q
      <4>4. QED
        BY <2>2, <4>2, <4>3 DEF ClaimInv, RowsOwned
    <3>3. CASE SameJob(call[c].copy, call[c].number) # {}
      <4> DEFINE S == {j \in SameJob(call[c].copy, call[c].number) : jobs[j].status # "COMPLETED"}
      <4>1. jobs' = [j \in JobIds |-> IF j \in SameJob(call[c].copy, call[c].number) /\ jobs[j].status # "COMPLETED"
                                      THEN [jobs[j] EXCEPT !.status = "PENDING", !.due = TRUE]
                                      ELSE jobs[j]]
        BY <2>2, <3>3 DEF Enqueue
      <4>2. ASSUME NEW j \in JobIds
            PROVE  \/ jobs'[j] = jobs[j]
                   \/ /\ jobs[j] # None /\ jobs'[j].binding = jobs[j].binding
                      /\ jobs'[j].status = "PENDING"
        <5>1. CASE j \in S
          <6>1. jobs[j] \in Job /\ jobs[j] # None /\ jobs'[j] = [jobs[j] EXCEPT !.status = "PENDING", !.due = TRUE]
            BY <4>1, <5>1, AtRest DEF SameJob, Stored
          <6>2. QED
            BY <6>1 DEF Job
        <5>2. CASE j \notin S
          BY <4>1, <5>2
        <5>3. QED
          BY <5>1, <5>2
      <4>3. QED
        BY <2>2, <4>2 DEF ClaimInv, RowsOwned
    <3>4. QED
      BY <3>2, <3>3
  <2>3. QED
    BY <2>1, <2>2 DEF Enqueue, Finish, PushDate, PushScore, KeepScore, Read, Bind, Edit, tableVars
<1>5. \A v \in Workers : worker'[v].copy = worker[v].copy
  BY <1>1
<1>6. QED
  BY <1>1, <1>2, <1>3, <1>4, <1>5, QuietKeeps

\* Time and pruning take rows away or let them be tried again.
LEMMA TimeQuiet ==
    ASSUME SyncInv, ClaimInv, Prune \/ \E j \in JobIds : BecomeDue(j)
    PROVE  ClaimInv'
<1>1. UNCHANGED <<binding, worker, call, crossed, pushed>>
  BY DEF Prune, BecomeDue, siteVars
<1>2. SameBinding /\ StillClearing
  BY <1>1 DEF SameBinding, StillClearing
<1>3. RowsPause
  <2>1. CASE Prune
    BY <2>1 DEF Prune, RowsPause
  <2>2. ASSUME NEW j \in JobIds, BecomeDue(j) PROVE RowsPause
    <3>1. jobs[j] \in Job /\ jobs[j] # None /\ jobs' = [jobs EXCEPT ![j] = [jobs[j] EXCEPT !.due = TRUE]]
      BY <2>2, AtRest DEF BecomeDue, Has, Stored
    <3>2. /\ jobs'[j].binding = jobs[j].binding /\ jobs'[j].number = jobs[j].number
          /\ jobs'[j].status = jobs[j].status /\ \A k \in JobIds \ {j} : jobs'[k] = jobs[k]
      BY <3>1, AtRest DEF Job
    <3>3. QED
      BY <3>1, <3>2 DEF RowsPause
  <2>3. QED
    BY <2>1, <2>2
<1>4. QED
  BY <1>1, <1>2, <1>3, QuietKeeps, PausedRows

\* A rebind: the request that made it clears what was synced, or the binding is crossed.
LEMMA UpsertsTrue ==
    ASSUME SyncInv, ClaimInv, NEW c \in Calls, Upsert(c)
    PROVE  ClaimInv'
<1> DEFINE r == call[c].to
<1>1. /\ UNCHANGED <<jobs, worker, pushed>> /\ call[c].pc = "upsert" /\ r \in Remotes
      /\ call[c].copy \in Lookup \cup {None} /\ call[c].number \in BindingIds
      /\ crossed \subseteq BindingIds
  BY AtRest DEF Upsert, CallAt, CallFits, ClaimInv
<1>2. /\ binding' \in Binding /\ binding' # None /\ binding'.remote = r
      /\ binding = None => binding'.synced = 0
      /\ binding # None => binding'.id = binding.id /\ binding'.synced = binding.synced
  <2>1. CASE binding = None
    <3>1. binding' = [id |-> call[c].number, remote |-> r, synced |-> 0, score |-> None]
      BY <2>1 DEF Upsert
    <3>2. binding' \in Binding /\ binding'.remote = r /\ binding'.synced = 0
      BY <1>1, <3>1 DEF Binding
    <3>3. QED
      BY <2>1, <3>2, NoneAssumption
  <2>2. CASE binding # None
    <3> DEFINE t == IF binding.remote = r THEN binding.score ELSE None
    <3>1. binding' = [binding EXCEPT !.remote = r, !.score = t]
      BY <2>2 DEF Upsert
    <3>2. binding \in Binding /\ t \in Scores \cup {None}
      BY <2>2, AtRest DEF Binding
    <3> HIDE DEF t
    <3>3. binding' \in Binding /\ binding'.remote = r /\ binding'.id = binding.id /\ binding'.synced = binding.synced
      BY <1>1, <3>1, <3>2 DEF Binding
    <3>4. QED
      BY <2>2, <3>3, NoneAssumption
  <2>3. QED
    BY <2>1, <2>2
<1>3. /\ crossed' \subseteq BindingIds /\ crossed \subseteq crossed'
      /\ Crosses(c, r) => binding'.id \in crossed'
  BY <1>1, <1>2 DEF Upsert, Binding
<1>4. RowsOwned'
  BY <1>1, <1>2 DEF ClaimInv, RowsOwned
<1>5. WorkersThere'
  BY <1>1, <1>2, <1>3 DEF Crosses, WorkersThere
<1>6. ClaimsAreTrue'
  <2> SUFFICES ASSUME binding'.id \notin crossed'
               PROVE  /\ \A j \in JobIds : Has(j, "COMPLETED") =>
                            \/ Clearing(binding.id, {"forget"})'
                            \/ <<r, jobs[j].number>> \in pushed
                      /\ binding'.synced # 0 =>
                            \/ Clearing(binding.id, {"forget", "zero"})'
                            \/ <<r, binding'.synced>> \in pushed
    BY <1>1, <1>2 DEF ClaimsAreTrue, Clearing, Has, Stored
  <2>1. CASE binding = None
    BY <1>2, <2>1 DEF ClaimInv, RowsOwned, Has, Stored
  <2>2. CASE binding # None /\ binding.remote = r
    <3>1. binding.id \notin crossed /\ binding'.id = binding.id /\ binding'.synced = binding.synced
      BY <1>2, <1>3, <2>2
    <3>2. /\ \A j \in JobIds : Has(j, "COMPLETED") =>
                Clearing(binding.id, {"forget"}) \/ <<r, jobs[j].number>> \in pushed
          /\ binding.synced # 0 =>
                Clearing(binding.id, {"forget", "zero"}) \/ <<r, binding.synced>> \in pushed
      BY <2>2, <3>1 DEF ClaimInv, ClaimsAreTrue
    <3>3. \A d \in Calls \ {c} : call'[d] = call[d]
      BY AtRest DEF Upsert, CallGoto, Done
    <3>4. StillClearing
      BY <1>1, <3>3 DEF StillClearing
    <3>5. /\ Clearing(binding.id, {"forget"}) => Clearing(binding.id, {"forget"})'
          /\ Clearing(binding.id, {"forget", "zero"}) => Clearing(binding.id, {"forget", "zero"})'
      BY <3>1, <3>4 DEF StillClearing, Clearing
    <3>6. QED
      BY <3>1, <3>2, <3>5
  <2>3. CASE binding # None /\ binding.remote # r
    <3>1. call[c].copy = [id |-> binding.id, remote |-> binding.remote]
      BY <1>3, <2>3 DEF Crosses
    <3>2. call[c].copy.id = binding.id /\ call[c].copy.remote # r /\ call[c].copy # None
      <4>1. binding \in Binding
        BY <2>3, AtRest
      <4>2. call[c].copy \in Lookup
        BY <3>1, <4>1 DEF Binding, Lookup
      <4>3. QED
        BY <2>3, <3>1, <4>2, NoneAssumption
    <3>3. CallGoto(c, "forget")
      BY <3>2 DEF Upsert
    <3>4. call'[c] = [call[c] EXCEPT !.pc = "forget"] /\ call[c] \in Call
      BY <3>3, AtRest DEF CallGoto
    <3>5. call'[c].pc = "forget" /\ call'[c].copy = call[c].copy
      BY <3>4 DEF Call
    <3>6. Clearing(binding.id, {"forget"})' /\ Clearing(binding.id, {"forget", "zero"})'
      BY <1>2, <2>3, <3>2, <3>5 DEF Clearing
    <3>7. QED
      BY <3>6
  <2>4. QED
    BY <2>1, <2>2, <2>3
<1>7. QED
  BY <1>3, <1>4, <1>5, <1>6 DEF ClaimInv

\* The rows of the binding go, and with them every claim they made; then the number.
LEMMA ClearsTrue ==
    ASSUME SyncInv, ClaimInv, NEW c \in Calls, Forget(c) \/ Zero(c)
    PROVE  ClaimInv'
<1> DEFINE id == call[c].copy.id
<1>1. UNCHANGED <<worker, pushed, crossed>> /\ \A d \in Calls \ {c} : call'[d] = call[d]
  BY AtRest DEF Forget, Zero, siteVars, CallGoto, Done
<1>2. CASE Forget(c)
  <2>1. /\ binding' = binding /\ call[c].pc = "forget" /\ call[c] \in Call /\ CallGoto(c, "zero")
        /\ jobs' = [j \in JobIds |-> IF Stored(j) /\ jobs[j].binding = id THEN None ELSE jobs[j]]
    BY <1>2, AtRest DEF Forget, CallAt
  <2>2. call'[c].pc = "zero" /\ call'[c].copy = call[c].copy
    <3>1. call'[c] = [call[c] EXCEPT !.pc = "zero"]
      BY <2>1, AtRest DEF CallGoto
    <3>2. QED
      BY <2>1, <3>1 DEF Call
  <2>3. \A j \in JobIds : jobs'[j] # None => jobs'[j] = jobs[j] /\ jobs[j] # None /\ jobs[j].binding # id
    BY <2>1 DEF Stored
  <2>4. RowsOwned' /\ WorkersThere'
    BY <1>1, <2>1, <2>3 DEF ClaimInv, RowsOwned, WorkersThere
  <2>5. ClaimsAreTrue'
    <3> SUFFICES ASSUME binding # None, binding.id \notin crossed
                 PROVE  /\ \A j \in JobIds : Has(j, "COMPLETED")' =>
                              \/ Clearing(binding.id, {"forget"})'
                              \/ <<binding.remote, jobs'[j].number>> \in pushed
                        /\ binding.synced # 0 =>
                              \/ Clearing(binding.id, {"forget", "zero"})'
                              \/ <<binding.remote, binding.synced>> \in pushed
      BY <1>1, <2>1 DEF ClaimsAreTrue, Clearing
    <3>1. /\ \A j \in JobIds : Has(j, "COMPLETED") =>
                Clearing(binding.id, {"forget"}) \/ <<binding.remote, jobs[j].number>> \in pushed
          /\ binding.synced # 0 =>
                Clearing(binding.id, {"forget", "zero"}) \/ <<binding.remote, binding.synced>> \in pushed
      BY DEF ClaimInv, ClaimsAreTrue
    <3>2. Clearing(binding.id, {"forget", "zero"}) => Clearing(binding.id, {"forget", "zero"})'
      BY <1>1, <2>1, <2>2 DEF Clearing
    <3>3. ASSUME NEW j \in JobIds, Has(j, "COMPLETED")'
          PROVE  Clearing(binding.id, {"forget"})' \/ <<binding.remote, jobs'[j].number>> \in pushed
      <4>1. /\ jobs'[j] = jobs[j] /\ jobs[j] # None /\ jobs[j].binding # id /\ jobs[j].binding = binding.id
            /\ Has(j, "COMPLETED")
        BY <2>3, <3>3 DEF Has, Stored, ClaimInv, RowsOwned
      <4>2. Clearing(binding.id, {"forget"}) => Clearing(binding.id, {"forget"})'
        BY <1>1, <2>1, <4>1 DEF Clearing
      <4>3. QED
        BY <3>1, <4>1, <4>2
    <3>4. QED
      BY <3>1, <3>2, <3>3
  <2>6. QED
    BY <1>1, <2>4, <2>5 DEF ClaimInv
<1>3. CASE Zero(c)
  <2>1. jobs' = jobs /\ call[c].pc = "zero"
    BY <1>3 DEF Zero, CallAt
  <2>2. /\ binding = None => binding' = None
        /\ binding # None => /\ binding' # None /\ binding'.id = binding.id /\ binding'.remote = binding.remote
                             /\ binding'.synced = IF binding.id = id THEN 0 ELSE binding.synced
    <3>1. CASE binding # None /\ binding.id = id
      <4>1. binding \in Binding /\ binding' = [binding EXCEPT !.synced = 0]
        BY <1>3, <3>1, AtRest DEF Zero
      <4>2. binding' \in Binding /\ binding'.id = binding.id /\ binding'.remote = binding.remote /\ binding'.synced = 0
        BY <4>1 DEF Binding
      <4>3. QED
        BY <3>1, <4>2, NoneAssumption
    <3>2. CASE ~(binding # None /\ binding.id = id)
      BY <1>3, <3>2 DEF Zero
    <3>3. QED
      BY <3>1, <3>2
  <2>3. RowsOwned' /\ WorkersThere'
    BY <1>1, <2>1, <2>2 DEF ClaimInv, RowsOwned, WorkersThere
  <2>4. ClaimsAreTrue'
    <3> SUFFICES ASSUME binding' # None, binding'.id \notin crossed
                 PROVE  /\ \A j \in JobIds : Has(j, "COMPLETED") =>
                              \/ Clearing(binding.id, {"forget"})'
                              \/ <<binding'.remote, jobs[j].number>> \in pushed
                        /\ binding'.synced # 0 =>
                              \/ Clearing(binding.id, {"forget", "zero"})'
                              \/ <<binding'.remote, binding'.synced>> \in pushed
      BY <1>1, <2>1 DEF ClaimsAreTrue, Clearing, Has, Stored
    <3>1. binding # None /\ binding'.id = binding.id /\ binding'.remote = binding.remote
      BY <2>2
    <3>2. /\ \A j \in JobIds : Has(j, "COMPLETED") =>
                Clearing(binding.id, {"forget"}) \/ <<binding.remote, jobs[j].number>> \in pushed
          /\ binding.synced # 0 =>
                Clearing(binding.id, {"forget", "zero"}) \/ <<binding.remote, binding.synced>> \in pushed
      BY <3>1 DEF ClaimInv, ClaimsAreTrue
    <3>3. Clearing(binding.id, {"forget"}) => Clearing(binding.id, {"forget"})'
      BY <1>1, <2>1, <3>1 DEF Clearing
    <3>4. ASSUME binding'.synced # 0
          PROVE  Clearing(binding.id, {"forget", "zero"})' \/ <<binding'.remote, binding'.synced>> \in pushed
      <4>1. binding.id # id /\ binding'.synced = binding.synced
        BY <2>2, <3>1, <3>4
      <4>2. Clearing(binding.id, {"forget", "zero"}) => Clearing(binding.id, {"forget", "zero"})'
        BY <1>1, <3>1, <4>1 DEF Clearing
      <4>3. QED
        BY <3>1, <3>2, <3>4, <4>1, <4>2
    <3>5. QED
      BY <3>1, <3>2, <3>3, <3>4
  <2>5. QED
    BY <1>1, <2>3, <2>4 DEF ClaimInv
<1>4. QED
  BY <1>2, <1>3

LEMMA UnbindsTrue ==
    ASSUME SyncInv, ClaimInv, Unbind
    PROVE  ClaimInv'
<1>1. /\ binding # None /\ binding' = None /\ crossed' = crossed
      /\ jobs' = [j \in JobIds |-> IF Stored(j) /\ jobs[j].binding = binding.id THEN None ELSE jobs[j]]
  BY DEF Unbind, siteVars
<1>2. \A j \in JobIds : jobs'[j] = None
  BY <1>1 DEF ClaimInv, RowsOwned, Stored
<1>3. QED
  BY <1>1, <1>2 DEF ClaimInv, RowsOwned, WorkersThere, ClaimsAreTrue

-----------------------------------------------------------------------------
(* The theorems                                                            *)

LEMMA InitHolds == Init => SyncInv
<1> SUFFICES ASSUME Init PROVE SyncInv
  OBVIOUS
<1>1. /\ Rest \in Worker /\ Rest.pc = "idle" /\ Rest.job = None /\ Rest.copy = None
      /\ [Rest EXCEPT !.pc = "down"] \in Worker /\ [Rest EXCEPT !.pc = "down"].pc = "down"
      /\ [Rest EXCEPT !.pc = "down"].job = None /\ [Rest EXCEPT !.pc = "down"].copy = None
  BY DEF Rest, Worker
<1>2. \A w \in Workers : /\ worker[w] \in Worker /\ worker[w].pc \in {"idle", "down"}
                         /\ worker[w].job = None /\ worker[w].copy = None
  BY <1>1 DEF Init
<1>3. \A w \in Workers : WorkerFits(worker[w])
  BY <1>2, NoneAssumption DEF WorkerFits
<1>4. (\A c \in Calls : call[c] = Free) /\ Free \in Call /\ CallFits(Free) /\ Free.pc = "idle"
  BY FreeFits DEF Init, Free
<1>5. \A j \in JobIds : jobs[j] = None
  BY DEF Init
<1>6. TypeInv
  <2>1. 0 \in 0 .. MaxReads /\ 0 \in 0 .. MaxChanges /\ 0 \in Progresses
    BY SyncBoundAssumption DEF Progresses
  <2>2. worker \in [Workers -> Worker] /\ call \in [Calls -> Call]
    BY <1>2, <1>4 DEF Init
  <2>3. QED
    BY <2>1, <2>2 DEF Init, TypeInv
<1>7. JobsApart /\ IdsFresh
  BY <1>2, <1>4, <1>5, NoneAssumption DEF JobsApart, IdsFresh
<1>8. NoStrandedJob
  BY <1>5 DEF NoStrandedJob, Has, Stored
<1>9. QED
  BY <1>3, <1>4, <1>6, <1>7, <1>8 DEF SyncInv

LEMMA StepsKeep == SyncInv /\ [Next]_vars => SyncInv'
<1> SUFFICES ASSUME SyncInv, [Next]_vars PROVE SyncInv'
  OBVIOUS
<1>1. ASSUME NEW w \in Workers, Start(w) \/ Claim(w) \/ WorkerStep(w) \/ Return(w) \/ Kill(w) PROVE SyncInv'
  BY <1>1, StartKeeps, ClaimKeeps, ReadBindingKeeps, PushFailsKeeps, AcceptedKeeps, MarkKeeps, CompleteKeeps,
     DownKeeps DEF WorkerStep
<1>2. ASSUME NEW c \in Calls, CallStep(c) PROVE SyncInv'
  BY <1>2, EnqueueKeeps, PushesKeep, BindingWritesKeep, ForgetKeeps DEF CallStep
<1>3. CASE UNCHANGED vars
  <2>1. UNCHANGED <<binding, jobs, worker, call, remote, killed, pushed, reads, changes>>
    BY <1>3 DEF vars, tableVars, siteVars, countVars
  <2>2. QED
    BY <2>1, CallKeeps, SameRows, AtRest
<1>4. QED
  BY <1>1, <1>2, <1>3, TimeKeeps, ReadKeeps, BeginsKeep, UnbindKeeps DEF Next

LEMMA SyncInvariant == Spec => []SyncInv
BY InitHolds, StepsKeep, PTL DEF Spec

LEMMA ClaimsBegin == Init => ClaimInv
BY DEF Init, ClaimInv, RowsOwned, WorkersThere, ClaimsAreTrue

LEMMA ClaimsKeep == SyncInv /\ ClaimInv /\ [Next]_vars => ClaimInv'
<1> SUFFICES ASSUME SyncInv, ClaimInv, [Next]_vars PROVE ClaimInv'
  OBVIOUS
<1>1. ASSUME NEW w \in Workers, Start(w) \/ Claim(w) \/ WorkerStep(w) \/ Return(w) \/ Kill(w) PROVE ClaimInv'
  BY <1>1, WorkersQuiet, MarksTrue, CompletesTrue, KillsTrue DEF WorkerStep
<1>2. ASSUME NEW c \in Calls, CallStep(c) PROVE ClaimInv'
  BY <1>2, CallsQuiet, UpsertsTrue, ClearsTrue DEF CallStep
<1>3. CASE UNCHANGED vars
  <2>1. UNCHANGED <<binding, jobs, worker, call, pushed, crossed>>
    BY <1>3 DEF vars, tableVars, siteVars
  <2>2. SameBinding /\ StillClearing /\ RowsPause
    BY <2>1 DEF SameBinding, StillClearing, RowsPause
  <2>3. \A v \in Workers : worker'[v].copy = worker[v].copy
    BY <2>1
  <2>4. QED
    BY <2>1, <2>2, <2>3, QuietKeeps, PausedRows
<1>4. QED
  BY <1>1, <1>2, <1>3, TimeQuiet, CallsQuiet, UnbindsTrue DEF Next

LEMMA ClaimInvariant == Spec => [](SyncInv /\ ClaimInv)
<1>1. Init => SyncInv /\ ClaimInv
  BY InitHolds, ClaimsBegin
<1>2. SyncInv /\ ClaimInv /\ [Next]_vars => (SyncInv /\ ClaimInv)'
  BY StepsKeep, ClaimsKeep
<1>3. QED
  BY <1>1, <1>2, PTL DEF Spec

\* For every number of workers, requests, entries and faults: what the table of jobs and
\* the binding say was synced, the site has accepted for the entry the title is bound to
\* now, except while a request clears what was synced to the old one and after a rebind
\* that crossed a push, another bind or the end of the daemon; a RUNNING job is run by
\* somebody or waits for the preparation after a kill; a chapter of a binding has one row.
THEOREM SyncIsSound == Spec => []SyncSound
<1>1. ASSUME SyncInv, ClaimInv PROVE SyncSound
  <2>1. \A w \in Workers : WorkerOK(w)
    <3> SUFFICES ASSUME NEW w \in Workers PROVE WorkerOK(w)
      OBVIOUS
    <3>1. worker[w] \in Worker /\ WorkerFits(worker[w])
      BY <1>1, AtWork
    <3>2. QED
      BY <3>1 DEF WorkerOK, Worker, WorkerFits
  <2>2. TypeOK
    BY <1>1, <2>1 DEF SyncInv, TypeInv, ClaimInv, TypeOK, Call, Progresses, JobsApart, Stored
  <2>3. QED
    BY <1>1, <2>2 DEF SyncInv, ClaimInv, SyncSound
<1>2. QED
  BY <1>1, ClaimInvariant, PTL

\* The number a binding has synced falls only while a request points it at another entry:
\* no retry, no second worker and no score takes it back.
THEOREM SyncedStays == Spec => SyncedNeverDrops
<1> DEFINE Drops == /\ binding # None /\ binding' # None /\ binding'.id = binding.id
                    /\ binding'.synced < binding.synced
           Stays == Drops => \E c \in Calls : CallAt(c, "zero")
<1>1. ASSUME SyncInv, [Next]_vars PROVE Stays
  <2> SUFFICES ASSUME Drops PROVE \E c \in Calls : CallAt(c, "zero")
    OBVIOUS
  <2>1. binding \in Binding /\ binding.synced \in Nat
    <3>1. binding \in Binding
      BY <1>1, AtRest
    <3>2. Numbers \cup {0} \subseteq Nat
      BY SyncBoundAssumption
    <3>3. QED
      BY <3>1, <3>2 DEF Binding
  <2>2. binding' # binding
    BY <2>1
  <2>3. ASSUME NEW w \in Workers, Start(w) \/ Claim(w) \/ WorkerStep(w) \/ Return(w) \/ Kill(w) PROVE FALSE
    <3>1. CASE Mark(w)
      <4>1. worker[w].copy.number \in Numbers /\ binding' = [binding EXCEPT !.synced = worker[w].copy.number]
            /\ binding.synced <= worker[w].copy.number
        BY <1>1, <2>2, <3>1, AtWork DEF Mark, At, WorkerFits, Copy
      <4>2. binding'.synced = worker[w].copy.number /\ worker[w].copy.number \in Nat
        BY <2>1, <4>1, SyncBoundAssumption DEF Binding
      <4>3. QED
        BY <2>1, <4>1, <4>2
    <3>2. CASE ~Mark(w)
      BY <2>2, <2>3, <3>2 DEF Start, Claim, WorkerStep, ReadBinding, PushFails, PushAccepted, Complete, Return,
                              Kill, tableVars
    <3>3. QED
      BY <3>1, <3>2
  <2>4. ASSUME NEW c \in Calls, CallStep(c) PROVE CallAt(c, "zero")
    <3>1. CASE Upsert(c)
      <4>1. binding' = [binding EXCEPT !.remote = call[c].to,
                                       !.score = IF binding.remote = call[c].to THEN @ ELSE None]
        BY <3>1 DEF Upsert
      <4>2. binding'.synced = binding.synced
        BY <2>1, <4>1 DEF Binding
      <4>3. QED
        BY <2>1, <4>2
    <3>2. CASE KeepScore(c)
      <4>1. binding'.synced = binding.synced
        BY <2>1, <3>2 DEF KeepScore, Binding
      <4>2. QED
        BY <2>1, <4>1
    <3>3. CASE Zero(c)
      BY <3>3 DEF Zero
    <3>4. QED
      BY <2>2, <2>4, <3>1, <3>2, <3>3 DEF CallStep, Enqueue, Finish, PushDate, Forget, PushScore, tableVars
  <2>5. QED
    BY <1>1, <2>2, <2>3, <2>4 DEF Next, Prune, BecomeDue, Read, Bind, Edit, Unbind, vars, tableVars
<1>2. QED
  BY <1>1, SyncInvariant, PTL DEF Spec, SyncedNeverDrops
=============================================================================
