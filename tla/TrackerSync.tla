----------------------------- MODULE TrackerSync -----------------------------
(***************************************************************************)
(* How reading progress reaches a tracking site: the table of sync jobs    *)
(* and the binding of a title to a remote entry (internal/db/repository.go)*)
(* the workers that claim and push jobs (internal/tracker/sync.go, in the  *)
(* daemon and in `makidoku sync`), and the requests that enqueue, edit and *)
(* rebind meanwhile (internal/api/tracker.go).                             *)
(*                                                                         *)
(* One title and one tracker.  A statement on the database is a step, a    *)
(* call of the provider is a step: what runs between two of them may have  *)
(* been done by somebody else.                                             *)
(***************************************************************************)
EXTENDS Naturals, FiniteSets

CONSTANTS Workers,      \* processes that push jobs
          Daemon,       \* the worker of the daemon; the others are `makidoku sync`
          Calls,        \* requests the daemon serves at once
          Remotes,      \* entries of the tracker a title can be bound to
          Numbers,      \* chapter numbers, in tenths
          Scores,       \* scores a reader gives
          HistoryLimit, \* syncJobHistoryLimit
          MaxReads,     \* bound: chapters read to the end, with repeats
          MaxChanges,   \* bound: bindings made, changed, rated or deleted
          MaxFaults,    \* bound: pushes that fail, processes killed, runs of `makidoku sync`
          None

ASSUME WorkerAssumption == Daemon \in Workers /\ None \notin Remotes \cup Scores
ASSUME SyncBoundAssumption == /\ {HistoryLimit, MaxReads, MaxChanges, MaxFaults} \subseteq Nat
                              /\ Numbers \subseteq Nat \ {0}

VARIABLES
    binding,   \* the row of tracker_bindings, or None
    jobs,      \* tracker_sync_jobs by id
    worker,    \* what each worker does next, and its locals
    call,      \* the same for each request
    remote,    \* the progress the provider shows for each entry
    killed,    \* a process was killed and none has prepared the table since
    pushed,    \* chapters the provider accepted for each entry
    crossed,   \* bindings pointed at another entry while somebody was at the old one
    reads, changes, faults

tableVars == <<binding, jobs>>
siteVars  == <<remote, pushed, crossed>>
countVars == <<reads, changes, faults>>
vars == <<tableVars, worker, call, siteVars, killed, countVars>>

JobIds == 1 .. MaxReads
BindingIds == 1 .. MaxChanges
Job == [binding : BindingIds, number : Numbers, due : BOOLEAN,
        status : {"PENDING", "RUNNING", "COMPLETED", "FAILED"}]
Binding == [id : BindingIds, remote : Remotes, synced : Numbers \cup {0}, score : Scores \cup {None}]
\* What a worker pushes: the binding and the chapter it has read.
Copy == [id : BindingIds, remote : Remotes, number : Numbers]

\* What a bind has looked up: the entry the title was bound to.
Lookup == [id : BindingIds, remote : Remotes]

ASSUME NoneAssumption == None \notin JobIds \cup Copy \cup Lookup \cup Binding

Rest == [pc |-> "idle", job |-> None, copy |-> None]
Free == [pc |-> "idle", copy |-> None, number |-> 0, job |-> None, score |-> None, to |-> None]

Init ==
    /\ binding = None /\ jobs = [j \in JobIds |-> None]
    /\ worker = [w \in Workers |-> IF w = Daemon THEN Rest ELSE [Rest EXCEPT !.pc = "down"]]
    /\ call = [c \in Calls |-> Free]
    /\ remote = [r \in Remotes |-> 0] /\ pushed = {} /\ crossed = {}
    /\ killed = FALSE
    /\ reads = 0 /\ changes = 0 /\ faults = 0

Alive == worker[Daemon].pc # "down"
At(w, label) == worker[w].pc = label
CallAt(c, label) == call[c].pc = label
Goto(w, label) == worker' = [worker EXCEPT ![w].pc = label]
CallGoto(c, label) == call' = [call EXCEPT ![c].pc = label]

\* Sites count whole chapters: scrobbleProgress rounds down.
Progress(n) == n \div 10

Stored(j) == jobs[j] # None
Has(j, status) == Stored(j) /\ jobs[j].status = status

-----------------------------------------------------------------------------
(* The worker: Run, DrainDue and ProcessOne                                *)

\* ResetInterruptedTrackerSync.  The RUNNING jobs of another process are taken
\* for interrupted ones too.
Prepare ==
    jobs' = [j \in JobIds |-> IF Has(j, "RUNNING") THEN [jobs[j] EXCEPT !.status = "PENDING", !.due = TRUE]
                              ELSE jobs[j]]

Start(w) ==
    /\ At(w, "down")
    /\ IF w = Daemon THEN UNCHANGED faults ELSE faults < MaxFaults /\ faults' = faults + 1
    /\ Prepare
    /\ Goto(w, "idle")
    /\ killed' = FALSE
    /\ UNCHANGED <<binding, call, siteVars, reads, changes>>

\* A due job of the tracker, if there is one.  The order among due jobs is left
\* open: it depends on seconds at which they were enqueued or failed.
Claim(w) ==
    /\ At(w, "idle")
    /\ \E j \in JobIds :
          /\ Has(j, "PENDING") /\ jobs[j].due
          /\ jobs' = [jobs EXCEPT ![j].status = "RUNNING"]
          /\ worker' = [worker EXCEPT ![w] = [Rest EXCEPT !.pc = "read", !.job = j]]
    /\ UNCHANGED <<binding, call, siteVars, killed, countVars>>

\* Mutant of FailTrackerSync: a failure is only logged.
FailUnrecorded(w, retry) == UNCHANGED jobs

\* FailTrackerSync.  A job that was deleted meanwhile stays deleted; one that was
\* completed meanwhile by another worker is PENDING again.
FailTrackerSync(w, retry) ==
    LET j == worker[w].job
    IN  jobs' = IF ~Stored(j) THEN jobs
                ELSE IF retry THEN [jobs EXCEPT ![j].status = "PENDING", ![j].due = FALSE]
                ELSE [jobs EXCEPT ![j].status = "FAILED"]

Leave(w) == worker' = [worker EXCEPT ![w] = Rest]

\* GetTrackerBindingByID: the job's binding may be gone, and the job with it.
ReadBinding(w) ==
    LET j == worker[w].job
    IN  /\ At(w, "read")
        /\ IF Stored(j) /\ binding # None /\ binding.id = jobs[j].binding
           THEN /\ worker' = [worker EXCEPT ![w].pc = "push",
                                            ![w].copy = [id |-> binding.id, remote |-> binding.remote,
                                                         number |-> jobs[j].number]]
                /\ UNCHANGED jobs
           ELSE FailTrackerSync(w, FALSE) /\ Leave(w)
        /\ UNCHANGED <<binding, call, siteVars, killed, countVars>>

\* Credential and UpdateTracking fail: for good (no credential, the provider
\* refuses) or for now, and then the provider may have accepted the push before
\* the answer was lost.
PushFails(w) ==
    /\ At(w, "push") /\ faults < MaxFaults
    /\ faults' = faults + 1
    /\ \/ \E retry \in BOOLEAN : FailTrackerSync(w, retry) /\ UNCHANGED <<remote, pushed>>
       \/ /\ FailTrackerSync(w, TRUE)
          /\ remote' = [remote EXCEPT ![worker[w].copy.remote] = Progress(worker[w].copy.number)]
          /\ pushed' = pushed \cup {<<worker[w].copy.remote, worker[w].copy.number>>}
    /\ Leave(w)
    /\ UNCHANGED <<binding, call, crossed, killed, reads, changes>>

\* Mutant of PushAccepted: an answer in the body that says no is taken for success.
PushUnread(w) ==
    /\ At(w, "push")
    /\ Goto(w, "mark")
    /\ UNCHANGED <<tableVars, call, siteVars, killed, countVars>>

PushAccepted(w) ==
    /\ At(w, "push")
    /\ remote' = [remote EXCEPT ![worker[w].copy.remote] = Progress(worker[w].copy.number)]
    /\ pushed' = pushed \cup {<<worker[w].copy.remote, worker[w].copy.number>>}
    /\ Goto(w, "mark")
    /\ UNCHANGED <<tableVars, call, crossed, killed, countVars>>

\* Mutant of Mark: the number pushed last replaces the one stored.
MarkLast(w) ==
    LET n == worker[w].copy.number
    IN  /\ At(w, "mark")
        /\ binding' = IF binding # None /\ binding.id = worker[w].copy.id
                      THEN [binding EXCEPT !.synced = n] ELSE binding
        /\ Goto(w, "complete")
        /\ UNCHANGED <<jobs, call, siteVars, killed, countVars>>

\* UpdateTrackerSyncedChapter: by the id of the binding, which a rebind keeps.
Mark(w) ==
    LET n == worker[w].copy.number
    IN  /\ At(w, "mark")
        /\ binding' = IF binding # None /\ binding.id = worker[w].copy.id /\ binding.synced <= n
                      THEN [binding EXCEPT !.synced = n] ELSE binding
        /\ Goto(w, "complete")
        /\ UNCHANGED <<jobs, call, siteVars, killed, countVars>>

Complete(w) ==
    LET j == worker[w].job
    IN  /\ At(w, "complete")
        /\ jobs' = IF Stored(j) THEN [jobs EXCEPT ![j].status = "COMPLETED"] ELSE jobs
        /\ Leave(w)
        /\ UNCHANGED <<binding, call, siteVars, killed, countVars>>

\* DrainDue returns when nothing is due.
Return(w) ==
    /\ w # Daemon /\ At(w, "idle")
    /\ ~\E j \in JobIds : Has(j, "PENDING") /\ jobs[j].due
    /\ worker' = [worker EXCEPT ![w] = [Rest EXCEPT !.pc = "down"]]
    /\ UNCHANGED <<tableVars, call, siteVars, killed, countVars>>

Terminal == {j \in JobIds : Has(j, "COMPLETED") \/ Has(j, "FAILED")}

\* PruneTerminalTrackerSyncJobs, between two polls of the daemon.
Prune ==
    /\ At(Daemon, "idle") /\ Cardinality(Terminal) > HistoryLimit
    /\ jobs' = [j \in JobIds |->
                  IF j \in Terminal /\ Cardinality({k \in Terminal : k > j}) >= HistoryLimit
                  THEN None ELSE jobs[j]]
    /\ UNCHANGED <<binding, worker, call, siteVars, killed, countVars>>

\* Mutant of BecomeDue: the delay is never over.
BecomeDueNever(j) == FALSE /\ Has(j, "PENDING") /\ UNCHANGED vars

\* The backoff of a failed job is over.
BecomeDue(j) ==
    /\ Has(j, "PENDING") /\ ~jobs[j].due
    /\ jobs' = [jobs EXCEPT ![j].due = TRUE]
    /\ UNCHANGED <<binding, worker, call, siteVars, killed, countVars>>

\* Between the row that points at the new entry and the statements that clear what
\* was synced to the old one.
Clearing(id, labels) == \E c \in Calls : call[c].pc \in labels /\ call[c].copy.id = id

\* A process dies.  The requests of the daemon die with it; what they had still to
\* clear stays.
Kill(w) ==
    /\ ~At(w, "down") /\ faults < MaxFaults
    /\ faults' = faults + 1 /\ killed' = TRUE
    /\ worker' = [worker EXCEPT ![w] = [Rest EXCEPT !.pc = "down"]]
    /\ IF w = Daemon
       THEN /\ call' = [c \in Calls |-> Free]
            /\ crossed' = crossed \cup {id \in BindingIds : Clearing(id, {"forget", "zero"})}
       ELSE UNCHANGED <<call, crossed>>
    /\ UNCHANGED <<tableVars, remote, pushed, reads, changes>>

WorkerStep(w) == ReadBinding(w) \/ PushFails(w) \/ PushAccepted(w) \/ Mark(w) \/ Complete(w)

-----------------------------------------------------------------------------
(* A finished chapter: progress, EnqueueForProgress, pushFinishDates       *)

Done(c) == call' = [call EXCEPT ![c] = Free]

\* ListTrackerBindings.  A title without a binding has nothing to tell.
Read(c, n) ==
    /\ Alive /\ CallAt(c, "idle") /\ binding # None /\ reads < MaxReads
    /\ reads' = reads + 1
    /\ call' = [call EXCEPT ![c] = [Free EXCEPT !.pc = "enqueue", !.number = n, !.job = reads',
                                                !.copy = binding.id]]
    /\ UNCHANGED <<tableVars, worker, siteVars, killed, changes, faults>>

\* Mutant of SameJob: every chapter read gets a row of its own.
SameJobNever(id, n) == {}

SameJob(id, n) == {j \in JobIds : Stored(j) /\ jobs[j].binding = id /\ jobs[j].number = n}

\* EnqueueTrackerSync: one row for a chapter of a binding.  A COMPLETED row stays;
\* any other is PENDING again, also the RUNNING one a worker is pushing.  The
\* binding may be gone, and the foreign key refuses the row.
Enqueue(c) ==
    LET id == call[c].copy
        n  == call[c].number
    IN  /\ CallAt(c, "enqueue")
        /\ jobs' = IF binding = None \/ (binding # None /\ binding.id # id) THEN jobs
                   ELSE IF SameJob(id, n) = {}
                   THEN [jobs EXCEPT ![call[c].job] = [binding |-> id, number |-> n, due |-> TRUE,
                                                       status |-> "PENDING"]]
                   ELSE [j \in JobIds |-> IF j \in SameJob(id, n) /\ jobs[j].status # "COMPLETED"
                                          THEN [jobs[j] EXCEPT !.status = "PENDING", !.due = TRUE]
                                          ELSE jobs[j]]
        /\ CallGoto(c, "finish")
        /\ UNCHANGED <<binding, worker, siteVars, killed, countVars>>

\* pushFinishDates reads the bindings again, unless the chapter was only read
\* to nine tenths.
Finish(c) ==
    /\ CallAt(c, "finish")
    /\ \/ Done(c)
       \/ /\ binding # None
          /\ call' = [call EXCEPT ![c].pc = "date", ![c].copy = binding.id, ![c].to = binding.remote]
    /\ UNCHANGED <<tableVars, worker, siteVars, killed, countVars>>

\* The push of the date carries the number of the chapter; whether it was
\* accepted is only logged.
PushDate(c) ==
    /\ CallAt(c, "date")
    /\ \/ /\ remote' = [remote EXCEPT ![call[c].to] = Progress(call[c].number)]
          /\ pushed' = pushed \cup {<<call[c].to, call[c].number>>}
       \/ UNCHANGED <<remote, pushed>>
    /\ Done(c)
    /\ UNCHANGED <<tableVars, worker, crossed, killed, countVars>>

-----------------------------------------------------------------------------
(* bindTracker and UpsertTrackerBinding, deleteBinding                     *)

\* The lookup: which entry the title was bound to.
Bind(c, r) ==
    /\ Alive /\ CallAt(c, "idle") /\ changes < MaxChanges
    /\ changes' = changes + 1
    /\ call' = [call EXCEPT ![c] = [Free EXCEPT !.pc = "upsert", !.to = r, !.number = changes',
                                                !.copy = IF binding = None THEN None
                                                         ELSE [id |-> binding.id, remote |-> binding.remote]]]
    /\ UNCHANGED <<tableVars, worker, siteVars, killed, reads, faults>>

\* Pointing the binding at r crosses a worker that has read the old entry and will
\* record its push by the id of the binding, or another request that has pointed it
\* elsewhere since the lookup.
Crosses(c, r) ==
    \/ \E w \in Workers : /\ worker[w].copy # None /\ worker[w].copy.id = binding'.id
                           /\ worker[w].copy.remote # r
    \/ /\ binding # None /\ binding.remote # r
       /\ call[c].copy # [id |-> binding.id, remote |-> binding.remote]

\* The row: a new one, or the old one pointed at the entry.  Its score survives
\* when the entry is the same.
Upsert(c) ==
    LET r == call[c].to
    IN  /\ CallAt(c, "upsert")
        /\ binding' = IF binding = None
                      THEN [id |-> call[c].number, remote |-> r, synced |-> 0, score |-> None]
                      ELSE [binding EXCEPT !.remote = r,
                                           !.score = IF binding.remote = r THEN @ ELSE None]
        /\ IF call[c].copy # None /\ call[c].copy.remote # r
           THEN CallGoto(c, "forget") ELSE Done(c)
        /\ crossed' = IF Crosses(c, r) THEN crossed \cup {binding'.id} ELSE crossed
        /\ UNCHANGED <<jobs, worker, remote, pushed, killed, countVars>>

\* Mutant of Forget: the list keeps what was pushed to the old entry.
ForgetNone(c) ==
    /\ CallAt(c, "forget")
    /\ CallGoto(c, "zero")
    /\ UNCHANGED <<tableVars, worker, siteVars, killed, countVars>>

\* The jobs of the old entry go ...
Forget(c) ==
    /\ CallAt(c, "forget")
    /\ jobs' = [j \in JobIds |-> IF Stored(j) /\ jobs[j].binding = call[c].copy.id THEN None ELSE jobs[j]]
    /\ CallGoto(c, "zero")
    /\ UNCHANGED <<binding, worker, siteVars, killed, countVars>>

\* Mutant of Zero: the new entry inherits the number.
ZeroNever(c) ==
    /\ CallAt(c, "zero")
    /\ Done(c)
    /\ UNCHANGED <<tableVars, worker, siteVars, killed, countVars>>

\* ... and then the number synced to it.
Zero(c) ==
    /\ CallAt(c, "zero")
    /\ binding' = IF binding # None /\ binding.id = call[c].copy.id
                  THEN [binding EXCEPT !.synced = 0] ELSE binding
    /\ Done(c)
    /\ UNCHANGED <<jobs, worker, siteVars, killed, countVars>>

\* The jobs go with the row, by the foreign key.
Unbind ==
    /\ Alive /\ binding # None /\ changes < MaxChanges
    /\ changes' = changes + 1
    /\ binding' = None
    /\ jobs' = [j \in JobIds |-> IF Stored(j) /\ jobs[j].binding = binding.id THEN None ELSE jobs[j]]
    /\ UNCHANGED <<worker, call, siteVars, killed, reads, faults>>

-----------------------------------------------------------------------------
(* updateTrackerBinding: a score                                           *)

Edit(c, s) ==
    /\ Alive /\ CallAt(c, "idle") /\ binding # None /\ changes < MaxChanges
    /\ changes' = changes + 1
    /\ call' = [call EXCEPT ![c] = [Free EXCEPT !.pc = "rate", !.score = s, !.to = binding.remote,
                                                !.number = binding.synced]]
    /\ UNCHANGED <<tableVars, worker, siteVars, killed, reads, faults>>

\* The provider is told the score and, again, the number last synced.
PushScore(c) ==
    /\ CallAt(c, "rate")
    /\ \/ /\ remote' = [remote EXCEPT ![call[c].to] = Progress(call[c].number)]
          /\ CallGoto(c, "keep")
       \/ Done(c) /\ UNCHANGED remote
    /\ UNCHANGED <<tableVars, worker, pushed, crossed, killed, countVars>>

\* UpdateTrackerTracking: on the binding the title has now.
KeepScore(c) ==
    /\ CallAt(c, "keep")
    /\ binding' = IF binding # None THEN [binding EXCEPT !.score = call[c].score] ELSE binding
    /\ Done(c)
    /\ UNCHANGED <<jobs, worker, siteVars, killed, countVars>>

CallStep(c) == \/ Enqueue(c) \/ Finish(c) \/ PushDate(c) \/ Upsert(c) \/ Forget(c) \/ Zero(c)
               \/ PushScore(c) \/ KeepScore(c)

Next ==
    \/ \E w \in Workers : Start(w) \/ Claim(w) \/ WorkerStep(w) \/ Return(w) \/ Kill(w)
    \/ Prune \/ \E j \in JobIds : BecomeDue(j)
    \/ \E c \in Calls : \/ CallStep(c)
                        \/ \E n \in Numbers : Read(c, n)
                        \/ \E r \in Remotes : Bind(c, r)
                        \/ \E s \in Scores : Edit(c, s)
    \/ Unbind

Spec == Init /\ [][Next]_vars

\* The daemon polls (tracking.auto_sync is on), its goroutines run, time passes.
\* Nobody has to start `makidoku sync` or restart a daemon.
Fairness ==
    /\ WF_vars(Claim(Daemon) \/ WorkerStep(Daemon))
    /\ \A w \in Workers \ {Daemon} : WF_vars(WorkerStep(w))
    /\ WF_vars(\E j \in JobIds : BecomeDue(j))

FairSpec == Spec /\ Fairness

-----------------------------------------------------------------------------
(* Properties                                                              *)

WorkerOK(w) ==
    /\ worker[w].pc \in {"down", "idle", "read", "push", "mark", "complete"}
    /\ worker[w].job \in JobIds \cup {None}
    /\ worker[w].copy \in Copy \cup {None}
    /\ worker[w].pc \in {"push", "mark", "complete"} <=> worker[w].copy # None
TypeOK ==
    /\ binding \in Binding \cup {None} /\ jobs \in [JobIds -> Job \cup {None}]
    /\ \A w \in Workers : WorkerOK(w)
    /\ \A c \in Calls : call[c].pc \in {"idle", "enqueue", "finish", "date", "upsert", "forget",
                                        "zero", "rate", "keep"}
    /\ remote \in [Remotes -> {0} \cup {Progress(n) : n \in Numbers}]
    /\ pushed \subseteq Remotes \X Numbers /\ crossed \subseteq BindingIds
    /\ \A j, k \in JobIds : Stored(j) /\ Stored(k) /\ jobs[j].binding = jobs[k].binding
                              /\ jobs[j].number = jobs[k].number => j = k

\* What the list of jobs and the binding claim, the site has accepted for the entry the
\* title is bound to now: two workers on one job, a push whose answer was lost, a job
\* enqueued again and a title bound to another entry included.  Two times are left out:
\* while a request still clears what was synced to the old entry, and from a rebind that
\* crossed a push, another bind or the end of the daemon (crossed) on.
ClaimsAreTrue ==
    binding # None /\ binding.id \notin crossed =>
      /\ \A j \in JobIds : Has(j, "COMPLETED") =>
            \/ Clearing(binding.id, {"forget"})
            \/ <<binding.remote, jobs[j].number>> \in pushed
      /\ binding.synced # 0 =>
            \/ Clearing(binding.id, {"forget", "zero"})
            \/ <<binding.remote, binding.synced>> \in pushed

\* A RUNNING job has a worker, or its process was killed and the next process
\* puts it back: no answer of a provider and no second process strands a job.
NoStrandedJob ==
    \A j \in JobIds : Has(j, "RUNNING") => killed \/ \E w \in Workers : worker[w].job = j

\* Retries, out-of-order jobs and second workers never take back what a binding
\* has synced; only pointing it at another entry does.
SyncedNeverDrops ==
    [][binding # None /\ binding' # None /\ binding'.id = binding.id /\ binding'.synced < binding.synced
         => \E c \in Calls : CallAt(c, "zero")]_vars

\* The daemon settles every job, through failures, kills and other workers, unless
\* the daemon is down or nothing has prepared the table since a kill.
JobsSettle ==
    \A j \in JobIds : Has(j, "PENDING") \/ Has(j, "RUNNING") ~>
        ~(Has(j, "PENDING") \/ Has(j, "RUNNING")) \/ ~Alive \/ killed

\* The table of jobs tells the truth: what it and the binding claim the site has
\* accepted for the entry bound now, unless the rebind was crossed, and what is
\* RUNNING somebody runs.
SyncSound == TypeOK /\ ClaimsAreTrue /\ NoStrandedJob
=============================================================================
