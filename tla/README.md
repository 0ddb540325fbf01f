# A verification development of makidoku

makidoku is a manga reader: a Go daemon that keeps a library in SQLite, runs
source plugins in WebAssembly, downloads chapters into archives, pushes reading
progress to trackers, and serves a web client. This directory holds TLA+ models
of its parts, the TLC configurations that check them and TLAPS proofs about
them. Paths below are relative to `src/`.

    tlc -config MCServices_parts.cfg MCServices.tla     one run
    tlapm MCServices_proofs.tla                         one module of proofs

`PROJECT.json` lists the runs with their properties, a mutant that breaks each
property, the lines each definition stands for, the hazards of the code and the
theorems.

Contents: 1 the system, 2 the modules, 3 the runs and their bounds, 4 the
fairness assumed, 5 the proofs, 6 where the code and what is said of it part,
7 what is only model-checked, 8 what is not modelled, 9 what is left to do.

## 1. The system

The daemon is one process. Its HTTP handlers and background loops are
goroutines that share one SQLite connection (`internal/db/database.go`,
`SetMaxOpenConns(1)`): a statement or a transaction is atomic, and anything can
happen between two of them. `makidoku download` and `makidoku sync` are other
processes on the same database.

| Component | State | Operations and partners | What is hard | What makes it correct |
|---|---|---|---|---|
| Download queue, `internal/downloader/queue.go`, `internal/api/downloader.go` | pause flags, wake channel; per worker the locals of `process` | workers claim rows, ask the engine for pages, stage files, write archives, register chapters; handlers pause, resume, cancel, retry, reorder | workers and handlers interleave between every two statements; crashes | no row is stranded, what the user decided stands, caps hold, saved pages are on disk, a registered chapter is readable, no file is left behind |
| Queue table, `internal/db/repository.go` 1592-2110 | `download_queue` | one statement per call, status guards in the WHERE clauses | guards too weak for a late caller | as above |
| One-shot drain, `queue.go` 420-472, `cmd/download.go` | error channel | enqueue, then workers until the queue is empty | a full channel; claims that fail | it returns and reports every failure |
| Archive writer, `internal/downloader/cbz.go` | files | temporary file and rename, removal | paths shared by chapters; directories | a path holds what its chapter registered |
| Pacing and policies, `downloader/{worker,queue}.go`, `api/source_downloads.go` | next free slot of a host, cached policies | wait, retry, resolve, override | a policy changed under a wait or a lookup | requests keep their distance under the current policy |
| Plugin engine, `internal/engine/{engine,instance}.go` | installation row, cached binaries, loaded plugins, instance pools | load, call, install, uninstall, close | one loader at a time against replacements; the pool's channel | instances are counted once, nothing leaks, nothing closed is served |
| Registry of sources, `engine/registry.go` | index kept for a while, verified binaries kept for good | look up, look again, download | the publisher changes index and binary on its own | a binary is one the catalog gave; missing means unlisted |
| Challenges, `engine/{fetch,clearance}.go`, `app/autosolve.go`, `internal/solver` | claims, stored material, allowance, one window | claim, wait, solve, replay | wake-ups, bursts, two kinds of solver | no lost wake-up, one prompt per host, material stays in its domain |
| Tracker sync, `tracker/sync.go`, `repository.go` 1369-1590 | jobs, binding | enqueue, claim, push, complete, rebind | two processes, lost answers, rebinding | jobs and binding claim only what the site accepted for the entry they are bound to |
| Tracker accounts, scores, `tracker/{registry,credentials,scores}.go`, `api/tracker.go` | credential, pending sign-in, subscriber | sign in, refresh, disconnect, show | rotating refresh tokens, a full buffer | a process presents a token once; the page shows what is stored |
| Migration jobs, `api/migration_jobs.go` | job, titles, subscribers | search, subscribe, cancel, expire | cancel before start, reconnects | pages agree with the job; outages are not shown as absences |
| Title migration, `api/migration.go` | title, chapters, marks | capture, commit, fetch, carry | reports, refreshes and other migrations in between | the title is whole; what was read is carried |
| Library and refresh, updater, `api/library.go`, `internal/updater` | chapters, links, update log | adopt, insert, link | locators rotate; overlapping refreshes | one chapter per release; what was read stays read |
| Reading progress, `useReaderProgress.ts`, `api/tracker.go` | posts on the way, retries, progress, history | report, retry, flush, record | lost requests and answers, incognito | the title opens where it was left; seconds counted once |
| Images, covers, `api/{sources,library}.go`, `internal/imagecache` | page rows, files, cover row, slots | list, fetch, keep, sweep, edit | renumbered pages, sweeps, crossing writes | what is kept is what it is kept for |
| Settings, `internal/settings`, `api/settings.go` | table, map, copies | get, set, reset, restore | fills crossing writes | a setting is served as it is stored |
| Backup and import, `internal/backup`, `internal/tachibackup` | library tables, documents | import, export, restore, prune | merges, healed locators, crashes | no duplicates, nothing dangles, a backup holds what was there |
| Matching, recognition, selection | none | pure functions | decorations, volumes, ties | what they are for, on every input of a size |
| Daemon life cycle, `internal/app/server.go` | loops, listener | run, fail, stop, join, close | what is joined before the database closes | nothing waited for runs on a closed database; failures are reported |
| Event broker and client, configuration, identity, logging, host functions, web pages, tray, CLI | - | - | - | not modelled, see section 8 |

## 2. The modules

### The download queue

`QueueTable` is the table as a function from row ids to rows, and each
repository method on it an operator from a table to the next: `SetStatus` with
the guard of the statement, `Without` for deletes, `InsertRow` and
`RequeueFailed` for the upsert of `EnqueueChapter`, `Claimable` and `Heads` for
the gates and the ORDER BY of `ClaimNextQueueItem`, `AcceptsProgress`,
`UpdateProgress` and `SaveDone` for the two progress statements, `Superseded`
and `SetOrder` for the reorder. `done_pages` is kept as the number of its
indexes, the only thing the code reads back; rows that tie on position are
ordered by a time in seconds, so the model lets either come first.

`DownloadQueue` adds the downloaded chapters, staging directories and staged
pages, the chapter whose pages the file at each path holds, the pause flags, and
per worker a program counter with the locals of `process`.

| Action | Code |
|---|---|
| `ResolveGates`, `Claim`, `ReadItem` | `runWorker`, `claimOptions`, the claim statement, `GetQueueItem` |
| `OpenItem`, `RecordProgress`, `NextPage`, `FetchPage`, `SavePages` | `process` up to the end of the page loop |
| `Boundary`, `Discard`, `Release` | `interrupted`, `removeStaged`, `releaseForPause` |
| `WriteArchive`, `Replace`, `Complete`, `RemoveArtifact`, `Cleanup`, `Fail` | the rest of `process`, `CompleteQueueDownload`, `removeArtifact`, `fail` |
| `EnqueueChapter`, `PauseItem`, `ResumeItem`, `RetryItem`, `RetryFailedItems`, `Cancel`, `CancelAll`, `Reorder`, `PauseAll`, `ResumeAll`, `PauseSource`, `ResumeSource`, `RetireChapters` | the handlers of `internal/api/downloader.go` and the migration |
| `DiscardCanceled`, `YieldSuperseded` | the second halves of cancel and reorder, which run after their first transaction |
| `Crash`, `Restart` | death of the daemon; `ResetInterruptedQueue` in `Run` |

`WriteArchive` goes up to the first rename of `replacePath`. Where a rename does
not replace what stands at its target (`Replaces`: never for a folder, and as the
system has it for a file) it is refused, what stands there is removed, and
`Replace` is the second rename: between the two a crash, or a second refusal,
leaves nothing (`Removed`).

Simplifications: fetching bytes, pacing, retries and unscrambling end in success
or failure of one step. `fail` merges its status read with `MarkQueueFailed`,
whose write has the same guard; `UpsertPages` and `CompleteQueueDownload` are one
step that may be refused. `fail` leaves the row alone for a canceled context,
which only a shutdown causes (the engine wraps its own timeouts in coded errors):
a shutdown is a `Crash`, and a call it makes fail is a failing `FetchPage`.
Database errors other than refused writes, and of the page rows, are left out.

`ChapterLifecycle` is what the queue promises about a chapter: the states of its
entry and the step in which it becomes downloaded. `DownloadQueue` implements it
under `entry <- [c |-> EntryOf(c)]`.

`ChapterSelection` is the choice of the chapters to enqueue (`selectChapters`),
a function. `DownloadDrain` has the drain's workers, their claims, and the error
channel with capacity `Workers` that is read after all workers returned; a worker
goes on after the failure of a row, so that one can fill it alone.
`PagePacing` has the slots of a host, the retries, and the policy of a source
resolved from three layers: `Begin` looks in the cache, `Hints` and `Override`
read the layers one at a time, `Store` keeps the result; `PutOverride`,
`UpdateSource` and `InvalidateSourcePolicy` change them. Time is what is left of
a wait. Intervals are positive: an interval of zero asks for no distance.

### The engine and its sources

`SourceEngine` follows one plugin key: the installation row, the binaries in the
cache, the map of loaded plugins with its one-loader discipline, and the pool of
each loaded plugin. A step is what a goroutine does between two accesses to
state another one can change (the row, a file, `Engine.mu`, `loadedPlugin.mu`,
the idle channel). Callers run `ReadRow`, the loader's compile and store, then
acquire, take or wait, call, and release or discard; administrators install and
uninstall; `CloseEngine` and `Crash` end it.

`Catalog` is the other side: `Registry.Index` with the time it is kept, the
second look of `Find`, the floor of a version, and `Fetch`, which verifies a
binary and keeps it. The publisher changes the index and the binaries as it
likes; versions are triples, compared number by number.

`Challenges` has the fetcher that claims a challenge, the broker that stores
material and wakes waiters, the daemon's solver with its allowance, the reader's
solves, and the one window both use. A process is a plugin's request, or a solve
that ends with a probe, which is a request too; what the site answers is free.
`Material` is the host's own row, its ancestor's, or the one cookie an earlier
version stored, which names no host (`legacy`).

### Trackers

`TrackerSync`: jobs and binding of one title, workers in two processes, and the
handlers that enqueue, bind, rate and unbind, one statement or one call of the
provider a step; the site's entries record what was pushed. `TrackerAccounts`:
the pending sign-in, the exchange, the stored credential, its refresh under a
lock that each process has of its own (`SyncCallers` are those of `makidoku
sync`), and the subscriber's buffer. A grant is what the provider gave at one
sign-in, and honours the last of its refresh tokens only. `TrackerScores` is
the conversion of scores, in thirtieths of a point.

### Titles, chapters, reading

`MigrationJobs` is one search job: the goroutine of each title, the slots, the
sources in order or by priority, the frames and snapshots pages read.
`TitleMigration` is what is done with its result: `Capture`, `Commit`, the fetch
of the new list, and the three carrying steps, of several migrations at once,
with reports, bookmarks, refreshes and crashes between. What the commit does to
the queue is `RetireChapters` of `DownloadQueue`.

`Library` has the statements of a refresh (adopt, insert, link, record) over a
source that publishes, moves, withdraws and brings back releases, the updater's log, and the
reader's marks. `ReadingProgress` puts the reader page (saves, timers, retries,
flushes, the seconds one report may carry) against the daemon's record.
`SettingsCache` has the table, the map and the copies: three that a put tells of
a change (`Observed`), and those the program takes at its start and never tells; a request takes a step for each statement and for each time it takes
the lock.

### What is kept beside the library

`ImageCache` (the list of pages, the image of one, cached files and retention),
`Covers` (the cached cover against the writes that replace it and drop the file,
imports and restores that replace it and do not, and the transfer slots), `Imports` (import, export, restore, snapshots) with `ImportPlan`, which
matches sources before anything is written. In `Imports` a table is a sequence
of rows (titles, chapters, history), a set of links or a function of its key
(resume points, read states: a row can also say that a chapter is not read); an
import or a restore is one step (`Imported`, `Overwritten`, which `Committed`
takes or rolls back), an export one step per table (`ReadTable`), and meanwhile
the daemon heals locators, records reading, lets the reader mark chapters
(`Mark`) and annotate rows (`Annotate`), installs sources and crashes. What a
document does not carry, or a restore does not write, is a set of facts of its
own (`beside`): the columns a user fills of a title or a chapter, and merges.

### Functions

`ChapterNumbers` (`internal/chapterrecog`) reads a name as a sequence of parts,
`TitleMatching` (`internal/migration`) a title as a sequence of characters of
classes the code tells apart.

### The daemon

`Daemon` is `Server.Run` and `close`: the listener, the four loops, the answers
Run reads, the shutdown with its limit, the joins and the releases.

### Composites

Parts that share no state are checked side by side, in one run: a variable
`part` chosen by Init names the one that moves and the others rest, so a run has
the sum of their states. `MCSourceEngine`: `SourceEngine`, and `Challenges` by way
of `MCChallenges`. `MCServices`: `Daemon`, `DownloadDrain`,
`TrackerAccounts`, `PagePacing`. `MCRecords`: `Library`, `TitleMigration`,
`ReadingProgress`, `SettingsCache`, two of them with bounds that matter in each of
its two runs. `MCKept`: `ImageCache`, `Covers`,
`Catalog`. `MCImports`: `Imports`, and the functions, of which a behaviour takes
one input to its answer. The other MC modules give one module its constants.

### Ghosts

Where a promise of the code holds only until something it does not guard
against, the model records that event in a variable no guard reads, and the
property excepts exactly it. `Library`: `due` (what the reader marked), `torn`.
`TitleMigration`: `owed`, `wanted`, `opened`, `lost`, `mixed`, `raced`.
`ReadingProgress`: `given`, `repeated`, `capped`, `lost`, `elapsed`.
`SettingsCache`: `contested`, `deaf`. `ImageCache`: `renumbered`, `rewritten`.
`Covers`: `crossed`, `unheard`. `Catalog`: `given`, `listed`.
`TrackerAccounts`: `lost`, `clobbered`, and `crossed` of a caller.
`TrackerSync`: `crossed`, `killed`. `PagePacing`: `stale`, `quiet`.
`Challenges`: `unverified`. Each exception is a disagreement
of section 6 or a loss the code accepts.

## 3. The runs

`CHECK_DEADLOCK FALSE` everywhere: a daemon with nothing left to do and no
command left stops. Every disjunct of the next-state relations fires in some
passing run. The bounds of each are in its .cfg.

| Run | Instance | Shows |
|---|---|---|
| `steady` | 2 workers, 3 chapters of 2 pages, 2 sources with caps 1 and 2, 3 commands that take no row from a worker (a migration among them), 1 crash | types; a registered chapter is readable; saved pages are on disk; the caps hold |
| `commands` | 2 workers, 2 chapters, 3 commands of all, 1 crash, failing page rows | no stranded row, no unregistered archive, user decisions stand, the lifecycle is implemented |
| `progress` | 2 workers, 2 chapters for one slot, 3 commands, 1 crash, fairness | rows in flight leave it; pending rows are claimed |
| `engine` | 2 callers, 3 calls, a pool of 1, 2 binaries at 2 paths, 1 change, 1 crash; beside it a host below another and a third, with or without a cookie of an earlier version, one request, one solver of each kind, 1 submission; fairness | the pool's accounting, no leak, nothing closed served, the binary is there; wake-ups, one prompt, the allowance, material; calls return and everything ends |
| `tracker` | 2 workers, 1 call, 2 remotes, numbers that count as one chapter, 2 reads, 2 changes, 2 faults, fairness | claims are true, no stranded job, synced never drops; jobs settle |
| `migration` | 2 titles, 2 sources, 1 slot, 2 pages, 2 connections, 1 cancel, fairness | pages agree, outages show, the best is chosen; the job ends |
| `services` | the four parts of `MCServices`, fairness | sections above |
| `titles` | two releases moved, withdrawn and brought back by a source, two refreshers; two migrations of a title, an outage | one chapter per release, what was read stays read; the title is whole, what was read is carried |
| `reader` | a reader of two chapters with two reports; two clients of the settings, 2 writes, 1 failure | the resume point and the seconds; a setting is served as it is stored |
| `kept` | the three parts of `MCKept`, fairness | sections above |
| `imports` | two backups imported twice, 1 export, 1 restore, 1 event; all inputs of the functions up to a size | sections above |
| `lost_archive` | 2 workers, 1 chapter, pause and resume | a violation, section 6 |

Why these bounds are enough for what they are meant to show. Two workers: one
holds what the other lost; three chapters of two sources: competition under
caps that differ; three commands: a row is taken away, given back and claimed
elsewhere; two pages: before, in and after the one at hand. Two callers and a
pool of one: somebody waits while somebody fails. A host below another and one
apart: the material of a parent fits, that of a stranger does not. Two pages
and two connections: one leaves while the other follows, and comes back. Two
refreshes of one token: the first is stale when the second is presented; three
calls of two processes: two under one lock, one beside them. Three rows and two
workers of the drain: with a claim that fails, more fail than the channel holds,
and the drain blocks; `EverythingEnds` says that it ends unless that happens.
`Overlap = FALSE` in `titles`: a source does not change under a refresh on its
way, where the code forks (section 6). `MaxEvents` of the accounts is 8 in the
code (`internal/tracker/events.go`) and 1 here, so that the buffer is full
sooner; a report of reading carries one second of two here, 300 in the code, so
that a page outlasts it. In `imports` one event lies between two imports: a
locator that is healed twice between two backups is not reached. Instances of one size more were run once for the invariants of section 5.

## 4. Fairness

Weak fairness of each goroutine's next step (worker, caller, title, solve,
loop), of the pending halves of handlers, of clocks (`Tick`, `BecomeDue`), and
of `Restart`: Go schedules runnable goroutines, every wait in question has a
deadline, the claim loop wakes at least every second (`wait`), and a daemon that
went down is started again. Strong fairness for `TakeSlot` only: the transfer
slots are a buffered channel, and Go serves senders blocked on a channel in the
order they came. Nothing is assumed of users, sites or publishers: a paused row
may wait forever, nobody has to answer a challenge, connect a page, start
`makidoku sync` or publish. Requests in `Covers` and `Catalog` end without any
assumption about others that write.

## 5. The proofs

A proof module EXTENDS the module it is about and TLAPS; its theorems hold for
every value of the constants the named assumptions allow, where a run has one.
Each safety theorem has the same three parts: the initial states satisfy an
inductive invariant, every action keeps it (a lemma per action or family of
actions), and it implies the property. The invariants were first given to TLC on
the runs' instances. Composites are proved part by part: an action of one part
leaves the others' variables alone, so their invariants rest.

### `DownloadQueue_proofs`

`TypeInv`: types, and that what a worker or a pending half of a handler holds is
an id the table has issued.

| Theorem | Strengthening, and why it is needed |
|---|---|
| `TypeCorrect` | a staged page lies in a directory that exists, which needs to know whose directory a worker writes to |
| `DecisionsStand` | `RowsKept`: what each statement may do to a row not its own; a worker holds rows that have left it |
| `NoDownloadAbandoned` | `ChapterKnown`: a worker's chapter is that of its row while the row is there, since progress is written by row and completion by chapter |
| `LifecycleImplemented` | `OneRow`: a chapter has one row at most, otherwise `EntryOf` would jump. Each step is mapped to a step of `ChapterLifecycle` or a stutter |
| `NoArchiveOrphaned` | assumes `Format = "cbz"`: `os.Remove` does not remove a folder (queue.go:664); a file without a registration has a writer between archive and completion |

The rest of the module is about what holds as long as users leave some commands
alone. The commands a theorem excludes are the ones that break the property in
the code (section 6).

| Theorem | Hypothesis | Strengthening |
|---|---|---|
| `GatesHold` | no resume and no reorder of a single row | `Base` (what every command leaves true) and `Apart`: a worker that lost its row does not find it pending, so no late progress write puts one back in flight; the counts of `Claimable` then bound the rows in flight |
| `PagesSaved` | no pause of a single row | `PagesInv`: staged pages are removed only under ids that are gone for good, and what a worker counts as done is staged, without the page at hand |
| `DownloadedStaysReadable` | `PathOf` is injective; folders, or page rows that can be written and no command that takes a row from its worker | `ReadInv`: a chapter about to be registered has its file at its path, and so has a registered one unless `replacePath` took it away where a rename does not replace (`Readable`); `Owned`, from `Apart`: a worker still has its row, so its completion is not refused while the chapter stays; `Removable`: whoever removes a file removes that of a chapter that left the library |

### `MCRecords_proofs`

`MigrationRuns` shows that the part of the title behaves as `TitleMigration`.
`TitleWhole` rests on `CheckStands` (a replacement that was not in the library
when it was checked is not there at the commit, or came there in between, which
`raced` records). `ReadingCarried` is the longest: `NothingForgotten` (what was
read and bookmarked, and where the title was open, is in the rows, in somebody's
capture, or carried) with
`Carries` and `TookUp` for the migration at work, and lemmas on the highest
number of a finite set of chapters (`TitleMigration!MigrationAssumption` makes
the sets finite). `SettingsServed` keeps, for each key that is not contested,
that a value in hand is the table's, that the map is in line or its writer is
about to bring it in line, and that a copy is in line, not told yet (`deaf`), or a
`put` is on its way to it. `RequestMoves` and `RequestWrites` say once what a
request may do to these; each action is an instance of one of them.
`ResumeKept` is the half of `ReadingIsRecorded` about the position. `Followed`
keeps track of the last report alone: it is handled, given up or under way (a
request, an entry of the retry queue or of a flush at work), wherever it is it
says what was last asked for, and a position that is not reported is the one
reported last. `MovesFollowed` says once that requests may change hands and
`SaveFollowed` what a save adds; `PageTyped` has what waits go with the page.
It needs that `None` is no chapter, position or row
(`ReadingProgress!ReadingAssumption`).

`ReadingRecorded` adds the seconds. `Accounted` is the equation

    elapsed + repeated = seconds + given + capped + those of the open page + those outstanding

where outstanding are the requests under way that no handler has seen, and
`Apart` keeps the three places a request can be in disjoint, with one entry for
a number, so that the sums add up. The library's `FoldSet` chooses its order and
is a recursion without a theorem; `AddsExists` and `AddsUnique` show, by a
smallest counterexample among finite sets, that the function it stands for is
there and is the only one, and `SumOfBoth` that it adds over disjoint sets.

`ChaptersKept` and `ReadKept` are about the chapters of a title, and have a
hypothesis, in three parts. The source rests while it is asked (`Overlap =
FALSE`). Each release has a rung of the ladder, from the fourth on, whose key is
its alone (`Recognisable`): its number with its group and language, its number
with its group, its number with its title, or its title; a source that gives
numbers only, and several groups that translate the same chapter under one
title, are among these. Two things keep the rungs of that kind comparable: of
releases with a number and group in common all name their language or none does
(`LanguagesAgree`), and a backup has a release once (`HeldOnce`). And the source
does not withdraw a release that another shares a rung with
(`KeepsConfusable`); any other it may withdraw and bring back. Section 6 says
what happens otherwise. The argument has two halves.

- The ladder. `Adopted` climbs seven rungs, on each of which a key that fits one
  chapter and one item pairs them. `SameKey`: a chapter and an item whose keys
  meet on a rung are of releases that share the key there. `SomeKeyTells`: a
  chapter and an item of one release meet on some rung where no other release
  does. A rung may pair only what is of one release: that of a chapter whose
  release could be mistaken is listed (`Covered`), so a key that two releases
  share fits two items or two chapters and is passed over, or one of each that
  leave together (`OnRung`). `RungKeeps` and `RungMatches` carry both from a rung
  to the next, `ClimbIsThere` shows that the recursive function of the ladder is
  there, and `AdoptionFits` is the sum: of what a refresh listed, exactly the
  chapters of a listed release whose locator has moved are adopted, each by its
  own release.
- `Lasting`: a chapter whose release could be mistaken has one the source still
  shows, which is what `Covered` needs (`LastingGoesOn`).
- The interleaving. `Snapshot`: a chapter a refresh listed still has a locator of
  its release, and one it did not list has the current one or none yet. `Chosen`:
  the row a refresh is about to write is the only one of the release, unless
  another has linked one to the very locator, whereupon its own link is refused.
  `Own`: a row without a link is of one refresh. With these two refreshes that add
  the same chapter leave one linked row and one that nobody sees.

The run's releases share their number and group and differ in title, and may
both be withdrawn: it covers what `KeepsConfusable` leaves out for two releases,
where the ladder still tells them apart; the theorem covers every number of them.

### `MigrationJobs_proofs`

`JobInv`: what a search has heard and stored bears out its verdict (`SearchOK`,
`ResultOK`), the titles in a slot are finitely many and no more than the slots
(`SlotsHold`), and an attached page shows the state of each title, has a frame
that tells it or is about to be sent one (`PageOK`). `JobsAreSound`, `OutagesShown`.

### `SourceEngine_proofs`

`EngineInv`: one loader at a time (`LoadersApart`), the map points to open
plugins (`MapFits`), and `Accounted`: the live instances of a pool are its idle
ones and its holders, which needs the set of holders to be finite.
`PoolsAreSound` has no hypothesis. `EngineIsSound` adds `BinaryStands` and
assumes one administrator: with two, an uninstall can remove the file a
concurrent install has just recorded.

The module also holds the proofs about `Challenges`, the guard that the fetcher
of a plugin's calls meets, which it reaches through `MCChallenges`.
`ChallengeInv`: a process between its claim and the end of it finds the claim
held (`ClaimsHeld`), material is stored under the host that issued it (`AtHome`)
and used for that host or one below it, or is the cookie without a host
(`Legal`), and what is unverified of a
host is what its allowance has been charged.
`ChallengesAreSound`, `AllowanceHolds`.

### `TrackerSync_proofs`

`SyncInv`: a chapter of a binding has one row (`JobsApart`), the id a request is
about to insert has no row and no worker (`IdsFresh`), and what a worker is about to
record the site has accepted, for the entry and the chapter it has read
(`WorkerFits`). `ClaimInv` is about rebinding: unless a rebind crossed somebody
(`crossed`) or has still to clear the table (`Clearing`), rows and workers are those
of the binding as it stands (`RowsOwned`, `WorkersThere`), and what they claim is
true of its entry. `SyncIsSound`; `SyncedStays` is an action
property. `RowsAge` sums up what most steps do to the table: rows change status
or go, and stay about their chapter.

### `MCServices_proofs`

| Theorem | Invariant |
|---|---|
| `DatabaseOutlives` | `DaemonInv`: handlers are drained and loops joined before `close`, or Run gave up on them; what Run reads is what a loop sent |
| `FailuresReported` | that, and `DrainInv`: the failures that happened are those in the channel and those in workers' hands, by cardinality |
| `AccountsAreSound` | `AccountInv`: a pending sign-in has a fresh grant (`PendingIsFresh`), the caller of the provider is the one of its process with the lock (`OneCaller`), a stored token is one the provider honours unless an answer was lost or a call is about to store the one it honours (`StoredIsHonoured`) |
| `PacingIsHeld` | `PacingInv`: a slot is reserved for whoever waits (`SlotsReserved`), the slots of a host are an interval apart (`SlotsApart`), what a worker resolved is current unless a change came under it (`ResolvedIsCurrent`) |

The proofs changed the models in three places where a value could not be told
from another: `None` is distinct from an error (`DaemonAssumption`) and from a
credential (`AccountsAssumption`), and a hint of a policy is typed.

### `MCKept_proofs`

`KeptStaysGood` is `KeptIsGood`, part by part, for every number of requests.

| Part | Invariant |
|---|---|
| images | `RowsAgree`: whose page row still stands has its address, unless it was renumbered; `WritersMeet`: two that write one file write it again, and a file about to be recorded is whole or written again |
| covers | `SlotsCounted`: the slots taken are as many as those who hold one, finitely many; `CoversFollow`: as long as no write of the row met another, a fetch or a crash (`crossed`), and no import or restore changed the cover under the kept file (`unheard`), who fetches does so for the row's address, and the file kept is of that address or about to be dropped; `CoversAreFiles` |
| catalog | `AllGiven`: every index anybody holds, and every binary, was given by the catalog; `ListedAllAlong`: what was listed since a request began is still, and a second look that misses it says it was not; `RunsHere` |

`ImageCache!ImageAssumption` says that `None` is no address and no page row.

### `MCImports_proofs`

`BackupsKept` is `BackupsHold`, an action property: a snapshot nothing was
written under reproduces on another machine the rows a restore writes, without
what is `beside` them, pruning removes only
snapshots older than the `Keep` it leaves (a move to another machine, which takes
along only its document, is no pruning), no import marks a chapter unread and a
restore only one its document holds as unread. Its invariant `BackupInv`:

| Part | Says |
|---|---|
| `LibraryOK` | the tables have their shape, unique keys and no dangling row: what makes a restore of them into an empty library commit |
| `ShelfOK` | the documents on disk have the shape of tables, and their numbers grow from the oldest to the newest |
| `WriterOK` | the tables still to read are the rest of `Course` from some place on, and unless the snapshot is torn those behind it are as in the library |

`TablesStand` is the type invariant from the same, with `Around`: unique keys and
references through restores of any document, a snapshot on disk at any time, and
no more than were written (`NumbersCount`).

An import is three loops, one within another. The library's induction theorems
cannot be used for a fold (they take an operator), so `TurnsExist` builds the
function that `FoldLeft` chooses, from the subsets of the indices, and `TurnsKeep`
carries through it what every turn keeps (`Kept`: the shape of the tables, and
what is read), both by the smallest counterexample (`SomeLeast`); `ChaptersFold`,
`MergesFold` and `TitlesFold` are the three loops. The constants need
`ImportsAssumption`: a backup is a sequence of records with sequences of
chapters. The model was changed where it could not be reasoned about: rows over
those of the same key are written `Replacing`, where an operator of `TLC` stood.
The proof also showed the model short of an operation: read states were a set
that only grew, while a reader can mark a chapter unread and a restore brings
that back; `Mark` and the exception of `ReadSurvives` (`Denied`) came from there.

## 6. Where the code and what is said of it part

`lost_archive` is a run: an item paused and resumed while its archive is written
is finished by a second worker, and the first one's refused completion removes
the registered archive (queue.go:637; 661-662 and sources.go:417-418 say
otherwise). The others are excepted by a ghost, a hypothesis or a constant.

**Download queue.** `UpdateQueueProgress` accepts a PENDING row, so a row a
reorder put back returns to flight past the cap (repository.go:1654). Pausing an
item deletes its staged pages and keeps `done_pages`, and the resumed attempt
fails with "invalid queue progress" (queue.go:745); queueing a failed chapter
again keeps them too (repository.go:1592). Two releases of a chapter share an
archive path (queue.go:976). Completion matches by chapter, so the worker of a
canceled row completes the row that replaced it (repository.go:1717).
`replacePath` removes the old archive before the second rename (cbz.go:153-176),
always for a folder and for a file where a rename does not replace: a crash or a
second refusal leaves a registered chapter without its archive. A migration
leaves the staged pages of the rows it cascades to (repository.go:171,
queue.go:652). A page row that cannot be written makes a second download remove
the first one's archive.

**Drain.** The channel of errors holds one per worker (queue.go:430) and is read
after the workers have returned, but a worker goes on after the failure of a row
and sends one for each (queue.go:453-456): as soon as more rows fail than there
are workers, `Drain` blocks for good, whatever 420-421 say.

**Pacing.** policyFor's comment (queue.go:138-141) says a reinstall calls
`InvalidateSourcePolicy`; only api/source_downloads.go:93 does. A worker that
resolves during `putSourceDownloads` stores the old policy after the change
(queue.go:187).

**Engine.** A load under way when a plugin is installed leaves the old one in
the map (engine.go:266). Discarding an instance wakes nobody (instance.go:169,
218), and the check for room is not atomic with the take (instance.go:26, 177).
A release that races Close leaves an instance behind. Two first installs
overwrite each other's row, an uninstall removes the file of a concurrent
install.

**Registry.** Two readings of the index may store the older one last, and an
install fails with a digest mismatch until a kept index expires.

**Challenges.** `AttemptBudget.Release` is never called (autosolve.go:224).
`holdingOrigin` prefers a parent. A direct success clears no challenge
(fetch.go:396). A window can be closed by another solve's end.
`TouchClearanceChallenge` counts generations nobody compares (clearance.go:317).
The clearance cookie an earlier version stored names no host, and `legacyBundle`
offers it to any host without material (clearance.go:132-139, 175-199).

**Trackers.** A push under way when a binding is pointed elsewhere marks the new
one synced, since the mark goes by the row's id, which stays (repository.go:1480,
sync.go:110); so does one that another bind's older lookup overtakes
(repository.go:1373-1400), and a daemon killed between the row and the two
statements that clear it leaves them undone. The lock around a refresh is one of
the process (registry.go:123-126): `makidoku sync` (cmd/sync.go:51) and the
daemon can present one refresh token twice, and the second is refused. `makidoku sync` puts the daemon's RUNNING jobs back; a killed one
leaves RUNNING until the daemon starts. A completed job returns to PENDING after
another worker's failure. A failed `UpdateTrackerSyncedChapter` is ignored.
Progress is set absolutely and may lower the site's (repository.go:1485, 1543). A
refresh stores a credential that was disconnected meanwhile; a stray callback
consumes the pending sign-in before it looks at the state; a lost answer burns
the refresh token. The middle of POINT_3 and Kitsu's values up to 10 do not
come back from a round trip of scores.

**Migration.** Canceling all before a title starts leaves it "searching" in the
last snapshot (migration_jobs.go:264). A job no page ever followed does not
expire. A cancel for the last page can hit one that has reconnected. With no
target at all, titles are "failed". A failed fetch or a crash after the commit
loses what was to be carried (migration.go:197), a report between capture and
commit is lost, two crossing migrations lose state, and a list fetched before a
migration and stored after it mixes sources (library.go:831-855).

**Library.** A source that rotates locators under overlapping refreshes forks a
chapter (`Overlap`). So do two refreshes at once when a release that shares a
rung with others is withdrawn (`KeepsConfusable`), as below.
Two refreshes that insert the same chapter leave one
without a link (repository.go:883-898, 940). The titles of numbered chapters are
compared as a last resort, numbers alone where attributes are absent: a wrong
match is possible. With three releases of one number, group and language, titles
apart, and one of them withdrawn, one refresh may adopt the withdrawn one's row
for a new release while another adds a row and links it first: the refused link
leaves a row with foreign attributes, and the next locator of that release is
ambiguous on every rung and forks it (nothing keeps two refreshes of a title
apart, server.go:174 and library.go:808). The updater's early returns leave its state "running".

**Reading.** One report carries 300 seconds at most, and what a page took longer is
lost (useReaderProgress.ts:123-131). An older report delivered after a newer one moves the resume point
back. After a flush the saver stays unset until the chapter changes. What waits
to be retried is dropped with the page. A lost answer records its seconds
twice. Positions reported before the incognito flag is known are not reported
again.

**Images and covers.** A page that is renumbered keeps its id, so the cache
serves the old image (repository.go:199). "Pass refresh=1 to force the plugin
round-trip" does not hold of a downloaded chapter, whose remote addresses it
blanks (sources.go:368-381). Kept files are written in place. A cover fetched
before an edit is recorded after it. An import and a restore overwrite the
address of a cover and leave the file kept of the old one
(tachibackup/import.go:258, backup/import.go:85), which is served on, although
repository.go:699-700 has it that a changed locator invalidates it.

**Settings.** A fill after a concurrent `Set` keeps the old value
(settings.go:53-64), as do two `Set`s that cross. A `Reset` that fails leaves old
values in the map, a restore leaves the map and the copies (backup/import.go:177).
`/settings/reset` tells the log level only, and a put that and two others
(api/settings.go:89-103); what the program takes from the settings at its start
(app/server.go:114-171) hears of a change at the next one. `Get` keeps the default on any
error.

**Imports.** A restore fails when a locator was healed since the export; one
that works forgets `imported_locator`, so a second import duplicates healed
titles, and so does a source installed between two imports. A merge is linked by
the locator in use alone (tachibackup/import.go:730): a title of its own that was
healed is linked to the merging title a second time, although 287-289 say that a
later import matches the recorded form. Of a locator that
was healed twice, the one in between is recorded nowhere, and a backup that has it
is not matched. A second import moves a resume
point that has no event to its own time (import.go:493-500). A restore does not
write `custom_*`, notes, memo, `reader_*`, bookmarks or `source_order`
(backup/import.go:85-87, 122-124), which the document carries, and a document
carries no merges, title names, tags, metadata or feeds (export.go:77-125). An export is not one
transaction. An import can move the resume point back.

**Daemon.** When the listener's shutdown times out after a signal, Run returns
without joining its loops. Update-on-launch, hijacked sockets and migration jobs
are never joined. A failure of the listener is lost when the signal is chosen.

**Functions.** "vol. 3" and decimal volumes are not taken for markers although
the comment says markers are ignored; `CleanTitle` keeps titles of five runes
and less whatever deepsearch.go:24-27 says.

## 7. What is only model-checked

- Liveness: `DownloadsSettle`, `PendingIsServed`, `CallsReturn`, `JobsSettle`,
  `JobEnds`, `RequestsEnd` and the two `EverythingEnds`. The prover has no
  ENABLED.
- In `imports`, of `LibrarySound`, `NoDuplicates` and `LinksAreWhole` (its first
  part, the keys and references of the tables, is `TablesStand`): the same file
  imported again is a fold of folds whose effect on every file the prover would
  have to induce.
- `NumberIsRecognised`, `TitlesAreFound`, `PlanIsSound` and `ValuesAreKept`:
  functions that are recursions over their inputs, checked on all inputs up to a
  size.

## 8. What is not modelled

The event broker of downloads and the client that merges it (its reducer depends
on the content of messages no model keeps). Configuration, identity, languages
and logging: lookups without shared protocol state. Host functions and the
encodings between Go and WebAssembly, the wire formats of trackers, protobuf and
ZIP: data conversion. What pages render, the tray, the CLI and release scripts.
A second process on the download queue (`makidoku download` beside a daemon);
the one on the sync jobs is modelled. Searches, categories and bulk changes of
the library.

## 9. What is left to do

- `ReimportChangesNothing` from a lemma on what one record of a file leaves.
- The chapters of a title whose confusable releases are withdrawn, for one refresh
  at a time: for two at once the corner of section 6 bounds what can be claimed.
- Healing a locator between two backups, which takes a second event in `imports`.
