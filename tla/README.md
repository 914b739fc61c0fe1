# Verification of Emby Migrator

TLA+ models of `emby-migrator`, a Go service that exports an Emby media library
into a package on disk (metadata, images, people and, on request, technical
media data) and imports such a package into another Emby server.

Files: `X.tla` models a component, `MCX.tla` with its `.cfg` files checks it on
a small instance with TLC, `XProofs.tla` holds what TLAPS proves about it for
every value of its constants. `PROJECT.json` lists runs, mutants, the source
lines behind each definition, findings, hazards and theorems. Definitions whose
comment says "Mutant" or "With a fault" are bugs the properties are tried
against; no specification uses them.

Run a check with `tlc -config MCX.cfg MCX.tla`, a proof with `tlapm XProofs.tla`.

## 1. Inventory

Paths are relative to `src/internal/` unless they start with `src/`.

| component | state it keeps | operations | hard because of | module |
|---|---|---|---|---|
| Job manager, `job/job.go` | map of jobs, work channel (128), per job status, context, pause channel, log, subscribers | Enqueue, Get, List, Pause, Resume, Stop, Complete, Fail, finish, prune, Shutdown | handlers, one queue goroutine and run functions share a job; two locks; a select that chooses | `JobManager`, `JobLifecycle` |
| Process exit, `src/cmd/server/main.go` | none | drain HTTP 10 s, `jobs.Shutdown` 30 s, exit | timeouts against running jobs | `JobManager` (with it) |
| Import checkpoint, `exporter/service.go` | base file, journal, reports, in-memory store | Record, sync, compaction in Close, load and replay, resume | crash between any two steps, half-written lines, two servers or two packages in one directory | `ImportCheckpoint` |
| Media database orchestration, `web/media_database_orchestration.go` | `restartNeeded`, progress of the job | stop container, back up, write, start, read back, restore, deferred start | each request may fail or be ambiguous; cancel; exit; Emby writes | `MediaDbApply` |
| Docker client, `dockerengine/client.go` | none | Inspect, Stop, Start, Wait | answers that get lost | as seen by `MediaDbApply` |
| Emby database, `embydb/` | SQLite file, five backups | identity, validate, backup, one transaction, clean-up | items renamed between check and write, a clock set back, partial failure | `MediaDbPlan`, `MediaDbApply` |
| Worker pools, `exporter/service.go` | two channels, a wait group | dispatch, work, collect, close | pause and cancel against four kinds of goroutines | `WorkerPool` |
| Export, `exporter/service.go` | `.partial` directory, manifest, published packages | list, baseline, export items, manifest, publish, remove | cancel and crash on the way to publication, stale baselines, workers that outlive the export | `ExportPackage` (with `WorkerPool`) |
| Import of an item, `exporter/service.go` | result per item | match by eight strategies, write metadata with two fallbacks, read media information back, upload images, retry | shared lookups that fail, answers that get lost, a stop between two requests, namesakes | `ItemMatching`, `ImportItems` (one step in `ImportCheckpoint`) |
| Lookup cache, `exporter/service.go` | calls by key | single flight, drop failures | waiters share a failing call and have time limits of their own | `LookupCache`, `MemoLookup` |
| Media plan, `exporter/media_database_plan.go` | plan file per server, reports | write with merge, choose latest, bind, apply, verify | plans of several imports and servers, databases chosen apart from them | `MediaDbPlan` |
| Settings and profiles, `web/settings.go` | `settings.json`, cache | load, save connection or profile, select, delete | cache filled after an unlocked read, keys left blank | `SettingsStore` |
| Users and sessions, `web/users.go`, `web/auth.go` | `users.json`, cache, session versions | login, request, change of the account, upgrade of a hash | a rewrite and an upgrade against a change, a cache filled late | `Accounts` |
| Login limiter, `web/auth.go` | failures per key | blocked, record, clear, clean up | checked before the password, counted after it | `LoginLimiter` |
| Telegram, `web/telegram.go` | markers of announced jobs, settings | notify, prune, save | two reports of one job, a marker that goes when a delivery fails | `TelegramNotify` |
| Job logs and streams, `job/job.go`, `web/server.go` | memory log, log file, subscriber channels | Log, Subscribe, finish, dispose, event stream | file written outside the lock, slow subscribers | when a stream closes and a file goes: `JobManager`; entries planned |
| Version check, `web/version_check.go` | cached answer | check | concurrent requests, which nothing depends on | not modelled |
| HTTP handlers, `web/server.go` | none of their own | decode, call the above | several requests at once | job operations in `JobManager`, others in the module of the part |
| Emby client, package storage, configuration, discovery, front end | none that is shared | I/O, encoding, presentation | | not modelled, see section 7 |

How they interact: a handler creates a job and sends it into the work channel of
the manager. The queue goroutine runs one job at a time by calling the export,
the import or the media-database function with the job. These look at the job's
context and pause between steps and start pools of workers, whose results the
calling goroutine collects. An import passes each collected result to the
checkpoint store. A media-database job goes through Docker to stop Emby and
through `embydb` to write; the plan it writes was left in the package by earlier
imports. Handlers of settings, users and Telegram work on files of their own,
several at once, and share a file, its cache and their locks. `main` ends it all
with `Shutdown`.

What makes each correct: jobs run one at a time, reach one terminal status and
release what waits for them; a resume repeats nothing that it must not and skips
nothing it should write; Emby is never left stopped or written to while it runs;
a pool loses no result, repeats no task and never hangs; what is published is
complete and what an increment skips exists; an item is written only to a title
that agrees with it, and the report says what the server took; a database gets
what was planned for its items and can be restored; a key stays with its address,
no save is lost, old credentials end with a change, and a job is announced once.

## 2. Plan

Done, in this order: `JobManager` (everything else runs under it),
`ImportCheckpoint`, `MediaDbApply`, `WorkerPool`, `ExportPackage`; then
`LookupCache` with its abstract specification `MemoLookup`, `ItemMatching`, and
`ImportItems` that composes the two; `MediaDbPlan` beside `MediaDbApply`; the web
layer, `SettingsStore`, `Accounts`, `LoginLimiter`, `TelegramNotify`. Each of them
has its proofs, in the modules of section 5.

Left:

1. `JobLogStream`: memory log, file, `Subscribe`, `finish`, `dispose` and the
   event stream; every line reaches a stream in order, or the stream is behind.
2. The answers the Emby client repeats, and the files of people in a package.
3. Proofs: the conditions under which the refuted configurations hold. Those of
   `EmbyRestarted` are proved, and of `SkippedContentWasWritten` the half of the
   reports; for the checkpoint the condition would be that no manifest of a
   package is replaced between two imports of it.

Modules are written to be proved about: constants with named assumptions, one
action per critical section or request, invariants as named conjuncts, no
RECURSIVE operator. Modules explored together in one run share no name, so that
an MC module EXTENDS them all.

## 3. Modules and how they correspond to the code

**`JobManager`.** One action per critical section of `job.go`; calls that take a
lock twice are two steps (`StopCancel`/`StopCommit`, `Create`/`InitLogFile`/`Send`).
`QueueStep` is the goroutine of `runQueue`, `Handler(j)` a request, `RunFunction(j)`
the job's own function, `ExitStep` is `main`. A pause channel is a generation
number: 0 is nil, and a generation other than the open one is closed.
`pruneCompletedLocked` sorts and cuts; that is `Excess`, over the sequence `ended`.
Pruning is one step with the operation that triggers it, and the disposal of the
pruned jobs belongs to it.

**`JobLifecycle`.** What the manager promises: serial execution, each job started
at most once and never after it was stopped, one terminal status for ever, the
stream closed only after the run function has returned. `JobManager` implements
it with `phase <- status`, `active <- ` the job whose function runs, `over <- `
the finished jobs.

**`ImportCheckpoint`.** Files and the running import. `Begin` to `WriteReport`
follow `Import`; the pool appears as `Write` (a worker wrote the key to the
server) and `Record` (the collector got the result and the store accepted it).
The three phases of `Close` are steps because a crash may come between them.
`Accepted` is what the next resume would skip. A crash may take unsynced lines
and may tear the last one.

**`MediaDbApply`.** One action per request. A request that changes something and
then fails to answer is two outcomes of one action or, for a stop, three steps
(`StopCall`, `DaemonStops`, `StopReturns`). `stage` tells for what purpose the
container is stopped or started: for the write, for the restore, or by the
deferred function. The database is abstracted to how many writes of Emby it has
and whether the plan is in it.

**`WorkerPool`.** The four pools of the exporter have one shape: dispatcher
(`WaitIfPaused`, `Dispatch`, `DispatcherCancelled`), workers (`Process`, `Send`,
`WorkerEnds`), closer (`CloseResults`), collector (`ReturnResults`, `ReturnError`).
Channels are unbuffered, so that a send and its receive are one step; a select
with several ready cases may take any.

**`ExportPackage`.** `Service.Export`, again and again, with `WorkerPool` as an
instance (`Pool`): its actions take or conjoin the actions of the pool. A
worker's work on an item is `ExportItem` (up to the comparison with the baseline)
and `WriteItem` (images and files), because the export may be cancelled and its
directory removed in between. `Listed` has the `.partial` directories that
contain a manifest, as `ListExports` has.

**`ItemMatching`.** The pure part of `findMatchWithCache`: the strategies of an
entry in their order (provider ids, file name, episode number, original title,
name, short name, season, series) as a sequence of lookups, and for each what the
code accepts of the records that come back and when it calls them ambiguous.
Names are members of a small set; what `slug` and the removal of a year do to
them are the constants `Slug` and `ShortName`, and `SearchPrefix` is the part of a
file name that is searched for, its first 30 characters. `Limit` has the limits
of the requests: 10 items by a provider id, 50 for a file name, 300 for a series
or season, 20 for a name.

**`LookupCache`, `MemoLookup`.** `itemLookup` and `findPersonByName`: a call per
key, whose first caller sends the request and whose other callers wait for its
channel to close. `Close` sets the answer and closes; a failure also deletes the
call, by the caller that made it. `fetchers` is history: who sent a request for
the key. `MemoLookup` is what a cache promises, in one step a lookup: one answer
for a key, which everybody gets, and an error that is never kept. `LookupCache`
implements it (`ImplementsMemo`), also as part of `ImportItems`.

**`ImportItems`.** `importItem` and `importPersonImage` run by workers. A lookup
is the steps of `LookupCache`. The code asks for one page of an answer and never
for a second: of more hits than the limit the server chooses which it shows, at
least as many as the limit, since several target libraries are asked in turn
(`Hits`, `Cut`, `Shown`, `Found`). What an avatar's lookup finds is what the
client finds (`PersonID`): a person behind its limit is an error of the lookup. A
request to the server is one step with its answer, which may be a refusal, no
answer, or an answer lost after the server did it. `pc` names the request that
comes next, `Levels` are the three forms of the metadata (`full`, `compatibility`,
`minimal`). Every request looks at the job's context first, as `retryWithTimeout`
does.

**`MediaDbPlan`.** Imports that leave a plan (`FinishImport`), and the job
(`StartApply` to `EndApply`) with one action per transaction or file written,
because Emby changes its library between them where it runs. `planned` is
history. Time is an unconstrained number: the host's clock may be set. Which of
several plans is the latest is therefore any of them.

**`MCMediaDb`, `MCWeb`.** Several modules in one run. They share no variable and
call nothing of each other, so that a behaviour of the whole is, seen by one of
them, one of its own; `part` says which one moves.

**`SettingsStore`.** `loadAppSettings` in four steps (stat, look into the cache,
read, fill the cache), none of them under a lock; a save does the same load and
the rename under `appSettingsMu`. A profile is its address, key and server id.
`given` is history: the keys that users typed for an address, and the server ids
that requests named for one. The code asks the server of a profile for its id
unless the request names it (`settings.go:550`), and stores a named one unchecked
(`settings.go:670-681`); the front end never names one, the API allows it. So
`KeysStayHome` says of a server id where it comes from, not that it is true: it is
the address' own or one that was named for it, and never moves along from another
address. The request that saves the connection drops a named id
(`settings.go:293-308`); it may bring a key for its profile, apart from that of
the connection, and a selection.

**`Accounts`.** `loadUsersConfig` in its steps (stat before `usersConfigMu`, then
under it the cache or the file, with the normalising rewrite and a second stat),
`changeCurrentAccount` and `upgradePasswordHash` under `usersWriteMu`. `creds`,
`completed` and `base` are history: the credentials of each session version, the
last change that was answered, and the one before a request began.

**`LoginLimiter`.** `loginBlocked` and `recordLoginFailure` are a step each, with
the password checked in between; `failures`, `first` and `until` are the entry of
one key. Both first clean up when `CleanupEvery` has passed since the last time.

**`TelegramNotify`.** Two reporters of a job's end, the handler of a stop and the
deferred call of the run function: each takes the marker (`Mark`) or finds it
(`Drop`), prunes markers of forgotten jobs and delivers in a goroutine. The save
of the settings reads the old token in one step and writes in another.

## 4. Runs

Passing runs. Each property has a mutant of the code that breaks it.

| run | instance | shows |
|---|---|---|
| `jobs_safety` | 3 jobs, queue of 1, 1 completed job kept, 1 pause each | every interleaving of handlers, queue goroutine, run functions and exit keeps the invariants, refines `JobLifecycle`, and pruning forgets the oldest |
| `jobs_liveness` | 2 jobs, 2 pauses each | no wake-up is lost; queued jobs end; a shutdown empties the queue; streams close |
| `checkpoint` | 1 item, 1 avatar, 2 servers, 2 packages, 3 imports, 1 crash, 1 failing write, sync after 2 lines | a resume skips only what was written to that server and finds all that was recorded; compaction changes nothing |
| `mediadb_apply` | automatic and manual mode, failing readbacks, exit, 2 writes of Emby | every failure and cancel: Emby is up again at the end and comes back once stopped, but for the failed stop of a restore |
| `mediadb_faults` | the same in automatic mode with stops that outlive their request; and 2 keys, items, names, servers and fingerprints, 2 imports, 1 job, 1 change by Emby, 2 backups kept | the database is changed under a stopped container only, the backup loses nothing, the report is true; merged plans are written whole, to items of the planned name, and the job's backup outlives the clean-up |
| `pool` | 3 tasks, 2 workers | nothing twice, nothing lost, no goroutine hangs |
| `export` | 1 item of 2 contents, 1 worker, 3 exports, 2 sets of options, 1 fault | what increments skip exists in an earlier package of the same options; manifests are backed by files; failures leave nothing; packages do not change |
| `import_items` | pairs of films, episodes and seasons, and of persons, on servers with namesakes; three items where an answer has two; single items through every path | nothing is written to a title that does not agree; nothing is called unmatched because a lookup failed, or because the answer to a lookup by id or name was cut; the report is what the server took; a stopped import writes nothing; every item gets a result |
| `web` | 2 requests at a time, 2 addresses, keys and profiles, 2 saves; 2 names and passwords, 3 writes of `users.json`; 3 logins against a limit of 3; 2 jobs with 2 reports each | no key and no fetched server id moves to another address, no save is lost, old credentials end with a change, the limit is overshot by the parallel logins only, a job is announced once |

Violations, one for each disagreement with a document, comment or test:

| run | what the code does |
|---|---|
| `checkpoint_stale_fingerprint` | a checkpoint rebuilt from the journal has no fingerprint and fits every package |
| `mediadb_restore_stop` | a stop whose answer is lost during the restore leaves Emby stopped |
| `export_partial` | an export cancelled at the right moment publishes a package with zero-valued items |

Further configurations, each of which TLC refutes:

| configuration | property | what is said | what happens |
|---|---|---|---|
| `MCJobStopRace` | `StopIsNotAFailure` | test `TestStopKeepsStoppedWhenFailArrivesLater`, `job/job_test.go:12` | `Stop` cancels the context before it takes the lock, so that the function's failure may be recorded first |
| `MCJobStartAfterShutdown` | `NoStartAfterShutdown` | comment at `job/job.go:208`, "Shutdown stops the queue from starting new jobs" | the select of `runQueue` may take work although `done` is closed; the job's context is cancelled, though |
| `MCJobWindDownLog` | `WindDownReachesLogFile` | comment on `finish` | a stopped job may be pruned and its log removed while its function winds down |
| `MCImportFinalFlush` | `FinalFlush` | `src/docs/RELEASE_NOTES_1.1.4.md:17` | a line appended behind a half-written one is lost, and Close reloads the files |
| `MCExportStraggler` | `CancelLeavesNothing` | `src/docs/RELEASE_NOTES_1.1.4.md:18`, test `TestExportCancellationRemovesPartialDirectory` | a worker that outlives the export creates the removed directory again |
| `MCMediaDbStopOutlives` | `EmbyRestarted` | `src/docs/RELEASE_NOTES_1.1.7.md:18` | the daemon completes a stop the job gave up, after the deferred start |
| `MCMediaDbExit` | `ExitLeavesEmbyRunning` | `src/docs/RELEASE_NOTES_1.1.6.md:19` | 30 s may end before the container is up |
| `MCMediaDbRollback` | `UnreadyRollsBack` | `src/docs/MEDIA_INFO_BLUEPRINT.md:218` | an Emby that does not come back leaves the write in |
| `MCMediaDbManual` | `WriteOnlyWhileStopped` | `src/docs/MEDIA_INFO_BLUEPRINT.md:13` and `:206` | in manual mode nothing ensures that Emby is stopped |
| `MCMediaDbPartVerified` | `DoneIsVerified` | `src/docs/MEDIA_INFO_BLUEPRINT.md:349` | a readback of part of the plan counts as success |
| `MCMediaDbRebound` | `BoundStaysBound` | comment at `exporter/media_database_plan.go:294` | the next import binds the merged plan to any fingerprint again |
| `MCWebLateNotice` | `LateNoticeIsSent` | `src/docs/RELEASE_NOTES_1.1.8.md:17` | the late report is dropped while the first delivery is under way, which then fails |
| `MCWebTypedToken` | `TypedTokenIsKept` | `src/docs/RELEASE_NOTES_1.1.6.md:25` | a save with a blank token writes back the token it read before another save |

With `CoarseClock = TRUE` (two saves of the settings within one tick of the file
system's clock and of the same size), `web` refutes `NoLostUpdate`: the cache
takes the older settings for the file's. `MCExportPool` is a further passing
configuration: `export` on 2 items and 2 workers with `CompleteUnlessCancelled`.

**Bounds.** Two items differ in every way one could from another, and the
packages, imports and servers are as many as a chain needs: three exports are a
full one, an increment, and an increment of an increment; three imports are an
interrupted one, one of another server, and a resume. Three jobs are one that
runs, one in the queue and one that waits to be sent, with a queue of one. Two
workers show overlap. Faults are bounded by one where each combination of one
fault with every step is the question. Numbers of the code (128 jobs queued, 20
kept, a sync every 25 lines, 5 backups, 5 failed logins) become the smallest at
which the limit is reached. `mediadb_faults` has one job after two imports, and
backups of any age there already, two of them later than the clock; it also passed
once with one import and two jobs. `import_items` looks at pairs of items that
share lookups in dry runs, since a write shares nothing but the item it goes to;
libraries with three items of one id, of one file prefix and name, and of one
series are met where the limits are 2, so that an answer is cut and leaves one
item, several or not the one that agrees; one pair writes to one item, and single
items go through all paths with any number of failing requests. In `web` a second
request is there for every step of a first; three writes of a file are a rewrite,
a change and another change. `MaxTime` 12 is two windows of the limiter and what
follows. `ExportPackage` leaves pauses to `WorkerPool`, and starts an export only
when the workers of the one before have ended. Symmetry is used for jobs, items,
workers and contents where only safety is checked.

**Deadlock** is not checked: all these systems may stop (no job, import or export
left to do, or the process has exited).

**Fairness.** A goroutine that can go on does (`WF`). A run function that does
not wait for a pause ends, because every request of it has a time limit
(`emby/client.go`, `importMatchTimeout` and its like). `QueuedJobsEnd`,
`StoppedStreamsClose` and `PoolReturns` assume that nobody leaves a job paused
for ever, as formulas and not as fairness. Users, errors, crashes and Emby's own
writes are never obliged to happen. The Docker daemon carries out a stop it
accepted. `TasksEnd` assumes that some worker that can go on does: each request
ends by its time limit. That a waiter's own limit ends is not assumed, so that
nobody depends on it.

## 5. Proofs

Each module below proves its invariant `IInv` (the conjunction of the parts
named here and of the type invariant) of `Init` and of every action, and takes the
properties from it. An action property is what `IInv` and a step imply.

`JobManagerProofs`, for any number of jobs and any bounds: `TypeCorrect`;
`Invariance` of `IInv`; from it `WakeupsArrive`, `LiveAreKnown`, `ExitIsClean`,
`DrainReachesAll` and `EndedAreCancelled`; `PruneIsOldestFirst`; `Refinement`
(`Spec => ImplementsLifecycle`). The properties are not inductive: that a waiting
`WaitIfPaused` has a closed channel needs that an open one belongs to a paused
job (`PauseInv`); that live jobs stay in the map needs what Enqueue and the queue
hold (`KnownInv`, `QueueInv`); serial execution needs where the queue goroutine
is while a function runs (`StatusInv`). That pruning forgets the oldest needs
that `ended` lists known jobs, and none twice (`OrderInv`), which rests on jobs
ending once; the lemma `PrunePrefix` says that pruning takes a prefix.
Four theorems are what `QueuedJobsEnd`, `DrainedShutdownEnds` and
`StoppedStreamsClose` rest on when the fairness is taken away. `NobodyIsLost`: an
unfinished job whose Enqueue was called is with its handler, in the channel or
with the queue goroutine (`HeldInv`). `QueueGoesOn`: the goroutine is there until a
shutdown, and waits for work or for the end of a pause only. `DrainGoesOn`: it has
a step to take while a drained shutdown waits for it. `QueueStepsEnd`: an enqueued
job gives the queue five steps, and each step of the queue takes at least one away.
Assumptions: `NoJobAssumption`, `BoundsAssumption`.

`MediaDbProofs`, in two parts. `MediaDbApply`, for any number of writes of Emby:
`TypeCorrect`, `Truthful`;
with a managed container `WritesWhileStopped` and `BackupBeforeCommit`; with a
daemon that gives up a stop with its request, `RunsAgain` if the readback agrees
and `RunsAgainAfterRestore` for any readback but for the failed stop of a restore.
The hypotheses are those the refuted configurations drop. The
invariant says which purposes and steps go together (`StageInv`), that the
container is stopped from the end of the stop to the start (`StoppedInv`), what
the backup holds then (`BackupInv`) and in which steps the plan is in the
database (`AppliedInv`). `MediaDbPlan`, for any keys, items, servers, bounds and
any clock: `PlanInvariant`, with the types;
`KeepsOwnBackup`, `WritesWhatWasPlanned`, `WritesToKnownItems`. The invariant adds
to the types that each plan file still holds every item an import planned for its
server (`PlannedIsFiled`), which the merge keeps, and that the job's backup is
there from its creation to the end (`BackupSurvives`). That no entry hides
another needs that a plan names an item once. `JobStepsEnd` is `EmbyComesBack`
without the fairness: whatever fails or is cancelled, the job of `MediaDbApply` has
at most 21 steps before it, and nobody else gives it more.
Assumption: `PlanAssumption`.

`ImportCheckpointProofs`, for any items, servers, packages, journals of any
length and any bounds: `TypeCorrect`, `SkippedWritten`, `RecordedResumed`,
`CompactionSafe`. Their ground is what a replay does to journals of any length,
which needs an induction over sequences. The library's induction theorems have an
operator as a parameter; `NatInductionSet` and `SequenceInduction` say the same of
a *set* of numbers or sequences, proved from the finiteness of intervals, and the
replay is a recursive function (`ReplayAll`), so that each fact about it is
membership in such a set: it returns a checkpoint, ends with the target of the
last line, calls nothing done that neither the checkpoint nor a line of that
server did (`ReplayWritten`), forgets its start when two servers wrote
(`ReplayForgets`), has all lines of a single one (`ReplayHas`), keeps a key whose
lines a crash spared (`ReplayPrefix`). `ReplayTwice` is the crash between the two
halves of `Close`: replaying onto a base that has the lines changes nothing. The
invariant: where a store may be open, and for whom (`PhaseInv`); every key that a
file, the memory of a store or a report calls done was written to its server
(`WrittenInv`); while writes succeed no file has a fingerprint and the compaction
writes what a replay gives (`CompactionInv`, the first half of the finding of
section 4). `StaleIsTheCheckpoint` bounds the other half: what an import newly
skips was written to its server with the content of its own package, unless the
checkpoint names it. The reports keep packages apart (`ContentInv`), the checkpoint
does not. Assumptions: `KeysAssumption`, `NoneAssumption`, `NoFileAssumption`,
`CheckpointBounds`.

`WorkerPoolProofs`, for any tasks and workers: `TypeCorrect`, `Once`, `Complete`,
`NoWorkerLeft` (no worker outlives the return of the pool). The invariant: a
worker holds a task exactly while it works on it or sends its result (`HoldInv`);
dispatcher, workers and collector have different
tasks (`ApartInv`); without a cancel every task is with one of them (`KeptInv`);
they end in order (`EndInv`). `Complete` needs a worker to exist (`Workers # {}`,
the code starts at least one): without one nobody ends after the dispatcher.
`NobodyStuck` and `StepsEnd` are `CancelledPoolDrains` and `PoolReturns` without the
fairness: unless a pause without a cancel holds it, a pool that is not over has a
goroutine that can go on (`DispatcherCan`, `WorkerCan`, `CloserCan`,
`CollectorCan`; TLC compared them with ENABLED in every state it explored), and of
finitely many tasks and workers a pool makes at most 5 steps for each task, one for
each worker and 4.

`ExportPackageProofs`, for any items, workers, options, versions and number of
exports: `TypeCorrect`, `SkippedExported`, `ListedBacked`, `FailureClean`,
`Complete`, `Immutable`. The steps of the workers are steps of `WorkerPool`
(`PoolMoves`), whose invariant comes with them (`PoolInv`, with when a straggler
may be left over). The chain of increments is the argument of `SkippedExported`:
what the baseline offers was exported in full by a listed package of the same
options, because the latest such package either has it in full or skipped it by
an earlier one, and the property itself says of that one that it is there
(`BaselineInv`, `BaselineWasExported`). Between, the fingerprint travels from
baseline through a worker's hands (`EntryInv`) and the collector's results
(`CollectedInv`) into the manifest. `ListedBacked` needs that a worker writes into
the directory of its own export only (`NumberInv`, `MoveWrites`). Assumptions:
`ExportAssumption`, `NoManifestAssumption`.

`ImportItemsProofs`, for any package, library, number of tasks and failing
requests: `TypeCorrect`, `TargetsAreTrue`, `ReportsAreTrue`,
`UnmatchedWasAnswered`, `UnmatchedSharesNothing`, `StoppedWritesNothing`,
`Implements`. The invariant is that of the cache (`CP`, the proofs of
`LookupCache` instantiated), that the cache holds and returns an answer that the
server may give (`AnswerInv`), and for each task (`TaskInv`): it has work only if
the import has it, and asks for the key of its step (`Placed`); a dry run never
gets to a write (`Dry`); its target agrees (`Agreed`); past the metadata without a
failure the server has taken some form of it (`Taken`); the report so far is true
(`Reported`); and without an error or a doubt every strategy tried so far was
answered and left no single item (`Asked`). The parts are operators of a task and
its state, so that a step shows them for its own task and `InvKept` does the rest.
`MatchAgrees` is the lemma about `ItemMatching`: whatever records come back, what
a strategy accepts agrees with the entry in an id, the file, the place in the
series or the name and year; it goes through the seven kinds of strategies, of
which `StrategiesType` says what an entry has when one is tried.
`UnmatchedSharesNothing` turns that round. An answer to a request by id that left
no item is empty, and so is one to a search by name, since a search that found
anything is a doubt; an answer with nothing is not cut. No item of the server then
shares an id or a title with the entry (`SharesIdentity`). The answer to a search
by file name may show other files of the prefix only: an item with the entry's
file name (`SharesFile`) was left out of it (`LeftOut`), or there is none.
`UnmatchedTrue` is `UnmatchedIsTrue`: of an entry whose lookups look for every
item that agrees with it (`AgreedIsFound`, true of all entries of the run),
nothing on the server agrees but what a cut answer to a search by file, series or
season left out. Both exceptions are the code's. With an unconditional conclusion
TLC finds an episode of a series with more episodes than the limit called
unmatched although the server has it. And an entry with neither a series nor a
name agrees with any item of its place in some series, and no strategy looks for
it. `SomebodyGoesOn` and `TaskStepsEnd` are `TasksEnd` without the fairness. A
task can go on (`CanGoOn`), or it waits for a request that its task can end
(`CanFetch`; TLC compared both with ENABLED), or it is an avatar, for which there
is no work in a dry run and before the items end. It has at most 8 steps for each
lookup of its entry and 23 more (`Ahead`), and all that happens to it takes
something away (`AheadFalls`); that its step stays among its lookups is `AskInv`.
Assumptions: `LimitAssumption` (a limit is not 0), `ImportAssumption` (entries and
avatars are apart, an item is listed under its id, a library is finite),
`CacheAssumption`.

`LookupCacheProofs`, for any callers and keys: `NobodyStrands` (whoever waits
waits for a call somebody has under way, or has its answer), `OneRequest`, and
`Implements` (the cache refines `MemoLookup`). The invariant: a waiting caller's
key has a call or the caller has got the answer (`NobodyWaitsInVain`); who has
a call under way asks for that key and is among its fetchers (`FetchersWait`);
an answer is kept (`AnswersStay`); an idle caller holds nothing
(`IdleHaveNothing`). Assumption: `SentinelsAssumption`, that the markers for no
answer are no answers.

`WebProofs`, in four parts. `SettingsStore`, for any number of requests, addresses
and profiles: `SettingsInvariant`, `KeysStay`, and `NoUpdateIsLost` on a clock
that tells saves apart (`~CoarseClock`, see above). For the first, every operation
of the address book keeps each pair of address and key that it finds or that the
request brings, and each server id with its address (`IdAtHome`), by lemmas, one
per operator. For the second, a stamp that was seen names one content: who has
read the file and not yet filled the cache is either a reader with an old stamp or
holds the file's content (`ClockInv`). Assumption: `SettingsAssumption` (the
markers are no values, keys are no addresses, ids are derived from addresses).

`Accounts`, for any number of requests, names and passwords: `AccountInvariant`,
`OldCredentials` and `ChangesStay`. The invariant says who may hold which lock
where (`Locks`); that the file's and the cache's content are of a version with
those credentials (`Files`, `Versions`); that until the first normalisation
nobody gets past the load, so that no change can be under a rewrite
(`Unnormal`); that a cached stamp of the file is the file (`Fresh`); that who
holds `usersWriteMu` behind the load has the file's account (`Holder`); and that
what a request loaded is no older than the change before it began (`Recent`).
Assumption: `AccountsAssumption`.

`LoginLimiter`, for any number of logins: `Bounded`. The invariant is
that failures counted and logins past the check are together fewer than the limit
and all logins, and that a count began in the past. Assumption:
`LimiterAssumption`.

`TelegramNotify`, for any jobs and reporters: `OneMessage`. The invariant
(`MarkerInv`): of a job the manager knows, a report that holds the marker, or has
sent, is the only one and the marker is there, so that a prune, which spares known
jobs, cannot let a second one in.

The type invariants of these modules, `TerminalJobsAreCancelled`,
`UnmatchedIsConclusive`, `UnmatchedIsNowhere`, `OnlyTheCheckpointIsStale`,
`CompleteUnlessCancelled` of `ExportPackage`, and the properties of who can go on
and how many steps are left, are proved and in no listed run; TLC has checked them
too.

Only model-checked: the liveness properties, since TLAPS proves neither liveness
under fairness nor ENABLED (the theorems say that somebody can go on and that the
steps run out, TLC that fair scheduling makes the end of it); and the properties of
the further configurations.

## 6. Hazards

`PROJECT.json` lists them at their lines with the properties that cover them. The
three without one are those whose property the code does not keep: the stop that
becomes a failure, the plan that is bound to any fingerprint again, the token
written back; section 4 has their configurations.

Weaknesses seen while modelling, which no document excludes and no property
states: a panic in a worker ends the process; an item whose images failed is
skipped by later increments because its fingerprint is recorded; an episode that
is not found by its number is looked for by its name alone; an item behind the
limit of a search by file, series or season is called unmatched although the
server has it; a strategy whose lookup failed leaves the choice to a weaker one
that succeeds; a profile saved with a blank key takes the connection's key
although its own may be newer; a server id that a request names is stored for any
address, and the apply in manual mode compares the plan's target with it
(`media_database_orchestration.go:123-133`); the id derived from an address may
belong to a profile that has since moved to another address, which is then
replaced; an entry that stays in a merged plan for an item which another entry now
names makes the import fail to bind its plan ("duplicate item id").

Intended and not counted as a hazard: two servers whose identity could not be
read are one server to a resume (`exporter/exporter_test.go:647`).

## 7. Not modelled, and why

Requests to Emby, Docker and Telegram are an answer, a failure or a cancellation;
their encoding is I/O, and so is the Emby client with the reads it repeats, but for
the limits of its lookups. Item
data are versions, keys or members of small sets, since control depends on
nothing else; what a payload of metadata contains, how streams and chapters are
compared and the columns of Emby's tables are data. Directory names of exports,
slugs and summaries are formatting. The entries of a job's log, their replay to a
subscriber and the event stream are data to every other part; that a line is
never lost on the way is planned. The version check caches an answer that decides
nothing. Configuration is read once. Discovery of databases searches directories
without state. The front end keeps no state that another part shares.
