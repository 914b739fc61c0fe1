----------------------------- MODULE JobManager -----------------------------
(***************************************************************************)
(* internal/job: the manager's map of jobs, its bounded work channel, the  *)
(* single goroutine that drains it, the status machine of a job with its   *)
(* cancellation and pause channel, the log file that finish closes and     *)
(* dispose removes, and Shutdown as cmd/server/main.go calls it.           *)
(*                                                                         *)
(* One action per critical section: what the code does between a Lock and  *)
(* its Unlock is one step, and calls that take a lock twice (Stop, Create) *)
(* are two steps other goroutines come between.                            *)
(***************************************************************************)
EXTENDS Naturals, Sequences

CONSTANTS
  Jobs,              \* jobs that may ever be created
  NoJob,
  QueueCap,          \* capacity of the work channel (128 in the code)
  MaxCompletedJobs,  \* terminal jobs kept by pruning (20 by default)
  MaxPauses,         \* bound of the model: pause channels made per job
  Retention          \* whether CompletedJobRetention (24 h) may run out

ASSUME NoJobAssumption == NoJob \notin Jobs
ASSUME BoundsAssumption ==
  /\ QueueCap \in Nat \ {0}
  /\ MaxCompletedJobs \in Nat \ {0}
  /\ MaxPauses \in Nat
  /\ Retention \in BOOLEAN

VARIABLES
  jobs,       \* m.jobs: jobs the manager still knows
  ended,      \* its terminal jobs, oldest EndedAt first
  work,       \* m.work, the buffered channel
  enqueue,    \* where the Enqueue call that makes the job has got to
  status,
  cancelled,  \* the job's context is cancelled
  pause,      \* generation of the open pause channel, 0 for nil
  pauses,     \* pause channels made so far
  waiting,    \* generation a WaitIfPaused call blocks on, 0 for none
  finished,
  log,        \* the job's log file
  stopping,   \* jobs with a Stop call between its cancel() and its Lock
  queue,      \* where the runQueue goroutine is
  current,    \* the job runQueue holds
  run,        \* where the job's run function is
  http,       \* the HTTP server in front of the manager
  shutdown    \* where Shutdown is; m.done is closed unless "idle"

jobVars == <<status, cancelled, pause, pauses, waiting, finished, log>>
mapVars == <<jobs, ended>>
queueVars == <<queue, current, run>>
callVars == <<enqueue, stopping>>
exitVars == <<http, shutdown>>
vars == <<jobVars, mapVars, queueVars, callVars, exitVars, work>>

Terminal == {"done", "failed", "stopped"}
Statuses == {"none", "queued", "running", "paused"} \cup Terminal
Executing(j) == run[j] \in {"body", "tail"}

\* A step of the running process other than those of main. Nothing runs once
\* main got its answer from Shutdown: the process exits.
Alive == shutdown \notin {"returned", "timedout"} /\ UNCHANGED <<http, shutdown>>

-----------------------------------------------------------------------------
Init ==
  /\ jobs = {}
  /\ ended = <<>>
  /\ work = <<>>
  /\ enqueue = [j \in Jobs |-> "none"]
  /\ status = [j \in Jobs |-> "none"]
  /\ cancelled = [j \in Jobs |-> FALSE]
  /\ pause = [j \in Jobs |-> 0]
  /\ pauses = [j \in Jobs |-> 0]
  /\ waiting = [j \in Jobs |-> 0]
  /\ finished = [j \in Jobs |-> FALSE]
  /\ log = [j \in Jobs |-> "absent"]
  /\ stopping = {}
  /\ queue = "select"
  /\ current = NoJob
  /\ run = [j \in Jobs |-> "idle"]
  /\ http = "open"
  /\ shutdown = "idle"

-----------------------------------------------------------------------------
(* Status changes shared by the callers *)

\* resumeLocked: close the pause channel and forget it.
ResumeLocked(j) == pause' = [pause EXCEPT ![j] = 0]

\* Mutant: a terminal status leaves the pause channel open.
TerminateStaysPaused(j, to) ==
  IF status[j] \in Terminal
  THEN UNCHANGED <<status, pause, ended>>
  ELSE /\ status' = [status EXCEPT ![j] = to]
       /\ UNCHANGED pause
       /\ ended' = Append(ended, j)

\* The common body of Complete, Fail, FailWithResult and Stop: nothing happens
\* to a job that already has a terminal status.
Terminate(j, to) ==
  IF status[j] \in Terminal
  THEN UNCHANGED <<status, pause, ended>>
  ELSE /\ status' = [status EXCEPT ![j] = to]
       /\ ResumeLocked(j)
       /\ ended' = Append(ended, j)

\* dispose: close the handle and remove the file, if there is one yet.
Dispose(gone) ==
  log' = [j \in Jobs |-> IF j \in gone /\ log[j] # "absent" THEN "removed" ELSE log[j]]

\* Mutant: one job too many is kept.
ExcessOffByOne ==
  IF Len(ended) > MaxCompletedJobs + 1 THEN Len(ended) - (MaxCompletedJobs + 1) ELSE 0

\* pruneCompletedLocked: `ended` is sorted by EndedAt, so the jobs in excess of
\* MaxCompletedJobs are a prefix of it, and so are those past their retention.
Excess == IF Len(ended) > MaxCompletedJobs THEN Len(ended) - MaxCompletedJobs ELSE 0

PruneCompleted ==
  \E drop \in Excess..(IF Retention THEN Len(ended) ELSE Excess) :
    LET gone == {ended[i] : i \in 1..drop}
    IN /\ ended' = SubSeq(ended, drop + 1, Len(ended))
       /\ jobs' = jobs \ gone
       /\ Dispose(gone)

-----------------------------------------------------------------------------
(* HTTP handlers: they run until the server has drained; when the 10 s drain *)
(* times out, requests that were accepted before are still being handled.    *)

Create(j) ==
  /\ Alive
  /\ http # "drained"
  /\ enqueue[j] = "none"
  /\ status' = [status EXCEPT ![j] = "queued"]
  /\ jobs' = jobs \cup {j}
  /\ enqueue' = [enqueue EXCEPT ![j] = "created"]
  /\ UNCHANGED <<cancelled, pause, pauses, waiting, finished, log, ended, stopping, work>>
  /\ UNCHANGED queueVars

\* initLogFile runs after Create released m.mu: the job is already listed.
InitLogFile(j) ==
  /\ Alive
  /\ enqueue[j] = "created"
  /\ enqueue' = [enqueue EXCEPT ![j] = "sending"]
  /\ log' = [log EXCEPT ![j] = "open"]
  /\ UNCHANGED <<status, cancelled, pause, pauses, waiting, finished, mapVars, stopping, work>>
  /\ UNCHANGED queueVars

\* The send of Enqueue blocks while the channel is full.
Send(j) ==
  /\ Alive
  /\ enqueue[j] = "sending"
  /\ Len(work) < QueueCap
  /\ work' = Append(work, j)
  /\ enqueue' = [enqueue EXCEPT ![j] = "sent"]
  /\ UNCHANGED <<jobVars, mapVars, stopping, queueVars>>

\* Get and List prune before they look.
GetOrList ==
  /\ Alive
  /\ http # "drained"
  /\ PruneCompleted
  /\ UNCHANGED <<status, cancelled, pause, pauses, waiting, finished, callVars, work>>
  /\ UNCHANGED queueVars

Pause(j) ==
  /\ Alive
  /\ http # "drained"
  /\ status[j] = "running"
  /\ pauses[j] < MaxPauses
  /\ status' = [status EXCEPT ![j] = "paused"]
  /\ pauses' = [pauses EXCEPT ![j] = @ + 1]
  /\ pause' = [pause EXCEPT ![j] = pauses'[j]]
  /\ UNCHANGED <<cancelled, waiting, finished, log, mapVars, callVars, work>>
  /\ UNCHANGED queueVars

\* Mutant: Resume only tells terminal jobs by their pause channel.
ResumeUnchecked(j) ==
  /\ Alive
  /\ http # "drained"
  /\ status[j] # "none"
  /\ status' = [status EXCEPT ![j] = "running"]
  /\ ResumeLocked(j)
  /\ UNCHANGED <<cancelled, pauses, waiting, finished, log, mapVars, callVars, work>>
  /\ UNCHANGED queueVars

Resume(j) ==
  /\ Alive
  /\ http # "drained"
  /\ status[j] = "paused"
  /\ status' = [status EXCEPT ![j] = "running"]
  /\ ResumeLocked(j)
  /\ UNCHANGED <<cancelled, pauses, waiting, finished, log, mapVars, callVars, work>>
  /\ UNCHANGED queueVars

\* Stop cancels the context before it takes the job's lock.
StopCancel(j) ==
  /\ Alive
  /\ http # "drained"
  /\ j \in jobs
  /\ j \notin stopping
  /\ cancelled' = [cancelled EXCEPT ![j] = TRUE]
  /\ stopping' = stopping \cup {j}
  /\ UNCHANGED <<status, pause, pauses, waiting, finished, log, mapVars, enqueue, work>>
  /\ UNCHANGED queueVars

StopCommit(j) ==
  /\ Alive
  /\ j \in stopping
  /\ stopping' = stopping \ {j}
  /\ Terminate(j, "stopped")
  /\ UNCHANGED <<cancelled, pauses, waiting, finished, log, jobs, enqueue, work>>
  /\ UNCHANGED queueVars

-----------------------------------------------------------------------------
(* The runQueue goroutine *)

\* Mutant: Start does not look at the status.
TakeWorkUnchecked ==
  /\ Alive
  /\ queue = "select"
  /\ work # <<>>
  /\ current' = Head(work)
  /\ queue' = "running"
  /\ status' = [status EXCEPT ![Head(work)] = "running"]
  /\ run' = [run EXCEPT ![Head(work)] = "body"]
  /\ work' = Tail(work)
  /\ UNCHANGED <<cancelled, pause, pauses, waiting, finished, log, mapVars, callVars>>

\* Mutant: a job Start refuses is skipped without finish.
TakeWorkSkips ==
  /\ Alive
  /\ queue = "select"
  /\ work # <<>>
  /\ LET j == Head(work)
     IN IF status[j] \in Terminal
        THEN UNCHANGED queueVars /\ UNCHANGED status
        ELSE /\ current' = j
             /\ queue' = "running"
             /\ status' = [status EXCEPT ![j] = "running"]
             /\ run' = [run EXCEPT ![j] = "body"]
  /\ work' = Tail(work)
  /\ UNCHANGED <<cancelled, pause, pauses, waiting, finished, log, mapVars, callVars>>

\* The select of runQueue: with m.done closed and work queued, either case may
\* be chosen. Start refuses a job that was stopped while it was queued.
TakeWork ==
  /\ Alive
  /\ queue = "select"
  /\ work # <<>>
  /\ LET j == Head(work)
     IN /\ current' = j
        /\ IF status[j] \in Terminal
           THEN /\ queue' = "finishing"
                /\ UNCHANGED <<status, run>>
           ELSE /\ queue' = "running"
                /\ status' = [status EXCEPT ![j] = "running"]
                /\ run' = [run EXCEPT ![j] = "body"]
  /\ work' = Tail(work)
  /\ UNCHANGED <<cancelled, pause, pauses, waiting, finished, log, mapVars, callVars>>

QueueExit ==
  /\ Alive
  /\ queue = "select"
  /\ shutdown # "idle"
  /\ queue' = "exited"
  /\ UNCHANGED <<current, run, jobVars, mapVars, callVars, work>>

\* WaitIfPaused, called by the goroutine that dispatches a job's items: it
\* reads status and pause channel under the lock and blocks outside it. With
\* the context done it does not block.
WaitIfPaused(j) ==
  /\ Alive
  /\ run[j] = "body"
  /\ ~cancelled[j]
  /\ waiting[j] = 0
  /\ status[j] = "paused"
  /\ waiting' = [waiting EXCEPT ![j] = pause[j]]
  /\ UNCHANGED <<status, cancelled, pause, pauses, finished, log, mapVars, callVars, work>>
  /\ UNCHANGED queueVars

ChannelClosed(j) == waiting[j] # pause[j]

\* Mutant: WaitIfPaused does not select on the context.
WakeOnResumeOnly(j) ==
  /\ Alive
  /\ waiting[j] # 0
  /\ ChannelClosed(j)
  /\ waiting' = [waiting EXCEPT ![j] = 0]
  /\ UNCHANGED <<status, cancelled, pause, pauses, finished, log, mapVars, callVars, work>>
  /\ UNCHANGED queueVars

\* The select of WaitIfPaused: the channel was closed, or the context is done.
Wake(j) ==
  /\ Alive
  /\ waiting[j] # 0
  /\ ChannelClosed(j) \/ cancelled[j]
  /\ waiting' = [waiting EXCEPT ![j] = 0]
  /\ UNCHANGED <<status, cancelled, pause, pauses, finished, log, mapVars, callVars, work>>
  /\ UNCHANGED queueVars

\* A run function ends by one call that sets a terminal status; each of these
\* calls cancels the context unless the status was terminal already.
RunEnds(j, to) ==
  /\ Alive
  /\ run[j] = "body"
  /\ run' = [run EXCEPT ![j] = "tail"]
  /\ cancelled' = [cancelled EXCEPT ![j] = status[j] \in Terminal => @]
  /\ Terminate(j, to)
  /\ UNCHANGED <<pauses, waiting, finished, log, jobs, callVars, work, queue, current>>

\* Nothing is left to dispatch: no call is blocked on the pause channel.
RunCompletes(j) == waiting[j] = 0 /\ RunEnds(j, "done")

\* Fail or FailWithResult after an error, or the recover of runSafely.
RunFails(j) == ~cancelled[j] /\ RunEnds(j, "failed")

\* Requests made with a cancelled context fail: the error handed to Fail is
\* that of the context.
RunCancelled(j) == cancelled[j] /\ RunEnds(j, "failed")

\* Deferred calls have run and the run function returned to runQueue.
RunReturns(j) ==
  /\ Alive
  /\ run[j] = "tail"
  /\ run' = [run EXCEPT ![j] = "returned"]
  /\ queue' = "finishing"
  /\ UNCHANGED <<current, jobVars, mapVars, callVars, work>>

\* Mutant: the queue returns, instead of going on, after a refused job.
FinishReturns ==
  /\ Alive
  /\ queue = "finishing"
  /\ finished' = [finished EXCEPT ![current] = TRUE]
  /\ log' = [log EXCEPT ![current] = IF @ = "open" THEN "closed" ELSE @]
  /\ queue' = IF run[current] = "returned" THEN "after" ELSE "exited"
  /\ current' = IF run[current] = "returned" THEN current ELSE NoJob
  /\ UNCHANGED <<status, cancelled, pause, pauses, waiting, run, mapVars, callVars, work>>

Finish ==
  /\ Alive
  /\ queue = "finishing"
  /\ finished' = [finished EXCEPT ![current] = TRUE]
  /\ log' = [log EXCEPT ![current] = IF @ = "open" THEN "closed" ELSE @]
  /\ queue' = IF run[current] = "returned" THEN "after" ELSE "select"
  /\ current' = IF run[current] = "returned" THEN current ELSE NoJob
  /\ UNCHANGED <<status, cancelled, pause, pauses, waiting, run, mapVars, callVars, work>>

AfterWork ==
  /\ Alive
  /\ queue = "after"
  /\ PruneCompleted
  /\ queue' = "select"
  /\ current' = NoJob
  /\ UNCHANGED <<status, cancelled, pause, pauses, waiting, finished, run, callVars, work>>

-----------------------------------------------------------------------------
(* main: srv.Shutdown with 10 s, then jobs.Shutdown with 30 s, then exit *)

InFlight == stopping # {} \/ \E j \in Jobs : enqueue[j] \in {"created", "sending"}

HTTPShutdown ==
  /\ http = "open"
  /\ http' \in IF InFlight THEN {"timedout"} ELSE {"drained", "timedout"}
  /\ UNCHANGED <<shutdown, jobVars, mapVars, queueVars, callVars, work>>

CloseDone ==
  /\ http # "open"
  /\ shutdown = "idle"
  /\ shutdown' = "closed"
  /\ UNCHANGED <<http, jobVars, mapVars, queueVars, callVars, work>>

\* Mutant: Shutdown cancels the executing job only.
CancelRunning ==
  /\ shutdown = "closed"
  /\ shutdown' = "waiting"
  /\ cancelled' = [j \in Jobs |-> cancelled[j] \/ Executing(j)]
  /\ UNCHANGED <<http, status, pause, pauses, waiting, finished, log, mapVars, queueVars, callVars, work>>

\* Every job the map held when Shutdown read it is cancelled.
CancelAll ==
  /\ shutdown = "closed"
  /\ shutdown' = "waiting"
  /\ cancelled' = [j \in Jobs |-> cancelled[j] \/ j \in jobs]
  /\ UNCHANGED <<http, status, pause, pauses, waiting, finished, log, mapVars, queueVars, callVars, work>>

\* Mutant: Shutdown does not wait for queueDone.
ShutdownDoesNotWait ==
  /\ shutdown = "waiting"
  /\ shutdown' \in {"returned", "timedout"}
  /\ UNCHANGED <<http, jobVars, mapVars, queueVars, callVars, work>>

ShutdownReturns ==
  /\ shutdown = "waiting"
  /\ \/ queue = "exited" /\ shutdown' = "returned"
     \/ shutdown' = "timedout"
  /\ UNCHANGED <<http, jobVars, mapVars, queueVars, callVars, work>>

-----------------------------------------------------------------------------
Handler(j) ==
  \/ Create(j) \/ InitLogFile(j) \/ Send(j)
  \/ Pause(j) \/ Resume(j) \/ StopCancel(j) \/ StopCommit(j)

RunFunction(j) ==
  \/ WaitIfPaused(j) \/ Wake(j)
  \/ RunCompletes(j) \/ RunFails(j) \/ RunCancelled(j) \/ RunReturns(j)

QueueStep == TakeWork \/ QueueExit \/ Finish \/ AfterWork

ExitStep == HTTPShutdown \/ CloseDone \/ CancelAll \/ ShutdownReturns

Next ==
  \/ \E j \in Jobs : Handler(j) \/ RunFunction(j)
  \/ GetOrList
  \/ QueueStep
  \/ ExitStep

Spec == Init /\ [][Next]_vars

\* Goroutines that can go on do so. Nothing is assumed of the users: nobody
\* has to resume a paused job, stop a job or shut the process down, and an
\* error need not happen. A run function that is not blocked in WaitIfPaused
\* (Export calls it between libraries, in the run function itself) ends.
Fairness ==
  /\ \A j \in Jobs :
       /\ WF_vars(InitLogFile(j) \/ Send(j))
       /\ WF_vars(StopCommit(j))
       /\ WF_vars(Wake(j))
       /\ WF_vars(waiting[j] = 0 /\ (RunCompletes(j) \/ RunCancelled(j)))
       /\ WF_vars(RunReturns(j))
  /\ WF_vars(QueueStep)
  /\ WF_vars(CloseDone \/ CancelAll)

FairSpec == Spec /\ Fairness

-----------------------------------------------------------------------------
(* Properties *)

\* Every variable keeps its type.
TypeOK ==
  /\ jobs \subseteq Jobs
  /\ ended \in Seq(Jobs)
  /\ work \in Seq(Jobs)
  /\ enqueue \in [Jobs -> {"none", "created", "sending", "sent"}]
  /\ status \in [Jobs -> Statuses]
  /\ cancelled \in [Jobs -> BOOLEAN]
  /\ pause \in [Jobs -> Nat]
  /\ pauses \in [Jobs -> Nat]
  /\ waiting \in [Jobs -> Nat]
  /\ finished \in [Jobs -> BOOLEAN]
  /\ log \in [Jobs -> {"absent", "open", "closed", "removed"}]
  /\ stopping \subseteq Jobs
  /\ queue \in {"select", "running", "finishing", "after", "exited"}
  /\ current \in Jobs \cup {NoJob}
  /\ run \in [Jobs -> {"idle", "body", "tail", "returned"}]
  /\ http \in {"open", "drained", "timedout"}
  /\ shutdown \in {"idle", "closed", "waiting", "returned", "timedout"}

\* A WaitIfPaused call that read the pause channel before the job was resumed,
\* stopped or ended is never left blocked on a channel nobody will close:
\* whatever came between its unlock and its select, that channel is closed
\* once the job is no longer paused (job.go resumeLocked, WaitIfPaused).
NoLostWakeup ==
  \A j \in Jobs : waiting[j] # 0 /\ status[j] # "paused" => ChannelClosed(j)

\* A job that reached a terminal status, by whichever of Stop, Complete and
\* Fail came first, has a cancelled context, so requests made on its behalf
\* do not go on in the background.
TerminalJobsAreCancelled ==
  \A j \in Jobs : status[j] \in Terminal => cancelled[j]

\* Pruning, which handlers and the queue run at any moment, only forgets jobs
\* that ended: a job queued, running or paused can always be found, paused and
\* stopped through its ID, and Shutdown will see it.
LiveJobsAreKnown ==
  \A j \in Jobs : enqueue[j] # "none" /\ status[j] \notin Terminal => j \in jobs

\* Shutdown returns nil only when no run function is executing, so main does
\* not leave a job half way when it exits with success.
CleanExit == shutdown = "returned" => \A j \in Jobs : ~Executing(j)

\* When the HTTP server drained before Shutdown, every job that can still
\* execute or be started has been told to give up once Shutdown waits.
DrainedShutdownReachesAllJobs ==
  http = "drained" /\ shutdown = "waiting" =>
    \A j \in Jobs : status[j] \in {"queued", "running", "paused"} => cancelled[j]

\* After each executed job the queue goroutine leaves at most MaxCompletedJobs
\* terminal jobs, and of the jobs that ended pruning forgets the oldest.
PruneKeepsNewest ==
  [][/\ queue = "after" /\ queue' # "after" => Len(ended') <= MaxCompletedJobs
     /\ \A h, i \in 1..Len(ended) :
          h < i /\ ended[h] \in jobs' => ended[i] \in jobs']_vars

\* The refinement mapping: the job between the call of its run function and
\* its finish, and the jobs finish was called for.
ActiveJob ==
  IF queue \in {"running", "finishing"} /\ run[current] # "idle" THEN current ELSE NoJob
OverJobs == {j \in Jobs : finished[j]}

Lifecycle == INSTANCE JobLifecycle WITH
  phase <- status, active <- ActiveJob, over <- OverJobs

\* The manager keeps the promise of JobLifecycle: serial execution, each job
\* started at most once and never after it was stopped, one terminal status
\* for ever, and streams closed only after the run function returned.
ImplementsLifecycle == Lifecycle!LSpec

\* With users who do not leave a job paused for ever, every queued job ends,
\* whether it runs, is cancelled or is stopped in the queue, unless the
\* process is asked to exit first.
PausesEnd == \A j \in Jobs : []<>(status[j] # "paused")
QueuedJobsEnd ==
  PausesEnd =>
    \A j \in Jobs : status[j] = "queued" ~> (status[j] \in Terminal \/ http # "open")

\* A drained shutdown empties the queue goroutine even when the running job is
\* paused and nobody is left to resume it, unless the 30 s run out first.
DrainedShutdownEnds ==
  http = "drained" ~> (queue = "exited" \/ shutdown = "timedout")

\* The stream of a stopped job is closed in the end (its run function winds
\* down, or the queue discards it), so that a browser sees the final status.
StoppedStreamsClose ==
  PausesEnd =>
    \A j \in Jobs : status[j] = "stopped" ~> (finished[j] \/ http # "open")

\* The comment on Shutdown: it "stops the queue from starting new jobs".
NoStartAfterShutdown ==
  [][shutdown # "idle" => \A j \in Jobs : run[j] = "idle" => run'[j] = "idle"]_vars

\* The comment on finish: wind-down logs "still reach the log file" after a
\* Stop, because finish and nothing before it closes the file.
WindDownReachesLogFile ==
  \A j \in Jobs : run[j] = "body" => log[j] = "open"

\* The regression tests of Stop: a job the user stops keeps the status stopped
\* whatever its run function reports because of it.
StopIsNotAFailure ==
  [][\A j \in stopping :
       status[j] \notin Terminal => status'[j] # "failed"]_vars

=============================================================================
