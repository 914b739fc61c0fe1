---------------------------- MODULE MediaDbApply ----------------------------
(***************************************************************************)
(* internal/web/media_database_orchestration.go: the job that stops the    *)
(* target's Emby container, writes the media plan into Emby's database     *)
(* (internal/embydb), starts the container again, reads the result back    *)
(* through the API and, when that fails, restores the backup. Around it:   *)
(* the Docker daemon, Emby writing into its own database while it runs, a  *)
(* user who stops the job, and a process that is asked to exit.            *)
(*                                                                         *)
(* Every request may fail. A failure returns from applyMediaDatabaseJob,   *)
(* whose deferred function starts the container if restartNeeded says so.  *)
(***************************************************************************)
EXTENDS Naturals

CONSTANTS
  Modes,               \* subset of {"auto", "manual"}: profile.AutoManageContainer
  StopOutlivesClient,  \* the daemon completes a stop whose request was cancelled
  ReadbackFails,       \* the readback may disagree, fail or run out of time
  CanExit,             \* jobs.Shutdown may time out before the job ends
  MaxEmbyWrites        \* bound of the model: writes of Emby itself

ASSUME ModesAssumption == Modes \subseteq {"auto", "manual"}
ASSUME SwitchesAssumption ==
  /\ {StopOutlivesClient, ReadbackFails, CanExit} \subseteq BOOLEAN
  /\ MaxEmbyWrites \in Nat

VARIABLES
  mode,
  pc,             \* where the job is
  stage,          \* for which purpose it stops or starts the container
  container,      \* of Emby, as Docker knows it
  wasRunning,     \* result.Container.WasRunning
  restartNeeded,
  database,       \* writes of Emby in it, and whether the plan is
  backup,         \* the database as the backup has it, or NoBackup
  verified,       \* how much of the plan was read back
  outcome,        \* what the job reports
  cancelled,      \* the job's context is cancelled
  shutdown        \* by jobs.Shutdown

jobVars == <<mode, wasRunning, restartNeeded, backup, verified>>
contextVars == <<cancelled, shutdown>>
vars == <<jobVars, contextVars, pc, stage, container, database, outcome>>

Databases == [writes : 0..MaxEmbyWrites, applied : BOOLEAN]
NoBackup == [writes |-> MaxEmbyWrites + 1, applied |-> FALSE]
Running == container \in {"running", "stopping"}   \* State.Running of Inspect

Goto(next) == pc' = next
Return(result) == pc' = "deferred" /\ outcome' = result
Fail == Return("failed")

-----------------------------------------------------------------------------
Init ==
  /\ mode \in Modes
  /\ pc = "prepare"
  /\ stage = "apply"
  /\ container \in {"running", "stopped"}
  /\ wasRunning = FALSE
  /\ restartNeeded = FALSE
  /\ database = [writes |-> 0, applied |-> FALSE]
  /\ backup = NoBackup
  /\ verified = "none"
  /\ outcome = "none"
  /\ cancelled = FALSE
  /\ shutdown = FALSE

\* Mutants: restartNeeded left to the return of Stop; the container of Emby
\* not stopped.
PrepareUnarmed ==
  /\ pc = "prepare"
  /\ mode = "auto"
  /\ wasRunning' = Running
  /\ Goto(IF Running THEN "stop" ELSE "validate")
  /\ UNCHANGED <<mode, restartNeeded, backup, verified, contextVars, stage, container, database, outcome>>

PrepareWithoutStop ==
  /\ pc = "prepare"
  /\ wasRunning' = Running
  /\ restartNeeded' = Running
  /\ Goto("validate")
  /\ UNCHANGED <<mode, backup, verified, contextVars, stage, container, database, outcome>>

\* Identity checks, Ping and Inspect. restartNeeded is set before the stop is
\* requested.
Prepare ==
  /\ pc = "prepare"
  /\ \/ Fail /\ UNCHANGED <<wasRunning, restartNeeded>>
     \/ /\ mode = "manual"
        /\ Goto("validate")
        /\ UNCHANGED <<wasRunning, restartNeeded, outcome>>
     \/ /\ mode = "auto"
        /\ wasRunning' = Running
        /\ restartNeeded' = Running
        /\ Goto(IF Running THEN "stop" ELSE "validate")
        /\ UNCHANGED outcome
  /\ UNCHANGED <<mode, backup, verified, contextVars, stage, container, database>>

-----------------------------------------------------------------------------
(* Stop, WaitStopped, Start and WaitRunning of the Docker client. The        *)
(* requests of the restore and the first stop use the job's context; the     *)
(* start after a write and the deferred one have contexts of their own.      *)

StopCall ==
  /\ pc = "stop"
  /\ IF cancelled
     THEN Fail /\ UNCHANGED container
     ELSE /\ Goto("stopping")
          /\ container' = IF container = "running" THEN "stopping" ELSE container
          /\ UNCHANGED outcome
  /\ UNCHANGED <<jobVars, contextVars, stage, database>>

DaemonStops ==
  /\ container = "stopping"
  /\ container' = "stopped"
  /\ UNCHANGED <<jobVars, contextVars, pc, stage, database, outcome>>

\* In the restore, restartNeeded is set once Stop returned.
StopReturns ==
  /\ pc = "stopping"
  /\ container = "stopped"
  /\ restartNeeded' = TRUE
  /\ Goto("waitstopped")
  /\ UNCHANGED <<mode, wasRunning, backup, verified, contextVars, stage, container, database, outcome>>

\* Mutant: the error of Stop is only logged.
StopErrorIgnored ==
  /\ pc = "stopping"
  /\ Goto("validate")
  /\ UNCHANGED <<jobVars, contextVars, stage, container, database, outcome>>

StopFails ==
  /\ pc = "stopping"
  /\ Fail
  /\ container' \in IF container = "stopping" /\ ~StopOutlivesClient
                    THEN {"running"} ELSE {container}
  /\ UNCHANGED <<jobVars, contextVars, stage, database>>

WaitStopped ==
  /\ pc = "waitstopped"
  /\ \/ Fail
     \/ /\ ~cancelled
        /\ ~Running
        /\ Goto(IF stage = "apply" THEN "validate" ELSE "restorefile")
        /\ UNCHANGED outcome
  /\ UNCHANGED <<jobVars, contextVars, stage, container, database>>

\* The context of a start: that of the job in a restore only.
StartCancelled == stage = "restore" /\ cancelled
StartFails ==
  IF stage = "deferred" THEN pc' = "done" /\ outcome' = "restartFailed" ELSE Fail

\* Start of a container that is still running, or still stopping, is a
\* success without effect (304). A request that fails may have been served.
Started == IF container = "stopped" THEN "running" ELSE container
Start ==
  /\ pc = "start"
  /\ \/ StartFails /\ container' \in {container, Started}
     \/ /\ ~StartCancelled
        /\ container' = Started
        /\ Goto("waitrunning")
        /\ UNCHANGED outcome
  /\ UNCHANGED <<jobVars, contextVars, stage, database>>

WaitRunning ==
  /\ pc = "waitrunning"
  /\ \/ StartFails /\ UNCHANGED restartNeeded
     \/ /\ ~StartCancelled
        /\ Running
        /\ CASE stage = "apply" -> Goto("ready") /\ restartNeeded' = FALSE /\ UNCHANGED outcome
             [] stage = "restore" -> Return("restored") /\ restartNeeded' = FALSE
             [] stage = "deferred" -> Goto("done") /\ UNCHANGED <<restartNeeded, outcome>>
  /\ UNCHANGED <<mode, wasRunning, backup, verified, contextVars, stage, container, database>>

-----------------------------------------------------------------------------
(* embydb.Apply, called by ApplyMediaDatabasePlan *)

\* The first transaction is rolled back: it holds the lock for a moment only.
Validate ==
  /\ pc = "validate"
  /\ \/ Fail
     \/ ~cancelled /\ Goto("backup") /\ UNCHANGED outcome
  /\ UNCHANGED <<jobVars, contextVars, stage, container, database>>

Backup ==
  /\ pc = "backup"
  /\ \/ Fail /\ UNCHANGED backup
     \/ ~cancelled /\ backup' = database /\ Goto("transact") /\ UNCHANGED outcome
  /\ UNCHANGED <<mode, wasRunning, restartNeeded, verified, contextVars, stage, container, database>>

\* The second transaction; its error leaves the database alone.
Transact ==
  /\ pc = "transact"
  /\ \/ Fail /\ UNCHANGED database
     \/ /\ ~cancelled
        /\ database' = [database EXCEPT !.applied = TRUE]
        /\ Goto("report")
        /\ UNCHANGED outcome
  /\ UNCHANGED <<jobVars, contextVars, stage, container>>

\* The apply report is written after the commit; its failure is an error.
ApplyReport ==
  /\ pc = "report"
  /\ \/ Fail
     \/ wasRunning /\ Goto("start") /\ UNCHANGED outcome
     \/ ~wasRunning /\ Return("done")
  /\ UNCHANGED <<jobVars, contextVars, stage, container, database>>

-----------------------------------------------------------------------------
(* Readback and restore *)

WaitForEmbyReady ==
  /\ pc = "ready"
  /\ \/ Fail
     \/ ~cancelled /\ Goto("verify") /\ UNCHANGED outcome
  /\ UNCHANGED <<jobVars, contextVars, stage, container, database>>

\* VerifyMediaDatabasePlan: when its context ends, the dispatcher may stop
\* handing out items while no worker saw an error.
Verify ==
  /\ pc = "verify"
  /\ \/ verified' = "all" /\ Return("done") /\ UNCHANGED stage
     \/ /\ ReadbackFails \/ cancelled
        /\ verified' = "part" /\ Return("done") /\ UNCHANGED stage
     \/ /\ ReadbackFails \/ cancelled
        /\ verified' = "failed"
        /\ stage' = "restore"
        /\ Goto("stop") /\ UNCHANGED outcome
  /\ UNCHANGED <<mode, wasRunning, restartNeeded, backup, contextVars, container, database>>

\* Mutant: an error of the rename is not returned.
RestoreErrorIgnored ==
  /\ pc = "restorefile"
  /\ database' \in {database, backup}
  /\ Goto("start")
  /\ UNCHANGED <<jobVars, contextVars, stage, container, outcome>>

RestoreFile ==
  /\ pc = "restorefile"
  /\ \/ Fail /\ UNCHANGED database
     \/ database' = backup /\ Goto("start") /\ UNCHANGED outcome
  /\ UNCHANGED <<jobVars, contextVars, stage, container>>

\* Mutant: a stopped job does not start the container any more.
DeferredUnlessCancelled ==
  /\ pc = "deferred"
  /\ IF restartNeeded /\ ~cancelled
     THEN stage' = "deferred" /\ Goto("start")
     ELSE UNCHANGED stage /\ Goto("done")
  /\ UNCHANGED <<jobVars, contextVars, container, database, outcome>>

Deferred ==
  /\ pc = "deferred"
  /\ IF restartNeeded
     THEN stage' = "deferred" /\ Goto("start")
     ELSE UNCHANGED stage /\ Goto("done")
  /\ UNCHANGED <<jobVars, contextVars, container, database, outcome>>

-----------------------------------------------------------------------------
(* The other actors *)

EmbyWrites ==
  /\ Running
  /\ pc # "exited"
  /\ database.writes < MaxEmbyWrites
  /\ database' = [database EXCEPT !.writes = @ + 1]
  /\ UNCHANGED <<jobVars, contextVars, pc, stage, container, outcome>>

Cancel ==
  /\ pc \notin {"done", "exited"}
  /\ ~cancelled
  /\ cancelled' = TRUE
  /\ shutdown' \in BOOLEAN
  /\ UNCHANGED <<jobVars, pc, stage, container, database, outcome>>

\* main exits after the 30 s of jobs.Shutdown, whatever the job does.
Exit ==
  /\ CanExit
  /\ shutdown
  /\ pc \notin {"done", "exited"}
  /\ Goto("exited")
  /\ UNCHANGED <<jobVars, contextVars, stage, container, database, outcome>>

JobStep ==
  \/ Prepare
  \/ StopCall \/ StopReturns \/ StopFails \/ WaitStopped \/ Start \/ WaitRunning
  \/ Validate \/ Backup \/ Transact \/ ApplyReport
  \/ WaitForEmbyReady \/ Verify \/ RestoreFile \/ Deferred

Next == JobStep \/ DaemonStops \/ EmbyWrites \/ Cancel \/ Exit

Spec == Init /\ [][Next]_vars

\* Requests have time limits, so the job always goes on; the daemon carries
\* out a stop. Users, shutdowns and Emby's own writes need not come.
FairSpec == Spec /\ WF_vars(JobStep) /\ WF_vars(DaemonStops)

-----------------------------------------------------------------------------
(* Properties *)

\* Every variable keeps its type.
TypeOK ==
  /\ mode \in Modes
  /\ pc \in {"prepare", "stop", "stopping", "waitstopped", "validate", "backup", "transact", "report",
             "start", "waitrunning", "ready", "verify", "restorefile", "deferred", "done", "exited"}
  /\ stage \in {"apply", "restore", "deferred"}
  /\ container \in {"running", "stopping", "stopped"}
  /\ wasRunning \in BOOLEAN
  /\ restartNeeded \in BOOLEAN
  /\ database \in Databases
  /\ backup \in Databases \cup {NoBackup}
  /\ verified \in {"none", "all", "part", "failed"}
  /\ outcome \in {"none", "done", "failed", "restored", "restartFailed"}
  /\ cancelled \in BOOLEAN
  /\ shutdown \in BOOLEAN

\* A job that ends has Emby running again if it was running before, however
\* it ends and whenever it was cancelled, or it reports the failed start. It
\* does not hold when the stop for a restore reports an error although the
\* container stops.
EmbyRestarted ==
  pc = "done" /\ wasRunning /\ outcome # "restartFailed" => container = "running"

\* With that exception it holds, restores included: no step between the stop and
\* the start, and no cancel, leaves the container down.
RestoreStopFailed == stage = "restore" /\ outcome = "failed" /\ ~restartNeeded
EmbyRestartedButForRestoreStop == RestoreStopFailed \/ EmbyRestarted

\* Neither the plan nor the restored backup reaches the database while Emby
\* may be writing into it.
WriteOnlyWhileStopped ==
  [][database'.applied # database.applied => container = "stopped"]_vars

\* The backup a failed readback is restored from is the database as it was
\* when the plan was committed: a restore loses nothing that Emby wrote before.
BackupIsPreImage ==
  [][database'.applied /\ ~database.applied => backup = database]_vars

\* What the job reports is so: success means that the plan is in the
\* database, and "restored from the backup" that it is not.
OutcomeIsTruthful ==
  /\ outcome = "done" => database.applied
  /\ outcome = "restored" => ~database.applied

\* Once stopped by the job, Emby comes back.
EmbyComesBack ==
  (container = "stopped" /\ wasRunning) ~>
    (container = "running" \/ outcome = "restartFailed" \/ RestoreStopFailed \/ pc = "exited")

\* Release notes 1.1.6: a graceful exit waits for jobs, so that it does not
\* leave a stopped Emby container behind.
ExitLeavesEmbyRunning == pc = "exited" /\ wasRunning => Running

\* The blueprint, 7.2: when Emby does not come back after the write, the
\* backup is restored; the write does not stay in.
UnreadyRollsBack ==
  [][(pc = "ready" /\ ~cancelled /\ outcome' = "failed") => ~database'.applied]_vars

\* The log line of a completed readback, and the job that reports success,
\* stand for the whole plan.
DoneIsVerified == outcome = "done" /\ wasRunning => verified = "all"

=============================================================================
