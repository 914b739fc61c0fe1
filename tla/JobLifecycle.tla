---------------------------- MODULE JobLifecycle ----------------------------
(***************************************************************************)
(* What internal/job promises its callers, without queue, locks, channels  *)
(* or log files: a job is accepted, executed at most once and never beside *)
(* another one, reaches exactly one terminal status and keeps it, and is   *)
(* reported over only when nothing executes on its behalf any more.        *)
(***************************************************************************)
CONSTANTS Jobs, NoJob

VARIABLES
  phase,    \* status a caller reads in a Snapshot ("none" before Create)
  active,   \* the job whose run function is executing, or NoJob
  over      \* jobs whose stream was closed by finish

lvars == <<phase, active, over>>

Terminal == {"done", "failed", "stopped"}
Phases   == {"none", "queued", "running", "paused"} \cup Terminal

LInit ==
  /\ phase = [j \in Jobs |-> "none"]
  /\ active = NoJob
  /\ over = {}

Accept(j) ==
  /\ phase[j] = "none"
  /\ phase' = [phase EXCEPT ![j] = "queued"]
  /\ UNCHANGED <<active, over>>

Begin(j) ==
  /\ phase[j] = "queued"
  /\ active = NoJob
  /\ j \notin over
  /\ phase' = [phase EXCEPT ![j] = "running"]
  /\ active' = j
  /\ UNCHANGED over

Hold(j) ==
  /\ phase[j] = "running"
  /\ phase' = [phase EXCEPT ![j] = "paused"]
  /\ UNCHANGED <<active, over>>

Release(j) ==
  /\ phase[j] = "paused"
  /\ phase' = [phase EXCEPT ![j] = "running"]
  /\ UNCHANGED <<active, over>>

\* Only the executing function ends a job as done or failed; a caller can stop
\* it in any phase before that.
End(j) ==
  /\ phase[j] \in {"queued", "running", "paused"}
  /\ \E t \in Terminal :
       /\ t # "stopped" => active = j
       /\ phase' = [phase EXCEPT ![j] = t]
  /\ UNCHANGED <<active, over>>

Leave(j) ==
  /\ j \notin over
  /\ phase[j] \in Terminal
  /\ active \in {j, NoJob}
  /\ active' = NoJob
  /\ over' = over \cup {j}
  /\ UNCHANGED phase

LNext ==
  \E j \in Jobs :
    Accept(j) \/ Begin(j) \/ Hold(j) \/ Release(j) \/ End(j) \/ Leave(j)

LSpec == LInit /\ [][LNext]_lvars

=============================================================================
