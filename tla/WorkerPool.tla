----------------------------- MODULE WorkerPool -----------------------------
(***************************************************************************)
(* internal/exporter: the worker pool that exportLibraryItems,             *)
(* exportPeopleImages, importItems and importPeopleImages each spell out.  *)
(* A dispatcher hands tasks to workers through an unbuffered channel and   *)
(* obeys the pause of the job; the workers send results through another    *)
(* one; a closer closes that when the last worker has ended; the collector *)
(* is the function itself and returns what it collected, or the error of   *)
(* the cancelled context.                                                  *)
(*                                                                         *)
(* A select with several ready cases takes any of them.                    *)
(***************************************************************************)
EXTENDS FiniteSets

CONSTANTS Tasks, Workers, NoTask

ASSUME PoolAssumption == NoTask \notin Tasks /\ Workers # {}

VARIABLES
  todo,           \* tasks the dispatcher has not handed out
  dispatcher,     \* "ready" before WaitIfPaused, "offer" in the select, "done": taskCh is closed
  worker,         \* state of each worker
  task,           \* the task it holds
  results,        \* tasks whose result the collector has
  resultsClosed,  \* resultCh is closed
  returned,       \* "no", "results" or "error": the collector
  paused,
  cancelled       \* the job's context

poolVars == <<todo, dispatcher, worker, task, results, resultsClosed, returned>>
controlVars == <<paused, cancelled>>
vars == <<poolVars, controlVars>>

-----------------------------------------------------------------------------
StartPool(tasks) ==
  /\ todo' = tasks
  /\ dispatcher' = "ready"
  /\ worker' = [w \in Workers |-> "idle"]
  /\ task' = [w \in Workers |-> NoTask]
  /\ results' = {}
  /\ resultsClosed' = FALSE
  /\ returned' = "no"

Init ==
  /\ todo = Tasks
  /\ dispatcher = "ready"
  /\ worker = [w \in Workers |-> "idle"]
  /\ task = [w \in Workers |-> NoTask]
  /\ results = {}
  /\ resultsClosed = FALSE
  /\ returned = "no"
  /\ paused = FALSE
  /\ cancelled = FALSE

-----------------------------------------------------------------------------
(* The dispatcher *)

\* Mutant: taskCh is closed only after a cancel.
DispatcherKeepsChannel ==
  /\ dispatcher = "ready"
  /\ todo # {}
  /\ \/ ~paused /\ dispatcher' = "offer"
     \/ paused /\ cancelled /\ dispatcher' = "done"
  /\ UNCHANGED <<todo, worker, task, results, resultsClosed, returned, controlVars>>

\* WaitIfPaused before each task: it blocks while the job is paused, and only
\* then looks at the context.
WaitIfPaused ==
  /\ dispatcher = "ready"
  /\ \/ todo = {} /\ dispatcher' = "done"
     \/ todo # {} /\ ~paused /\ dispatcher' = "offer"
     \/ todo # {} /\ paused /\ cancelled /\ dispatcher' = "done"
  /\ UNCHANGED <<todo, worker, task, results, resultsClosed, returned, controlVars>>

\* Mutant: the task stays with the dispatcher.
DispatchKeeps(w) ==
  /\ dispatcher = "offer"
  /\ worker[w] = "idle"
  /\ \E t \in todo : task' = [task EXCEPT ![w] = t]
  /\ worker' = [worker EXCEPT ![w] = "busy"]
  /\ dispatcher' = "ready"
  /\ UNCHANGED <<todo, results, resultsClosed, returned, controlVars>>

Dispatch(w) ==
  /\ dispatcher = "offer"
  /\ worker[w] = "idle"
  /\ \E t \in todo :
       /\ todo' = todo \ {t}
       /\ task' = [task EXCEPT ![w] = t]
  /\ worker' = [worker EXCEPT ![w] = "busy"]
  /\ dispatcher' = "ready"
  /\ UNCHANGED <<results, resultsClosed, returned, controlVars>>

DispatcherCancelled ==
  /\ dispatcher = "offer"
  /\ cancelled
  /\ dispatcher' = "done"
  /\ UNCHANGED <<todo, worker, task, results, resultsClosed, returned, controlVars>>

-----------------------------------------------------------------------------
(* The workers *)

\* The work on the task is over, with whatever result: a failed item has one.
Process(w) ==
  /\ worker[w] = "busy"
  /\ worker' = [worker EXCEPT ![w] = "sending"]
  /\ UNCHANGED <<todo, dispatcher, task, results, resultsClosed, returned, controlVars>>

Send(w) ==
  /\ worker[w] = "sending"
  /\ returned = "no"
  /\ results' = results \cup {task[w]}
  /\ worker' = [worker EXCEPT ![w] = "idle"]
  /\ task' = [task EXCEPT ![w] = NoTask]
  /\ UNCHANGED <<todo, dispatcher, resultsClosed, returned, controlVars>>

\* Mutant: a plain send, without the context.
WorkerStuck(w) ==
  /\ worker[w] = "idle"
  /\ dispatcher = "done"
  /\ worker' = [worker EXCEPT ![w] = "ended"]
  /\ UNCHANGED <<todo, dispatcher, task, results, resultsClosed, returned, controlVars>>

WorkerEnds(w) ==
  /\ \/ worker[w] = "idle" /\ dispatcher = "done"
     \/ worker[w] = "sending" /\ cancelled
  /\ worker' = [worker EXCEPT ![w] = "ended"]
  /\ task' = [task EXCEPT ![w] = NoTask]
  /\ UNCHANGED <<todo, dispatcher, results, resultsClosed, returned, controlVars>>

-----------------------------------------------------------------------------
(* The closer and the collector *)

AllEnded == \A w \in Workers : worker[w] = "ended"

\* Mutant: resultCh is closed with the first worker that has ended.
CloseResultsEarly ==
  /\ \E w \in Workers : worker[w] = "ended"
  /\ ~resultsClosed
  /\ resultsClosed' = TRUE
  /\ UNCHANGED <<todo, dispatcher, worker, task, results, returned, controlVars>>

CloseResults ==
  /\ AllEnded
  /\ ~resultsClosed
  /\ resultsClosed' = TRUE
  /\ UNCHANGED <<todo, dispatcher, worker, task, results, returned, controlVars>>

ReturnResults ==
  /\ returned = "no"
  /\ resultsClosed
  /\ returned' = "results"
  /\ UNCHANGED <<todo, dispatcher, worker, task, results, resultsClosed, controlVars>>

ReturnError ==
  /\ returned = "no"
  /\ cancelled
  /\ returned' = "error"
  /\ UNCHANGED <<todo, dispatcher, worker, task, results, resultsClosed, controlVars>>

-----------------------------------------------------------------------------
(* The job *)

Pause ==
  /\ ~paused
  /\ paused' = TRUE
  /\ UNCHANGED <<poolVars, cancelled>>

Resume ==
  /\ paused
  /\ paused' = FALSE
  /\ UNCHANGED <<poolVars, cancelled>>

\* Stop ends the pause as well, a Shutdown of the manager does not.
Cancel ==
  /\ ~cancelled
  /\ cancelled' = TRUE
  /\ paused' \in {paused, FALSE}
  /\ UNCHANGED poolVars

DispatcherStep == WaitIfPaused \/ DispatcherCancelled
WorkerStep(w) == Dispatch(w) \/ Process(w) \/ Send(w) \/ WorkerEnds(w)
CollectorStep == ReturnResults \/ ReturnError

Next ==
  \/ DispatcherStep
  \/ \E w \in Workers : WorkerStep(w)
  \/ CloseResults
  \/ CollectorStep
  \/ Pause \/ Resume \/ Cancel

Spec == Init /\ [][Next]_vars

\* Goroutines that can go on do; work on a task ends because its requests
\* have time limits. Nobody is obliged to resume or to stop a job.
FairSpec ==
  /\ Spec
  /\ WF_vars(DispatcherStep)
  /\ \A w \in Workers : WF_vars(WorkerStep(w))
  /\ WF_vars(CloseResults)
  /\ WF_vars(CollectorStep)

-----------------------------------------------------------------------------
(* Properties *)

\* Every variable keeps its type.
TypeOK ==
  /\ todo \subseteq Tasks
  /\ dispatcher \in {"ready", "offer", "done"}
  /\ worker \in [Workers -> {"idle", "busy", "sending", "ended"}]
  /\ task \in [Workers -> Tasks \cup {NoTask}]
  /\ results \subseteq Tasks
  /\ resultsClosed \in BOOLEAN
  /\ returned \in {"no", "results", "error"}
  /\ paused \in BOOLEAN
  /\ cancelled \in BOOLEAN

\* No task is worked on twice: not by two workers at a time, and not again
\* after its result was collected. (An import would write an item twice.)
NoTaskTwice ==
  \A v, w \in Workers :
    task[w] # NoTask =>
      /\ task[w] \notin todo \cup results
      /\ v # w => task[v] # task[w]

\* A pool that returns results in a job nobody cancelled has all of them.
CompleteUnlessCancelled == returned = "results" /\ ~cancelled => results = Tasks

\* When the pool returns results, none of its workers is still at work.
ReturnsAfterWorkers == returned = "results" => AllEnded

\* After a cancel the function returns and all its goroutines end, also when
\* the job stays paused and nobody receives results any more.
CancelledPoolDrains == cancelled ~> (returned # "no" /\ AllEnded /\ dispatcher = "done")

\* A pool that is not paused for ever returns.
PoolReturns == <>[]~paused => <>(returned # "no")

=============================================================================
