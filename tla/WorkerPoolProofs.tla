-------------------------- MODULE WorkerPoolProofs --------------------------
(***************************************************************************)
(* Proofs about WorkerPool for any tasks and any number of workers.        *)
(***************************************************************************)
EXTENDS WorkerPool, FiniteSetTheorems, Integers, TLAPS

-----------------------------------------------------------------------------
(* Who can go on. The conditions are those under which the steps of each     *)
(* goroutine are enabled; TLC has compared them with ENABLED.                *)

DispatcherCan ==
  \/ dispatcher = "ready" /\ (todo # {} => ~paused \/ cancelled)
  \/ dispatcher = "offer" /\ cancelled

WorkerCan(w) ==
  \/ worker[w] = "idle" /\ (dispatcher = "done" \/ (dispatcher = "offer" /\ todo # {}))
  \/ worker[w] = "busy"
  \/ worker[w] = "sending" /\ (returned = "no" \/ cancelled)

CloserCan == AllEnded /\ ~resultsClosed
CollectorCan == returned = "no" /\ (resultsClosed \/ cancelled)

Over == returned # "no" /\ resultsClosed /\ dispatcher = "done" /\ AllEnded

\* The dispatcher waits for a resume and the workers for the dispatcher.
Halted ==
  /\ dispatcher = "ready" /\ todo # {} /\ paused /\ ~cancelled
  /\ \A w \in Workers : worker[w] = "idle"

\* Unless the pool is over, or halted by a pause, a goroutine of it can go on:
\* dispatcher, workers, closer and collector never wait for each other.
NeverStuck ==
  \/ DispatcherCan \/ CloserCan \/ CollectorCan \/ \E w \in Workers : WorkerCan(w)
  \/ Over \/ Halted

\* What is left to do: a task has five steps before it, in the hands of the
\* dispatcher (two), of a worker (two), and for the worker itself one more; the
\* end of the dispatcher, of each worker, of the closer and of the collector.
In(state) == {w \in Workers : worker[w] = state}
Offers == CASE dispatcher = "ready" -> 2 [] dispatcher = "offer" -> 1 [] OTHER -> 0
StepsLeft ==
  5 * Cardinality(todo) + Offers
  + 3 * Cardinality(In("busy")) + 2 * Cardinality(In("sending")) + Cardinality(In("idle"))
  + (IF resultsClosed THEN 0 ELSE 1) + (IF returned = "no" THEN 1 ELSE 0)

\* Every step of a goroutine of the pool brings its end nearer, paused,
\* cancelled or not; so it makes at most 5 * Tasks + Workers + 4 steps.
StepsRunOut ==
  [][poolVars' # poolVars => StepsLeft' < StepsLeft]_vars
StepsBounded == StepsLeft \in 0..(5 * Cardinality(Tasks) + Cardinality(Workers) + 4)

-----------------------------------------------------------------------------
(* The inductive invariant *)

\* A worker holds a task while it works on it and until the result is sent.
HoldInv == \A w \in Workers : worker[w] \in {"busy", "sending"} <=> task[w] # NoTask

\* The dispatcher, the workers and the collector have different tasks.
ApartInv == NoTaskTwice /\ todo \cap results = {}

\* Without a cancel no task is lost: dispatcher, worker or collector has it.
KeptInv ==
  ~cancelled =>
    \A t \in Tasks : t \in todo \/ t \in results \/ \E w \in Workers : task[w] = t

\* Without a cancel the dispatcher ends after the last task, the workers after
\* the dispatcher.
EndInv ==
  /\ ~cancelled /\ dispatcher = "done" => todo = {}
  /\ \A w \in Workers : ~cancelled /\ worker[w] = "ended" => dispatcher = "done"

\* Always the closer ends after the workers, the collector with its results
\* after the closer.
ClosedInv ==
  /\ resultsClosed => AllEnded
  /\ returned = "results" => resultsClosed

\* What also holds of a pool that a new job finds, ended, from the one before.
SafeInv == TypeOK /\ HoldInv /\ ApartInv /\ ClosedInv

IInv == SafeInv /\ KeptInv /\ EndInv

USE PoolAssumption

LEMMA InitIInv == Init => IInv
<1> SUFFICES ASSUME Init PROVE IInv
  OBVIOUS
<1>1. TypeOK
  BY DEF Init, TypeOK
<1>2. HoldInv /\ ApartInv
  BY DEF Init, HoldInv, ApartInv, NoTaskTwice
<1>3. KeptInv /\ EndInv /\ ClosedInv
  BY DEF Init, KeptInv, EndInv, ClosedInv
<1> QED BY <1>1, <1>2, <1>3 DEF IInv, SafeInv

\* Every step keeps each part by itself.
LEMMA NextInv ==
  ASSUME SafeInv, [Next]_vars
  PROVE  SafeInv' /\ (KeptInv => KeptInv') /\ (EndInv => EndInv')
<1> DEFINE Kept == SafeInv' /\ (KeptInv => KeptInv') /\ (EndInv => EndInv')
<1> SUFFICES Kept
  OBVIOUS
<1> USE DEF SafeInv
<1>1. CASE WaitIfPaused
  <2>1. TypeOK'
    BY <1>1 DEF WaitIfPaused, TypeOK, controlVars
  <2>2. HoldInv' /\ ApartInv' /\ (KeptInv => KeptInv')
    BY <1>1 DEF WaitIfPaused, HoldInv, ApartInv, NoTaskTwice, KeptInv, controlVars
  <2>3. (EndInv => EndInv') /\ ClosedInv'
    BY <1>1 DEF WaitIfPaused, EndInv, ClosedInv, AllEnded, controlVars
  <2> QED BY <2>1, <2>2, <2>3
<1>2. ASSUME NEW v \in Workers, Dispatch(v) PROVE Kept
  <2>1. PICK t \in todo : todo' = todo \ {t} /\ task' = [task EXCEPT ![v] = t]
    BY <1>2 DEF Dispatch
  <2>2. /\ worker[v] = "idle" /\ worker' = [worker EXCEPT ![v] = "busy"]
        /\ dispatcher = "offer" /\ dispatcher' = "ready"
        /\ UNCHANGED <<results, resultsClosed, returned, paused, cancelled>>
    BY <1>2 DEF Dispatch, controlVars
  <2>3. t \in Tasks /\ t # NoTask
    BY <2>1 DEF TypeOK
  <2>4. TypeOK'
    BY <2>1, <2>2, <2>3 DEF TypeOK
  <2>5. /\ worker'[v] = "busy" /\ task'[v] = t
        /\ \A w \in Workers \ {v} : worker'[w] = worker[w] /\ task'[w] = task[w]
    BY <2>1, <2>2 DEF TypeOK
  <2>6. HoldInv'
    BY <2>3, <2>5 DEF HoldInv
  <2>7. ApartInv'
    BY <2>1, <2>2, <2>3, <2>5 DEF ApartInv, NoTaskTwice
  <2>8. KeptInv => KeptInv'
    <3>1. task[v] = NoTask
      BY <2>2 DEF HoldInv, TypeOK
    <3> QED BY <2>1, <2>2, <2>5, <3>1 DEF KeptInv
  <2>9. (EndInv => EndInv') /\ ClosedInv'
    BY <2>2, <2>5 DEF EndInv, ClosedInv, AllEnded
  <2> QED BY <2>4, <2>6, <2>7, <2>8, <2>9
<1>3. CASE DispatcherCancelled
  <2>1. TypeOK'
    BY <1>3 DEF DispatcherCancelled, TypeOK, controlVars
  <2>2. HoldInv' /\ ApartInv' /\ (KeptInv => KeptInv')
    BY <1>3 DEF DispatcherCancelled, HoldInv, ApartInv, NoTaskTwice, KeptInv, controlVars
  <2>3. (EndInv => EndInv') /\ ClosedInv'
    BY <1>3 DEF DispatcherCancelled, EndInv, ClosedInv, AllEnded, controlVars
  <2> QED BY <2>1, <2>2, <2>3
<1>4. ASSUME NEW v \in Workers, Process(v) PROVE Kept
  <2>1. /\ worker[v] = "busy" /\ worker' = [worker EXCEPT ![v] = "sending"]
        /\ UNCHANGED <<todo, dispatcher, task, results, resultsClosed, returned, paused, cancelled>>
    BY <1>4 DEF Process, controlVars
  <2>2. TypeOK'
    BY <2>1 DEF TypeOK
  <2>3. worker'[v] = "sending" /\ \A w \in Workers \ {v} : worker'[w] = worker[w]
    BY <2>1 DEF TypeOK
  <2>4. HoldInv' /\ ApartInv' /\ (KeptInv => KeptInv')
    BY <2>1, <2>3 DEF HoldInv, ApartInv, NoTaskTwice, KeptInv
  <2>5. (EndInv => EndInv') /\ ClosedInv'
    BY <2>1, <2>3 DEF EndInv, ClosedInv, AllEnded
  <2> QED BY <2>2, <2>4, <2>5
<1>5. ASSUME NEW v \in Workers, Send(v) PROVE Kept
  <2>1. /\ worker[v] = "sending" /\ worker' = [worker EXCEPT ![v] = "idle"]
        /\ results' = results \cup {task[v]} /\ task' = [task EXCEPT ![v] = NoTask]
        /\ UNCHANGED <<todo, dispatcher, resultsClosed, returned, paused, cancelled>>
    BY <1>5 DEF Send, controlVars
  <2>2. task[v] \in Tasks /\ task[v] # NoTask
    BY <2>1 DEF HoldInv, TypeOK
  <2>3. TypeOK'
    BY <2>1, <2>2 DEF TypeOK
  <2>4. /\ worker'[v] = "idle" /\ task'[v] = NoTask
        /\ \A w \in Workers \ {v} : worker'[w] = worker[w] /\ task'[w] = task[w]
    BY <2>1 DEF TypeOK
  <2>5. HoldInv'
    BY <2>4 DEF HoldInv
  <2>6. ApartInv'
    BY <2>1, <2>2, <2>4 DEF ApartInv, NoTaskTwice
  <2>7. KeptInv => KeptInv'
    BY <2>1, <2>4 DEF KeptInv
  <2>8. (EndInv => EndInv') /\ ClosedInv'
    BY <2>1, <2>4 DEF EndInv, ClosedInv, AllEnded
  <2> QED BY <2>3, <2>5, <2>6, <2>7, <2>8
<1>6. ASSUME NEW v \in Workers, WorkerEnds(v) PROVE Kept
  <2>1. /\ (worker[v] = "idle" /\ dispatcher = "done") \/ (worker[v] = "sending" /\ cancelled)
        /\ worker' = [worker EXCEPT ![v] = "ended"] /\ task' = [task EXCEPT ![v] = NoTask]
        /\ UNCHANGED <<todo, dispatcher, results, resultsClosed, returned, paused, cancelled>>
    BY <1>6 DEF WorkerEnds, controlVars
  <2>2. TypeOK'
    BY <2>1 DEF TypeOK
  <2>3. /\ worker'[v] = "ended" /\ task'[v] = NoTask
        /\ \A w \in Workers \ {v} : worker'[w] = worker[w] /\ task'[w] = task[w]
    BY <2>1 DEF TypeOK
  <2>4. HoldInv'
    BY <2>3 DEF HoldInv
  <2>5. ApartInv'
    BY <2>1, <2>3 DEF ApartInv, NoTaskTwice
  <2>6. KeptInv => KeptInv'
    <3>1. ~cancelled => task[v] = NoTask
      BY <2>1 DEF HoldInv
    <3> QED BY <2>1, <2>3, <3>1 DEF KeptInv
  <2>7. (EndInv => EndInv') /\ ClosedInv'
    BY <2>1, <2>3 DEF EndInv, ClosedInv, AllEnded
  <2> QED BY <2>2, <2>4, <2>5, <2>6, <2>7
<1>7. CASE CloseResults \/ ReturnResults \/ ReturnError
  <2>1. TypeOK'
    BY <1>7 DEF CloseResults, ReturnResults, ReturnError, TypeOK, controlVars
  <2>2. HoldInv' /\ ApartInv' /\ (KeptInv => KeptInv')
    BY <1>7 DEF CloseResults, ReturnResults, ReturnError, HoldInv, ApartInv, NoTaskTwice, KeptInv, controlVars
  <2>3. (EndInv => EndInv') /\ ClosedInv'
    BY <1>7 DEF CloseResults, ReturnResults, ReturnError, EndInv, ClosedInv, AllEnded, controlVars
  <2> QED BY <2>1, <2>2, <2>3
<1>8. CASE Pause \/ Resume \/ Cancel
  <2>1. TypeOK'
    BY <1>8 DEF Pause, Resume, Cancel, TypeOK, poolVars
  <2>2. UNCHANGED poolVars
    BY <1>8 DEF Pause, Resume, Cancel
  <2>6. ~cancelled' => ~cancelled
    BY <1>8, Zenon DEF Pause, Resume, Cancel
  <2>3. HoldInv' /\ ApartInv' /\ ClosedInv'
    BY <2>2 DEF poolVars, HoldInv, ApartInv, NoTaskTwice, ClosedInv, AllEnded
  <2>4. KeptInv => KeptInv'
    BY <2>2, <2>6 DEF poolVars, KeptInv
  <2>5. EndInv => EndInv'
    BY <2>2, <2>6, Zenon DEF poolVars, EndInv
  <2> QED BY <2>1, <2>3, <2>4, <2>5
<1>9. CASE UNCHANGED vars
  BY <1>9 DEF vars, poolVars, controlVars, TypeOK, HoldInv, ApartInv, NoTaskTwice, KeptInv, EndInv, ClosedInv, AllEnded
<1> HIDE DEF SafeInv, Kept
<1> QED BY <1>1, <1>2, <1>3, <1>4, <1>5, <1>6, <1>7, <1>8, <1>9
        DEF Next, DispatcherStep, WorkerStep, CollectorStep

\* Nothing is taken back: a cancel, the end of a worker, a return.
LEMMA NextForward ==
  ASSUME [Next]_vars
  PROVE  /\ cancelled => cancelled'
         /\ AllEnded => AllEnded'
         /\ returned' = returned \/ (returned = "no" /\ (returned' = "error" => cancelled'))
<1>1. CASE UNCHANGED vars
  BY <1>1 DEF vars, poolVars, controlVars, AllEnded
<1>2. ASSUME NEW w \in Workers, WorkerStep(w) PROVE AllEnded => AllEnded'
  <2>1. ~AllEnded \/ WorkerEnds(w)
    BY <1>2 DEF WorkerStep, Dispatch, Process, Send, AllEnded
  <2>2. WorkerEnds(w) => (AllEnded => AllEnded')
    BY DEF WorkerEnds, AllEnded
  <2> QED BY <2>1, <2>2
<1>3. ASSUME NEW w \in Workers, WorkerStep(w) PROVE UNCHANGED <<cancelled, returned>>
  BY <1>3 DEF WorkerStep, Dispatch, Process, Send, WorkerEnds, controlVars
<1>4. CASE DispatcherStep \/ CloseResults \/ Pause \/ Resume
  BY <1>4 DEF DispatcherStep, WaitIfPaused, DispatcherCancelled, CloseResults, Pause, Resume,
              poolVars, controlVars, AllEnded
<1>5. CASE CollectorStep
  <2>1. UNCHANGED <<worker, cancelled>>
    BY <1>5 DEF CollectorStep, ReturnResults, ReturnError, controlVars
  <2>2. returned = "no" /\ (returned' = "results" \/ (returned' = "error" /\ cancelled))
    BY <1>5, Zenon DEF CollectorStep, ReturnResults, ReturnError
  <2>3. returned' = "error" => cancelled'
    BY <2>1, <2>2
  <2> QED BY <2>1, <2>2, <2>3, Zenon DEF AllEnded
<1>6. CASE Cancel
  BY <1>6 DEF Cancel, poolVars, AllEnded
<1> QED BY <1>1, <1>2, <1>3, <1>4, <1>5, <1>6 DEF Next

LEMMA NextIInv == IInv /\ [Next]_vars => IInv'
BY NextInv DEF IInv

\* Nobody has a task any more when the results are returned.
LEMMA ResultsAreAll ==
  ASSUME IInv, returned = "results", ~cancelled
  PROVE  results = Tasks
<1> USE DEF IInv, SafeInv
<1>1. AllEnded
  BY DEF ClosedInv
<1>2. todo = {}
  BY <1>1 DEF EndInv, AllEnded
<1>3. \A w \in Workers : task[w] = NoTask
  BY <1>1 DEF HoldInv, AllEnded
<1>4. Tasks \subseteq results
  BY <1>2, <1>3 DEF KeptInv
<1> QED BY <1>4 DEF TypeOK

LEMMA Invariance == Spec => []IInv
BY InitIInv, NextIInv, PTL DEF Spec

-----------------------------------------------------------------------------
(* The theorems *)

\* Every variable keeps its type: what dispatcher, workers and collector hold
\* are tasks.
THEOREM TypeCorrect == Spec => []TypeOK
<1>1. IInv => TypeOK
  BY DEF IInv, SafeInv
<1> QED BY <1>1, Invariance, PTL

\* No task is worked on twice, however many workers there are: an import writes
\* an item once, an export has one entry for it.
THEOREM Once == Spec => []NoTaskTwice
<1>1. IInv => NoTaskTwice
  BY DEF IInv, SafeInv, ApartInv
<1> QED BY <1>1, Invariance, PTL

\* Results returned in a job that nobody cancelled are the results of all tasks.
THEOREM Complete == Spec => []CompleteUnlessCancelled
<1>1. IInv => CompleteUnlessCancelled
  BY ResultsAreAll DEF CompleteUnlessCancelled
<1> QED BY <1>1, Invariance, PTL

\* A pool that returns results has no worker at work any more: nothing of it
\* runs beside the phase that follows.
THEOREM NoWorkerLeft == Spec => []ReturnsAfterWorkers
<1>1. IInv => ReturnsAfterWorkers
  BY DEF IInv, SafeInv, ClosedInv, ReturnsAfterWorkers
<1> QED BY <1>1, Invariance, PTL
-----------------------------------------------------------------------------
(* Progress *)

\* An error is returned only of a cancelled job, and a task is offered only
\* while there is one.
OfferInv ==
  /\ returned = "error" => cancelled
  /\ dispatcher = "offer" => todo # {}

LEMMA OfferStep == OfferInv /\ [Next]_vars => OfferInv'
<1> SUFFICES ASSUME OfferInv, [Next]_vars PROVE OfferInv'
  OBVIOUS
<1>1. returned' = "error" => cancelled'
  BY NextForward DEF OfferInv
<1>2. dispatcher' = "offer" => todo' # {}
  <2>1. CASE WaitIfPaused
    BY <2>1 DEF WaitIfPaused
  <2>2. ASSUME NEW w \in Workers, Dispatch(w) PROVE dispatcher' = "ready"
    BY <2>2 DEF Dispatch
  <2>3. CASE DispatcherCancelled
    BY <2>3 DEF DispatcherCancelled
  <2>4. ASSUME NEW w \in Workers, Process(w) \/ Send(w) \/ WorkerEnds(w)
        PROVE  UNCHANGED <<dispatcher, todo>>
    BY <2>4 DEF Process, Send, WorkerEnds
  <2>5. CASE CloseResults \/ CollectorStep \/ Pause \/ Resume \/ Cancel \/ UNCHANGED vars
    BY <2>5 DEF CloseResults, CollectorStep, ReturnResults, ReturnError, Pause, Resume, Cancel,
                vars, poolVars, OfferInv
  <2> QED BY <2>1, <2>2, <2>3, <2>4, <2>5 DEF Next, DispatcherStep, WorkerStep, OfferInv
<1> QED BY <1>1, <1>2 DEF OfferInv

\* Dispatcher, workers, closer and collector never wait for each other: a pool
\* that is not over and not halted by a pause goes on, also after a cancel and
\* when nobody receives results any more (the four pools of the exporter).
THEOREM NobodyStuck == Spec => []NeverStuck
<1>1. IInv /\ OfferInv => NeverStuck
  <2> SUFFICES ASSUME IInv, OfferInv, ~NeverStuck PROVE FALSE
    OBVIOUS
  <2>1. \A w \in Workers : worker[w] \in {"idle", "sending", "ended"}
    BY DEF NeverStuck, WorkerCan, IInv, SafeInv, TypeOK
  <2>2. \A w \in Workers : worker[w] # "sending"
    <3> SUFFICES ASSUME NEW w \in Workers, worker[w] = "sending" PROVE FALSE
      OBVIOUS
    <3>1. returned # "no" /\ ~cancelled
      BY DEF NeverStuck, WorkerCan
    <3>2. returned = "results"
      BY <3>1 DEF OfferInv, IInv, SafeInv, TypeOK
    <3> QED BY <3>2 DEF IInv, SafeInv, ClosedInv, AllEnded
  <2>3. CASE dispatcher = "done"
    <3>1. AllEnded
      BY <2>1, <2>2, <2>3 DEF NeverStuck, WorkerCan, AllEnded
    <3>2. resultsClosed
      BY <3>1 DEF NeverStuck, CloserCan
    <3>3. returned # "no"
      BY <3>2 DEF NeverStuck, CollectorCan
    <3> QED BY <2>3, <3>1, <3>2, <3>3 DEF NeverStuck, Over
  <2>4. CASE dispatcher = "offer"
    <3>1. ~cancelled /\ todo # {}
      BY <2>4 DEF NeverStuck, DispatcherCan, OfferInv
    <3>2. \A w \in Workers : worker[w] = "ended"
      BY <2>1, <2>2, <2>4, <3>1 DEF NeverStuck, WorkerCan
    <3> QED BY <2>4, <3>1, <3>2, PoolAssumption DEF IInv, EndInv
  <2>5. CASE dispatcher = "ready"
    <3>1. todo # {} /\ paused /\ ~cancelled
      BY <2>5 DEF NeverStuck, DispatcherCan, IInv, SafeInv, TypeOK
    <3>2. \A w \in Workers : worker[w] # "ended"
      BY <2>5, <3>1 DEF IInv, EndInv
    <3> QED BY <2>1, <2>2, <2>5, <3>1, <3>2 DEF NeverStuck, Halted
  <2> QED BY <2>3, <2>4, <2>5 DEF IInv, SafeInv, TypeOK
<1>2. Init => OfferInv
  BY DEF Init, OfferInv
<1> QED BY <1>1, <1>2, OfferStep, Invariance, PTL DEF Spec

\* How a worker's change of state shows in the numbers of workers.
Turns(w, from, to) == from # to /\ worker[w] = from /\ worker' = [worker EXCEPT ![w] = to]
LEMMA WorkerMoves ==
  ASSUME IsFiniteSet(Workers), TypeOK, NEW w \in Workers, NEW from, NEW to, Turns(w, from, to)
  PROVE  /\ Cardinality(In(from))' = Cardinality(In(from)) - 1
         /\ Cardinality(In(to))' = Cardinality(In(to)) + 1
         /\ \A state : state \notin {from, to} => Cardinality(In(state))' = Cardinality(In(state))
<1>1. \A state : IsFiniteSet(In(state))
  BY FS_Subset DEF In
<1>2. /\ worker[w] = from /\ worker'[w] = to /\ from # to
      /\ \A v \in Workers \ {w} : worker'[v] = worker[v]
  BY DEF TypeOK, Turns
<1>3. In(from)' = In(from) \ {w} /\ w \in In(from)
  BY <1>2 DEF In
<1>4. In(to)' = In(to) \cup {w} /\ w \notin In(to)
  BY <1>2 DEF In
<1>5. \A state : state \notin {from, to} => In(state)' = In(state)
  BY <1>2 DEF In
<1>6. Cardinality(In(from) \ {w}) = Cardinality(In(from)) - 1
  BY <1>1, <1>3, FS_RemoveElement
<1>7. Cardinality(In(to) \cup {w}) = Cardinality(In(to)) + 1
  BY <1>1, <1>4, FS_AddElement
<1> QED BY <1>3, <1>4, <1>5, <1>6, <1>7

LEMMA StepsType ==
  ASSUME IsFiniteSet(Workers), IsFiniteSet(Tasks), TypeOK
  PROVE  /\ IsFiniteSet(todo) /\ Cardinality(todo) \in Nat
         /\ Offers \in 0..2
         /\ \A state : Cardinality(In(state)) \in Nat
         /\ StepsLeft \in Nat
<1>1. IsFiniteSet(todo) /\ Cardinality(todo) \in Nat
  BY FS_Subset, FS_CardinalityType DEF TypeOK
<1>2. \A state : Cardinality(In(state)) \in Nat
  BY FS_Subset, FS_CardinalityType DEF In
<1>3. Offers \in 0..2
  BY DEF Offers
<1> QED BY <1>1, <1>2, <1>3 DEF StepsLeft

\* A step of a worker that hands nothing out moves that worker only.
LEMMA WorkerStepsCount ==
  ASSUME IsFiniteSet(Workers), IsFiniteSet(Tasks), TypeOK, NEW w \in Workers,
         Process(w) \/ Send(w) \/ WorkerEnds(w)
  PROVE  StepsLeft' < StepsLeft
<1>1. UNCHANGED <<todo, Offers, resultsClosed, returned>>
  BY DEF Process, Send, WorkerEnds, Offers
<1>2. ASSUME NEW from, NEW to, Turns(w, from, to),
             \/ from = "busy" /\ to = "sending"
             \/ from \in {"idle", "sending"} /\ to \in {"idle", "ended"}
      PROVE  StepsLeft' < StepsLeft
  <2> DEFINE In3 == 3 * Cardinality(In("busy")) + 2 * Cardinality(In("sending")) + Cardinality(In("idle"))
  <2>1. /\ from # to
        /\ Cardinality(In(from))' = Cardinality(In(from)) - 1
        /\ Cardinality(In(to))' = Cardinality(In(to)) + 1
        /\ \A state : state \notin {from, to} => Cardinality(In(state))' = Cardinality(In(state))
    <3>1. from # to
      BY <1>2 DEF Turns
    <3> QED BY <1>2, <3>1, WorkerMoves
  <2>2. In3 \in Nat /\ In3' \in Int /\ In3' < In3
    <3>1. CASE from = "busy" /\ to = "sending"
      BY <2>1, <3>1, StepsType
    <3>2. CASE from = "sending" /\ to = "idle"
      BY <2>1, <3>2, StepsType
    <3>3. CASE from = "idle" /\ to = "ended"
      BY <2>1, <3>3, StepsType
    <3>4. CASE from = "sending" /\ to = "ended"
      BY <2>1, <3>4, StepsType
    <3>5. from # to
      BY <2>1
    <3> HIDE DEF In3
    <3> QED BY <1>2, <3>1, <3>2, <3>3, <3>4, <3>5
  <2>3. StepsLeft = 5 * Cardinality(todo) + Offers + In3
                    + (IF resultsClosed THEN 0 ELSE 1) + (IF returned = "no" THEN 1 ELSE 0)
    BY StepsType DEF StepsLeft
  <2>4. StepsLeft' = 5 * Cardinality(todo) + Offers + In3'
                     + (IF resultsClosed THEN 0 ELSE 1) + (IF returned = "no" THEN 1 ELSE 0)
    <3>1. /\ Cardinality(In("busy"))' \in Int /\ Cardinality(In("sending"))' \in Int
          /\ Cardinality(In("idle"))' \in Int
      BY <1>2, <2>1, StepsType
    <3> QED BY <1>1, <3>1, StepsType DEF StepsLeft
  <2> HIDE DEF In3
  <2> QED BY <2>2, <2>3, <2>4, StepsType
<1>3. CASE Process(w)
  <2>1. Turns(w, "busy", "sending")
    BY <1>3 DEF Process, Turns
  <2> QED BY <1>2, <2>1
<1>4. CASE Send(w)
  <2>1. Turns(w, "sending", "idle")
    BY <1>4 DEF Send, Turns
  <2> QED BY <1>2, <2>1
<1>5. CASE WorkerEnds(w)
  <2>1. Turns(w, "idle", "ended") \/ Turns(w, "sending", "ended")
    BY <1>5 DEF WorkerEnds, Turns
  <2> QED BY <1>2, <2>1
<1> QED BY <1>3, <1>4, <1>5

\* Every step of a goroutine is one of those that are left; the others leave
\* the number alone.
LEMMA StepCounts ==
  ASSUME IsFiniteSet(Workers), IsFiniteSet(Tasks), SafeInv, [Next]_vars
  PROVE  StepsLeft' < StepsLeft \/ (UNCHANGED poolVars /\ StepsLeft' = StepsLeft)
<1> USE DEF SafeInv
<1>1. ASSUME UNCHANGED <<todo, worker>>,
             \/ UNCHANGED <<resultsClosed, returned>> /\ Offers' < Offers
             \/ UNCHANGED <<dispatcher, returned>> /\ ~resultsClosed /\ resultsClosed'
             \/ UNCHANGED <<dispatcher, resultsClosed>> /\ returned = "no" /\ returned' # "no"
      PROVE  StepsLeft' < StepsLeft
  <2> DEFINE rest == 5 * Cardinality(todo) + 3 * Cardinality(In("busy"))
                     + 2 * Cardinality(In("sending")) + Cardinality(In("idle"))
             closing == IF resultsClosed THEN 0 ELSE 1
             returning == IF returned = "no" THEN 1 ELSE 0
  <2>1. rest \in Nat
    BY StepsType
  <2>2. StepsLeft = rest + (closing + returning + Offers)
    BY StepsType DEF StepsLeft
  <2>3. PICK o \in 0..2 : o = Offers'
    BY DEF Offers
  <2>4. PICK c \in 0..1, r \in 0..1 : c = closing' /\ r = returning'
    OBVIOUS
  <2>5. StepsLeft' = rest + (c + r + o)
    <3>1. /\ \A state : Cardinality(In(state))' = Cardinality(In(state))
          /\ Cardinality(todo)' = Cardinality(todo)
      BY <1>1 DEF In
    <3> QED BY <2>3, <2>4, <3>1, StepsType DEF StepsLeft
  <2>6. \/ c = closing /\ r = returning /\ o < Offers
        \/ c < closing /\ r = returning /\ o = Offers
        \/ c = closing /\ r < returning /\ o = Offers
    BY <1>1, <2>3, <2>4 DEF Offers
  <2>7. closing \in 0..1 /\ returning \in 0..1 /\ Offers \in 0..2
    BY DEF Offers
  <2>8. c + r + o < closing + returning + Offers
    <3> HIDE DEF closing, returning
    <3> QED BY <2>6, <2>7
  <2> HIDE DEF rest, closing, returning
  <2> QED BY <2>1, <2>2, <2>5, <2>7, <2>8
<1>2. CASE WaitIfPaused \/ DispatcherCancelled
  BY <1>1, <1>2 DEF WaitIfPaused, DispatcherCancelled, Offers
<1>3. ASSUME NEW w \in Workers, Dispatch(w) PROVE StepsLeft' < StepsLeft
  <2>1. PICK t \in todo : todo' = todo \ {t}
    BY <1>3 DEF Dispatch
  <2>2. Cardinality(todo)' = Cardinality(todo) - 1
    BY <2>1, StepsType, FS_RemoveElement
  <2>3. Turns(w, "idle", "busy")
    BY <1>3 DEF Dispatch, Turns
  <2>4. /\ Cardinality(In("idle"))' = Cardinality(In("idle")) - 1
        /\ Cardinality(In("busy"))' = Cardinality(In("busy")) + 1
        /\ Cardinality(In("sending"))' = Cardinality(In("sending"))
    BY <2>3, WorkerMoves
  <2>5. Offers = 1 /\ Offers' = 2 /\ UNCHANGED <<resultsClosed, returned>>
    BY <1>3 DEF Dispatch, Offers
  <2> QED BY <2>2, <2>4, <2>5, StepsType DEF StepsLeft
<1>4. ASSUME NEW w \in Workers, Process(w) \/ Send(w) \/ WorkerEnds(w)
      PROVE  StepsLeft' < StepsLeft
  BY <1>4, WorkerStepsCount
<1>5. CASE CloseResults
  <2>1. UNCHANGED <<todo, worker, dispatcher, returned>> /\ ~resultsClosed /\ resultsClosed'
    BY <1>5 DEF CloseResults
  <2> QED BY <1>1, <2>1
<1>6. CASE CollectorStep
  <2>1. UNCHANGED <<todo, worker, dispatcher, resultsClosed>> /\ returned = "no" /\ returned' # "no"
    BY <1>6 DEF CollectorStep, ReturnResults, ReturnError
  <2> QED BY <1>1, <2>1
<1>7. CASE Pause \/ Resume \/ Cancel \/ UNCHANGED vars
  <2>1. UNCHANGED poolVars
    BY <1>7 DEF Pause, Resume, Cancel, vars
  <2>2. StepsLeft' = StepsLeft
    BY <2>1 DEF poolVars, StepsLeft, Offers, In
  <2> QED BY <2>1, <2>2
<1> QED BY <1>2, <1>3, <1>4, <1>5, <1>6, <1>7 DEF Next, DispatcherStep, WorkerStep

\* A pool that is paused and resumed, cancelled or left alone has only so many
\* steps before it: none of its goroutines runs in a circle.
THEOREM StepsEnd ==
  IsFiniteSet(Workers) /\ IsFiniteSet(Tasks) /\ Spec => StepsRunOut /\ []StepsBounded
<1> SUFFICES ASSUME IsFiniteSet(Workers), IsFiniteSet(Tasks)
             PROVE  Spec => StepsRunOut /\ []StepsBounded
  OBVIOUS
<1> DEFINE all == 5 * Cardinality(Tasks) + Cardinality(Workers) + 4
<1>1. Init => StepsLeft = all
  <2> SUFFICES ASSUME Init PROVE StepsLeft = all
    OBVIOUS
  <2>1. In("idle") = Workers /\ In("busy") = {} /\ In("sending") = {}
    BY DEF Init, In
  <2>2. /\ Cardinality(In("idle")) = Cardinality(Workers) /\ Cardinality(Workers) \in Nat
        /\ Cardinality(In("busy")) = 0 /\ Cardinality(In("sending")) = 0
    BY <2>1, FS_EmptySet, FS_CardinalityType
  <2>3. Cardinality(todo) = Cardinality(Tasks) /\ Cardinality(Tasks) \in Nat /\ Offers = 2
    BY FS_CardinalityType DEF Init, Offers
  <2>4. ~resultsClosed /\ returned = "no"
    BY DEF Init
  <2> QED BY <2>2, <2>3, <2>4 DEF StepsLeft
<1>2. all \in Nat
  BY FS_CardinalityType
<1>3. Init => StepsBounded
  <2> HIDE DEF all
  <2>1. Init => StepsLeft \in 0..all
    BY <1>1, <1>2
  <2> QED BY <2>1 DEF StepsBounded, all
<1>4. IInv => StepsLeft \in Nat
  BY StepsType DEF IInv, SafeInv
<1>6. IInv /\ (StepsLeft \in Nat)' /\ StepsBounded /\ [Next]_vars => StepsBounded'
  <2> SUFFICES ASSUME IInv, (StepsLeft \in Nat)', StepsBounded, [Next]_vars PROVE StepsBounded'
    OBVIOUS
  <2> HIDE DEF all
  <2>1. StepsLeft' < StepsLeft \/ StepsLeft' = StepsLeft
    BY StepCounts DEF IInv
  <2>2. StepsLeft \in 0..all
    BY DEF StepsBounded, all
  <2>3. StepsLeft' \in 0..all
    BY <1>2, <2>1, <2>2
  <2> QED BY <2>3 DEF StepsBounded, all
<1>5. IInv /\ [Next]_vars => [poolVars' # poolVars => StepsLeft' < StepsLeft]_vars
  BY StepCounts DEF IInv
<1> QED BY <1>3, <1>4, <1>5, <1>6, Invariance, PTL DEF Spec, StepsRunOut

=============================================================================
