-------------------------- MODULE JobManagerProofs --------------------------
(***************************************************************************)
(* Proofs about JobManager, for every set of jobs, every queue capacity    *)
(* and every pruning limit.                                                *)
(***************************************************************************)
EXTENDS JobManager, SequenceTheorems, TLAPS

(***************************************************************************)
(* The inductive invariant. The named properties are not inductive: that a *)
(* wake-up is never lost needs the pause channel to exist exactly while a  *)
(* job is paused, that live jobs are known needs `ended` to hold terminal  *)
(* jobs only, and so on.                                                   *)
(***************************************************************************)
PauseInv == \A j \in Jobs : pause[j] # 0 => status[j] = "paused"

CancelInv ==
  /\ \A j \in stopping : cancelled[j] /\ status[j] # "none"
  /\ \A j \in Jobs : status[j] \in Terminal => cancelled[j]

KnownInv ==
  /\ \A i \in 1..Len(ended) : status[ended[i]] \in Terminal
  /\ \A j \in Jobs : enqueue[j] = "none" <=> status[j] = "none"
  /\ \A j \in Jobs : status[j] = "none" \/ status[j] \in Terminal \/ j \in jobs
  /\ \A j \in jobs : status[j] # "none"

\* Who holds a job: the channel, the queue goroutine, or nobody any more.
QueueInv ==
  /\ \A i \in 1..Len(work) :
       enqueue[work[i]] = "sent" /\ run[work[i]] = "idle" /\ ~finished[work[i]]
  /\ \A i, k \in 1..Len(work) : i # k => work[i] # work[k]
  /\ queue \in {"running", "finishing", "after"} => current \in Jobs
  /\ queue \in {"running", "finishing"} =>
       /\ ~finished[current]
       /\ enqueue[current] = "sent"
       /\ \A i \in 1..Len(work) : work[i] # current
  /\ queue = "running" => Executing(current)
  /\ queue = "finishing" => run[current] \in {"idle", "returned"} /\ status[current] \in Terminal
  /\ \A j \in Jobs : Executing(j) => queue = "running" /\ j = current
  /\ \A j \in Jobs : enqueue[j] # "sent" => run[j] = "idle" /\ ~finished[j]

StatusInv ==
  \A j \in Jobs :
    /\ run[j] = "idle" => status[j] \notin {"running", "paused"}
    /\ run[j] = "body" => status[j] \notin {"none", "queued"}
    /\ run[j] \in {"tail", "returned"} => status[j] \in Terminal

ExitInv ==
  /\ http = "open" => shutdown = "idle"
  /\ shutdown = "returned" => queue = "exited"
  /\ http = "drained" => ~InFlight
  /\ http = "drained" /\ shutdown \notin {"idle", "closed"} =>
       \A j \in Jobs : status[j] # "none" => cancelled[j]

IInv == TypeOK /\ PauseInv /\ CancelInv /\ KnownInv /\ QueueInv /\ StatusInv /\ ExitInv

-----------------------------------------------------------------------------
\* The parts of a step that several actions share.
LEMMA TerminateType ==
  ASSUME TypeOK, NEW j \in Jobs, NEW to \in Terminal, Terminate(j, to)
  PROVE  /\ status' \in [Jobs -> Statuses]
         /\ pause' \in [Jobs -> Nat]
         /\ ended' \in Seq(Jobs)
<1>1. CASE status[j] \in Terminal
  BY <1>1 DEF Terminate, TypeOK
<1>2. CASE status[j] \notin Terminal
  <2>1. /\ status' = [status EXCEPT ![j] = to]
        /\ pause' = [pause EXCEPT ![j] = 0]
        /\ ended' = Append(ended, j)
    BY <1>2, Zenon DEF Terminate, ResumeLocked
  <2>2. ended' \in Seq(Jobs)
    BY <2>1, AppendProperties, Zenon DEF TypeOK
  <2>3. to \in Statuses
    BY DEF Statuses
  <2> QED BY <2>1, <2>2, <2>3 DEF TypeOK
<1> QED BY <1>1, <1>2

LEMMA PruneType ==
  ASSUME TypeOK, PruneCompleted
  PROVE  /\ jobs' \subseteq jobs
         /\ ended' \in Seq(Jobs)
         /\ log' \in [Jobs -> {"absent", "open", "closed", "removed"}]
         /\ \A i \in 1..Len(ended') : \E k \in 1..Len(ended) : ended'[i] = ended[k]
         /\ \A j \in jobs \ jobs' : \E k \in 1..Len(ended) : j = ended[k]
<1>1. PICK drop \in Nat :
        /\ drop <= Len(ended)
        /\ ended' = SubSeq(ended, drop + 1, Len(ended))
        /\ jobs' = jobs \ {ended[i] : i \in 1..drop}
        /\ Dispose({ended[i] : i \in 1..drop})
  <2>1. Len(ended) \in Nat
    BY LenProperties DEF TypeOK
  <2>2. Excess \in Nat /\ Excess <= Len(ended)
    BY <2>1, BoundsAssumption DEF Excess
  <2>3. PICK drop \in Excess..(IF Retention THEN Len(ended) ELSE Excess) :
          /\ ended' = SubSeq(ended, drop + 1, Len(ended))
          /\ jobs' = jobs \ {ended[i] : i \in 1..drop}
          /\ Dispose({ended[i] : i \in 1..drop})
    BY Zenon DEF PruneCompleted
  <2>4. drop \in Nat /\ drop <= Len(ended)
    BY <2>1, <2>2, BoundsAssumption
  <2> QED BY <2>3, <2>4, Zenon
<1>2. log' \in [Jobs -> {"absent", "open", "closed", "removed"}]
  BY <1>1 DEF Dispose, TypeOK
<1>3. \A i \in drop + 1 .. Len(ended) : ended[i] \in Jobs
  <2> TAKE i \in drop + 1 .. Len(ended)
  <2>1. i \in 1..Len(ended)
    BY <1>1, LenProperties DEF TypeOK
  <2> QED BY <2>1, ElementOfSeq DEF TypeOK
<1>4. /\ ended' \in Seq(Jobs)
      /\ Len(ended') = IF drop + 1 <= Len(ended) THEN Len(ended) - (drop + 1) + 1 ELSE 0
      /\ \A i \in 1..(Len(ended) - (drop + 1) + 1) : ended'[i] = ended[drop + 1 + i - 1]
  BY <1>1, <1>3, SubSeqProperties, LenProperties DEF TypeOK
<1>5. \A i \in 1..Len(ended') : \E k \in 1..Len(ended) : ended'[i] = ended[k]
  <2> TAKE i \in 1..Len(ended')
  <2>1. drop + i \in 1..Len(ended) /\ ended'[i] = ended[drop + i]
    BY <1>4, LenProperties DEF TypeOK
  <2> QED BY <2>1
<1> QED BY <1>1, <1>2, <1>4, <1>5

LEMMA HeadTailWork ==
  ASSUME TypeOK, work # <<>>
  PROVE  /\ Head(work) \in Jobs
         /\ Tail(work) \in Seq(Jobs)
         /\ Len(work) \in Nat \ {0}
         /\ Head(work) = work[1]
         /\ Len(Tail(work)) = Len(work) - 1
         /\ \A i \in 1..Len(Tail(work)) : i + 1 \in 1..Len(work) /\ Tail(work)[i] = work[i + 1]
BY HeadTailProperties, EmptySeq, LenProperties DEF TypeOK

LEMMA HeadOfWork ==
  ASSUME IInv, work # <<>>
  PROVE  /\ Head(work) \in Jobs
         /\ enqueue[Head(work)] = "sent"
         /\ run[Head(work)] = "idle"
         /\ ~finished[Head(work)]
         /\ status[Head(work)] \in {"queued"} \cup Terminal
<1>1. Head(work) \in Jobs /\ Head(work) = work[1] /\ 1 \in 1..Len(work)
  BY HeadTailWork DEF IInv
<1>2. enqueue[Head(work)] = "sent" /\ run[Head(work)] = "idle" /\ ~finished[Head(work)]
  BY <1>1 DEF IInv, QueueInv
<1>3. status[Head(work)] \notin {"none", "running", "paused"}
  BY <1>1, <1>2 DEF IInv, KnownInv, StatusInv
<1> QED BY <1>1, <1>2, <1>3 DEF IInv, TypeOK, Statuses

-----------------------------------------------------------------------------
LEMMA TypeStep == TypeOK /\ [Next]_vars => TypeOK'
<1> SUFFICES ASSUME TypeOK, [Next]_vars PROVE TypeOK'
  OBVIOUS
<1>1. ASSUME NEW j \in Jobs, Handler(j) PROVE TypeOK'
  <2>1. CASE Create(j)
    BY <2>1 DEF Create, Alive, TypeOK, Statuses, queueVars
  <2>2. CASE InitLogFile(j)
    BY <2>2 DEF InitLogFile, Alive, TypeOK, queueVars, mapVars
  <2>3. CASE Send(j)
    BY <2>3 DEF Send, Alive, TypeOK, queueVars, mapVars, jobVars
  <2>4. CASE Pause(j)
    <3>1. UNCHANGED <<jobs, ended, work, enqueue, cancelled, waiting, finished, log, stopping,
                      queue, current, run, http, shutdown>>
      BY <2>4 DEF Pause, Alive, queueVars, mapVars, callVars, exitVars
    <3>2. /\ status' = [status EXCEPT ![j] = "paused"]
          /\ pauses' = [pauses EXCEPT ![j] = @ + 1]
          /\ pause' = [pause EXCEPT ![j] = pauses'[j]]
      BY <2>4 DEF Pause
    <3>3. /\ status' \in [Jobs -> Statuses]
          /\ pauses' \in [Jobs -> Nat]
      BY <3>2 DEF TypeOK, Statuses
    <3>4. pause' \in [Jobs -> Nat]
      BY <3>2, <3>3 DEF TypeOK
    <3> QED BY <3>1, <3>3, <3>4 DEF TypeOK, Statuses
  <2>5. CASE Resume(j)
    BY <2>5 DEF Resume, ResumeLocked, Alive, TypeOK, Statuses, queueVars, mapVars, callVars
  <2>6. CASE StopCancel(j)
    BY <2>6 DEF StopCancel, Alive, TypeOK, queueVars, mapVars
  <2>7. CASE StopCommit(j)
    BY <2>7, TerminateType DEF StopCommit, Terminal, Alive, TypeOK, queueVars
  <2> QED BY <1>1, <2>1, <2>2, <2>3, <2>4, <2>5, <2>6, <2>7 DEF Handler
<1>2. ASSUME NEW j \in Jobs, RunFunction(j) PROVE TypeOK'
  <2>1. CASE WaitIfPaused(j)
    BY <2>1 DEF WaitIfPaused, Alive, TypeOK, queueVars, mapVars, callVars
  <2>2. CASE Wake(j)
    BY <2>2 DEF Wake, Alive, TypeOK, queueVars, mapVars, callVars
  <2>3. ASSUME NEW to \in Terminal, RunEnds(j, to) PROVE TypeOK'
    <3>1. cancelled' \in [Jobs -> BOOLEAN]
      BY <2>3 DEF RunEnds, TypeOK
    <3> QED BY <2>3, <3>1, TerminateType DEF RunEnds, Alive, TypeOK, callVars
  <2>4. CASE RunReturns(j)
    BY <2>4 DEF RunReturns, Alive, TypeOK, mapVars, callVars, jobVars
  <2> QED BY <1>2, <2>1, <2>2, <2>3, <2>4
          DEF RunFunction, RunCompletes, RunFails, RunCancelled, Terminal
<1>3. CASE GetOrList
  BY <1>3, PruneType DEF GetOrList, Alive, TypeOK, callVars, queueVars
<1>4. CASE QueueStep
  <2>1. CASE TakeWork
    BY <2>1, HeadTailWork DEF TakeWork, Alive, TypeOK, Statuses, mapVars, callVars
  <2>2. CASE QueueExit
    BY <2>2 DEF QueueExit, Alive, TypeOK, mapVars, callVars, jobVars
  <2>3. CASE Finish
    BY <2>3 DEF Finish, Alive, TypeOK, mapVars, callVars
  <2>4. CASE AfterWork
    BY <2>4, PruneType DEF AfterWork, Alive, TypeOK, callVars
  <2> QED BY <1>4, <2>1, <2>2, <2>3, <2>4 DEF QueueStep
<1>5. CASE ExitStep
  BY <1>5 DEF ExitStep, HTTPShutdown, CloseDone, CancelAll, ShutdownReturns,
              TypeOK, jobVars, mapVars, queueVars, callVars
<1>6. CASE UNCHANGED vars
  BY <1>6 DEF vars, jobVars, mapVars, queueVars, callVars, exitVars, TypeOK
<1> QED BY <1>1, <1>2, <1>3, <1>4, <1>5, <1>6 DEF Next

\* Every variable keeps its type in every reachable state.
THEOREM TypeCorrect == Spec => []TypeOK
<1>1. Init => TypeOK
  BY DEF Init, TypeOK, Statuses
<1> QED BY <1>1, TypeStep, PTL DEF Spec

-----------------------------------------------------------------------------
LEMMA TerminateCases ==
  ASSUME NEW j \in Jobs, NEW to, Terminate(j, to)
  PROVE  \/ /\ status[j] \in Terminal
            /\ status' = status /\ pause' = pause /\ ended' = ended
         \/ /\ status[j] \notin Terminal
            /\ status' = [status EXCEPT ![j] = to]
            /\ pause' = [pause EXCEPT ![j] = 0]
            /\ ended' = Append(ended, j)
BY Zenon DEF Terminate, ResumeLocked

\* A pause channel exists only while its job is paused.
LEMMA PauseStep == IInv /\ [Next]_vars => PauseInv'
<1> SUFFICES ASSUME IInv, [Next]_vars PROVE PauseInv'
  OBVIOUS
<1> USE DEF IInv, TypeOK, PauseInv
<1>1. ASSUME NEW j \in Jobs, Handler(j) PROVE PauseInv'
  <2>1. CASE Create(j)
    BY <2>1 DEF Create, KnownInv
  <2>2. CASE InitLogFile(j) \/ Send(j) \/ StopCancel(j)
    BY <2>2 DEF InitLogFile, Send, StopCancel, jobVars
  <2>3. CASE Pause(j)
    BY <2>3 DEF Pause
  <2>4. CASE Resume(j)
    BY <2>4 DEF Resume, ResumeLocked
  <2>5. CASE StopCommit(j)
    BY <2>5, TerminateCases DEF StopCommit
  <2> QED BY <1>1, <2>1, <2>2, <2>3, <2>4, <2>5 DEF Handler
<1>2. ASSUME NEW j \in Jobs, RunFunction(j) PROVE PauseInv'
  <2>1. CASE WaitIfPaused(j) \/ Wake(j) \/ RunReturns(j)
    BY <2>1 DEF WaitIfPaused, Wake, RunReturns, jobVars
  <2>2. ASSUME NEW to \in Terminal, RunEnds(j, to) PROVE PauseInv'
    BY <2>2, TerminateCases DEF RunEnds
  <2> QED BY <1>2, <2>1, <2>2 DEF RunFunction, RunCompletes, RunFails, RunCancelled, Terminal
<1>3. CASE TakeWork
  <2> DEFINE h == Head(work)
  <2>1. h \in Jobs /\ run[h] = "idle"
    BY <1>3, HeadOfWork DEF TakeWork
  <2>2. /\ pause' = pause
        /\ status' = status \/ status' = [status EXCEPT ![h] = "running"]
    BY <1>3 DEF TakeWork
  <2>3. pause[h] = 0
    BY <2>1 DEF StatusInv
  <2> HIDE DEF h
  <2> QED BY <2>1, <2>2, <2>3
<1>4. CASE GetOrList \/ QueueExit \/ Finish \/ AfterWork \/ ExitStep \/ UNCHANGED vars
  BY <1>4 DEF GetOrList, QueueExit, Finish, AfterWork, ExitStep, HTTPShutdown, CloseDone,
              CancelAll, ShutdownReturns, vars, jobVars
<1> QED BY <1>1, <1>2, <1>3, <1>4 DEF Next, QueueStep

\* A job is cancelled before it ends, and by Stop before Stop ends it.
LEMMA CancelStep == IInv /\ [Next]_vars => CancelInv'
<1> SUFFICES ASSUME IInv, [Next]_vars PROVE CancelInv'
  OBVIOUS
<1> USE DEF IInv, TypeOK, CancelInv
<1>1. ASSUME NEW j \in Jobs, Handler(j) PROVE CancelInv'
  <2>1. CASE Create(j)
    BY <2>1 DEF Create, KnownInv, Terminal
  <2>2. CASE InitLogFile(j) \/ Send(j)
    BY <2>2 DEF InitLogFile, Send, jobVars
  <2>3. CASE Pause(j) \/ Resume(j)
    BY <2>3 DEF Pause, Resume, callVars, Terminal
  <2>4. CASE StopCancel(j)
    BY <2>4 DEF StopCancel, KnownInv
  <2>5. CASE StopCommit(j)
    <3>1. j \in stopping /\ stopping' = stopping \ {j} /\ cancelled' = cancelled
      BY <2>5 DEF StopCommit
    <3>2. status' = status \/ status' = [status EXCEPT ![j] = "stopped"]
      BY <2>5, TerminateCases DEF StopCommit
    <3>3. \A k \in Jobs : k # j => status'[k] = status[k]
      BY <3>2
    <3>4. status'[j] # "none"
      BY <3>1, <3>2
    <3> QED BY <3>1, <3>3, <3>4
  <2> QED BY <1>1, <2>1, <2>2, <2>3, <2>4, <2>5 DEF Handler
<1>2. ASSUME NEW j \in Jobs, RunFunction(j) PROVE CancelInv'
  <2>1. CASE WaitIfPaused(j) \/ Wake(j) \/ RunReturns(j)
    BY <2>1 DEF WaitIfPaused, Wake, RunReturns, jobVars, callVars
  <2>2. ASSUME NEW to \in Terminal, RunEnds(j, to) PROVE CancelInv'
    <3>1. /\ \A i \in Jobs : cancelled[i] => cancelled'[i]
          /\ cancelled'[j]
      BY <2>2 DEF RunEnds
    <3> QED BY <2>2, <3>1, TerminateCases DEF RunEnds, callVars, Terminal
  <2> QED BY <1>2, <2>1, <2>2 DEF RunFunction, RunCompletes, RunFails, RunCancelled, Terminal
<1>3. CASE TakeWork
  <2> DEFINE h == Head(work)
  <2>1. h \in Jobs
    BY <1>3, HeadTailWork DEF TakeWork
  <2>2. /\ cancelled' = cancelled /\ stopping' = stopping
        /\ status' = status \/ status' = [status EXCEPT ![h] = "running"]
    BY <1>3 DEF TakeWork, callVars
  <2> HIDE DEF h
  <2> QED BY <2>1, <2>2 DEF Terminal
<1>4. CASE CancelAll
  BY <1>4 DEF CancelAll, callVars
<1>5. CASE GetOrList \/ QueueExit \/ Finish \/ AfterWork \/ HTTPShutdown \/ CloseDone
        \/ ShutdownReturns \/ UNCHANGED vars
  BY <1>5 DEF GetOrList, QueueExit, Finish, AfterWork, HTTPShutdown, CloseDone,
              ShutdownReturns, vars, jobVars, callVars
<1> QED BY <1>1, <1>2, <1>3, <1>4, <1>5 DEF Next, QueueStep, ExitStep

\* Only terminal jobs are in `ended`, so pruning never forgets a live one.
LEMMA PruneKnown ==
  ASSUME IInv, PruneCompleted, status' = status, enqueue' = enqueue
  PROVE  KnownInv'
<1> USE DEF IInv, KnownInv
<1>1. \A i \in 1..Len(ended') : status'[ended'[i]] \in Terminal
  BY PruneType
<1>2. \A j \in jobs \ jobs' : status'[j] \in Terminal
  BY PruneType
<1>3. jobs' \subseteq jobs /\ jobs \subseteq Jobs
  BY PruneType DEF TypeOK
<1> QED BY <1>1, <1>2, <1>3

LEMMA TerminateKnown ==
  ASSUME IInv, NEW j \in Jobs, NEW to \in Terminal, Terminate(j, to), status[j] # "none",
         jobs' = jobs, enqueue' = enqueue
  PROVE  KnownInv'
<1> USE DEF IInv, KnownInv, TypeOK
<1>1. CASE status' = status /\ ended' = ended
  BY <1>1
<1>2. CASE status' = [status EXCEPT ![j] = to] /\ ended' = Append(ended, j)
  <2>1. /\ Len(ended) \in Nat
        /\ Len(ended') = Len(ended) + 1
        /\ \A i \in 1..Len(ended) : ended'[i] = ended[i] /\ ended[i] \in Jobs
        /\ ended'[Len(ended) + 1] = j
    BY <1>2, AppendProperties, LenProperties, ElementOfSeq
  <2>2. \A i \in Jobs : status'[i] = IF i = j THEN to ELSE status[i]
    BY <1>2
  <2>3. ASSUME NEW i \in 1..Len(ended') PROVE status'[ended'[i]] \in Terminal
    <3>1. CASE i = Len(ended) + 1
      BY <2>1, <2>2, <3>1
    <3>2. CASE i \in 1..Len(ended)
      <4>1. ended'[i] = ended[i] /\ ended[i] \in Jobs /\ status[ended[i]] \in Terminal
        BY <2>1, <3>2
      <4> QED BY <2>2, <4>1
    <3> QED BY <2>1, <3>1, <3>2
  <2>4. to # "none"
    BY DEF Terminal
  <2> QED BY <2>2, <2>3, <2>4
<1> QED BY <1>1, <1>2, TerminateCases

LEMMA KnownStep == IInv /\ [Next]_vars => KnownInv'
<1> SUFFICES ASSUME IInv, [Next]_vars PROVE KnownInv'
  OBVIOUS
<1> USE DEF IInv
<1>1. ASSUME NEW j \in Jobs, Handler(j) PROVE KnownInv'
  <2>1. CASE Create(j)
    <3>1. /\ status[j] = "none"
          /\ status' = [status EXCEPT ![j] = "queued"]
          /\ jobs' = jobs \cup {j} /\ ended' = ended
          /\ enqueue' = [enqueue EXCEPT ![j] = "created"]
      BY <2>1 DEF Create, KnownInv
    <3>2. \A i \in 1..Len(ended) : ended[i] \in Jobs
      BY ElementOfSeq DEF TypeOK
    <3> QED BY <3>1, <3>2 DEF KnownInv, TypeOK, Terminal
  <2>2. CASE InitLogFile(j) \/ Send(j)
    BY <2>2 DEF InitLogFile, Send, jobVars, mapVars, KnownInv, TypeOK
  <2>3. CASE Pause(j) \/ Resume(j)
    <3>1. /\ status[j] \in {"running", "paused"}
          /\ \E t \in {"running", "paused"} : status' = [status EXCEPT ![j] = t]
          /\ jobs' = jobs /\ ended' = ended /\ enqueue' = enqueue
      BY <2>3 DEF Pause, Resume, mapVars, callVars
    <3>2. \A i \in 1..Len(ended) : ended[i] \in Jobs
      BY ElementOfSeq DEF TypeOK
    <3>3. /\ status'[j] \in {"running", "paused"}
          /\ \A i \in Jobs : i # j => status'[i] = status[i]
      BY <3>1 DEF TypeOK
    <3>4. j \in jobs /\ jobs \subseteq Jobs
      BY <3>1 DEF KnownInv, TypeOK, Terminal
    <3>5. \A i \in 1..Len(ended') : status'[ended'[i]] \in Terminal
      BY <3>1, <3>2, <3>3 DEF KnownInv, Terminal
    <3> QED BY <3>1, <3>3, <3>4, <3>5 DEF KnownInv
  <2>4. CASE StopCancel(j)
    BY <2>4 DEF StopCancel, KnownInv, mapVars
  <2>5. CASE StopCommit(j)
    BY <2>5, TerminateKnown DEF StopCommit, CancelInv, Terminal
  <2> QED BY <1>1, <2>1, <2>2, <2>3, <2>4, <2>5 DEF Handler
<1>2. ASSUME NEW j \in Jobs, RunFunction(j) PROVE KnownInv'
  <2>1. CASE WaitIfPaused(j) \/ Wake(j) \/ RunReturns(j)
    BY <2>1 DEF WaitIfPaused, Wake, RunReturns, jobVars, callVars, mapVars, KnownInv
  <2>2. ASSUME NEW to \in Terminal, RunEnds(j, to) PROVE KnownInv'
    BY <2>2, TerminateKnown DEF RunEnds, callVars, StatusInv
  <2> QED BY <1>2, <2>1, <2>2 DEF RunFunction, RunCompletes, RunFails, RunCancelled, Terminal
<1>3. CASE TakeWork
  <2>1. /\ status' = status \/ status' = [status EXCEPT ![Head(work)] = "running"]
        /\ status[Head(work)] \in Terminal => status' = status
        /\ jobs' = jobs /\ ended' = ended /\ enqueue' = enqueue
    BY <1>3 DEF TakeWork, mapVars, callVars
  <2>2. Head(work) \in Jobs /\ enqueue[Head(work)] = "sent"
    BY <1>3, HeadTailWork DEF TakeWork, QueueInv
  <2>3. status[Head(work)] # "none"
    BY <2>2 DEF KnownInv
  <2>4. \A i \in 1..Len(ended) : ended[i] \in Jobs
    BY ElementOfSeq DEF TypeOK
  <2>5. \A k \in Jobs : status'[k] = status[k] \/ (k = Head(work) /\ status'[k] = "running"
                                                 /\ status[k] \notin Terminal)
    BY <2>1, <2>2 DEF TypeOK
  <2>6. \A i \in 1..Len(ended) : status'[ended[i]] \in Terminal
    BY <2>4, <2>5 DEF KnownInv
  <2>7. \A k \in Jobs : (status'[k] = "none" <=> status[k] = "none")
                        /\ (status'[k] \in Terminal <=> status[k] \in Terminal)
    BY <2>2, <2>3, <2>5 DEF Terminal
  <2>8. jobs \subseteq Jobs
    BY DEF TypeOK
  <2> QED BY <2>1, <2>6, <2>7, <2>8 DEF KnownInv
<1>4. CASE GetOrList \/ AfterWork
  BY <1>4, PruneKnown DEF GetOrList, AfterWork, callVars
<1>5. CASE QueueExit \/ Finish \/ ExitStep \/ UNCHANGED vars
  BY <1>5 DEF QueueExit, Finish, ExitStep, HTTPShutdown, CloseDone, CancelAll,
              ShutdownReturns, vars, jobVars, callVars, mapVars, KnownInv
<1> QED BY <1>1, <1>2, <1>3, <1>4, <1>5 DEF Next, QueueStep

\* A job is in the channel, with the queue goroutine or done with, never in two
\* of these places, and executes only in the second.
LEMMA QueueUnchanged ==
  ASSUME QueueInv, work' = work, enqueue' = enqueue, finished' = finished, queue' = queue,
         current' = current, run' = run, \A j \in Jobs : status[j] \in Terminal => status'[j] \in Terminal
  PROVE  QueueInv'
BY DEF QueueInv, Executing

LEMMA TerminateKeepsTerminal ==
  ASSUME TypeOK, NEW j \in Jobs, NEW to \in Terminal, Terminate(j, to)
  PROVE  \A i \in Jobs : status[i] \in Terminal => status'[i] \in Terminal
BY TerminateCases DEF TypeOK

LEMMA QueueStepInv == IInv /\ [Next]_vars => QueueInv'
<1> SUFFICES ASSUME IInv, [Next]_vars PROVE QueueInv'
  OBVIOUS
<1> USE DEF IInv
<1>0. \A i \in 1..Len(work) : work[i] \in Jobs
  BY ElementOfSeq DEF TypeOK
<1>1. ASSUME NEW j \in Jobs, Handler(j) PROVE QueueInv'
  <2>1. CASE Create(j) \/ InitLogFile(j)
    <3>1. /\ enqueue[j] # "sent"
          /\ enqueue' \in [Jobs -> {"none", "created", "sending", "sent"}]
          /\ \A i \in Jobs : i # j => enqueue'[i] = enqueue[i]
          /\ work' = work /\ finished' = finished /\ queue' = queue
          /\ current' = current /\ run' = run
      BY <2>1 DEF Create, InitLogFile, queueVars, TypeOK
    <3>2. \A i \in Jobs : status[i] \in Terminal => status'[i] \in Terminal
      BY <2>1 DEF Create, InitLogFile, KnownInv, Terminal, TypeOK
    <3>3. enqueue'[j] # "sent"
      BY <2>1 DEF Create, InitLogFile, TypeOK
    <3> QED BY <1>0, <3>1, <3>2, <3>3 DEF QueueInv, Executing
  <2>2. CASE Send(j)
    <3>1. /\ Len(work) \in Nat
          /\ Len(work') = Len(work) + 1
          /\ \A i \in 1..Len(work) : work'[i] = work[i]
          /\ work'[Len(work) + 1] = j
      BY <2>2, AppendProperties, LenProperties DEF Send, TypeOK
    <3>2. /\ enqueue[j] = "sending"
          /\ enqueue'[j] = "sent" /\ \A i \in Jobs : i # j => enqueue'[i] = enqueue[i]
          /\ status' = status /\ finished' = finished /\ queue' = queue
          /\ current' = current /\ run' = run
      BY <2>2 DEF Send, TypeOK, jobVars, queueVars
    <3>3. \A i \in 1..Len(work) : work[i] # j
      BY <3>2 DEF QueueInv
    <3>4. \A i \in 1..Len(work') :
            enqueue'[work'[i]] = "sent" /\ run'[work'[i]] = "idle" /\ ~finished'[work'[i]]
      <4> TAKE i \in 1..Len(work')
      <4>1. CASE i = Len(work) + 1
        BY <3>1, <3>2, <4>1 DEF QueueInv
      <4>2. CASE i \in 1..Len(work)
        BY <1>0, <3>1, <3>2, <3>3, <4>2 DEF QueueInv
      <4> QED BY <3>1, <4>1, <4>2
    <3>5. \A i, k \in 1..Len(work') : i # k => work'[i] # work'[k]
      BY <3>1, <3>3 DEF QueueInv
    <3>6. queue \in {"running", "finishing"} =>
            /\ current \in Jobs /\ current # j /\ enqueue'[current] = "sent"
            /\ \A i \in 1..Len(work') : work'[i] # current
      BY <3>1, <3>2 DEF QueueInv
    <3> QED BY <3>2, <3>4, <3>5, <3>6 DEF QueueInv, Executing
  <2>3. CASE Pause(j) \/ Resume(j)
    <3>1. \A i \in Jobs : status[i] \in Terminal => status'[i] \in Terminal
      BY <2>3 DEF Pause, Resume, TypeOK, Terminal
    <3> QED BY <2>3, <3>1, QueueUnchanged DEF Pause, Resume, queueVars, callVars
  <2>4. CASE StopCancel(j)
    BY <2>4, QueueUnchanged DEF StopCancel, queueVars
  <2>5. CASE StopCommit(j)
    BY <2>5, TerminateKeepsTerminal, QueueUnchanged DEF StopCommit, queueVars, Terminal
  <2> QED BY <1>1, <2>1, <2>2, <2>3, <2>4, <2>5 DEF Handler
<1>2. ASSUME NEW j \in Jobs, RunFunction(j) PROVE QueueInv'
  <2>1. CASE WaitIfPaused(j) \/ Wake(j)
    BY <2>1, QueueUnchanged DEF WaitIfPaused, Wake, queueVars, callVars
  <2>2. ASSUME NEW to \in Terminal, RunEnds(j, to) PROVE QueueInv'
    <3>1. queue = "running" /\ current = j /\ run' = [run EXCEPT ![j] = "tail"]
      BY <2>2 DEF RunEnds, QueueInv, Executing
    <3>2. \A i \in Jobs : status[i] \in Terminal => status'[i] \in Terminal
      BY <2>2, TerminateKeepsTerminal DEF RunEnds
    <3>3. work' = work /\ enqueue' = enqueue /\ finished' = finished /\ queue' = queue
            /\ current' = current
      BY <2>2 DEF RunEnds, callVars
    <3>4. /\ run'[j] = "tail" /\ Executing(j)'
          /\ \A i \in Jobs : i # j => run'[i] = run[i]
      BY <3>1 DEF TypeOK, Executing
    <3>5. enqueue[j] = "sent" /\ \A i \in 1..Len(work) : work[i] # j
      BY <3>1 DEF QueueInv
    <3>6. \A i \in 1..Len(work') :
            enqueue'[work'[i]] = "sent" /\ run'[work'[i]] = "idle" /\ ~finished'[work'[i]]
      BY <1>0, <3>3, <3>4, <3>5 DEF QueueInv
    <3>7. /\ \A i \in Jobs : Executing(i)' => queue' = "running" /\ i = current'
          /\ \A i \in Jobs : enqueue'[i] # "sent" => run'[i] = "idle" /\ ~finished'[i]
      BY <3>1, <3>3, <3>4, <3>5 DEF QueueInv, Executing
    <3> QED BY <3>1, <3>3, <3>4, <3>6, <3>7 DEF QueueInv
  <2>3. CASE RunReturns(j)
    <3>1. /\ queue = "running" /\ current = j /\ run[j] = "tail"
          /\ run' = [run EXCEPT ![j] = "returned"] /\ queue' = "finishing"
      BY <2>3 DEF RunReturns, QueueInv, Executing
    <3>2. work' = work /\ enqueue' = enqueue /\ finished' = finished /\ status' = status
            /\ current' = current
      BY <2>3 DEF RunReturns, callVars, jobVars
    <3>3. status[j] \in Terminal
      BY <3>1 DEF StatusInv
    <3>4. /\ run'[j] = "returned"
          /\ \A i \in Jobs : i # j => run'[i] = run[i]
      BY <3>1 DEF TypeOK
    <3>5. /\ enqueue[j] = "sent" /\ ~finished[j]
          /\ \A i \in 1..Len(work) : work[i] # j
      BY <3>1 DEF QueueInv
    <3>6. \A i \in 1..Len(work') :
            enqueue'[work'[i]] = "sent" /\ run'[work'[i]] = "idle" /\ ~finished'[work'[i]]
      BY <1>0, <3>2, <3>4, <3>5 DEF QueueInv
    <3>7. /\ \A i \in Jobs : ~Executing(i)'
          /\ \A i \in Jobs : enqueue'[i] # "sent" => run'[i] = "idle" /\ ~finished'[i]
      BY <3>1, <3>2, <3>4, <3>5 DEF QueueInv, Executing
    <3> QED BY <3>1, <3>2, <3>3, <3>4, <3>5, <3>6, <3>7 DEF QueueInv
  <2> QED BY <1>2, <2>1, <2>2, <2>3 DEF RunFunction, RunCompletes, RunFails, RunCancelled, Terminal
<1>3. CASE TakeWork
  <2> DEFINE h == Head(work)
  <2>1. /\ h \in Jobs /\ h = work[1] /\ 1 \in 1..Len(work) /\ Len(work) \in Nat
        /\ Len(work') = Len(work) - 1
        /\ \A i \in 1..Len(work') : i + 1 \in 1..Len(work) /\ work'[i] = work[i + 1]
    BY <1>3, HeadTailWork DEF TakeWork
  <2>2. enqueue[h] = "sent" /\ run[h] = "idle" /\ ~finished[h]
    BY <2>1 DEF QueueInv
  <2>3. \A i \in 1..Len(work') : work'[i] # h
    BY <2>1 DEF QueueInv
  <2>4. /\ current' = h /\ enqueue' = enqueue /\ finished' = finished /\ queue = "select"
        /\ \/ queue' = "finishing" /\ run' = run /\ status' = status /\ status[h] \in Terminal
           \/ queue' = "running" /\ run' = [run EXCEPT ![h] = "body"]
    BY <1>3 DEF TakeWork, callVars
  <2>5. \A i \in Jobs : ~Executing(i)
    BY <2>4 DEF QueueInv
  <2>6. \A i \in Jobs : i # h => run'[i] = run[i]
    BY <2>1, <2>4 DEF TypeOK
  <2>7. \A i \in 1..Len(work') : run'[work'[i]] = run[work[i + 1]] /\ work'[i] \in Jobs
    BY <1>0, <2>1, <2>3, <2>6
  <2>8. \A i \in 1..Len(work') :
          enqueue'[work'[i]] = "sent" /\ run'[work'[i]] = "idle" /\ ~finished'[work'[i]]
    BY <2>1, <2>4, <2>7 DEF QueueInv
  <2>9. \A i, k \in 1..Len(work') : i # k => work'[i] # work'[k]
    BY <2>1 DEF QueueInv
  <2>10. \A i \in Jobs : enqueue'[i] # "sent" => run'[i] = "idle" /\ ~finished'[i]
    BY <2>2, <2>4, <2>6 DEF QueueInv
  <2>11. CASE queue' = "finishing" /\ run' = run /\ status' = status /\ status[h] \in Terminal
    BY <2>1, <2>2, <2>3, <2>4, <2>5, <2>8, <2>9, <2>10, <2>11 DEF QueueInv, Executing
  <2>12. CASE queue' = "running" /\ run' = [run EXCEPT ![h] = "body"]
    <3>1. run'[h] \in {"body", "tail"}
      BY <2>1, <2>12 DEF TypeOK
    <3>2. \A i \in Jobs : run'[i] \in {"body", "tail"} => i = h
      BY <2>5, <2>6 DEF Executing
    <3> HIDE DEF h
    <3> QED BY <2>1, <2>2, <2>3, <2>4, <2>8, <2>9, <2>10, <2>12, <3>1, <3>2 DEF QueueInv, Executing
  <2> QED BY <2>4, <2>11, <2>12
<1>4. CASE Finish
  <2>1. /\ current \in Jobs /\ queue = "finishing"
        /\ finished' = [finished EXCEPT ![current] = TRUE]
        /\ queue' = IF run[current] = "returned" THEN "after" ELSE "select"
        /\ current' = IF run[current] = "returned" THEN current ELSE NoJob
        /\ work' = work /\ enqueue' = enqueue /\ run' = run /\ status' = status
    BY <1>4 DEF Finish, QueueInv, callVars
  <2>2. queue' \in {"after", "select"} /\ (queue' = "after" => current' = current)
    BY <2>1
  <2>3. /\ enqueue[current] = "sent"
        /\ \A i \in 1..Len(work) : work[i] # current
        /\ \A i \in Jobs : i # current => finished'[i] = finished[i]
    BY <2>1 DEF QueueInv, TypeOK
  <2>4. \A i \in Jobs : ~Executing(i)
    BY <2>1 DEF QueueInv
  <2> QED BY <1>0, <2>1, <2>2, <2>3, <2>4 DEF QueueInv, Executing
<1>5. CASE QueueExit \/ AfterWork
  BY <1>5 DEF QueueExit, AfterWork, callVars, jobVars, QueueInv, Executing
<1>6. CASE GetOrList \/ ExitStep \/ UNCHANGED vars
  <2>1. /\ work' = work /\ enqueue' = enqueue /\ finished' = finished /\ queue' = queue
        /\ current' = current /\ run' = run /\ status' = status
    BY <1>6 DEF GetOrList, ExitStep, HTTPShutdown, CloseDone, CancelAll,
                ShutdownReturns, vars, jobVars, callVars, queueVars
  <2> QED BY <2>1, QueueUnchanged
<1> QED BY <1>1, <1>2, <1>3, <1>4, <1>5, <1>6 DEF Next, QueueStep

LEMMA StatusStep == IInv /\ [Next]_vars => StatusInv'
<1> SUFFICES ASSUME IInv, [Next]_vars PROVE StatusInv'
  OBVIOUS
<1> USE DEF IInv, TypeOK, StatusInv
<1>1. ASSUME NEW j \in Jobs, Handler(j) PROVE StatusInv'
  <2>1. CASE Create(j)
    BY <2>1 DEF Create, KnownInv, QueueInv, queueVars
  <2>2. CASE InitLogFile(j) \/ Send(j) \/ StopCancel(j)
    <3>1. status' = status /\ run' = run
      BY <2>2 DEF InitLogFile, Send, StopCancel, queueVars, jobVars
    <3> QED BY <3>1
  <2>3. CASE Pause(j) \/ Resume(j)
    BY <2>3 DEF Pause, Resume, queueVars, Terminal
  <2>4. CASE StopCommit(j)
    <3>1. status' = status \/ status' = [status EXCEPT ![j] = "stopped"]
      BY <2>4, TerminateCases DEF StopCommit
    <3>2. run' = run
      BY <2>4 DEF StopCommit, queueVars
    <3> QED BY <3>1, <3>2 DEF Terminal
  <2> QED BY <1>1, <2>1, <2>2, <2>3, <2>4 DEF Handler
<1>2. ASSUME NEW j \in Jobs, RunFunction(j) PROVE StatusInv'
  <2>1. CASE WaitIfPaused(j) \/ Wake(j) \/ RunReturns(j)
    BY <2>1 DEF WaitIfPaused, Wake, RunReturns, queueVars, jobVars
  <2>2. ASSUME NEW to \in Terminal, RunEnds(j, to) PROVE StatusInv'
    BY <2>2, TerminateCases DEF RunEnds, Terminal
  <2> QED BY <1>2, <2>1, <2>2 DEF RunFunction, RunCompletes, RunFails, RunCancelled, Terminal
<1>3. CASE TakeWork
  <2> DEFINE h == Head(work)
  <2>1. h \in Jobs
    BY <1>3, HeadTailWork DEF TakeWork
  <2>2. \/ status' = status /\ run' = run
        \/ status' = [status EXCEPT ![h] = "running"] /\ run' = [run EXCEPT ![h] = "body"]
    BY <1>3 DEF TakeWork
  <2> HIDE DEF h
  <2>3. CASE status' = status /\ run' = run
    BY <2>3
  <2>4. CASE status' = [status EXCEPT ![h] = "running"] /\ run' = [run EXCEPT ![h] = "body"]
    BY <2>1, <2>4 DEF Terminal
  <2> QED BY <2>2, <2>3, <2>4
<1>4. CASE GetOrList \/ QueueExit \/ Finish \/ AfterWork \/ ExitStep \/ UNCHANGED vars
  BY <1>4 DEF GetOrList, QueueExit, Finish, AfterWork, ExitStep, HTTPShutdown, CloseDone,
              CancelAll, ShutdownReturns, vars, jobVars, queueVars
<1> QED BY <1>1, <1>2, <1>3, <1>4 DEF Next, QueueStep

LEMMA ExitStepInv == IInv /\ [Next]_vars => ExitInv'
<1> SUFFICES ASSUME IInv, [Next]_vars PROVE ExitInv'
  OBVIOUS
<1> USE DEF IInv, TypeOK, ExitInv
<1>1. ASSUME NEW j \in Jobs, Handler(j) PROVE ExitInv'
  <2>1. CASE Create(j) \/ Pause(j) \/ Resume(j) \/ StopCancel(j)
    BY <2>1 DEF Create, Pause, Resume, StopCancel, Alive, queueVars
  <2>2. CASE InitLogFile(j) \/ Send(j) \/ StopCommit(j)
    BY <2>2 DEF InitLogFile, Send, StopCommit, Alive, InFlight, queueVars
  <2> QED BY <1>1, <2>1, <2>2 DEF Handler
<1>2. ASSUME NEW j \in Jobs, RunFunction(j) PROVE ExitInv'
  <2>1. CASE WaitIfPaused(j) \/ Wake(j) \/ RunReturns(j)
    BY <2>1 DEF WaitIfPaused, Wake, RunReturns, Alive, InFlight, queueVars, jobVars, callVars
  <2>2. ASSUME NEW to \in Terminal, RunEnds(j, to) PROVE ExitInv'
    <3>1. \A i \in Jobs : cancelled[i] => cancelled'[i]
      BY <2>2 DEF RunEnds
    <3>2. \A i \in Jobs : status'[i] # "none" => status[i] # "none"
      BY <2>2, TerminateCases DEF RunEnds, StatusInv
    <3> QED BY <2>2, <3>1, <3>2 DEF RunEnds, Alive, InFlight, callVars
  <2> QED BY <1>2, <2>1, <2>2 DEF RunFunction, RunCompletes, RunFails, RunCancelled, Terminal
<1>3. CASE TakeWork
  <2>1. status[Head(work)] # "none"
    BY <1>3, HeadOfWork DEF TakeWork, IInv, Terminal
  <2>2. status' = status \/ status' = [status EXCEPT ![Head(work)] = "running"]
    BY <1>3 DEF TakeWork
  <2>3. \A i \in Jobs : status'[i] # "none" => status[i] # "none"
    <3> TAKE i \in Jobs
    <3>1. i # Head(work) => status'[i] = status[i]
      BY <2>2
    <3> QED BY <2>1, <3>1
  <2> QED BY <1>3, <2>3 DEF TakeWork, Alive, InFlight, callVars
<1>4. CASE GetOrList \/ QueueExit \/ Finish \/ AfterWork
  BY <1>4 DEF GetOrList, QueueExit, Finish, AfterWork, Alive, InFlight, queueVars, jobVars, callVars
<1>5. CASE CancelAll
  <2>1. \A j \in Jobs : status[j] # "none" => cancelled'[j]
    BY <1>5 DEF CancelAll, KnownInv, CancelInv
  <2> QED BY <1>5, <2>1 DEF CancelAll, InFlight, callVars
<1>6. CASE HTTPShutdown \/ CloseDone \/ ShutdownReturns \/ UNCHANGED vars
  BY <1>6 DEF HTTPShutdown, CloseDone, ShutdownReturns, InFlight, vars, exitVars, jobVars,
              queueVars, callVars
<1> QED BY <1>1, <1>2, <1>3, <1>4, <1>5, <1>6 DEF Next, QueueStep, ExitStep

\* The inductive invariant holds in every reachable state.
THEOREM Invariance == Spec => []IInv
<1>1. Init => IInv
  <2> SUFFICES ASSUME Init PROVE IInv
    OBVIOUS
  <2>1. TypeOK
    BY DEF Init, TypeOK, Statuses
  <2>2. Len(work) = 0 /\ Len(ended) = 0
    BY EmptySeq DEF Init
  <2> QED BY <2>1, <2>2 DEF Init, IInv, PauseInv, CancelInv, KnownInv, QueueInv, StatusInv,
                            ExitInv, InFlight, Executing, Terminal
<1>2. IInv /\ [Next]_vars => IInv'
  <2>1. TypeOK /\ [Next]_vars => TypeOK'
    BY TypeStep
  <2> QED BY <2>1, PauseStep, CancelStep, KnownStep, QueueStepInv, StatusStep, ExitStepInv
          DEF IInv
<1> QED BY <1>1, <1>2, PTL DEF Spec

\* A WaitIfPaused call is never left blocked on a channel that nobody will
\* close, whatever came between its unlock and its select.
THEOREM WakeupsArrive == Spec => []NoLostWakeup
<1>1. IInv => NoLostWakeup
  BY DEF IInv, NoLostWakeup, ChannelClosed, PauseInv
<1> QED BY <1>1, Invariance, PTL

\* A job that ended by Stop, Complete or Fail has a cancelled context.
THEOREM EndedAreCancelled == Spec => []TerminalJobsAreCancelled
<1>1. IInv => TerminalJobsAreCancelled
  BY DEF IInv, TerminalJobsAreCancelled, CancelInv
<1> QED BY <1>1, Invariance, PTL

\* Pruning never forgets a job that has not ended.
THEOREM LiveAreKnown == Spec => []LiveJobsAreKnown
<1>1. IInv => LiveJobsAreKnown
  BY DEF IInv, LiveJobsAreKnown, KnownInv
<1> QED BY <1>1, Invariance, PTL

\* When Shutdown returns nil no run function is half way.
THEOREM ExitIsClean == Spec => []CleanExit
<1>1. IInv => CleanExit
  BY DEF IInv, CleanExit, ExitInv, QueueInv
<1> QED BY <1>1, Invariance, PTL

\* A shutdown behind a drained server cancels every job that has not ended.
THEOREM DrainReachesAll == Spec => []DrainedShutdownReachesAllJobs
<1>1. IInv => DrainedShutdownReachesAllJobs
  BY DEF IInv, DrainedShutdownReachesAllJobs, ExitInv
<1> QED BY <1>1, Invariance, PTL

-----------------------------------------------------------------------------
(* What pruning forgets *)

\* `ended` lists jobs the manager still knows, each of them once.
OrderInv ==
  /\ \A i \in 1..Len(ended) : ended[i] \in jobs
  /\ \A i, k \in 1..Len(ended) : i # k => ended[i] # ended[k]

\* Pruning drops a prefix of `ended`, at least the excess, and nothing else.
LEMMA PrunePrefix ==
  ASSUME TypeOK, PruneCompleted
  PROVE  \E drop \in Nat :
           /\ drop <= Len(ended)
           /\ Len(ended) - drop <= MaxCompletedJobs
           /\ Len(ended') = Len(ended) - drop
           /\ \A i \in 1..Len(ended') : drop + i \in 1..Len(ended) /\ ended'[i] = ended[drop + i]
           /\ jobs' = jobs \ {ended[i] : i \in 1..drop}
<1>1. Len(ended) \in Nat
  BY LenProperties DEF TypeOK
<1>2. /\ Excess \in Nat /\ Excess <= Len(ended)
      /\ Len(ended) - Excess <= MaxCompletedJobs
  BY <1>1, BoundsAssumption DEF Excess
<1>3. PICK drop \in Excess..(IF Retention THEN Len(ended) ELSE Excess) :
        /\ ended' = SubSeq(ended, drop + 1, Len(ended))
        /\ jobs' = jobs \ {ended[i] : i \in 1..drop}
  BY Zenon DEF PruneCompleted
<1>4. drop \in Nat /\ drop <= Len(ended) /\ Len(ended) - drop <= MaxCompletedJobs
  BY <1>1, <1>2, BoundsAssumption
<1>5. \A i \in drop + 1 .. Len(ended) : ended[i] \in Jobs
  <2> TAKE i \in drop + 1 .. Len(ended)
  <2>1. i \in 1..Len(ended)
    BY <1>1, <1>4
  <2> QED BY <2>1, ElementOfSeq DEF TypeOK
<1>6. /\ Len(ended') = IF drop + 1 <= Len(ended) THEN Len(ended) - (drop + 1) + 1 ELSE 0
      /\ \A i \in 1..(Len(ended) - (drop + 1) + 1) : ended'[i] = ended[drop + 1 + i - 1]
  BY <1>1, <1>3, <1>4, <1>5, SubSeqProperties DEF TypeOK
<1>7. Len(ended') = Len(ended) - drop
  BY <1>1, <1>4, <1>6
<1>8. \A i \in 1..Len(ended') : drop + i \in 1..Len(ended) /\ ended'[i] = ended[drop + i]
  BY <1>1, <1>4, <1>6, <1>7
<1> QED BY <1>3, <1>4, <1>7, <1>8

LEMMA PruneOrder ==
  ASSUME IInv, OrderInv, PruneCompleted
  PROVE  /\ OrderInv'
         /\ Len(ended') <= MaxCompletedJobs
         /\ \A h, i \in 1..Len(ended) : h < i /\ ended[h] \in jobs' => ended[i] \in jobs'
<1>1. PICK drop \in Nat :
        /\ drop <= Len(ended)
        /\ Len(ended) - drop <= MaxCompletedJobs
        /\ Len(ended') = Len(ended) - drop
        /\ \A i \in 1..Len(ended') : drop + i \in 1..Len(ended) /\ ended'[i] = ended[drop + i]
        /\ jobs' = jobs \ {ended[i] : i \in 1..drop}
  BY PrunePrefix DEF IInv
<1>2. Len(ended) \in Nat
  BY LenProperties DEF IInv, TypeOK
<1>3. \A i \in 1..Len(ended) : ended[i] \in jobs' <=> i > drop
  BY <1>1, <1>2 DEF OrderInv
<1>4. \A i \in 1..Len(ended') : ended'[i] \in jobs'
  <2> TAKE i \in 1..Len(ended')
  <2>1. drop + i \in 1..Len(ended) /\ ended'[i] = ended[drop + i]
    BY <1>1
  <2>2. i \in Nat /\ i > 0
    BY <1>1, <1>2
  <2>3. drop + i > drop
    BY <1>1, <2>2
  <2> QED BY <1>3, <2>1, <2>3
<1>5. \A i, k \in 1..Len(ended') : i # k => ended'[i] # ended'[k]
  <2> TAKE i, k \in 1..Len(ended')
  <2>1. /\ drop + i \in 1..Len(ended) /\ ended'[i] = ended[drop + i]
        /\ drop + k \in 1..Len(ended) /\ ended'[k] = ended[drop + k]
    BY <1>1
  <2>2. i # k => drop + i # drop + k
    BY <1>1, <1>2
  <2> QED BY <2>1, <2>2 DEF OrderInv
<1>6. \A h, i \in 1..Len(ended) : h < i /\ ended[h] \in jobs' => ended[i] \in jobs'
  BY <1>1, <1>2, <1>3
<1> QED BY <1>1, <1>4, <1>5, <1>6 DEF OrderInv

\* A job enters `ended` when it ends, and no job ends twice.
LEMMA TerminateOrder ==
  ASSUME IInv, OrderInv, NEW j \in Jobs, NEW to, Terminate(j, to), status[j] # "none",
         jobs' = jobs
  PROVE  OrderInv'
<1>1. CASE ended' = ended
  BY <1>1 DEF OrderInv
<1>2. CASE status[j] \notin Terminal /\ ended' = Append(ended, j)
  <2>1. /\ Len(ended) \in Nat
        /\ Len(ended') = Len(ended) + 1
        /\ \A i \in 1..Len(ended) : ended'[i] = ended[i]
        /\ ended'[Len(ended) + 1] = j
    BY <1>2, AppendProperties, LenProperties DEF IInv, TypeOK
  <2>2. j \in jobs
    BY <1>2 DEF IInv, KnownInv
  <2>3. \A i \in 1..Len(ended) : ended[i] # j
    BY <1>2 DEF IInv, KnownInv
  <2>4. \A i \in 1..Len(ended') : i \in 1..Len(ended) \/ i = Len(ended) + 1
    BY <2>1
  <2> QED BY <2>1, <2>2, <2>3, <2>4 DEF OrderInv
<1> QED BY <1>1, <1>2, TerminateCases

\* The steps that neither end a job nor prune keep every job that ended.
LEMMA OrderKept ==
  ASSUME OrderInv, ended' = ended, jobs \subseteq jobs'
  PROVE  OrderInv'
BY DEF OrderInv

LEMMA OrderStep == IInv /\ OrderInv /\ [Next]_vars => OrderInv'
<1> SUFFICES ASSUME IInv, OrderInv, [Next]_vars PROVE OrderInv'
  OBVIOUS
<1>1. ASSUME NEW j \in Jobs, Handler(j) PROVE OrderInv'
  <2>1. CASE Create(j)
    BY <2>1, OrderKept DEF Create
  <2>2. CASE StopCommit(j)
    <3>1. j \in stopping /\ status[j] # "none"
      BY <2>2 DEF StopCommit, IInv, CancelInv
    <3> QED BY <2>2, <3>1, TerminateOrder DEF StopCommit
  <2>3. CASE InitLogFile(j) \/ Send(j) \/ Pause(j) \/ Resume(j) \/ StopCancel(j)
    BY <2>3, OrderKept DEF InitLogFile, Send, Pause, Resume, StopCancel, mapVars
  <2> QED BY <1>1, <2>1, <2>2, <2>3 DEF Handler
<1>2. ASSUME NEW j \in Jobs, RunFunction(j) PROVE OrderInv'
  <2>1. CASE WaitIfPaused(j) \/ Wake(j) \/ RunReturns(j)
    BY <2>1, OrderKept DEF WaitIfPaused, Wake, RunReturns, mapVars
  <2>2. ASSUME NEW to \in Terminal, RunEnds(j, to) PROVE OrderInv'
    <3>1. status[j] # "none"
      BY <2>2 DEF RunEnds, IInv, StatusInv
    <3> QED BY <2>2, <3>1, TerminateOrder DEF RunEnds
  <2> QED BY <1>2, <2>1, <2>2 DEF RunFunction, RunCompletes, RunFails, RunCancelled, Terminal
<1>3. CASE GetOrList \/ AfterWork
  BY <1>3, PruneOrder DEF GetOrList, AfterWork
<1>4. CASE TakeWork \/ QueueExit \/ Finish \/ ExitStep \/ UNCHANGED vars
  BY <1>4, OrderKept DEF TakeWork, QueueExit, Finish, ExitStep, HTTPShutdown, CloseDone,
     CancelAll, ShutdownReturns, vars, mapVars
<1> QED BY <1>1, <1>2, <1>3, <1>4 DEF Next, QueueStep

\* Only pruning makes the manager forget a job.
LEMMA OnlyPruningForgets ==
  ASSUME IInv, [Next]_vars
  PROVE  \/ jobs \subseteq jobs' /\ (queue' = queue \/ queue # "after")
         \/ PruneCompleted
<1>1. ASSUME NEW j \in Jobs, Handler(j) PROVE jobs \subseteq jobs' /\ queue' = queue
  BY <1>1 DEF Handler, Create, InitLogFile, Send, Pause, Resume, StopCancel, StopCommit,
              queueVars, mapVars
<1>2. ASSUME NEW j \in Jobs, RunFunction(j)
      PROVE  \/ jobs \subseteq jobs' /\ queue' = queue
             \/ RunReturns(j)
  BY <1>2 DEF RunFunction, WaitIfPaused, Wake, RunCompletes, RunFails, RunCancelled, RunEnds,
              queueVars, mapVars
<1>3. ASSUME NEW j \in Jobs, RunReturns(j)
      PROVE  jobs \subseteq jobs' /\ queue # "after"
  BY <1>3 DEF RunReturns, IInv, QueueInv, Executing, mapVars
<1>4. CASE TakeWork \/ QueueExit \/ Finish
  BY <1>4 DEF TakeWork, QueueExit, Finish, mapVars
<1>5. CASE GetOrList \/ AfterWork
  BY <1>5 DEF GetOrList, AfterWork
<1>6. CASE ExitStep \/ UNCHANGED vars
  BY <1>6 DEF ExitStep, HTTPShutdown, CloseDone, CancelAll, ShutdownReturns, vars, mapVars,
              queueVars
<1> QED BY <1>1, <1>2, <1>3, <1>4, <1>5, <1>6 DEF Next, QueueStep

\* Of the jobs that ended pruning forgets the oldest, and after an executed
\* job at most MaxCompletedJobs of them are left.
THEOREM PruneIsOldestFirst == Spec => PruneKeepsNewest
<1>1. Init => OrderInv
  <2> SUFFICES ASSUME Init PROVE OrderInv
    OBVIOUS
  <2>1. Len(ended) = 0
    BY EmptySeq DEF Init
  <2> QED BY <2>1 DEF OrderInv
<1>2. IInv /\ OrderInv /\ [Next]_vars =>
        [/\ queue = "after" /\ queue' # "after" => Len(ended') <= MaxCompletedJobs
         /\ \A h, i \in 1..Len(ended) :
              h < i /\ ended[h] \in jobs' => ended[i] \in jobs']_vars
  <2> SUFFICES ASSUME IInv, OrderInv, [Next]_vars
               PROVE  /\ queue = "after" /\ queue' # "after" => Len(ended') <= MaxCompletedJobs
                      /\ \A h, i \in 1..Len(ended) :
                           h < i /\ ended[h] \in jobs' => ended[i] \in jobs'
    OBVIOUS
  <2>1. CASE PruneCompleted
    BY <2>1, PruneOrder
  <2>2. CASE jobs \subseteq jobs' /\ (queue' = queue \/ queue # "after")
    BY <2>2 DEF OrderInv
  <2> QED BY <2>1, <2>2, OnlyPruningForgets
<1> QED BY <1>1, <1>2, OrderStep, Invariance, PTL DEF Spec, PruneKeepsNewest

-----------------------------------------------------------------------------
(* Refinement of JobLifecycle *)

LEMMA LifecycleStutter ==
  ASSUME status' = status, ActiveJob' = ActiveJob, finished' = finished
  PROVE  [Lifecycle!LNext]_Lifecycle!lvars
BY DEF Lifecycle!lvars, OverJobs

\* Ending a job is an End of the abstract job, or nothing when it had ended.
LEMMA TerminateRefines ==
  ASSUME TypeOK, NEW j \in Jobs, NEW to \in Terminal, Terminate(j, to), status[j] # "none",
         to # "stopped" => ActiveJob = j, ActiveJob' = ActiveJob, finished' = finished
  PROVE  [Lifecycle!LNext]_Lifecycle!lvars
<1>1. CASE status[j] \in Terminal
  BY <1>1, TerminateCases, LifecycleStutter
<1>2. CASE status[j] \notin Terminal
  <2>1. status[j] \in {"queued", "running", "paused"}
    BY <1>2 DEF TypeOK, Statuses
  <2>2. status' = [status EXCEPT ![j] = to]
    BY <1>2, TerminateCases
  <2>3. OverJobs' = OverJobs
    BY DEF OverJobs
  <2>4. to \in Lifecycle!Terminal
    BY DEF Lifecycle!Terminal, Terminal
  <2>5. Lifecycle!End(j)
    BY <2>1, <2>2, <2>3, <2>4 DEF Lifecycle!End
  <2> QED BY <2>5 DEF Lifecycle!LNext
<1> QED BY <1>1, <1>2

\* While the queue is between two jobs, no job is active.
LEMMA ActiveCases ==
  ASSUME IInv
  PROVE  /\ queue \in {"select", "after", "exited"} => ActiveJob = NoJob
         /\ \A j \in Jobs : Executing(j) => ActiveJob = j
         /\ queue = "finishing" => ActiveJob \in {current, NoJob}
BY DEF IInv, ActiveJob, QueueInv, Executing

LEMMA RefinementStep == IInv /\ [Next]_vars => [Lifecycle!LNext]_Lifecycle!lvars
<1> SUFFICES ASSUME IInv, [Next]_vars PROVE [Lifecycle!LNext]_Lifecycle!lvars
  OBVIOUS
<1>1. ASSUME NEW j \in Jobs, Handler(j) PROVE [Lifecycle!LNext]_Lifecycle!lvars
  <2>1. ActiveJob' = ActiveJob /\ finished' = finished /\ OverJobs' = OverJobs
    BY <1>1 DEF Handler, Create, InitLogFile, Send, Pause, Resume, StopCancel, StopCommit,
                queueVars, jobVars, ActiveJob, OverJobs
  <2>2. CASE Create(j)
    <3>1. Lifecycle!Accept(j)
      BY <2>1, <2>2 DEF Lifecycle!Accept, Create, IInv, KnownInv
    <3> QED BY <3>1 DEF Lifecycle!LNext
  <2>3. CASE InitLogFile(j) \/ Send(j) \/ StopCancel(j)
    BY <2>1, <2>3, LifecycleStutter DEF InitLogFile, Send, StopCancel, jobVars
  <2>4. CASE Pause(j)
    <3>1. Lifecycle!Hold(j)
      BY <2>1, <2>4 DEF Lifecycle!Hold, Pause
    <3> QED BY <3>1 DEF Lifecycle!LNext
  <2>5. CASE Resume(j)
    <3>1. Lifecycle!Release(j)
      BY <2>1, <2>5 DEF Lifecycle!Release, Resume
    <3> QED BY <3>1 DEF Lifecycle!LNext
  <2>6. CASE StopCommit(j)
    BY <2>1, <2>6, TerminateRefines DEF StopCommit, IInv, CancelInv, Terminal
  <2> QED BY <1>1, <2>2, <2>3, <2>4, <2>5, <2>6 DEF Handler
<1>2. ASSUME NEW j \in Jobs, RunFunction(j) PROVE [Lifecycle!LNext]_Lifecycle!lvars
  <2>1. CASE WaitIfPaused(j) \/ Wake(j)
    <3>1. ActiveJob' = ActiveJob
      BY <2>1 DEF WaitIfPaused, Wake, queueVars, ActiveJob
    <3> QED BY <2>1, <3>1, LifecycleStutter DEF WaitIfPaused, Wake
  <2>2. ASSUME NEW to \in Terminal, RunEnds(j, to) PROVE [Lifecycle!LNext]_Lifecycle!lvars
    <3>1. run[j] = "body" /\ run' = [run EXCEPT ![j] = "tail"]
      BY <2>2 DEF RunEnds
    <3>2. queue = "running" /\ current = j
      BY <3>1 DEF IInv, QueueInv, Executing
    <3>3. queue' = queue /\ current' = current
      BY <2>2 DEF RunEnds
    <3>4. run'[j] = "tail"
      BY <3>1 DEF IInv, TypeOK
    <3>5. ActiveJob = j /\ ActiveJob' = j
      BY <3>1, <3>2, <3>3, <3>4 DEF ActiveJob
    <3>6. status[j] # "none"
      BY <3>1 DEF IInv, StatusInv
    <3> QED BY <2>2, <3>5, <3>6, TerminateRefines DEF RunEnds, IInv
  <2>3. CASE RunReturns(j)
    <3>1. run[j] = "tail" /\ run' = [run EXCEPT ![j] = "returned"]
      BY <2>3 DEF RunReturns
    <3>2. queue = "running" /\ current = j
      BY <3>1 DEF IInv, QueueInv, Executing
    <3>3. queue' = "finishing" /\ current' = current /\ run'[j] = "returned"
      BY <2>3, <3>1 DEF RunReturns, IInv, TypeOK
    <3>4. ActiveJob' = ActiveJob
      BY <3>1, <3>2, <3>3 DEF ActiveJob
    <3> QED BY <2>3, <3>4, LifecycleStutter DEF RunReturns, jobVars
  <2> QED BY <1>2, <2>1, <2>2, <2>3 DEF RunFunction, RunCompletes, RunFails, RunCancelled, Terminal
<1>3. CASE TakeWork
  <2> DEFINE h == Head(work)
  <2>1. /\ h \in Jobs /\ run[h] = "idle" /\ ~finished[h]
        /\ status[h] \in {"queued"} \cup Terminal
    BY <1>3, HeadOfWork DEF TakeWork
  <2>2. ActiveJob = NoJob /\ finished' = finished /\ current' = h
    BY <1>3, ActiveCases DEF TakeWork
  <2>3. CASE status[h] \in Terminal
    <3>1. queue' = "finishing" /\ run' = run /\ status' = status
      BY <1>3, <2>3 DEF TakeWork
    <3>2. ActiveJob' = NoJob
      BY <2>1, <2>2, <3>1 DEF ActiveJob
    <3> QED BY <2>2, <3>1, <3>2, LifecycleStutter
  <2>4. CASE status[h] \notin Terminal
    <3>1. /\ queue' = "running" /\ run' = [run EXCEPT ![h] = "body"]
          /\ status' = [status EXCEPT ![h] = "running"]
      BY <1>3, <2>4 DEF TakeWork
    <3>2. run'[h] = "body"
      BY <2>1, <3>1 DEF IInv, TypeOK
    <3>3. ActiveJob' = h
      BY <2>2, <3>1, <3>2 DEF ActiveJob
    <3>4. h \notin OverJobs /\ OverJobs' = OverJobs
      BY <2>1, <2>2 DEF OverJobs
    <3>5. Lifecycle!Begin(h)
      BY <2>1, <2>2, <2>4, <3>1, <3>3, <3>4 DEF Lifecycle!Begin
    <3> QED BY <2>1, <3>5 DEF Lifecycle!LNext
  <2> QED BY <2>3, <2>4
<1>4. CASE Finish
  <2>1. /\ current \in Jobs /\ ~finished[current] /\ status[current] \in Terminal
        /\ ActiveJob \in {current, NoJob}
    BY <1>4, ActiveCases DEF Finish, IInv, QueueInv
  <2>2. /\ finished' = [finished EXCEPT ![current] = TRUE] /\ status' = status
        /\ queue' \in {"after", "select"}
    BY <1>4 DEF Finish
  <2>3. ActiveJob' = NoJob
    BY <2>2 DEF ActiveJob
  <2>4. current \notin OverJobs /\ OverJobs' = OverJobs \cup {current}
    BY <2>1, <2>2 DEF OverJobs, IInv, TypeOK
  <2>5. Lifecycle!Leave(current)
    BY <2>1, <2>2, <2>3, <2>4 DEF Lifecycle!Leave, Lifecycle!Terminal, Terminal
  <2> QED BY <2>1, <2>5 DEF Lifecycle!LNext
<1>5. CASE QueueExit \/ AfterWork
  <2>1. queue \in {"select", "after"} /\ queue' \in {"select", "exited"}
    BY <1>5 DEF QueueExit, AfterWork
  <2>2. ActiveJob' = ActiveJob
    BY <2>1 DEF ActiveJob
  <2> QED BY <1>5, <2>2, LifecycleStutter DEF QueueExit, AfterWork, jobVars
<1>6. CASE GetOrList \/ ExitStep \/ UNCHANGED vars
  <2>1. /\ queue' = queue /\ current' = current /\ run' = run
        /\ status' = status /\ finished' = finished
    BY <1>6 DEF GetOrList, ExitStep, HTTPShutdown, CloseDone, CancelAll, ShutdownReturns,
                vars, queueVars, jobVars
  <2> QED BY <2>1, LifecycleStutter DEF ActiveJob
<1> QED BY <1>1, <1>2, <1>3, <1>4, <1>5, <1>6 DEF Next, QueueStep

\* The queue, its goroutine and the locks implement the life of a job that the
\* callers of internal/job rely on.
THEOREM Refinement == Spec => ImplementsLifecycle
<1>1. Init => Lifecycle!LInit
  BY DEF Init, Lifecycle!LInit, ActiveJob, OverJobs
<1> QED BY <1>1, RefinementStep, Invariance, PTL DEF Spec, ImplementsLifecycle, Lifecycle!LSpec

-----------------------------------------------------------------------------
(* The queue goes on. The conditions are those under which the queue        *)
(* goroutine and a run function can take a step; TLC has compared them with  *)
(* ENABLED.                                                                  *)

InWork(j) == \E i \in 1..Len(work) : work[i] = j
InHand(j) == queue \in {"running", "finishing"} /\ current = j

\* A job whose Enqueue returned is in the channel, in the hands of the queue
\* goroutine, or finished; and what is finished has ended.
HeldInv ==
  \A j \in Jobs :
    /\ enqueue[j] = "sent" => finished[j] \/ InWork(j) \/ InHand(j)
    /\ finished[j] => status[j] \in Terminal /\ run[j] \in {"idle", "returned"}

\* No job is lost between the Enqueue call, the channel and the goroutine,
\* whatever was stopped, refused or pruned on the way: what has not ended for
\* good is still with one of them.
NoJobIsLost ==
  \A j \in Jobs :
    enqueue[j] # "none" /\ ~finished[j] =>
      enqueue[j] \in {"created", "sending"} \/ InWork(j) \/ InHand(j)

QueueCan ==
  \/ queue \in {"finishing", "after"}
  \/ queue = "select" /\ (work # <<>> \/ shutdown # "idle")

RunCan(j) ==
  \/ run[j] = "tail"
  \/ run[j] = "body" /\ (waiting[j] = 0 \/ ChannelClosed(j) \/ cancelled[j])

NoWork == queue = "select" /\ work = <<>>
PausedByUser(j) == status[j] = "paused" /\ ~cancelled[j]

\* The queue waits for two things only: for a job to be enqueued, and for the
\* user to resume or stop the one that executes. Until Shutdown it is there.
QueueNeverStuck ==
  /\ queue = "exited" => shutdown # "idle"
  /\ \/ queue = "exited" \/ QueueCan \/ NoWork
     \/ queue = "running" /\ (RunCan(current) \/ PausedByUser(current))

\* Behind a drained server a Shutdown that waits never waits for a user.
DrainedQueueGoesOn ==
  http = "drained" /\ shutdown = "waiting" =>
    queue = "exited" \/ QueueCan \/ (queue = "running" /\ RunCan(current))

\* The steps from the channel to the next select: start, end, return, finish,
\* prune.
Stage ==
  CASE queue = "running" /\ run[current] = "body" -> 5
    [] queue = "running" /\ run[current] = "tail" -> 4
    [] queue = "finishing" -> 3
    [] queue = "after" -> 2
    [] queue = "select" -> 1
    [] OTHER -> 0
StepsLeft == 5 * Len(work) + Stage

Sends == \E j \in Jobs : Send(j)

\* An enqueued job costs the queue five steps at most, pauses and stops
\* included, and every step it takes is one of those.
QueueRunsOut ==
  [][IF Sends THEN StepsLeft' = StepsLeft + 5
     ELSE <<queueVars, work>>' # <<queueVars, work>> => StepsLeft' < StepsLeft]_vars

LEMMA HeldUnchanged ==
  ASSUME HeldInv, work' = work, enqueue' = enqueue, finished' = finished, queue' = queue,
         current' = current, run' = run, \A j \in Jobs : status[j] \in Terminal => status'[j] \in Terminal
  PROVE  HeldInv'
BY DEF HeldInv, InWork, InHand

LEMMA HeldStep == IInv /\ HeldInv /\ [Next]_vars => HeldInv'
<1> SUFFICES ASSUME IInv, HeldInv, [Next]_vars PROVE HeldInv'
  OBVIOUS
<1> USE DEF IInv
<1>1. ASSUME NEW j \in Jobs, Handler(j) PROVE HeldInv'
  <2>1. CASE Create(j) \/ InitLogFile(j)
    <3>1. /\ enqueue'[j] # "sent" /\ \A i \in Jobs : i # j => enqueue'[i] = enqueue[i]
          /\ work' = work /\ finished' = finished /\ queue' = queue
          /\ current' = current /\ run' = run
      BY <2>1 DEF Create, InitLogFile, queueVars, TypeOK
    <3>2. \A i \in Jobs : status[i] \in Terminal => status'[i] \in Terminal
      BY <2>1 DEF Create, InitLogFile, KnownInv, Terminal, TypeOK
    <3> QED BY <3>1, <3>2 DEF HeldInv, InWork, InHand
  <2>2. CASE Send(j)
    <3>1. /\ Len(work) \in Nat
          /\ Len(work') = Len(work) + 1
          /\ \A i \in 1..Len(work) : work'[i] = work[i]
          /\ work'[Len(work) + 1] = j
      BY <2>2, AppendProperties, LenProperties DEF Send, TypeOK
    <3>2. /\ \A i \in Jobs : i # j => enqueue'[i] = enqueue[i]
          /\ status' = status /\ finished' = finished /\ queue' = queue
          /\ current' = current /\ run' = run
      BY <2>2 DEF Send, TypeOK, jobVars, queueVars
    <3>3. InWork(j)' /\ \A i \in Jobs : InWork(i) => InWork(i)'
      BY <3>1 DEF InWork
    <3> QED BY <3>2, <3>3 DEF HeldInv, InHand
  <2>3. CASE Pause(j) \/ Resume(j)
    <3>1. \A i \in Jobs : status[i] \in Terminal => status'[i] \in Terminal
      BY <2>3 DEF Pause, Resume, TypeOK, Terminal
    <3> QED BY <2>3, <3>1, HeldUnchanged DEF Pause, Resume, queueVars, callVars
  <2>4. CASE StopCancel(j)
    BY <2>4, HeldUnchanged DEF StopCancel, queueVars
  <2>5. CASE StopCommit(j)
    BY <2>5, TerminateKeepsTerminal, HeldUnchanged DEF StopCommit, queueVars, Terminal
  <2> QED BY <1>1, <2>1, <2>2, <2>3, <2>4, <2>5 DEF Handler
<1>2. ASSUME NEW j \in Jobs, RunFunction(j) PROVE HeldInv'
  <2>1. CASE WaitIfPaused(j) \/ Wake(j)
    BY <2>1, HeldUnchanged DEF WaitIfPaused, Wake, queueVars, callVars
  <2>2. ASSUME NEW to \in Terminal, RunEnds(j, to) PROVE HeldInv'
    <3>1. \A i \in Jobs : status[i] \in Terminal => status'[i] \in Terminal
      BY <2>2, TerminateKeepsTerminal DEF RunEnds
    <3>2. /\ queue = "running" /\ current = j /\ ~finished[j]
          /\ run' = [run EXCEPT ![j] = "tail"]
      BY <2>2 DEF RunEnds, QueueInv, Executing
    <3>3. /\ work' = work /\ enqueue' = enqueue /\ finished' = finished /\ queue' = queue
          /\ current' = current
          /\ \A i \in Jobs : i # j => run'[i] = run[i]
      BY <2>2, <3>2 DEF RunEnds, callVars, TypeOK
    <3> QED BY <3>1, <3>2, <3>3 DEF HeldInv, InWork, InHand
  <2>3. CASE RunReturns(j)
    <3>1. /\ queue = "running" /\ current = j /\ queue' = "finishing"
          /\ run' = [run EXCEPT ![j] = "returned"]
          /\ work' = work /\ enqueue' = enqueue /\ finished' = finished /\ status' = status
          /\ current' = current
      BY <2>3 DEF RunReturns, QueueInv, Executing, callVars, jobVars
    <3>2. \A i \in Jobs : run'[i] = run[i] \/ run'[i] = "returned"
      BY <3>1 DEF TypeOK
    <3> QED BY <3>1, <3>2 DEF HeldInv, InWork, InHand
  <2> QED BY <1>2, <2>1, <2>2, <2>3 DEF RunFunction, RunCompletes, RunFails, RunCancelled, Terminal
<1>3. CASE TakeWork
  <2> DEFINE h == Head(work)
  <2>1. /\ h \in Jobs /\ Len(work) \in Nat \ {0} /\ h = work[1]
        /\ Len(work') = Len(work) - 1
        /\ \A i \in 1..Len(work') : work'[i] = work[i + 1]
    BY <1>3, HeadTailWork DEF TakeWork
  <2>2. ~finished[h]
    BY <1>3, HeadOfWork DEF TakeWork
  <2>3. /\ current' = h /\ enqueue' = enqueue /\ finished' = finished /\ queue = "select"
        /\ queue' \in {"running", "finishing"}
        /\ \A i \in Jobs : i # h => run'[i] = run[i] /\ status'[i] = status[i]
    BY <1>3, <2>1 DEF TakeWork, callVars, TypeOK
  <2>4. \A i \in Jobs : InWork(i) => InWork(i)' \/ i = h
    <3> SUFFICES ASSUME NEW i \in Jobs, NEW k \in 1..Len(work), work[k] = i, i # h
                 PROVE  InWork(i)'
      BY DEF InWork
    <3>1. k - 1 \in 1..Len(work') /\ work'[k - 1] = i
      BY <2>1
    <3> QED BY <3>1 DEF InWork
  <2> HIDE DEF h
  <2> QED BY <2>2, <2>3, <2>4 DEF HeldInv, InHand
<1>4. CASE Finish
  <2>1. /\ current \in Jobs /\ queue = "finishing" /\ finished'[current]
        /\ \A i \in Jobs : i # current => finished'[i] = finished[i]
        /\ work' = work /\ enqueue' = enqueue /\ run' = run /\ status' = status
    BY <1>4 DEF Finish, QueueInv, callVars, TypeOK
  <2>2. status[current] \in Terminal /\ run[current] \in {"idle", "returned"}
    BY <2>1 DEF QueueInv
  <2> QED BY <2>1, <2>2 DEF HeldInv, InWork, InHand
<1>5. CASE QueueExit \/ AfterWork
  BY <1>5 DEF QueueExit, AfterWork, callVars, jobVars, HeldInv, InWork, InHand
<1>6. CASE GetOrList \/ ExitStep \/ UNCHANGED vars
  <2>1. /\ work' = work /\ enqueue' = enqueue /\ finished' = finished /\ queue' = queue
        /\ current' = current /\ run' = run /\ status' = status
    BY <1>6 DEF GetOrList, ExitStep, HTTPShutdown, CloseDone, CancelAll,
                ShutdownReturns, vars, jobVars, callVars, queueVars
  <2> QED BY <2>1, HeldUnchanged
<1> QED BY <1>1, <1>2, <1>3, <1>4, <1>5, <1>6 DEF Next, QueueStep

\* No job is lost between the handler, the channel and the queue goroutine.
THEOREM NobodyIsLost == Spec => []NoJobIsLost
<1>1. Init => HeldInv
  BY DEF Init, HeldInv
<1>2. IInv /\ HeldInv => NoJobIsLost
  BY DEF IInv, TypeOK, HeldInv, NoJobIsLost
<1> QED BY <1>1, <1>2, HeldStep, Invariance, PTL DEF Spec

\* The queue goroutine leaves only when Shutdown has closed m.done.
ExitedInv == queue = "exited" => shutdown # "idle"
LEMMA ExitedStep == ExitedInv /\ [Next]_vars => ExitedInv'
<1> SUFFICES ASSUME ExitedInv, [Next]_vars PROVE ExitedInv'
  OBVIOUS
<1>1. ASSUME NEW j \in Jobs, Handler(j) PROVE UNCHANGED <<queue, shutdown>>
  BY <1>1 DEF Handler, Create, InitLogFile, Send, Pause, Resume, StopCancel, StopCommit,
              Alive, queueVars
<1>2. ASSUME NEW j \in Jobs, RunFunction(j) PROVE ExitedInv'
  BY <1>2 DEF RunFunction, WaitIfPaused, Wake, RunCompletes, RunFails, RunCancelled, RunEnds,
              RunReturns, Alive, queueVars, ExitedInv
<1>3. CASE QueueStep \/ GetOrList
  BY <1>3 DEF QueueStep, TakeWork, QueueExit, Finish, AfterWork, GetOrList, Alive, queueVars,
              ExitedInv
<1>4. CASE ExitStep \/ UNCHANGED vars
  BY <1>4 DEF ExitStep, HTTPShutdown, CloseDone, CancelAll, ShutdownReturns, vars, queueVars,
              exitVars, ExitedInv
<1> QED BY <1>1, <1>2, <1>3, <1>4 DEF Next, ExitedInv

\* Nothing but an empty channel or a pause of the user holds the queue up.
THEOREM QueueGoesOn == Spec => []QueueNeverStuck
<1>1. IInv /\ ExitedInv => QueueNeverStuck
  <2> SUFFICES ASSUME IInv, ExitedInv PROVE QueueNeverStuck
    OBVIOUS
  <2> USE DEF IInv
  <2>1. CASE queue = "running"
    <3>1. current \in Jobs /\ run[current] \in {"body", "tail"}
      BY <2>1 DEF QueueInv, Executing
    <3>2. ASSUME ~RunCan(current) PROVE PausedByUser(current)
      <4>1. /\ waiting[current] # 0 /\ waiting[current] = pause[current] /\ ~cancelled[current]
        BY <3>1, <3>2 DEF RunCan, ChannelClosed
      <4> QED BY <3>1, <4>1 DEF PauseInv, PausedByUser
    <3> QED BY <2>1, <3>2 DEF QueueNeverStuck
  <2>2. CASE queue \in {"select", "finishing", "after", "exited"}
    BY <2>2 DEF QueueNeverStuck, QueueCan, NoWork, ExitedInv
  <2> QED BY <2>1, <2>2 DEF TypeOK, QueueNeverStuck, ExitedInv
<1>2. Init => ExitedInv
  BY DEF Init, ExitedInv
<1> QED BY <1>1, <1>2, ExitedStep, Invariance, PTL DEF Spec

\* What remains of DrainedShutdownEnds, for any number of jobs, without the
\* fairness: the goroutine Shutdown waits for always has a step to take.
THEOREM DrainGoesOn == Spec => []DrainedQueueGoesOn
<1>1. IInv => DrainedQueueGoesOn
  <2> SUFFICES ASSUME IInv, http = "drained", shutdown = "waiting", queue # "exited", ~QueueCan
               PROVE  queue = "running" /\ RunCan(current)
    BY DEF DrainedQueueGoesOn
  <2> USE DEF IInv
  <2>1. queue = "running"
    BY DEF QueueCan, TypeOK
  <2>2. current \in Jobs /\ run[current] \in {"body", "tail"}
    BY <2>1 DEF QueueInv, Executing
  <2>3. status[current] # "none"
    BY <2>2 DEF StatusInv, Terminal
  <2>4. cancelled[current]
    BY <2>2, <2>3 DEF ExitInv
  <2> QED BY <2>1, <2>2, <2>4 DEF RunCan
<1> QED BY <1>1, Invariance, PTL

LEMMA StageType == Stage \in 0..5
BY DEF Stage

\* What a step does to the channel and to the goroutine.
LEMMA StagesFall ==
  ASSUME IInv, TypeOK', QueueInv', [Next]_vars
  PROVE  \/ Sends /\ Len(work') = Len(work) + 1 /\ Stage' = Stage
         \/ ~Sends /\ Len(work') = Len(work) /\ Stage' < Stage
         \/ ~Sends /\ Len(work') = Len(work) - 1 /\ Stage = 1
         \/ ~Sends /\ UNCHANGED <<queueVars, work>> /\ Stage' = Stage
<1> USE DEF IInv
<1>1. ASSUME NEW j \in Jobs, Send(j)
      PROVE  Sends /\ Len(work') = Len(work) + 1 /\ Stage' = Stage
  <2>1. Len(work') = Len(work) + 1
    BY <1>1, AppendProperties DEF Send, TypeOK
  <2>2. Stage' = Stage
    BY <1>1 DEF Send, queueVars, Stage
  <2> QED BY <1>1, <2>1, <2>2 DEF Sends
<1>2. ASSUME UNCHANGED <<queueVars, work>>
      PROVE  ~Sends /\ UNCHANGED <<queueVars, work>> /\ Stage' = Stage
  <2>1. Stage' = Stage
    BY <1>2 DEF queueVars, Stage
  <2>2. \A j \in Jobs : Send(j) => Len(work') = Len(work) + 1 /\ Len(work) \in Nat
    BY AppendProperties, LenProperties DEF Send, TypeOK
  <2> QED BY <1>2, <2>1, <2>2 DEF Sends
<1>3. ASSUME ~(queue' = queue), Sends PROVE FALSE
  BY <1>3 DEF Sends, Send, queueVars
<1>4. ASSUME NEW j \in Jobs, NEW to \in Terminal, RunEnds(j, to)
      PROVE  ~Sends /\ Len(work') = Len(work) /\ Stage' < Stage
  <2>1. /\ queue = "running" /\ current = j /\ queue' = queue /\ current' = current
        /\ run[j] = "body" /\ run'[j] = "tail" /\ work' = work
    BY <1>4 DEF RunEnds, QueueInv, Executing, TypeOK
  <2>2. Stage = 5 /\ Stage' = 4
    BY <2>1 DEF Stage
  <2>3. ~Sends
    BY <2>1 DEF Sends, Send, queueVars
  <2> QED BY <2>1, <2>2, <2>3
<1>5. ASSUME NEW j \in Jobs, RunReturns(j)
      PROVE  ~Sends /\ Len(work') = Len(work) /\ Stage' < Stage
  <2>1. /\ queue = "running" /\ current = j /\ queue' = "finishing"
        /\ run[j] = "tail" /\ work' = work
    BY <1>5 DEF RunReturns, QueueInv, Executing
  <2>2. Stage = 4 /\ Stage' = 3
    BY <2>1 DEF Stage
  <2> QED BY <1>3, <2>1, <2>2
<1>6. CASE TakeWork
  <2>1. Len(work') = Len(work) - 1 /\ queue = "select" /\ queue' # queue
    BY <1>6, HeadTailWork DEF TakeWork
  <2>2. Stage = 1
    BY <2>1 DEF Stage
  <2> QED BY <1>3, <2>1, <2>2
<1>7. CASE QueueExit \/ Finish \/ AfterWork
  <2>1. /\ work' = work /\ queue' # queue
        /\ \/ queue = "select" /\ queue' = "exited"
           \/ queue = "finishing" /\ queue' \in {"after", "select"}
           \/ queue = "after" /\ queue' = "select"
    BY <1>7 DEF QueueExit, Finish, AfterWork
  <2>2. \/ Stage = 1 /\ Stage' = 0
        \/ Stage = 3 /\ Stage' \in {1, 2}
        \/ Stage = 2 /\ Stage' = 1
    BY <2>1 DEF Stage
  <2> QED BY <1>3, <2>1, <2>2
<1>8. CASE GetOrList \/ ExitStep \/ UNCHANGED vars
  BY <1>2, <1>8 DEF GetOrList, ExitStep, HTTPShutdown, CloseDone, CancelAll, ShutdownReturns, vars
<1>9. ASSUME NEW j \in Jobs, Handler(j), ~Send(j) PROVE UNCHANGED <<queueVars, work>>
  BY <1>9 DEF Handler, Create, InitLogFile, Pause, Resume, StopCancel, StopCommit
<1>10. ASSUME NEW j \in Jobs, WaitIfPaused(j) \/ Wake(j) PROVE UNCHANGED <<queueVars, work>>
  BY <1>10 DEF WaitIfPaused, Wake
<1>11. ASSUME NEW j \in Jobs, RunFunction(j)
       PROVE  \/ ~Sends /\ Len(work') = Len(work) /\ Stage' < Stage
              \/ ~Sends /\ UNCHANGED <<queueVars, work>> /\ Stage' = Stage
  BY <1>2, <1>4, <1>5, <1>10, <1>11 DEF RunFunction, RunCompletes, RunFails, RunCancelled, Terminal
<1> QED BY <1>1, <1>2, <1>6, <1>7, <1>8, <1>9, <1>11 DEF Next, QueueStep

\* A job costs the queue five steps at most: nothing makes it go in circles.
THEOREM QueueStepsEnd == Spec => QueueRunsOut
<1>1. ASSUME IInv, TypeOK', QueueInv', [Next]_vars
      PROVE  IF Sends THEN StepsLeft' = StepsLeft + 5
             ELSE <<queueVars, work>>' # <<queueVars, work>> => StepsLeft' < StepsLeft
  <2>1. Len(work) \in Nat /\ Stage \in 0..5
    BY <1>1, StageType, LenProperties DEF IInv, TypeOK
  <2>2. PICK n \in Nat : n = Len(work')
    BY <1>1, LenProperties DEF TypeOK
  <2>3. PICK s \in 0..5 : s = Stage'
    BY DEF Stage
  <2>4. StepsLeft = 5 * Len(work) + Stage /\ StepsLeft' = 5 * n + s
    BY <2>2, <2>3 DEF StepsLeft
  <2>5. \/ Sends /\ n = Len(work) + 1 /\ s = Stage
        \/ ~Sends /\ n = Len(work) /\ s < Stage
        \/ ~Sends /\ n = Len(work) - 1 /\ Stage = 1
        \/ ~Sends /\ UNCHANGED <<queueVars, work>>
    BY <1>1, <2>2, <2>3, StagesFall
  <2> QED BY <2>1, <2>4, <2>5
<1>2. IInv => TypeOK /\ QueueInv
  BY DEF IInv
<1>3. IInv /\ (TypeOK /\ QueueInv)' /\ [Next]_vars =>
        [IF Sends THEN StepsLeft' = StepsLeft + 5
         ELSE <<queueVars, work>>' # <<queueVars, work>> => StepsLeft' < StepsLeft]_vars
  BY <1>1
<1> QED BY <1>2, <1>3, Invariance, PTL DEF Spec, QueueRunsOut

=============================================================================
