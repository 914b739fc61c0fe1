------------------------- MODULE ExportPackageProofs -------------------------
(***************************************************************************)
(* Proofs about exports, for any items, workers, versions and options and  *)
(* any number of exports and faults: what a package does not contain is in *)
(* an earlier one, what its manifest lists is in its files, a published    *)
(* package does not change, and a failed export leaves no directory.       *)
(*                                                                         *)
(* The pool of the items is the one of WorkerPool, and so are the lemmas   *)
(* about it: here it also has to be ended, or cancelled, between exports.  *)
(***************************************************************************)
EXTENDS ExportPackage, FiniteSetTheorems, WellFoundedInduction, TLAPS

PP == INSTANCE WorkerPoolProofs WITH Tasks <- Items, NoTask <- NoItem

-----------------------------------------------------------------------------
(* The invariant *)

\* A pool whose collector has not returned belongs to the export that is at its
\* items. Workers are left to the later stages by a cancel only.
PoolInv ==
  /\ PP!SafeInv
  /\ stage = "items" => PP!KeptInv /\ PP!EndInv
  /\ returned = "no" => stage = "items"
  /\ stage = "items" /\ returned = "error" => cancelled
  /\ ~Pool!AllEnded => stage = "items" \/ (cancelled /\ stage \in {"cleanup", "idle"})

\* The numbers of the exports, and the directories that go with them.
NumberInv ==
  /\ partial \cup published \subseteq 1..current
  /\ stage # "idle" => current \in partial /\ fate[current] = "running"
  /\ ~Pool!AllEnded => current \in Exports
  /\ \A n \in Exports : manifest[n] # NoManifest => n \in partial \cup published
  /\ \A n \in published : fate[n] = "published" /\ manifest[n] # NoManifest
  /\ \A n \in Exports :
       n = current /\ manifest[n] # NoManifest =>
         Pool!AllEnded /\ stage \in {"publish", "cleanup", "idle"}
  /\ stage = "publish" => manifest[current] = [options |-> request.options, items |-> collected]

\* What a worker has in its hands.
EntryInv ==
  \A w \in Workers :
    /\ entry[w] # Zero => worker[w] \in {"busy", "sending"}
    /\ worker[w] = "busy" /\ entry[w] # Zero => entry[w].result = "full"
    /\ worker[w] = "sending" => entry[w].result # "zero"
    /\ entry[w].result = "full" => entry[w].version \in Versions
    /\ entry[w].result = "skipped" =>
         entry[w].version \in Versions /\ entry[w].version = baseline[task[w]]
    /\ stage = "items" /\ worker[w] = "sending" /\ entry[w].result = "full" =>
         files[current][task[w]] = entry[w].version

\* What the collector has.
CollectedInv ==
  \A i \in Items :
    /\ stage = "items" => (i \in results <=> collected[i].result # "zero")
    /\ stage \in {"people", "manifest", "publish"} /\ ~cancelled => collected[i].result # "zero"
    /\ stage = "library" => collected[i].result = "zero"
    /\ stage \in {"items", "people", "manifest", "publish"} =>
         /\ collected[i].result = "full" => files[current][i] = collected[i].version
         /\ collected[i].result = "skipped" =>
              collected[i].version \in Versions /\ collected[i].version = baseline[i]

\* The fingerprints an incremental export skips by were exported in full.
BaselineInv ==
  stage # "idle" =>
    \A i \in Items :
      baseline[i] # NoVersion =>
        \E m \in Listed : /\ m < current
                          /\ manifest[m].options = request.options
                          /\ manifest[m].items[i] = Entry("full", baseline[i])

IInv ==
  /\ TypeOK /\ PoolInv /\ NumberInv /\ EntryInv /\ CollectedInv /\ BaselineInv
  /\ SkippedWasExported /\ ListedIsBacked
  /\ FailureLeavesNothing /\ CompleteUnlessCancelled

-----------------------------------------------------------------------------
(* The pool *)

LEMMA PoolConstants == NoItem \notin Items /\ Workers # {}
BY ExportAssumption

\* The pool of the model and the pool the lemmas are about.
LEMMA OnePool ==
  /\ Pool!AllEnded = PP!AllEnded
  /\ Pool!TypeOK = PP!TypeOK
BY DEF Pool!AllEnded, PP!AllEnded, Pool!TypeOK, PP!TypeOK

PoolMove == PoolStep \/ CancelJob \/ \E w \in Workers : WorkerStep(w)

\* The steps of the workers, and a step of another part, are steps of the pool.
LEMMA PoolMoves ==
  ASSUME PoolMove \/ UNCHANGED <<poolVars, controlVars>>
  PROVE  [PP!Next]_(PP!vars)
<1>1. CASE PoolStep
  <2>1. \/ PP!DispatcherStep \/ PP!CloseResults \/ PP!CollectorStep
        \/ \E w \in Workers : PP!Dispatch(w)
    BY <1>1 DEF PoolStep, Pool!DispatcherStep, PP!DispatcherStep, Pool!WaitIfPaused, PP!WaitIfPaused,
       Pool!DispatcherCancelled, PP!DispatcherCancelled, Pool!CloseResults, PP!CloseResults,
       Pool!CollectorStep, PP!CollectorStep, Pool!ReturnResults, PP!ReturnResults, Pool!ReturnError,
       PP!ReturnError, Pool!Dispatch, PP!Dispatch, Pool!AllEnded, PP!AllEnded, Pool!controlVars,
       PP!controlVars
  <2> QED BY <2>1 DEF PP!Next, PP!WorkerStep
<1>2. CASE CancelJob
  BY <1>2 DEF CancelJob, Pool!Cancel, PP!Cancel, Pool!poolVars, PP!poolVars, PP!Next
<1>3. ASSUME UNCHANGED <<poolVars, controlVars>> PROVE UNCHANGED PP!vars
  BY <1>3 DEF poolVars, controlVars, PP!vars, PP!poolVars, PP!controlVars
<1>4. ASSUME NEW w \in Workers, WorkerStep(w) PROVE [PP!Next]_(PP!vars)
  <2>1. \/ Pool!Process(w) \/ Pool!Send(w) \/ Pool!WorkerEnds(w)
        \/ UNCHANGED <<poolVars, controlVars>>
    BY <1>4 DEF WorkerStep, ExportItem, WriteItem, WriteItemFails, Collect, WorkerEnds
  <2>2. \/ PP!Process(w) \/ PP!Send(w) \/ PP!WorkerEnds(w)
        \/ UNCHANGED <<poolVars, controlVars>>
    BY <2>1 DEF Pool!Process, PP!Process, Pool!Send, PP!Send, Pool!WorkerEnds, PP!WorkerEnds,
                Pool!controlVars, PP!controlVars
  <2> QED BY <1>3, <2>2 DEF PP!Next, PP!WorkerStep
<1> QED BY <1>1, <1>2, <1>3, <1>4 DEF PoolMove

LEMMA PoolMoveKeeps ==
  ASSUME PP!SafeInv, PoolMove \/ UNCHANGED <<poolVars, controlVars>>
  PROVE  /\ PP!SafeInv'
         /\ PP!KeptInv => PP!KeptInv'
         /\ PP!EndInv => PP!EndInv'
         /\ cancelled => cancelled'
         /\ Pool!AllEnded => Pool!AllEnded'
         /\ returned' = returned \/ (returned = "no" /\ (returned' = "error" => cancelled'))
<1>1. [PP!Next]_(PP!vars)
  BY PoolMoves
<1>2. Pool!AllEnded' = PP!AllEnded'
  BY DEF Pool!AllEnded, PP!AllEnded
<1> QED BY <1>1, <1>2, OnePool, PoolConstants, PP!NextInv, PP!NextForward

\* The parts that no step of another part of an export disturbs.
LEMMA PoolMoveStage == PoolMove => UNCHANGED <<requestVars, stage, fate, published, manifest>>
BY DEF PoolMove, PoolStep, CancelJob, WorkerStep, ExportItem, WriteItem, WriteItemFails, Collect,
       WorkerEnds, diskVars

\* The steps of Export itself leave the pool alone, but for its start.
QuietStep ==
  \/ ReadLibraryFails \/ Cancelled \/ ItemsDone \/ PeopleDone
  \/ WriteManifest \/ Publish \/ PublishFails \/ RemovePartial \/ RemovePartialFails

LEMMA NextIs ==
  ASSUME [Next]_vars
  PROVE  \/ PoolMove \/ Begin \/ ReadLibrary \/ Crash \/ Edit \/ QuietStep \/ UNCHANGED vars
BY DEF Next, PoolMove, QuietStep, ExportStep

LEMMA Quiet ==
  QuietStep \/ Edit \/ UNCHANGED vars => UNCHANGED <<poolVars, controlVars, entry>>
BY DEF QuietStep, ReadLibraryFails, Cancelled, ItemsDone, PeopleDone, WriteManifest, Publish,
   PublishFails, RemovePartial, RemovePartialFails, Edit, workVars, vars

LEMMA PoolStart ==
  ASSUME PP!SafeInv, ReadLibrary
  PROVE  PP!SafeInv' /\ PP!KeptInv' /\ PP!EndInv'
<1>1. /\ todo' = Items /\ dispatcher' = "ready" /\ results' = {} /\ resultsClosed' = FALSE
      /\ worker' = [w \in Workers |-> "idle"] /\ task' = [w \in Workers |-> NoItem]
      /\ returned' = "no" /\ UNCHANGED <<paused, cancelled>>
  BY DEF ReadLibrary, Pool!StartPool, controlVars
<1>2. PP!TypeOK'
  BY <1>1 DEF PP!SafeInv, PP!TypeOK
<1>3. PP!HoldInv' /\ PP!ApartInv' /\ PP!ClosedInv'
  BY <1>1, PoolConstants DEF PP!HoldInv, PP!ApartInv, PP!NoTaskTwice, PP!ClosedInv
<1>4. PP!KeptInv' /\ PP!EndInv'
  BY <1>1 DEF PP!KeptInv, PP!EndInv
<1> QED BY <1>2, <1>3, <1>4 DEF PP!SafeInv

LEMMA PoolInvStep == IInv /\ [Next]_vars => PoolInv'
<1> SUFFICES ASSUME IInv, [Next]_vars PROVE PoolInv'
  OBVIOUS
<1>0. PoolInv /\ PP!SafeInv
  BY DEF IInv, PoolInv
<1>1. CASE PoolMove
  BY <1>0, <1>1, PoolMoveKeeps, PoolMoveStage DEF PoolInv
<1>2. CASE QuietStep \/ Edit \/ UNCHANGED vars
  <2>0. UNCHANGED <<poolVars, controlVars>>
    BY <1>2, Quiet
  <2>1. /\ PP!SafeInv' /\ (PP!KeptInv => PP!KeptInv') /\ (PP!EndInv => PP!EndInv')
        /\ Pool!AllEnded' = Pool!AllEnded
    BY <1>0, <2>0, PoolMoveKeeps DEF poolVars, Pool!AllEnded
  <2>2. returned = "results" => Pool!AllEnded
    BY <1>0, OnePool DEF PP!SafeInv, PP!ClosedInv
  <2>3. CASE Edit \/ UNCHANGED vars
    BY <1>0, <2>0, <2>1, <2>3 DEF PoolInv, Edit, vars, poolVars, controlVars
  <2>4. CASE ReadLibraryFails \/ PeopleDone \/ WriteManifest \/ Publish
    BY <1>0, <2>0, <2>1, <2>4 DEF PoolInv, ReadLibraryFails, PeopleDone, WriteManifest, Publish, poolVars,
                                  controlVars
  <2>5. CASE Cancelled \/ ItemsDone \/ PublishFails
    BY <1>0, <2>0, <2>1, <2>2, <2>5 DEF PoolInv, Cancelled, ItemsDone, PublishFails, poolVars, controlVars
  <2>6. CASE RemovePartial \/ RemovePartialFails
    BY <1>0, <2>0, <2>1, <2>6 DEF PoolInv, RemovePartial, RemovePartialFails, poolVars, controlVars
  <2> QED BY <1>2, <2>3, <2>4, <2>5, <2>6 DEF QuietStep
<1>3. CASE Begin
  <2>1. UNCHANGED poolVars /\ paused' = FALSE /\ cancelled' = FALSE /\ stage = "idle" /\ stage' = "library"
    BY <1>3 DEF Begin
  <2>2. PP!SafeInv'
    BY <1>0, <2>1 DEF poolVars, PP!SafeInv, PP!TypeOK, PP!HoldInv, PP!ApartInv, PP!NoTaskTwice,
                      PP!ClosedInv, PP!AllEnded
  <2>3. Pool!AllEnded'
    BY <1>3 DEF Begin, poolVars, Pool!AllEnded
  <2> QED BY <1>0, <2>1, <2>2, <2>3 DEF PoolInv, poolVars
<1>4. CASE ReadLibrary
  BY <1>0, <1>4, PoolStart DEF PoolInv, ReadLibrary, Pool!StartPool
<1>5. CASE Crash
  <2>1. /\ stage' = "idle" /\ todo' = {} /\ dispatcher' = "done"
        /\ worker' = [w \in Workers |-> "ended"] /\ task' = [w \in Workers |-> NoItem]
        /\ results' = {} /\ resultsClosed' = TRUE /\ returned' = "results"
        /\ paused' = FALSE /\ cancelled' = FALSE
    BY <1>5 DEF Crash
  <2>2. PP!SafeInv' /\ Pool!AllEnded'
    BY <2>1, PoolConstants DEF PP!SafeInv, PP!TypeOK, PP!HoldInv, PP!ApartInv, PP!NoTaskTwice,
                 PP!ClosedInv, PP!AllEnded, Pool!AllEnded
  <2> QED BY <2>1, <2>2 DEF PoolInv
<1> QED BY <1>1, <1>2, <1>3, <1>4, <1>5, NextIs

-----------------------------------------------------------------------------
(* The baseline *)

\* A bounded set of numbers has its maximum: the end of the smallest interval
\* that contains the set.
LEMMA MaxMember ==
  ASSUME NEW S \in SUBSET Nat, S # {}, NEW b \in Nat, \A x \in S : x <= b
  PROVE  Max(S) \in S
<1> DEFINE Bounds == {u \in Nat : \A x \in S : x <= u}
           Intervals == {0..u : u \in Bounds}
           F == FiniteSubsetsOf(Nat)
           R == StrictSubsetOrdering(Nat)
<1>1. \A u \in Nat : IsFiniteSet(0..u)
  BY FS_Interval
<1>2. Intervals \subseteq F /\ Intervals # {}
  BY <1>1 DEF FiniteSubsetsOf
<1>3. IsWellFoundedOn(R, F)
  BY FS_StrictSubsetOrderingWellFounded
<1> HIDE DEF Intervals, F, R
<1>4. PICK x \in Intervals : \A y \in Intervals : <<y, x>> \notin R
  BY <1>2, <1>3, WFMin
<1>5. PICK m \in Bounds : x = 0..m
  BY DEF Intervals
<1>6. m \in S
  <2> SUFFICES ASSUME m \notin S PROVE FALSE
    OBVIOUS
  <2>0. PICK y \in S : TRUE
    OBVIOUS
  <2>1. m # 0 /\ m - 1 \in Bounds
    <3>1. m \in Nat /\ \A z \in S : z \in Nat /\ z <= m /\ z # m
      BY <1>5
    <3> QED BY <2>0, <3>1
  <2>2. 0..m - 1 \subseteq 0..m /\ m \in 0..m /\ m \notin 0..m - 1
    BY <2>1
  <2>3. <<0..m - 1, 0..m>> \in R
    BY <2>1, <2>2 DEF R, StrictSubsetOrdering
  <2>4. 0..m - 1 \notin Intervals
    BY <1>4, <1>5, <2>3
  <2> QED BY <2>1, <2>4 DEF Intervals
<1>7. \E z \in S : \A y \in S : z >= y
  BY <1>6
<1> QED BY <1>7 DEF Max

LEMMA BaselineType ==
  ASSUME TypeOK, NEW options \in Options, NEW i \in Items
  PROVE  /\ LatestBaselineManifest(options)[i] \in Versions \cup {NoVersion}
         /\ LatestBaselineManifest(options)[i] # NoVersion =>
              \E n \in Listed : /\ manifest[n].options = options
                               /\ manifest[n].items[i].result \in {"full", "skipped"}
                               /\ manifest[n].items[i].version = LatestBaselineManifest(options)[i]
<1> DEFINE usable == {n \in Listed : SameExportOptions(n, options)}
<1>1. LatestBaselineManifest(options)[i] =
        IF usable = {} THEN NoVersion ELSE Fingerprint(manifest[Max(usable)].items[i])
  BY DEF LatestBaselineManifest
<1>2. CASE usable = {}
  BY <1>1, <1>2
<1>3. CASE usable # {}
  <2>0. partial \subseteq Exports /\ published \subseteq Exports
    BY DEF TypeOK
  <2>1. MaxExports \in Nat /\ \A n \in usable : n \in Nat /\ n <= MaxExports
    BY <2>0, ExportAssumption DEF Listed, Exports
  <2>2. Max(usable) \in usable
    <3> HIDE DEF usable
    <3> QED BY <1>3, <2>1, MaxMember
  <2> DEFINE n == Max(usable)
  <2>3. n \in Listed /\ manifest[n].options = options /\ manifest[n] \in Manifests
    BY <2>2 DEF Listed, SameExportOptions, TypeOK
  <2>4. LatestBaselineManifest(options)[i] = Fingerprint(manifest[n].items[i])
    BY <1>1, <1>3
  <2> HIDE DEF n
  <2>5. manifest[n].items[i] \in Entries
    BY <2>3 DEF Manifests
  <2>6. manifest[n].items[i].version \in Versions \cup {NoVersion}
    BY <2>5 DEF Entries
  <2> QED BY <2>3, <2>4, <2>6 DEF Fingerprint
<1> QED BY <1>2, <1>3

\* What an export would skip by was exported in full before: if the latest
\* package skipped it as well, then by an earlier one.
LEMMA BaselineWasExported ==
  ASSUME TypeOK, SkippedWasExported, NEW options \in Options, NEW i \in Items,
         LatestBaselineManifest(options)[i] # NoVersion
  PROVE  \E m \in Listed : /\ manifest[m].options = options
                           /\ manifest[m].items[i] = Entry("full", LatestBaselineManifest(options)[i])
<1>1. PICK n \in Listed :
        /\ manifest[n].options = options
        /\ manifest[n].items[i].result \in {"full", "skipped"}
        /\ manifest[n].items[i].version = LatestBaselineManifest(options)[i]
  BY BaselineType
<1>2. CASE manifest[n].items[i].result = "full"
  <2>1. manifest[n].items[i] \in Entries
    BY DEF TypeOK, Listed, Manifests
  <2>2. manifest[n].items[i] = Entry("full", manifest[n].items[i].version)
    BY <1>2, <2>1 DEF Entries, Entry
  <2> QED BY <1>1, <2>2
<1>3. CASE manifest[n].items[i].result = "skipped"
  BY <1>1, <1>3 DEF SkippedWasExported
<1> QED BY <1>1, <1>2, <1>3

-----------------------------------------------------------------------------
(* Types *)

LEMMA EntryType ==
  /\ Zero \in Entries /\ Zero.result = "zero"
  /\ \A v \in Versions \cup {NoVersion}, r \in {"zero", "error", "full", "skipped"} :
       /\ Entry(r, v) \in Entries
       /\ Entry(r, v).result = r /\ Entry(r, v).version = v
BY DEF Zero, Entry, Entries

\* The variables of an export that are not the pool's.
OwnTypeOK ==
  /\ source \in [Items -> Versions] /\ listing \in [Items -> Versions]
  /\ stage \in {"idle", "library", "items", "people", "manifest", "publish", "cleanup"}
  /\ current \in 0..MaxExports
  /\ request \in [options : Options, incremental : BOOLEAN]
  /\ baseline \in [Items -> Versions \cup {NoVersion}]
  /\ entry \in [Workers -> Entries] /\ collected \in [Items -> Entries]
  /\ partial \subseteq Exports /\ published \subseteq Exports
  /\ files \in [Exports -> [Items -> Versions \cup {NoVersion}]]
  /\ manifest \in [Exports -> Manifests \cup {NoManifest}]
  /\ fate \in [Exports -> {"none", "running", "published", "failed", "uncleaned", "crashed"}]

LEMMA Types == TypeOK <=> PP!TypeOK /\ OwnTypeOK
BY OnePool DEF TypeOK, OwnTypeOK

\* What a worker has a result for is an item.
LEMMA HeldTask ==
  ASSUME PP!SafeInv, NEW w \in Workers, worker[w] \in {"busy", "sending"}
  PROVE  task[w] \in Items /\ task[w] \notin results
         /\ \A v \in Workers : v # w => task[v] # task[w]
BY DEF PP!SafeInv, PP!TypeOK, PP!HoldInv, PP!ApartInv, PP!NoTaskTwice

\* What exportItem finds out before it writes.
LEMMA Exported ==
  ASSUME OwnTypeOK, PP!SafeInv, NEW w \in Workers, ExportItem(w)
  PROVE  \E e \in Entries :
           /\ entry' = [entry EXCEPT ![w] = e]
           /\ \/ e.result = "error" /\ Pool!Process(w)
              \/ /\ e.result = "skipped" /\ Pool!Process(w)
                 /\ e.version \in Versions /\ e.version = baseline[task[w]]
              \/ /\ e.result = "full" /\ UNCHANGED <<poolVars, controlVars>>
                 /\ e.version \in Versions
<1>1. task[w] \in Items
  BY HeldTask DEF ExportItem
<1>2. CASE entry' = [entry EXCEPT ![w] = Entry("error", NoVersion)] /\ Pool!Process(w)
  <2>1. Entry("error", NoVersion) \in Entries /\ Entry("error", NoVersion).result = "error"
    BY EntryType
  <2> QED BY <1>2, <2>1
<1>3. ASSUME NEW v \in {listing[task[w]]} \cup (IF cancelled THEN {} ELSE {source[task[w]]}),
             IF baseline[task[w]] = v
             THEN /\ entry' = [entry EXCEPT ![w] = Entry("skipped", v)]
                  /\ Pool!Process(w)
             ELSE /\ entry' = [entry EXCEPT ![w] = Entry("full", v)]
                  /\ UNCHANGED <<poolVars, controlVars>>
      PROVE  \E e \in Entries :
               /\ entry' = [entry EXCEPT ![w] = e]
               /\ \/ e.result = "skipped" /\ Pool!Process(w)
                     /\ e.version \in Versions /\ e.version = baseline[task[w]]
                  \/ /\ e.result = "full" /\ UNCHANGED <<poolVars, controlVars>>
                     /\ e.version \in Versions
  <2>1. v \in Versions
    BY <1>1 DEF OwnTypeOK
  <2> QED BY <1>3, <2>1, EntryType
<1> QED BY <1>2, <1>3 DEF ExportItem

LEMMA OwnTypeStep == IInv /\ [Next]_vars => OwnTypeOK'
<1> SUFFICES ASSUME IInv, [Next]_vars PROVE OwnTypeOK'
  OBVIOUS
<1>0. OwnTypeOK /\ PP!SafeInv /\ (stage # "idle" => current \in Exports)
  BY Types DEF IInv, PoolInv, NumberInv, TypeOK
<1>1. CASE Begin
  <2>1. current' \in Exports /\ current + 1 \in Exports
    BY <1>0, <1>1, ExportAssumption DEF Begin, OwnTypeOK, Exports
  <2>2. request' \in [options : Options, incremental : BOOLEAN]
        /\ baseline' \in [Items -> Versions \cup {NoVersion}]
    <3>1. PICK options \in Options, incremental \in BOOLEAN :
            /\ request' = [options |-> options, incremental |-> incremental]
            /\ baseline' = IF incremental THEN LatestBaselineManifest(options)
                                          ELSE [i \in Items |-> NoVersion]
      BY <1>1 DEF Begin
    <3>2. LatestBaselineManifest(options) \in [Items -> Versions \cup {NoVersion}]
      <4>1. \A i \in Items : LatestBaselineManifest(options)[i] \in Versions \cup {NoVersion}
        BY BaselineType DEF IInv
      <4> DEFINE usable == {n \in Listed : SameExportOptions(n, options)}
                 g(i) == IF usable = {} THEN NoVersion
                                        ELSE Fingerprint(manifest[Max(usable)].items[i])
      <4>2. LatestBaselineManifest(options) = [i \in Items |-> g(i)]
        BY DEF LatestBaselineManifest
      <4> HIDE DEF g
      <4> QED BY <4>1, <4>2
    <3> QED BY <3>1, <3>2
  <2>3. collected' \in [Items -> Entries]
    BY <1>1, EntryType DEF Begin
  <2> QED BY <1>0, <1>1, <2>1, <2>2, <2>3, ExportAssumption DEF Begin, OwnTypeOK, Exports
<1>2. CASE ReadLibrary
  BY <1>0, <1>2 DEF ReadLibrary, OwnTypeOK, workVars, diskVars
<1>3. CASE Crash
  BY <1>0, <1>3, EntryType DEF Crash, OwnTypeOK, diskVars, requestVars
<1>4. CASE Edit
  BY <1>0, <1>4 DEF Edit, OwnTypeOK, workVars, diskVars, requestVars
<1>5. CASE UNCHANGED vars
  BY <1>0, <1>5 DEF vars, OwnTypeOK, workVars, diskVars, requestVars
<1>6. CASE QuietStep
  <2>1. CASE Cancelled \/ ItemsDone \/ PeopleDone \/ PublishFails
    BY <1>0, <2>1 DEF Cancelled, ItemsDone, PeopleDone, PublishFails, OwnTypeOK, workVars, diskVars,
                      requestVars
  <2>2. CASE ReadLibraryFails
    BY <1>0, <2>2, EntryType DEF ReadLibraryFails, OwnTypeOK, diskVars, requestVars
  <2>3. CASE WriteManifest
    <3>1. [options |-> request.options, items |-> collected] \in Manifests
      BY <1>0 DEF OwnTypeOK, Manifests
    <3> QED BY <1>0, <2>3, <3>1 DEF WriteManifest, OwnTypeOK, workVars, requestVars
  <2>4. CASE Publish
    BY <1>0, <2>4 DEF Publish, OwnTypeOK, workVars, requestVars
  <2>5. CASE RemovePartial \/ RemovePartialFails
    <3>1. [i \in Items |-> NoVersion] \in [Items -> Versions \cup {NoVersion}]
      OBVIOUS
    <3>2. files' \in [Exports -> [Items -> Versions \cup {NoVersion}]]
      BY <1>0, <2>5, <3>1 DEF RemovePartial, RemovePartialFails, OwnTypeOK
    <3>3. manifest' \in [Exports -> Manifests \cup {NoManifest}]
      BY <1>0, <2>5 DEF RemovePartial, RemovePartialFails, OwnTypeOK
    <3> QED BY <1>0, <2>5, <3>2, <3>3
            DEF RemovePartial, RemovePartialFails, OwnTypeOK, workVars, requestVars
  <2> QED BY <1>6, <2>1, <2>2, <2>3, <2>4, <2>5 DEF QuietStep
<1>7. CASE PoolStep \/ CancelJob
  BY <1>0, <1>7 DEF PoolStep, CancelJob, OwnTypeOK, workVars, diskVars, requestVars
<1>8. ASSUME NEW w \in Workers, WorkerStep(w) PROVE OwnTypeOK'
  <2>1. CASE ExportItem(w)
    <3>1. entry' \in [Workers -> Entries]
      BY <1>0, <2>1, Exported DEF OwnTypeOK
    <3> QED BY <1>0, <2>1, <3>1 DEF ExportItem, OwnTypeOK, diskVars, requestVars
  <2>2. CASE WriteItem(w)
    <3>1. task[w] \in Items /\ current \in Exports
      BY <1>0, <2>2, HeldTask DEF WriteItem, Pool!Process, IInv, NumberInv, Pool!AllEnded
    <3>2. files' \in [Exports -> [Items -> Versions \cup {NoVersion}]]
      <4>1. entry[w].version \in Versions \cup {NoVersion}
        BY <1>0 DEF OwnTypeOK, Entries
      <4>2. files' = [files EXCEPT ![current] = [files[current] EXCEPT ![task[w]] = entry[w].version]]
        BY <2>2 DEF WriteItem
      <4>3. [files[current] EXCEPT ![task[w]] = entry[w].version] \in [Items -> Versions \cup {NoVersion}]
        BY <1>0, <3>1, <4>1 DEF OwnTypeOK
      <4> QED BY <1>0, <4>2, <4>3 DEF OwnTypeOK
    <3> QED BY <1>0, <2>2, <3>1, <3>2 DEF WriteItem, OwnTypeOK, workVars, requestVars
  <2>3. CASE WriteItemFails(w)
    <3>1. [entry[w] EXCEPT !.result = "error"] \in Entries
      BY <1>0 DEF OwnTypeOK, Entries
    <3> QED BY <1>0, <2>3, <3>1 DEF WriteItemFails, OwnTypeOK, diskVars, requestVars
  <2>4. CASE Collect(w)
    BY <1>0, <2>4, EntryType DEF Collect, OwnTypeOK, diskVars, requestVars
  <2>5. CASE WorkerEnds(w)
    BY <1>0, <2>5, EntryType DEF WorkerEnds, OwnTypeOK, diskVars, requestVars
  <2> QED BY <1>8, <2>1, <2>2, <2>3, <2>4, <2>5 DEF WorkerStep
<1> QED BY <1>1, <1>2, <1>3, <1>4, <1>5, <1>6, <1>7, <1>8, NextIs DEF PoolMove

-----------------------------------------------------------------------------
(* Numbers and directories *)

\* With all workers ended, only a cancel is left to happen to the pool.
LEMMA EndedMoves ==
  ASSUME PoolMove, Pool!AllEnded
  PROVE  UNCHANGED <<entry, collected, partial, files>>
<1>1. ASSUME NEW w \in Workers, WorkerStep(w) PROVE FALSE
  <2>1. worker[w] \in {"busy", "sending", "idle"}
    BY <1>1 DEF WorkerStep, ExportItem, WriteItem, WriteItemFails, Collect, WorkerEnds, Pool!Process,
                Pool!Send, Pool!WorkerEnds
  <2> QED BY <2>1 DEF Pool!AllEnded
<1>2. CASE PoolStep \/ CancelJob
  BY <1>2 DEF PoolStep, CancelJob, workVars, diskVars
<1> QED BY <1>1, <1>2 DEF PoolMove

\* A worker writes into the directory of the running, or the last, export.
LEMMA MoveWrites ==
  ASSUME IInv, PoolMove
  PROVE  /\ partial' \in {partial, partial \cup {current}}
         /\ partial' # partial => ~Pool!AllEnded
         /\ \A n \in Exports : n # current => files'[n] = files[n]
<1>1. CASE Pool!AllEnded
  BY <1>1, EndedMoves
<1>2. CASE ~Pool!AllEnded
  <2>1. ASSUME NEW w \in Workers, WriteItem(w)
        PROVE  partial' = partial \cup {current} /\ \A n \in Exports : n # current => files'[n] = files[n]
    BY <2>1 DEF WriteItem, IInv, TypeOK
  <2>2. ASSUME PoolStep \/ CancelJob \/ \E w \in Workers : WorkerStep(w) /\ ~WriteItem(w)
        PROVE  UNCHANGED <<partial, files>>
    BY <2>2 DEF PoolStep, CancelJob, WorkerStep, ExportItem, WriteItemFails, Collect, WorkerEnds,
                workVars, diskVars
  <2> QED BY <1>2, <2>1, <2>2 DEF PoolMove, WorkerStep
<1> QED BY <1>1, <1>2

LEMMA NumberStep == IInv /\ PoolInv' /\ [Next]_vars => NumberInv'
<1> SUFFICES ASSUME IInv, PoolInv', [Next]_vars PROVE NumberInv'
  OBVIOUS
<1>0. /\ NumberInv /\ PoolInv
      /\ current \in Nat /\ (stage # "idle" => current \in Exports /\ current \notin published)
      /\ manifest \in [Exports -> Manifests \cup {NoManifest}]
      /\ fate \in [Exports -> {"none", "running", "published", "failed", "uncleaned", "crashed"}]
  BY ExportAssumption DEF IInv, NumberInv, TypeOK
<1>1. CASE PoolMove
  <2>1. UNCHANGED <<requestVars, stage, fate, published, manifest>>
    BY <1>1, PoolMoveStage
  <2>2. /\ Pool!AllEnded => Pool!AllEnded'
        /\ Pool!AllEnded => collected' = collected
    BY <1>0, <1>1, PoolMoveKeeps, EndedMoves DEF PoolInv
  <2>3. partial' \in {partial, partial \cup {current}} /\ (partial' # partial => current \in Exports)
    BY <1>0, <1>1, MoveWrites DEF NumberInv
  <2>4. stage = "publish" => Pool!AllEnded
    BY <1>0 DEF PoolInv
  <2> QED BY <1>0, <2>1, <2>2, <2>3, <2>4 DEF NumberInv, requestVars, Exports
<1>2. CASE Begin
  <2>1. /\ current' = current + 1 /\ current + 1 \in Exports /\ stage' = "library"
        /\ partial' = partial \cup {current + 1}
        /\ fate' = [fate EXCEPT ![current + 1] = "running"]
        /\ UNCHANGED <<published, manifest>>
    BY <1>0, <1>2, ExportAssumption DEF Begin, Exports
  <2>2. current + 1 \notin partial \cup published
    BY <1>0 DEF NumberInv
  <2>3. manifest[current + 1] = NoManifest
    BY <1>0, <2>1, <2>2 DEF NumberInv
  <2>4. fate'[current + 1] = "running" /\ \A n \in published : fate'[n] = fate[n]
    BY <1>0, <2>1, <2>2 DEF IInv, TypeOK
  <2> QED BY <1>0, <2>1, <2>2, <2>3, <2>4 DEF NumberInv
<1>3. CASE ReadLibrary
  BY <1>0, <1>3 DEF NumberInv, ReadLibrary, diskVars
<1>4. CASE Crash
  <2>1. /\ stage' = "idle" /\ fate' = [fate EXCEPT ![current] = "crashed"] /\ stage # "idle"
        /\ UNCHANGED <<partial, published, manifest, current>>
        /\ worker' = [w \in Workers |-> "ended"]
    BY <1>4 DEF Crash, diskVars, requestVars
  <2>2. Pool!AllEnded'
    BY <2>1 DEF Pool!AllEnded
  <2>3. \A n \in published : fate'[n] = fate[n]
    BY <1>0, <2>1 DEF IInv, TypeOK
  <2> QED BY <1>0, <2>1, <2>2, <2>3 DEF NumberInv
<1>5. CASE Edit \/ UNCHANGED vars
  BY <1>0, <1>5 DEF NumberInv, Edit, vars, poolVars, workVars, diskVars, requestVars, Pool!AllEnded
<1>6. CASE QuietStep
  <2>0. Pool!AllEnded' = Pool!AllEnded /\ UNCHANGED requestVars
    BY <1>6, Quiet DEF poolVars, Pool!AllEnded, QuietStep, ReadLibraryFails, Cancelled, ItemsDone,
       PeopleDone, WriteManifest, Publish, PublishFails, RemovePartial, RemovePartialFails
  <2>1. CASE ReadLibraryFails \/ Cancelled \/ ItemsDone \/ PeopleDone \/ PublishFails
    BY <1>0, <2>0, <2>1 DEF NumberInv, ReadLibraryFails, Cancelled, ItemsDone, PeopleDone, PublishFails,
                            diskVars, requestVars
  <2>2. CASE WriteManifest
    <3>1. /\ stage = "manifest" /\ stage' = "publish"
          /\ manifest' = [manifest EXCEPT ![current] = [options |-> request.options, items |-> collected]]
          /\ UNCHANGED <<partial, published, fate, current, request, collected>>
      BY <2>2 DEF WriteManifest, workVars, requestVars
    <3>2. manifest'[current] = [options |-> request.options, items |-> collected]
          /\ \A n \in Exports \ {current} : manifest'[n] = manifest[n]
      BY <1>0, <3>1
    <3>3. Pool!AllEnded
      BY <1>0, <3>1 DEF PoolInv
    <3>4. published \subseteq Exports
      BY DEF IInv, TypeOK
    <3> QED BY <1>0, <2>0, <3>1, <3>2, <3>3, <3>4 DEF NumberInv
  <2>3. CASE Publish
    <3>1. /\ stage = "publish" /\ stage' = "idle"
          /\ partial' = partial \ {current} /\ published' = published \cup {current}
          /\ fate' = [fate EXCEPT ![current] = "published"]
          /\ UNCHANGED <<manifest, current>>
      BY <2>3 DEF Publish, requestVars
    <3>2. manifest[current] # NoManifest
      <4>1. [options |-> request.options, items |-> collected] \in Manifests
        BY DEF IInv, TypeOK, Manifests
      <4> QED BY <1>0, <3>1, <4>1, NoManifestAssumption DEF NumberInv
    <3>3. fate'[current] = "published" /\ \A n \in published : fate'[n] = fate[n]
      BY <1>0, <3>1 DEF IInv, TypeOK
    <3> QED BY <1>0, <2>0, <3>1, <3>2, <3>3 DEF NumberInv
  <2>4. CASE RemovePartial
    <3>1. /\ stage = "cleanup" /\ stage' = "idle"
          /\ partial' = partial \ {current}
          /\ fate' = [fate EXCEPT ![current] = "failed"]
          /\ manifest' = [manifest EXCEPT ![current] = NoManifest]
          /\ UNCHANGED <<published, current>>
      BY <2>4 DEF RemovePartial, requestVars
    <3>2. /\ manifest'[current] = NoManifest
          /\ \A n \in Exports \ {current} : manifest'[n] = manifest[n]
          /\ \A n \in published : fate'[n] = fate[n] /\ n \in Exports
      BY <1>0, <3>1 DEF IInv, TypeOK
    <3> QED BY <1>0, <2>0, <3>1, <3>2 DEF NumberInv
  <2>5. CASE RemovePartialFails
    <3>1. /\ stage = "cleanup" /\ stage' = "idle"
          /\ fate' = [fate EXCEPT ![current] = "uncleaned"]
          /\ manifest' \in {manifest, [manifest EXCEPT ![current] = NoManifest]}
          /\ UNCHANGED <<partial, published, current>>
      BY <2>5 DEF RemovePartialFails, requestVars
    <3>2. /\ manifest'[current] \in {manifest[current], NoManifest}
          /\ \A n \in Exports \ {current} : manifest'[n] = manifest[n]
          /\ \A n \in published : fate'[n] = fate[n] /\ n \in Exports
      BY <1>0, <3>1 DEF IInv, TypeOK
    <3> QED BY <1>0, <2>0, <3>1, <3>2 DEF NumberInv
  <2> QED BY <1>6, <2>1, <2>2, <2>3, <2>4, <2>5 DEF QuietStep
<1> QED BY <1>1, <1>2, <1>3, <1>4, <1>5, <1>6, NextIs

-----------------------------------------------------------------------------
(* The entries of the workers and of the collector *)

EntryOK(w) ==
  /\ entry[w] # Zero => worker[w] \in {"busy", "sending"}
  /\ worker[w] = "busy" /\ entry[w] # Zero => entry[w].result = "full"
  /\ worker[w] = "sending" => entry[w].result # "zero"
  /\ entry[w].result = "full" => entry[w].version \in Versions
  /\ entry[w].result = "skipped" =>
       entry[w].version \in Versions /\ entry[w].version = baseline[task[w]]
  /\ stage = "items" /\ worker[w] = "sending" /\ entry[w].result = "full" =>
       files[current][task[w]] = entry[w].version

LEMMA EntryInvIs == EntryInv <=> \A w \in Workers : EntryOK(w)
BY DEF EntryInv, EntryOK

\* A write into the files of one item leaves those of the others alone.
LEMMA WriteItemFiles ==
  ASSUME IInv, NEW w \in Workers, WriteItem(w)
  PROVE  /\ current \in Exports /\ task[w] \in Items
         /\ files'[current][task[w]] = entry[w].version
         /\ \A i \in Items : i # task[w] => files'[current][i] = files[current][i]
<1>1. current \in Exports /\ task[w] \in Items
  BY HeldTask DEF WriteItem, Pool!Process, IInv, PoolInv, NumberInv, Pool!AllEnded
<1>2. files' = [files EXCEPT ![current] = [files[current] EXCEPT ![task[w]] = entry[w].version]]
  BY DEF WriteItem
<1>3. files'[current] = [files[current] EXCEPT ![task[w]] = entry[w].version]
      /\ files[current] \in [Items -> Versions \cup {NoVersion}]
  BY <1>1, <1>2 DEF IInv, TypeOK
<1> QED BY <1>1, <1>3

\* A step of one worker leaves the others' hands alone.
LEMMA EntryOther ==
  ASSUME IInv, NEW w \in Workers, NEW v \in Workers, v # w, WorkerStep(w)
  PROVE  EntryOK(v)'
<1>0. EntryOK(v) /\ PP!SafeInv /\ worker \in [Workers -> {"idle", "busy", "sending", "ended"}]
      /\ task \in [Workers -> Items \cup {NoItem}] /\ entry \in [Workers -> Entries]
  BY EntryInvIs DEF IInv, PoolInv, PP!SafeInv, PP!TypeOK, TypeOK
<1>1. /\ worker'[v] = worker[v] /\ task'[v] = task[v] /\ entry'[v] = entry[v]
  BY <1>0, Exported DEF WorkerStep, ExportItem, WriteItem, WriteItemFails, Collect, WorkerEnds,
     Pool!Process, Pool!Send, Pool!WorkerEnds, workVars, poolVars
<1>2. UNCHANGED <<baseline, stage, current>>
  BY DEF WorkerStep, ExportItem, WriteItem, WriteItemFails, Collect, WorkerEnds, requestVars
<1>3. CASE UNCHANGED files
  BY <1>0, <1>1, <1>2, <1>3 DEF EntryOK
<1>4. CASE WriteItem(w)
  <2>1. worker[v] = "sending" => task[v] \in Items /\ task[v] # task[w]
    BY <1>0, <1>4, HeldTask DEF WriteItem, Pool!Process
  <2>2. worker[v] = "sending" => files'[current][task[v]] = files[current][task[v]]
    BY <1>4, <2>1, WriteItemFiles
  <2> QED BY <1>0, <1>1, <1>2, <2>2 DEF EntryOK
<1> QED BY <1>3, <1>4 DEF WorkerStep, ExportItem, WriteItemFails, Collect, WorkerEnds, diskVars

LEMMA EntrySelf ==
  ASSUME IInv, NEW w \in Workers, WorkerStep(w)
  PROVE  EntryOK(w)'
<1>0. EntryOK(w) /\ PP!SafeInv /\ worker \in [Workers -> {"idle", "busy", "sending", "ended"}]
      /\ task \in [Workers -> Items \cup {NoItem}] /\ entry \in [Workers -> Entries]
      /\ OwnTypeOK
  BY EntryInvIs, Types DEF IInv, PoolInv, PP!SafeInv, PP!TypeOK, TypeOK
<1>1. CASE ExportItem(w)
  <2>1. PICK e \in Entries :
           /\ entry' = [entry EXCEPT ![w] = e]
           /\ \/ e.result = "error" /\ Pool!Process(w)
              \/ /\ e.result = "skipped" /\ Pool!Process(w)
                 /\ e.version \in Versions /\ e.version = baseline[task[w]]
              \/ /\ e.result = "full" /\ UNCHANGED <<poolVars, controlVars>>
                 /\ e.version \in Versions
    BY <1>0, <1>1, Exported
  <2>2. entry'[w] = e /\ worker[w] = "busy" /\ UNCHANGED baseline
    BY <1>0, <1>1, <2>1 DEF ExportItem, requestVars
  <2>3. CASE e.result \in {"error", "skipped"}
    <3>1. worker'[w] = "sending" /\ task' = task
      BY <1>0, <2>1, <2>3 DEF Pool!Process
    <3> QED BY <2>1, <2>2, <2>3, <3>1 DEF EntryOK
  <2>4. CASE e.result = "full"
    <3>1. worker'[w] = "busy"
      BY <2>1, <2>2, <2>4 DEF poolVars
    <3> QED BY <2>1, <2>2, <2>4, <3>1 DEF EntryOK
  <2> QED BY <2>1, <2>3, <2>4
<1>2. CASE WriteItem(w)
  <2>1. worker'[w] = "sending" /\ UNCHANGED <<task, entry, current, baseline>> /\ entry[w].result = "full"
    BY <1>0, <1>2 DEF WriteItem, Pool!Process, workVars, requestVars
  <2>2. files'[current][task[w]] = entry[w].version
    BY <1>2, WriteItemFiles
  <2> QED BY <1>0, <2>1, <2>2 DEF EntryOK
<1>3. CASE WriteItemFails(w)
  <2>1. worker'[w] = "sending" /\ entry'[w].result = "error"
    BY <1>0, <1>3 DEF WriteItemFails, Pool!Process, Entries
  <2> QED BY <2>1 DEF EntryOK
<1>4. CASE Collect(w) \/ WorkerEnds(w)
  <2>1. entry'[w] = Zero /\ worker'[w] \in {"idle", "ended"}
    BY <1>0, <1>4 DEF Collect, WorkerEnds, Pool!Send, Pool!WorkerEnds
  <2> QED BY <2>1, EntryType DEF EntryOK
<1> QED BY <1>1, <1>2, <1>3, <1>4 DEF WorkerStep

\* The workers of an ended pool have nothing in their hands.
LEMMA EndedEmpty ==
  ASSUME EntryInv, Pool!AllEnded
  PROVE  \A w \in Workers : entry[w] = Zero
BY DEF EntryInv, Pool!AllEnded

LEMMA EntryStep == IInv /\ [Next]_vars => EntryInv'
<1> SUFFICES ASSUME IInv, [Next]_vars, NEW w \in Workers PROVE EntryOK(w)'
  BY EntryInvIs DEF EntryInv, EntryOK
<1>0. EntryOK(w) /\ EntryInv /\ PoolInv /\ worker \in [Workers -> {"idle", "busy", "sending", "ended"}]
      /\ task \in [Workers -> Items \cup {NoItem}] /\ entry \in [Workers -> Entries]
  BY EntryInvIs DEF IInv, PoolInv, PP!SafeInv, PP!TypeOK, TypeOK
<1>1. CASE \E v \in Workers : WorkerStep(v)
  BY <1>1, EntryOther, EntrySelf
<1>2. CASE PoolStep
  <2>1. UNCHANGED <<entry, files, baseline, stage, current>>
    BY <1>2 DEF PoolStep, workVars, diskVars, requestVars
  <2>2. \/ worker'[w] = worker[w] /\ task'[w] = task[w]
        \/ worker[w] = "idle" /\ worker'[w] = "busy"
    BY <1>0, <1>2 DEF PoolStep, Pool!DispatcherStep, Pool!WaitIfPaused, Pool!DispatcherCancelled,
       Pool!CloseResults, Pool!CollectorStep, Pool!ReturnResults, Pool!ReturnError, Pool!Dispatch
  <2> QED BY <1>0, <2>1, <2>2, EntryType DEF EntryOK
<1>3. CASE CancelJob
  BY <1>0, <1>3 DEF CancelJob, Pool!Cancel, Pool!poolVars, workVars, diskVars, requestVars, EntryOK
<1>4. CASE Begin \/ ReadLibrary
  <2>1. Pool!AllEnded /\ entry' = entry
    BY <1>0, <1>4 DEF Begin, ReadLibrary, PoolInv, workVars
  <2>2. entry'[w] = Zero /\ worker'[w] # "sending"
    BY <1>0, <1>4, <2>1, EndedEmpty DEF Begin, ReadLibrary, poolVars, Pool!StartPool, Pool!AllEnded
  <2> QED BY <2>2, EntryType DEF EntryOK
<1>5. CASE Crash
  <2>1. entry'[w] = Zero /\ worker'[w] = "ended"
    BY <1>5 DEF Crash
  <2> QED BY <2>1, EntryType DEF EntryOK
<1>6. CASE Edit \/ UNCHANGED vars
  BY <1>0, <1>6 DEF Edit, vars, poolVars, workVars, diskVars, requestVars, EntryOK
<1>7. CASE QuietStep
  <2>1. UNCHANGED <<worker, task, entry, baseline>> /\ stage' # "items"
    BY <1>7 DEF QuietStep, ReadLibraryFails, Cancelled, ItemsDone, PeopleDone, WriteManifest, Publish,
       PublishFails, RemovePartial, RemovePartialFails, workVars, requestVars, poolVars
  <2> QED BY <1>0, <2>1 DEF EntryOK
<1> QED BY <1>1, <1>2, <1>3, <1>4, <1>5, <1>6, <1>7, NextIs DEF PoolMove

LEMMA CollectedStep == IInv /\ [Next]_vars => CollectedInv'
<1> SUFFICES ASSUME IInv, [Next]_vars PROVE CollectedInv'
  OBVIOUS
<1>0. /\ CollectedInv /\ PoolInv /\ PP!SafeInv /\ (cancelled \in BOOLEAN)
      /\ worker \in [Workers -> {"idle", "busy", "sending", "ended"}]
      /\ collected \in [Items -> Entries] /\ entry \in [Workers -> Entries]
  BY DEF IInv, PoolInv, PP!SafeInv, PP!TypeOK, TypeOK
<1>1. ASSUME PoolMove, UNCHANGED <<collected, results, files>> PROVE CollectedInv'
  <2>1. UNCHANGED <<stage, current, baseline>> /\ (cancelled => cancelled')
    BY <1>0, <1>1, PoolMoveStage, PoolMoveKeeps DEF requestVars
  <2> QED BY <1>0, <1>1, <2>1 DEF CollectedInv
<1>2. CASE PoolStep \/ CancelJob
  <2>1. UNCHANGED <<collected, results, files>>
    BY <1>2 DEF PoolStep, CancelJob, Pool!DispatcherStep, Pool!WaitIfPaused, Pool!DispatcherCancelled,
       Pool!CloseResults, Pool!CollectorStep, Pool!ReturnResults, Pool!ReturnError, Pool!Dispatch,
       Pool!Cancel, Pool!poolVars, workVars, diskVars
  <2> QED BY <1>1, <1>2, <2>1 DEF PoolMove
<1>3. ASSUME NEW w \in Workers, ExportItem(w) \/ WriteItemFails(w) \/ WorkerEnds(w) PROVE CollectedInv'
  <2>1. UNCHANGED <<collected, results, files>>
    BY <1>3 DEF ExportItem, WriteItemFails, WorkerEnds, Pool!Process, Pool!WorkerEnds, diskVars, poolVars
  <2> QED BY <1>1, <1>3, <2>1 DEF PoolMove, WorkerStep
<1>4. ASSUME NEW w \in Workers, WriteItem(w) PROVE CollectedInv'
  <2>1. UNCHANGED <<collected, results, stage, current, baseline, cancelled>> /\ worker[w] = "busy"
    BY <1>4 DEF WriteItem, Pool!Process, workVars, requestVars, Pool!controlVars
  <2>2. task[w] \notin results /\ stage \notin {"people", "manifest", "publish"}
    BY <1>0, <2>1, HeldTask DEF PoolInv, Pool!AllEnded
  <2>3. \A i \in Items : i # task[w] => files'[current][i] = files[current][i]
    BY <1>4, WriteItemFiles
  <2>4. stage = "items" => collected[task[w]].result = "zero"
    BY <1>0, <1>4, <2>2, WriteItemFiles DEF CollectedInv
  <2> QED BY <1>0, <2>1, <2>2, <2>3, <2>4 DEF CollectedInv
<1>5. ASSUME NEW w \in Workers, Collect(w) PROVE CollectedInv'
  <2>1. /\ worker[w] = "sending" /\ returned = "no"
        /\ collected' = [collected EXCEPT ![task[w]] = entry[w]]
        /\ results' = results \cup {task[w]}
        /\ UNCHANGED <<stage, current, baseline, cancelled, files>>
    BY <1>5 DEF Collect, Pool!Send, diskVars, requestVars, Pool!controlVars
  <2>2. stage = "items" /\ task[w] \in Items
    BY <1>0, <2>1, HeldTask DEF PoolInv
  <2>3. collected'[task[w]] = entry[w] /\ \A i \in Items : i # task[w] => collected'[i] = collected[i]
    BY <1>0, <2>1, <2>2
  <2>4. EntryOK(w)
    BY EntryInvIs DEF IInv
  <2> QED BY <1>0, <2>1, <2>2, <2>3, <2>4 DEF CollectedInv, EntryOK
<1>6. CASE Begin
  <2>1. stage' = "library" /\ collected' = [i \in Items |-> Zero]
    BY <1>6 DEF Begin
  <2> QED BY <2>1, EntryType DEF CollectedInv
<1>7. CASE ReadLibrary
  <2>1. stage = "library" /\ stage' = "items" /\ collected' = collected /\ results' = {}
    BY <1>7 DEF ReadLibrary, workVars, Pool!StartPool
  <2> QED BY <1>0, <2>1 DEF CollectedInv
<1>8. CASE Crash
  BY <1>8 DEF Crash, CollectedInv
<1>9. CASE Edit \/ UNCHANGED vars
  BY <1>0, <1>9 DEF Edit, vars, poolVars, controlVars, workVars, diskVars, requestVars, CollectedInv
<1>10. CASE QuietStep
  <2>0. UNCHANGED <<results, cancelled>>
    BY <1>10, Quiet DEF poolVars, controlVars
  <2>1. CASE ReadLibraryFails
    <3>1. stage' = "people" /\ collected' = [i \in Items |-> Entry("error", NoVersion)]
      BY <2>1 DEF ReadLibraryFails
    <3>2. Entry("error", NoVersion).result = "error"
      BY EntryType
    <3> QED BY <3>1, <3>2 DEF CollectedInv
  <2>2. CASE ItemsDone
    <3>1. stage = "items" /\ stage' = "people" /\ returned = "results"
          /\ UNCHANGED <<collected, files, current, baseline>>
      BY <2>2 DEF ItemsDone, workVars, diskVars, requestVars
    <3>2. ~cancelled => results = Items
      BY <1>0, <3>1, PoolConstants, PP!ResultsAreAll DEF PoolInv, PP!IInv
    <3> QED BY <1>0, <2>0, <3>1, <3>2 DEF CollectedInv
  <2>3. CASE PeopleDone \/ WriteManifest
    BY <1>0, <2>0, <2>3 DEF PeopleDone, WriteManifest, workVars, diskVars, requestVars, CollectedInv
  <2>4. CASE Cancelled \/ Publish \/ PublishFails \/ RemovePartial \/ RemovePartialFails
    BY <2>4 DEF Cancelled, Publish, PublishFails, RemovePartial, RemovePartialFails, CollectedInv
  <2> QED BY <1>10, <2>1, <2>2, <2>3, <2>4 DEF QuietStep
<1> QED BY <1>2, <1>3, <1>4, <1>5, <1>6, <1>7, <1>8, <1>9, <1>10, NextIs DEF PoolMove, WorkerStep

-----------------------------------------------------------------------------
(* The packages *)

\* A package is listed until its own export removes it, and unchanged.
LEMMA ListedStays ==
  ASSUME IInv, [Next]_vars, NEW m \in Listed, m # current \/ stage \notin {"manifest", "cleanup"}
  PROVE  m \in Listed' /\ manifest'[m] = manifest[m]
<1>0. m \in Exports /\ m \in partial \cup published /\ manifest[m] # NoManifest
      /\ manifest \in [Exports -> Manifests \cup {NoManifest}]
  BY DEF Listed, IInv, TypeOK
<1>1. CASE PoolMove
  <2>1. partial \subseteq partial' /\ UNCHANGED <<published, manifest>>
    BY <1>1, MoveWrites, PoolMoveStage
  <2> QED BY <1>0, <2>1 DEF Listed
<1>2. CASE Begin \/ ReadLibrary \/ Crash \/ Edit \/ UNCHANGED vars
  BY <1>0, <1>2 DEF Begin, ReadLibrary, Crash, Edit, vars, diskVars, Listed
<1>3. CASE QuietStep
  <2>1. CASE ReadLibraryFails \/ Cancelled \/ ItemsDone \/ PeopleDone \/ PublishFails
    BY <1>0, <2>1 DEF ReadLibraryFails, Cancelled, ItemsDone, PeopleDone, PublishFails, diskVars, Listed
  <2>2. CASE WriteManifest
    BY <1>0, <2>2 DEF WriteManifest, Listed
  <2>3. CASE Publish
    BY <1>0, <2>3 DEF Publish, Listed
  <2>4. CASE RemovePartial \/ RemovePartialFails
    BY <1>0, <2>4 DEF RemovePartial, RemovePartialFails, Listed
  <2> QED BY <1>3, <2>1, <2>2, <2>3, <2>4 DEF QuietStep
<1> QED BY <1>1, <1>2, <1>3, NextIs

\* A listed package was listed before, or this export writes its manifest.
LEMMA ListedBefore ==
  ASSUME IInv, [Next]_vars, NEW n \in Listed'
  PROVE  \/ n \in Listed /\ manifest'[n] = manifest[n]
         \/ /\ WriteManifest /\ n = current
            /\ manifest'[n] = [options |-> request.options, items |-> collected]
<1>0. /\ manifest'[n] # NoManifest /\ n \in partial' \cup published'
      /\ manifest \in [Exports -> Manifests \cup {NoManifest}]
      /\ partial \cup published \subseteq Exports /\ NumberInv
      /\ stage # "idle" => current \in Exports
  BY DEF Listed, IInv, TypeOK, NumberInv
<1>1. CASE PoolMove
  <2>1. n \in Exports
    BY <1>0, <1>1, MoveWrites, PoolMoveStage DEF NumberInv
  <2>2. manifest' = manifest
    BY <1>1, PoolMoveStage
  <2> QED BY <1>0, <2>1, <2>2 DEF NumberInv, Listed
<1>2. CASE Begin
  <2>1. manifest' = manifest /\ n \in partial \cup published \cup {current + 1} /\ current + 1 \in Exports
    BY <1>0, <1>2, ExportAssumption DEF Begin, IInv, TypeOK, Exports
  <2> QED BY <1>0, <2>1 DEF NumberInv, Listed
<1>3. CASE ReadLibrary \/ Crash \/ Edit \/ UNCHANGED vars
  BY <1>0, <1>3 DEF ReadLibrary, Crash, Edit, vars, diskVars, Listed
<1>4. CASE QuietStep
  <2>1. CASE ReadLibraryFails \/ Cancelled \/ ItemsDone \/ PeopleDone \/ PublishFails
    BY <1>0, <2>1 DEF ReadLibraryFails, Cancelled, ItemsDone, PeopleDone, PublishFails, diskVars, Listed
  <2>2. CASE WriteManifest
    BY <1>0, <2>2 DEF WriteManifest, Listed
  <2>3. CASE Publish
    BY <1>0, <2>3 DEF Publish, Listed, NumberInv
  <2>4. CASE RemovePartial \/ RemovePartialFails
    BY <1>0, <2>4 DEF RemovePartial, RemovePartialFails, Listed
  <2> QED BY <1>4, <2>1, <2>2, <2>3, <2>4 DEF QuietStep
<1> QED BY <1>1, <1>2, <1>3, <1>4, NextIs

\* The latest export has the greatest number.
LEMMA ListedNumbers ==
  ASSUME IInv, NEW n \in Listed
  PROVE  n \in Exports /\ n \in 1..current /\ current \in Nat /\ n \in Nat
BY ExportAssumption DEF Listed, IInv, TypeOK, NumberInv, Exports

LEMMA BaselineStep == IInv /\ [Next]_vars => BaselineInv'
<1> SUFFICES ASSUME IInv, [Next]_vars, stage' # "idle", NEW i \in Items, baseline'[i] # NoVersion
             PROVE  \E m \in Listed' : /\ m < current'
                                       /\ manifest'[m].options = request'.options
                                       /\ manifest'[m].items[i] = Entry("full", baseline'[i])
  BY DEF BaselineInv, Entry
<1>1. CASE Begin
  <2>1. PICK options \in Options, incremental \in BOOLEAN :
          /\ request' = [options |-> options, incremental |-> incremental]
          /\ baseline' = IF incremental THEN LatestBaselineManifest(options)
                                        ELSE [j \in Items |-> NoVersion]
    BY <1>1 DEF Begin
  <2>2. baseline' = LatestBaselineManifest(options)
    BY <2>1
  <2>3. PICK m \in Listed : /\ manifest[m].options = options
                            /\ manifest[m].items[i] = Entry("full", LatestBaselineManifest(options)[i])
    BY <2>2, BaselineWasExported DEF IInv
  <2>4. m \in Listed' /\ manifest'[m] = manifest[m] /\ m < current' /\ request'.options = options
    BY <1>1, <2>1, ListedStays, ListedNumbers DEF Begin
  <2> QED BY <2>2, <2>3, <2>4
<1>2. CASE ~Begin
  <2>1. UNCHANGED <<current, request, baseline>> /\ stage # "idle"
    <3>1. CASE PoolMove
      BY <3>1, PoolMoveStage DEF requestVars
    <3>2. CASE ReadLibrary \/ Crash \/ Edit \/ UNCHANGED vars
      BY <3>2 DEF ReadLibrary, Crash, Edit, vars, requestVars
    <3>3. CASE QuietStep
      BY <3>3 DEF QuietStep, ReadLibraryFails, Cancelled, ItemsDone, PeopleDone, WriteManifest, Publish,
                  PublishFails, RemovePartial, RemovePartialFails, requestVars
    <3> QED BY <1>2, <3>1, <3>2, <3>3, NextIs
  <2>2. PICK m \in Listed : /\ m < current
                            /\ manifest[m].options = request.options
                            /\ manifest[m].items[i] = Entry("full", baseline[i])
    BY <2>1 DEF IInv, BaselineInv
  <2>3. m \in Listed' /\ manifest'[m] = manifest[m]
    BY <2>2, ListedStays, ListedNumbers
  <2> QED BY <2>1, <2>2, <2>3
<1> QED BY <1>1, <1>2

LEMMA SkippedStep == IInv /\ [Next]_vars => SkippedWasExported'
<1> SUFFICES ASSUME IInv, [Next]_vars, NEW n \in Listed', NEW i \in Items,
                    manifest'[n].items[i].result = "skipped"
             PROVE  \E m \in Listed' :
                      /\ m < n
                      /\ manifest'[m].options = manifest'[n].options
                      /\ manifest'[m].items[i] = Entry("full", manifest'[n].items[i].version)
  BY DEF SkippedWasExported, Entry
<1>1. CASE n \in Listed /\ manifest'[n] = manifest[n]
  <2>1. PICK m \in Listed : /\ m < n
                            /\ manifest[m].options = manifest[n].options
                            /\ manifest[m].items[i] = Entry("full", manifest[n].items[i].version)
    BY <1>1 DEF IInv, SkippedWasExported
  <2>2. m # current
    BY <1>1, <2>1, ListedNumbers
  <2> QED BY <1>1, <2>1, <2>2, ListedStays
<1>2. CASE /\ WriteManifest /\ n = current
           /\ manifest'[n] = [options |-> request.options, items |-> collected]
  <2>1. stage = "manifest" /\ collected[i].result = "skipped"
    BY <1>2 DEF WriteManifest
  <2>2. collected[i].version = baseline[i] /\ baseline[i] # NoVersion
    BY <2>1, ExportAssumption DEF IInv, CollectedInv
  <2>3. PICK m \in Listed : /\ m < current
                            /\ manifest[m].options = request.options
                            /\ manifest[m].items[i] = Entry("full", baseline[i])
    BY <2>1, <2>2 DEF IInv, BaselineInv
  <2>4. m \in Listed' /\ manifest'[m] = manifest[m]
    BY <2>3, ListedStays, ListedNumbers
  <2> QED BY <1>2, <2>2, <2>3, <2>4
<1> QED BY <1>1, <1>2, ListedBefore

\* What happens to the files and the fate of a package that stays listed.
LEMMA ListedFiles ==
  ASSUME IInv, [Next]_vars, NEW n \in Listed, n \in Listed'
  PROVE  \/ files'[n] = files[n] /\ (fate[n] = "uncleaned" => fate'[n] = "uncleaned")
         \/ fate'[n] = "uncleaned"
<1>0. /\ n \in Exports /\ manifest[n] # NoManifest /\ manifest'[n] # NoManifest
      /\ files \in [Exports -> [Items -> Versions \cup {NoVersion}]]
      /\ fate \in [Exports -> {"none", "running", "published", "failed", "uncleaned", "crashed"}]
      /\ manifest \in [Exports -> Manifests \cup {NoManifest}]
      /\ stage # "idle" => fate[current] = "running"
      /\ n \in 1..current /\ current \in Nat
  BY ListedNumbers DEF Listed, IInv, TypeOK, NumberInv
<1>1. CASE PoolMove
  <2>1. n # current \/ Pool!AllEnded
    BY <1>0 DEF IInv, NumberInv
  <2> QED BY <1>0, <1>1, <2>1, MoveWrites, EndedMoves, PoolMoveStage
<1>2. CASE Begin
  <2>1. files' = files /\ fate' = [fate EXCEPT ![current + 1] = "running"] /\ n # current + 1
    BY <1>0, <1>2 DEF Begin
  <2> QED BY <1>0, <2>1
<1>3. CASE ReadLibrary \/ Edit \/ UNCHANGED vars
  BY <1>3 DEF ReadLibrary, Edit, vars, diskVars
<1>4. CASE Crash
  BY <1>0, <1>4 DEF Crash, diskVars
<1>5. CASE QuietStep
  <2>1. CASE ReadLibraryFails \/ Cancelled \/ ItemsDone \/ PeopleDone \/ PublishFails \/ WriteManifest
    BY <2>1 DEF ReadLibraryFails, Cancelled, ItemsDone, PeopleDone, PublishFails, WriteManifest, diskVars
  <2>2. CASE Publish
    BY <1>0, <2>2 DEF Publish
  <2>3. CASE RemovePartial
    BY <1>0, <2>3 DEF RemovePartial
  <2>4. CASE RemovePartialFails
    <3>1. /\ fate' = [fate EXCEPT ![current] = "uncleaned"]
          /\ files' \in {files, [files EXCEPT ![current] = [i \in Items |-> NoVersion]]}
      BY <2>4 DEF RemovePartialFails
    <3> QED BY <1>0, <3>1
  <2> QED BY <1>5, <2>1, <2>2, <2>3, <2>4 DEF QuietStep
<1> QED BY <1>1, <1>2, <1>3, <1>4, <1>5, NextIs

LEMMA BackedStep == IInv /\ [Next]_vars => ListedIsBacked'
<1> SUFFICES ASSUME IInv, [Next]_vars, NEW n \in Listed', NEW i \in Items,
                    manifest'[n].items[i].result = "full", fate'[n] # "uncleaned"
             PROVE  files'[n][i] = manifest'[n].items[i].version
  BY DEF ListedIsBacked
<1>1. CASE n \in Listed /\ manifest'[n] = manifest[n]
  BY <1>1, ListedFiles DEF IInv, ListedIsBacked
<1>2. CASE /\ WriteManifest /\ n = current
           /\ manifest'[n] = [options |-> request.options, items |-> collected]
  BY <1>2 DEF WriteManifest, IInv, CollectedInv
<1> QED BY <1>1, <1>2, ListedBefore

-----------------------------------------------------------------------------
(* How an export ends *)

LEMMA EndStep == IInv /\ [Next]_vars => FailureLeavesNothing' /\ CompleteUnlessCancelled'
<1> SUFFICES ASSUME IInv, [Next]_vars PROVE FailureLeavesNothing' /\ CompleteUnlessCancelled'
  OBVIOUS
<1>0. /\ FailureLeavesNothing /\ CompleteUnlessCancelled /\ PoolInv /\ NumberInv /\ CollectedInv
      /\ fate \in [Exports -> {"none", "running", "published", "failed", "uncleaned", "crashed"}]
      /\ current \in Nat /\ (stage # "idle" => current \in Exports /\ fate[current] = "running")
      /\ (stage = "cleanup" => current \notin published)
  BY DEF IInv, TypeOK, NumberInv
<1>1. CASE PoolMove
  <2>1. UNCHANGED <<stage, current, fate, manifest>> /\ (cancelled => cancelled')
    BY <1>0, <1>1, PoolMoveStage, PoolMoveKeeps DEF requestVars, PoolInv
  <2>2. CASE stage = "idle" /\ ~cancelled
    BY <1>0, <1>1, <2>1, <2>2, EndedMoves
       DEF PoolInv, FailureLeavesNothing, CompleteUnlessCancelled, Ended
  <2> QED BY <2>1, <2>2 DEF FailureLeavesNothing, CompleteUnlessCancelled, Ended
<1>2. CASE Begin \/ ReadLibrary
  BY <1>2 DEF Begin, ReadLibrary, FailureLeavesNothing, CompleteUnlessCancelled, Ended
<1>3. CASE Crash
  BY <1>0, <1>3 DEF Crash, requestVars, FailureLeavesNothing, CompleteUnlessCancelled, Ended
<1>4. CASE Edit \/ UNCHANGED vars
  BY <1>0, <1>4 DEF Edit, vars, controlVars, diskVars, requestVars, FailureLeavesNothing,
                    CompleteUnlessCancelled, Ended
<1>5. CASE QuietStep
  <2>1. CASE stage' # "idle"
    BY <2>1 DEF FailureLeavesNothing, CompleteUnlessCancelled, Ended
  <2>2. CASE Publish
    <3>1. /\ fate'[current] = "published" /\ UNCHANGED <<current, manifest, cancelled>>
          /\ manifest[current].items = collected
          /\ stage = "publish"
      BY <1>0, <2>2 DEF Publish, controlVars, requestVars, NumberInv
    <3> QED BY <1>0, <3>1 DEF FailureLeavesNothing, CompleteUnlessCancelled, CollectedInv
  <2>3. CASE RemovePartial
    <3>1. fate'[current] = "failed" /\ current' = current /\ partial' = partial \ {current}
      BY <1>0, <2>3 DEF RemovePartial, requestVars
    <3> QED BY <3>1 DEF FailureLeavesNothing, CompleteUnlessCancelled
  <2>4. CASE RemovePartialFails
    <3>1. fate'[current] = "uncleaned" /\ current' = current
      BY <1>0, <2>4 DEF RemovePartialFails, requestVars
    <3> QED BY <3>1 DEF FailureLeavesNothing, CompleteUnlessCancelled
  <2> QED BY <1>5, <2>1, <2>2, <2>3, <2>4
          DEF QuietStep, ReadLibraryFails, Cancelled, ItemsDone, PeopleDone, WriteManifest, PublishFails
<1> QED BY <1>1, <1>2, <1>3, <1>4, <1>5, NextIs

-----------------------------------------------------------------------------
(* The theorems *)

LEMMA InitInv == Init => IInv
<1> SUFFICES ASSUME Init PROVE IInv
  OBVIOUS
<1>0. Listed = {}
  BY DEF Init, Listed
<1>1. PP!SafeInv /\ Pool!AllEnded
  BY PoolConstants DEF Init, PP!SafeInv, PP!TypeOK, PP!HoldInv, PP!ApartInv, PP!NoTaskTwice, PP!ClosedInv,
                       PP!AllEnded, Pool!AllEnded
<1>2. OwnTypeOK
  <2>0. [options : Options, incremental : {FALSE}] \subseteq [options : Options, incremental : BOOLEAN]
    OBVIOUS
  <2>1. /\ source \in [Items -> Versions] /\ listing \in [Items -> Versions]
        /\ request \in [options : Options, incremental : BOOLEAN]
        /\ current \in 0..MaxExports
    <3>1. request \in [options : Options, incremental : {FALSE}] /\ current = 0
          /\ source \in [Items -> Versions] /\ listing = source
      BY DEF Init
    <3>2. 0 \in 0..MaxExports
      BY ExportAssumption
    <3> QED BY <2>0, <3>1, <3>2
  <2>2. /\ baseline \in [Items -> Versions \cup {NoVersion}]
        /\ entry \in [Workers -> Entries] /\ collected \in [Items -> Entries]
    BY EntryType DEF Init
  <2>3. manifest \in [Exports -> Manifests \cup {NoManifest}]
    <3> HIDE DEF NoManifest
    <3> QED BY DEF Init
  <2>4. files \in [Exports -> [Items -> Versions \cup {NoVersion}]]
    BY DEF Init
  <2> QED BY <2>1, <2>2, <2>3, <2>4 DEF Init, OwnTypeOK
<1>3. TypeOK
  BY <1>1, <1>2, Types DEF PP!SafeInv
<1>4. PoolInv /\ NumberInv
  <2>1. stage = "idle" /\ returned = "results" /\ partial = {} /\ published = {} /\ current = 0
        /\ \A n \in Exports : manifest[n] = NoManifest
    BY DEF Init
  <2> QED BY <1>1, <2>1 DEF PoolInv, NumberInv
<1>5. EntryInv /\ CollectedInv /\ BaselineInv
  BY EntryType DEF Init, EntryInv, CollectedInv, BaselineInv
<1>6. SkippedWasExported /\ ListedIsBacked /\ FailureLeavesNothing /\ CompleteUnlessCancelled
  BY <1>0 DEF Init, SkippedWasExported, ListedIsBacked, FailureLeavesNothing, CompleteUnlessCancelled, Ended
<1> QED BY <1>3, <1>4, <1>5, <1>6 DEF IInv

LEMMA TypeStep == PoolInv' /\ OwnTypeOK' => TypeOK'
BY DEF PoolInv, PP!SafeInv, PP!TypeOK, Pool!TypeOK, OwnTypeOK, TypeOK

\* Service.Export, run after run, keeps the invariant: packages, directories, the
\* pool and what each worker has in its hands.
THEOREM Invariant == Spec => []IInv
<1>1. IInv /\ [Next]_vars => IInv'
  BY PoolInvStep, OwnTypeStep, TypeStep, NumberStep, EntryStep, CollectedStep, BaselineStep, SkippedStep,
     BackedStep, EndStep DEF IInv
<1> QED BY InitInv, <1>1, PTL DEF Spec

\* Every variable keeps its type, those of the pool included.
THEOREM TypeCorrect == Spec => []TypeOK
BY Invariant, PTL DEF IInv

\* The packages together lose nothing: what one skipped is in an earlier one.
THEOREM SkippedExported == Spec => []SkippedWasExported
BY Invariant, PTL DEF IInv

\* What a manifest lists as exported is in the files of its package.
THEOREM ListedBacked == Spec => []ListedIsBacked
BY Invariant, PTL DEF IInv

\* An export that failed without a cancel leaves no directory.
THEOREM FailureClean == Spec => []FailureLeavesNothing
BY Invariant, PTL DEF IInv

\* A package of an export that nobody cancelled has a result for every item.
THEOREM Complete == Spec => []CompleteUnlessCancelled
BY Invariant, PTL DEF IInv

\* Nothing changes in a published package.
THEOREM Immutable == Spec => PublishedIsImmutable
<1>1. ASSUME IInv, [Next]_vars PROVE
        [\A n \in published : n \in published' /\ files'[n] = files[n] /\ manifest'[n] = manifest[n]]_vars
  <2> SUFFICES ASSUME NEW n \in published
               PROVE  n \in published' /\ files'[n] = files[n] /\ manifest'[n] = manifest[n]
    OBVIOUS
  <2>1. n \in Listed /\ fate[n] = "published" /\ n \in Exports
    BY <1>1 DEF IInv, NumberInv, TypeOK, Listed
  <2>2. stage # "idle" => n # current
    BY <1>1, <2>1 DEF IInv, NumberInv
  <2>3. n \in Listed' /\ manifest'[n] = manifest[n]
    BY <1>1, <2>1, <2>2, ListedStays
  <2>4. n \in published'
    <3>1. CASE PoolMove
      BY <3>1, PoolMoveStage
    <3>2. CASE Begin \/ ReadLibrary \/ Crash \/ Edit \/ UNCHANGED vars
      BY <3>2 DEF Begin, ReadLibrary, Crash, Edit, vars, diskVars
    <3>3. CASE QuietStep
      BY <3>3 DEF QuietStep, ReadLibraryFails, Cancelled, ItemsDone, PeopleDone, WriteManifest, Publish,
                  PublishFails, RemovePartial, RemovePartialFails, diskVars
    <3> QED BY <1>1, <3>1, <3>2, <3>3, NextIs
  <2>5. fate'[n] # "uncleaned"
    <3>1. CASE PoolMove
      BY <2>1, <3>1, PoolMoveStage
    <3>2. CASE Begin
      BY <1>1, <2>1, <3>2, ListedNumbers DEF Begin, IInv, TypeOK
    <3>3. CASE ReadLibrary \/ Edit \/ UNCHANGED vars
      BY <2>1, <3>3 DEF ReadLibrary, Edit, vars
    <3>4. CASE Crash
      BY <1>1, <2>1, <2>2, <3>4 DEF Crash, IInv, TypeOK
    <3>5. CASE QuietStep
      BY <1>1, <2>1, <2>2, <3>5 DEF QuietStep, ReadLibraryFails, Cancelled, ItemsDone, PeopleDone,
         WriteManifest, Publish, PublishFails, RemovePartial, RemovePartialFails, IInv, TypeOK
    <3> QED BY <1>1, <3>1, <3>2, <3>3, <3>4, <3>5, NextIs
  <2> QED BY <1>1, <2>1, <2>3, <2>4, <2>5, ListedFiles
<1> QED BY <1>1, Invariant, PTL DEF Spec, PublishedIsImmutable

=============================================================================
