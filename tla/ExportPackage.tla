---------------------------- MODULE ExportPackage ----------------------------
(***************************************************************************)
(* internal/exporter, Service.Export: exports of one library, one after    *)
(* another as the queue of the job manager runs them.  An export fills a   *)
(* .partial directory with the workers of WorkerPool, writes manifest.json *)
(* last and publishes the directory by a rename; a deferred function       *)
(* removes it otherwise.  An incremental export skips the items whose      *)
(* fingerprint the latest listed package with the same options has.        *)
(*                                                                         *)
(* A fingerprint tells the versions of an item's content apart.  Packages  *)
(* are numbered in the order of their names, which start with the time.    *)
(* A cancelled export may return while workers of its pool still write.    *)
(***************************************************************************)
EXTENDS Naturals, FiniteSetsExt

CONSTANTS
  Items, Workers, NoItem,
  Versions,       \* contents an item may have
  NoVersion,
  Options,        \* ExportOptions
  PeopleOptions,  \* those with avatars of people
  MaxExports,     \* bound: exports started
  MaxFaults       \* bound: crashes in the middle of an export and failing removals

ASSUME ExportAssumption ==
  /\ NoItem \notin Items
  /\ Workers # {}
  /\ NoVersion \notin Versions
  /\ PeopleOptions \subseteq Options
  /\ MaxExports \in Nat
  /\ MaxFaults \in Nat

VARIABLES
  todo, dispatcher, worker, task, results, resultsClosed, returned, paused, cancelled,
  source,      \* content of each item on the Emby server
  stage,       \* where Export is, "idle" between exports
  current,     \* number of the latest export
  request,     \* its options and whether it is incremental
  baseline,    \* fingerprints of its baseline
  listing,     \* the items as the library listed them
  entry,       \* each worker's result for its task
  collected,   \* the results the collector has
  partial,     \* exports whose .partial directory exists
  published,   \* exports whose directory was renamed
  files,       \* version of each item's files in a package
  manifest,    \* manifest.json of each package
  fate         \* how each export ended

poolVars == <<todo, dispatcher, worker, task, results, resultsClosed, returned>>
controlVars == <<paused, cancelled>>
workVars == <<entry, collected>>
diskVars == <<partial, published, files, manifest>>
requestVars == <<current, request, baseline, listing>>
vars == <<poolVars, controlVars, workVars, diskVars, requestVars, source, stage, fate>>

Pool == INSTANCE WorkerPool WITH Tasks <- Items, NoTask <- NoItem

Exports == 1..MaxExports

\* exportItemResult: "zero" is the zero value of a slot no result came for.
Entry(result, version) == [result |-> result, version |-> version]
Zero == Entry("zero", NoVersion)
Entries == [result : {"zero", "error", "full", "skipped"}, version : Versions \cup {NoVersion}]

NoManifest == [options |-> {}, items |-> [i \in Items |-> Zero]]
Manifests == [options : Options, items : [Items -> Entries]]

\* The value for no manifest is not the content of one.
ASSUME NoManifestAssumption == NoManifest \notin Manifests

-----------------------------------------------------------------------------
Init ==
  /\ todo = {} /\ dispatcher = "done"
  /\ worker = [w \in Workers |-> "ended"]
  /\ task = [w \in Workers |-> NoItem]
  /\ results = {} /\ resultsClosed = TRUE /\ returned = "results"
  /\ paused = FALSE /\ cancelled = FALSE
  /\ source \in [Items -> Versions]
  /\ stage = "idle"
  /\ current = 0
  /\ request \in [options : Options, incremental : {FALSE}]
  /\ baseline = [i \in Items |-> NoVersion]
  /\ listing = source
  /\ entry = [w \in Workers |-> Zero]
  /\ collected = [i \in Items |-> Zero]
  /\ partial = {} /\ published = {}
  /\ files = [n \in Exports |-> [i \in Items |-> NoVersion]]
  /\ manifest = [n \in Exports |-> NoManifest]
  /\ fate = [n \in Exports |-> "none"]

-----------------------------------------------------------------------------
(* The baseline *)

\* ListExports: every directory with a manifest, .partial ones included.
Listed == {n \in partial \cup published : manifest[n] # NoManifest}

\* Mutant: the options are not compared.
AnyOptions(n, options) == TRUE

SameExportOptions(n, options) == manifest[n].options = options

\* manifestItemsByStableKey: an entry of the manifest; an item that failed
\* has none, and a zero value has no key.
Fingerprint(e) == IF e.result \in {"full", "skipped"} THEN e.version ELSE NoVersion

LatestBaselineManifest(options) ==
  LET usable == {n \in Listed : SameExportOptions(n, options)}
  IN  [i \in Items |->
         IF usable = {} THEN NoVersion ELSE Fingerprint(manifest[Max(usable)].items[i])]

-----------------------------------------------------------------------------
(* Export *)

\* Up to the loop over the libraries. Bound: no worker of the export before is
\* left; it writes into another directory than this export.
Begin ==
  /\ stage = "idle"
  /\ current < MaxExports
  /\ Pool!AllEnded
  /\ current' = current + 1
  /\ partial' = partial \cup {current + 1}
  /\ \E options \in Options, incremental \in BOOLEAN :
       /\ request' = [options |-> options, incremental |-> incremental]
       /\ baseline' = IF incremental THEN LatestBaselineManifest(options)
                                     ELSE [i \in Items |-> NoVersion]
  /\ fate' = [fate EXCEPT ![current + 1] = "running"]
  /\ stage' = "library"
  /\ paused' = FALSE /\ cancelled' = FALSE
  /\ collected' = [i \in Items |-> Zero]
  /\ UNCHANGED <<poolVars, entry, published, files, manifest, listing, source>>

ReadLibrary ==
  /\ stage = "library"
  /\ ~paused /\ ~cancelled
  /\ listing' = source
  /\ Pool!StartPool(Items)
  /\ stage' = "items"
  /\ UNCHANGED <<controlVars, workVars, diskVars, current, request, baseline, source, fate>>

\* The library cannot be read, after a cancel in any case: it counts as an
\* error of the manifest.
ReadLibraryFails ==
  /\ stage = "library"
  /\ ~paused \/ cancelled
  /\ stage' = "people"
  /\ collected' = [i \in Items |-> Entry("error", NoVersion)]
  /\ UNCHANGED <<poolVars, controlVars, entry, diskVars, requestVars, source, fate>>

\* The context is looked at only before a library, or by a pool.
Cancelled ==
  /\ \/ stage = "library" /\ cancelled
     \/ stage = "items" /\ returned = "error"
     \/ stage = "people" /\ cancelled /\ request.options \in PeopleOptions
  /\ stage' = "cleanup"
  /\ UNCHANGED <<poolVars, controlVars, workVars, diskVars, requestVars, source, fate>>

ItemsDone ==
  /\ stage = "items"
  /\ returned = "results"
  /\ stage' = "people"
  /\ UNCHANGED <<poolVars, controlVars, workVars, diskVars, requestVars, source, fate>>

\* exportPeopleImages: nobody may have an avatar, and then it does not look at
\* the pause or the context either.
PeopleDone ==
  /\ stage = "people"
  /\ stage' = "manifest"
  /\ UNCHANGED <<poolVars, controlVars, workVars, diskVars, requestVars, source, fate>>

WriteManifest ==
  /\ stage = "manifest"
  /\ manifest' = [manifest EXCEPT ![current] = [options |-> request.options, items |-> collected]]
  /\ stage' = "publish"
  /\ UNCHANGED <<poolVars, controlVars, workVars, partial, published, files, requestVars, source, fate>>

\* Mutant: the directory is published before the manifest is written.
PublishBeforeManifest ==
  /\ stage \in {"manifest", "publish"}
  /\ partial' = partial \ {current}
  /\ published' = published \cup {current}
  /\ fate' = [fate EXCEPT ![current] = IF stage = "publish" THEN "published" ELSE @]
  /\ stage' = IF stage = "publish" THEN "idle" ELSE stage
  /\ UNCHANGED <<poolVars, controlVars, workVars, files, manifest, requestVars, source>>

Publish ==
  /\ stage = "publish"
  /\ partial' = partial \ {current}
  /\ published' = published \cup {current}
  /\ fate' = [fate EXCEPT ![current] = "published"]
  /\ stage' = "idle"
  /\ UNCHANGED <<poolVars, controlVars, workVars, files, manifest, requestVars, source>>

\* The manifest cannot be written, or the directory not renamed.
PublishFails ==
  /\ stage \in {"manifest", "publish"}
  /\ stage' = "cleanup"
  /\ UNCHANGED <<poolVars, controlVars, workVars, diskVars, requestVars, source, fate>>

Faults == Cardinality({n \in Exports : fate[n] \in {"uncleaned", "crashed"}})

\* Mutant: only a cancelled export is removed.
RemoveCancelled ==
  /\ stage = "cleanup"
  /\ fate' = [fate EXCEPT ![current] = "failed"]
  /\ partial' = IF cancelled THEN partial \ {current} ELSE partial
  /\ stage' = "idle"
  /\ UNCHANGED <<poolVars, controlVars, workVars, published, files, manifest, requestVars, source>>

RemovePartial ==
  /\ stage = "cleanup"
  /\ fate' = [fate EXCEPT ![current] = "failed"]
  /\ partial' = partial \ {current}
  /\ files' = [files EXCEPT ![current] = [i \in Items |-> NoVersion]]
  /\ manifest' = [manifest EXCEPT ![current] = NoManifest]
  /\ stage' = "idle"
  /\ UNCHANGED <<poolVars, controlVars, workVars, published, requestVars, source>>

\* RemoveAll fails after it removed part of the directory.
RemovePartialFails ==
  /\ stage = "cleanup"
  /\ Faults < MaxFaults
  /\ fate' = [fate EXCEPT ![current] = "uncleaned"]
  /\ files' \in {files, [files EXCEPT ![current] = [i \in Items |-> NoVersion]]}
  /\ manifest' \in {manifest, [manifest EXCEPT ![current] = NoManifest]}
  /\ stage' = "idle"
  /\ UNCHANGED <<poolVars, controlVars, workVars, partial, published, requestVars, source>>

-----------------------------------------------------------------------------
(* The pool of exportLibraryItems *)

\* Steps of the pool that do not touch entries.
PoolStep ==
  /\ Pool!DispatcherStep \/ Pool!CloseResults \/ Pool!CollectorStep
     \/ \E w \in Workers : Pool!Dispatch(w)
  /\ UNCHANGED <<workVars, diskVars, requestVars, source, stage, fate>>

\* exportItem up to its comparison with the baseline. enrichExportItem reads the
\* item again and falls back on the listing, as after a cancel; without the media
\* technical details it was asked for it fails.
ExportItem(w) ==
  /\ worker[w] = "busy"
  /\ entry[w] = Zero
  /\ LET i == task[w] IN
       \/ /\ entry' = [entry EXCEPT ![w] = Entry("error", NoVersion)]
          /\ Pool!Process(w)
       \/ \E v \in {listing[i]} \cup (IF cancelled THEN {} ELSE {source[i]}) :
            IF baseline[i] = v
            THEN /\ entry' = [entry EXCEPT ![w] = Entry("skipped", v)]
                 /\ Pool!Process(w)
            ELSE /\ entry' = [entry EXCEPT ![w] = Entry("full", v)]
                 /\ UNCHANGED <<poolVars, controlVars>>
  /\ UNCHANGED <<collected, diskVars, requestVars, source, stage, fate>>

\* The rest of exportItem. WriteJSON makes the directories it needs, so a worker
\* that a cancelled export left behind brings a removed one back.
WriteItem(w) ==
  /\ entry[w].result = "full"
  /\ Pool!Process(w)
  /\ partial' = partial \cup {current}
  /\ files' = [files EXCEPT ![current][task[w]] = entry[w].version]
  /\ UNCHANGED <<workVars, published, manifest, requestVars, source, stage, fate>>

\* Mutant: the error of the write is ignored.
WriteErrorIgnored(w) ==
  /\ entry[w].result = "full"
  /\ Pool!Process(w)
  /\ UNCHANGED <<workVars, diskVars, requestVars, source, stage, fate>>

WriteItemFails(w) ==
  /\ entry[w].result = "full"
  /\ Pool!Process(w)
  /\ entry' = [entry EXCEPT ![w] = [@ EXCEPT !.result = "error"]]
  /\ UNCHANGED <<collected, diskVars, requestVars, source, stage, fate>>

Collect(w) ==
  /\ Pool!Send(w)
  /\ collected' = [collected EXCEPT ![task[w]] = entry[w]]
  /\ entry' = [entry EXCEPT ![w] = Zero]
  /\ UNCHANGED <<diskVars, requestVars, source, stage, fate>>

WorkerEnds(w) ==
  /\ Pool!WorkerEnds(w)
  /\ entry' = [entry EXCEPT ![w] = Zero]
  /\ UNCHANGED <<collected, diskVars, requestVars, source, stage, fate>>

-----------------------------------------------------------------------------
(* The surroundings *)

\* Somebody edits an item on the Emby server.
Edit ==
  /\ \E i \in Items : \E v \in Versions \ {source[i]} : source' = [source EXCEPT ![i] = v]
  /\ UNCHANGED <<poolVars, controlVars, workVars, diskVars, requestVars, stage, fate>>

\* Bound: nobody pauses the job; a pause only delays, as in WorkerPool.
CancelJob ==
  /\ stage # "idle"
  /\ Pool!Cancel
  /\ UNCHANGED <<workVars, diskVars, requestVars, source, stage, fate>>

\* The process ends, and the next one has no export.
Crash ==
  /\ stage # "idle"
  /\ Faults < MaxFaults
  /\ fate' = [fate EXCEPT ![current] = "crashed"]
  /\ stage' = "idle"
  /\ todo' = {} /\ dispatcher' = "done"
  /\ worker' = [w \in Workers |-> "ended"]
  /\ task' = [w \in Workers |-> NoItem]
  /\ results' = {} /\ resultsClosed' = TRUE /\ returned' = "results"
  /\ entry' = [w \in Workers |-> Zero]
  /\ paused' = FALSE /\ cancelled' = FALSE
  /\ UNCHANGED <<collected, diskVars, requestVars, source>>

ExportStep ==
  \/ ReadLibrary \/ ReadLibraryFails \/ Cancelled \/ ItemsDone \/ PeopleDone
  \/ WriteManifest \/ Publish \/ PublishFails \/ RemovePartial \/ RemovePartialFails

WorkerStep(w) ==
  ExportItem(w) \/ WriteItem(w) \/ WriteItemFails(w) \/ Collect(w) \/ WorkerEnds(w)

Next ==
  \/ Begin \/ ExportStep
  \/ PoolStep \/ \E w \in Workers : WorkerStep(w)
  \/ Edit \/ CancelJob \/ Crash

Spec == Init /\ [][Next]_vars

-----------------------------------------------------------------------------
(* Properties *)

\* Every variable keeps its type, those of the pool included.
TypeOK ==
  /\ Pool!TypeOK
  /\ source \in [Items -> Versions] /\ listing \in [Items -> Versions]
  /\ stage \in {"idle", "library", "items", "people", "manifest", "publish", "cleanup"}
  /\ current \in 0..MaxExports
  /\ request \in [options : Options, incremental : BOOLEAN]
  /\ baseline \in [Items -> Versions \cup {NoVersion}]
  /\ entry \in [Workers -> Entries] /\ collected \in [Items -> Entries]
  /\ partial \subseteq Exports /\ published \subseteq Exports
  /\ files \in [Exports -> [Items -> Versions \cup {NoVersion}]]
  /\ manifest \in [Exports -> Manifests \cup {NoManifest}]
  /\ fate \in [Exports -> {"none", "running", "published", "failed", "uncleaned", "crashed"}]

\* An item that an incremental export skipped is, in that version, in an
\* earlier package with the same options: the packages together lose nothing.
SkippedWasExported ==
  \A n \in Listed, i \in Items :
    manifest[n].items[i].result = "skipped" =>
      \E m \in Listed : /\ m < n
                        /\ manifest[m].options = manifest[n].options
                        /\ manifest[m].items[i] = Entry("full", manifest[n].items[i].version)

\* What the manifest of a package calls exported is in its files in the version
\* of the fingerprint, unless the removal of the package failed half way.
ListedIsBacked ==
  \A n \in Listed, i \in Items :
    manifest[n].items[i].result = "full" /\ fate[n] # "uncleaned" =>
      files[n][i] = manifest[n].items[i].version

Ended == stage = "idle" /\ current > 0

\* A package of an export that nobody cancelled has an entry or an error for
\* every item.
CompleteUnlessCancelled ==
  Ended /\ ~cancelled /\ fate[current] = "published" =>
    \A i \in Items : manifest[current].items[i].result # "zero"

\* An export that failed without a cancel leaves no .partial directory, if it
\* could be removed.
FailureLeavesNothing ==
  Ended /\ ~cancelled /\ fate[current] = "failed" => current \notin partial

\* Nothing changes in a published package.
PublishedIsImmutable ==
  [][\A n \in published :
       n \in published' /\ files'[n] = files[n] /\ manifest'[n] = manifest[n]]_vars

(* What the release notes say; the code does not keep it. *)

\* Release notes 1.1.4: "published atomically after success": a published
\* package is never the torso of a cancelled export.
PublishedIsWhole ==
  Ended /\ fate[current] = "published" =>
    \A i \in Items : manifest[current].items[i].result # "zero"

\* Release notes 1.1.4: "removed after a failure or cancel": nothing is left of
\* an export whose directory was removed, once its workers have ended.
CancelLeavesNothing ==
  Ended /\ Pool!AllEnded /\ fate[current] = "failed" => current \notin partial
=============================================================================
