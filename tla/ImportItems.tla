----------------------------- MODULE ImportItems -----------------------------
(***************************************************************************)
(* importItem and importPersonImage of internal/exporter/service.go, run   *)
(* by the workers of an import: find the target (ItemMatching) through the *)
(* shared cache (LookupCache), send the metadata with its two fallbacks,   *)
(* read media information back, upload images. Each request has two        *)
(* attempts (retryWithTimeout). Around it: a server that may refuse, fail, *)
(* or do what it is asked and lose the answer, and a user who stops the    *)
(* job at any point.                                                       *)
(*                                                                         *)
(* The library of the server does not change in the meantime. One image    *)
(* stands for all images of an item.                                       *)
(***************************************************************************)
EXTENDS ItemMatching

CONSTANTS
  Entries,    \* items of the package
  Avatar,     \* [person of the package with an image -> name]
  PersonID,   \* [name -> id] of the persons the server has
  Imports,    \* the imports to look at: [dryRun, mediaInfo, avatars, entry, item,
              \* faults]: avatars to import, entries and the server's items as
              \* records (an item's has its id), and a bound on failing requests
              \* after the lookups
  NoCaller, NoKey, NoAnswer, Failed, GaveUp

Attempts == 2   \* importRetryAttempts
Avatars == DOMAIN Avatar
Tasks == Entries \cup Avatars
Levels == {"full", "compatibility", "minimal"}   \* of the metadata sent

VARIABLES
  call, answer, asking, got, fetchers,   \* of LookupCache
  import,      \* the import that runs
  task,        \* what each worker knows of its item
  accepted,    \* [Tasks -> levels of metadata and "image" the server took]
  mediaOf,     \* [items of the server -> entry whose media information it has]
  persisted,   \* entries whose media information the server ever had
  cancelled,   \* the job's context
  faults       \* bound of the model: failing requests so far

IsSequence(s) == s \in Seq({s[n] : n \in DOMAIN s})

ASSUME ImportAssumption ==
  /\ Entries \cap Avatars = {}
  /\ None \notin Entries \cup {Failed, GaveUp}
  /\ \A imp \in Imports :
       /\ DOMAIN imp.entry \subseteq Entries
       /\ \A e \in DOMAIN imp.entry : IsSequence(imp.entry[e].providers)
       /\ IsFiniteSet(DOMAIN imp.item)
       /\ \A i \in DOMAIN imp.item : imp.item[i].id = i
       /\ imp.avatars \subseteq Avatars
       /\ imp.faults \in Nat

Lookups(t, imp) ==
  IF t \in Avatars THEN <<[kind |-> "person", key |-> <<"person", Avatar[t]>>]>>
  ELSE Strategies(imp.entry[t])
TasksOf(imp) == DOMAIN imp.entry \cup imp.avatars
Keys == UNION {UNION {{Lookups(t, imp)[n].key : n \in DOMAIN Lookups(t, imp)} : t \in TasksOf(imp)} : imp \in Imports}
Items == UNION {DOMAIN imp.item : imp \in Imports}
Persons == {PersonID[n] : n \in DOMAIN PersonID}

\* What the server has for a key: items by provider id or by a term in their
\* name, title, series, file or number.
Finds(key, i) ==
  IF Len(key) = 1 THEN \E n \in DOMAIN i.providers : key[1] = i.providers[n]
  ELSE /\ key[1] \in {i.name, i.original, i.stem, SearchPrefix[i.stem], SeasonTerm[i.season]} \cup i.series
       /\ SameType(key[2], i)
Hits(key) == {i \in DOMAIN import.item : Finds(key, import.item[i])}

\* A request has a limit and no second page: of more hits the answer has as
\* many as the limit, or more where several libraries are asked in turn, and
\* the server chooses which.
Cut(key) == Cardinality(Hits(key)) > LimitOf(key)
Shown(key) ==
  IF Cut(key) THEN {shown \in SUBSET Hits(key) : Cardinality(shown) >= LimitOf(key)}
  ELSE {Hits(key)}

\* The possible answers to a lookup: the person of that name, or items.
Found(key) ==
  IF Len(key) = 2
  THEN {IF key[2] \in DOMAIN PersonID THEN {PersonID[key[2]]} ELSE {}}
  ELSE Shown(key)

Cache == INSTANCE LookupCache WITH
  Callers <- Tasks, Answers <- SUBSET (Items \cup Persons)

ASSUME CacheAssumption == Cache!SentinelsAssumption

server == <<accepted, mediaOf, persisted>>
environment == <<import, faults>>
cache == <<call, answer, asking, got, fetchers>>
vars == <<cache, environment, task, server, cancelled>>

Fresh == [pc |-> "match", step |-> 1, ambiguous |-> FALSE, error |-> None, attempt |-> 1,
          target |-> None, included |-> FALSE, failed |-> FALSE, media |-> "none",
          image |-> "none", status |-> "none"]

Init ==
  /\ Cache!CacheInit
  /\ import \in Imports
  /\ task = [t \in Tasks |-> IF t \in TasksOf(import) THEN Fresh ELSE [Fresh EXCEPT !.pc = "end"]]
  /\ accepted = [t \in Tasks |-> {}]
  /\ mediaOf = [i \in Items |-> None]
  /\ persisted = {}
  /\ cancelled = FALSE
  /\ faults = 0

At(t, pc) == task[t].pc = pc
Update(t, state) == task' = [task EXCEPT ![t] = state]
Goto(state, pc) == [state EXCEPT !.pc = pc, !.attempt = 1]
End(state, status) == [state EXCEPT !.pc = "end", !.status = status]

-----------------------------------------------------------------------------
(* Finding the target. *)

\* importPeopleImages follows importItems; a dry run has no avatars.
MayStart(t) ==
  t \in Avatars => ~import.dryRun /\ \A e \in Entries : At(e, "end")

Lookup(t) ==
  /\ At(t, "match")
  /\ MayStart(t)
  /\ task[t].step \in DOMAIN Lookups(t, import)
  /\ Cache!Lookup(t, Lookups(t, import)[task[t].step].key)
  /\ Update(t, [task[t] EXCEPT !.pc = "lookup"])
  /\ UNCHANGED <<environment, server, cancelled>>

\* Mutant: the failure reaches the waiters as an empty answer.
FetchFailsAsEmpty(t) ==
  /\ \E k \in Keys : /\ call[k] = t
                     /\ call' = [call EXCEPT ![k] = NoCaller]
                     /\ Cache!Close(k, {})
  /\ UNCHANGED <<answer, asking, fetchers, environment, task, server, cancelled>>

FetchFails(t) ==
  /\ Cache!FetchFails(t)
  /\ UNCHANGED <<environment, task, server, cancelled>>

\* A person the server does not know is an error of the direct import.
FetchSucceeds(t) ==
  /\ At(t, "lookup")
  /\ \E found \in Found(asking[t]) :
       /\ t \in Avatars => found # {}
       /\ Cache!FetchSucceeds(t, found)
  /\ UNCHANGED <<environment, task, server, cancelled>>

\* An item's attempt has a time limit; an avatar waits in the job's context.
WaiterGivesUp(t) ==
  /\ t \in Avatars => cancelled
  /\ Cache!WaiterGivesUp(t)
  /\ UNCHANGED <<environment, task, server, cancelled>>

\* The first error and the first ambiguity are remembered, and the next
\* strategy is tried.
LookupReturns(t) ==
  LET s == Lookups(t, import)[task[t].step]
      records == {import.item[i] : i \in got[t]}
      matches == Accepted(s.kind, import.entry[t], records)
  IN
  /\ At(t, "lookup")
  /\ Cache!Return(t)
  /\ \/ /\ got[t] \in {Failed, GaveUp} \/ (t \in Avatars /\ got[t] = {})
        /\ Update(t, IF t \in Avatars THEN End(task[t], "failed")
                     ELSE [task[t] EXCEPT !.pc = "match", !.step = @ + 1,
                                          !.error = IF @ = None THEN got[t] ELSE @])
     \/ /\ t \in Avatars
        /\ got[t] \notin {Failed, GaveUp, {}}
        /\ Update(t, [task[t] EXCEPT !.pc = "image", !.target = CHOOSE p \in got[t] : TRUE])
     \/ /\ t \in Entries
        /\ got[t] \notin {Failed, GaveUp}
        /\ Update(t, IF Single(matches)
                     THEN [Goto(task[t], "info") EXCEPT !.target = (CHOOSE r \in matches : TRUE).id]
                     ELSE [task[t] EXCEPT !.pc = "match", !.step = @ + 1,
                             !.ambiguous = @ \/ Ambiguous(s.kind, import.entry[t], records)])
  /\ UNCHANGED <<environment, server, cancelled>>

\* No strategy found a single item. An ambiguity counts more than an error,
\* an error is tried again if it is transient; the caller's own time limit is.
MatchEnds(t) ==
  /\ At(t, "match")
  /\ task[t].step \notin DOMAIN Lookups(t, import)
  /\ \/ task[t].ambiguous /\ Update(t, End(task[t], "ambiguous"))
     \/ ~task[t].ambiguous /\ task[t].error = None /\ Update(t, End(task[t], "unmatched"))
     \/ /\ ~task[t].ambiguous
        /\ task[t].error # None
        /\ \/ /\ task[t].attempt < Attempts
              /\ ~cancelled
              /\ Update(t, [task[t] EXCEPT !.step = 1, !.error = None, !.attempt = @ + 1])
           \/ /\ task[t].attempt = Attempts \/ cancelled \/ task[t].error = Failed
              /\ Update(t, End(task[t], "failed"))
  /\ UNCHANGED <<cache, environment, server, cancelled>>

\* A cancelled job starts no attempt; an unreadable image of a person.
NotStarted(t) ==
  /\ At(t, "match")
  /\ MayStart(t)
  /\ task[t].step = 1
  /\ t \in Entries => cancelled
  /\ Update(t, End(task[t], "failed"))
  /\ UNCHANGED <<cache, environment, server, cancelled>>

-----------------------------------------------------------------------------
(* Writing. A request of a task is one step with its answer; retryWithTimeout *)
(* checks the job's context before each attempt and after a failed one.      *)

Sending(t) == task[t].pc \in Levels \cup {"detail", "verify", "image"}

\* mergeItemMetadata: the metadata to send gets the media information that the
\* package has of the item.
HasMediaInfo(t) == import.entry[t].media

\* What is next: the write, which a dry run does not make, and the image.
ToWrite(t, media) ==
  [IF import.dryRun THEN End(task[t], "matched") ELSE Goto(task[t], "full") EXCEPT !.media = media]
ToImage(t, media) == [Goto(task[t], "image") EXCEPT !.media = media]
Ended(t, image, failed) ==
  [End(task[t], IF failed THEN "failed" ELSE "updated") EXCEPT !.image = image]

\* The package's info.json, and what of the media information to send.
ReadInfo(t) ==
  /\ At(t, "info")
  /\ \/ Update(t, End(task[t], "failed"))
     \/ /\ import.mediaInfo = "http"
        /\ Update(t, Goto(task[t], "detail"))
     \/ /\ import.mediaInfo = "none"
        /\ Update(t, ToWrite(t, "none"))
     \/ /\ import.mediaInfo = "database"
        /\ Update(t, ToWrite(t, IF HasMediaInfo(t) THEN "planned" ELSE "skipped"))
  /\ UNCHANGED <<cache, environment, server, cancelled>>

\* What follows a request that was answered, and one that failed for good.
Answered(t) ==
  LET included == task[t].included
      written == mediaOf[task[t].target] = t
  IN  CASE At(t, "detail") ->
             IF ~HasMediaInfo(t) \/ written THEN ToWrite(t, "skipped")
             ELSE IF import.dryRun THEN ToWrite(t, "planned")
             ELSE [ToWrite(t, "none") EXCEPT !.included = TRUE]
        [] At(t, "full") -> Goto(task[t], IF included THEN "verify" ELSE "image")
        [] task[t].pc \in {"compatibility", "minimal"} ->
             ToImage(t, IF included THEN "failed" ELSE task[t].media)
        [] At(t, "verify") -> ToImage(t, IF written THEN "updated" ELSE "failed")
        [] At(t, "image") -> Ended(t, "pushed", task[t].failed)

\* Mutant: a refused fallback counts as written.
GivenUpAccepted(t, rejected) ==
  IF At(t, "image") THEN Ended(t, "failed", FALSE) ELSE Goto(task[t], "image")

GivenUp(t, rejected) ==
  LET included == task[t].included
      tryNext == ~cancelled /\ (included \/ rejected)
      Unwritten(media) == [ToImage(t, media) EXCEPT !.failed = TRUE]
      failure == Unwritten(IF included THEN "failed" ELSE task[t].media)
  IN  CASE At(t, "detail") -> ToWrite(t, "failed")
        [] At(t, "full") -> IF tryNext THEN Goto(task[t], "compatibility") ELSE failure
        [] At(t, "compatibility") ->
             IF tryNext THEN Goto(task[t], "minimal") ELSE Unwritten(task[t].media)
        [] At(t, "minimal") -> failure
        [] At(t, "verify") -> ToImage(t, "failed")
        [] At(t, "image") -> Ended(t, "failed", task[t].failed \/ t \in Avatars)

\* The server carries out the import. It may ignore media information.
Serve(t) ==
  /\ accepted' = [accepted EXCEPT ![t] = @ \cup ({task[t].pc} \cap (Levels \cup {"image"}))]
  /\ \/ UNCHANGED <<mediaOf, persisted>>
     \/ /\ At(t, "full") /\ task[t].included
        /\ mediaOf' = [mediaOf EXCEPT ![task[t].target] = t]
        /\ persisted' = persisted \cup {t}

Fault ==
  /\ faults < import.faults
  /\ faults' = faults + 1

\* A transient failure is tried again.
Retry(t) ==
  /\ task[t].attempt < Attempts
  /\ Update(t, [task[t] EXCEPT !.attempt = @ + 1])

\* Mutant: no look at the context before an attempt.
RequestUnchecked(t) ==
  /\ Sending(t)
  /\ Serve(t)
  /\ Update(t, Answered(t))
  /\ UNCHANGED <<cache, environment, cancelled>>

RequestAnswered(t) ==
  /\ Sending(t)
  /\ ~cancelled
  /\ Serve(t)
  /\ Update(t, Answered(t))
  /\ UNCHANGED <<cache, environment, cancelled>>

\* The server did it, but the answer is lost or too late.
RequestLost(t) ==
  /\ Sending(t)
  /\ ~cancelled
  /\ Fault
  /\ Serve(t)
  /\ Retry(t) \/ (task[t].attempt = Attempts /\ Update(t, GivenUp(t, FALSE)))
  /\ UNCHANGED <<cache, import, cancelled>>

\* The server could not be reached or refuses: for the moment, the content
\* (HTTP 400), or for another reason that stays.
RequestFails(t) ==
  /\ Sending(t)
  /\ ~cancelled
  /\ Fault
  /\ Retry(t) \/ \E rejected \in BOOLEAN : Update(t, GivenUp(t, rejected))
  /\ UNCHANGED <<cache, import, server, cancelled>>

\* The rest of the attempts is not made.
RequestCancelled(t) ==
  /\ Sending(t)
  /\ cancelled
  /\ Update(t, GivenUp(t, FALSE))
  /\ UNCHANGED <<cache, environment, server, cancelled>>

\* No image, SkipImages, or an unreadable file.
ImageNotSent(t) ==
  /\ At(t, "image")
  /\ t \in Entries
  /\ \E image \in {"none", "failed"} : Update(t, Ended(t, image, task[t].failed))
  /\ UNCHANGED <<cache, environment, server, cancelled>>

Cancel ==
  /\ ~cancelled
  /\ cancelled' = TRUE
  /\ UNCHANGED <<cache, environment, task, server>>

-----------------------------------------------------------------------------
TaskStep(t) ==
  \/ Lookup(t) \/ FetchSucceeds(t) \/ FetchFails(t) \/ LookupReturns(t) \/ MatchEnds(t) \/ NotStarted(t)
  \/ ReadInfo(t) \/ RequestAnswered(t) \/ RequestLost(t) \/ RequestFails(t) \/ RequestCancelled(t)
  \/ ImageNotSent(t)

Next == Cancel \/ \E t \in Tasks : TaskStep(t) \/ WaiterGivesUp(t)

Spec == Init /\ [][Next]_vars

\* Some worker that can go on does: its requests have time limits. Nobody's
\* own time limit must end for the others to get on.
FairSpec == Spec /\ WF_vars(\E t \in Tasks : TaskStep(t))

-----------------------------------------------------------------------------
(* Properties *)

\* Every variable keeps its type.
TaskState ==
  [pc : {"match", "lookup", "info", "detail", "verify", "image", "end"} \cup Levels,
   step : Nat \ {0}, ambiguous : BOOLEAN, error : {None, Failed, GaveUp}, attempt : 1..Attempts,
   target : Items \cup Persons \cup {None}, included : BOOLEAN, failed : BOOLEAN,
   media : {"none", "planned", "skipped", "updated", "failed"}, image : {"none", "pushed", "failed"},
   status : {"none", "failed", "ambiguous", "unmatched", "matched", "updated"}]
TypeOK ==
  /\ Cache!CacheTypeOK
  /\ import \in Imports
  /\ task \in [Tasks -> TaskState]
  /\ accepted \in [Tasks -> SUBSET (Levels \cup {"image"})]
  /\ mediaOf \in [Items -> Entries \cup {None}]
  /\ persisted \subseteq Entries
  /\ cancelled \in BOOLEAN
  /\ faults \in 0..import.faults

\* One way in which an entry and an item are the same title: a provider id,
\* the file, the place in the series, or a name whose year does not differ.
SameName(n, m) == n # None /\ (n = m \/ (Slug[n] # None /\ Slug[n] = Slug[m]))
Agree(e, i) ==
  \/ \E n \in DOMAIN e.providers, m \in DOMAIN i.providers : e.providers[n] = i.providers[m]
  \/ /\ SameType(e.type, i)
     /\ \/ e.type # "Season" /\ e.stem # None /\ e.stem = i.stem
        \/ e.episode # 0 /\ e.episode = i.episode /\ (e.series = {} \/ e.series \cap i.series # {})
        \/ e.type = "Season" /\ (e.season = 0 \/ i.season \in {0, e.season})
                             /\ (e.series = {} \/ e.series \cap i.series # {})
        \/ /\ SameName(e.name, i.name) \/ SameName(ShortName[e.name], i.name)
              \/ (e.original # None /\ e.original \in {i.name, i.original})
           /\ e.year \in {0, i.year}

\* An item is never written with the metadata of a title it has nothing in
\* common with but the name (chooseUniqueMatch: "would write metadata onto the
\* wrong item"; exporter_test.go:80).
TargetsAgree ==
  \A e \in Entries : task[e].target # None => Agree(import.entry[e], import.item[task[e].target])

\* The server left an item out of its answer to a lookup of the entry by file,
\* series or season, because it had more of them than the request asks for.
LeftOut(e, i, kind) ==
  \E n \in DOMAIN Lookups(e, import) :
    LET s == Lookups(e, import)[n]
    IN  s.kind = kind /\ Cut(s.key) /\ answer[s.key] # NoAnswer /\ i \in Hits(s.key) \ answer[s.key]

\* A lookup looks for an item if it is among the hits of the lookup, shown in the
\* answer or behind its limit, and, but for a search by name, whose every answer
\* counts, would be accepted alone. Something that agrees with an entry may be no
\* hit of any of its lookups: a season of which only the place in the series is
\* known, or a title that is spelled otherwise.
LooksFor(s, e, i) ==
  Finds(s.key, i) /\ (s.kind \in {"name", "short", "original"} \/ i \in Accepted(s.kind, e, {i}))
AgreedIsFound(e) ==
  \A i \in DOMAIN import.item :
    Agree(import.entry[e], import.item[i]) =>
      \E n \in DOMAIN Lookups(e, import) :
        LooksFor(Lookups(e, import)[n], import.entry[e], import.item[i])

\* Of an entry whose lookups look for all that agrees with it, "unmatched" is a
\* statement about the server: no item of it agrees with the entry, but for those
\* behind the limit of a search by file, series or season. It is never the
\* consequence of a lookup that failed, in this worker or in the one it shared
\* the request with (exporter_test.go:2742), nor of the limits of the requests by
\* provider id and by name (findMatchWithCache).
UnmatchedIsTrue ==
  \A e \in Entries : task[e].status = "unmatched" /\ AgreedIsFound(e) =>
    \A i \in DOMAIN import.item :
      Agree(import.entry[e], import.item[i]) =>
        \E kind \in {"stem", "episode", "season"} : LeftOut(e, i, kind)

\* What the report says of an item is what the server has taken, also when
\* answers were lost and fallbacks were used; and media information counts as
\* updated only if the server has had it.
ReportIsTrue ==
  \A t \in Tasks :
    /\ task[t].status = "updated" =>
         IF t \in Entries THEN accepted[t] \cap Levels # {} ELSE "image" \in accepted[t]
    /\ task[t].media = "updated" => t \in persisted
    /\ task[t].image = "pushed" => "image" \in accepted[t]

\* A stopped import starts no request that writes, and a dry run has none.
StoppedImportWritesNothing ==
  [][accepted' # accepted \/ mediaOf' # mediaOf => ~cancelled /\ ~import.dryRun]_vars

\* The composed cache still implements the memo: one answer for a key, and a
\* failure is never kept.
ImplementsMemo == Cache!ImplementsMemo

\* Every item of the import gets a result, whoever fails or gives up a shared
\* request: no worker waits for a call that nobody ends.
TasksEnd == \A t \in Tasks : <>At(t, "end")
=============================================================================
