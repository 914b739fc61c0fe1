-------------------------- MODULE ImportCheckpoint --------------------------
(***************************************************************************)
(* internal/exporter: the progress of an import that survives it. Beside   *)
(* the package lie import-checkpoint.json (base), the journal of the       *)
(* running import and one report per finished import; the next import with *)
(* resume skips what they call done. One import runs at a time (the job    *)
(* queue); its process may be killed between any two steps, the host may   *)
(* lose what was not synced, and a user may put another package into the   *)
(* directory between two imports.                                          *)
(*                                                                         *)
(* Only what decides whether a key is skipped is kept of an entry. The two *)
(* maps of a checkpoint are one set of keys: Items and Avatars.            *)
(***************************************************************************)
EXTENDS Naturals, FiniteSets, Sequences

CONSTANTS
  Items,         \* stable keys of items
  Avatars,       \* stable keys of people with an image
  Targets,       \* Emby servers, by ServerID
  Packages,      \* contents of manifest.json
  None,          \* no target, no fingerprint, no file
  SyncInterval,  \* importCheckpointSyncInterval, 25 in the code
  MaxImports, MaxCrashes, MaxWriteErrors   \* bounds of the model

ASSUME KeysAssumption == Items \cap Avatars = {}
ASSUME NoneAssumption == None \notin Targets \cup Packages
ASSUME CheckpointBounds ==
  /\ SyncInterval \in Nat \ {0}
  /\ {MaxImports, MaxCrashes, MaxWriteErrors} \subseteq Nat

VARIABLES
  package,      \* manifest.json in the directory
  base,         \* import-checkpoint.json, or None
  journalFile,  \* whether import-checkpoint.json.journal exists
  journal,      \* its complete, well-formed lines
  torn,         \* it ends in a fragment without newline
  synced,       \* lines a crash of the host cannot take
  reports,      \* reports of finished imports
  phase,        \* where Import is
  import,       \* target, fingerprint and resume flag of the running import
  skipped,      \* keys it skipped because of resume
  todo,         \* keys of the phase not yet given to a worker
  pending,      \* keys written to the target, result not collected
  got,          \* keys whose success was collected
  cancelled,    \* the job's context is cancelled
  store,        \* the importCheckpointStore
  written,      \* history: <<target, package, key>> written to a server
  acked,        \* history: keys of the last target whose Record returned nil
  imports, crashes, errors

diskVars == <<base, journalFile, journal, torn, synced>>
progressVars == <<skipped, todo, pending, got, cancelled>>
importVars == <<phase, import, progressVars>>
historyVars == <<written, acked>>
countVars == <<imports, crashes, errors>>
vars == <<package, diskVars, reports, importVars, store, historyVars, countVars>>

Keys == Items \cup Avatars
Checkpoint == [target : Targets \cup {None}, fp : Packages \cup {None}, done : SUBSET Keys]
Line == [target : Targets, key : Keys]
Report == [target : Targets, fp : Packages, done : SUBSET Items]
Phases == {"idle", "items", "avatars", "report", "close", "compact", "remove"}

\* The value for no file is not the content of one.
ASSUME NoFileAssumption == None \notin Checkpoint

Unopened == [open |-> FALSE, dirty |-> FALSE, sinceSync |-> 0, memory |-> None]
NoImport == [target |-> None, fp |-> None, resume |-> FALSE]

\* The process, or the call of Import, ends and its variables with it.
ImportOver ==
  /\ phase' = "idle"
  /\ import' = NoImport
  /\ skipped' = {} /\ todo' = {} /\ pending' = {} /\ got' = {}
  /\ cancelled' = FALSE
  /\ store' = Unopened

-----------------------------------------------------------------------------
(* Reading the files *)

\* samePackageFingerprint: a record without a fingerprint fits any package.
SameFingerprint(recorded, current) == recorded = None \/ recorded = current

\* Mutant: a line of another target is added to the checkpoint there is.
ReplayMixesTargets(checkpoint, line) ==
  [checkpoint EXCEPT !.target = line.target, !.done = @ \cup {line.key}]

\* replayImportCheckpointJournal, one line: a line of another target starts a
\* new checkpoint, which has no fingerprint.
Replay(checkpoint, line) ==
  IF checkpoint.target = line.target
  THEN [checkpoint EXCEPT !.done = @ \cup {line.key}]
  ELSE [target |-> line.target, fp |-> None, done |-> {line.key}]

NoCheckpoint == [target |-> None, fp |-> None, done |-> {}]

\* replayImportCheckpointJournal: after[n] is the checkpoint after n lines.
ReplayAll(checkpoint, lines) ==
  LET after[n \in 0..Len(lines)] ==
        IF n = 0 THEN checkpoint ELSE Replay(after[n - 1], lines[n])
  IN  after[Len(lines)]

\* loadImportCheckpoint.
Load == ReplayAll(IF base = None THEN NoCheckpoint ELSE base, journal)
Found == base # None \/ journal # <<>>

\* readImportCheckpoint: what a resume for this target and package accepts.
Accepted(target, fp) ==
  IF Found /\ Load.target = target /\ SameFingerprint(Load.fp, fp) THEN Load.done ELSE {}

\* resumeSuccessfulItems: the checkpoint and every report that fits.
ResumedItems(target, fp) ==
  (Accepted(target, fp) \cap Items) \cup
  UNION {r.done : r \in {s \in reports : s.target = target /\ SameFingerprint(s.fp, fp)}}

-----------------------------------------------------------------------------
Init ==
  /\ package \in Packages
  /\ base = None
  /\ journalFile = FALSE
  /\ journal = <<>>
  /\ torn = FALSE
  /\ synced = 0
  /\ reports = {}
  /\ phase = "idle"
  /\ import = NoImport
  /\ skipped = {} /\ todo = {} /\ pending = {} /\ got = {}
  /\ cancelled = FALSE
  /\ store = Unopened
  /\ written = {}
  /\ acked = [target |-> None, keys |-> {}]
  /\ imports = 0 /\ crashes = 0 /\ errors = 0

\* Import up to the worker pool: fingerprint, resume set, remaining items.
Begin(target, resume) ==
  /\ phase = "idle"
  /\ imports < MaxImports
  /\ imports' = imports + 1
  /\ phase' = "items"
  /\ import' = [target |-> target, fp |-> package, resume |-> resume]
  /\ skipped' = IF resume THEN ResumedItems(target, package) ELSE {}
  /\ todo' = Items \ skipped'
  /\ pending' = {} /\ got' = {}
  /\ cancelled' = FALSE
  /\ store' = Unopened
  /\ UNCHANGED <<package, diskVars, reports, historyVars, crashes, errors>>

\* A worker wrote the item or uploaded the avatar.
Write(key) ==
  /\ phase \in {"items", "avatars"}
  /\ key \in todo
  /\ todo' = todo \ {key}
  /\ pending' = pending \cup {key}
  /\ written' = written \cup {<<import.target, import.fp, key>>}
  /\ UNCHANGED <<package, diskVars, reports, phase, import, skipped, got, cancelled, store, acked, countVars>>

\* No match, a failed request, or images that failed: nothing to record.
NotWritten(key) ==
  /\ phase \in {"items", "avatars"}
  /\ key \in todo
  /\ todo' = todo \ {key}
  /\ UNCHANGED <<package, diskVars, reports, phase, import, skipped, pending, got, cancelled, store>>
  /\ UNCHANGED <<historyVars, countVars>>

-----------------------------------------------------------------------------
(* The checkpoint store. The collector calls Record for one result at a time *)

\* initializeLocked: what the files hold for another target or package is not
\* taken over; an unfinished last line gets its newline.
Opened ==
  IF store.open THEN store
  ELSE [open |-> TRUE, dirty |-> journalFile, sinceSync |-> 0,
        memory |-> [target |-> import.target, fp |-> import.fp,
                    done |-> Accepted(import.target, import.fp)]]

Acknowledge(key) ==
  acked' = [target |-> import.target,
            keys |-> {key} \cup (IF acked.target = import.target THEN acked.keys ELSE {})]

\* Mutant: initializeLocked does not end an unfinished line.
RecordOnFragment(key) ==
  /\ phase \in {"items", "avatars"}
  /\ key \in pending
  /\ pending' = pending \ {key}
  /\ got' = got \cup {key}
  /\ journal' = IF torn THEN journal
                ELSE Append(journal, [target |-> import.target, key |-> key])
  /\ synced' = synced
  /\ store' = [Opened EXCEPT !.dirty = TRUE, !.memory.done = @ \cup {key}]
  /\ torn' = FALSE
  /\ journalFile' = TRUE
  /\ Acknowledge(key)
  /\ UNCHANGED <<package, base, reports, phase, import, skipped, todo, cancelled, written, countVars>>

\* Record and RecordPersonAvatar: open the store, append a line, sync every
\* SyncInterval lines. A line written after a fragment is lost in it.
Record(key) ==
  /\ phase \in {"items", "avatars"}
  /\ key \in pending
  /\ pending' = pending \ {key}
  /\ got' = got \cup {key}
  /\ LET fragment == store.open /\ torn
         sync == Opened.sinceSync + 1 >= SyncInterval
     IN /\ journal' = IF fragment THEN journal
                      ELSE Append(journal, [target |-> import.target, key |-> key])
        /\ synced' = IF sync THEN Len(journal')
                     ELSE IF torn /\ ~store.open THEN Len(journal) ELSE synced
        /\ store' = [Opened EXCEPT !.dirty = TRUE,
                                   !.sinceSync = IF sync THEN 0 ELSE @ + 1,
                                   !.memory.done = @ \cup {key}]
  /\ torn' = FALSE
  /\ journalFile' = TRUE
  /\ Acknowledge(key)
  /\ UNCHANGED <<package, base, reports, phase, import, skipped, todo, cancelled, written, countVars>>

\* The write of a line fails, after a part of it: the import only warns.
RecordFails(key) ==
  /\ phase \in {"items", "avatars"}
  /\ errors < MaxWriteErrors
  /\ errors' = errors + 1
  /\ key \in pending
  /\ pending' = pending \ {key}
  /\ got' = got \cup {key}
  /\ store' = Opened
  /\ journalFile' = TRUE
  /\ torn' \in {TRUE, torn /\ store.open}
  /\ UNCHANGED <<package, base, journal, synced, reports, phase, import, skipped, todo, cancelled>>
  /\ UNCHANGED <<historyVars, imports, crashes>>

-----------------------------------------------------------------------------
(* The end of the phases, and Close *)

Cancel ==
  /\ phase \in {"items", "avatars"}
  /\ ~cancelled
  /\ cancelled' = TRUE
  /\ UNCHANGED <<package, diskVars, reports, phase, import, skipped, todo, pending, got, store>>
  /\ UNCHANGED <<historyVars, countVars>>

Collected == todo = {} /\ pending = {}

\* importItems returns when every result was collected; with a cancelled
\* context it returns an error, or the results so far when the workers are
\* gone before it looks. importPeopleImages then reads the checkpoint again.
ItemsEnd ==
  /\ phase = "items"
  /\ Collected \/ cancelled
  /\ phase' = "avatars"
  /\ LET resumed == IF import.resume THEN Accepted(import.target, import.fp) \cap Avatars ELSE {}
     IN /\ skipped' = skipped \cup resumed
        /\ todo' = Avatars \ resumed
  /\ pending' = {}
  /\ UNCHANGED <<package, diskVars, reports, import, got, cancelled, store, historyVars, countVars>>

AvatarsEnd ==
  /\ phase = "avatars"
  /\ Collected \/ cancelled
  /\ phase' = "report"
  /\ todo' = {} /\ pending' = {}
  /\ UNCHANGED <<package, diskVars, reports, import, skipped, got, cancelled, store, historyVars, countVars>>

\* An error on the way, that of the cancelled context among them: Import
\* returns without a report.
Abort ==
  /\ phase = "report" \/ (phase \in {"items", "avatars"} /\ cancelled)
  /\ phase' = "close"
  /\ todo' = {} /\ pending' = {}
  /\ UNCHANGED <<package, diskVars, reports, import, skipped, got, cancelled, store, historyVars, countVars>>

WriteReport ==
  /\ phase = "report"
  /\ phase' = "close"
  /\ reports' = reports \cup {[target |-> import.target, fp |-> import.fp, done |-> got \cap Items]}
  /\ UNCHANGED <<package, diskVars, import, progressVars, store>>
  /\ UNCHANGED <<historyVars, countVars>>

\* Close, first part: nothing was opened, or nothing was ever appended, or
\* the journal is synced, closed and merged with the base.
CloseUnopened ==
  /\ phase = "close"
  /\ ~store.open
  /\ ImportOver
  /\ UNCHANGED <<package, diskVars, reports, historyVars, countVars>>

\* Mutant: Close forgets to compact what was appended.
CloseAsClean ==
  /\ phase = "close"
  /\ store.open
  /\ phase' = "remove"
  /\ UNCHANGED <<package, diskVars, reports, import, progressVars, store>>
  /\ UNCHANGED <<historyVars, countVars>>

CloseClean ==
  /\ phase = "close"
  /\ store.open
  /\ ~store.dirty
  /\ phase' = "remove"
  /\ UNCHANGED <<package, diskVars, reports, import, progressVars, store>>
  /\ UNCHANGED <<historyVars, countVars>>

CloseMerge ==
  /\ phase = "close"
  /\ store.open
  /\ store.dirty
  /\ phase' = "compact"
  /\ synced' = Len(journal)
  /\ store' = [store EXCEPT !.memory = IF Found /\ Load.target = import.target THEN Load ELSE @]
  /\ UNCHANGED <<package, base, journalFile, journal, torn, reports, import, progressVars>>
  /\ UNCHANGED <<historyVars, countVars>>

\* writeImportCheckpointAtomic: a synced temporary file, renamed.
WriteBase ==
  /\ phase = "compact"
  /\ phase' = "remove"
  /\ base' = store.memory
  /\ UNCHANGED <<package, journalFile, journal, torn, synced, reports, import, progressVars, store>>
  /\ UNCHANGED <<historyVars, countVars>>

RemoveJournal ==
  /\ phase = "remove"
  /\ ImportOver
  /\ journalFile' = FALSE
  /\ journal' = <<>>
  /\ torn' = FALSE
  /\ synced' = 0
  /\ UNCHANGED <<package, base, reports, historyVars, countVars>>

-----------------------------------------------------------------------------
(* What is outside the program *)

\* The process or the host stops: of the journal, the synced lines remain and
\* any number of the others, the first lost one perhaps in part.
Crash ==
  /\ phase # "idle"
  /\ crashes < MaxCrashes
  /\ crashes' = crashes + 1
  /\ ImportOver
  /\ \E keep \in synced..Len(journal) :
       /\ journal' = SubSeq(journal, 1, keep)
       /\ acked' = [acked EXCEPT !.keys = @ \ {journal[i].key : i \in keep + 1..Len(journal)}]
  /\ torn' \in {torn, journalFile /\ store.open}
  /\ UNCHANGED <<package, base, journalFile, synced, reports, written, imports, errors>>

\* Another package is put into the directory; progress made with the one
\* before is void.
ReplacePackage ==
  /\ phase = "idle"
  /\ imports < MaxImports
  /\ package' \in Packages \ {package}
  /\ acked' = [acked EXCEPT !.keys = {}]
  /\ UNCHANGED <<diskVars, reports, importVars, store, written, countVars>>

Next ==
  \/ \E target \in Targets, resume \in BOOLEAN : Begin(target, resume)
  \/ \E key \in Keys : Write(key) \/ NotWritten(key) \/ Record(key) \/ RecordFails(key)
  \/ Cancel \/ ItemsEnd \/ AvatarsEnd \/ Abort \/ WriteReport
  \/ CloseUnopened \/ CloseClean \/ CloseMerge \/ WriteBase \/ RemoveJournal
  \/ Crash
  \/ ReplacePackage

Spec == Init /\ [][Next]_vars

-----------------------------------------------------------------------------
(* Properties *)

\* Every variable keeps its type.
TypeOK ==
  /\ package \in Packages
  /\ base \in Checkpoint \cup {None}
  /\ journalFile \in BOOLEAN
  /\ journal \in Seq(Line)
  /\ torn \in BOOLEAN
  /\ synced \in 0..Len(journal)
  /\ reports \subseteq Report
  /\ phase \in Phases
  /\ import \in [target : Targets \cup {None}, fp : Packages \cup {None}, resume : BOOLEAN]
  /\ skipped \subseteq Keys /\ todo \subseteq Keys /\ pending \subseteq Keys /\ got \subseteq Keys
  /\ cancelled \in BOOLEAN
  /\ store \in [open : BOOLEAN, dirty : BOOLEAN, sinceSync : 0..SyncInterval - 1,
                memory : Checkpoint \cup {None}]
  /\ written \subseteq Targets \X Packages \X Keys
  /\ acked \in [target : Targets \cup {None}, keys : SUBSET Keys]
  /\ {imports, crashes, errors} \subseteq Nat

\* Whatever imports, crashes and switches of the target came before, a key
\* that a resumed import skips was written to this very server.
SkippedWasWritten ==
  phase # "idle" =>
    \A key \in skipped : \E p \in Packages : <<import.target, p, key>> \in written

\* A key whose Record returned nil is found again by the next import of the
\* same target and package, in the journal, in the base or in both, at every
\* moment of Close and after every crash, unless the host lost the line or a
\* write failed.
RecordedIsResumed ==
  acked.target # None /\ errors = 0 => acked.keys \subseteq Accepted(acked.target, package)

\* Compaction changes the files and not what they say: neither the write of
\* the base nor the removal of the journal changes what a resume of the present
\* package accepts, for any server, while writes succeed.
CompactionKeepsProgress ==
  [][(phase \in {"compact", "remove"} /\ errors = 0) =>
       \A t \in Targets : Accepted(t, package)' = Accepted(t, package)]_vars

\* The comment on packageFingerprint: replacing the manifest invalidates older
\* checkpoints "instead of silently skipping new content".
SkippedContentWasWritten ==
  phase # "idle" =>
    \A key \in skipped : <<import.target, import.fp, key>> \in written

\* The release notes of 1.1.4: completion, failure and cancellation all end
\* with a final flush. What Record accepted is in the base file after it.
FinalFlush ==
  [][(phase = "remove" /\ phase' = "idle" /\ crashes' = crashes /\ base # None) =>
       (acked.target = base.target => acked.keys \subseteq base.done)]_vars

=============================================================================
