---------------------------- MODULE MediaDbPlan ----------------------------
(***************************************************************************)
(* internal/exporter/media_database_plan.go and internal/embydb: the plan  *)
(* of media information that imports leave in a package, one file for each *)
(* target server, and the job that writes the latest one into a library.db *)
(* of Emby, with the backups it leaves beside that database.               *)
(*                                                                         *)
(* Imports and applies are jobs of one queue, so they do not overlap. Emby *)
(* renames, removes and scans items meanwhile, wherever it runs; the clock *)
(* of the host is any when it is read. The stop and the start of the        *)
(* container are in MediaDbApply; the servers are of the package's version *)
(* series, others are refused before anything is done.                     *)
(***************************************************************************)
EXTENDS Naturals, FiniteSets

CONSTANTS
  Keys,        \* stable keys of the package's items
  Items,       \* item ids, of every library
  Names,       \* portable names of items
  Servers,
  Schemas,     \* fingerprints of library.db
  None,
  Keep,        \* backups kept beside a database (5)
  FirstNames,  \* [Items -> Names] of a library at first
  OldBackups,  \* sets of times of backups there may be at first
  MaxTime, MaxImports, MaxApplies, MaxChanges   \* bounds of the model

\* What the constants have to be.
PlanAssumption ==
  /\ None \notin Keys \cup Items \cup Servers
  /\ "scan" \notin Keys \cup {None}
  /\ None \notin [item : Items, name : Names]
  /\ None \notin [items : [Keys -> [item : Items, name : Names] \cup {None}], schema : Schemas \cup {"any"}]
  /\ FirstNames \in [Items -> Names]
  /\ OldBackups \subseteq SUBSET Nat /\ MaxTime \in Nat

VARIABLES
  plans,     \* [Servers -> plan or None]
  name,      \* [Servers -> [Items -> name or None]]: MediaItems
  media,     \* [Servers -> [Items -> key, "scan" or None]]: the streams of an item
  schema,    \* [Servers -> fingerprint]
  backups,   \* [Servers -> set of [time, media]]
  step, job, \* the apply job; its plan is read from the file in each step
  planned,   \* [Servers -> [Keys -> item or None]]: history, what imports planned last
  imports, applies, changes

package == <<plans, planned>>
libraries == <<name, media, schema>>
bounds == <<imports, applies, changes>>
planVars == <<package, libraries, backups, step, job, bounds>>

NoJob == [profile |-> None, db |-> None, auto |-> FALSE, overwrite |-> FALSE, plan |-> None, backup |-> 0]
Entries(items) == {k \in Keys : items[k] # None}
Times(d) == {b.time : b \in backups[d]}

\* latestMediaDatabasePlanPath takes the file with the latest modification time.
\* The clock of the host may have been set between any two writes, so that each
\* of the files can be that one.
Planned == {s \in Servers : plans[s] # None}
Latest(s) == s \in Planned

PlanInit ==
  /\ plans = [s \in Servers |-> None]
  /\ planned = [s \in Servers |-> [k \in Keys |-> None]]
  /\ name = [s \in Servers |-> FirstNames]
  /\ media \in [Servers -> {[i \in Items |-> None], [i \in Items |-> "scan"]}]
  /\ schema \in [Servers -> Schemas]
  /\ \E times \in OldBackups :
       backups = [s \in Servers |-> {[time |-> t, media |-> [i \in Items |-> None]] : t \in times}]
  /\ step = "idle" /\ job = NoJob
  /\ imports = 0 /\ applies = 0 /\ changes = 0

-----------------------------------------------------------------------------
(* The plan of an import *)

\* mergeMediaDatabasePlanItems. Mutant: only the entries of this import.
MergedOver(previous, current) == current
Merged(previous, current) ==
  [k \in Keys |-> IF current[k] # None THEN current[k] ELSE previous[k]]

\* BuildTargetBindingDigest refuses a plan that names an item twice.
Binds(items) == \A k, l \in Entries(items) : items[k].item = items[l].item => k = l

\* writeMediaDatabasePlan, when the import has matched what there is in the
\* library. The file is replaced as a whole, and bound to no fingerprint yet.
\* An import whose plan does not bind fails and leaves the file.
FinishImport(s) ==
  /\ step = "idle"
  /\ imports < MaxImports
  /\ \E found \in [Keys -> {i \in Items : name[s][i] # None} \cup {None}] :
       LET current == [k \in Keys |-> IF found[k] = None THEN None
                                      ELSE [item |-> found[k], name |-> name[s][found[k]]]]
           items == IF plans[s] = None THEN current ELSE Merged(plans[s].items, current)
       IN  /\ Entries(current) # {}
           /\ Binds(items)
           /\ plans' = [plans EXCEPT ![s] = [items |-> items, schema |-> "any"]]
           /\ planned' = [planned EXCEPT ![s] = [k \in Keys |-> IF found[k] # None THEN found[k] ELSE planned[s][k]]]
  /\ imports' = imports + 1
  /\ UNCHANGED <<libraries, backups, step, job, applies, changes>>

-----------------------------------------------------------------------------
(* The apply job *)

StepTo(next) == step' = next
JobFails == StepTo("failed") /\ UNCHANGED <<plans, media, backups, job>>
planItems == plans[job.plan].items
Target(k) == planItems[k].item
SameName(k) == name[job.db][Target(k)] = planItems[k].name

\* mediaDatabaseTargetProfile: the profile of the plan's server; one without a
\* managed container may have no server id on record.
Profiles(s, auto) == IF auto THEN {s} ELSE {s, None}

\* PreflightMediaDatabaseTarget: the latest plan and the profile are of one
\* server. The database is chosen apart from both.
StartApply(s, auto, overwrite, db) ==
  /\ step = "idle"
  /\ applies < MaxApplies
  /\ Latest(s)
  /\ \E profile \in Profiles(s, auto) :
       job' = [profile |-> profile, db |-> db, auto |-> auto, overwrite |-> overwrite, plan |-> s, backup |-> 0]
  /\ StepTo("validate")
  /\ applies' = applies + 1
  /\ UNCHANGED <<package, libraries, backups, imports, changes>>

\* computeSchemaIdentity; a plan that is bound to no fingerprint fits any.
SchemaFits == plans[job.plan].schema \in {"any", schema[job.db]}

\* validateTargetBinding: every item is there under the planned name.
TargetFits == \A k \in Entries(planItems) : SameName(k)

\* The first transaction of embydb.Apply, which is rolled back and releases
\* the database.
ValidatePlan ==
  /\ step = "validate"
  /\ \/ /\ SchemaFits /\ TargetFits
        /\ StepTo("backup")
        /\ UNCHANGED <<plans, media, backups, job>>
     \/ JobFails
  /\ UNCHANGED <<planned, name, schema, bounds>>

\* backupDatabase, under a name made from the time, which must be new.
BackUpDatabase(now) ==
  /\ step = "backup"
  /\ \/ /\ now \notin Times(job.db)
        /\ backups' = [backups EXCEPT ![job.db] = @ \cup {[time |-> now, media |-> media[job.db]]}]
        /\ job' = [job EXCEPT !.backup = now]
        /\ StepTo("transact")
        /\ UNCHANGED <<plans, media>>
     \/ JobFails
  /\ UNCHANGED <<planned, name, schema, bounds>>

\* cleanupDatabaseBackups: of the others the newest Keep - 1 stay. Mutant: the
\* newest Keep stay, whether the current is among them or not.
ExpiredByAge(d) == {t \in Times(d) : Cardinality({u \in Times(d) : u > t}) >= Keep}
Expired(d) ==
  LET others == Times(d) \ {job.backup}
  IN  {t \in others : Cardinality({u \in others : u > t}) >= Keep - 1}

\* applyItem for each entry; the streams of an item that has some are replaced
\* only with overwrite.
Written(k) == job.overwrite \/ media[job.db][Target(k)] = None
WrittenItems == {Target(k) : k \in {l \in Entries(planItems) : Written(l)}}
AfterApply == [i \in Items |->
  IF i \in WrittenItems THEN CHOOSE k \in Entries(planItems) : Target(k) = i ELSE media[job.db][i]]

Commit ==
  /\ media' = [media EXCEPT ![job.db] = AfterApply]
  /\ \E stuck \in SUBSET Expired(job.db) :
       backups' = [backups EXCEPT ![job.db] = {b \in @ : b.time \notin Expired(job.db) \ stuck}]
  /\ StepTo("report")
  /\ UNCHANGED <<plans, job>>

\* The second transaction: every item is looked at again, and the whole plan is
\* committed or nothing. A backup that cannot be removed is a warning. Mutant:
\* the names are left to the first transaction.
WritePlanUnchecked ==
  /\ step = "transact"
  /\ \/ Commit
     \/ JobFails
  /\ UNCHANGED <<planned, name, schema, bounds>>

WritePlan ==
  /\ step = "transact"
  /\ \/ (\A k \in Entries(planItems) : SameName(k)) /\ Commit
     \/ JobFails
  /\ UNCHANGED <<planned, name, schema, bounds>>

\* The rest of ApplyMediaDatabasePlan: the plan is bound to the fingerprint,
\* where a failure is a warning, and the report is written. The file's new time
\* decides which plan the readback finds.
Report ==
  /\ step = "report"
  /\ \/ /\ plans[job.plan].schema # schema[job.db]
        /\ plans' = [plans EXCEPT ![job.plan].schema = schema[job.db]]
        /\ \E s \in Servers : Latest(s) /\ job' = [job EXCEPT !.plan = s]
     \/ UNCHANGED <<plans, job>>
  /\ \/ StepTo("failed")
     \/ StepTo(IF job.auto THEN "verify" ELSE "done")
  /\ UNCHANGED <<planned, libraries, backups, bounds>>

\* VerifyMediaDatabasePlan over the API of the profile's server, whatever
\* database was written. Streams of a scan may be what is planned.
VerifyPlan ==
  /\ step = "verify"
  /\ \/ /\ \A k \in Entries(planItems) : media[job.profile][Target(k)] \in {k, "scan"}
        /\ StepTo("done")
     \/ StepTo("restore")
  /\ UNCHANGED <<package, libraries, backups, job, bounds>>

\* restoreDatabaseFromBackup
Restore ==
  /\ step = "restore"
  /\ \/ \E b \in backups[job.db] : b.time = job.backup /\ media' = [media EXCEPT ![job.db] = b.media]
     \/ UNCHANGED media
  /\ StepTo("failed")
  /\ UNCHANGED <<package, name, schema, backups, job, bounds>>

\* The job has ended, or the process has: a transaction of Emby's database
\* that was open is rolled back, files stay.
EndApply ==
  /\ step # "idle"
  /\ StepTo("idle")
  /\ job' = NoJob
  /\ UNCHANGED <<package, libraries, backups, bounds>>

-----------------------------------------------------------------------------
(* Emby *)

\* Emby of the library runs, unless the job has stopped it.
Runs(s) == ~(job.auto /\ s = job.profile /\ step \in {"validate", "backup", "transact", "report", "restore"})

\* An item is renamed, removed, or added by a scan; or its streams are read.
LibraryChanges(s) ==
  /\ Runs(s)
  /\ changes < MaxChanges
  /\ \E i \in Items :
       \/ \E n \in (Names \cup {None}) \ {name[s][i]} :
            /\ name' = [name EXCEPT ![s][i] = n]
            /\ media' = [media EXCEPT ![s][i] = IF n = None THEN None ELSE @]
       \/ /\ name[s][i] # None
          /\ media' = [media EXCEPT ![s][i] = "scan"]
          /\ UNCHANGED name
  /\ changes' = changes + 1
  /\ UNCHANGED <<package, schema, backups, step, job, imports, applies>>

\* Another build of the version series, between jobs.
Upgrade(s) ==
  /\ step = "idle"
  /\ changes < MaxChanges
  /\ schema' \in {[schema EXCEPT ![s] = f] : f \in Schemas \ {schema[s]}}
  /\ changes' = changes + 1
  /\ UNCHANGED <<package, name, media, backups, step, job, imports, applies>>

PlanNext ==
  \/ \E s \in Servers :
       \/ FinishImport(s) \/ LibraryChanges(s) \/ Upgrade(s)
       \/ \E auto, overwrite \in BOOLEAN, db \in Servers : StartApply(s, auto, overwrite, db)
  \/ \E now \in 1..MaxTime : BackUpDatabase(now)
  \/ ValidatePlan \/ WritePlan \/ Report \/ VerifyPlan \/ Restore \/ EndApply

PlanSpec == PlanInit /\ [][PlanNext]_planVars

-----------------------------------------------------------------------------
(* Properties *)

\* Every variable keeps its type; the job's database and plan are there.
PlanEntry == [item : Items, name : Names]
PlanFile == [items : [Keys -> PlanEntry \cup {None}], schema : Schemas \cup {"any"}]
Streams == [Items -> Keys \cup {"scan", None}]
PlanTypeOK ==
  /\ plans \in [Servers -> PlanFile \cup {None}]
  /\ planned \in [Servers -> [Keys -> Items \cup {None}]]
  /\ name \in [Servers -> [Items -> Names \cup {None}]]
  /\ media \in [Servers -> Streams]
  /\ schema \in [Servers -> Schemas]
  /\ backups \in [Servers -> SUBSET [time : Nat, media : Streams]]
  /\ step \in {"idle", "validate", "backup", "transact", "report", "verify", "restore", "done", "failed"}
  /\ job \in [profile : Servers \cup {None}, db : Servers \cup {None}, auto : BOOLEAN,
              overwrite : BOOLEAN, plan : Servers \cup {None}, backup : Nat]
  /\ step # "idle" => job.db \in Servers /\ job.plan \in Planned

\* What imports planned for a server is in the database when an apply of its
\* plan commits, whichever import planned it: the file of a later, smaller
\* import does not replace the earlier one. An item with streams of its own
\* counts when they are kept.
PlannedIsWritten ==
  [][step = "transact" /\ step' = "report" =>
       \A k \in Keys : planned[job.plan][k] # None =>
         media'[job.db][planned[job.plan][k]] # None]_planVars

\* Media information is written only to an item that still has the name for
\* which it was planned, also when Emby changed the library after the plan was
\* checked and the backup taken.
WritesKnowTheirItem ==
  [][\A s \in Servers, k \in Keys : \A i \in Items :
       media'[s][i] = k /\ media[s][i] # k /\ step = "transact" =>
         planItems[k] = [item |-> i, name |-> name[s][i]]]_planVars

\* The job's own backup is there to be restored until the job ends, also when
\* the clock was set back and older backups have later names.
BackupSurvives ==
  step \in {"transact", "report", "verify", "restore"} => job.backup \in Times(job.db)

\* Once a plan is bound to the fingerprint of a database, it is not applied to
\* another one (the comment of ApplyMediaDatabasePlan). It does not hold: the
\* next import binds the merged plan to any.
BoundStaysBound ==
  [][\A s \in Planned : plans[s].schema # "any" => plans'[s].schema # "any"]_planVars
=============================================================================
