---------------------------- MODULE MediaDbProofs ----------------------------
(***************************************************************************)
(* Proofs about the offline write of media information, whose two modules  *)
(* share no variable.                                                      *)
(*                                                                         *)
(* - MediaDbPlan, for any package, servers and clock: what was planned is  *)
(*   written, to the items it was planned for, and the backup of a job is  *)
(*   kept while it may be restored.                                        *)
(* - MediaDbApply, for every value of its constants: where Emby is stopped *)
(*   while the database is written, what the backup holds, and (for a      *)
(*   daemon that gives up a stop with its request, and a readback that     *)
(*   agrees) that Emby runs again when the job ends.                       *)
(***************************************************************************)
EXTENDS MediaDbApply, MediaDbPlan, TLAPS

-----------------------------------------------------------------------------
(* MediaDbPlan *)

\* What an import planned last is in the plan file of its server.
PlannedIsFiled ==
  \A s \in Servers, k \in Keys : planned[s][k] # None =>
    /\ s \in Planned
    /\ k \in Entries(plans[s].items)
    /\ plans[s].items[k].item = planned[s][k]

PlanInv == PlanTypeOK /\ PlannedIsFiled /\ BackupSurvives

\* The items and names of a plan are those of its type.
LEMMA EntryType ==
  ASSUME PlanAssumption, PlanTypeOK, NEW s \in Planned, NEW k \in Entries(plans[s].items)
  PROVE  plans[s] \in PlanFile /\ plans[s].items[k] \in PlanEntry
BY DEF PlanAssumption, PlanTypeOK, Planned, Entries, PlanFile, PlanEntry

\* What a commit leaves in an item: its streams, or those of a key that the
\* plan has for it.
LEMMA AfterApplyLemma ==
  ASSUME PlanAssumption, PlanTypeOK, step = "transact", NEW i \in Items
  PROVE  \/ i \notin WrittenItems /\ AfterApply[i] = media[job.db][i]
         \/ /\ i \in WrittenItems
            /\ AfterApply[i] \in Entries(planItems)
            /\ Target(AfterApply[i]) = i
<1> CASE i \notin WrittenItems
  BY DEF AfterApply
<1> CASE i \in WrittenItems
  <2>1. \E k \in Entries(planItems) : Target(k) = i
    BY DEF WrittenItems
  <2> DEFINE c == CHOOSE k \in Entries(planItems) : Target(k) = i
  <2>2. c \in Entries(planItems) /\ Target(c) = i
    BY <2>1
  <2>3. AfterApply[i] = c
    BY DEF AfterApply
  <2> HIDE DEF c
  <2> QED
    BY <2>2, <2>3
<1> QED
  OBVIOUS

\* The streams after a commit are of their type.
LEMMA AfterApplyType ==
  ASSUME PlanAssumption, PlanTypeOK, step = "transact"
  PROVE  AfterApply \in Streams
<1>1. ASSUME NEW i \in Items PROVE AfterApply[i] \in Keys \cup {"scan", None}
  BY <1>1, AfterApplyLemma DEF PlanTypeOK, Streams, Entries
<1>2. AfterApply = [i \in Items |-> AfterApply[i]]
  BY DEF AfterApply
<1> QED
  BY <1>1, <1>2 DEF Streams

LEMMA PlanInitInv == PlanAssumption /\ PlanInit => PlanInv
<1> SUFFICES ASSUME PlanAssumption, PlanInit PROVE PlanInv
  OBVIOUS
<1>1. FirstNames \in [Items -> Names \cup {None}]
  BY DEF PlanAssumption
<1>2. media \in [Servers -> Streams]
  BY DEF PlanInit, Streams
<1>3. backups \in [Servers -> SUBSET [time : Nat, media : Streams]]
  <2>1. PICK times \in OldBackups :
          backups = [s \in Servers |-> {[time |-> t, media |-> [i \in Items |-> None]] : t \in times}]
    BY DEF PlanInit
  <2>2. times \subseteq Nat
    BY <2>1 DEF PlanAssumption
  <2>3. [i \in Items |-> None] \in Streams
    BY DEF Streams
  <2> QED
    BY <2>1, <2>2, <2>3
<1>4. PlanTypeOK
  BY <1>1, <1>2, <1>3 DEF PlanInit, PlanTypeOK, NoJob
<1>5. PlannedIsFiled /\ BackupSurvives
  BY DEF PlanInit, PlannedIsFiled, BackupSurvives
<1> QED
  BY <1>4, <1>5 DEF PlanInv

(***************************************************************************)
(* Each step keeps the invariant.                                          *)
(***************************************************************************)
LEMMA FinishImportInv ==
  ASSUME PlanAssumption, PlanInv, NEW s \in Servers, FinishImport(s)
  PROVE  PlanInv'
<1> USE DEF PlanInv
<1>1. PICK found \in [Keys -> {i \in Items : name[s][i] # None} \cup {None}] :
        LET current == [k \in Keys |-> IF found[k] = None THEN None
                                       ELSE [item |-> found[k], name |-> name[s][found[k]]]]
            items == IF plans[s] = None THEN current ELSE Merged(plans[s].items, current)
        IN  /\ plans' = [plans EXCEPT ![s] = [items |-> items, schema |-> "any"]]
            /\ planned' = [planned EXCEPT ![s] = [k \in Keys |-> IF found[k] # None THEN found[k] ELSE planned[s][k]]]
  BY DEF FinishImport
<1> DEFINE current == [k \in Keys |-> IF found[k] = None THEN None
                                      ELSE [item |-> found[k], name |-> name[s][found[k]]]]
           items == IF plans[s] = None THEN current ELSE Merged(plans[s].items, current)
           file == [items |-> items, schema |-> "any"]
<1>2. /\ plans' = [plans EXCEPT ![s] = file]
      /\ planned' = [planned EXCEPT ![s] = [k \in Keys |-> IF found[k] # None THEN found[k] ELSE planned[s][k]]]
  BY <1>1
<1>3. ASSUME NEW k \in Keys, found[k] # None
      PROVE  /\ current[k] = [item |-> found[k], name |-> name[s][found[k]]]
             /\ current[k] \in PlanEntry /\ current[k].item = found[k]
  BY <1>3 DEF PlanTypeOK, PlanEntry
<1>4. current \in [Keys -> PlanEntry \cup {None}]
  BY <1>3
<1>5. \A k \in Keys : found[k] # None => items[k] = current[k] /\ current[k] # None
  <2> SUFFICES ASSUME NEW k \in Keys, found[k] # None
               PROVE  items[k] = current[k] /\ current[k] # None
    OBVIOUS
  <2>1. current[k] # None
    BY <1>3 DEF PlanAssumption, PlanEntry
  <2> HIDE DEF current
  <2> QED
    BY <2>1 DEF Merged
<1>6. \A k \in Keys : found[k] = None /\ plans[s] # None => items[k] = plans[s].items[k]
  <2> SUFFICES ASSUME NEW k \in Keys, found[k] = None, plans[s] # None
               PROVE  items[k] = plans[s].items[k]
    OBVIOUS
  <2>1. current[k] = None
    OBVIOUS
  <2> HIDE DEF current
  <2> QED
    BY <2>1 DEF Merged
<1>7. plans[s] # None => plans[s] \in PlanFile
  BY DEF PlanTypeOK
<1>8. items \in [Keys -> PlanEntry \cup {None}]
  <2>1. CASE plans[s] = None
    BY <2>1, <1>4
  <2>2. CASE plans[s] # None
    <3> HIDE DEF current
    <3> QED
      BY <2>2, <1>4, <1>7 DEF Merged, PlanFile
  <2> QED
    BY <2>1, <2>2
<1>9. file \in PlanFile
  <2> HIDE DEF items
  <2> QED
    BY <1>8 DEF PlanFile
<1>10. file # None
  BY <1>9 DEF PlanAssumption, PlanFile, PlanEntry
<1> HIDE DEF file
<1>11. plans' \in [Servers -> PlanFile \cup {None}] /\ plans'[s] = file
  BY <1>2, <1>9 DEF PlanTypeOK
<1>12. Planned \subseteq Planned' /\ s \in Planned'
  BY <1>2, <1>10, <1>11 DEF Planned, PlanTypeOK
<1>13. planned' \in [Servers -> [Keys -> Items \cup {None}]]
  <2>1. [k \in Keys |-> IF found[k] # None THEN found[k] ELSE planned[s][k]] \in [Keys -> Items \cup {None}]
    BY DEF PlanTypeOK
  <2> QED
    BY <1>2, <2>1 DEF PlanTypeOK
<1>14. PlanTypeOK'
  BY <1>11, <1>12, <1>13 DEF PlanTypeOK, FinishImport, libraries, Streams
<1>15. PlannedIsFiled'
  <2> SUFFICES ASSUME NEW t \in Servers, NEW k \in Keys, planned'[t][k] # None
               PROVE  t \in Planned' /\ k \in Keys /\ plans'[t].items[k] # None
                      /\ plans'[t].items[k].item = planned'[t][k]
    BY DEF PlannedIsFiled, Entries
  <2>1. CASE t # s
    <3>1. planned'[t] = planned[t] /\ plans'[t] = plans[t]
      BY <2>1, <1>2 DEF PlanTypeOK
    <3> QED
      BY <3>1, <1>12 DEF PlannedIsFiled, Entries
  <2>2. CASE t = s
    <3>1. plans'[t].items = items
      BY <2>2, <1>11 DEF file
    <3>2. planned'[t][k] = IF found[k] # None THEN found[k] ELSE planned[s][k]
      BY <2>2, <1>2 DEF PlanTypeOK
    <3> HIDE DEF items, current
    <3>3. CASE found[k] # None
      BY <2>2, <3>1, <3>2, <3>3, <1>3, <1>5, <1>12
    <3>4. CASE found[k] = None
      <4>1. planned[s][k] # None
        BY <3>2, <3>4
      <4>2. s \in Planned /\ plans[s].items[k] # None /\ plans[s].items[k].item = planned[s][k]
        BY <4>1 DEF PlannedIsFiled, Entries
      <4>3. plans[s] # None
        BY <4>2 DEF Planned
      <4> QED
        BY <2>2, <3>1, <3>2, <3>4, <4>2, <4>3, <1>6, <1>12
    <3> QED
      BY <3>3, <3>4
  <2> QED
    BY <2>1, <2>2
<1>16. BackupSurvives'
  BY DEF FinishImport, BackupSurvives
<1> QED
  BY <1>14, <1>15, <1>16

\* Steps that leave the plans, or bind one of them, keep what is filed.
LEMMA FiledKept ==
  ASSUME PlanInv, UNCHANGED planned,
         \A s \in Planned : s \in Planned' /\ plans'[s].items = plans[s].items
  PROVE  PlannedIsFiled'
BY DEF PlanInv, PlannedIsFiled, Entries

LEMMA CommitInv ==
  ASSUME PlanAssumption, PlanInv, WritePlan, Commit
  PROVE  PlanInv'
<1> USE DEF PlanInv
<1>1. step = "transact" /\ step' = "report" /\ UNCHANGED <<plans, job, planned, name, schema>>
  BY DEF WritePlan, Commit, StepTo
<1>2. AfterApply \in Streams
  BY <1>1, AfterApplyType
<1>3. media' \in [Servers -> Streams]
  BY <1>1, <1>2 DEF Commit, PlanTypeOK
<1>4. PICK stuck \in SUBSET Expired(job.db) :
        backups' = [backups EXCEPT ![job.db] = {b \in @ : b.time \notin Expired(job.db) \ stuck}]
  BY DEF Commit
<1>5. backups' \in [Servers -> SUBSET [time : Nat, media : Streams]]
  BY <1>4 DEF PlanTypeOK
<1>6. PlanTypeOK'
  BY <1>1, <1>3, <1>5 DEF PlanTypeOK, Planned
<1>7. BackupSurvives'
  <2>1. job.backup \in Times(job.db) /\ job.db \in Servers
    BY <1>1 DEF BackupSurvives, PlanTypeOK
  <2>2. job.backup \notin Expired(job.db)
    BY DEF Expired
  <2>3. job.backup \in Times(job.db)'
    BY <1>1, <1>4, <2>1, <2>2 DEF Times, PlanTypeOK
  <2> QED
    BY <1>1, <2>3 DEF BackupSurvives
<1>8. PlannedIsFiled'
  BY <1>1, FiledKept DEF Planned
<1> QED
  BY <1>6, <1>7, <1>8

LEMMA JobStepInv ==
  ASSUME PlanAssumption, PlanInv,
         \/ \E s, db \in Servers, auto, overwrite \in BOOLEAN : StartApply(s, auto, overwrite, db)
         \/ \E now \in 1..MaxTime : BackUpDatabase(now)
         \/ ValidatePlan \/ WritePlan \/ Report \/ VerifyPlan \/ Restore \/ EndApply
  PROVE  PlanInv'
<1> USE DEF PlanInv
<1>1. ASSUME NEW s \in Servers, NEW db \in Servers, NEW auto \in BOOLEAN, NEW overwrite \in BOOLEAN,
             StartApply(s, auto, overwrite, db)
      PROVE  PlanInv'
  <2>1. UNCHANGED <<plans, planned, name, media, schema, backups>> /\ step' = "validate" /\ s \in Planned
    BY <1>1 DEF StartApply, Profiles, StepTo, Latest, package, libraries
  <2>2. PICK profile \in {s, None} :
          job' = [profile |-> profile, db |-> db, auto |-> auto, overwrite |-> overwrite, plan |-> s, backup |-> 0]
    BY <1>1 DEF StartApply, Profiles
  <2>3. PlanTypeOK'
    BY <2>1, <2>2 DEF PlanTypeOK, Planned
  <2>4. PlannedIsFiled'
    BY <2>1, FiledKept DEF Planned
  <2> QED
    BY <2>1, <2>3, <2>4 DEF BackupSurvives
<1>2. ASSUME NEW now \in 1..MaxTime, BackUpDatabase(now)
      PROVE  PlanInv'
  <2>1. UNCHANGED <<plans, planned, name, media, schema>> /\ step = "backup" /\ job.db \in Servers /\ now \in Nat
    BY <1>2 DEF BackUpDatabase, JobFails, PlanTypeOK, PlanAssumption
  <2>2. PlannedIsFiled'
    BY <2>1, FiledKept DEF Planned
  <2>3. CASE step' = "failed" /\ UNCHANGED <<backups, job>>
    BY <2>1, <2>2, <2>3 DEF PlanTypeOK, BackupSurvives, Planned
  <2>4. CASE /\ backups' = [backups EXCEPT ![job.db] = @ \cup {[time |-> now, media |-> media[job.db]]}]
             /\ job' = [job EXCEPT !.backup = now]
             /\ step' = "transact"
    <3>1. [time |-> now, media |-> media[job.db]] \in [time : Nat, media : Streams]
      BY <2>1 DEF PlanTypeOK
    <3>2. backups' \in [Servers -> SUBSET [time : Nat, media : Streams]]
      BY <3>1, <2>1, <2>4 DEF PlanTypeOK
    <3>3. job'.db = job.db /\ job'.plan = job.plan /\ job'.backup = now
      BY <2>4 DEF PlanTypeOK
    <3>4. PlanTypeOK'
      BY <2>1, <2>4, <3>2, <3>3 DEF PlanTypeOK, Planned
    <3>5. [time |-> now, media |-> media[job.db]] \in backups'[job'.db]
      BY <2>1, <2>4, <3>3 DEF PlanTypeOK
    <3>6. now \in Times(job.db)'
      BY <3>5 DEF Times
    <3> QED
      BY <2>2, <3>3, <3>4, <3>6 DEF BackupSurvives
  <2> QED
    BY <1>2, <2>3, <2>4 DEF BackUpDatabase, JobFails, StepTo
<1>3. ASSUME ValidatePlan PROVE PlanInv'
  <2>1. UNCHANGED <<plans, planned, name, media, schema, backups, job>> /\ step = "validate" /\ step' \in {"backup", "failed"}
    BY <1>3 DEF ValidatePlan, JobFails, StepTo
  <2>2. PlannedIsFiled'
    BY <2>1, FiledKept DEF Planned
  <2> QED
    BY <2>1, <2>2 DEF PlanTypeOK, BackupSurvives, Planned
<1>4. ASSUME WritePlan PROVE PlanInv'
  <2>1. CASE Commit
    BY <1>4, <2>1, CommitInv
  <2>2. CASE JobFails
    <3>1. UNCHANGED <<plans, planned, name, media, schema, backups, job>> /\ step = "transact" /\ step' = "failed"
      BY <1>4, <2>2 DEF WritePlan, JobFails, StepTo
    <3>2. PlannedIsFiled'
      BY <3>1, FiledKept DEF Planned
    <3> QED
      BY <3>1, <3>2 DEF PlanTypeOK, BackupSurvives, Planned
  <2> QED
    BY <1>4, <2>1, <2>2 DEF WritePlan
<1>5. ASSUME Report PROVE PlanInv'
  <2>1. UNCHANGED <<planned, name, media, schema, backups>> /\ step = "report" /\ step' \in {"failed", "verify", "done"}
    BY <1>5 DEF Report, StepTo, libraries
  <2>2. job.plan \in Planned /\ job.plan \in Servers /\ plans[job.plan] \in PlanFile
    BY <2>1 DEF PlanTypeOK, Planned
  <2>3. CASE UNCHANGED <<plans, job>>
    <3>1. PlannedIsFiled'
      BY <2>1, <2>3, FiledKept DEF Planned
    <3> QED
      BY <2>1, <2>3, <3>1 DEF PlanTypeOK, BackupSurvives, Planned, Times
  <2>4. CASE /\ plans' = [plans EXCEPT ![job.plan].schema = schema[job.db]]
             /\ \E s \in Servers : Latest(s) /\ job' = [job EXCEPT !.plan = s]
    <3>1. PICK s \in Planned : job' = [job EXCEPT !.plan = s]
      BY <2>4 DEF Latest
    <3>2. job'.db = job.db /\ job'.backup = job.backup /\ job'.plan = s /\ s \in Servers
      BY <3>1 DEF PlanTypeOK, Planned
    <3>3. schema[job.db] \in Schemas
      BY <2>1 DEF PlanTypeOK
    <3>4. [plans[job.plan] EXCEPT !.schema = schema[job.db]] \in PlanFile
      BY <2>2, <3>3 DEF PlanFile
    <3>5. plans'[job.plan] = [plans[job.plan] EXCEPT !.schema = schema[job.db]]
      BY <2>2, <2>4 DEF PlanTypeOK
    <3>6. None \notin PlanFile
      BY DEF PlanAssumption, PlanFile, PlanEntry
    <3>7. plans' \in [Servers -> PlanFile \cup {None}]
      BY <2>4, <3>4 DEF PlanTypeOK
    <3>8. \A t \in Planned : t \in Planned' /\ plans'[t].items = plans[t].items
      <4> SUFFICES ASSUME NEW t \in Planned
                   PROVE  t \in Planned' /\ plans'[t].items = plans[t].items
        OBVIOUS
      <4>1. CASE t = job.plan
        BY <4>1, <2>2, <3>4, <3>5, <3>6 DEF Planned, PlanFile
      <4>2. CASE t # job.plan
        BY <4>2, <2>4 DEF Planned, PlanTypeOK
      <4> QED
        BY <4>1, <4>2
    <3>9. PlannedIsFiled'
      BY <2>1, <3>8, FiledKept
    <3>10. PlanTypeOK'
      BY <2>1, <3>1, <3>2, <3>7, <3>8 DEF PlanTypeOK
    <3>11. BackupSurvives'
      BY <2>1, <3>2 DEF BackupSurvives, Times
    <3> QED
      BY <3>9, <3>10, <3>11
  <2> QED
    BY <1>5, <2>3, <2>4 DEF Report
<1>6. ASSUME VerifyPlan PROVE PlanInv'
  <2>1. UNCHANGED <<plans, planned, name, media, schema, backups, job>> /\ step = "verify" /\ step' \in {"done", "restore"}
    BY <1>6 DEF VerifyPlan, StepTo, package, libraries
  <2>2. PlannedIsFiled'
    BY <2>1, FiledKept DEF Planned
  <2>3. PlanTypeOK'
    BY <2>1 DEF PlanTypeOK, Planned
  <2>4. BackupSurvives'
    BY <2>1 DEF PlanTypeOK, BackupSurvives, Times
  <2> QED
    BY <2>2, <2>3, <2>4
<1>7. ASSUME Restore PROVE PlanInv'
  <2>1. UNCHANGED <<plans, planned, name, schema, backups, job>> /\ step = "restore" /\ step' = "failed"
    BY <1>7 DEF Restore, StepTo, package
  <2>2. media' \in [Servers -> Streams]
    <3>1. CASE UNCHANGED media
      BY <3>1 DEF PlanTypeOK
    <3>2. CASE \E b \in backups[job.db] : media' = [media EXCEPT ![job.db] = b.media]
      <4>1. PICK b \in backups[job.db] : media' = [media EXCEPT ![job.db] = b.media]
        BY <3>2
      <4>2. job.db \in Servers
        BY <2>1 DEF PlanTypeOK
      <4>3. b \in [time : Nat, media : Streams]
        BY <4>2 DEF PlanTypeOK
      <4> QED
        BY <4>1, <4>2, <4>3 DEF PlanTypeOK
    <3> QED
      BY <1>7, <3>1, <3>2 DEF Restore
  <2>3. PlannedIsFiled'
    BY <2>1, FiledKept DEF Planned
  <2>4. PlanTypeOK'
    BY <2>1, <2>2 DEF PlanTypeOK, Planned
  <2>5. BackupSurvives'
    BY <2>1 DEF BackupSurvives
  <2> QED
    BY <2>3, <2>4, <2>5
<1>8. ASSUME EndApply PROVE PlanInv'
  <2>1. UNCHANGED <<plans, planned, name, media, schema, backups>> /\ step' = "idle" /\ job' = NoJob
    BY <1>8 DEF EndApply, StepTo, package, libraries
  <2>2. PlannedIsFiled'
    BY <2>1, FiledKept DEF Planned
  <2> QED
    BY <2>1, <2>2 DEF PlanTypeOK, BackupSurvives, NoJob
<1> QED
  BY <1>1, <1>2, <1>3, <1>4, <1>5, <1>6, <1>7, <1>8

LEMMA EmbyInv ==
  ASSUME PlanAssumption, PlanInv, NEW s \in Servers, LibraryChanges(s) \/ Upgrade(s)
  PROVE  PlanInv'
<1> USE DEF PlanInv
<1>1. UNCHANGED <<plans, planned, backups, step, job>>
  BY DEF LibraryChanges, Upgrade, package
<1>2. PlannedIsFiled'
  BY <1>1, FiledKept DEF Planned
<1>3. BackupSurvives'
  BY <1>1 DEF BackupSurvives, Times
<1>4. CASE LibraryChanges(s)
  <2>1. PICK i \in Items :
          \/ \E n \in (Names \cup {None}) \ {name[s][i]} :
               /\ name' = [name EXCEPT ![s][i] = n]
               /\ media' = [media EXCEPT ![s][i] = IF n = None THEN None ELSE @]
          \/ /\ media' = [media EXCEPT ![s][i] = "scan"]
             /\ UNCHANGED name
    BY <1>4 DEF LibraryChanges
  <2>2. PICK v \in Keys \cup {"scan", None} : media' = [media EXCEPT ![s] = [@ EXCEPT ![i] = v]]
    <3>1. media[s][i] \in Keys \cup {"scan", None}
      BY DEF PlanTypeOK, Streams
    <3>2. ASSUME NEW n, media' = [media EXCEPT ![s][i] = IF n = None THEN None ELSE @]
          PROVE  \E v \in Keys \cup {"scan", None} : media' = [media EXCEPT ![s] = [@ EXCEPT ![i] = v]]
      <4>1. CASE n = None
        BY <3>2, <4>1
      <4>2. CASE n # None
        BY <3>1, <3>2, <4>2
      <4> QED
        BY <4>1, <4>2
    <3>3. CASE media' = [media EXCEPT ![s][i] = "scan"]
      BY <3>3
    <3> QED
      BY <2>1, <3>2, <3>3
  <2>3. [media[s] EXCEPT ![i] = v] \in Streams
    BY DEF PlanTypeOK, Streams
  <2>4. media' \in [Servers -> Streams]
    BY <2>2, <2>3 DEF PlanTypeOK
  <2>5. name' \in [Servers -> [Items -> Names \cup {None}]]
    <3>1. CASE UNCHANGED name
      BY <3>1 DEF PlanTypeOK
    <3>2. ASSUME NEW n \in Names \cup {None}, name' = [name EXCEPT ![s] = [@ EXCEPT ![i] = n]]
          PROVE  name' \in [Servers -> [Items -> Names \cup {None}]]
      BY <3>2 DEF PlanTypeOK
    <3> QED
      BY <2>1, <3>1, <3>2
  <2>6. UNCHANGED schema
    BY <1>4 DEF LibraryChanges
  <2> QED
    BY <1>1, <1>2, <1>3, <2>4, <2>5, <2>6 DEF PlanTypeOK, Planned
<1>5. CASE Upgrade(s)
  BY <1>1, <1>2, <1>3, <1>5 DEF Upgrade, PlanTypeOK, Planned
<1> QED
  BY <1>4, <1>5

LEMMA PlanNextInv ==
  ASSUME PlanAssumption, PlanInv, [PlanNext]_planVars
  PROVE  PlanInv'
<1>1. CASE UNCHANGED planVars
  <2>1. UNCHANGED <<plans, planned, name, media, schema, backups, step, job>>
    BY <1>1 DEF planVars, package, libraries
  <2>2. PlannedIsFiled'
    BY <2>1, FiledKept DEF Planned
  <2> QED
    BY <2>1, <2>2 DEF PlanInv, PlanTypeOK, BackupSurvives, Planned, Times
<1>2. CASE PlanNext
  <2>1. CASE \E s \in Servers : FinishImport(s)
    BY <2>1, FinishImportInv
  <2>2. CASE \E s \in Servers : LibraryChanges(s) \/ Upgrade(s)
    BY <2>2, EmbyInv
  <2>3. CASE \/ \E s, db \in Servers, auto, overwrite \in BOOLEAN : StartApply(s, auto, overwrite, db)
             \/ \E now \in 1..MaxTime : BackUpDatabase(now)
             \/ ValidatePlan \/ WritePlan \/ Report \/ VerifyPlan \/ Restore \/ EndApply
    BY <2>3, JobStepInv
  <2> QED
    BY <1>2, <2>1, <2>2, <2>3 DEF PlanNext
<1> QED
  BY <1>1, <1>2

\* Every variable keeps its type, what imports planned is on file, and the
\* backup of the job is there: the invariant the other theorems rest on.
THEOREM PlanInvariant ==
  ASSUME PlanAssumption
  PROVE  PlanSpec => []PlanInv
<1>1. PlanInit => PlanInv
  BY PlanInitInv
<1>2. PlanInv /\ [PlanNext]_planVars => PlanInv'
  BY PlanNextInv
<1> QED
  BY <1>1, <1>2, PTL DEF PlanSpec

\* The backup of a job is kept until it ends, for every clock and every number
\* of backups to keep (embydb.go, cleanupDatabaseBackups).
THEOREM KeepsOwnBackup ==
  ASSUME PlanAssumption
  PROVE  PlanSpec => []BackupSurvives
<1>1. PlanInv => BackupSurvives
  BY DEF PlanInv
<1> QED
  BY <1>1, PlanInvariant, PTL

\* A commit leaves every item that imports planned for the plan's server with
\* media information (media_database_plan.go, mergeMediaDatabasePlanItems).
THEOREM WritesWhatWasPlanned ==
  ASSUME PlanAssumption
  PROVE  PlanSpec => PlannedIsWritten
<1>1. ASSUME PlanInv, [PlanNext]_planVars, step = "transact", step' = "report",
             NEW k \in Keys, planned[job.plan][k] # None
      PROVE  media'[job.db][planned[job.plan][k]] # None
  <2>1. job.db \in Servers /\ job.plan \in Planned /\ job.plan \in Servers
    BY <1>1 DEF PlanInv, PlanTypeOK, Planned
  <2>2. k \in Entries(planItems) /\ Target(k) = planned[job.plan][k]
    BY <1>1, <2>1 DEF PlanInv, PlannedIsFiled, Target, planItems
  <2>3. Target(k) \in Items
    BY <1>1, <2>1, <2>2, EntryType DEF PlanInv, Target, PlanEntry, planItems
  <2>4. Commit
    BY <1>1 DEF PlanNext, FinishImport, LibraryChanges, Upgrade, StartApply, ValidatePlan, BackUpDatabase, WritePlan,
                Report, VerifyPlan, Restore, EndApply, JobFails, StepTo, planVars
  <2>5. media'[job.db] = AfterApply
    BY <1>1, <2>1, <2>4 DEF Commit, PlanInv, PlanTypeOK
  <2>6. CASE Target(k) \in WrittenItems
    <3>1. AfterApply[Target(k)] \in Keys
      BY <1>1, <2>3, <2>6, AfterApplyLemma DEF PlanInv, Entries
    <3> QED
      BY <2>2, <2>5, <3>1 DEF PlanAssumption
  <2>7. CASE Target(k) \notin WrittenItems
    <3>1. media[job.db][Target(k)] # None
      BY <2>2, <2>7 DEF WrittenItems, Written
    <3>2. AfterApply[Target(k)] = media[job.db][Target(k)]
      BY <1>1, <2>3, <2>7, AfterApplyLemma DEF PlanInv
    <3> QED
      BY <2>2, <2>5, <3>1, <3>2
  <2> QED
    BY <2>6, <2>7
<1>2. PlanInv /\ [PlanNext]_planVars =>
        [step = "transact" /\ step' = "report" =>
           \A k \in Keys : planned[job.plan][k] # None =>
             media'[job.db][planned[job.plan][k]] # None]_planVars
  BY <1>1
<1> QED
  BY <1>2, PlanInvariant, PTL DEF PlanSpec, PlannedIsWritten

\* A commit writes the streams of a key only to the item the plan has for it,
\* under the name it was planned for (embydb.go, applyItem).
THEOREM WritesToKnownItems ==
  ASSUME PlanAssumption
  PROVE  PlanSpec => WritesKnowTheirItem
<1>1. ASSUME PlanInv, [PlanNext]_planVars, NEW s \in Servers, NEW k \in Keys, NEW i \in Items,
             media'[s][i] = k, media[s][i] # k, step = "transact"
      PROVE  planItems[k] = [item |-> i, name |-> name[s][i]]
  <2>1. job.db \in Servers /\ job.plan \in Planned
    BY <1>1 DEF PlanInv, PlanTypeOK
  <2>2. k # "scan" /\ k # None
    BY DEF PlanAssumption
  <2>3. ASSUME NEW t \in Servers, LibraryChanges(t) PROVE FALSE
    <3>1. \E j \in Items : \E v \in {media[t][j], None, "scan"} : media' = [media EXCEPT ![t][j] = v]
      <4>1. PICK j \in Items :
              \/ \E n \in (Names \cup {None}) \ {name[t][j]} :
                   media' = [media EXCEPT ![t][j] = IF n = None THEN None ELSE @]
              \/ media' = [media EXCEPT ![t][j] = "scan"]
        BY <2>3 DEF LibraryChanges
      <4>2. ASSUME NEW n, media' = [media EXCEPT ![t][j] = IF n = None THEN None ELSE @]
            PROVE  \E v \in {media[t][j], None, "scan"} : media' = [media EXCEPT ![t][j] = v]
        <5>1. CASE n = None
          BY <4>2, <5>1
        <5>2. CASE n # None
          BY <4>2, <5>2
        <5> QED
          BY <5>1, <5>2
      <4> QED
        BY <4>1, <4>2
    <3> PICK j \in Items : \E v \in {media[t][j], None, "scan"} : media' = [media EXCEPT ![t][j] = v]
      BY <3>1
    <3>6. PICK v \in {media[t][j], None, "scan"} : media' = [media EXCEPT ![t][j] = v]
      OBVIOUS
    <3>2. media'[s][i] \in {media[s][i], v}
      BY <1>1, <3>6 DEF PlanInv, PlanTypeOK, Streams
    <3>3. v = media[s][i] \/ v \in {None, "scan"} \/ s # t \/ i # j
      BY <3>6
    <3>4. s # t \/ i # j => media'[s][i] = media[s][i]
      BY <1>1, <3>6 DEF PlanInv, PlanTypeOK, Streams
    <3> QED
      BY <1>1, <2>2, <3>2, <3>3, <3>4
  <2>4. Commit /\ \A l \in Entries(planItems) : SameName(l)
    <3>1. media' # media
      BY <1>1
    <3>2. PlanNext
      BY <1>1, <3>1 DEF planVars, libraries
    <3>3. WritePlan
      BY <1>1, <3>1, <3>2, <2>3 DEF PlanNext, FinishImport, Upgrade, StartApply, ValidatePlan, BackUpDatabase,
                Report, VerifyPlan, Restore, EndApply, libraries
    <3> QED
      BY <3>1, <3>3 DEF WritePlan, JobFails
  <2>5. s = job.db /\ AfterApply[i] = k
    BY <1>1, <2>1, <2>4 DEF Commit, PlanInv, PlanTypeOK
  <2>6. k \in Entries(planItems) /\ Target(k) = i
    BY <1>1, <2>5, AfterApplyLemma DEF PlanInv
  <2>7. planItems[k] \in PlanEntry
    BY <1>1, <2>1, <2>6, EntryType DEF PlanInv, planItems
  <2>8. planItems[k].item = i /\ planItems[k].name = name[s][i]
    BY <2>4, <2>5, <2>6 DEF SameName, Target
  <2> QED
    BY <2>7, <2>8 DEF PlanEntry
<1>2. PlanInv /\ [PlanNext]_planVars =>
        [\A s \in Servers, k \in Keys : \A i \in Items :
           media'[s][i] = k /\ media[s][i] # k /\ step = "transact" =>
             planItems[k] = [item |-> i, name |-> name[s][i]]]_planVars
  BY <1>1
<1> QED
  BY <1>2, PlanInvariant, PTL DEF PlanSpec, WritesKnowTheirItem

-----------------------------------------------------------------------------
(* MediaDbApply *)

(* The inductive invariant *)

Applying == {"prepare", "validate", "backup", "transact", "report", "ready", "verify"}

\* The steps of the apply, of the restore and of the deferred start are not
\* mixed.
StageInv ==
  /\ pc \in {"start", "waitrunning"} /\ outcome # "none" => stage = "deferred"
  /\ stage = "deferred" => pc \in {"start", "waitrunning", "done", "exited"}
  /\ outcome # "none" => pc \in {"deferred", "start", "waitrunning", "done", "exited"}
  /\ pc \in Applying => stage = "apply"
  /\ pc = "restorefile" => stage = "restore"
  /\ pc \in {"stop", "stopping", "waitstopped"} => stage \in {"apply", "restore"}

\* From the end of the stop to the start the container is stopped.
StoppedInv ==
  mode = "auto" /\ pc \in {"validate", "backup", "transact", "report", "restorefile"}
    => container = "stopped"

\* The backup is made before anything needs it, and Emby is stopped from the
\* backup to the commit.
BackupInv ==
  /\ pc \in {"transact", "report", "ready", "verify"} => backup \in Databases
  /\ pc \in {"start", "waitrunning"} /\ stage = "apply" => backup \in Databases
  /\ stage = "restore" => backup \in Databases
  /\ mode = "auto" /\ pc = "transact" => backup = database

\* The plan is in the database from the commit to the restore, and in no
\* backup.
AppliedInv ==
  /\ ~backup.applied
  /\ pc \in {"prepare", "validate", "backup", "transact"} => ~database.applied
  /\ pc \in {"stop", "stopping", "waitstopped"} /\ stage = "apply" => ~database.applied
  /\ pc \in {"report", "ready", "verify"} => database.applied
  /\ pc \in {"start", "waitrunning"} /\ stage = "apply" => database.applied
  /\ pc \in {"start", "waitrunning"} /\ stage = "restore" => ~database.applied

IInv == TypeOK /\ StageInv /\ StoppedInv /\ BackupInv /\ AppliedInv /\ OutcomeIsTruthful

USE ModesAssumption, SwitchesAssumption

LEMMA InitIInv == Init => IInv
<1> SUFFICES ASSUME Init PROVE IInv
  OBVIOUS
<1>1. database \in Databases
  BY DEF Init, Databases
<1>2. TypeOK
  BY <1>1 DEF Init, TypeOK
<1>3. ~database.applied /\ ~backup.applied
  BY DEF Init, NoBackup
<1> QED
  BY <1>2, <1>3 DEF Init, IInv, StageInv, StoppedInv, BackupInv, AppliedInv, OutcomeIsTruthful, Applying

LEMMA NextIInv == IInv /\ [Next]_vars => IInv'
<1> SUFFICES ASSUME IInv, [Next]_vars
             PROVE  IInv'
  OBVIOUS
<1> USE DEF IInv, TypeOK, StageInv, StoppedInv, BackupInv, AppliedInv, OutcomeIsTruthful, Applying,
            jobVars, contextVars, Goto, Return, Fail, Running
<1>1. CASE Prepare
  <2>1. wasRunning' \in BOOLEAN /\ restartNeeded' \in BOOLEAN
    <3>1. CASE UNCHANGED <<wasRunning, restartNeeded>>
      BY <3>1
    <3>2. CASE wasRunning' = Running /\ restartNeeded' = Running
      <4>1. Running \in BOOLEAN
        OBVIOUS
      <4> HIDE DEF Running
      <4> QED
        BY <3>2, <4>1, Zenon
    <3> QED
      BY <1>1, <3>1, <3>2, Zenon DEF Prepare
  <2>2. CASE Fail
    BY <1>1, <2>1, <2>2 DEF Prepare
  <2>3. CASE mode = "manual" /\ Goto("validate") /\ UNCHANGED outcome
    BY <1>1, <2>1, <2>3 DEF Prepare
  <2>4. CASE mode = "auto" /\ Running /\ Goto("stop") /\ UNCHANGED outcome
    BY <1>1, <2>1, <2>4 DEF Prepare
  <2>5. CASE mode = "auto" /\ ~Running /\ Goto("validate") /\ UNCHANGED outcome
    BY <1>1, <2>1, <2>5 DEF Prepare
  <2> QED
    BY <1>1, <2>2, <2>3, <2>4, <2>5, Zenon DEF Prepare
<1>2. CASE StopCall
  BY <1>2 DEF StopCall
<1>3. CASE StopReturns
  <2>1. restartNeeded' \in BOOLEAN
    BY <1>3, Zenon DEF StopReturns
  <2> QED
    BY <1>3, <2>1 DEF StopReturns
<1>4. CASE StopFails
  BY <1>4 DEF StopFails
<1>5. CASE WaitStopped
  BY <1>5 DEF WaitStopped
<1>6. CASE Start
  BY <1>6 DEF Start, Started, StartFails, StartCancelled
<1>7. CASE WaitRunning
  <2> USE DEF WaitRunning, StartFails, StartCancelled
  <2>1. restartNeeded' \in BOOLEAN
    BY <1>7, Zenon
  <2>2. CASE StartFails /\ UNCHANGED restartNeeded
    BY <1>7, <2>2
  <2>3. CASE ~StartCancelled /\ stage = "apply" /\ Goto("ready") /\ restartNeeded' = FALSE
             /\ UNCHANGED outcome
    BY <1>7, <2>3
  <2>4. CASE ~StartCancelled /\ stage = "restore" /\ Return("restored") /\ restartNeeded' = FALSE
    BY <1>7, <2>4
  <2>5. CASE ~StartCancelled /\ stage = "deferred" /\ Goto("done")
             /\ UNCHANGED <<restartNeeded, outcome>>
    BY <1>7, <2>5
  <2> QED
    BY <1>7, <2>2, <2>3, <2>4, <2>5
<1>8. CASE Validate
  BY <1>8 DEF Validate
<1>9. CASE Backup
  BY <1>9 DEF Backup
<1>10. CASE Transact
  <2>1. CASE Fail /\ UNCHANGED database
    BY <1>10, <2>1 DEF Transact
  <2>2. CASE ~cancelled /\ database' = [database EXCEPT !.applied = TRUE] /\ Goto("report")
             /\ UNCHANGED outcome
    <3>1. database' \in Databases /\ database'.applied
      BY <2>2 DEF Databases
    <3> QED
      BY <1>10, <2>2, <3>1 DEF Transact
  <2> QED
    BY <1>10, <2>1, <2>2 DEF Transact
<1>11. CASE ApplyReport
  BY <1>11 DEF ApplyReport
<1>12. CASE WaitForEmbyReady
  BY <1>12 DEF WaitForEmbyReady
<1>13. CASE Verify
  BY <1>13 DEF Verify
<1>14. CASE RestoreFile
  BY <1>14 DEF RestoreFile
<1>15. CASE Deferred
  BY <1>15 DEF Deferred
<1>16. CASE DaemonStops
  BY <1>16 DEF DaemonStops
<1>17. CASE EmbyWrites
  <2>1. database' \in Databases /\ database'.applied = database.applied
    BY <1>17 DEF EmbyWrites, Databases
  <2> QED
    BY <1>17, <2>1 DEF EmbyWrites
<1>18. CASE Cancel
  BY <1>18 DEF Cancel
<1>19. CASE Exit
  BY <1>19 DEF Exit
<1>20. CASE UNCHANGED vars
  BY <1>20 DEF vars
<1> QED
  BY <1>1, <1>2, <1>3, <1>4, <1>5, <1>6, <1>7, <1>8, <1>9, <1>10, <1>11, <1>12, <1>13, <1>14,
     <1>15, <1>16, <1>17, <1>18, <1>19, <1>20 DEF Next, JobStep

LEMMA Invariance == Spec => []IInv
<1> QED
  BY InitIInv, NextIInv, PTL DEF Spec

\* The variables keep their types; the database a restore brings back is
\* always one that was backed up.
THEOREM TypeCorrect == Spec => []TypeOK
  BY Invariance, PTL DEF IInv
\* What the job reports about the database is so.
THEOREM Truthful == Spec => []OutcomeIsTruthful
  BY Invariance, PTL DEF IInv

\* A step that changes whether the plan is in the database is the commit or
\* the restore.
LEMMA WhoApplies ==
  IInv /\ [Next]_vars /\ database'.applied # database.applied
    => Transact \/ RestoreFile
<1> SUFFICES ASSUME IInv, [Next]_vars, database' # database, ~Transact, ~RestoreFile
             PROVE  database'.applied = database.applied
  OBVIOUS
<1>1. EmbyWrites
  BY DEF Next, JobStep, vars, Prepare, StopCall, StopReturns, StopFails, WaitStopped, Start, WaitRunning,
         Validate, Backup, ApplyReport, WaitForEmbyReady, Verify, Deferred, DaemonStops, Cancel, Exit
<1> QED
  BY <1>1 DEF EmbyWrites, IInv, TypeOK, Databases

\* Where the job manages the container, neither the commit nor the restore
\* happens while Emby may be writing.
THEOREM WritesWhileStopped == Modes \subseteq {"auto"} /\ Spec => WriteOnlyWhileStopped
<1> SUFFICES ASSUME Modes \subseteq {"auto"}
             PROVE  Spec => WriteOnlyWhileStopped
  OBVIOUS
<1>1. IInv /\ [Next]_vars
        => [database'.applied # database.applied => container = "stopped"]_vars
  BY WhoApplies DEF IInv, TypeOK, StoppedInv, Transact, RestoreFile
<1> QED
  BY <1>1, Invariance, PTL DEF Spec, WriteOnlyWhileStopped

\* And the commit finds the database as the backup has it.
THEOREM BackupBeforeCommit == Modes \subseteq {"auto"} /\ Spec => BackupIsPreImage
<1> SUFFICES ASSUME Modes \subseteq {"auto"}
             PROVE  Spec => BackupIsPreImage
  OBVIOUS
<1>1. IInv /\ [Next]_vars => [database'.applied /\ ~database.applied => backup = database]_vars
  BY WhoApplies DEF IInv, TypeOK, BackupInv, AppliedInv, Transact, RestoreFile
<1> QED
  BY <1>1, Invariance, PTL DEF Spec, BackupIsPreImage

-----------------------------------------------------------------------------
(* Emby runs again when the job ends *)

\* With a daemon that gives up a stop with its request, the container is
\* stopping only while the job waits; with a readback that agrees, a restore
\* begins only in a cancelled job and ends at its first request.
RestartInv ==
  /\ container = "stopping" => pc \in {"stopping", "exited"}
  /\ stage = "restore" => cancelled /\ pc \in {"stop", "deferred", "done", "exited"}
  /\ wasRunning /\ ~restartNeeded /\ pc # "exited" => container = "running"
  /\ pc = "prepare" => ~wasRunning
  /\ pc = "stop" /\ stage = "apply" => restartNeeded
  /\ EmbyRestarted

\* With a daemon that gives up a stop with its request and a readback that
\* agrees, Emby runs again when the job ends (the deferred restart of the
\* orchestration).
THEOREM RunsAgain == ~StopOutlivesClient /\ ~ReadbackFails /\ Spec => []EmbyRestarted
<1> SUFFICES ASSUME ~StopOutlivesClient, ~ReadbackFails
             PROVE  Spec => []EmbyRestarted
  OBVIOUS
<1>1. Init => RestartInv
  BY DEF Init, RestartInv, EmbyRestarted
<1>2. IInv /\ RestartInv /\ [Next]_vars => RestartInv'
  <2> SUFFICES ASSUME IInv, RestartInv, [Next]_vars
               PROVE  RestartInv'
    OBVIOUS
  <2> USE DEF IInv, TypeOK, StageInv, RestartInv, EmbyRestarted, Applying,
                  jobVars, contextVars, Goto, Return, Fail, Running
  <2>1. CASE Prepare
    <3>1. CASE UNCHANGED <<wasRunning, container, stage, cancelled>> /\ pc' # "done"
      BY <2>1, <3>1 DEF Prepare
    <3>2. CASE wasRunning' = Running /\ restartNeeded' = Running /\ pc' # "done"
      <4>1. ~Running => ~wasRunning'
        BY <3>2, Zenon
      <4>2. Running => restartNeeded'
        BY <3>2, Zenon
      <4> QED
        BY <2>1, <3>2, <4>1, <4>2 DEF Prepare
    <3> QED
      BY <2>1, <3>1, <3>2 DEF Prepare
  <2>2. CASE StopCall
    BY <2>2 DEF StopCall
  <2>3. CASE StopReturns
    BY <2>3 DEF StopReturns
  <2>4. CASE StopFails
    BY <2>4 DEF StopFails
  <2>5. CASE WaitStopped
    BY <2>5 DEF WaitStopped
  <2>6. CASE Start
    BY <2>6 DEF Start, Started, StartFails, StartCancelled
  <2>7. CASE WaitRunning
    BY <2>7 DEF WaitRunning, StartFails, StartCancelled
  <2>8. CASE Validate \/ Backup \/ Transact \/ ApplyReport \/ WaitForEmbyReady
    BY <2>8 DEF Validate, Backup, Transact, ApplyReport, WaitForEmbyReady
  <2>9. CASE Verify
    BY <2>9 DEF Verify
  <2>10. CASE RestoreFile
    BY <2>10 DEF RestoreFile
  <2>11. CASE Deferred
    BY <2>11 DEF Deferred
  <2>12. CASE DaemonStops \/ EmbyWrites \/ Cancel \/ Exit
    BY <2>12 DEF DaemonStops, EmbyWrites, Cancel, Exit
  <2>13. CASE UNCHANGED vars
    BY <2>13 DEF vars
  <2> QED
    BY <2>1, <2>2, <2>3, <2>4, <2>5, <2>6, <2>7, <2>8, <2>9, <2>10, <2>11, <2>12, <2>13
       DEF Next, JobStep
<1>3. RestartInv => EmbyRestarted
  BY DEF RestartInv
<1> QED
  BY <1>1, <1>2, <1>3, Invariance, PTL DEF Spec

\* With restores: from the request of a restore's stop to its return the
\* container may be stopped without restartNeeded.
RestoredInv ==
  /\ container = "stopping" => pc \in {"stopping", "exited"}
  /\ wasRunning /\ ~restartNeeded /\ pc # "exited" =>
       container = "running" \/ RestoreStopFailed \/ (stage = "restore" /\ pc = "stopping")
  /\ pc = "prepare" => ~wasRunning
  /\ pc \in {"stop", "stopping"} /\ stage = "apply" => restartNeeded
  /\ EmbyRestartedButForRestoreStop

\* The same for any readback: the failed stop of a restore is the only way in
\* which the container is left down.
THEOREM RunsAgainAfterRestore ==
  ~StopOutlivesClient /\ Spec => []EmbyRestartedButForRestoreStop
<1> SUFFICES ASSUME ~StopOutlivesClient
             PROVE  Spec => []EmbyRestartedButForRestoreStop
  OBVIOUS
<1>1. Init => RestoredInv
  BY DEF Init, RestoredInv, EmbyRestartedButForRestoreStop, EmbyRestarted
<1>2. IInv /\ RestoredInv /\ [Next]_vars => RestoredInv'
  <2> SUFFICES ASSUME IInv, RestoredInv, [Next]_vars
               PROVE  RestoredInv'
    OBVIOUS
  <2> USE DEF IInv, TypeOK, StageInv, RestoredInv, EmbyRestartedButForRestoreStop, EmbyRestarted,
              RestoreStopFailed, Applying, jobVars, contextVars, Goto, Return, Fail, Running
  <2>1. CASE Prepare
    <3>1. CASE UNCHANGED <<wasRunning, restartNeeded, container, stage>> /\ pc' \notin {"done", "stop", "stopping"}
      BY <2>1, <3>1 DEF Prepare
    <3>2. CASE wasRunning' = Running /\ restartNeeded' = Running /\ pc' = (IF Running THEN "stop" ELSE "validate")
      <4>1. ~Running => ~wasRunning'
        BY <3>2, Zenon
      <4>2. Running => restartNeeded'
        BY <3>2, Zenon
      <4> QED
        BY <2>1, <3>2, <4>1, <4>2 DEF Prepare
    <3> QED
      BY <2>1, <3>1, <3>2 DEF Prepare
  <2>2. CASE StopCall
    BY <2>2 DEF StopCall
  <2>3. CASE StopReturns
    BY <2>3 DEF StopReturns
  <2>4. CASE StopFails
    BY <2>4 DEF StopFails
  <2>5. CASE WaitStopped
    BY <2>5 DEF WaitStopped
  <2>6. CASE Start
    BY <2>6 DEF Start, Started, StartFails, StartCancelled
  <2>7. CASE WaitRunning
    BY <2>7 DEF WaitRunning, StartFails, StartCancelled
  <2>8. CASE Validate \/ Backup \/ Transact \/ ApplyReport \/ WaitForEmbyReady
    BY <2>8 DEF Validate, Backup, Transact, ApplyReport, WaitForEmbyReady
  <2>9. CASE Verify
    BY <2>9 DEF Verify
  <2>10. CASE RestoreFile
    BY <2>10 DEF RestoreFile
  <2>11. CASE Deferred
    BY <2>11 DEF Deferred
  <2>12. CASE DaemonStops \/ EmbyWrites \/ Cancel \/ Exit
    BY <2>12 DEF DaemonStops, EmbyWrites, Cancel, Exit
  <2>13. CASE UNCHANGED vars
    BY <2>13 DEF vars
  <2> QED
    BY <2>1, <2>2, <2>3, <2>4, <2>5, <2>6, <2>7, <2>8, <2>9, <2>10, <2>11, <2>12, <2>13
       DEF Next, JobStep
<1>3. RestoredInv => EmbyRestartedButForRestoreStop
  BY DEF RestoredInv
<1> QED
  BY <1>1, <1>2, <1>3, Invariance, PTL DEF Spec

\* The steps that are left to the job: of the deferred start, of the restore, and
\* of the apply before them.
DeferredSteps == IF pc = "start" THEN 2 ELSE 1
RestoreSteps ==
  CASE pc = "stop" -> 9 [] pc = "stopping" -> 8 [] pc = "waitstopped" -> 7
    [] pc = "restorefile" -> 6 [] pc = "start" -> 5 [] OTHER -> 4
ApplySteps ==
  CASE pc = "prepare" -> 21 [] pc = "stop" -> 20 [] pc = "stopping" -> 19
    [] pc = "waitstopped" -> 18 [] pc = "validate" -> 17 [] pc = "backup" -> 16
    [] pc = "transact" -> 15 [] pc = "report" -> 14 [] pc = "start" -> 13
    [] pc = "waitrunning" -> 12 [] pc = "ready" -> 11 [] OTHER -> 10
StepsAhead ==
  IF pc \in {"done", "exited"} THEN 0
  ELSE IF pc = "deferred" THEN 3
  ELSE CASE stage = "deferred" -> DeferredSteps
         [] stage = "restore" -> RestoreSteps
         [] OTHER -> ApplySteps

\* Every step of the job is one of at most 21, with a restore and a second start
\* in them, and nobody else gives it more: it never stops or starts the container
\* in a circle.
JobRunsOut ==
  [][/\ JobStep => StepsAhead' < StepsAhead
     /\ StepsAhead' <= StepsAhead /\ StepsAhead' \in 0..21]_vars

\* The job ends after at most 21 steps of its own, whatever fails.
THEOREM JobStepsEnd == Spec => JobRunsOut
<1>1. ASSUME IInv, JobStep PROVE StepsAhead' < StepsAhead /\ StepsAhead' \in 0..21
  <2> USE <1>1 DEF IInv, TypeOK, StageInv, Applying, Goto, Return, Fail, jobVars, contextVars, Running
  <2> DEFINE Falls == StepsAhead' < StepsAhead /\ StepsAhead' \in 0..21
  <2> SUFFICES Falls
    OBVIOUS
  <2>1. ASSUME stage = "apply", UNCHANGED stage,
               <<pc, pc'>> \in {<<"prepare", "stop">>, <<"prepare", "validate">>, <<"stop", "stopping">>,
                                <<"stopping", "waitstopped">>, <<"waitstopped", "validate">>,
                                <<"validate", "backup">>, <<"backup", "transact">>,
                                <<"transact", "report">>, <<"report", "start">>,
                                <<"start", "waitrunning">>, <<"waitrunning", "ready">>,
                                <<"ready", "verify">>}
        PROVE  Falls
    BY <2>1 DEF StepsAhead, ApplySteps
  <2>2. ASSUME stage = "restore", UNCHANGED stage,
               <<pc, pc'>> \in {<<"stop", "stopping">>, <<"stopping", "waitstopped">>,
                                <<"waitstopped", "restorefile">>, <<"restorefile", "start">>,
                                <<"start", "waitrunning">>}
        PROVE  Falls
    BY <2>2 DEF StepsAhead, RestoreSteps
  <2>3. ASSUME pc = "verify", stage = "apply", pc' = "stop", stage' = "restore" PROVE Falls
    BY <2>3 DEF StepsAhead, ApplySteps, RestoreSteps
  <2>4. ASSUME stage # "deferred", pc \notin {"done", "exited", "deferred"}, pc' = "deferred" PROVE Falls
    BY <2>4 DEF StepsAhead, ApplySteps, RestoreSteps
  <2>5. ASSUME \/ pc = "deferred" /\ pc' = "done"
               \/ pc = "deferred" /\ pc' = "start" /\ stage' = "deferred"
               \/ pc = "start" /\ pc' = "waitrunning" /\ stage = "deferred" /\ UNCHANGED stage
               \/ pc \in {"start", "waitrunning"} /\ stage = "deferred" /\ pc' = "done"
        PROVE  Falls
    BY <2>5 DEF StepsAhead, DeferredSteps
  <2> HIDE DEF Falls
  <2>6. CASE Prepare
    <3>1. pc = "prepare" /\ pc' \in {"deferred", "validate", "stop"} /\ UNCHANGED stage
      BY <2>6 DEF Prepare
    <3> QED BY <2>1, <2>4, <3>1
  <2>7. CASE StopCall
    BY <2>1, <2>2, <2>4, <2>7 DEF StopCall
  <2>8. CASE StopReturns
    BY <2>1, <2>2, <2>8 DEF StopReturns
  <2>9. CASE StopFails
    BY <2>4, <2>9 DEF StopFails
  <2>10. CASE WaitStopped
    BY <2>1, <2>2, <2>4, <2>10 DEF WaitStopped
  <2>11. CASE Start
    BY <2>1, <2>2, <2>4, <2>5, <2>11 DEF Start, StartFails
  <2>12. CASE WaitRunning
    <3>1. /\ pc = "waitrunning" /\ UNCHANGED stage
          /\ stage = "deferred" => pc' = "done"
          /\ stage # "deferred" => pc' = "deferred" \/ (pc' = "ready" /\ stage = "apply")
      BY <2>12 DEF WaitRunning, StartFails
    <3> QED BY <2>1, <2>4, <2>5, <3>1
  <2>13. CASE Validate \/ Backup \/ Transact
    BY <2>1, <2>4, <2>13 DEF Validate, Backup, Transact
  <2>14. CASE ApplyReport \/ WaitForEmbyReady
    BY <2>1, <2>4, <2>14 DEF ApplyReport, WaitForEmbyReady
  <2>15. CASE Verify
    BY <2>3, <2>4, <2>15 DEF Verify
  <2>16. CASE RestoreFile
    BY <2>2, <2>4, <2>16 DEF RestoreFile
  <2>17. CASE Deferred
    BY <2>5, <2>17 DEF Deferred
  <2> QED BY <2>6, <2>7, <2>8, <2>9, <2>10, <2>11, <2>12, <2>13, <2>14, <2>15, <2>16, <2>17 DEF JobStep
<1>2. StepsAhead \in 0..21
  BY DEF StepsAhead, DeferredSteps, RestoreSteps, ApplySteps
<1>3. ASSUME DaemonStops \/ EmbyWrites \/ Cancel \/ UNCHANGED vars PROVE StepsAhead' = StepsAhead
  <2>1. pc' = pc /\ stage' = stage
    BY <1>3 DEF DaemonStops, EmbyWrites, Cancel, vars
  <2> QED BY <2>1 DEF StepsAhead, DeferredSteps, RestoreSteps, ApplySteps
<1>4. ASSUME Exit PROVE StepsAhead' = 0
  BY <1>4 DEF Exit, Goto, StepsAhead
<1>5. ASSUME IInv, [Next]_vars
      PROVE  [/\ JobStep => StepsAhead' < StepsAhead
              /\ StepsAhead' <= StepsAhead /\ StepsAhead' \in 0..21]_vars
  <2>1. CASE JobStep
    BY <1>1, <1>2, <1>5, <2>1
  <2>2. CASE ~JobStep /\ (DaemonStops \/ EmbyWrites \/ Cancel \/ Exit)
    BY <1>2, <1>3, <1>4, <2>2
  <2> QED BY <1>5, <2>1, <2>2 DEF Next
<1> QED BY <1>5, Invariance, PTL DEF Spec, JobRunsOut

=============================================================================
