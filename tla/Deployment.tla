----------------------------- MODULE Deployment -----------------------------
(***************************************************************************)
(* Releases one after the other, with the database they migrate and the code   *)
(* that runs on it meanwhile. A release is the controller of module Release;    *)
(* its migration task runs Alembic, which applies all pending migrations in one *)
(* transaction, and then bootstrap. The task of a release that was interrupted  *)
(* or gave up on it may still run beside the task of the next one. Code is      *)
(* named by the version of the schema it was written for, 0 if there is none.   *)
(***************************************************************************)
EXTENDS Release, Schema, FiniteSets

CONSTANTS
  First,       \* what may be deployed at the start
  Targets,     \* the versions of the code that are released
  MaxReleases  \* bound on the number of releases

ASSUME VersionAssumption ==
  /\ First \subseteq 0..LastVersion /\ Targets \subseteq 1..LastVersion
  /\ MaxReleases \in Nat \ {0}
  /\ "api" \in Service

VARIABLES
  release,   \* the number of the current release
  code,      \* per service: the versions that "old" and "new" stand for
  running,   \* per service: the versions that tasks run now
  migrator,  \* per release: its migration task
  tables,    \* the schema
  version,   \* alembic_version
  granted    \* tables the application role may use

database == <<tables, version, granted>>
fleet == <<release, code>>
deployVars == <<vars, fleet, running, migrator, database>>

Releases == 1..MaxReleases
Absent == [pc |-> "absent", from |-> 0, to |-> 0]

DeployInit ==
  /\ Init
  /\ release = 1
  /\ \E base \in First, target \in Targets :
       /\ code = [s \in Service |-> [old |-> base, new |-> target]]
       /\ running = [s \in Service |-> {base} \ {0}]
       /\ version = base /\ tables = SchemaAt[base] /\ granted = DOMAIN SchemaAt[base]
  /\ migrator = [r \in Releases |-> Absent]

-----------------------------------------------------------------------------
(* The migration task: alembic upgrade head && python -m atlaspipe.bootstrap  *)

MigratorTo(r, label) == migrator' = [migrator EXCEPT ![r].pc = label]

Started(r) == [migrator EXCEPT ![r] = [pc |-> "connecting", from |-> 0, to |-> code["api"].new]]

(* Alembic reads the version, and has nothing to do if that is the image's. An  *)
(* image older than the database can not place it.                              *)
ReadVersion(r) ==
  /\ migrator[r].pc = "connecting"
  /\ LET label == CASE version < migrator[r].to -> "upgrading"
                    [] version = migrator[r].to -> "bootstrapping"
                    [] version > migrator[r].to -> "failed"
     IN migrator' = [migrator EXCEPT ![r] = [pc |-> label, from |-> version, to |-> @.to]]
  /\ UNCHANGED <<vars, fleet, running, database>>

(* The first statement that meets one of another open migration waits for it.   *)
RunUpgrade(r) ==
  /\ migrator[r].pc = "upgrading"
  /\ \A other \in Releases : migrator[other].pc # "committing"
  /\ MigratorTo(r, IF Applies(migrator[r].from, migrator[r].to, tables) THEN "committing" ELSE "failed")
  /\ UNCHANGED <<vars, fleet, running, database>>

CommitUpgrade(r) ==
  /\ migrator[r].pc = "committing"
  /\ tables' = Migrated(migrator[r].from, migrator[r].to, tables)
  /\ version' = migrator[r].to
  /\ MigratorTo(r, "bootstrapping")
  /\ UNCHANGED <<vars, fleet, running, granted>>

Bootstrap(r) ==
  /\ migrator[r].pc = "bootstrapping"
  /\ GrantedBy(migrator[r].to) \subseteq DOMAIN tables
  /\ granted' = granted \cup GrantedBy(migrator[r].to)
  /\ MigratorTo(r, "done")
  /\ UNCHANGED <<vars, fleet, running, tables, version>>

(* A database error, a lock that is not released in time, or the task is        *)
(* stopped: what was not committed is gone.                                      *)
MigratorDies(r) ==
  /\ migrator[r].pc \in {"connecting", "upgrading", "committing", "bootstrapping"}
  /\ MigratorTo(r, "failed")
  /\ UNCHANGED <<vars, fleet, running, database>>

(* ECS reports the exit code of the current release's task.                     *)
MigratorExits ==
  /\ migrator[release].pc \in {"done", "failed"}
  /\ MigrationExits
  /\ migration' = "succeeded" <=> migrator[release].pc = "done"
  /\ UNCHANGED <<fleet, running, migrator, database>>

-----------------------------------------------------------------------------
(* The controller and the services                                            *)

Primary(s) == code[s][task[s]]

(* update_service starts tasks of the revision; run_task the migration.         *)
ControllerStep ==
  /\ Controller
  /\ running' = [s \in Service |-> running[s] \cup ({code[s][task'[s]]} \ {0})]
  /\ migrator' = IF migration # "running" /\ migration' = "running" THEN Started(release) ELSE migrator
  /\ UNCHANGED <<fleet, database>>

(* run_task has started the task, but its answer is lost.                       *)
MigrateLost ==
  /\ pc = "migrate"
  /\ Goto("except")
  /\ migrator' = Started(release)
  /\ UNCHANGED <<ecs, outcome, fleet, running, database>>

(* The rollout of the API is complete when its new tasks answer /ready; the     *)
(* tasks of the revision it replaces are stopped then.                           *)
RolloutDone(s) ==
  /\ RolloutCompletes(s)
  /\ (s = "api" /\ Primary(s) = LastVersion) => Ready(tables, granted)
  /\ running' = [running EXCEPT ![s] = {Primary(s)} \ {0}]
  /\ UNCHANGED <<fleet, migrator, database>>

RolloutUndone(s) ==
  /\ RolloutFails(s)
  /\ UNCHANGED <<fleet, running, migrator, database>>

Interrupted ==
  /\ Interrupt
  /\ UNCHANGED <<fleet, running, migrator, database>>

(* The next release takes what it finds deployed for the previous revisions.    *)
NextRelease ==
  /\ pc = "ended" /\ release < MaxReleases
  /\ release' = release + 1
  /\ \E target \in Targets :
       code' = [s \in Service |-> [old |-> Primary(s), new |-> target]]
  /\ pc' = "migrate" /\ next' = 1 /\ migration' = "none"
  /\ task' = [s \in Service |-> "old"]
  /\ changed' = FALSE /\ status' = "in_progress" /\ rollback' = "none"
  /\ file' = [status |-> "in_progress", rollback |-> "none", finished |-> FALSE]
  /\ broken' \in {FALSE, Broken} /\ interrupted' = FALSE
  /\ UNCHANGED <<rollout, running, migrator, database>>

-----------------------------------------------------------------------------
DeployNext ==
  \/ ControllerStep \/ MigrateLost \/ Interrupted \/ NextRelease \/ MigratorExits
  \/ \E s \in Service : RolloutDone(s) \/ RolloutUndone(s)
  \/ \E r \in Releases :
       ReadVersion(r) \/ RunUpgrade(r) \/ CommitUpgrade(r) \/ Bootstrap(r) \/ MigratorDies(r)

(* The controller runs; its waiters and its calls to AWS are bounded in time.   *)
DeploySpec == DeployInit /\ [][DeployNext]_deployVars /\ WF_deployVars(ControllerStep)

-----------------------------------------------------------------------------
(* Properties *)

(* All code that runs finds the tables, columns and privileges it uses, and its *)
(* INSERTs are accepted: while a migration is under way, while revisions are     *)
(* exchanged, and after a rollback, which leaves the schema as it is.            *)
RunningCodeFits ==
  \A s \in Service : \A revision \in running[s] : Fits(revision, tables, granted)

(* The probe looks at one column and one table; when it says ready, everything   *)
(* the code needs is there, also between alembic and bootstrap, after either     *)
(* failed, and while two migration tasks overlap.                                *)
ReadyTellsSchema == Ready(tables, granted) => Fits(LastVersion, tables, granted)

(* The outcome a release reports is what is deployed: "passed" means the new     *)
(* revision on every service although ECS may have taken it back, "verified"      *)
(* the previous one.                                                             *)
OutcomeIsTrue == PassedIsDeployed /\ VerifiedIsRestored

(* Every release comes to an end whatever ECS and the database do.               *)
EveryReleaseEnds == pc # "ended" ~> pc = "ended"

=============================================================================
