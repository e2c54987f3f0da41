------------------------------- MODULE Release ------------------------------
(***************************************************************************)
(* The release controller (deploy in release.py) against ECS: it runs the      *)
(* migration task, moves the services one after the other to the new revision, *)
(* waits, verifies, runs the smoke test, and restores the previous revisions   *)
(* when something raises. ECS acts on its own meanwhile: rollouts complete or   *)
(* fail, and the circuit breaker takes a service back. Every call to AWS may    *)
(* raise; an update that raises may have been applied.                          *)
(***************************************************************************)
EXTENDS Naturals, Sequences

CONSTANTS
  Services,  \* the services in the order deploy() updates them
  Broken     \* whether inject_broken_release may be given

Service == {Services[i] : i \in DOMAIN Services}

ASSUME ServiceAssumption == Services \in Seq(STRING) /\ Broken \in BOOLEAN

VARIABLES
  pc,         \* the next step of the controller
  next,       \* index of the service the controller updates or restores next
  migration,  \* the migration task
  task,       \* per service: the revision of its PRIMARY deployment
  rollout,    \* per service: rolloutState of that deployment
  changed,    \* a service may have been updated
  status, rollback,  \* outcome["status"] and outcome["rollback"]
  file,       \* the outcome on disk; finished stands for finished_at
  broken,     \* inject_broken_release
  interrupted \* the process got KeyboardInterrupt or was killed

vars == <<pc, next, migration, task, rollout, changed, status, rollback, file, broken, interrupted>>
ecs == <<migration, task, rollout>>
outcome == <<changed, status, rollback, file, broken, interrupted>>

TypeOK ==
  /\ pc \in {"migrate", "gate", "update", "wait", "verify", "smoke", "except",
             "restore", "rewait", "reverify", "finally", "ended"}
  /\ next \in 1..(Len(Services) + 1)
  /\ migration \in {"none", "running", "succeeded", "failed", "stopped"}
  /\ task \in [Service -> {"old", "new"}]
  /\ rollout \in [Service -> {"IN_PROGRESS", "COMPLETED", "FAILED"}]
  /\ {changed, broken, interrupted} \subseteq BOOLEAN
  /\ status \in {"in_progress", "passed", "failed"}
  /\ rollback \in {"none", "verified", "failed"}
  /\ file \in [status : {"in_progress", "passed", "failed"}, rollback : {"none", "verified", "failed"},
               finished : BOOLEAN]

Init ==
  /\ pc = "migrate" /\ next = 1 /\ migration = "none"
  /\ task = [s \in Service |-> "old"] /\ rollout = [s \in Service |-> "COMPLETED"]
  /\ changed = FALSE /\ status = "in_progress" /\ rollback = "none"
  /\ file = [status |-> "in_progress", rollback |-> "none", finished |-> FALSE]
  /\ broken \in {FALSE, Broken} /\ interrupted = FALSE

-----------------------------------------------------------------------------
(* ECS *)

MigrationExits ==
  /\ migration = "running"
  /\ migration' \in {"succeeded", "failed"}
  /\ UNCHANGED <<pc, next, task, rollout, outcome>>

(* A broken revision never becomes healthy.                                    *)
RolloutCompletes(s) ==
  /\ rollout[s] = "IN_PROGRESS" /\ ~(broken /\ task[s] = "new")
  /\ rollout' = [rollout EXCEPT ![s] = "COMPLETED"]
  /\ UNCHANGED <<pc, next, migration, task, outcome>>

(* The circuit breaker or an alarm takes the service back to its old revision;  *)
(* the old one has nothing to go back to.                                       *)
RolloutFails(s) ==
  /\ rollout[s] = "IN_PROGRESS"
  /\ IF task[s] = "new"
     THEN task' = [task EXCEPT ![s] = "old"] /\ UNCHANGED rollout
     ELSE rollout' = [rollout EXCEPT ![s] = "FAILED"] /\ UNCHANGED task
  /\ UNCHANGED <<pc, next, migration, outcome>>

(* update_service: nothing happens if the revision is the one that is deployed. *)
Updated(s, revision) ==
  /\ task' = [task EXCEPT ![s] = revision]
  /\ rollout' = [rollout EXCEPT ![s] = IF task[s] = revision /\ @ # "FAILED" THEN @ ELSE "IN_PROGRESS"]
  /\ UNCHANGED migration

-----------------------------------------------------------------------------
(* deploy *)

Goto(p) == pc' = p /\ UNCHANGED next

Migrate ==
  /\ pc = "migrate"
  /\ \/ Goto("gate") /\ migration' = "running"
     \/ Goto("except") /\ UNCHANGED migration
  /\ UNCHANGED <<task, rollout, outcome>>

GateIsOpen ==   \* mutant: a task that stopped has succeeded
  /\ pc = "gate" /\ migration \notin {"none", "running"}
  /\ Goto("update")
  /\ UNCHANGED <<ecs, outcome>>
GatePasses ==
  /\ pc = "gate" /\ migration = "succeeded"
  /\ Goto("update")
  /\ UNCHANGED <<ecs, outcome>>

(* The task failed, or its waiter gave up: it is stopped, if that call works.   *)
GateFails ==
  /\ pc = "gate"
  /\ migration' \in {migration, IF migration = "running" THEN "stopped" ELSE migration}
  /\ Goto("except")
  /\ UNCHANGED <<task, rollout, outcome>>

(* register_revision, then update_service for the next service.                *)
RegisterRaises ==
  /\ pc = "update" /\ next <= Len(Services)
  /\ Goto("except")
  /\ UNCHANGED <<ecs, outcome>>

UpdateLateFlag ==   \* mutant: changed is set when update_service has returned
  /\ pc = "update" /\ next <= Len(Services)
  /\ Updated(Services[next], "new")
  /\ \/ pc' = "update" /\ next' = next + 1 /\ changed' = TRUE
     \/ Goto("except") /\ UNCHANGED changed
  /\ UNCHANGED <<status, rollback, file, broken, interrupted>>
Update ==
  /\ pc = "update" /\ next <= Len(Services)
  /\ changed' = TRUE
  /\ \/ pc' = "update" /\ next' = next + 1 /\ Updated(Services[next], "new")
     \/ Goto("except") /\ (Updated(Services[next], "new") \/ UNCHANGED ecs)
  /\ UNCHANGED <<status, rollback, file, broken, interrupted>>

UpdatedAll ==
  /\ pc = "update" /\ next > Len(Services)
  /\ Goto("wait")
  /\ UNCHANGED <<ecs, outcome>>

(* The services_stable waiter looks at counts, not at revisions or rollouts:    *)
(* it may return whatever those are, and it may give up.                        *)
WaitForNew ==   \* mutant: waits for the revision it asked for, for any time
  pc = "wait" /\ (\A s \in Service : task[s] = "new") /\ Goto("verify") /\ UNCHANGED <<ecs, outcome>>
Wait ==
  /\ pc = "wait"
  /\ Goto("verify") \/ Goto("except")
  /\ UNCHANGED <<ecs, outcome>>

Deployed(revision) == \A s \in Service : task[s] = revision /\ rollout[s] = "COMPLETED"

VerifyRollout ==   \* mutant: a completed rollout is enough, whatever the revision
  /\ pc = "verify"
  /\ \/ (\A s \in Service : rollout[s] = "COMPLETED") /\ ~broken /\ Goto("smoke")
     \/ Goto("except")
  /\ UNCHANGED <<ecs, outcome>>
Verify ==
  /\ pc = "verify"
  /\ \/ Deployed("new") /\ ~broken /\ Goto("smoke")
     \/ Goto("except")
  /\ UNCHANGED <<ecs, outcome>>

Smoke ==
  /\ pc = "smoke"
  /\ \/ Goto("finally") /\ status' = "passed"
     \/ Goto("except") /\ UNCHANGED status
  /\ UNCHANGED <<ecs, changed, rollback, file, broken, interrupted>>

(* except Exception                                                            *)
Except ==
  /\ pc = "except"
  /\ status' = "failed"
  /\ IF changed THEN pc' = "restore" /\ next' = 1 ELSE Goto("finally")
  /\ UNCHANGED <<ecs, changed, rollback, file, broken, interrupted>>

(* The first call that raises ends the rollback: later services keep what they  *)
(* have.                                                                        *)
Restore ==
  /\ pc = "restore" /\ next <= Len(Services)
  /\ \/ pc' = "restore" /\ next' = next + 1 /\ Updated(Services[next], "old") /\ UNCHANGED rollback
     \/ /\ Goto("finally") /\ rollback' = "failed"
        /\ Updated(Services[next], "old") \/ UNCHANGED ecs
  /\ UNCHANGED <<changed, status, file, broken, interrupted>>

RestoredAll ==
  /\ pc = "restore" /\ next > Len(Services)
  /\ Goto("rewait")
  /\ UNCHANGED <<ecs, outcome>>

Rewait ==
  /\ pc = "rewait"
  /\ \/ Goto("reverify") /\ UNCHANGED rollback
     \/ Goto("finally") /\ rollback' = "failed"
  /\ UNCHANGED <<ecs, changed, status, file, broken, interrupted>>

Reverify ==
  /\ pc = "reverify"
  /\ Goto("finally")
  /\ rollback' \in (IF Deployed("old") THEN {"verified"} ELSE {}) \cup {"failed"}
  /\ UNCHANGED <<ecs, changed, status, file, broken, interrupted>>

Finally ==
  /\ pc = "finally"
  /\ Goto("ended")
  /\ file' = [status |-> status, rollback |-> rollback, finished |-> TRUE]
  /\ UNCHANGED <<ecs, changed, status, rollback, broken, interrupted>>

(* KeyboardInterrupt is no Exception: only finally is run. A kill is like it,   *)
(* but leaves the file as it is.                                                *)
Interrupt ==
  /\ pc \notin {"finally", "ended"}
  /\ interrupted' = TRUE
  /\ Goto("finally") \/ Goto("ended")
  /\ UNCHANGED <<ecs, changed, status, rollback, file, broken>>

-----------------------------------------------------------------------------
Controller ==
  \/ Migrate \/ GatePasses \/ GateFails \/ RegisterRaises \/ Update \/ UpdatedAll \/ Wait \/ Verify
  \/ Smoke \/ Except \/ Restore \/ RestoredAll \/ Rewait \/ Reverify \/ Finally
Ecs == MigrationExits \/ \E s \in Service : RolloutCompletes(s) \/ RolloutFails(s)

Next == Controller \/ Ecs \/ Interrupt
Spec == Init /\ [][Next]_vars

-----------------------------------------------------------------------------
(* Properties *)

(* A release that is reported as passed is deployed, on every service, also     *)
(* when the circuit breaker made the waiter succeed on the old revision.        *)
PassedIsDeployed == file.status = "passed" => Deployed("new")

(* A rollback that is reported as verified left the old revision everywhere.    *)
VerifiedIsRestored == file.rollback = "verified" => Deployed("old")

(* What the outcome says of a release that was not interrupted is complete: no  *)
(* service was left on the new revision without a failed rollback being told.   *)
OutcomeTellsAll ==
  pc = "ended" /\ ~interrupted =>
    \/ file.status = "passed"
    \/ file.status = "failed" /\ (file.rollback = "failed" \/ \A s \in Service : task[s] = "old")

(* A release whose outcome is complete and not "passed" has restored both       *)
(* services or reports that it could not (DEPLOYMENT_RUNBOOK.md).                *)
UnpassedIsRestored ==
  pc = "ended" /\ file.finished /\ file.status # "passed" =>
    file.rollback = "failed" \/ \A s \in Service : task[s] = "old"

=============================================================================
