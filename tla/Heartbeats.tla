----------------------------- MODULE Heartbeats -----------------------------
(***************************************************************************)
(* A worker process seen from outside: its row in worker_heartbeats grows old,  *)
(* the API counts workers by it, and other workers take over the leases of one  *)
(* that is gone. The process is that of module WorkerLifecycle, and it may be    *)
(* killed. A process that was started with the same ATLASPIPE_WORKER_ID before   *)
(* may still be running, and writes and deletes the same row. Time is counted   *)
(* in heartbeat periods.                                                         *)
(***************************************************************************)
EXTENDS WorkerLifecycle

CONSTANTS
  Stale,   \* worker_stale_seconds, in periods
  Write,   \* bound: periods the statement of a heartbeat may take
  Skew     \* bound: by how much the clock of the API may be ahead of the database's

Period == 1   \* worker_heartbeat_seconds

ASSUME StaleAssumption == {Write, Skew, Stale} \subseteq Nat /\ Stale >= Period + 2 * Write + Skew

VARIABLES
  age,      \* periods since seen_at of the row, up to Stale + 1
  writer,   \* who wrote the row last: this process, the older, or one before
  timer,    \* periods that the heart has slept or written
  old,      \* the other process with this ID
  counted,  \* the gauge atlaspipe_workers{state="failed"}
  dark      \* periods without a fresh row although the worker's heart beats

row == <<age, writer>>
outside == <<old, counted>>
healthVars == <<vars, row, timer, outside, dark>>

HealthInit ==
  /\ Init
  /\ \/ ~beat /\ age = 0 /\ writer = "none"
     \/ beat /\ age \in 0..(Stale + 1) /\ writer = "before"
  /\ timer = 0
  /\ old \in {"running", "gone"} /\ counted = FALSE /\ dark = 0

Alive == main # "exited"
Beating == Alive /\ heart \in {"writing", "sleeping"}

-----------------------------------------------------------------------------
(* The row *)

Unwritten == beat' = beat /\ UNCHANGED row
WrittenKeepsSeen(by, a) ==   \* mutant: ON CONFLICT leaves seen_at as it is
  beat' = TRUE /\ writer' = by /\ age' = IF beat THEN age ELSE a
Written(by, a) == beat' = TRUE /\ writer' = by /\ age' = a
Deleted == beat' = FALSE /\ writer' = "none" /\ age' = 0

(* seen_at is the time at which the transaction began. A statement that fails   *)
(* or is cancelled may have been committed.                                      *)
HeartWrite ==
  /\ Alive
  /\ HeartWrites \/ HeartCancelled
  /\ \/ heart = "writing" /\ Written("this", timer)
     \/ heart' # "sleeping" /\ Unwritten
  /\ timer' = 0
  /\ UNCHANGED <<outside, dark>>

HeartWake ==
  /\ timer = Period
  /\ HeartWakes /\ timer' = 0
  /\ UNCHANGED <<row, outside, dark>>

(* All other steps of the process; one of them is the delete in run_worker.     *)
ProcessStep(A) ==
  /\ Alive /\ A
  /\ Unwritten \/ (main = "deleting" /\ Deleted)
  /\ UNCHANGED <<timer, outside, dark>>

Crash ==
  /\ Alive
  /\ main' = "exited" /\ status' = "error"
  /\ UNCHANGED <<drain, loop, heart, item, stop, beat, lease, faults, row, timer, outside, dark>>

-----------------------------------------------------------------------------
(* The others *)

(* The older process writes the row, deletes it when it exits gracefully, or    *)
(* dies.                                                                         *)
OldProcess ==
  /\ old = "running"
  /\ \/ Written("old", 0) /\ UNCHANGED old
     \/ old' = "gone" /\ (Deleted \/ Unwritten)
  /\ UNCHANGED <<main, drain, loop, heart, item, stop, lease, status, faults, timer, counted, dark>>

(* A lease that is no longer renewed expires, and another worker claims the row. *)
Recover(i) ==
  /\ i \in lease /\ (~Alive \/ ~AtWork(i))
  /\ lease' = lease \ {i}
  /\ UNCHANGED <<main, drain, loop, heart, item, stop, beat, status, faults, row, timer, outside, dark>>

(* What refresh_queue_metrics counts as failed, by the clock of the API. Its     *)
(* time is that of its beginning: by then it takes a row for fresher than it is.  *)
FailedWithoutOwned(ahead) == beat /\ age + ahead > Stale   \* mutant: whatever it owns
Failed(ahead) == beat /\ age + ahead > Stale /\ lease # {}

Refresh ==
  /\ \E ahead \in 0..Skew : counted' = Failed(ahead)
  /\ UNCHANGED <<vars, row, timer, old, dark>>

(* What it counts as active, whatever the skew.                                 *)
Fresh == beat /\ age + Skew <= Stale

(* A period passes. The heart does not sleep longer, nor does its statement take *)
(* longer than Write.                                                            *)
AtMost(a, b) == IF a <= b THEN a ELSE b
Elapse ==
  /\ Beating => timer < IF heart = "sleeping" THEN Period ELSE Write
  /\ timer' = IF Beating THEN timer + 1 ELSE timer
  /\ age' = IF beat THEN AtMost(age + 1, Stale + 1) ELSE age
  /\ dark' = IF Beating /\ ~Fresh THEN AtMost(dark + 1, Stale) ELSE 0
  /\ UNCHANGED <<vars, writer, outside>>

-----------------------------------------------------------------------------
HealthNext ==
  \/ HeartWrite \/ HeartWake \/ Crash \/ OldProcess \/ Refresh \/ Elapse
  \/ ProcessStep(Signal) \/ ProcessStep(LoopStep) \/ ProcessStep(DrainStep) \/ ProcessStep(MainStep)
  \/ \E i \in Item : ProcessStep(ItemStep(i)) \/ Recover(i)

(* The fairness of the process, while it lives; leases expire and are claimed   *)
(* by the workers that remain; the API is scraped.                               *)
HealthSpec ==
  /\ HealthInit /\ [][HealthNext]_healthVars
  /\ WF_healthVars(HeartWrite \/ HeartWake) /\ WF_healthVars(ProcessStep(LoopStep))
  /\ WF_healthVars(ProcessStep(DrainStep)) /\ WF_healthVars(ProcessStep(MainStep))
  /\ \A i \in Item : /\ WF_healthVars(ProcessStep(Finish(i))) /\ WF_healthVars(ProcessStep(ItemCancelled(i)))
                     /\ WF_healthVars(Recover(i))
  /\ WF_healthVars(Refresh) /\ WF_healthVars(Elapse)

-----------------------------------------------------------------------------
(* Properties *)

(* A process that ends with success has deleted its row, no heartbeat that was   *)
(* under way put it back, no coroutine of it runs while the engine is disposed,  *)
(* and no lease of it is left for others to wait for.                            *)
GracefulExitLeavesNothing ==
  status = "ok" /\ Leaving =>
    (beat => writer = "old") /\ lease = {} /\ \A i \in Item : ~AtWork(i)

(* A worker whose heart beats has a fresh row within a period and the time of    *)
(* its statements, although the older process of that ID may have deleted it;    *)
(* and once there is a row that was not left by a process before, no scrape      *)
(* counts it as failed.                                                          *)
BeatingIsSeen ==
  Beating =>
    /\ dark <= Period + 2 * Write
    /\ writer # "before" => \A ahead \in 0..Skew : ~Failed(ahead)

(* "Recovery clears that gauge" (OBSERVABILITY.md): a dead worker is counted as  *)
(* failed only until its leases are taken over, although its row stays.          *)
RecoveryClearsGauge == counted ~> ~counted

(* A signal, a failed heartbeat, a failed claim or coroutine ends the process,   *)
(* even if a fetch never ends: it does not run on without a heartbeat or without *)
(* claiming, and a supervisor replaces it.                                       *)
ProcessEnds ==
  stop \/ heart = "failed" \/ loop = "failed" \/ (\E i \in Item : item[i] = "raised") ~> main = "exited"

=============================================================================
