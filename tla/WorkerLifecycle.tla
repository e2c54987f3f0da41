-------------------------- MODULE WorkerLifecycle ---------------------------
(***************************************************************************)
(* A worker process from start to exit. Four kinds of asyncio tasks:          *)
(*   main   run_worker: waits, cancels the others, closes, leaves             *)
(*   drain  run_with_shutdown: waits for the signal, then for the deadline    *)
(*   loop   run_continuously: claims a batch and waits for its coroutines     *)
(*   heart  heartbeat_loop: keeps the row in worker_heartbeats fresh          *)
(* and one coroutine per claimed row. task.cancel() only asks: the task gets  *)
(* CancelledError when it runs next, and what it waited for in the database    *)
(* may or may not have been committed by then. Who asked follows from the      *)
(* state of the task that cancels, so it is not a variable.                    *)
(***************************************************************************)
EXTENDS Naturals, FiniteSets

CONSTANTS
  Item,       \* rows the worker can find, each claimed at most once
  MaxFaults   \* bound on database errors and raising coroutines

ASSUME FaultAssumption == MaxFaults \in Nat

VARIABLES
  main, drain, loop, heart,  \* where the tasks are
  item,      \* per row: where its coroutine is
  stop,      \* the stop event: SIGTERM or SIGINT arrived
  beat,      \* the heartbeat row is in the database
  lease,     \* rows this worker holds a lease on
  status,    \* how the process ends
  faults

vars == <<main, drain, loop, heart, item, stop, beat, lease, status, faults>>

TypeOK ==
  /\ main \in {"waiting", "cleanup", "closing", "deleting", "disposing", "ending", "exited"}
  /\ drain \in {"waiting", "draining", "unwinding", "ok", "failed"}
  /\ loop \in {"check", "claiming", "working", "polling", "unwinding", "ok", "failed"}
  /\ heart \in {"writing", "sleeping", "failed", "cancelled"}
  /\ item \in [Item -> {"none", "running", "settled", "cancelling", "done", "raised", "cancelled"}]
  /\ {stop, beat} \subseteq BOOLEAN
  /\ lease \subseteq Item
  /\ status \in {"none", "ok", "error"}
  /\ faults \in 0..MaxFaults

Init ==
  /\ main = "waiting" /\ drain = "waiting" /\ loop = "check" /\ heart = "writing"
  /\ item = [i \in Item |-> "none"]
  /\ stop = FALSE /\ lease = {} /\ status = "none" /\ faults = 0
  /\ beat \in BOOLEAN   \* a process of the same ID may have left one

Fault == faults < MaxFaults /\ faults' = faults + 1

Ended == {"ok", "failed", "cancelled", "done", "raised", "none"}
AtWork(i) == item[i] \notin Ended

Signal ==
  /\ ~stop /\ main # "exited"
  /\ stop' = TRUE
  /\ UNCHANGED <<main, drain, loop, heart, item, beat, lease, status, faults>>

-----------------------------------------------------------------------------
(* heartbeat_loop, which main cancels when it cleans up *)

HeartWrites ==
  /\ heart = "writing" /\ main = "waiting"
  /\ \/ heart' = "sleeping" /\ beat' = TRUE /\ UNCHANGED faults
     \/ heart' = "failed" /\ beat' \in {beat, TRUE} /\ Fault
  /\ UNCHANGED <<main, drain, loop, item, stop, lease, status>>

HeartWakes ==
  /\ heart = "sleeping" /\ main = "waiting"
  /\ heart' = "writing"
  /\ UNCHANGED <<main, drain, loop, item, stop, beat, lease, status, faults>>

HeartCancelled ==
  /\ heart \notin Ended /\ main # "waiting"
  /\ heart' = "cancelled"
  /\ beat' \in IF heart = "writing" THEN {beat, TRUE} ELSE {beat}
  /\ UNCHANGED <<main, drain, loop, item, stop, lease, status, faults>>

-----------------------------------------------------------------------------
(* run_continuously, which drain cancels when it unwinds *)

Uncancelled == drain # "unwinding"
LoopTo(pc) == loop' = pc /\ UNCHANGED <<main, drain, heart, stop, beat, status>>

Check ==
  /\ loop = "check" /\ Uncancelled
  /\ IF stop THEN LoopTo("ok") ELSE LoopTo("claiming")
  /\ UNCHANGED <<item, lease, faults>>

Claim ==
  /\ loop = "claiming" /\ Uncancelled
  /\ \/ \E S \in SUBSET {i \in Item : item[i] = "none"} :
          /\ LoopTo(IF S = {} THEN "polling" ELSE "working")
          /\ lease' = lease \cup S
          /\ item' = [i \in Item |-> IF i \in S THEN "running" ELSE item[i]]
          /\ UNCHANGED faults
     \/ LoopTo("failed") /\ Fault /\ UNCHANGED <<item, lease>>

(* wait_for(stop_event.wait(), poll_interval_seconds): either way, look again *)
Poll ==
  /\ loop = "polling" /\ Uncancelled
  /\ LoopTo("check")
  /\ UNCHANGED <<item, lease, faults>>

(* gather: over when all coroutines are done, or when the first one raises -   *)
(* the others run on.                                                           *)
Gathered ==
  /\ loop = "working" /\ Uncancelled
  /\ \/ LoopTo("failed") /\ \E i \in Item : item[i] = "raised"
     \/ LoopTo("check") /\ \A i \in Item : item[i] \in {"none", "done"}
  /\ UNCHANGED <<item, lease, faults>>

CancelRunning(i) == IF AtWork(i) THEN "cancelling" ELSE item[i]

(* The claim may just have been committed: nobody works on those rows then.    *)
LoopCancelled ==
  /\ loop \notin Ended \cup {"unwinding"} /\ ~Uncancelled
  /\ \/ /\ loop = "working"
        /\ LoopTo("unwinding")
        /\ item' = [i \in Item |-> CancelRunning(i)]
        /\ UNCHANGED lease
     \/ /\ loop # "working"
        /\ LoopTo("failed")
        /\ lease' \in IF loop = "claiming"
                      THEN {lease \cup S : S \in SUBSET {i \in Item : item[i] = "none"}}
                      ELSE {lease}
        /\ UNCHANGED item
  /\ UNCHANGED faults

(* A cancelled gather is over with the first coroutine that is cancelled or    *)
(* raises, or when all have ended.                                              *)
LoopUnwound ==
  /\ loop = "unwinding"
  /\ (\E i \in Item : item[i] \in {"cancelled", "raised"}) \/ \A i \in Item : ~AtWork(i)
  /\ LoopTo("failed")
  /\ UNCHANGED <<item, lease, faults>>

-----------------------------------------------------------------------------
(* The coroutine of a row: fetch and save, then end the renewal of the lease *)

ItemTo(i, pc) ==
  /\ item' = [item EXCEPT ![i] = pc]
  /\ UNCHANGED <<main, drain, loop, heart, stop, beat, status>>

Settle(i) ==
  /\ item[i] = "running"
  /\ ItemTo(i, "settled")
  /\ lease' = lease \ {i}
  /\ UNCHANGED faults

Finish(i) ==
  /\ item[i] = "settled"
  /\ ItemTo(i, "done")
  /\ UNCHANGED <<lease, faults>>

(* A database error while it settles the row, or one the renewal met.          *)
Raise(i) ==
  /\ item[i] \in {"running", "settled"}
  /\ Fault /\ ItemTo(i, "raised") /\ UNCHANGED lease

(* CancelledError; the transaction it was in may have been committed, and a    *)
(* coroutine that waits for the renewal to end swallows it.                     *)
ItemCancelled(i) ==
  /\ item[i] = "cancelling"
  /\ \/ ItemTo(i, "cancelled") /\ lease' \in {lease, lease \ {i}}
     \/ i \notin lease /\ ItemTo(i, "done") /\ UNCHANGED lease
  /\ UNCHANGED faults

-----------------------------------------------------------------------------
(* run_with_shutdown, which main cancels when it cleans up *)

DrainTo(pc) == drain' = pc /\ UNCHANGED <<main, loop, heart, item, stop, beat, lease, status, faults>>

DrainWakesAtOnce ==   \* mutant: the deadline runs from the start
  drain = "waiting" /\ main = "waiting" /\ DrainTo("draining")
DrainWakes ==
  /\ drain = "waiting" /\ main = "waiting"
  /\ stop \/ loop \in Ended
  /\ DrainTo("draining")

LoopEndsAnyway ==     \* mutant: takes the result of a task that is not done
  drain = "draining" /\ main = "waiting" /\ DrainTo(loop)
LoopEnds ==
  /\ drain = "draining" /\ main = "waiting"
  /\ loop \in Ended
  /\ DrainTo(loop)

NoDeadline == FALSE /\ UNCHANGED vars   \* mutant: waits for the loop, however long it takes
Deadline ==
  /\ drain = "draining" /\ main = "waiting"
  /\ loop \notin Ended
  /\ DrainTo("unwinding")

DrainCancelled ==
  /\ drain \in {"waiting", "draining"} /\ main # "waiting"
  /\ DrainTo("unwinding")

DrainUnwound ==
  /\ drain = "unwinding" /\ loop \in Ended
  /\ DrainTo("failed")

-----------------------------------------------------------------------------
(* run_worker *)

MainTo(pc) == main' = pc /\ UNCHANGED <<drain, loop, heart, stop, lease, faults>>

MainWakes ==
  /\ main = "waiting"
  /\ heart = "failed" \/ drain \in Ended
  /\ MainTo("cleanup")
  /\ status' = IF heart # "failed" /\ drain = "ok" THEN "ok" ELSE "error"
  /\ UNCHANGED <<item, beat>>

CleanedUnawaited ==   \* mutant: cancels, but does not await what it cancelled
  main = "cleanup" /\ MainTo("closing") /\ UNCHANGED <<item, beat, status>>
Cleaned ==
  /\ main = "cleanup"
  /\ heart \in Ended /\ drain \in Ended
  /\ MainTo("closing")
  /\ UNCHANGED <<item, beat, status>>

Close ==
  /\ main = "closing"
  /\ MainTo(IF status = "ok" THEN "deleting" ELSE "disposing")
  /\ UNCHANGED <<item, beat, status>>

Delete ==
  /\ main = "deleting"
  /\ \/ MainTo("disposing") /\ beat' = FALSE /\ UNCHANGED status
     \/ /\ main' = "ending" /\ beat' \in {beat, FALSE} /\ status' = "error" /\ Fault
        /\ UNCHANGED <<drain, loop, heart, stop, lease>>
  /\ UNCHANGED item

(* asyncio.run cancels the coroutines that still run.                          *)
Dispose ==
  /\ main = "disposing"
  /\ MainTo("ending")
  /\ UNCHANGED <<item, beat, status>>

Cancelled == [i \in Item |-> CancelRunning(i)]

Ending ==
  /\ main = "ending"
  /\ IF \A i \in Item : ~AtWork(i)
     THEN MainTo("exited") /\ UNCHANGED item
     ELSE item # Cancelled /\ item' = Cancelled /\ MainTo("ending")
  /\ UNCHANGED <<beat, status>>

-----------------------------------------------------------------------------
HeartStep == HeartWrites \/ HeartWakes \/ HeartCancelled
LoopStep == Check \/ Claim \/ Poll \/ Gathered \/ LoopCancelled \/ LoopUnwound
DrainStep == DrainWakes \/ LoopEnds \/ Deadline \/ DrainCancelled \/ DrainUnwound
MainStep == MainWakes \/ Cleaned \/ Close \/ Delete \/ Dispose \/ Ending
ItemStep(i) == Settle(i) \/ Finish(i) \/ Raise(i) \/ ItemCancelled(i)

Next ==
  /\ main # "exited"
  /\ Signal \/ HeartStep \/ LoopStep \/ DrainStep \/ MainStep \/ \E i \in Item : ItemStep(i)

Spec == Init /\ [][Next]_vars

-----------------------------------------------------------------------------
(* Properties *)

Leaving == main \in {"disposing", "ending", "exited"}

(* Work is cut short only because the worker was told to stop, its heartbeat    *)
(* failed or another coroutine or the claim raised: never by the drain deadline *)
(* of a worker nobody stops.                                                    *)
WorkIsNotCutShort ==
  [][\A i \in Item : item[i] = "running" /\ item'[i] = "cancelling" =>
       stop \/ heart = "failed" \/ faults > 0]_vars

=============================================================================
