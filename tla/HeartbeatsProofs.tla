-------------------------- MODULE HeartbeatsProofs --------------------------
(***************************************************************************)
(* Proofs about a worker process and its heartbeat. ProcessInv is about the     *)
(* tasks: what has ended, what it has settled by then, and why it ended. RowInv *)
(* is about time: how old the row can be, and for how long it can be missing.   *)
(***************************************************************************)
EXTENDS Heartbeats, TLAPS

Process ==
  HeartStep \/ Signal \/ LoopStep \/ DrainStep \/ MainStep \/ \E i \in Item : ItemStep(i)

(* The loop is between batches: it holds no lease and nothing runs.            *)
Idle == loop \in {"check", "claiming", "polling", "ok"}
Settled ==
  /\ \A i \in Item : item[i] \in {"settled", "done"} => i \notin lease
  /\ loop # "failed" => \A i \in Item : item[i] = "none" => i \notin lease
  /\ Idle => \A i \in Item : item[i] \in {"none", "done"}

(* Why work may be cut short.                                                   *)
Cause == stop \/ heart = "failed" \/ faults > 0

Ends ==
  /\ main \notin {"waiting", "cleanup", "exited"} => heart \in Ended
  /\ drain = "ok" => loop = "ok"
  /\ status = "ok" => drain = "ok" /\ main # "waiting"
  /\ main \notin {"waiting", "exited"} \/ drain \in {"unwinding", "ok", "failed"} => Cause
  /\ loop \in {"unwinding", "ok", "failed"} => Cause
  /\ drain = "draining" => stop \/ loop \in Ended
  /\ \A i \in Item : item[i] = "raised" => faults > 0

ProcessInv == TypeOK /\ Settled /\ Ends

Exit == status = "ok" /\ Leaving => (beat => writer = "old")

(* How old the row can be while the heart beats. A row is written with the age  *)
(* of the statement, then comes a period of sleep, then the next statement.     *)
RowTypeOK ==
  /\ {age, timer, dark} \subseteq Nat
  /\ writer \in {"none", "this", "old", "before"} /\ (beat <=> writer # "none")
  /\ old \in {"running", "gone"}

Oldest == Write + timer + IF heart = "writing" THEN Period ELSE 0

(* For how long it can have been missing. It is missing at first, until the     *)
(* first statement, and once more when the older process has deleted it, until  *)
(* the statement after that.                                                     *)
Darkest ==
  IF heart = "writing" THEN IF old = "running" THEN timer ELSE Oldest
  ELSE IF ~beat THEN Oldest
  ELSE IF timer > 0 THEN 0
  ELSE IF old = "running" THEN Write ELSE 2 * Write + Period

RowInv ==
  /\ RowTypeOK
  /\ Beating =>
       /\ timer <= IF heart = "sleeping" THEN Period ELSE Write
       /\ writer \notin {"none", "before"} => age <= Oldest
       /\ heart = "sleeping" => writer # "before" /\ (beat \/ old = "gone")
       /\ dark <= Darkest

-----------------------------------------------------------------------------
LEMMA Steps ==
  [HealthNext]_healthVars =>
    \/ Alive /\ Process
    \/ Crash \/ OldProcess
    \/ \E i \in Item : Recover(i)
    \/ UNCHANGED vars
<1> SUFFICES ASSUME [HealthNext]_healthVars
             PROVE  \/ Alive /\ Process
                    \/ Crash \/ OldProcess
                    \/ \E i \in Item : Recover(i)
                    \/ UNCHANGED vars
    OBVIOUS
<1>1. CASE HeartWrite
    BY <1>1 DEF HeartWrite, Process, HeartStep
<1>2. CASE HeartWake
    BY <1>2 DEF HeartWake, HeartWakes, Process, HeartStep, Alive
<1>3. CASE Refresh \/ Elapse
    BY <1>3 DEF Refresh, Elapse
<1>4. CASE ProcessStep(Signal) \/ ProcessStep(LoopStep) \/ ProcessStep(DrainStep) \/ ProcessStep(MainStep)
    BY <1>4 DEF ProcessStep, Process
<1>5. ASSUME NEW i \in Item, ProcessStep(ItemStep(i)) PROVE Alive /\ Process
    BY <1>5 DEF ProcessStep, Process
<1>6. CASE UNCHANGED healthVars
    BY <1>6 DEF healthVars
<1>7. QED
    BY <1>1, <1>2, <1>3, <1>4, <1>5, <1>6 DEF HealthNext

LEMMA Faults == TypeOK => faults \in Nat /\ (Fault => faults' \in 0..MaxFaults /\ faults' > 0)
BY FaultAssumption DEF TypeOK, Fault

LEMMA TypeStep == TypeOK /\ [HealthNext]_healthVars => TypeOK'
<1> SUFFICES ASSUME TypeOK, [HealthNext]_healthVars PROVE TypeOK'
    OBVIOUS
<1> USE Faults DEF TypeOK
<1>1. CASE HeartStep
  <2>1. CASE HeartWrites
    <3>1. heart' \in {"sleeping", "failed"} /\ beat' \in BOOLEAN /\ (faults' = faults \/ Fault)
        BY <2>1, Zenon DEF HeartWrites
    <3>2. UNCHANGED <<main, drain, loop, item, stop, lease, status>>
        BY <2>1 DEF HeartWrites
    <3>3. QED
        BY <3>1, <3>2
  <2>2. CASE HeartWakes
      BY <2>2 DEF HeartWakes
  <2>3. CASE HeartCancelled
    <3>1. beat' \in BOOLEAN
        BY <2>3, Zenon DEF HeartCancelled
    <3>2. QED
        BY <2>3, <3>1 DEF HeartCancelled
  <2>4. QED
      BY <1>1, <2>1, <2>2, <2>3 DEF HeartStep
<1>2. CASE Signal
    BY <1>2 DEF Signal
<1>3. CASE LoopStep
  <2>1. CASE Check
      BY <2>1 DEF Check, LoopTo
  <2>2. CASE Claim
    <3>1. CASE LoopTo("failed") /\ Fault /\ UNCHANGED <<item, lease>>
        BY <3>1 DEF LoopTo
    <3>2. CASE ~(LoopTo("failed") /\ Fault /\ UNCHANGED <<item, lease>>)
        BY <2>2, <3>2 DEF Claim, LoopTo
    <3>3. QED
        BY <3>1, <3>2
  <2>3. CASE Poll \/ Gathered
      BY <2>3 DEF Poll, Gathered, LoopTo
  <2>4. CASE LoopCancelled
      BY <2>4 DEF LoopCancelled, LoopTo, CancelRunning
  <2>5. CASE LoopUnwound
      BY <2>5 DEF LoopUnwound, LoopTo
  <2>6. QED
      BY <1>3, <2>1, <2>2, <2>3, <2>4, <2>5 DEF LoopStep
<1>4. CASE DrainStep
    BY <1>4 DEF DrainStep, DrainWakes, LoopEnds, Deadline, DrainCancelled, DrainUnwound, DrainTo, Ended
<1>5. CASE MainStep
  <2>1. CASE MainWakes \/ Cleaned \/ Close \/ Dispose
      BY <2>1 DEF MainWakes, Cleaned, Close, Dispose, MainTo
  <2>2. CASE Delete
    <3>1. beat' \in BOOLEAN /\ status' \in {"none", "ok", "error"} /\ (faults' = faults \/ Fault)
        BY <2>2, Zenon DEF Delete, MainTo
    <3>2. main' \in {"disposing", "ending"} /\ UNCHANGED <<drain, loop, heart, item, stop, lease>>
        BY <2>2 DEF Delete, MainTo
    <3>3. QED
        BY <3>1, <3>2
  <2>3. CASE Ending
      BY <2>3 DEF Ending, MainTo, Cancelled, CancelRunning
  <2>4. QED
      BY <1>5, <2>1, <2>2, <2>3 DEF MainStep
<1>6. ASSUME NEW i \in Item, ItemStep(i) PROVE TypeOK'
    BY <1>6 DEF ItemStep, Settle, Finish, Raise, ItemCancelled, ItemTo
<1>7. CASE Crash
    BY <1>7 DEF Crash
<1>8. CASE OldProcess
  <2>1. beat' \in BOOLEAN
      BY <1>8, Zenon DEF OldProcess, Written, Deleted, Unwritten
  <2>2. QED
      BY <1>8, <2>1 DEF OldProcess
<1>9. ASSUME NEW i \in Item, Recover(i) PROVE TypeOK'
    BY <1>9 DEF Recover
<1>10. CASE UNCHANGED vars
    BY <1>10 DEF vars
<1>11. QED
    BY <1>1, <1>2, <1>3, <1>4, <1>5, <1>6, <1>7, <1>8, <1>9, <1>10, Steps DEF Process

LEMMA SettledStep ==
  ASSUME ProcessInv, TypeOK', [HealthNext]_healthVars
  PROVE  Settled'
<1> USE DEF ProcessInv, TypeOK, Settled, Idle
<1>1. CASE HeartStep
    BY <1>1 DEF HeartStep, HeartWrites, HeartWakes, HeartCancelled
<1>2. CASE Signal
    BY <1>2 DEF Signal
<1>3. CASE LoopStep
  <2>1. CASE Check
      BY <2>1 DEF Check, LoopTo
  <2>2. CASE Claim
      BY <2>2 DEF Claim, LoopTo
  <2>3. CASE Poll \/ Gathered
      BY <2>3 DEF Poll, Gathered, LoopTo
  <2>4. CASE LoopCancelled
      BY <2>4 DEF LoopCancelled, LoopTo, CancelRunning, AtWork, Ended
  <2>5. CASE LoopUnwound
      BY <2>5 DEF LoopUnwound, LoopTo
  <2>6. QED
      BY <1>3, <2>1, <2>2, <2>3, <2>4, <2>5 DEF LoopStep
<1>4. CASE DrainStep
    BY <1>4 DEF DrainStep, DrainWakes, LoopEnds, Deadline, DrainCancelled, DrainUnwound, DrainTo
<1>5. CASE MainStep
  <2>1. CASE MainWakes \/ Cleaned \/ Close \/ Dispose
      BY <2>1 DEF MainWakes, Cleaned, Close, Dispose, MainTo
  <2>2. CASE Delete
      BY <2>2 DEF Delete, MainTo
  <2>3. CASE Ending
      BY <2>3 DEF Ending, MainTo, Cancelled, CancelRunning, AtWork, Ended
  <2>4. QED
      BY <1>5, <2>1, <2>2, <2>3 DEF MainStep
<1>6. ASSUME NEW i \in Item, ItemStep(i) PROVE Settled'
    BY <1>6 DEF ItemStep, Settle, Finish, Raise, ItemCancelled, ItemTo
<1>7. CASE Crash
    BY <1>7 DEF Crash
<1>8. CASE OldProcess
    BY <1>8 DEF OldProcess
<1>9. ASSUME NEW i \in Item, Recover(i) PROVE Settled'
    BY <1>9 DEF Recover
<1>10. CASE UNCHANGED vars
    BY <1>10 DEF vars
<1>11. QED
    BY <1>1, <1>2, <1>3, <1>4, <1>5, <1>6, <1>7, <1>8, <1>9, <1>10, Steps DEF Process

LEMMA EndsStep ==
  ASSUME ProcessInv, TypeOK', [HealthNext]_healthVars
  PROVE  Ends'
<1> USE Faults DEF ProcessInv, TypeOK, Ends, Cause, Ended
<1>1. CASE HeartStep
  <2>1. CASE HeartWrites
    <3>1. heart' \in {"sleeping", "failed"} /\ main = "waiting" /\ (faults' = faults \/ Fault)
        BY <2>1, Zenon DEF HeartWrites
    <3>2. UNCHANGED <<main, drain, loop, item, stop, lease, status>>
        BY <2>1 DEF HeartWrites
    <3>3. heart \notin Ended
        BY <2>1 DEF HeartWrites
    <3>4. faults > 0 => faults' > 0
        BY <3>1
    <3>5. QED
        BY <3>1, <3>2, <3>3, <3>4
  <2>2. CASE HeartWakes
      BY <2>2 DEF HeartWakes
  <2>3. CASE HeartCancelled
      BY <2>3 DEF HeartCancelled
  <2>4. QED
      BY <1>1, <2>1, <2>2, <2>3 DEF HeartStep
<1>2. CASE Signal
    BY <1>2 DEF Signal
<1>3. CASE LoopStep
  <2>1. CASE Check
      BY <2>1 DEF Check, LoopTo
  <2>2. CASE Claim
      BY <2>2 DEF Claim, LoopTo
  <2>3. CASE Poll \/ Gathered
      BY <2>3 DEF Poll, Gathered, LoopTo
  <2>4. CASE LoopCancelled
      BY <2>4 DEF LoopCancelled, LoopTo, CancelRunning, Uncancelled
  <2>5. CASE LoopUnwound
      BY <2>5 DEF LoopUnwound, LoopTo
  <2>6. QED
      BY <1>3, <2>1, <2>2, <2>3, <2>4, <2>5 DEF LoopStep
<1>4. CASE DrainStep /\ Alive
    BY <1>4 DEF DrainStep, DrainWakes, LoopEnds, Deadline, DrainCancelled, DrainUnwound, DrainTo, Alive
<1>5. CASE MainStep
  <2>1. CASE MainWakes
      BY <2>1 DEF MainWakes, MainTo
  <2>2. CASE Cleaned \/ Close \/ Dispose
      BY <2>2 DEF Cleaned, Close, Dispose, MainTo
  <2>3. CASE Delete
      BY <2>3 DEF Delete, MainTo
  <2>4. CASE Ending
      BY <2>4 DEF Ending, MainTo, Cancelled, CancelRunning
  <2>5. QED
      BY <1>5, <2>1, <2>2, <2>3, <2>4 DEF MainStep
<1>6. ASSUME NEW i \in Item, ItemStep(i) PROVE Ends'
    BY <1>6 DEF ItemStep, Settle, Finish, Raise, ItemCancelled, ItemTo
<1>7. CASE Crash
    BY <1>7 DEF Crash
<1>8. CASE OldProcess
    BY <1>8 DEF OldProcess
<1>9. ASSUME NEW i \in Item, Recover(i) PROVE Ends'
    BY <1>9 DEF Recover
<1>10. CASE UNCHANGED vars
    BY <1>10 DEF vars
<1>11. QED
    BY <1>1, <1>2, <1>3, <1>4, <1>5, <1>6, <1>7, <1>8, <1>9, <1>10, Steps DEF Process, Alive

LEMMA ProcessInit == HealthInit => ProcessInv
<1> SUFFICES ASSUME Init PROVE ProcessInv
    BY DEF HealthInit
<1>1. beat \in BOOLEAN /\ stop \in BOOLEAN
    BY Zenon DEF Init
<1>2. TypeOK
    BY <1>1, FaultAssumption DEF Init, TypeOK
<1>3. Settled /\ Ends
    BY DEF Init, Settled, Idle, Ends, Cause, Ended
<1>4. QED
    BY <1>2, <1>3 DEF ProcessInv

LEMMA ProcessStays == ProcessInv /\ [HealthNext]_healthVars => ProcessInv'
<1> SUFFICES ASSUME ProcessInv, [HealthNext]_healthVars PROVE ProcessInv'
    OBVIOUS
<1>1. TypeOK'
    BY TypeStep DEF ProcessInv
<1>2. Settled' /\ Ends'
    BY <1>1, SettledStep, EndsStep
<1>3. QED
    BY <1>1, <1>2 DEF ProcessInv

(* Every variable of the process keeps its type.                               *)
THEOREM TypeCorrect == HealthSpec => []TypeOK
BY ProcessInit, ProcessStays, PTL DEF HealthSpec, ProcessInv

-----------------------------------------------------------------------------
(* The end of the process                                                      *)

LEMMA ExitStep ==
  ASSUME ProcessInv, Exit, [HealthNext]_healthVars
  PROVE  Exit'
<1> USE DEF Exit, Leaving, ProcessInv
<1>1. CASE HeartWrite
  <2>1. main' = main /\ status' = status /\ heart \notin Ended /\ Alive
      BY <1>1 DEF HeartWrite, HeartWrites, HeartCancelled, Ended
  <2>2. main \in {"waiting", "cleanup"}
      BY <2>1 DEF Ends, Alive
  <2>3. QED
      BY <2>1, <2>2
<1>2. CASE HeartWake \/ Refresh \/ Elapse \/ UNCHANGED healthVars
    BY <1>2 DEF HeartWake, HeartWakes, Refresh, Elapse, healthVars, vars, row
<1>3. CASE Crash
    BY <1>3 DEF Crash
<1>4. CASE OldProcess
    BY <1>4 DEF OldProcess, Written, Deleted, Unwritten, row
<1>5. ASSUME NEW i \in Item, Recover(i) PROVE Exit'
    BY <1>5 DEF Recover, row
<1>6. CASE ProcessStep(MainStep)
  <2>1. (Unwritten \/ Deleted) /\ MainStep
      BY <1>6 DEF ProcessStep
  <2>2. CASE Deleted
      BY <2>2 DEF Deleted
  <2>3. CASE Unwritten /\ (MainWakes \/ Cleaned \/ Close \/ Dispose \/ Ending)
      BY <2>3 DEF Unwritten, row, MainWakes, Cleaned, Close, Dispose, Ending, MainTo
  <2>4. CASE Delete
      BY <2>4 DEF Delete, MainTo
  <2>5. QED
      BY <2>1, <2>2, <2>3, <2>4 DEF MainStep
<1>7. CASE ProcessStep(Signal) \/ ProcessStep(LoopStep) \/ ProcessStep(DrainStep)
  <2>1. UNCHANGED <<main, status>> /\ (Unwritten \/ Deleted)
    <3>1. CASE ProcessStep(Signal) \/ ProcessStep(DrainStep)
        BY <3>1 DEF ProcessStep, Signal, DrainStep, DrainWakes, LoopEnds, Deadline, DrainCancelled, DrainUnwound, DrainTo
    <3>2. CASE ProcessStep(LoopStep)
        BY <3>2 DEF ProcessStep, LoopStep, Check, Claim, Poll, Gathered, LoopCancelled, LoopUnwound, LoopTo
    <3>3. QED
        BY <1>7, <3>1, <3>2
  <2>2. QED
      BY <2>1 DEF Unwritten, Deleted, row
<1>8. ASSUME NEW i \in Item, ProcessStep(ItemStep(i)) PROVE Exit'
    BY <1>8 DEF ProcessStep, ItemStep, Settle, Finish, Raise, ItemCancelled, ItemTo, Unwritten, Deleted, row
<1>9. QED
    BY <1>1, <1>2, <1>3, <1>4, <1>5, <1>6, <1>7, <1>8 DEF HealthNext

LEMMA ExitInit == HealthInit => Exit
BY DEF HealthInit, Init, Exit, Leaving

LEMMA GracefulExit == ProcessInv /\ Exit => GracefulExitLeavesNothing
<1> SUFFICES ASSUME ProcessInv, Exit, status = "ok", Leaving
             PROVE  (beat => writer = "old") /\ lease = {} /\ \A i \in Item : ~AtWork(i)
    BY DEF GracefulExitLeavesNothing
<1>1. loop = "ok"
    BY DEF ProcessInv, Ends
<1>2. \A i \in Item : item[i] \in {"none", "done"} /\ i \notin lease
    BY <1>1 DEF ProcessInv, Settled, Idle
<1>3. lease = {}
    BY <1>2 DEF ProcessInv, TypeOK
<1>4. QED
    BY <1>2, <1>3 DEF Exit, AtWork, Ended

(* A process that ends with success leaves neither its row, nor a lease, nor a  *)
(* coroutine at work, whatever was under way when it was told to stop.          *)
THEOREM ExitLeavesNothing == HealthSpec => []GracefulExitLeavesNothing
<1>1. HealthInit => ProcessInv /\ Exit
    BY ProcessInit, ExitInit
<1>2. ProcessInv /\ Exit /\ [HealthNext]_healthVars => (ProcessInv /\ Exit)'
    BY ProcessStays, ExitStep
<1>3. QED
    BY <1>1, <1>2, GracefulExit, PTL DEF HealthSpec

-----------------------------------------------------------------------------
(* Work that is cut short                                                      *)

LEMMA CutShort ==
  ASSUME ProcessInv, [HealthNext]_healthVars, NEW i \in Item,
         item[i] = "running", item'[i] = "cancelling"
  PROVE  Cause
<1>1. CASE Process
  <2>1. CASE HeartStep
      BY <2>1 DEF HeartStep, HeartWrites, HeartWakes, HeartCancelled
  <2>2. CASE Signal
      BY <2>2 DEF Signal
  <2>3. CASE LoopStep
    <3>1. CASE LoopCancelled
        BY <3>1 DEF LoopCancelled, Uncancelled, ProcessInv, Ends
    <3>2. CASE Check \/ Poll \/ Gathered \/ LoopUnwound
        BY <3>2 DEF Check, Poll, Gathered, LoopUnwound
    <3>3. CASE Claim
        BY <3>3 DEF Claim
    <3>4. QED
        BY <2>3, <3>1, <3>2, <3>3 DEF LoopStep
  <2>4. CASE DrainStep
      BY <2>4 DEF DrainStep, DrainWakes, LoopEnds, Deadline, DrainCancelled, DrainUnwound, DrainTo
  <2>5. CASE MainStep
    <3>1. CASE Ending
        BY <3>1 DEF Ending, ProcessInv, Ends
    <3>2. CASE MainWakes \/ Cleaned \/ Close \/ Delete \/ Dispose
        BY <3>2 DEF MainWakes, Cleaned, Close, Delete, Dispose
    <3>3. QED
        BY <2>5, <3>1, <3>2 DEF MainStep
  <2>6. ASSUME NEW j \in Item, ItemStep(j) PROVE Cause
      BY <2>6 DEF ItemStep, Settle, Finish, Raise, ItemCancelled, ItemTo, ProcessInv, TypeOK
  <2>7. QED
      BY <1>1, <2>1, <2>2, <2>3, <2>4, <2>5, <2>6 DEF Process
<1>2. CASE Crash \/ OldProcess \/ (\E j \in Item : Recover(j)) \/ UNCHANGED vars
    BY <1>2 DEF Crash, OldProcess, Recover, vars
<1>3. QED
    BY <1>1, <1>2, Steps

(* A running coroutine is cancelled only after a signal, a failed heartbeat or  *)
(* another failure: the deadline of the drain alone never cuts work short.       *)
THEOREM WorkIsFinished == HealthSpec => WorkIsNotCutShort
<1>1. ProcessInv /\ [HealthNext]_healthVars =>
        [\A i \in Item : item[i] = "running" /\ item'[i] = "cancelling" =>
           stop \/ heart = "failed" \/ faults > 0]_vars
    BY CutShort DEF Cause
<1>2. QED
    BY <1>1, ProcessInit, ProcessStays, PTL DEF HealthSpec, WorkIsNotCutShort

-----------------------------------------------------------------------------
(* The age of the row                                                          *)

LEMMA Bounds ==
  /\ Write \in Nat /\ Skew \in Nat /\ Stale \in Nat /\ Period = 1
  /\ Stale >= Period + 2 * Write + Skew
BY StaleAssumption DEF Period

LEMMA RowInit == HealthInit => RowInv
<1> SUFFICES ASSUME HealthInit PROVE RowInv
    OBVIOUS
<1>1. /\ heart = "writing" /\ timer = 0 /\ dark = 0 /\ old \in {"running", "gone"} /\ age \in Nat
      /\ (~beat /\ writer = "none") \/ (beat /\ writer = "before")
    BY Bounds DEF HealthInit, Init
<1>2. RowTypeOK
    BY <1>1 DEF RowTypeOK
<1>3. QED
    BY <1>1, <1>2, Bounds DEF RowInv, Darkest, Oldest

(* Steps that neither move the heart nor the clock.                            *)
Still ==
  /\ UNCHANGED <<heart, timer, old, dark>>
  /\ main' # "exited" => Alive
  /\ Unwritten \/ (Deleted /\ heart \in Ended)

LEMMA StillStep ==
  ASSUME ProcessInv,
         \/ Refresh \/ Crash \/ UNCHANGED healthVars
         \/ ProcessStep(Signal) \/ ProcessStep(LoopStep) \/ ProcessStep(DrainStep) \/ ProcessStep(MainStep)
         \/ \E i \in Item : ProcessStep(ItemStep(i)) \/ Recover(i)
  PROVE  Still
<1> USE DEF Still, outside
<1>1. CASE Refresh \/ UNCHANGED healthVars
    BY <1>1 DEF Refresh, healthVars, vars, Unwritten, Alive
<1>2. CASE Crash
    BY <1>2 DEF Crash, Unwritten
<1>3. ASSUME NEW i \in Item, Recover(i) PROVE Still
    BY <1>3 DEF Recover, Unwritten, Alive
<1>4. ASSUME Unwritten \/ (main = "deleting" /\ Deleted), heart' = heart, Alive, UNCHANGED <<timer, outside, dark>>
      PROVE  Still
  <2>1. main = "deleting" => heart \in Ended
      BY DEF ProcessInv, Ends
  <2>2. QED
      BY <1>4, <2>1
<1>5. CASE ProcessStep(Signal)
    BY <1>4, <1>5 DEF ProcessStep, Signal
<1>6. CASE ProcessStep(LoopStep)
    BY <1>4, <1>6 DEF ProcessStep, LoopStep, Check, Claim, Poll, Gathered, LoopCancelled, LoopUnwound, LoopTo
<1>7. CASE ProcessStep(DrainStep)
    BY <1>4, <1>7 DEF ProcessStep, DrainStep, DrainWakes, LoopEnds, Deadline, DrainCancelled, DrainUnwound, DrainTo
<1>8. CASE ProcessStep(MainStep)
    BY <1>4, <1>8 DEF ProcessStep, MainStep, MainWakes, Cleaned, Close, Delete, Dispose, Ending, MainTo
<1>9. ASSUME NEW i \in Item, ProcessStep(ItemStep(i)) PROVE Still
    BY <1>4, <1>9 DEF ProcessStep, ItemStep, Settle, Finish, Raise, ItemCancelled, ItemTo
<1>10. QED
    BY <1>1, <1>2, <1>3, <1>5, <1>6, <1>7, <1>8, <1>9

LEMMA RowStep ==
  ASSUME ProcessInv, TypeOK', RowInv, [HealthNext]_healthVars
  PROVE  RowInv'
<1> USE Bounds
<1>1. CASE Still
  <2>1. RowTypeOK'
      BY <1>1 DEF Still, Unwritten, Deleted, row, RowInv, RowTypeOK
  <2>2. ASSUME Beating' PROVE Beating /\ UNCHANGED <<beat, age, writer>>
      BY <1>1, <2>2 DEF Still, Beating, Alive, Unwritten, row, Ended
  <2>3. QED
      BY <1>1, <2>1, <2>2 DEF Still, RowInv, Oldest, Darkest
<1>2. CASE HeartWrite
  <2>1. CASE heart' = "sleeping"
    <3>1. /\ heart = "writing" /\ main = "waiting" /\ main' = main /\ Written("this", timer)
          /\ timer' = 0 /\ UNCHANGED <<old, dark>>
        BY <1>2, <2>1 DEF HeartWrite, HeartWrites, HeartCancelled, outside
    <3>2. Beating
        BY <3>1 DEF Beating, Alive
    <3>3. RowTypeOK'
        BY <3>1 DEF Written, RowInv, RowTypeOK
    <3>4. QED
        BY <2>1, <3>1, <3>2, <3>3 DEF RowInv, RowTypeOK, Written, Oldest, Darkest
  <2>2. CASE heart' # "sleeping"
    <3>1. heart' \in {"failed", "cancelled"} /\ timer' = 0 /\ UNCHANGED <<old, dark>>
        BY <1>2, <2>2 DEF HeartWrite, HeartWrites, HeartCancelled, outside
    <3>2. Written("this", timer) \/ Unwritten
        BY <1>2 DEF HeartWrite
    <3>3. RowTypeOK'
        BY <3>1, <3>2 DEF Written, Unwritten, row, RowInv, RowTypeOK
    <3>4. QED
        BY <3>1, <3>3 DEF RowInv, Beating
  <2>3. QED
      BY <2>1, <2>2
<1>3. CASE HeartWake
  <2>1. /\ heart = "sleeping" /\ heart' = "writing" /\ main = "waiting" /\ timer = Period /\ timer' = 0
        /\ UNCHANGED <<beat, age, writer, old, dark>>
      BY <1>3 DEF HeartWake, HeartWakes, row, outside
  <2>2. Beating
      BY <2>1 DEF Beating, Alive
  <2>3. QED
      BY <2>1, <2>2 DEF RowInv, RowTypeOK, Oldest, Darkest
<1>4. CASE OldProcess
  <2>1. /\ old = "running" /\ UNCHANGED <<main, heart, timer, dark>>
        /\ \/ Written("old", 0) /\ old' = old
           \/ old' = "gone" /\ (Deleted \/ Unwritten)
      BY <1>4 DEF OldProcess
  <2>2. Beating' = Beating
      BY <2>1 DEF Beating, Alive
  <2>3. CASE Written("old", 0) /\ old' = old
    <3>1. RowTypeOK'
        BY <2>1, <2>3 DEF Written, RowInv, RowTypeOK
    <3>2. ASSUME Beating PROVE dark' <= Darkest' /\ age' <= Oldest' /\ Oldest' = Oldest
        BY <2>1, <2>3, <3>2 DEF RowInv, RowTypeOK, Written, Oldest, Darkest, Beating
    <3>3. QED
        BY <2>1, <2>2, <2>3, <3>1, <3>2 DEF RowInv, Written
  <2>4. CASE old' = "gone" /\ Deleted
      BY <2>1, <2>2, <2>4 DEF RowInv, RowTypeOK, Deleted, Oldest, Darkest
  <2>5. CASE old' = "gone" /\ Unwritten
      BY <2>1, <2>2, <2>5 DEF RowInv, RowTypeOK, Unwritten, row, Oldest, Darkest
  <2>6. QED
      BY <2>1, <2>3, <2>4, <2>5
<1>5. CASE Elapse
  <2>1. UNCHANGED <<main, heart, beat, writer, old>> /\ Beating' = Beating
      BY <1>5 DEF Elapse, vars, outside, Beating, Alive
  <2>2. RowTypeOK'
    <3>1. timer' \in Nat
        BY <1>5 DEF Elapse, RowInv, RowTypeOK
    <3>2. age' \in Nat
        BY <1>5 DEF Elapse, AtMost, RowInv, RowTypeOK
    <3>3. dark' \in Nat
      <4>1. dark' = AtMost(dark + 1, Stale) \/ dark' = 0
          BY <1>5 DEF Elapse
      <4>2. QED
          BY <4>1 DEF AtMost, RowInv, RowTypeOK
    <3>4. QED
        BY <2>1, <3>1, <3>2, <3>3 DEF RowInv, RowTypeOK
  <2>3. SUFFICES ASSUME Beating
                 PROVE  /\ timer' <= IF heart = "sleeping" THEN Period ELSE Write
                        /\ writer \notin {"none", "before"} => age' <= Oldest'
                        /\ dark' <= Darkest'
      BY <2>1, <2>2 DEF RowInv
  <2>4. /\ timer < (IF heart = "sleeping" THEN Period ELSE Write)
        /\ timer' = timer + 1 /\ age' <= age + 1 /\ dark' <= dark + 1 /\ (Fresh => dark' = 0)
      BY <1>5, <2>3 DEF Elapse, AtMost, RowInv, RowTypeOK
  <2>5. writer \notin {"none", "before"} => Fresh
      BY <2>3 DEF RowInv, RowTypeOK, Fresh, Oldest, Beating
  <2>6. timer \in Nat /\ dark \in Nat /\ age \in Nat /\ dark' \in Nat /\ age' \in Nat
      BY <2>2 DEF RowInv, RowTypeOK
  <2>7. CASE heart = "sleeping"
      BY <2>1, <2>3, <2>4, <2>5, <2>6, <2>7 DEF RowInv, RowTypeOK, Oldest, Darkest
  <2>8. CASE heart = "writing"
      BY <2>1, <2>3, <2>4, <2>5, <2>6, <2>8 DEF RowInv, RowTypeOK, Oldest, Darkest
  <2>9. QED
      BY <2>3, <2>7, <2>8 DEF Beating
<1>6. QED
    BY <1>1, <1>2, <1>3, <1>4, <1>5, StillStep DEF HealthNext

LEMMA SeenWhileBeating == RowInv => BeatingIsSeen
<1> SUFFICES ASSUME RowInv, Beating PROVE BeatingIsSeen
    BY DEF BeatingIsSeen
<1> USE Bounds DEF RowInv, RowTypeOK
<1>1. timer <= Write \/ (heart = "sleeping" /\ timer <= Period)
    BY DEF Beating
<1>2. dark <= Period + 2 * Write
    BY <1>1 DEF Darkest, Oldest, Beating
<1>3. ASSUME writer # "before", NEW ahead \in 0..Skew PROVE ~Failed(ahead)
    BY <1>1, <1>3 DEF Failed, Oldest, Beating
<1>4. QED
    BY <1>2, <1>3 DEF BeatingIsSeen

(* As long as the heart of a worker beats, its row is missing or old for at most *)
(* a period and the time of two statements, and it is not counted as failed.      *)
THEOREM BeatingWorkerIsSeen == HealthSpec => []BeatingIsSeen
<1>1. HealthInit => ProcessInv /\ RowInv
    BY ProcessInit, RowInit
<1>2. ProcessInv /\ RowInv /\ [HealthNext]_healthVars => (ProcessInv /\ RowInv)'
    BY ProcessStays, RowStep DEF ProcessInv
<1>3. QED
    BY <1>1, <1>2, SeenWhileBeating, PTL DEF HealthSpec

=============================================================================
