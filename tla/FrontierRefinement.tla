------------------------- MODULE FrontierRefinement -------------------------
(***************************************************************************)
(* The frontier implements the work queue: under the mapping of Frontier,    *)
(* each commit is one step of WorkQueue or none, and all else is none. The   *)
(* inductive invariant of FrontierProofs says what the commits may assume.   *)
(***************************************************************************)
EXTENDS FrontierProofs

-----------------------------------------------------------------------------
(* The mapping *)

LEMMA StatusOf ==
  ASSUME NEW i \in Item
  PROVE  /\ row[i].state = "absent" => statusBar[i] = "absent"
         /\ row[i].state \in {"pending", "leased"} => statusBar[i] = "open"
         /\ row[i].state = "complete" => statusBar[i] = "done"
         /\ row[i].state = "dead" => statusBar[i] = "dead"
         /\ triesBar[i] = row[i].attempt
BY DEF statusBar, triesBar

LEMMA StatusOfNext ==
  ASSUME NEW i \in Item
  PROVE  /\ row'[i].state = "absent" => statusBar'[i] = "absent"
         /\ row'[i].state \in {"pending", "leased"} => statusBar'[i] = "open"
         /\ row'[i].state = "complete" => statusBar'[i] = "done"
         /\ row'[i].state = "dead" => statusBar'[i] = "dead"
         /\ triesBar'[i] = row'[i].attempt
BY DEF statusBar, triesBar

BarTypes ==
  /\ statusBar \in [Item -> {"absent", "open", "done", "dead"}]
  /\ triesBar \in [Item -> Nat]

LEMMA BarTyped == TypeOK => BarTypes
<1> SUFFICES ASSUME TypeOK PROVE BarTypes
    OBVIOUS
<1>1. \A i \in Item : row[i].state \in RowState /\ row[i].attempt \in Nat
    BY DEF TypeOK, Row
<1>2. QED
    BY <1>1 DEF BarTypes, statusBar, triesBar, RowState

(* Rows that keep their state and their attempts look the same from outside. *)
LEMMA Unseen ==
  ASSUME TypeOK, TypeOK', page' = page,
         \A i \in Item : /\ row'[i].attempt = row[i].attempt
                         /\ \/ row'[i].state = row[i].state
                            \/ row[i].state = "leased" /\ row'[i].state = "pending"
  PROVE  UNCHANGED <<statusBar, triesBar, pagesBar>>
<1>1. \A i \in Item : row[i].state \in RowState
    BY DEF TypeOK, Row
<1>2. ASSUME NEW i \in Item PROVE statusBar'[i] = statusBar[i] /\ triesBar'[i] = triesBar[i]
    BY <1>1, <1>2, StatusOf, StatusOfNext DEF RowState
<1>3. BarTypes /\ BarTypes'
    BY BarTyped, PTL
<1>4. statusBar' = statusBar /\ triesBar' = triesBar
    BY <1>2, <1>3 DEF BarTypes
<1>5. QED
    BY <1>4 DEF pagesBar

-----------------------------------------------------------------------------
(* Each commit is a step of the work queue *)

LEMMA InitRefined == Init => WQ!Init
<1> SUFFICES ASSUME Init PROVE WQ!Init
    OBVIOUS
<1>1. TypeOK
    BY TypeInit
<1>2. BarTypes
    BY <1>1, BarTyped
<1>3. \A i \in Item : row[i].state = "absent" /\ row[i].attempt = 0
    BY DEF Init, RowAt
<1>4. \A i \in Item : statusBar[i] = "absent" /\ triesBar[i] = 0
    BY <1>3, StatusOf
<1>5. pagesBar = {}
    BY DEF Init, pagesBar
<1>6. QED
    BY <1>2, <1>4, <1>5 DEF WQ!Init, BarTypes

(* A job's rows come into being together. *)
LEMMA SubmitRefined ==
  ASSUME IInv, TypeOK', NEW j \in Job, Schedule(j)
  PROVE  WQ!Submit(j)
<1>1. BarTypes /\ BarTypes' /\ TypeOK
    BY BarTyped, PTL DEF IInv
<1>2. ASSUME NEW i \in Item, JobOf[i] = j
      PROVE  /\ statusBar[i] = "absent" /\ statusBar'[i] = "open"
             /\ triesBar'[i] = triesBar[i]
  <2>1. row[i].state = "absent" /\ row[i].attempt = 0
      BY <1>2 DEF Schedule, IInv, Shape
  <2>2. row'[i].state = "pending" /\ row'[i].attempt = 0
      BY <1>2 DEF Schedule, RowAt
  <2>3. QED
      BY <2>1, <2>2, StatusOf, StatusOfNext
<1>3. ASSUME NEW i \in Item, JobOf[i] # j
      PROVE  statusBar'[i] = statusBar[i] /\ triesBar'[i] = triesBar[i]
  <2>1. row'[i] = row[i]
      BY <1>3 DEF Schedule
  <2>2. row[i].state \in RowState
      BY <1>1 DEF TypeOK, Row
  <2>3. QED
      BY <2>1, <2>2, StatusOf, StatusOfNext DEF RowState
<1>4. statusBar' = [i \in Item |-> IF JobOf[i] = j THEN "open" ELSE statusBar[i]]
    BY <1>1, <1>2, <1>3 DEF BarTypes
<1>5. triesBar' = triesBar
    BY <1>1, <1>2, <1>3 DEF BarTypes
<1>6. pagesBar' = pagesBar
    BY DEF Schedule, pagesBar
<1>7. QED
    BY <1>2, <1>4, <1>5, <1>6 DEF WQ!Submit

(* A claim takes the rows it selected and buries those it marked. *)
LEMMA TakeRefined ==
  ASSUME IInv, TypeOK', NEW w \in Worker, CommitBatch(w)
  PROVE  \E C, D \in SUBSET Item : WQ!Take(C, D)
<1> DEFINE C == acq[w].claim
           D == acq[w].dead
<1>1. BarTypes /\ BarTypes' /\ TypeOK
    BY BarTyped, PTL DEF IInv
<1>2. C \in SUBSET Item /\ D \in SUBSET Item
    BY <1>1 DEF TypeOK, Acq
<1>3. \A i \in Item : /\ MaxAttempts[i] \in Nat /\ row[i].attempt \in Nat
                      /\ row[i].state \in RowState
                      /\ row[i].attempt = issued[i] /\ issued[i] <= MaxAttempts[i]
    BY <1>1, MapAssumption DEF IInv, AttemptBudgetKept, TypeOK, Row
<1>4. ASSUME NEW i \in C
      PROVE  /\ i \notin D
             /\ statusBar[i] = "open" /\ triesBar[i] < MaxAttempts[i]
             /\ statusBar'[i] = "open" /\ triesBar'[i] = triesBar[i] + 1
  <2>1. i \in Item
      BY <1>2
  <2>2. i \notin D
      BY <2>1 DEF IInv, RowLocksExclusive
  <2>3. /\ row[i].state \in {"pending", "leased"} /\ row[i].attempt < MaxAttempts[i]
      BY <2>1 DEF IInv, CommitsAreFenced, Claimable, Due, Expired
  <2>4. row'[i].state = "leased" /\ row'[i].attempt = row[i].attempt + 1
      BY <2>1 DEF CommitBatch, ClaimedRow, RowAt
  <2>5. QED
      BY <2>1, <2>2, <2>3, <2>4, StatusOf, StatusOfNext
<1>5. ASSUME NEW i \in D
      PROVE  /\ statusBar[i] = "open" /\ triesBar[i] = MaxAttempts[i]
             /\ statusBar'[i] = "dead" /\ triesBar'[i] = triesBar[i]
  <2>1. i \in Item
      BY <1>2
  <2>2. i \notin C
      BY <1>4
  <2>3. row[i].state = "leased" /\ row[i].attempt >= MaxAttempts[i]
      BY <2>1 DEF IInv, CommitsAreFenced, Exhausted, Expired
  <2>4. row'[i].state = "dead" /\ row'[i].attempt = row[i].attempt
      BY <2>1, <2>2 DEF CommitBatch, Released, RowAt
  <2>5. row[i].attempt = MaxAttempts[i]
      BY <1>3, <2>1, <2>3
  <2>6. QED
      BY <2>1, <2>3, <2>4, <2>5, StatusOf, StatusOfNext
<1>6. ASSUME NEW i \in Item, i \notin C, i \notin D
      PROVE  statusBar'[i] = statusBar[i] /\ triesBar'[i] = triesBar[i]
  <2>1. row'[i] = row[i]
      BY <1>6 DEF CommitBatch
  <2>2. QED
      BY <1>3, <2>1, StatusOf, StatusOfNext DEF RowState
<1>7. statusBar' = [i \in Item |-> IF i \in D THEN "dead" ELSE statusBar[i]]
    BY <1>1, <1>4, <1>5, <1>6 DEF BarTypes
<1>8. triesBar' = [i \in Item |-> IF i \in C THEN triesBar[i] + 1 ELSE triesBar[i]]
    BY <1>1, <1>4, <1>5, <1>6 DEF BarTypes
<1>9. pagesBar' = pagesBar
    BY DEF CommitBatch, pagesBar
<1>10. WQ!Take(C, D)
    BY <1>4, <1>5, <1>7, <1>8, <1>9 DEF WQ!Take
<1>11. QED
    BY <1>2, <1>10

(* A save stores the page and completes the row at once. *)
LEMMA FinishRefined ==
  ASSUME IInv, TypeOK', NEW w \in Worker, NEW i \in Item, CommitSave(w, i)
  PROVE  \E u \in FinalUrls[i] : WQ!Finish(i, u)
<1>1. BarTypes /\ BarTypes' /\ TypeOK
    BY BarTyped, PTL DEF IInv
<1>2. /\ row[i].state = "leased" /\ row'[i].state = "complete"
      /\ row'[i].attempt = row[i].attempt
      /\ \A k \in Item : k # i => row'[k] = row[k]
    BY SavedRow DEF IInv
<1>3. PICK u \in FinalUrls[i] :
        page' = [page EXCEPT ![u] = [item |-> i, token |-> task[w][i].token]]
    BY SavedRow DEF IInv
<1>4. statusBar[i] = "open" /\ statusBar'[i] = "done" /\ triesBar'[i] = triesBar[i]
    BY <1>2, StatusOf, StatusOfNext
<1>5. triesBar[i] > 0
    BY <1>2, StatusOf DEF IInv, Shape, AttemptBudgetKept
<1>6. ASSUME NEW k \in Item, k # i
      PROVE  statusBar'[k] = statusBar[k] /\ triesBar'[k] = triesBar[k]
  <2>1. row[k].state \in RowState
      BY <1>1 DEF TypeOK, Row
  <2>2. QED
      BY <1>2, <1>6, <2>1, StatusOf, StatusOfNext DEF RowState
<1>7. statusBar' = [statusBar EXCEPT ![i] = "done"] /\ triesBar' = triesBar
    BY <1>1, <1>4, <1>6 DEF BarTypes
<1>8. pagesBar' = pagesBar \cup {u}
  <2>1. u \in Url
      BY MapAssumption
  <2>2. page \in [Url -> Stored \cup {NoPage}]
      BY <1>1 DEF TypeOK
  <2>3. page'[u] # NoPage
    <3>1. page'[u].item = i
        BY <1>3, <2>1, <2>2
    <3>2. page'[u].token = task[w][i].token
        BY <1>3, <2>1, <2>2
    <3>3. task[w][i].token > 0
        BY DEF IInv, Shape, CommitSave
    <3>4. QED
        BY <3>2, <3>3 DEF NoPage, NoToken
  <2>4. \A v \in Url : v # u => page'[v] = page[v]
      BY <1>3, <2>2
  <2>5. QED
      BY <2>1, <2>3, <2>4 DEF pagesBar
<1>9. QED
    BY <1>4, <1>5, <1>7, <1>8 DEF WQ!Finish

(* A failure gives up the row, or nobody sees it. *)
LEMMA FailureRefined ==
  ASSUME IInv, TypeOK', NEW w \in Worker, NEW i \in Item, CommitFail(w, i)
  PROVE  WQ!GiveUp(i) \/ UNCHANGED <<statusBar, triesBar, pagesBar>>
<1>1. BarTypes /\ BarTypes' /\ TypeOK
    BY BarTyped, PTL DEF IInv
<1>2. /\ page' = page
      /\ row[i].state = "leased" /\ row'[i].attempt = row[i].attempt
      /\ row'[i].state = "pending" \/ (row'[i].state = "dead" /\ ~(row[i].attempt < MaxAttempts[i]))
      /\ \A k \in Item : k # i => row'[k] = row[k]
    BY FailedRow DEF IInv
<1>3. CASE row'[i].state = "pending"
    BY <1>1, <1>2, <1>3, Unseen
<1>4. CASE row'[i].state = "dead" /\ ~(row[i].attempt < MaxAttempts[i])
  <2>1. row[i].attempt = MaxAttempts[i]
    <3>1. row[i].attempt \in Nat /\ MaxAttempts[i] \in Nat
        BY <1>1, MapAssumption DEF TypeOK, Row
    <3>2. row[i].attempt <= MaxAttempts[i]
        BY DEF IInv, AttemptBudgetKept
    <3>3. QED
        BY <1>4, <3>1, <3>2
  <2>2. /\ statusBar[i] = "open" /\ statusBar'[i] = "dead"
        /\ triesBar'[i] = triesBar[i] /\ triesBar[i] = MaxAttempts[i]
      BY <1>2, <1>4, <2>1, StatusOf, StatusOfNext
  <2>3. ASSUME NEW k \in Item, k # i
        PROVE  statusBar'[k] = statusBar[k] /\ triesBar'[k] = triesBar[k]
    <3>1. row[k].state \in RowState
        BY <1>1 DEF TypeOK, Row
    <3>2. QED
        BY <1>2, <2>3, <3>1, StatusOf, StatusOfNext DEF RowState
  <2>4. statusBar' = [statusBar EXCEPT ![i] = "dead"] /\ triesBar' = triesBar
      BY <1>1, <2>2, <2>3 DEF BarTypes
  <2>5. pagesBar' = pagesBar
      BY <1>2 DEF pagesBar
  <2>6. QED
      BY <2>2, <2>4, <2>5 DEF WQ!GiveUp
<1>5. QED
    BY <1>2, <1>3, <1>4

LEMMA StepRefined == IInv /\ TypeOK' /\ [Next]_vars => [WQ!Next]_(WQ!vars)
<1> SUFFICES ASSUME IInv, TypeOK', [Next]_vars PROVE [WQ!Next]_(WQ!vars)
    OBVIOUS
<1>1. CASE UNCHANGED <<row, page, issued>>
    BY <1>1, Unseen DEF IInv, WQ!vars
<1>2. ASSUME NEW j \in Job, Schedule(j) PROVE WQ!Next
    BY <1>2, SubmitRefined DEF WQ!Next
<1>3. ASSUME NEW w \in Worker, CommitBatch(w) PROVE WQ!Next
    BY <1>3, TakeRefined DEF WQ!Next
<1>4. ASSUME NEW w \in Worker, NEW i \in Item, CommitSave(w, i) PROVE WQ!Next
    BY <1>4, FinishRefined DEF WQ!Next
<1>5. ASSUME NEW w \in Worker, NEW i \in Item, CommitFail(w, i) PROVE [WQ!Next]_(WQ!vars)
    BY <1>5, FailureRefined DEF WQ!Next, WQ!vars
<1>6. ASSUME NEW w \in Worker, NEW i \in Item, CommitRenew(w, i) PROVE UNCHANGED WQ!vars
  <2>1. page' = page /\ \A k \in Item : row'[k].state = row[k].state /\ row'[k].attempt = row[k].attempt
      BY <1>6 DEF CommitRenew, IInv, TypeOK, Row
  <2>2. QED
      BY <2>1, Unseen DEF IInv, WQ!vars
<1>7. QED
    BY <1>1, <1>2, <1>3, <1>4, <1>5, <1>6, RowWriters

(* What the API promises for a submitted URL holds of the rows, the leases   *)
(* and the workers: it is tried at most max_attempts times and ends once, in *)
(* the step that stores its page or when its attempts are used up.           *)
THEOREM FrontierImplementsWorkQueue == Spec => ImplementsWorkQueue
<1>1. Init => WQ!Init
    BY InitRefined
<1>2. IInv /\ TypeOK' /\ [Next]_vars => [WQ!Next]_(WQ!vars)
    BY StepRefined
<1>3. QED
    BY <1>1, <1>2, InvariantHolds, TypeCorrect, PTL DEF Spec, ImplementsWorkQueue, WQ!Spec

-----------------------------------------------------------------------------
(* What a client that polls its job sees *)

LEMMA RowsFinite ==
  ASSUME NEW j \in Job, NEW S
  PROVE  IsFiniteSet(Rows(j, S)) /\ IsFiniteSet(Rows(j, S)')
<1>1. Rows(j, S) \in SUBSET Item /\ Rows(j, S)' \in SUBSET Item
    BY DEF Rows
<1>2. QED
    BY <1>1, ItemAssumption, FS_Subset

(* The rows of a job are inserted together: none is added later. *)
LEMMA AbsentStays ==
  ASSUME IInv, [Next]_vars, NEW i \in Item, NEW k \in Item, JobOf[i] = JobOf[k],
         row[k].state # "absent", row[i].state = "absent"
  PROVE  row'[i] = row[i]
<1> USE DEF IInv
<1>1. CASE UNCHANGED <<row, page, issued>>
    BY <1>1
<1>2. ASSUME NEW j \in Job, Schedule(j) PROVE row'[i] = row[i]
    BY <1>2 DEF Schedule
<1>3. ASSUME NEW w \in Worker, CommitBatch(w) PROVE row'[i] = row[i]
    BY <1>3, BatchRow DEF Claimable, Exhausted, Due, Expired
<1>4. ASSUME NEW w \in Worker, NEW m \in Item,
             CommitSave(w, m) \/ CommitFail(w, m) \/ CommitRenew(w, m)
      PROVE  row'[i] = row[i]
  <2>1. row[m].state = "leased"
      BY <1>4 DEF CommitSave, CommitFail, CommitRenew, CommitsAreFenced, TaskLocks, RenewalLocks
  <2>2. m # i
      BY <2>1
  <2>3. QED
      BY <1>4, <2>2, SavedRow, FailedRow, RenewedFields
<1>5. QED
    BY <1>1, <1>2, <1>3, <1>4, RowWriters

(* With no row of the job left to change, what is derived from them stays. *)
LEMMA StatusStays ==
  ASSUME IInv, [Next]_vars, NEW j \in Job,
         \A i \in Item : row[i].state \in {"complete", "dead"} => row'[i] = row[i],
         JobStatus(j) \in {"completed", "completed_with_errors"}
  PROVE  JobStatus(j)' = JobStatus(j)
<1>1. /\ Rows(j, RowState \ {"absent"}) # {}
      /\ Rows(j, RowState \ {"absent"}) = Rows(j, {"complete", "dead"})
    BY DEF JobStatus
<1>2. PICK k \in Item : JobOf[k] = j /\ row[k].state \in {"complete", "dead"}
    BY <1>1 DEF Rows
<1>3. ASSUME NEW i \in Item, JobOf[i] = j PROVE row'[i] = row[i]
  <2>1. row[i].state \in RowState
      BY DEF IInv, TypeOK, Row
  <2>2. CASE row[i].state = "absent"
      BY <1>2, <1>3, <2>2, AbsentStays
  <2>3. CASE row[i].state # "absent"
      BY <1>1, <1>3, <2>1, <2>3 DEF Rows
  <2>4. QED
      BY <2>2, <2>3
<1>4. \A S : Rows(j, S)' = Rows(j, S)
    BY <1>3 DEF Rows
<1>5. QED
    BY <1>4 DEF JobStatus

LEMMA ProgressStep ==
  ASSUME IInv, [Next]_vars, NEW j \in Job,
         \A i \in Item : row[i].state \in {"complete", "dead"} => row'[i] = row[i]
  PROVE  /\ Processed(j)' >= Processed(j)
         /\ JobStatus(j) \in {"completed", "completed_with_errors"}
              => JobStatus(j)' = JobStatus(j)
<1>1. Processed(j)' >= Processed(j)
  <2> DEFINE Old == Rows(j, {"complete", "dead"})
             New == Rows(j, {"complete", "dead"})'
  <2>1. Old \subseteq New
      BY DEF Rows
  <2>2. IsFiniteSet(New) /\ IsFiniteSet(Old)
      BY RowsFinite
  <2>3. /\ Cardinality(Old) <= Cardinality(New)
        /\ Cardinality(Old) \in Nat /\ Cardinality(New) \in Nat
      BY <2>1, <2>2, FS_Subset, FS_CardinalityType
  <2>4. Processed(j) = Cardinality(Old) /\ Processed(j)' = Cardinality(New)
      BY DEF Processed
  <2>5. QED
      BY <2>3, <2>4
<1>2. QED
    BY <1>1, StatusStays

(* The processed count of a job never falls, and a job that GET /jobs/{id}    *)
(* once reported as completed is reported so ever after.                     *)
THEOREM ProgressIsMonotone == Spec => JobProgressMonotone
<1> DEFINE Keeps(j) ==
      /\ Processed(j)' >= Processed(j)
      /\ JobStatus(j) \in {"completed", "completed_with_errors"}
           => JobStatus(j)' = JobStatus(j)
<1>1. IInv /\ [Next]_vars
      /\ [\A i \in Item : row[i].state \in {"complete", "dead"} => row'[i] = row[i]]_vars
      => [\A j \in Job : Keeps(j)]_vars
    BY ProgressStep
<1>2. QED
    BY <1>1, InvariantHolds, SettledIsFinal, PTL DEF Spec, SettledForever, JobProgressMonotone
=============================================================================
