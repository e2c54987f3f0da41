--------------------------- MODULE FrontierProofs ---------------------------
(***************************************************************************)
(* Theorems about Frontier, for any rows, workers, clocks and bounds.       *)
(* The argument: what an open transaction has locked is what it found       *)
(* (CommitsAreFenced) because no other transaction can have the same lock   *)
(* (RowLocksExclusive); so a row changes only under the token it was given  *)
(* last, tokens are never given twice, and the rest follows.                *)
(***************************************************************************)
EXTENDS Frontier, FiniteSetTheorems, TLAPS

-----------------------------------------------------------------------------
(* The inductive invariant *)

(* A leased row has the last token that was issued; a worker's main loop is  *)
(* in a claim only while it processes nothing.                               *)
Shape ==
  /\ \A i \in Item :
       /\ row[i].state = "leased" => row[i].token = issued[i] /\ issued[i] > 0
       /\ row[i].state = "absent" => row[i].attempt = 0
  /\ \A w \in Worker :
       /\ acq[w].pc \notin {"marking", "claimed"} =>
            acq[w].todo = {} /\ acq[w].dead = {} /\ acq[w].claim = {}
       /\ acq[w].pc = "marking" => acq[w].claim = {}
       /\ acq[w].pc \in {"down", "idle", "marking", "claimed"} =>
            \A i \in Item : task[w][i].pc = "none"
  /\ \A w \in Worker, i \in Item :
       /\ task[w][i].pc # "none" => task[w][i].token > 0
       /\ renewal[w][i].pc # "idle" => task[w][i].pc # "none"

(* A lease is processed only under a token that was issued for its row, and  *)
(* no two coroutines have the same one.                                      *)
TokensIssued ==
  \A i \in Item :
    /\ \A w \in Worker : task[w][i].token <= issued[i]
    /\ row[i].token <= issued[i]
    /\ \A v, w \in Worker : v # w /\ task[v][i].pc # "none" /\ task[w][i].pc # "none"
                             => task[v][i].token # task[w][i].token

(* A clock that was read is not ahead of its worker's clock, and a lease     *)
(* lasts at most LeaseSeconds from when its holder last read the clock.      *)
ClocksRead ==
  /\ \A w \in Worker : acq[w].pc \in {"marking", "claimed"} => acq[w].now <= Now(w)
  /\ \A w \in Worker, i \in Item :
       /\ task[w][i].pc # "none" /\ row[i].token = task[w][i].token =>
            /\ row[i].expires <= Now(w) + LeaseSeconds
            /\ renewal[w][i].pc \in {"renewing", "renewed"} =>
                 row[i].expires <= renewal[w][i].now + LeaseSeconds
       /\ renewal[w][i].pc \in {"renewing", "renewed"} => renewal[w][i].now <= Now(w)

IInv ==
  /\ TypeOK
  /\ Shape
  /\ ClocksRead
  /\ RowLocksExclusive
  /\ CommitsAreFenced
  /\ TokensIssued
  /\ PagesMatchCompletions
  /\ AttemptBudgetKept


-----------------------------------------------------------------------------
(* Typing *)

LEMMA LoopType ==
  ASSUME NEW pc \in MainPc, NEW now \in Int,
         NEW T \in SUBSET Item, NEW D \in SUBSET Item, NEW C \in SUBSET Item
  PROVE  Loop(pc, now, T, D, C) \in Acq
BY DEF Loop, Acq

LEMMA LoopAtType == ASSUME NEW pc \in MainPc PROVE LoopAt(pc) \in Acq
BY DEF LoopAt, Loop, Acq

LEMMA TaskType ==
  /\ NoTask \in Task
  /\ \A pc \in TaskPc, token \in Nat, now \in Int : TaskAt(pc, token, now) \in Task
BY DEF NoTask, TaskAt, Task, TaskPc, NoToken

LEMMA RenewalType ==
  /\ NoRenewal \in Renewal
  /\ \A pc \in RenewalPc, now \in Int : RenewalAt(pc, now) \in Renewal
BY DEF NoRenewal, RenewalAt, Renewal, RenewalPc

LEMMA RowType ==
  ASSUME NEW s \in RowState, NEW n \in Nat, NEW c \in Int, NEW a \in Int,
         NEW o \in Owner \cup {Null}, NEW t \in Nat, NEW e \in Int \cup {Null}
  PROVE  RowAt(s, n, c, a, o, t, e) \in Row
BY DEF RowAt, Row

LEMMA PendingType ==
  ASSUME NEW c \in Nat
  PROVE  RowAt("pending", 0, c, c, Null, NoToken, Null) \in Row
BY DEF RowAt, Row, RowState, NoToken

LEMMA ReleasedType ==
  ASSUME NEW r \in Row, NEW s \in RowState, NEW a \in Int
  PROVE  Released(r, s, a) \in Row
BY DEF Released, RowAt, Row, NoToken

LEMMA ClaimedType ==
  ASSUME TypeOK, NEW w \in Worker, NEW i \in Item
  PROVE  ClaimedRow(w, i) \in Row
<1>1. OwnerOf[w] \in Owner
    BY DEF Owner
<1>2. row[i] \in Row /\ issued[i] \in Nat /\ acq[w].now \in Int
    BY DEF TypeOK, Acq
<1>3. /\ row[i].attempt + 1 \in Nat /\ issued[i] + 1 \in Nat
      /\ row[i].created \in Int /\ row[i].available \in Int
      /\ acq[w].now + LeaseSeconds \in Int
    BY <1>2, NumberAssumption DEF Row
<1>4. "leased" \in RowState
    BY DEF RowState
<1>5. QED
    BY <1>1, <1>3, <1>4, RowType DEF ClaimedRow

(* The columns that a row has exactly while it is leased. *)
LeaseColumns(r) ==
  /\ r.state = "leased" <=> r.token # NoToken
  /\ r.state = "leased" <=> r.owner # Null
  /\ r.state = "leased" <=> r.expires # Null

LEMMA ColumnsOf == ASSUME TypeOK PROVE \A i \in Item : LeaseColumns(row[i])
BY DEF TypeOK, LeaseColumns

LEMMA ReleasedColumns ==
  ASSUME NEW r, NEW s, s # "leased", NEW a
  PROVE  LeaseColumns(Released(r, s, a))
BY DEF LeaseColumns, Released, RowAt

LEMMA ClaimedColumns ==
  ASSUME TypeOK, NEW w \in Worker, NEW i \in Item
  PROVE  LeaseColumns(ClaimedRow(w, i))
<1>1. issued[i] \in Nat /\ acq[w].now \in Int
    BY DEF TypeOK, Acq
<1>2. issued[i] + 1 # NoToken
    BY <1>1 DEF NoToken
<1>3. OwnerOf[w] # Null
    BY NullAssumption
<1>4. acq[w].now + LeaseSeconds # Null
    BY <1>1, NumberAssumption, NullAssumption
<1>5. QED
    BY <1>2, <1>3, <1>4 DEF LeaseColumns, ClaimedRow, RowAt

LEMMA NowType == ASSUME TypeOK, NEW w \in Worker PROVE Now(w) \in Int
BY MapAssumption DEF TypeOK, Now

LEMMA SubsetTypes ==
  /\ \A t : ExhaustedRows(t) \in SUBSET Item
  /\ \A n, S : First(n, S) \subseteq S
  /\ \A w : Eligible(w) \in SUBSET Item
BY DEF ExhaustedRows, First, Eligible

LEMMA TypeInit == Init => TypeOK
<1> SUFFICES ASSUME Init PROVE TypeOK
    OBVIOUS
<1>1. RowAt("absent", 0, 0, 0, Null, NoToken, Null) \in Row
    BY DEF RowAt, Row, RowState, NoToken
<1>2. LoopAt("idle") \in Acq
    BY LoopAtType DEF MainPc
<1>3. LeaseColumns(RowAt("absent", 0, 0, 0, Null, NoToken, Null))
    BY DEF LeaseColumns, RowAt
<1>4. \A i \in Item : LeaseColumns(row[i])
    BY <1>3 DEF Init
<1>5. QED
    BY <1>1, <1>2, <1>4, TaskType, RenewalType DEF Init, TypeOK, LeaseColumns

(* Every variable keeps its type: what the code writes into a row, and what  *)
(* a coroutine waits with, is always of the kind the columns hold.           *)
LEMMA TypeStep == TypeOK /\ CommitsAreFenced /\ [Next]_vars => TypeOK'
<1> SUFFICES ASSUME TypeOK, CommitsAreFenced, [Next]_vars PROVE TypeOK'
    OBVIOUS
<1>0. \A i \in Item : LeaseColumns(row[i])
    BY ColumnsOf
<1> USE NowType, LoopType, LoopAtType, TaskType, RenewalType, ReleasedType, ClaimedType, SubsetTypes
<1>1. CASE UNCHANGED vars
    BY <1>1 DEF vars, TypeOK
<1>2. CASE Tick
    BY <1>2 DEF Tick, TypeOK
<1>3. ASSUME NEW j \in Job, Schedule(j) PROVE TypeOK'
  <2>1. RowAt("pending", 0, clock, clock, Null, NoToken, Null) \in Row
      BY PendingType DEF TypeOK
  <2>2. row' \in [Item -> Row]
      BY <1>3, <2>1 DEF Schedule, TypeOK
  <2>3. LeaseColumns(RowAt("pending", 0, clock, clock, Null, NoToken, Null))
      BY DEF LeaseColumns, RowAt
  <2>4. \A i \in Item : LeaseColumns(row'[i])
      BY <1>0, <1>3, <2>3 DEF Schedule
  <2>5. QED
      BY <1>3, <2>2, <2>4 DEF Schedule, TypeOK, LeaseColumns
<1>4. ASSUME NEW w \in Worker, ClaimStep(w) PROVE TypeOK'
  <2>1. acq[w].now \in Int /\ {acq[w].todo, acq[w].dead, acq[w].claim} \subseteq SUBSET Item
      BY DEF TypeOK, Acq
  <2>2. CASE AcquireBegin(w)
      BY <2>2 DEF AcquireBegin, TypeOK, MainPc
  <2>3. CASE SelectBatch(w)
    <3>1. First(BatchSize, Eligible(w)) \in SUBSET Item
        OBVIOUS
    <3>2. QED
        BY <2>1, <2>3, <3>1 DEF SelectBatch, TypeOK, MainPc
  <2>4. CASE CommitBatch(w)
    <3>1. row' \in [Item -> Row]
        BY <2>1, <2>4 DEF CommitBatch, TypeOK, RowState
    <3>2. issued' \in [Item -> Nat]
        BY <2>4 DEF CommitBatch, TypeOK
    <3>3. task' \in [Worker -> [Item -> Task]]
        BY <2>4 DEF CommitBatch, TypeOK, TaskPc
    <3>4. acq' \in [Worker -> Acq]
        BY <2>4 DEF CommitBatch, TypeOK, MainPc
    <3>5. \A i \in Item : LeaseColumns(row'[i])
        BY <1>0, <2>4, ReleasedColumns, ClaimedColumns DEF CommitBatch
    <3>6. QED
        BY <2>4, <3>1, <3>2, <3>3, <3>4, <3>5 DEF CommitBatch, TypeOK, LeaseColumns
  <2>5. CASE BatchDone(w)
      BY <2>5 DEF BatchDone, TypeOK, MainPc
  <2>6. CASE DeadlockVictim(w)
      BY <2>6 DEF DeadlockVictim, TypeOK, MainPc
  <2>7. CASE AcquireError(w)
      BY <2>7 DEF AcquireError, TypeOK, MainPc
  <2>8. ASSUME NEW i \in Item, MarkRow(w, i) PROVE TypeOK'
    <3>1. acq[w].todo \ {i} \in SUBSET Item /\ acq[w].dead \cup {i} \in SUBSET Item
        BY <2>1
    <3>2. acq' \in [Worker -> Acq]
        BY <2>1, <2>8, <3>1 DEF MarkRow, TypeOK, MainPc
    <3>3. QED
        BY <2>8, <3>2 DEF MarkRow, TypeOK
  <2>9. QED
      BY <1>4, <2>2, <2>3, <2>4, <2>5, <2>6, <2>7, <2>8 DEF ClaimStep
<1>5. ASSUME NEW w \in Worker, NEW i \in Item, TaskStep(w, i) PROVE TypeOK'
  <2>1. /\ row[i] \in Row /\ row[i].available \in Int
        /\ task[w][i] \in Task /\ task[w][i].token \in Nat
    <3>1. row[i] \in Row /\ task[w][i] \in Task
        BY DEF TypeOK
    <3>2. QED
        BY <3>1 DEF Row, Task
  <2>2. CASE BeginFinish(w, i)
      BY <2>1, <2>2 DEF BeginFinish, TypeOK, TaskPc
  <2>3. CASE LockLease(w, i)
      BY <2>1, <2>3 DEF LockLease, TypeOK, TaskPc
  <2>4. ASSUME EndTask(w, i)
        PROVE  /\ acq' \in [Worker -> Acq]
               /\ task' \in [Worker -> [Item -> Task]]
               /\ renewal' \in [Worker -> [Item -> Renewal]]
      BY <2>4 DEF EndTask, TypeOK, MainPc
  <2>5. CASE RejectStale(w, i)
      BY <2>4, <2>5 DEF RejectStale, TypeOK
  <2>6. CASE CommitSave(w, i)
    <3>1. page' \in [Url -> Stored \cup {NoPage}]
      <4>1. [item |-> i, token |-> task[w][i].token] \in Stored
          BY <2>1 DEF Stored
      <4>2. QED
          BY <2>6, <4>1 DEF CommitSave, TypeOK
    <3>2. row' \in [Item -> Row]
        BY <2>1, <2>6 DEF CommitSave, TypeOK, RowState
    <3>3. \A k \in Item : LeaseColumns(row'[k])
        BY <1>0, <2>6, ReleasedColumns DEF CommitSave, TypeOK
    <3>4. QED
        BY <2>4, <2>6, <3>1, <3>2, <3>3 DEF CommitSave, TypeOK, LeaseColumns
  <2>7. CASE CommitFail(w, i)
    <3>1. row' \in [Item -> Row] /\ \A k \in Item : LeaseColumns(row'[k])
      <4>1. PICK d \in RetryDelays :
              row' = [row EXCEPT ![i] = IF @.attempt < MaxAttempts[i]
                                        THEN Released(@, "pending", Now(w) + d)
                                        ELSE Released(@, "dead", Now(w))]
          BY <2>7 DEF CommitFail
      <4>2. Now(w) + d \in Int /\ Now(w) \in Int /\ {"pending", "dead"} \subseteq RowState
          BY NumberAssumption DEF RowState
      <4>3. row' \in [Item -> Row]
          BY <2>1, <4>1, <4>2 DEF TypeOK
      <4>4. \A k \in Item : LeaseColumns(row'[k])
          BY <1>0, <4>1, ReleasedColumns DEF TypeOK
      <4>5. QED
          BY <4>3, <4>4
    <3>2. QED
        BY <2>4, <2>7, <3>1 DEF CommitFail, TypeOK, LeaseColumns
  <2>8. CASE FinishError(w, i)
      BY <2>8 DEF FinishError, TypeOK, MainPc
  <2>9. QED
      BY <1>5, <2>2, <2>3, <2>5, <2>6, <2>7, <2>8 DEF TaskStep
<1>6. ASSUME NEW w \in Worker, NEW i \in Item, RenewalStep(w, i) PROVE TypeOK'
  <2>1. renewal[w][i].now \in Int /\ row[i] \in Row
      BY DEF TypeOK, Renewal
  <2>2. CASE BeginRenew(w, i)
      BY <2>2 DEF BeginRenew, TypeOK, RenewalPc
  <2>3. CASE LockRenew(w, i)
      BY <2>1, <2>3 DEF LockRenew, TypeOK, RenewalPc
  <2>4. CASE RenewStale(w, i)
      BY <2>4 DEF RenewStale, TypeOK, RenewalPc
  <2>5. CASE CommitRenew(w, i)
    <3>1. [row[i] EXCEPT !.expires = renewal[w][i].now + LeaseSeconds] \in Row
        BY <2>1, NumberAssumption DEF Row
    <3>2. row' \in [Item -> Row]
        BY <2>5, <3>1 DEF CommitRenew, TypeOK
    <3>3. row[i].state = "leased"
        BY <2>5 DEF CommitRenew, CommitsAreFenced, RenewalLocks
    <3>4. renewal[w][i].now + LeaseSeconds # Null
        BY <2>1, NumberAssumption, NullAssumption
    <3>5. \A k \in Item : LeaseColumns(row'[k])
        BY <1>0, <2>1, <2>5, <3>3, <3>4 DEF CommitRenew, TypeOK, Row, LeaseColumns
    <3>6. QED
        BY <2>5, <3>2, <3>5 DEF CommitRenew, TypeOK, LeaseColumns
  <2>6. CASE RenewError(w, i)
      BY <2>6 DEF RenewError, TypeOK, RenewalPc
  <2>7. QED
      BY <1>6, <2>2, <2>3, <2>4, <2>5, <2>6 DEF RenewalStep
<1>7. ASSUME NEW w \in Worker, Exit(w) \/ Crash(w) \/ Restart(w) PROVE TypeOK'
  <2>1. /\ [i \in Item |-> NoTask] \in [Item -> Task]
        /\ [i \in Item |-> NoRenewal] \in [Item -> Renewal]
        /\ LoopAt("down") \in Acq /\ LoopAt("idle") \in Acq
      BY DEF MainPc
  <2>2. CASE Exit(w) \/ Crash(w)
    <3>1. faults' \in Nat /\ Gone(w)
        BY <2>2 DEF Exit, Crash, TypeOK
    <3>2. acq' \in [Worker -> Acq] /\ task' \in [Worker -> [Item -> Task]]
        BY <2>1, <3>1 DEF Gone, TypeOK
    <3>3. renewal' \in [Worker -> [Item -> Renewal]]
        BY <2>1, <3>1 DEF Gone, TypeOK
    <3>4. QED
        BY <3>1, <3>2, <3>3 DEF Gone, TypeOK
  <2>3. CASE Restart(w)
      BY <2>1, <2>3 DEF Restart, TypeOK
  <2>4. QED
      BY <1>7, <2>2, <2>3
<1>8. QED
    BY <1>1, <1>2, <1>3, <1>4, <1>5, <1>6, <1>7 DEF Next, Work, WorkerStep

-----------------------------------------------------------------------------
(* The locks and what they protect *)

(* A renewal changes nothing of the row but the expiry of the lease. *)
LEMMA RenewedFields ==
  ASSUME TypeOK, NEW w \in Worker, NEW i \in Item, CommitRenew(w, i)
  PROVE  \A j \in Item :
           /\ row'[j].state = row[j].state
           /\ row'[j].attempt = row[j].attempt
           /\ row'[j].available = row[j].available
           /\ row'[j].owner = row[j].owner
           /\ row'[j].token = row[j].token
           /\ j # i => row'[j] = row[j]
           /\ j = i => row'[j].expires = renewal[w][i].now + LeaseSeconds
BY DEF CommitRenew, TypeOK, Row

(* A process that is gone leaves no lock and no coroutine. *)
LEMMA GoneFields ==
  ASSUME TypeOK, NEW w \in Worker, Gone(w)
  PROVE  /\ acq'[w].pc = "down" /\ acq'[w].todo = {} /\ acq'[w].dead = {} /\ acq'[w].claim = {}
         /\ \A i \in Item : /\ task'[w][i].pc = "none" /\ task'[w][i].token = 0
                           /\ renewal'[w][i].pc = "idle"
         /\ \A v \in Worker : v # w => acq'[v] = acq[v]
         /\ \A v \in Worker, i \in Item : v # w => /\ task'[v][i] = task[v][i]
                                                /\ renewal'[v][i] = renewal[v][i]
BY DEF Gone, TypeOK, LoopAt, Loop, NoTask, TaskAt, NoRenewal, RenewalAt, NoToken

LEMMA GoneShape ==
  ASSUME TypeOK, Shape, NEW w \in Worker, Gone(w)
  PROVE  Shape'
<1>1. \A i \in Item : /\ row'[i] = row[i] /\ issued'[i] = issued[i]
                      /\ task'[w][i].pc = "none" /\ renewal'[w][i].pc = "idle"
  <2>1. row' = row /\ issued' = issued
      BY DEF Gone
  <2>2. QED
      BY <2>1, GoneFields
<1>2. acq'[w].pc = "down" /\ acq'[w].todo = {} /\ acq'[w].dead = {} /\ acq'[w].claim = {}
    BY GoneFields
<1>3. ASSUME NEW v \in Worker, v # w
      PROVE  /\ acq'[v] = acq[v]
             /\ \A i \in Item : task'[v][i] = task[v][i] /\ renewal'[v][i] = renewal[v][i]
    BY <1>3, GoneFields
<1>4. ASSUME NEW v \in Worker
      PROVE  /\ acq'[v].pc \notin {"marking", "claimed"} =>
                  acq'[v].todo = {} /\ acq'[v].dead = {} /\ acq'[v].claim = {}
             /\ acq'[v].pc = "marking" => acq'[v].claim = {}
             /\ acq'[v].pc \in {"down", "idle", "marking", "claimed"} =>
                  \A i \in Item : task'[v][i].pc = "none"
  <2>1. CASE v = w
      BY <1>1, <1>2, <2>1
  <2>2. CASE v # w
      BY <1>3, <2>2 DEF Shape
  <2>3. QED
      BY <2>1, <2>2
<1>5. (\A i \in Item :
         /\ row[i].state = "leased" => row[i].token = issued[i] /\ issued[i] > 0
         /\ row[i].state = "absent" => row[i].attempt = 0)'
    BY <1>1 DEF Shape
<1>6. (\A v \in Worker :
         /\ acq[v].pc \notin {"marking", "claimed"} =>
              acq[v].todo = {} /\ acq[v].dead = {} /\ acq[v].claim = {}
         /\ acq[v].pc = "marking" => acq[v].claim = {}
         /\ acq[v].pc \in {"down", "idle", "marking", "claimed"} =>
              \A i \in Item : task[v][i].pc = "none")'
    BY <1>4
<1>7. (\A v \in Worker, i \in Item :
         /\ task[v][i].pc # "none" => task[v][i].token > 0
         /\ renewal[v][i].pc # "idle" => task[v][i].pc # "none")'
  <2> SUFFICES ASSUME NEW v \in Worker, NEW i \in Item
               PROVE  /\ task'[v][i].pc # "none" => task'[v][i].token > 0
                      /\ renewal'[v][i].pc # "idle" => task'[v][i].pc # "none"
      OBVIOUS
  <2>1. CASE v = w
      BY <1>1, <2>1
  <2>2. CASE v # w
    <3>1. task'[v][i] = task[v][i] /\ renewal'[v][i] = renewal[v][i]
        BY <1>3, <2>2
    <3>2. QED
        BY <3>1 DEF Shape
  <2>3. QED
      BY <2>1, <2>2
<1>8. QED
    BY <1>5, <1>6, <1>7 DEF Shape

LEMMA GoneLocks ==
  ASSUME TypeOK, RowLocksExclusive, NEW w \in Worker, Gone(w)
  PROVE  RowLocksExclusive'
<1>1. \A v \in Worker, i \in Item :
        /\ AcqLocks(v, i)' => AcqLocks(v, i)
        /\ TaskLocks(v, i)' => TaskLocks(v, i)
        /\ RenewalLocks(v, i)' => RenewalLocks(v, i)
        /\ i \in acq'[v].dead \cap acq'[v].claim => i \in acq[v].dead \cap acq[v].claim
  <2> SUFFICES ASSUME NEW v \in Worker, NEW i \in Item
               PROVE  /\ AcqLocks(v, i)' => AcqLocks(v, i)
                      /\ TaskLocks(v, i)' => TaskLocks(v, i)
                      /\ RenewalLocks(v, i)' => RenewalLocks(v, i)
                      /\ i \in acq'[v].dead \cap acq'[v].claim => i \in acq[v].dead \cap acq[v].claim
      OBVIOUS
  <2>1. CASE v = w
      BY <2>1, GoneFields DEF AcqLocks, TaskLocks, RenewalLocks
  <2>2. CASE v # w
      BY <2>2, GoneFields DEF AcqLocks, TaskLocks, RenewalLocks
  <2>3. QED
      BY <2>1, <2>2
<1>2. QED
    BY <1>1 DEF RowLocksExclusive

LEMMA GoneFenced ==
  ASSUME TypeOK, CommitsAreFenced, NEW w \in Worker, Gone(w)
  PROVE  CommitsAreFenced'
<1> USE DEF CommitsAreFenced, TaskLocks, RenewalLocks, Claimable, Exhausted, Due, Expired, Before
<1>1. row' = row
    BY DEF Gone
<1> SUFFICES ASSUME NEW v \in Worker, NEW i \in Item
             PROVE  /\ TaskLocks(v, i)' \/ RenewalLocks(v, i)' =>
                         /\ row'[i].state = "leased"
                         /\ row'[i].owner = OwnerOf[v]
                         /\ row'[i].token = task'[v][i].token
                    /\ i \in acq'[v].claim => Claimable(i, acq[v].now)'
                    /\ i \in acq'[v].dead => Exhausted(i, acq[v].now)'
    OBVIOUS
<1>2. CASE v = w
    BY <1>2, GoneFields
<1>3. CASE v # w
    BY <1>1, <1>3, GoneFields
<1>4. QED
    BY <1>2, <1>3

LEMMA GoneTokens ==
  ASSUME TypeOK, TokensIssued, NEW w \in Worker, Gone(w)
  PROVE  TokensIssued'
<1>1. issued' = issued /\ row' = row /\ \A i \in Item : issued[i] \in Nat
    BY DEF Gone, TypeOK
<1> SUFFICES ASSUME NEW i \in Item, NEW v \in Worker, NEW u \in Worker
             PROVE  /\ task'[u][i].token <= issued[i]
                    /\ row[i].token <= issued[i]
                    /\ v # u /\ task'[v][i].pc # "none" /\ task'[u][i].pc # "none"
                         => task'[v][i].token # task'[u][i].token
    BY <1>1 DEF TokensIssued
<1>2. CASE u = w
    BY <1>1, <1>2, GoneFields DEF TokensIssued
<1>3. CASE u # w /\ v = w
    BY <1>1, <1>3, GoneFields DEF TokensIssued
<1>4. CASE u # w /\ v # w
    BY <1>1, <1>4, GoneFields DEF TokensIssued
<1>5. QED
    BY <1>2, <1>3, <1>4

(* A row keeps its token exactly while it is leased, and a main loop claims   *)
(* only while it processes nothing.                                          *)
LEMMA ShapeStep == IInv /\ [Next]_vars => Shape'
<1> SUFFICES ASSUME IInv, [Next]_vars PROVE Shape'
    OBVIOUS
<1> USE DEF IInv, TypeOK, Acq, Task, Renewal, Shape
<1>1. CASE UNCHANGED vars
    BY <1>1 DEF vars
<1>2. CASE Tick
    BY <1>2 DEF Tick
<1>3. ASSUME NEW j \in Job, Schedule(j) PROVE Shape'
    BY <1>3 DEF Schedule, RowAt, NoToken
<1>4. ASSUME NEW w \in Worker, ClaimStep(w) PROVE Shape'
  <2>1. CASE AcquireBegin(w)
      BY <2>1 DEF AcquireBegin, Loop
  <2>2. CASE SelectBatch(w)
      BY <2>2, SubsetTypes DEF SelectBatch, Eligible, Loop
  <2>3. CASE CommitBatch(w)
      BY <2>3 DEF CommitBatch, ClaimedRow, Released, RowAt, LoopAt, Loop, TaskAt, NoToken
  <2>4. CASE BatchDone(w)
      BY <2>4 DEF BatchDone, NoTask, TaskAt, LoopAt, Loop
  <2>5. CASE DeadlockVictim(w)
      BY <2>5 DEF DeadlockVictim, LoopAt, Loop
  <2>6. CASE AcquireError(w)
      BY <2>6 DEF AcquireError, LoopAt, Loop
  <2>7. ASSUME NEW i \in Item, MarkRow(w, i) PROVE Shape'
      BY <2>7 DEF MarkRow, Loop
  <2>8. QED
      BY <1>4, <2>1, <2>2, <2>3, <2>4, <2>5, <2>6, <2>7 DEF ClaimStep
<1>5. ASSUME NEW w \in Worker, NEW i \in Item, TaskStep(w, i) PROVE Shape'
  <2>1. CASE BeginFinish(w, i)
      BY <2>1 DEF BeginFinish, TaskAt
  <2>2. CASE LockLease(w, i)
      BY <2>2 DEF LockLease, TaskAt
  <2>3. CASE RejectStale(w, i)
      BY <2>3 DEF RejectStale, EndTask, LoopAt, Loop, NoTask, TaskAt, NoRenewal, RenewalAt, NoToken
  <2>4. CASE CommitSave(w, i)
      BY <2>4 DEF CommitSave, Released, RowAt, EndTask, LoopAt, Loop, NoTask, TaskAt, NoRenewal, RenewalAt, NoToken
  <2>5. CASE CommitFail(w, i)
      BY <2>5 DEF CommitFail, Released, RowAt, EndTask, LoopAt, Loop, NoTask, TaskAt, NoRenewal, RenewalAt, NoToken
  <2>6. CASE FinishError(w, i)
      BY <2>6 DEF FinishError, LoopAt, Loop, NoTask, TaskAt, NoRenewal, RenewalAt, NoToken
  <2>7. QED
      BY <1>5, <2>1, <2>2, <2>3, <2>4, <2>5, <2>6 DEF TaskStep
<1>6. ASSUME NEW w \in Worker, NEW i \in Item, RenewalStep(w, i) PROVE Shape'
  <2>1. CASE BeginRenew(w, i)
      BY <2>1 DEF BeginRenew, RenewalAt
  <2>2. CASE LockRenew(w, i)
      BY <2>2 DEF LockRenew, RenewalAt
  <2>3. CASE RenewStale(w, i)
      BY <2>3 DEF RenewStale, RenewalAt
  <2>4. CASE CommitRenew(w, i)
      BY <2>4, RenewedFields DEF CommitRenew, NoRenewal, RenewalAt, CommitsAreFenced, RenewalLocks
  <2>5. CASE RenewError(w, i)
      BY <2>5 DEF RenewError, RenewalAt
  <2>6. QED
      BY <1>6, <2>1, <2>2, <2>3, <2>4, <2>5 DEF RenewalStep
<1>7. ASSUME NEW w \in Worker, Exit(w) \/ Crash(w) PROVE Shape'
  <2>1. Gone(w)
      BY <1>7 DEF Exit, Crash
  <2>2. QED
      BY <2>1, GoneShape
<1>8. ASSUME NEW w \in Worker, Restart(w) PROVE Shape'
    BY <1>8 DEF Restart, LoopAt, Loop
<1>9. QED
    BY <1>1, <1>2, <1>3, <1>4, <1>5, <1>6, <1>7, <1>8 DEF Next, Work, WorkerStep

(* The locks exclude each other: each is taken only when the row is free.    *)
LEMMA LocksStep == IInv /\ [Next]_vars => RowLocksExclusive'
<1> SUFFICES ASSUME IInv, [Next]_vars PROVE RowLocksExclusive'
    OBVIOUS
<1> USE DEF IInv, TypeOK, Acq, Task, Renewal, Shape, RowLocksExclusive, AcqLocks, TaskLocks, RenewalLocks, Free
<1>1. CASE UNCHANGED vars
    BY <1>1 DEF vars
<1>2. CASE Tick
    BY <1>2 DEF Tick
<1>3. ASSUME NEW j \in Job, Schedule(j) PROVE RowLocksExclusive'
    BY <1>3 DEF Schedule, RowAt, NoToken
<1>4. ASSUME NEW w \in Worker, ClaimStep(w) PROVE RowLocksExclusive'
  <2>1. CASE AcquireBegin(w)
      BY <2>1 DEF AcquireBegin, Loop
  <2>2. CASE SelectBatch(w)
      BY <2>2, SubsetTypes DEF SelectBatch, Eligible, Loop
  <2>3. CASE CommitBatch(w)
      BY <2>3 DEF CommitBatch, ClaimedRow, Released, RowAt, LoopAt, Loop, TaskAt, NoToken
  <2>4. CASE BatchDone(w)
      BY <2>4 DEF BatchDone, NoTask, TaskAt, LoopAt, Loop
  <2>5. CASE DeadlockVictim(w)
      BY <2>5 DEF DeadlockVictim, LoopAt, Loop
  <2>6. CASE AcquireError(w)
      BY <2>6 DEF AcquireError, LoopAt, Loop
  <2>7. ASSUME NEW i \in Item, MarkRow(w, i) PROVE RowLocksExclusive'
      BY <2>7 DEF MarkRow, Loop
  <2>8. QED
      BY <1>4, <2>1, <2>2, <2>3, <2>4, <2>5, <2>6, <2>7 DEF ClaimStep
<1>5. ASSUME NEW w \in Worker, NEW i \in Item, TaskStep(w, i) PROVE RowLocksExclusive'
  <2>1. CASE BeginFinish(w, i)
      BY <2>1 DEF BeginFinish, TaskAt
  <2>2. CASE LockLease(w, i)
      BY <2>2 DEF LockLease, TaskAt
  <2>3. CASE RejectStale(w, i)
      BY <2>3 DEF RejectStale, EndTask, LoopAt, Loop, NoTask, TaskAt, NoRenewal, RenewalAt, NoToken
  <2>4. CASE CommitSave(w, i)
      BY <2>4 DEF CommitSave, Released, RowAt, EndTask, LoopAt, Loop, NoTask, TaskAt, NoRenewal, RenewalAt, NoToken
  <2>5. CASE CommitFail(w, i)
      BY <2>5 DEF CommitFail, Released, RowAt, EndTask, LoopAt, Loop, NoTask, TaskAt, NoRenewal, RenewalAt, NoToken
  <2>6. CASE FinishError(w, i)
      BY <2>6 DEF FinishError, LoopAt, Loop, NoTask, TaskAt, NoRenewal, RenewalAt, NoToken
  <2>7. QED
      BY <1>5, <2>1, <2>2, <2>3, <2>4, <2>5, <2>6 DEF TaskStep
<1>6. ASSUME NEW w \in Worker, NEW i \in Item, RenewalStep(w, i) PROVE RowLocksExclusive'
  <2>1. CASE BeginRenew(w, i)
      BY <2>1 DEF BeginRenew, RenewalAt
  <2>2. CASE LockRenew(w, i)
      BY <2>2 DEF LockRenew, RenewalAt
  <2>3. CASE RenewStale(w, i)
      BY <2>3 DEF RenewStale, RenewalAt
  <2>4. CASE CommitRenew(w, i)
      BY <2>4 DEF CommitRenew, NoRenewal, RenewalAt
  <2>5. CASE RenewError(w, i)
      BY <2>5 DEF RenewError, RenewalAt
  <2>6. QED
      BY <1>6, <2>1, <2>2, <2>3, <2>4, <2>5 DEF RenewalStep
<1>7. ASSUME NEW w \in Worker, Exit(w) \/ Crash(w) PROVE RowLocksExclusive'
  <2>1. Gone(w)
      BY <1>7 DEF Exit, Crash
  <2>2. QED
      BY <2>1, GoneLocks
<1>8. ASSUME NEW w \in Worker, Restart(w) PROVE RowLocksExclusive'
    BY <1>8 DEF Restart, LoopAt, Loop
<1>9. QED
    BY <1>1, <1>2, <1>3, <1>4, <1>5, <1>6, <1>7, <1>8 DEF Next, Work, WorkerStep

(* A lease runs out at a time, never at NULL. *)
LEMMA ExpiryOf ==
  ASSUME TypeOK, NEW i \in Item
  PROVE  /\ row[i].token \in Nat
         /\ row[i].token # NoToken => row[i].state = "leased"
         /\ row[i].state = "leased" => row[i].expires \in Int
<1>1. row[i] \in Row
    BY DEF TypeOK
<1>2. QED
    BY <1>1, ColumnsOf DEF Row, LeaseColumns

(* What a transaction found under its locks stays true while it is open.     *)
LEMMA FencedStep == IInv /\ [Next]_vars => CommitsAreFenced'
<1> SUFFICES ASSUME IInv, [Next]_vars PROVE CommitsAreFenced'
    OBVIOUS
<1> USE DEF IInv, TypeOK, Acq, Task, Renewal, Row, Shape, RowLocksExclusive, CommitsAreFenced, AcqLocks, TaskLocks, RenewalLocks, Free, Claimable, Exhausted, Due, Expired, Before, After
<1>1. CASE UNCHANGED vars
    BY <1>1 DEF vars
<1>2. CASE Tick
    BY <1>2 DEF Tick
<1>3. ASSUME NEW j \in Job, Schedule(j) PROVE CommitsAreFenced'
    BY <1>3 DEF Schedule, RowAt, NoToken
<1>4. ASSUME NEW w \in Worker, ClaimStep(w) PROVE CommitsAreFenced'
  <2>1. CASE AcquireBegin(w)
      BY <2>1 DEF AcquireBegin, Loop
  <2>2. CASE SelectBatch(w)
      BY <2>2, SubsetTypes DEF SelectBatch, Eligible, Loop
  <2>3. CASE CommitBatch(w)
      BY <2>3 DEF CommitBatch, ClaimedRow, Released, RowAt, LoopAt, Loop, TaskAt, NoToken
  <2>4. CASE BatchDone(w)
      BY <2>4 DEF BatchDone, NoTask, TaskAt, LoopAt, Loop
  <2>5. CASE DeadlockVictim(w)
      BY <2>5 DEF DeadlockVictim, LoopAt, Loop
  <2>6. CASE AcquireError(w)
      BY <2>6 DEF AcquireError, LoopAt, Loop
  <2>7. ASSUME NEW i \in Item, MarkRow(w, i) PROVE CommitsAreFenced'
      BY <2>7 DEF MarkRow, Loop
  <2>8. QED
      BY <1>4, <2>1, <2>2, <2>3, <2>4, <2>5, <2>6, <2>7 DEF ClaimStep
<1>5. ASSUME NEW w \in Worker, NEW i \in Item, TaskStep(w, i) PROVE CommitsAreFenced'
  <2>1. CASE BeginFinish(w, i)
      BY <2>1 DEF BeginFinish, TaskAt
  <2>2. CASE LockLease(w, i)
      BY <2>2 DEF LockLease, TaskAt, LeaseHeld
  <2>3. CASE RejectStale(w, i)
      BY <2>3 DEF RejectStale, EndTask, LoopAt, Loop, NoTask, TaskAt, NoRenewal, RenewalAt, NoToken
  <2>4. CASE CommitSave(w, i)
      BY <2>4 DEF CommitSave, Released, RowAt, EndTask, LoopAt, Loop, NoTask, TaskAt, NoRenewal, RenewalAt, NoToken
  <2>5. CASE CommitFail(w, i)
      BY <2>5 DEF CommitFail, Released, RowAt, EndTask, LoopAt, Loop, NoTask, TaskAt, NoRenewal, RenewalAt, NoToken
  <2>6. CASE FinishError(w, i)
      BY <2>6 DEF FinishError, LoopAt, Loop, NoTask, TaskAt, NoRenewal, RenewalAt, NoToken
  <2>7. QED
      BY <1>5, <2>1, <2>2, <2>3, <2>4, <2>5, <2>6 DEF TaskStep
<1>6. ASSUME NEW w \in Worker, NEW i \in Item, RenewalStep(w, i) PROVE CommitsAreFenced'
  <2>1. CASE BeginRenew(w, i)
      BY <2>1 DEF BeginRenew, RenewalAt
  <2>2. CASE LockRenew(w, i)
      BY <2>2 DEF LockRenew, RenewalAt, LeaseHeld
  <2>3. CASE RenewStale(w, i)
      BY <2>3 DEF RenewStale, RenewalAt
  <2>4. CASE CommitRenew(w, i)
      BY <2>4, RenewedFields DEF CommitRenew, NoRenewal, RenewalAt
  <2>5. CASE RenewError(w, i)
      BY <2>5 DEF RenewError, RenewalAt
  <2>6. QED
      BY <1>6, <2>1, <2>2, <2>3, <2>4, <2>5 DEF RenewalStep
<1>7. ASSUME NEW w \in Worker, Exit(w) \/ Crash(w) PROVE CommitsAreFenced'
  <2>1. Gone(w)
      BY <1>7 DEF Exit, Crash
  <2>2. QED
      BY <2>1, GoneFenced
<1>8. ASSUME NEW w \in Worker, Restart(w) PROVE CommitsAreFenced'
    BY <1>8 DEF Restart, LoopAt, Loop
<1>9. QED
    BY <1>1, <1>2, <1>3, <1>4, <1>5, <1>6, <1>7, <1>8 DEF Next, Work, WorkerStep

(* Tokens grow, so no two coroutines have the same one.                      *)
LEMMA TokensStep == IInv /\ [Next]_vars => TokensIssued'
<1> SUFFICES ASSUME IInv, [Next]_vars PROVE TokensIssued'
    OBVIOUS
<1> USE DEF IInv, TypeOK, Acq, Task, Renewal, Shape, TokensIssued
<1>1. CASE UNCHANGED vars
    BY <1>1 DEF vars
<1>2. CASE Tick
    BY <1>2 DEF Tick
<1>3. ASSUME NEW j \in Job, Schedule(j) PROVE TokensIssued'
    BY <1>3 DEF Schedule, RowAt, NoToken
<1>4. ASSUME NEW w \in Worker, ClaimStep(w) PROVE TokensIssued'
  <2>1. CASE AcquireBegin(w)
      BY <2>1 DEF AcquireBegin, Loop
  <2>2. CASE SelectBatch(w)
      BY <2>2 DEF SelectBatch, Eligible, Loop
  <2>3. CASE CommitBatch(w)
      BY <2>3 DEF CommitBatch, ClaimedRow, Released, RowAt, LoopAt, Loop, TaskAt, NoToken
  <2>4. CASE BatchDone(w)
      BY <2>4 DEF BatchDone, NoTask, TaskAt, LoopAt, Loop
  <2>5. CASE DeadlockVictim(w)
      BY <2>5 DEF DeadlockVictim, LoopAt, Loop
  <2>6. CASE AcquireError(w)
      BY <2>6 DEF AcquireError, LoopAt, Loop
  <2>7. ASSUME NEW i \in Item, MarkRow(w, i) PROVE TokensIssued'
      BY <2>7 DEF MarkRow, Loop
  <2>8. QED
      BY <1>4, <2>1, <2>2, <2>3, <2>4, <2>5, <2>6, <2>7 DEF ClaimStep
<1>5. ASSUME NEW w \in Worker, NEW i \in Item, TaskStep(w, i) PROVE TokensIssued'
  <2>1. CASE BeginFinish(w, i)
      BY <2>1 DEF BeginFinish, TaskAt
  <2>2. CASE LockLease(w, i)
      BY <2>2 DEF LockLease, TaskAt
  <2>3. CASE RejectStale(w, i)
      BY <2>3 DEF RejectStale, EndTask, LoopAt, Loop, NoTask, TaskAt, NoRenewal, RenewalAt, NoToken
  <2>4. CASE CommitSave(w, i)
      BY <2>4 DEF CommitSave, Released, RowAt, EndTask, LoopAt, Loop, NoTask, TaskAt, NoRenewal, RenewalAt, NoToken
  <2>5. CASE CommitFail(w, i)
      BY <2>5 DEF CommitFail, Released, RowAt, EndTask, LoopAt, Loop, NoTask, TaskAt, NoRenewal, RenewalAt, NoToken
  <2>6. CASE FinishError(w, i)
      BY <2>6 DEF FinishError, LoopAt, Loop, NoTask, TaskAt, NoRenewal, RenewalAt, NoToken
  <2>7. QED
      BY <1>5, <2>1, <2>2, <2>3, <2>4, <2>5, <2>6 DEF TaskStep
<1>6. ASSUME NEW w \in Worker, NEW i \in Item, RenewalStep(w, i) PROVE TokensIssued'
  <2>1. CASE BeginRenew(w, i)
      BY <2>1 DEF BeginRenew, RenewalAt
  <2>2. CASE LockRenew(w, i)
      BY <2>2 DEF LockRenew, RenewalAt
  <2>3. CASE RenewStale(w, i)
      BY <2>3 DEF RenewStale, RenewalAt
  <2>4. CASE CommitRenew(w, i)
      BY <2>4, RenewedFields DEF CommitRenew, NoRenewal, RenewalAt
  <2>5. CASE RenewError(w, i)
      BY <2>5 DEF RenewError, RenewalAt
  <2>6. QED
      BY <1>6, <2>1, <2>2, <2>3, <2>4, <2>5 DEF RenewalStep
<1>7. ASSUME NEW w \in Worker, Exit(w) \/ Crash(w) PROVE TokensIssued'
  <2>1. Gone(w)
      BY <1>7 DEF Exit, Crash
  <2>2. QED
      BY <2>1, GoneTokens
<1>8. ASSUME NEW w \in Worker, Restart(w) PROVE TokensIssued'
    BY <1>8 DEF Restart, LoopAt, Loop
<1>9. QED
    BY <1>1, <1>2, <1>3, <1>4, <1>5, <1>6, <1>7, <1>8 DEF Next, Work, WorkerStep


-----------------------------------------------------------------------------
(* Rows, pages and clocks *)

(* Which steps write rows and pages. *)
LEMMA RowWriters ==
  ASSUME [Next]_vars
  PROVE  \/ UNCHANGED <<row, page, issued>>
         \/ \E j \in Job : Schedule(j)
         \/ \E w \in Worker : CommitBatch(w)
         \/ \E w \in Worker, i \in Item : CommitSave(w, i) \/ CommitFail(w, i) \/ CommitRenew(w, i)
<1>1. CASE UNCHANGED vars
    BY <1>1 DEF vars
<1>2. CASE Tick
    BY <1>2 DEF Tick
<1>3. ASSUME NEW w \in Worker, ClaimStep(w)
      PROVE  UNCHANGED <<row, page, issued>> \/ CommitBatch(w)
    BY <1>3 DEF ClaimStep, AcquireBegin, SelectBatch, BatchDone, DeadlockVictim, AcquireError, MarkRow
<1>4. ASSUME NEW w \in Worker, NEW i \in Item, TaskStep(w, i)
      PROVE  UNCHANGED <<row, page, issued>> \/ CommitSave(w, i) \/ CommitFail(w, i)
    BY <1>4 DEF TaskStep, BeginFinish, LockLease, RejectStale, FinishError
<1>5. ASSUME NEW w \in Worker, NEW i \in Item, RenewalStep(w, i)
      PROVE  UNCHANGED <<row, page, issued>> \/ CommitRenew(w, i)
    BY <1>5 DEF RenewalStep, BeginRenew, LockRenew, RenewStale, RenewError
<1>6. ASSUME NEW w \in Worker, Exit(w) \/ Crash(w) \/ Restart(w)
      PROVE  UNCHANGED <<row, page, issued>>
    BY <1>6 DEF Exit, Crash, Restart, Gone
<1>7. QED
    BY <1>1, <1>2, <1>3, <1>4, <1>5, <1>6 DEF Next, Work, WorkerStep

(* Time goes only forward, on every host. *)
LEMMA ClockGrows ==
  ASSUME TypeOK, [Next]_vars, NEW w \in Worker
  PROVE  Now(w)' \in Int /\ Now(w)' >= Now(w)
<1>1. clock \in Nat /\ Skew[w] \in Int
    BY MapAssumption DEF TypeOK
<1>2. clock' = clock \/ clock' = clock + 1
  <2>1. CASE UNCHANGED vars
      BY <2>1 DEF vars
  <2>2. CASE Tick
      BY <2>2 DEF Tick
  <2>3. ASSUME NEW j \in Job, Schedule(j) PROVE clock' = clock
      BY <2>3 DEF Schedule
  <2>4. ASSUME NEW v \in Worker, ClaimStep(v) PROVE clock' = clock
      BY <2>4 DEF ClaimStep, AcquireBegin, SelectBatch, CommitBatch, BatchDone, DeadlockVictim,
                  AcquireError, MarkRow
  <2>5. ASSUME NEW v \in Worker, NEW i \in Item, TaskStep(v, i) PROVE clock' = clock
      BY <2>5 DEF TaskStep, BeginFinish, LockLease, RejectStale, CommitSave, CommitFail, FinishError
  <2>6. ASSUME NEW v \in Worker, NEW i \in Item, RenewalStep(v, i) PROVE clock' = clock
      BY <2>6 DEF RenewalStep, BeginRenew, LockRenew, RenewStale, CommitRenew, RenewError
  <2>7. ASSUME NEW v \in Worker, Exit(v) \/ Crash(v) \/ Restart(v) PROVE clock' = clock
      BY <2>7 DEF Exit, Crash, Restart, Gone
  <2>8. QED
      BY <2>1, <2>2, <2>3, <2>4, <2>5, <2>6, <2>7 DEF Next, Work, WorkerStep
<1>3. QED
    BY <1>1, <1>2 DEF Now

(* What the writers leave in a row. *)
LEMMA ScheduledRow ==
  ASSUME TypeOK, NEW j \in Job, Schedule(j), NEW i \in Item
  PROVE  /\ UNCHANGED <<page, issued>>
         /\ \/ row'[i] = row[i]
            \/ row[i].state = "absent" /\ row'[i].state = "pending" /\ row'[i].attempt = 0
<1>1. row'[i] = IF JobOf[i] = j THEN RowAt("pending", 0, clock, clock, Null, NoToken, Null) ELSE row[i]
    BY DEF Schedule
<1>2. UNCHANGED <<page, issued>> /\ (JobOf[i] = j => row[i].state = "absent")
    BY DEF Schedule
<1>3. QED
    BY <1>1, <1>2 DEF RowAt

LEMMA BatchRow ==
  ASSUME TypeOK, RowLocksExclusive, CommitsAreFenced,
         NEW w \in Worker, CommitBatch(w), NEW i \in Item
  PROVE  /\ page' = page
         /\ \/ /\ i \in acq[w].claim
               /\ Claimable(i, acq[w].now)
               /\ issued'[i] = issued[i] + 1
               /\ row'[i].state = "leased"
               /\ row'[i].attempt = row[i].attempt + 1
               /\ row'[i].token = issued[i] + 1
               /\ row'[i].expires = acq[w].now + LeaseSeconds
            \/ /\ i \in acq[w].dead
               /\ Exhausted(i, acq[w].now)
               /\ issued'[i] = issued[i]
               /\ row'[i].state = "dead"
               /\ row'[i].attempt = row[i].attempt
               /\ row'[i].token = NoToken
            \/ row'[i] = row[i] /\ issued'[i] = issued[i]
<1>1. CASE i \in acq[w].claim
    BY <1>1 DEF CommitBatch, TypeOK, CommitsAreFenced, ClaimedRow, RowAt
<1>2. CASE i \notin acq[w].claim /\ i \in acq[w].dead
    BY <1>2 DEF CommitBatch, TypeOK, CommitsAreFenced, Released, RowAt
<1>3. CASE i \notin acq[w].claim /\ i \notin acq[w].dead
    BY <1>3 DEF CommitBatch, TypeOK
<1>4. QED
    BY <1>1, <1>2, <1>3

LEMMA SavedRow ==
  ASSUME TypeOK, CommitsAreFenced, NEW w \in Worker, NEW i \in Item, CommitSave(w, i)
  PROVE  /\ issued' = issued
         /\ row[i].state = "leased" /\ row[i].token = task[w][i].token
         /\ row'[i].state = "complete" /\ row'[i].attempt = row[i].attempt
         /\ row'[i].token = NoToken
         /\ \A k \in Item : k # i => row'[k] = row[k]
         /\ \E u \in FinalUrls[i] :
              page' = [page EXCEPT ![u] = [item |-> i, token |-> task[w][i].token]]
BY DEF CommitSave, CommitsAreFenced, TaskLocks, TypeOK, Released, RowAt

LEMMA FailedRow ==
  ASSUME TypeOK, CommitsAreFenced, NEW w \in Worker, NEW i \in Item, CommitFail(w, i)
  PROVE  /\ issued' = issued /\ page' = page
         /\ row[i].state = "leased" /\ row[i].token = task[w][i].token
         /\ \/ row'[i].state = "pending"
            \/ row'[i].state = "dead" /\ ~(row[i].attempt < MaxAttempts[i])
         /\ row'[i].attempt = row[i].attempt
         /\ row'[i].token = NoToken
         /\ \A k \in Item : k # i => row'[k] = row[k]
<1>1. PICK d \in RetryDelays :
        row' = [row EXCEPT ![i] = IF @.attempt < MaxAttempts[i]
                                  THEN Released(@, "pending", Now(w) + d)
                                  ELSE Released(@, "dead", Now(w))]
    BY DEF CommitFail
<1>2. row[i].state = "leased" /\ row[i].token = task[w][i].token
    BY DEF CommitFail, CommitsAreFenced, TaskLocks
<1>3. CASE row[i].attempt < MaxAttempts[i]
    BY <1>1, <1>2, <1>3 DEF CommitFail, TypeOK, Released, RowAt
<1>4. CASE ~(row[i].attempt < MaxAttempts[i])
    BY <1>1, <1>2, <1>4 DEF CommitFail, TypeOK, Released, RowAt
<1>5. QED
    BY <1>3, <1>4

(* A row is handed out once per token, and never more often than allowed.    *)
LEMMA BudgetStep == IInv /\ [Next]_vars => AttemptBudgetKept'
<1> SUFFICES ASSUME IInv, [Next]_vars, NEW i \in Item
             PROVE  (/\ row[i].attempt = issued[i]
                     /\ issued[i] <= MaxAttempts[i]
                     /\ row[i].state = "dead" => issued[i] = MaxAttempts[i]
                     /\ row[i].state = "complete" => issued[i] > 0)'
    BY DEF AttemptBudgetKept
<1> USE DEF IInv
<1>0. /\ row[i].attempt = issued[i] /\ issued[i] <= MaxAttempts[i]
      /\ row[i].state = "dead" => issued[i] = MaxAttempts[i]
      /\ row[i].state = "complete" => issued[i] > 0
      /\ issued[i] \in Nat /\ MaxAttempts[i] \in Nat
      /\ row[i].state = "leased" => issued[i] > 0
      /\ row[i].state = "absent" => row[i].attempt = 0
    BY MapAssumption DEF AttemptBudgetKept, TypeOK, Shape
<1>1. CASE UNCHANGED <<row, page, issued>>
    BY <1>0, <1>1
<1>2. ASSUME NEW j \in Job, Schedule(j)
      PROVE  (/\ row[i].attempt = issued[i] /\ issued[i] <= MaxAttempts[i]
              /\ row[i].state = "dead" => issued[i] = MaxAttempts[i]
              /\ row[i].state = "complete" => issued[i] > 0)'
    BY <1>0, <1>2, ScheduledRow
<1>3. ASSUME NEW w \in Worker, CommitBatch(w)
      PROVE  (/\ row[i].attempt = issued[i] /\ issued[i] <= MaxAttempts[i]
              /\ row[i].state = "dead" => issued[i] = MaxAttempts[i]
              /\ row[i].state = "complete" => issued[i] > 0)'
    BY <1>0, <1>3, BatchRow DEF Claimable, Exhausted
<1>4. ASSUME NEW w \in Worker, NEW k \in Item,
             CommitSave(w, k) \/ CommitFail(w, k) \/ CommitRenew(w, k)
      PROVE  (/\ row[i].attempt = issued[i] /\ issued[i] <= MaxAttempts[i]
              /\ row[i].state = "dead" => issued[i] = MaxAttempts[i]
              /\ row[i].state = "complete" => issued[i] > 0)'
  <2>1. CASE CommitSave(w, k)
      BY <1>0, <2>1, SavedRow
  <2>2. CASE CommitFail(w, k)
      BY <1>0, <2>2, FailedRow
  <2>3. CASE CommitRenew(w, k)
    <3>1. issued' = issued
        BY <2>3 DEF CommitRenew
    <3>2. row'[i].state = row[i].state /\ row'[i].attempt = row[i].attempt
        BY <2>3, RenewedFields
    <3>3. QED
        BY <1>0, <3>1, <3>2
  <2>4. QED
      BY <1>4, <2>1, <2>2, <2>3
<1>5. QED
    BY <1>1, <1>2, <1>3, <1>4, RowWriters


(* A page is stored only by the commit that completes its row.               *)
LEMMA PagesKept ==
  ASSUME TypeOK, PagesMatchCompletions, page' = page,
         \A i \in Item : row'[i].state = "complete" <=> row[i].state = "complete",
         \A i \in Item : row[i].state = "complete" => issued'[i] = issued[i]
  PROVE  PagesMatchCompletions'
BY DEF PagesMatchCompletions, TypeOK, Stored

LEMMA PagesStep == IInv /\ [Next]_vars => PagesMatchCompletions'
<1> SUFFICES ASSUME IInv, [Next]_vars PROVE PagesMatchCompletions'
    OBVIOUS
<1> USE DEF IInv
<1>1. CASE UNCHANGED <<row, page, issued>>
    BY <1>1, PagesKept
<1>2. ASSUME NEW j \in Job, Schedule(j) PROVE PagesMatchCompletions'
  <2>1. \A i \in Item : row'[i].state = "complete" <=> row[i].state = "complete"
      BY <1>2, ScheduledRow
  <2>2. UNCHANGED <<page, issued>>
      BY <1>2 DEF Schedule
  <2>3. QED
      BY <2>1, <2>2, PagesKept
<1>3. ASSUME NEW w \in Worker, CommitBatch(w) PROVE PagesMatchCompletions'
  <2>1. \A i \in Item : /\ row'[i].state = "complete" <=> row[i].state = "complete"
                        /\ row[i].state = "complete" => issued'[i] = issued[i]
      BY <1>3, BatchRow DEF Claimable, Exhausted, Due, Expired
  <2>2. page' = page
      BY <1>3 DEF CommitBatch
  <2>3. QED
      BY <2>1, <2>2, PagesKept
<1>4. ASSUME NEW w \in Worker, NEW i \in Item, CommitFail(w, i) \/ CommitRenew(w, i)
      PROVE  PagesMatchCompletions'
  <2>1. UNCHANGED <<page, issued>>
      BY <1>4 DEF CommitFail, CommitRenew
  <2>2. CASE CommitFail(w, i)
    <3>1. \A k \in Item : row'[k].state = "complete" <=> row[k].state = "complete"
        BY <2>2, FailedRow
    <3>2. QED
        BY <2>1, <3>1, PagesKept
  <2>3. CASE CommitRenew(w, i)
    <3>1. \A k \in Item : row'[k].state = "complete" <=> row[k].state = "complete"
        BY <2>3, RenewedFields
    <3>2. QED
        BY <2>1, <3>1, PagesKept
  <2>4. QED
      BY <1>4, <2>2, <2>3
<1>5. ASSUME NEW w \in Worker, NEW i \in Item, CommitSave(w, i) PROVE PagesMatchCompletions'
  <2>1. PICK u \in FinalUrls[i] :
          page' = [page EXCEPT ![u] = [item |-> i, token |-> task[w][i].token]]
      BY <1>5 DEF CommitSave
  <2>2. u \in Url
      BY MapAssumption
  <2>3. /\ row[i].state = "leased" /\ row'[i].state = "complete" /\ issued' = issued
        /\ \A k \in Item : k # i => row'[k] = row[k]
      BY <1>5, SavedRow
  <2>4. task[w][i].token = issued[i] /\ issued[i] > 0
    <3>1. row[i].token = task[w][i].token
        BY <1>5, SavedRow
    <3>2. QED
        BY <2>3, <3>1 DEF Shape
  <2>5. page'[u] = [item |-> i, token |-> task[w][i].token] /\ page'[u] # NoPage
      BY <2>1, <2>2, <2>4 DEF NoPage, NoToken, TypeOK
  <2>6. ASSUME NEW x \in Url, page'[x] # NoPage
        PROVE  row'[page'[x].item].state = "complete" /\ page'[x].token = issued'[page'[x].item]
    <3>1. CASE x = u
        BY <2>3, <2>4, <2>5, <3>1
    <3>2. CASE x # u
      <4>1. page'[x] = page[x] /\ page[x].item \in Item
          BY <2>1, <2>2, <2>6, <3>2 DEF TypeOK, Stored
      <4>2. row[page[x].item].state = "complete" /\ page[x].token = issued[page[x].item]
          BY <2>6, <4>1 DEF PagesMatchCompletions
      <4>3. page[x].item # i
          BY <2>3, <4>2
      <4>4. QED
          BY <2>3, <4>1, <4>2, <4>3
    <3>3. QED
        BY <3>1, <3>2
  <2>7. ASSUME NEW k \in Item, row'[k].state = "complete"
        PROVE  \E x \in FinalUrls[k] : page'[x] # NoPage
    <3>1. CASE k = i
        BY <2>5, <3>1
    <3>2. CASE k # i
      <4>1. PICK x \in FinalUrls[k] : page[x] # NoPage
          BY <2>3, <2>7, <3>2 DEF PagesMatchCompletions
      <4>2. x \in Url
          BY MapAssumption
      <4>3. page'[x] # NoPage
          BY <2>1, <2>5, <4>1, <4>2 DEF TypeOK
      <4>4. QED
          BY <4>1, <4>3
    <3>3. QED
        BY <3>1, <3>2
  <2>8. QED
      BY <2>6, <2>7 DEF PagesMatchCompletions
<1>6. QED
    BY <1>1, <1>2, <1>3, <1>4, <1>5, RowWriters

(* The clock a claim or a renewal adds to was read before, never after.      *)
LEMMA BatchClocks ==
  ASSUME IInv, NEW w \in Worker, CommitBatch(w)
  PROVE  ClocksRead'
<1> USE DEF IInv
<1>1. /\ \A v \in Worker : Now(v)' = Now(v) /\ Now(v) \in Int
      /\ UNCHANGED <<clock, renewal>>
      /\ acq[w].pc = "claimed"
  <2>1. UNCHANGED <<clock, renewal>> /\ acq[w].pc = "claimed"
      BY DEF CommitBatch
  <2>2. QED
      BY <2>1, NowType DEF Now
<1>2. /\ acq'[w].pc \in {"idle", "working"}
      /\ \A v \in Worker : v # w => acq'[v] = acq[v]
    BY DEF CommitBatch, LoopAt, Loop, TypeOK
<1>3. /\ \A v \in Worker, i \in Item :
           v # w \/ i \notin acq[w].claim => task'[v][i] = task[v][i]
      /\ \A i \in Item : task[w][i].pc = "none" /\ renewal[w][i].pc = "idle"
    BY <1>1 DEF CommitBatch, TypeOK, Shape
<1>4. ASSUME NEW v \in Worker, NEW i \in Item,
             task'[v][i].pc # "none", row'[i].token = task'[v][i].token
      PROVE  /\ row'[i].expires <= Now(v) + LeaseSeconds
             /\ renewal[v][i].pc \in {"renewing", "renewed"} =>
                  row'[i].expires <= renewal[v][i].now + LeaseSeconds
  <2>1. CASE v = w
    <3>1. i \in acq[w].claim
        BY <1>3, <1>4, <2>1
    <3>2. row'[i].expires = acq[w].now + LeaseSeconds
        BY <3>1 DEF CommitBatch, TypeOK, ClaimedRow, RowAt
    <3>3. acq[w].now <= Now(w) /\ acq[w].now \in Int
        BY <1>1 DEF ClocksRead, TypeOK, Acq
    <3>4. QED
        BY <1>1, <1>3, <2>1, <3>2, <3>3, NumberAssumption
  <2>2. CASE v # w
    <3>1. task'[v][i] = task[v][i] /\ task[v][i].token <= issued[i] /\ task[v][i].token > 0
        BY <1>3, <1>4, <2>2 DEF TokensIssued, Shape
    <3>2. row'[i] = row[i]
        BY <1>4, <3>1, BatchRow DEF NoToken, TypeOK, Task
    <3>3. QED
        BY <1>4, <3>1, <3>2 DEF ClocksRead
  <2>3. QED
      BY <2>1, <2>2
<1>5. \A v \in Worker : acq'[v].pc \in {"marking", "claimed"} => acq'[v].now <= Now(v)
    BY <1>2 DEF ClocksRead
<1>6. \A v \in Worker, i \in Item :
        renewal[v][i].pc \in {"renewing", "renewed"} => renewal[v][i].now <= Now(v)
    BY DEF ClocksRead
<1>7. QED
    BY <1>1, <1>4, <1>5, <1>6 DEF ClocksRead

LEMMA RenewClocks ==
  ASSUME IInv, NEW w \in Worker, NEW i \in Item, CommitRenew(w, i)
  PROVE  ClocksRead'
<1> USE DEF IInv
<1>1. /\ UNCHANGED <<clock, acq, task>>
      /\ \A v \in Worker : Now(v)' = Now(v) /\ Now(v) \in Int
      /\ renewal[w][i].pc = "renewed"
  <2>1. UNCHANGED <<clock, acq, task>> /\ renewal[w][i].pc = "renewed"
      BY DEF CommitRenew
  <2>2. QED
      BY <2>1, NowType DEF Now
<1>2. /\ renewal'[w][i].pc = "idle"
      /\ \A v \in Worker, k \in Item : v # w \/ k # i => renewal'[v][k] = renewal[v][k]
    BY DEF CommitRenew, NoRenewal, RenewalAt, TypeOK
<1>3. /\ row[i].token = task[w][i].token /\ task[w][i].pc # "none"
      /\ renewal[w][i].now <= Now(w) /\ renewal[w][i].now \in Int
    BY <1>1 DEF CommitsAreFenced, RenewalLocks, Shape, ClocksRead, TypeOK, Renewal
<1>4. ASSUME NEW v \in Worker, NEW k \in Item,
             task[v][k].pc # "none", row'[k].token = task[v][k].token
      PROVE  /\ row'[k].expires <= Now(v) + LeaseSeconds
             /\ renewal'[v][k].pc \in {"renewing", "renewed"} =>
                  row'[k].expires <= renewal'[v][k].now + LeaseSeconds
  <2>1. CASE k # i
      BY <1>2, <1>4, <2>1, RenewedFields DEF ClocksRead
  <2>2. CASE k = i /\ v = w
    <3>1. row'[i].expires = renewal[w][i].now + LeaseSeconds
        BY RenewedFields
    <3>2. QED
        BY <1>1, <1>2, <1>3, <2>2, <3>1, NumberAssumption
  <2>3. CASE k = i /\ v # w
      BY <1>3, <1>4, <2>3, RenewedFields DEF TokensIssued
  <2>4. QED
      BY <2>1, <2>2, <2>3
<1>5. \A v \in Worker, k \in Item :
        renewal'[v][k].pc \in {"renewing", "renewed"} => renewal'[v][k].now <= Now(v)
  <2> SUFFICES ASSUME NEW v \in Worker, NEW k \in Item
               PROVE  renewal'[v][k].pc \in {"renewing", "renewed"} => renewal'[v][k].now <= Now(v)
      OBVIOUS
  <2>1. CASE v = w /\ k = i
      BY <1>2, <2>1
  <2>2. CASE v # w \/ k # i
      BY <1>2, <2>2 DEF ClocksRead
  <2>3. QED
      BY <2>1, <2>2
<1>6. QED
    BY <1>1, <1>4, <1>5 DEF ClocksRead

LEMMA GoneClocks ==
  ASSUME TypeOK, ClocksRead, NEW w \in Worker, Gone(w)
  PROVE  ClocksRead'
<1>1. UNCHANGED <<clock, row>> /\ \A v \in Worker : Now(v)' = Now(v)
    BY DEF Gone, Now
<1>2. ASSUME NEW v \in Worker
      PROVE  (acq[v].pc \in {"marking", "claimed"} => acq[v].now <= Now(v))'
  <2>1. CASE v = w
      BY <2>1, GoneFields
  <2>2. CASE v # w
      BY <1>1, <2>2, GoneFields DEF ClocksRead
  <2>3. QED
      BY <2>1, <2>2
<1>3. ASSUME NEW v \in Worker, NEW i \in Item
      PROVE  (/\ task[v][i].pc # "none" /\ row[i].token = task[v][i].token =>
                   /\ row[i].expires <= Now(v) + LeaseSeconds
                   /\ renewal[v][i].pc \in {"renewing", "renewed"} =>
                        row[i].expires <= renewal[v][i].now + LeaseSeconds
              /\ renewal[v][i].pc \in {"renewing", "renewed"} => renewal[v][i].now <= Now(v))'
  <2>1. CASE v = w
      BY <2>1, GoneFields
  <2>2. CASE v # w
      BY <1>1, <2>2, GoneFields DEF ClocksRead
  <2>3. QED
      BY <2>1, <2>2
<1>4. QED
    BY <1>2, <1>3 DEF ClocksRead

(* No clock that was read runs ahead, and no lease outlasts its holder's     *)
(* clock by more than LeaseSeconds.                                          *)
LEMMA ClocksStep == IInv /\ [Next]_vars => ClocksRead'
<1> SUFFICES ASSUME IInv, [Next]_vars PROVE ClocksRead'
    OBVIOUS
<1> USE MapAssumption, NumberAssumption DEF IInv, TypeOK, Acq, Task, Renewal, Row, ClocksRead, Shape, Now, TokensIssued, RowLocksExclusive, CommitsAreFenced, TaskLocks, RenewalLocks, AcqLocks
<1>1. CASE UNCHANGED vars
    BY <1>1 DEF vars
<1>2. CASE Tick
  <2>1. ASSUME NEW w \in Worker, NEW i \in Item,
               task[w][i].pc # "none", row[i].token = task[w][i].token
        PROVE  row[i].expires \in Int
      BY <2>1, ExpiryOf DEF NoToken
  <2>2. QED
      BY <1>2, <2>1 DEF Tick
<1>3. ASSUME NEW j \in Job, Schedule(j) PROVE ClocksRead'
    BY <1>3 DEF Schedule, RowAt, NoToken
<1>4. ASSUME NEW w \in Worker, ClaimStep(w) PROVE ClocksRead'
  <2>1. CASE AcquireBegin(w)
      BY <2>1 DEF AcquireBegin, Loop
  <2>2. CASE SelectBatch(w)
      BY <2>2 DEF SelectBatch, Eligible, Loop
  <2>3. CASE CommitBatch(w)
      BY <2>3, BatchClocks
  <2>4. CASE BatchDone(w)
      BY <2>4 DEF BatchDone, NoTask, TaskAt, LoopAt, Loop
  <2>5. CASE DeadlockVictim(w)
      BY <2>5 DEF DeadlockVictim, LoopAt, Loop
  <2>6. CASE AcquireError(w)
      BY <2>6 DEF AcquireError, LoopAt, Loop
  <2>7. ASSUME NEW i \in Item, MarkRow(w, i) PROVE ClocksRead'
      BY <2>7 DEF MarkRow, Loop
  <2>8. QED
      BY <1>4, <2>1, <2>2, <2>3, <2>4, <2>5, <2>6, <2>7 DEF ClaimStep
<1>5. ASSUME NEW w \in Worker, NEW i \in Item, TaskStep(w, i) PROVE ClocksRead'
  <2>1. CASE BeginFinish(w, i)
      BY <2>1 DEF BeginFinish, TaskAt
  <2>2. CASE LockLease(w, i)
      BY <2>2 DEF LockLease, TaskAt
  <2>3. CASE RejectStale(w, i)
      BY <2>3 DEF RejectStale, EndTask, LoopAt, Loop, NoTask, TaskAt, NoRenewal, RenewalAt, NoToken
  <2>4. CASE CommitSave(w, i)
      BY <2>4 DEF CommitSave, Released, RowAt, EndTask, LoopAt, Loop, NoTask, TaskAt, NoRenewal, RenewalAt, NoToken
  <2>5. CASE CommitFail(w, i)
      BY <2>5 DEF CommitFail, Released, RowAt, EndTask, LoopAt, Loop, NoTask, TaskAt, NoRenewal, RenewalAt, NoToken
  <2>6. CASE FinishError(w, i)
      BY <2>6 DEF FinishError, LoopAt, Loop, NoTask, TaskAt, NoRenewal, RenewalAt, NoToken
  <2>7. QED
      BY <1>5, <2>1, <2>2, <2>3, <2>4, <2>5, <2>6 DEF TaskStep
<1>6. ASSUME NEW w \in Worker, NEW i \in Item, RenewalStep(w, i) PROVE ClocksRead'
  <2>1. CASE BeginRenew(w, i)
      BY <2>1 DEF BeginRenew, RenewalAt
  <2>2. CASE LockRenew(w, i)
      BY <2>2 DEF LockRenew, RenewalAt
  <2>3. CASE RenewStale(w, i)
      BY <2>3 DEF RenewStale, RenewalAt
  <2>4. CASE CommitRenew(w, i)
      BY <2>4, RenewClocks
  <2>5. CASE RenewError(w, i)
      BY <2>5 DEF RenewError, RenewalAt
  <2>6. QED
      BY <1>6, <2>1, <2>2, <2>3, <2>4, <2>5 DEF RenewalStep
<1>7. ASSUME NEW w \in Worker, Exit(w) \/ Crash(w) PROVE ClocksRead'
  <2>1. Gone(w)
      BY <1>7 DEF Exit, Crash
  <2>2. QED
      BY <2>1, GoneClocks
<1>8. ASSUME NEW w \in Worker, Restart(w) PROVE ClocksRead'
    BY <1>8 DEF Restart, LoopAt, Loop
<1>9. QED
    BY <1>1, <1>2, <1>3, <1>4, <1>5, <1>6, <1>7, <1>8 DEF Next, Work, WorkerStep

-----------------------------------------------------------------------------
(* The invariant holds *)

LEMMA InvInit == Init => IInv
<1> SUFFICES ASSUME Init PROVE IInv
    OBVIOUS
<1>1. TypeOK
    BY TypeInit
<1>2. /\ \A i \in Item : /\ row[i].state = "absent" /\ row[i].attempt = 0 /\ row[i].token = NoToken
                         /\ issued[i] = 0
      /\ \A w \in Worker : /\ acq[w].pc = "idle" /\ acq[w].todo = {}
                           /\ acq[w].dead = {} /\ acq[w].claim = {}
      /\ \A w \in Worker, i \in Item : /\ task[w][i].pc = "none" /\ task[w][i].token = 0
                                       /\ renewal[w][i].pc = "idle"
      /\ \A u \in Url : page[u] = NoPage
    BY DEF Init, RowAt, LoopAt, Loop, NoTask, TaskAt, NoRenewal, RenewalAt, NoToken
<1>3. Shape /\ ClocksRead
    BY <1>2 DEF Shape, ClocksRead
<1>4. RowLocksExclusive /\ CommitsAreFenced
    BY <1>2 DEF RowLocksExclusive, CommitsAreFenced, AcqLocks, TaskLocks, RenewalLocks
<1>5. TokensIssued /\ PagesMatchCompletions
    BY <1>2 DEF TokensIssued, PagesMatchCompletions, NoToken
<1>6. AttemptBudgetKept
    BY <1>2, MapAssumption DEF AttemptBudgetKept
<1>7. QED
    BY <1>1, <1>3, <1>4, <1>5, <1>6 DEF IInv

LEMMA InvStep == IInv /\ [Next]_vars => IInv'
BY TypeStep, ShapeStep, ClocksStep, LocksStep, FencedStep, TokensStep, PagesStep, BudgetStep DEF IInv

(* The conjunction of all invariants is inductive: no step of any worker, at *)
(* any clock reading, takes the frontier out of it.                          *)
THEOREM InvariantHolds == Spec => []IInv
<1>1. Init => IInv
    BY InvInit
<1>2. IInv /\ [Next]_vars => IInv'
    BY InvStep
<1>3. QED
    BY <1>1, <1>2, PTL DEF Spec

(* Every variable keeps its type, and the columns of a lease are set and      *)
(* cleared together by whichever transaction writes the row.                 *)
THEOREM TypeCorrect == Spec => []TypeOK
<1>1. IInv => TypeOK
    BY DEF IInv
<1>2. QED
    BY <1>1, InvariantHolds, PTL

(* FOR UPDATE: at most one open transaction has a row, for any number of     *)
(* workers.                                                                  *)
THEOREM LocksAreExclusive == Spec => []RowLocksExclusive
<1>1. IInv => RowLocksExclusive
    BY DEF IInv
<1>2. QED
    BY <1>1, InvariantHolds, PTL

(* What a statement's WHERE clause found is still true when it commits.      *)
THEOREM WritesAreFenced == Spec => []CommitsAreFenced
<1>1. IInv => CommitsAreFenced
    BY DEF IInv
<1>2. QED
    BY <1>1, InvariantHolds, PTL

(* Pages and completed rows are written together, by the last lease only.    *)
THEOREM PagesAreOfCompletions == Spec => []PagesMatchCompletions
<1>1. IInv => PagesMatchCompletions
    BY DEF IInv
<1>2. QED
    BY <1>1, InvariantHolds, PTL

(* No row is handed out more than max_attempts times.                        *)
THEOREM BudgetIsKept == Spec => []AttemptBudgetKept
<1>1. IInv => AttemptBudgetKept
    BY DEF IInv
<1>2. QED
    BY <1>1, InvariantHolds, PTL

-----------------------------------------------------------------------------
(* What a step may never do *)

(* A complete or dead row is never written again.                            *)
THEOREM SettledIsFinal == Spec => SettledForever
<1>1. ASSUME IInv, [Next]_vars, NEW i \in Item, row[i].state \in {"complete", "dead"}
      PROVE  row'[i] = row[i]
  <2> USE <1>1 DEF IInv
  <2>1. CASE UNCHANGED <<row, page, issued>>
      BY <2>1
  <2>2. ASSUME NEW j \in Job, Schedule(j) PROVE row'[i] = row[i]
      BY <1>1, <2>2, ScheduledRow
  <2>3. ASSUME NEW w \in Worker, CommitBatch(w) PROVE row'[i] = row[i]
      BY <1>1, <2>3, BatchRow DEF Claimable, Exhausted, Due, Expired
  <2>4. ASSUME NEW w \in Worker, NEW k \in Item,
               CommitSave(w, k) \/ CommitFail(w, k) \/ CommitRenew(w, k)
        PROVE  row'[i] = row[i]
    <3>1. row[k].state = "leased"
        BY <2>4 DEF CommitSave, CommitFail, CommitRenew, CommitsAreFenced, TaskLocks, RenewalLocks
    <3>2. k # i
        BY <1>1, <3>1
    <3>3. QED
        BY <2>4, <3>2, SavedRow, FailedRow, RenewedFields
  <2>5. QED
      BY <1>1, <2>1, <2>2, <2>3, <2>4, RowWriters
<1>2. IInv /\ [Next]_vars =>
        [\A i \in Item : row[i].state \in {"complete", "dead"} => row'[i] = row[i]]_vars
    BY <1>1
<1>3. QED
    BY <1>2, InvariantHolds, PTL DEF Spec, SettledForever

(* A leased row is written by the coroutine that has its token, or by a       *)
(* claim whose worker sees the expiry in the past.                           *)
THEOREM LeasesAreKept == Spec => LeaseNotStolen
<1> DEFINE ByClaim(w, i) == AcqLocks(w, i) /\ ~AcqLocks(w, i)' /\ row[i].expires < Now(w)
<1>1. ASSUME IInv, [Next]_vars, NEW i \in Item, row[i].state = "leased", row'[i] # row[i]
      PROVE  \E w \in Worker : HolderCommits(w, i) \/ ByClaim(w, i)
  <2> USE <1>1 DEF IInv
  <2>1. ~UNCHANGED <<row, page, issued>>
      BY <1>1
  <2>2. ASSUME NEW j \in Job, Schedule(j) PROVE FALSE
      BY <1>1, <2>2, ScheduledRow
  <2>3. ASSUME NEW w \in Worker, CommitBatch(w) PROVE ByClaim(w, i)
    <3>1. acq[w].now <= Now(w) /\ acq[w].now \in Int
      <4>1. acq[w].pc = "claimed"
          BY <2>3 DEF CommitBatch
      <4>2. QED
          BY <4>1 DEF ClocksRead, TypeOK, Acq
    <3>2. row[i].expires \in Int /\ Now(w) \in Int
        BY <1>1, NowType, ExpiryOf
    <3>3. AcqLocks(w, i) /\ row[i].expires < acq[w].now
        BY <1>1, <2>3, BatchRow DEF AcqLocks, Claimable, Exhausted, Due, Expired, Before
    <3>4. acq'[w].dead = {} /\ acq'[w].claim = {}
        BY <2>3 DEF CommitBatch, LoopAt, Loop, TypeOK
    <3>5. QED
        BY <3>1, <3>2, <3>3, <3>4 DEF AcqLocks
  <2>4. ASSUME NEW w \in Worker, NEW k \in Item,
               CommitSave(w, k) \/ CommitFail(w, k) \/ CommitRenew(w, k)
        PROVE  HolderCommits(w, i)
    <3>1. row[k].token = task[w][k].token
        BY <2>4 DEF CommitSave, CommitFail, CommitRenew, CommitsAreFenced, TaskLocks, RenewalLocks
    <3>2. k = i
        BY <1>1, <2>4, SavedRow, FailedRow, RenewedFields
    <3>3. CASE CommitSave(w, k) \/ CommitFail(w, k)
      <4>1. TaskLocks(w, i) /\ task'[w][i].pc = "none"
          BY <3>2, <3>3 DEF CommitSave, CommitFail, EndTask, TaskLocks, NoTask, TaskAt, TypeOK
      <4>2. QED
          BY <3>1, <3>2, <4>1 DEF HolderCommits
    <3>4. CASE CommitRenew(w, k)
      <4>1. RenewalLocks(w, i) /\ renewal'[w][i].pc = "idle"
          BY <3>2, <3>4 DEF CommitRenew, RenewalLocks, NoRenewal, RenewalAt, TypeOK
      <4>2. QED
          BY <3>1, <3>2, <4>1 DEF HolderCommits
    <3>5. QED
        BY <2>4, <3>3, <3>4
  <2>5. QED
      BY <2>1, <2>2, <2>3, <2>4, RowWriters
<1>2. IInv /\ [Next]_vars =>
        [\A i \in Item : row[i].state = "leased" /\ row'[i] # row[i] =>
           \E w \in Worker : \/ HolderCommits(w, i)
                             \/ AcqLocks(w, i) /\ ~AcqLocks(w, i)' /\ row[i].expires < Now(w)]_vars
    BY <1>1
<1>3. QED
    BY <1>2, InvariantHolds, PTL DEF Spec, LeaseNotStolen

(* While a lease keeps its token, its expiry only moves forward.             *)
THEOREM RenewalsExtend == Spec => RenewalExtends
<1>1. ASSUME IInv, [Next]_vars, NEW i \in Item,
             row[i].state = "leased", row'[i].token = row[i].token
      PROVE  row'[i].expires >= row[i].expires
  <2> USE <1>1 DEF IInv
  <2>1. /\ row[i].token \in Nat /\ row[i].expires \in Int /\ issued[i] \in Nat
        /\ row[i].token <= issued[i] /\ row[i].token > 0
    <3>1. row[i].token \in Nat /\ row[i].expires \in Int /\ issued[i] \in Nat
        BY <1>1, ExpiryOf DEF TypeOK
    <3>2. row[i].token = issued[i] /\ issued[i] > 0
        BY <1>1 DEF Shape
    <3>3. QED
        BY <3>1, <3>2
  <2>2. CASE UNCHANGED <<row, page, issued>>
      BY <2>1, <2>2
  <2>3. ASSUME NEW j \in Job, Schedule(j) PROVE row'[i].expires >= row[i].expires
      BY <1>1, <2>1, <2>3, ScheduledRow
  <2>4. ASSUME NEW w \in Worker, CommitBatch(w) PROVE row'[i].expires >= row[i].expires
      BY <1>1, <2>1, <2>4, BatchRow DEF NoToken
  <2>5. ASSUME NEW w \in Worker, NEW k \in Item,
               CommitSave(w, k) \/ CommitFail(w, k)
        PROVE  row'[i].expires >= row[i].expires
    <3>1. row'[k].token = NoToken
        BY <2>5, SavedRow, FailedRow
    <3>2. k # i
        BY <1>1, <2>1, <3>1 DEF NoToken
    <3>3. row'[i] = row[i]
        BY <2>5, <3>2, SavedRow, FailedRow
    <3>4. QED
        BY <2>1, <3>3
  <2>6. ASSUME NEW w \in Worker, NEW k \in Item, CommitRenew(w, k)
        PROVE  row'[i].expires >= row[i].expires
    <3>1. CASE k # i
        BY <2>1, <2>6, <3>1, RenewedFields
    <3>2. CASE k = i
      <4>1. row'[i].expires = renewal[w][i].now + LeaseSeconds
          BY <2>6, <3>2, RenewedFields
      <4>2. /\ renewal[w][i].pc = "renewed" /\ renewal[w][i].now \in Int
            /\ task[w][i].pc # "none" /\ row[i].token = task[w][i].token
          BY <2>6, <3>2 DEF CommitRenew, CommitsAreFenced, RenewalLocks, Shape, TypeOK, Renewal
      <4>3. row[i].expires <= renewal[w][i].now + LeaseSeconds
          BY <4>2 DEF ClocksRead
      <4>4. QED
          BY <2>1, <4>1, <4>2, <4>3, NumberAssumption
    <3>3. QED
        BY <3>1, <3>2
  <2>7. QED
      BY <1>1, <2>2, <2>3, <2>4, <2>5, <2>6, RowWriters
<1>2. IInv /\ [Next]_vars =>
        [\A i \in Item : row[i].state = "leased" /\ row'[i].token = row[i].token
           => row'[i].expires >= row[i].expires]_vars
    BY <1>1
<1>3. QED
    BY <1>2, InvariantHolds, PTL DEF Spec, RenewalExtends

-----------------------------------------------------------------------------
(* Every lease runs out *)

(* A worker of this owner sees the lease expire within LeaseSeconds. *)
RunsOutFor(i, w) ==
  OwnerOf[w] = row[i].owner /\ row[i].expires <= Now(w) + LeaseSeconds

LEMMA RunOutStep ==
  ASSUME IInv, LeasesRunOut, [Next]_vars, NEW i \in Item, row'[i].state = "leased"
  PROVE  \E w \in Worker : RunsOutFor(i, w)'
<1> USE DEF IInv
<1>1. ASSUME row'[i] = row[i] PROVE \E w \in Worker : RunsOutFor(i, w)'
  <2>1. PICK w \in Worker : RunsOutFor(i, w)
      BY <1>1 DEF LeasesRunOut, RunsOutFor
  <2>2. row[i].expires \in Int /\ Now(w) \in Int
      BY <1>1, ExpiryOf, NowType
  <2>3. Now(w)' \in Int /\ Now(w)' >= Now(w)
      BY ClockGrows
  <2>4. QED
      BY <1>1, <2>1, <2>2, <2>3, NumberAssumption DEF RunsOutFor
<1>2. ASSUME NEW j \in Job, Schedule(j) PROVE row'[i] = row[i]
    BY <1>2, ScheduledRow
<1>3. ASSUME NEW w \in Worker, CommitBatch(w)
      PROVE  row'[i] = row[i] \/ RunsOutFor(i, w)'
  <2>1. CASE i \in acq[w].claim
    <3>1. row'[i].owner = OwnerOf[w] /\ row'[i].expires = acq[w].now + LeaseSeconds
        BY <1>3, <2>1 DEF CommitBatch, ClaimedRow, RowAt
    <3>2. acq[w].now <= Now(w) /\ acq[w].now \in Int
      <4>1. acq[w].pc = "claimed"
          BY <1>3 DEF CommitBatch
      <4>2. QED
          BY <4>1 DEF ClocksRead, TypeOK, Acq
    <3>3. Now(w)' = Now(w) /\ Now(w) \in Int
        BY <1>3, NowType DEF CommitBatch, Now
    <3>4. QED
        BY <3>1, <3>2, <3>3, NumberAssumption DEF RunsOutFor
  <2>2. CASE i \notin acq[w].claim
      BY <1>3, <2>2, BatchRow
  <2>3. QED
      BY <2>1, <2>2
<1>4. ASSUME NEW w \in Worker, NEW k \in Item, CommitSave(w, k) \/ CommitFail(w, k)
      PROVE  row'[i] = row[i]
  <2>1. row'[k].state # "leased"
      BY <1>4, SavedRow, FailedRow
  <2>2. QED
      BY <1>4, <2>1, SavedRow, FailedRow
<1>5. ASSUME NEW w \in Worker, NEW k \in Item, CommitRenew(w, k)
      PROVE  row'[i] = row[i] \/ RunsOutFor(i, w)'
  <2>1. CASE k # i
      BY <1>5, <2>1, RenewedFields
  <2>2. CASE k = i
    <3>1. row'[i].owner = row[i].owner /\ row'[i].expires = renewal[w][i].now + LeaseSeconds
        BY <1>5, <2>2, RenewedFields
    <3>2. renewal[w][i].pc = "renewed" /\ row[i].owner = OwnerOf[w]
        BY <1>5, <2>2 DEF CommitRenew, CommitsAreFenced, RenewalLocks
    <3>3. renewal[w][i].now <= Now(w) /\ renewal[w][i].now \in Int
        BY <3>2 DEF ClocksRead, TypeOK, Renewal
    <3>4. Now(w)' = Now(w) /\ Now(w) \in Int
        BY <1>5, NowType DEF CommitRenew, Now
    <3>5. QED
        BY <3>1, <3>2, <3>3, <3>4, NumberAssumption DEF RunsOutFor
  <2>3. QED
      BY <2>1, <2>2
<1>6. QED
    BY <1>1, <1>2, <1>3, <1>4, <1>5, RowWriters

(* No lease, renewed however often, lasts longer than LeaseSeconds from now  *)
(* for a worker of its owner.                                                *)
THEOREM LeasesEnd == Spec => []LeasesRunOut
<1>1. Init => LeasesRunOut
    BY DEF Init, LeasesRunOut, RowAt
<1>2. IInv /\ LeasesRunOut /\ [Next]_vars => LeasesRunOut'
  <2>1. SUFFICES ASSUME IInv, LeasesRunOut, [Next]_vars PROVE LeasesRunOut'
      OBVIOUS
  <2>2. \A i \in Item : row'[i].state = "leased" => \E w \in Worker : RunsOutFor(i, w)'
      BY <2>1, RunOutStep
  <2>3. QED
      BY <2>2 DEF LeasesRunOut, RunsOutFor
<1>3. QED
    BY <1>1, <1>2, InvariantHolds, PTL DEF Spec

=============================================================================
