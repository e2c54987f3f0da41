------------------------------ MODULE Frontier ------------------------------
(***************************************************************************)
(* The durable crawl frontier: the rows of crawl_frontier and pages, and    *)
(* the workers that claim, renew, complete and fail leases on them.         *)
(* Every database transaction is split where another process can run:      *)
(*   - the worker reads ITS OWN clock (the clocks of two hosts may differ);  *)
(*   - the statement looks at the last committed row, waits for the row     *)
(*     lock if its WHERE clause matches, and looks again when it has it;    *)
(*   - the transaction commits (its writes become visible) or rolls back.   *)
(* Row locks are not a variable: they follow from the transactions that     *)
(* are open, so that their exclusiveness is something to be checked.        *)
(***************************************************************************)
EXTENDS Integers, FiniteSets

CONSTANTS
  Item,          \* frontier rows, by id
  Url,           \* normalized URLs of stored pages
  Job,           \* crawl jobs
  Worker,        \* worker processes
  JobOf,         \* the job of a row
  Priority,      \* the priority of a row
  FinalUrls,     \* where the fetch of a row can end, after redirects
  MaxAttempts,   \* crawl_frontier.max_attempts of a row
  Null,          \* SQL NULL in lease_owner and lease_expires_at
  OwnerOf,       \* ATLASPIPE_WORKER_ID of a worker: two workers may share it
  Skew,          \* how far the clock of a worker is from the database's
  LeaseSeconds,  \* frontier_lease_seconds
  BatchSize,     \* min(batch_size, concurrency)
  RetryDelays,   \* the retry_after_seconds a failed attempt can ask for
  MaxClock,      \* bound on time
  MaxFaults      \* bound on crashes and database errors

ASSUME ItemAssumption == Item \subseteq Nat /\ IsFiniteSet(Item)
ASSUME MapAssumption ==
  /\ JobOf \in [Item -> Job]
  /\ Priority \in [Item -> Nat]
  /\ FinalUrls \in [Item -> SUBSET Url]
  /\ MaxAttempts \in [Item -> Nat \ {0}]
  /\ Skew \in [Worker -> Int]
ASSUME NullAssumption == Null \notin Int /\ \A w \in Worker : OwnerOf[w] # Null
ASSUME NumberAssumption ==
  /\ LeaseSeconds \in Nat \ {0}
  /\ BatchSize \in Nat \ {0}
  /\ RetryDelays \subseteq Nat
  /\ MaxClock \in Nat
  /\ MaxFaults \in Nat

Owner == {OwnerOf[w] : w \in Worker}
NoToken == 0                             \* SQL NULL in lease_token

VARIABLES
  clock,     \* the database's clock, in seconds
  row,       \* the committed rows of crawl_frontier
  page,      \* the committed rows of pages: the lease whose result they hold
  issued,    \* how many lease tokens a row has been given
  acq,       \* per worker: its main loop and its claim transaction
  task,      \* per worker and row: the coroutine that processes a lease
  renewal,   \* per worker and row: the coroutine that renews that lease
  faults     \* crashes and database errors so far

vars == <<clock, row, page, issued, acq, task, renewal, faults>>

-----------------------------------------------------------------------------
(* State *)

RowState == {"absent", "pending", "leased", "complete", "dead"}
MainPc == {"down", "idle", "marking", "claimed", "working", "raised"}
TaskPc == {"none", "fetching", "saving", "failing", "saved", "failed"}
RenewalPc == {"idle", "renewing", "renewed", "stopped", "raised"}

Row == [state : RowState, attempt : Nat, created : Int, available : Int,
        owner : Owner \cup {Null}, token : Nat, expires : Int \cup {Null}]
Acq == [pc : MainPc, now : Int, todo : SUBSET Item, dead : SUBSET Item, claim : SUBSET Item]
Task == [pc : TaskPc, token : Nat, now : Int]
Renewal == [pc : RenewalPc, now : Int]
Stored == [item : Item, token : Nat]     \* whose result the page of a URL is
NoPage == [item |-> Null, token |-> NoToken]

Loop(pc, now, todo, dead, claim) ==
  [pc |-> pc, now |-> now, todo |-> todo, dead |-> dead, claim |-> claim]
LoopAt(pc) == Loop(pc, 0, {}, {}, {})
TaskAt(pc, token, now) == [pc |-> pc, token |-> token, now |-> now]
RenewalAt(pc, now) == [pc |-> pc, now |-> now]
NoTask == TaskAt("none", NoToken, 0)
NoRenewal == RenewalAt("idle", 0)
RowAt(state, attempt, created, available, owner, token, expires) ==
  [state |-> state, attempt |-> attempt, created |-> created, available |-> available,
   owner |-> owner, token |-> token, expires |-> expires]
ReleasedHalf(r, state, available) ==   \* mutant: lease_token is not cleared
  [r EXCEPT !.state = state, !.available = available, !.owner = Null, !.expires = Null]
Released(r, state, available) ==
  RowAt(state, r.attempt, r.created, available, Null, NoToken, Null)

Now(w) == clock + Skew[w]

(* What the WHERE clauses say of a committed row: in SQL a comparison with   *)
(* NULL is not true.                                                         *)
Before(e, t) == e # Null /\ e < t
After(e, t) == e # Null /\ e > t
Expired(r, t) == r.state = "leased" /\ Before(r.expires, t)
Due(r, t) == (r.state = "pending" /\ r.available <= t) \/ Expired(r, t)
ClaimableOnceMore(i, t) ==   \* mutant: attempt_count <= max_attempts
  Due(row[i], t) /\ row[i].attempt <= MaxAttempts[i]
Claimable(i, t) == Due(row[i], t) /\ row[i].attempt < MaxAttempts[i]
ExhaustedEarly(i, t) ==   \* mutant: off by one
  Expired(row[i], t) /\ row[i].attempt + 1 >= MaxAttempts[i]
Exhausted(i, t) == Expired(row[i], t) /\ row[i].attempt >= MaxAttempts[i]
ExhaustedRows(t) == {i \in Item : Exhausted(i, t)}
LeaseHeldByOwner(w, i, t) ==   \* mutant: the token is not compared
  row[i].state = "leased" /\ row[i].owner = OwnerOf[w] /\ After(row[i].expires, t)
LeaseHeld(w, i, t) ==
  /\ row[i].state = "leased"
  /\ row[i].owner = OwnerOf[w]
  /\ row[i].token = task[w][i].token
  /\ After(row[i].expires, t)

(* The row locks the open transactions hold. *)
AcqLocks(w, i) == i \in acq[w].dead \cup acq[w].claim
TaskLocks(w, i) == task[w][i].pc \in {"saved", "failed"}
RenewalLocks(w, i) == renewal[w][i].pc = "renewed"
Free(i) == \A w \in Worker : ~AcqLocks(w, i) /\ ~TaskLocks(w, i) /\ ~RenewalLocks(w, i)

(* ORDER BY priority DESC, created_at, id LIMIT n *)
Precedes(i, j) ==
  \/ Priority[i] > Priority[j]
  \/ Priority[i] = Priority[j] /\ row[i].created < row[j].created
  \/ Priority[i] = Priority[j] /\ row[i].created = row[j].created /\ i < j
First(n, S) == {i \in S : Cardinality({j \in S : Precedes(j, i)}) < n}

Init ==
  /\ clock = 0
  /\ row = [i \in Item |-> RowAt("absent", 0, 0, 0, Null, NoToken, Null)]
  /\ page = [u \in Url |-> NoPage]
  /\ issued = [i \in Item |-> 0]
  /\ acq = [w \in Worker |-> LoopAt("idle")]
  /\ task = [w \in Worker |-> [i \in Item |-> NoTask]]
  /\ renewal = [w \in Worker |-> [i \in Item |-> NoRenewal]]
  /\ faults = 0

-----------------------------------------------------------------------------
(* Time and the API *)

Tick ==
  /\ clock < MaxClock
  /\ clock' = clock + 1
  /\ UNCHANGED <<row, page, issued, acq, task, renewal, faults>>

(* The request that creates a job inserts all its rows in one transaction. *)
Schedule(j) ==
  /\ \E i \in Item : JobOf[i] = j
  /\ \A i \in Item : JobOf[i] = j => row[i].state = "absent"
  /\ row' = [i \in Item |->
               IF JobOf[i] = j THEN RowAt("pending", 0, clock, clock, Null, NoToken, Null)
               ELSE row[i]]
  /\ UNCHANGED <<clock, page, issued, acq, task, renewal, faults>>

-----------------------------------------------------------------------------
(* The main loop: claim a batch, process it, start again *)

AcquireBeginNoMark(w) ==   \* mutant: exhausted leases are not buried
  /\ acq[w].pc = "idle"
  /\ acq' = [acq EXCEPT ![w] = Loop("marking", Now(w), {}, {}, {})]
  /\ UNCHANGED <<clock, row, page, issued, task, renewal, faults>>

(* acquire_frontier_batch reads the worker's clock, and the UPDATE that      *)
(* buries exhausted leases takes its snapshot.                               *)
AcquireBegin(w) ==
  /\ acq[w].pc = "idle"
  /\ acq' = [acq EXCEPT ![w] =
                 Loop("marking", Now(w), ExhaustedRows(Now(w)), {}, {})]
  /\ UNCHANGED <<clock, row, page, issued, task, renewal, faults>>

MarkRowNoRecheck(w, i) ==   \* mutant: an UPDATE of the ids that were read before the wait
  /\ acq[w].pc = "marking"
  /\ i \in acq[w].todo
  /\ Free(i)
  /\ acq' = [acq EXCEPT ![w] = Loop("marking", @.now, @.todo \ {i}, @.dead \cup {i}, {})]
  /\ UNCHANGED <<clock, row, page, issued, task, renewal, faults>>

(* The UPDATE has no SKIP LOCKED: it waits for each row, then looks again.   *)
MarkRow(w, i) ==
  /\ acq[w].pc = "marking"
  /\ i \in acq[w].todo
  /\ Exhausted(i, acq[w].now) => Free(i)
  /\ acq' = [acq EXCEPT ![w] =
                 Loop("marking", @.now, @.todo \ {i},
                      IF Exhausted(i, @.now) THEN @.dead \cup {i} ELSE @.dead, {})]
  /\ UNCHANGED <<clock, row, page, issued, task, renewal, faults>>

(* Some of these UPDATEs wait in a ring, each for a row the next one has      *)
(* marked: the server aborts one of them.                                    *)
DeadlockVictim(w) ==
  /\ \E ring \in SUBSET Worker :
       /\ w \in ring
       /\ \A v \in ring : \E u \in ring \ {v} : acq[v].todo \cap acq[u].dead # {}
  /\ acq' = [acq EXCEPT ![w] = LoopAt("raised")]
  /\ UNCHANGED <<clock, row, page, issued, task, renewal, faults>>

EligibleLocked(w) == {i \in Item : Claimable(i, acq[w].now)}   \* mutant: no row locks
Eligible(w) == {i \in Item : Claimable(i, acq[w].now) /\ Free(i)}

(* SELECT ... FOR UPDATE SKIP LOCKED *)
SelectBatch(w) ==
  /\ acq[w].pc = "marking"
  /\ acq[w].todo = {}
  /\ acq' = [acq EXCEPT ![w] =
                 Loop("claimed", @.now, {}, @.dead, First(BatchSize, Eligible(w)))]
  /\ UNCHANGED <<clock, row, page, issued, task, renewal, faults>>

ClaimedRow(w, i) ==
  RowAt("leased", row[i].attempt + 1, row[i].created, row[i].available,
        OwnerOf[w], issued[i] + 1, acq[w].now + LeaseSeconds)

(* Only after the commit does the worker see the leases and start on them.  *)
CommitBatch(w) ==
  LET A == acq[w] IN
  /\ A.pc = "claimed"
  /\ row' = [i \in Item |-> IF i \in A.claim THEN ClaimedRow(w, i)
                            ELSE IF i \in A.dead THEN Released(row[i], "dead", A.now)
                            ELSE row[i]]
  /\ issued' = [i \in Item |-> IF i \in A.claim THEN issued[i] + 1 ELSE issued[i]]
  /\ task' = [task EXCEPT ![w] = [i \in Item |->
                IF i \in A.claim THEN TaskAt("fetching", issued[i] + 1, 0)
                ELSE task[w][i]]]
  /\ acq' = [acq EXCEPT ![w] = LoopAt(IF A.claim = {} THEN "idle" ELSE "working")]
  /\ UNCHANGED <<clock, page, renewal, faults>>

(* gather returns when every lease of the batch has been processed. *)
BatchDone(w) ==
  /\ acq[w].pc = "working"
  /\ \A i \in Item : task[w][i] = NoTask
  /\ acq' = [acq EXCEPT ![w] = LoopAt("idle")]
  /\ UNCHANGED <<clock, row, page, issued, task, renewal, faults>>

AcquireError(w) ==
  /\ acq[w].pc \in {"marking", "claimed"}
  /\ faults < MaxFaults
  /\ faults' = faults + 1
  /\ acq' = [acq EXCEPT ![w] = LoopAt("raised")]
  /\ UNCHANGED <<clock, row, page, issued, task, renewal>>

-----------------------------------------------------------------------------
(* Processing one lease *)

(* The body of _process ends: the renewal is cancelled and awaited, and what *)
(* it raised earlier surfaces here and ends the worker's main loop.          *)
EndTask(w, i) ==
  /\ task' = [task EXCEPT ![w][i] = NoTask]
  /\ renewal' = [renewal EXCEPT ![w][i] = NoRenewal]
  /\ acq' = [acq EXCEPT ![w] = IF renewal[w][i].pc = "raised" THEN LoopAt("raised") ELSE @]

(* The fetch, its retries included, ended; the transaction reads the clock. *)
BeginFinish(w, i) ==
  /\ task[w][i].pc = "fetching"
  /\ \E pc \in {"saving", "failing"} :
       task' = [task EXCEPT ![w][i] = TaskAt(pc, @.token, Now(w))]
  /\ UNCHANGED <<clock, row, page, issued, acq, renewal, faults>>

(* SELECT ... FOR UPDATE finds the lease still held. *)
LockLease(w, i) ==
  /\ task[w][i].pc \in {"saving", "failing"}
  /\ LeaseHeld(w, i, task[w][i].now)
  /\ Free(i)
  /\ task' = [task EXCEPT ![w][i] =
                 TaskAt(IF @.pc = "saving" THEN "saved" ELSE "failed", @.token, 0)]
  /\ UNCHANGED <<clock, row, page, issued, acq, renewal, faults>>

(* It finds no row: the lease expired or went to someone else. *)
RejectStale(w, i) ==
  /\ task[w][i].pc \in {"saving", "failing"}
  /\ ~LeaseHeld(w, i, task[w][i].now)
  /\ EndTask(w, i)
  /\ UNCHANGED <<clock, row, page, issued, faults>>

CommitSavePageOnly(w, i) ==   \* mutant: the page is stored, the row is not completed
  /\ task[w][i].pc = "saved"
  /\ \E u \in FinalUrls[i] :
       page' = [page EXCEPT ![u] = [item |-> i, token |-> task[w][i].token]]
  /\ EndTask(w, i)
  /\ UNCHANGED <<clock, row, issued, faults>>

(* save_page_and_complete_frontier_item: both tables in one transaction. *)
CommitSave(w, i) ==
  /\ task[w][i].pc = "saved"
  /\ \E u \in FinalUrls[i] :
       page' = [page EXCEPT ![u] = [item |-> i, token |-> task[w][i].token]]
  /\ row' = [row EXCEPT ![i] = Released(@, "complete", @.available)]
  /\ EndTask(w, i)
  /\ UNCHANGED <<clock, issued, faults>>

(* fail_frontier_item: back to pending after a delay, or dead. *)
CommitFail(w, i) ==
  /\ task[w][i].pc = "failed"
  /\ \E d \in RetryDelays :
       row' = [row EXCEPT ![i] = IF @.attempt < MaxAttempts[i]
                                 THEN Released(@, "pending", Now(w) + d)
                                 ELSE Released(@, "dead", Now(w))]
  /\ EndTask(w, i)
  /\ UNCHANGED <<clock, page, issued, faults>>

(* The transaction raises, or parsing the page does (a link that urljoin can *)
(* not split): gather raises, the other coroutines run on until the process  *)
(* is gone, and no attempt to fail the row is made.                          *)
FinishError(w, i) ==
  /\ task[w][i].pc # "none"
  /\ faults < MaxFaults
  /\ faults' = faults + 1
  /\ task' = [task EXCEPT ![w][i] = NoTask]
  /\ renewal' = [renewal EXCEPT ![w][i] = NoRenewal]
  /\ acq' = [acq EXCEPT ![w] = LoopAt("raised")]
  /\ UNCHANGED <<clock, row, page, issued>>

-----------------------------------------------------------------------------
(* Renewing one lease *)

BeginRenew(w, i) ==
  /\ task[w][i].pc # "none"
  /\ renewal[w][i].pc = "idle"
  /\ renewal' = [renewal EXCEPT ![w][i] = RenewalAt("renewing", Now(w))]
  /\ UNCHANGED <<clock, row, page, issued, acq, task, faults>>

LockRenew(w, i) ==
  /\ renewal[w][i].pc = "renewing"
  /\ LeaseHeld(w, i, renewal[w][i].now)
  /\ Free(i)
  /\ renewal' = [renewal EXCEPT ![w][i] = RenewalAt("renewed", @.now)]
  /\ UNCHANGED <<clock, row, page, issued, acq, task, faults>>

(* No row was updated: the coroutine returns, the processing goes on. *)
RenewStale(w, i) ==
  /\ renewal[w][i].pc = "renewing"
  /\ ~LeaseHeld(w, i, renewal[w][i].now)
  /\ renewal' = [renewal EXCEPT ![w][i] = RenewalAt("stopped", 0)]
  /\ UNCHANGED <<clock, row, page, issued, acq, task, faults>>

CommitRenewShort(w, i) ==   \* mutant: extended by the renewal interval only
  /\ renewal[w][i].pc = "renewed"
  /\ row' = [row EXCEPT ![i].expires = renewal[w][i].now + (LeaseSeconds \div 3)]
  /\ renewal' = [renewal EXCEPT ![w][i] = NoRenewal]
  /\ UNCHANGED <<clock, page, issued, acq, task, faults>>

CommitRenewOnTop(w, i) ==   \* mutant: added to the expiry instead of the clock
  /\ renewal[w][i].pc = "renewed"
  /\ row' = [row EXCEPT ![i].expires = @ + LeaseSeconds]
  /\ renewal' = [renewal EXCEPT ![w][i] = NoRenewal]
  /\ UNCHANGED <<clock, page, issued, acq, task, faults>>

CommitRenew(w, i) ==
  /\ renewal[w][i].pc = "renewed"
  /\ row' = [row EXCEPT ![i].expires = renewal[w][i].now + LeaseSeconds]
  /\ renewal' = [renewal EXCEPT ![w][i] = NoRenewal]
  /\ UNCHANGED <<clock, page, issued, acq, task, faults>>

RenewError(w, i) ==
  /\ renewal[w][i].pc \in {"renewing", "renewed"}
  /\ faults < MaxFaults
  /\ faults' = faults + 1
  /\ renewal' = [renewal EXCEPT ![w][i] = RenewalAt("raised", 0)]
  /\ UNCHANGED <<clock, row, page, issued, acq, task>>

-----------------------------------------------------------------------------
(* The process *)

Gone(w) ==
  /\ acq' = [acq EXCEPT ![w] = LoopAt("down")]
  /\ task' = [task EXCEPT ![w] = [i \in Item |-> NoTask]]
  /\ renewal' = [renewal EXCEPT ![w] = [i \in Item |-> NoRenewal]]
  /\ UNCHANGED <<clock, row, page, issued>>

(* An exception of the main loop ends the process. *)
Exit(w) == acq[w].pc = "raised" /\ Gone(w) /\ UNCHANGED faults

(* It is killed, or its drain deadline passes: open transactions roll back. *)
Crash(w) ==
  /\ acq[w].pc # "down"
  /\ faults < MaxFaults
  /\ faults' = faults + 1
  /\ Gone(w)

Restart(w) ==
  /\ acq[w].pc = "down"
  /\ acq' = [acq EXCEPT ![w] = LoopAt("idle")]
  /\ UNCHANGED <<clock, row, page, issued, task, renewal, faults>>

ClaimStep(w) ==
  \/ AcquireBegin(w) \/ SelectBatch(w) \/ CommitBatch(w) \/ BatchDone(w)
  \/ DeadlockVictim(w) \/ AcquireError(w)
  \/ \E i \in Item : MarkRow(w, i)

TaskStep(w, i) ==
  \/ BeginFinish(w, i) \/ LockLease(w, i) \/ RejectStale(w, i)
  \/ CommitSave(w, i) \/ CommitFail(w, i) \/ FinishError(w, i)

RenewalStep(w, i) ==
  \/ BeginRenew(w, i) \/ LockRenew(w, i) \/ RenewStale(w, i)
  \/ CommitRenew(w, i) \/ RenewError(w, i)

WorkerStep(w) ==
  \/ ClaimStep(w)
  \/ \E i \in Item : TaskStep(w, i) \/ RenewalStep(w, i)
  \/ Exit(w) \/ Crash(w) \/ Restart(w)

Work == (\E j \in Job : Schedule(j)) \/ (\E w \in Worker : WorkerStep(w))

Next == Tick \/ Work

Spec == Init /\ [][Next]_vars

-----------------------------------------------------------------------------
(* Fairness. Coroutines that can run do run, the orchestrator restarts a     *)
(* stopped worker, and the server hands a row lock to those that wait for it *)
(* in turn (strong fairness) and breaks a ring of waits. Nothing forces a    *)
(* fault or a renewal.                                                       *)

Progress(w) ==
  /\ WF_vars(AcquireBegin(w) \/ SelectBatch(w) \/ CommitBatch(w) \/ BatchDone(w))
  /\ WF_vars(Exit(w) \/ Restart(w))
  /\ WF_vars(DeadlockVictim(w))
  /\ \A i \in Item :
       /\ SF_vars(MarkRow(w, i))
       /\ WF_vars(BeginFinish(w, i) \/ RejectStale(w, i) \/ CommitSave(w, i) \/ CommitFail(w, i))
       /\ SF_vars(LockLease(w, i))
       /\ WF_vars(RenewStale(w, i) \/ CommitRenew(w, i))
Fairness == \A w \in Worker : Progress(w)

-----------------------------------------------------------------------------
(* Job progress as GET /jobs/{id} derives it from the rows of the job *)

Rows(j, states) == {i \in Item : JobOf[i] = j /\ row[i].state \in states}
ProcessedOrBegun(j) == Cardinality(Rows(j, {"leased", "complete", "dead"}))   \* mutant
Processed(j) == Cardinality(Rows(j, {"complete", "dead"}))
JobStatus(j) ==
  IF Rows(j, RowState \ {"absent"}) = {} THEN "pending"
  ELSE IF Rows(j, RowState \ {"absent"}) = Rows(j, {"complete", "dead"})
  THEN IF Rows(j, {"dead"}) # {} THEN "completed_with_errors" ELSE "completed"
  ELSE IF Rows(j, {"leased", "complete", "dead"}) # {} THEN "running" ELSE "pending"

-----------------------------------------------------------------------------
(* Properties *)

(* The types of the variables; a row has an owner, a token and an expiry     *)
(* exactly while it is leased, whichever transaction wrote it.               *)
TypeOK ==
  /\ clock \in Nat
  /\ row \in [Item -> Row]
  /\ page \in [Url -> Stored \cup {NoPage}]
  /\ issued \in [Item -> Nat]
  /\ acq \in [Worker -> Acq]
  /\ task \in [Worker -> [Item -> Task]]
  /\ renewal \in [Worker -> [Item -> Renewal]]
  /\ faults \in Nat
  /\ \A i \in Item : /\ row[i].state = "leased" <=> row[i].token # NoToken
                     /\ row[i].state = "leased" <=> row[i].owner # Null
                     /\ row[i].state = "leased" <=> row[i].expires # Null

(* No two open transactions ever hold the lock of one row: claims of         *)
(* different workers are disjoint (SKIP LOCKED), and no claim overlaps a      *)
(* completion, a failure or a renewal that has not committed yet.            *)
RowLocksExclusive ==
  \A i \in Item : \A v, w \in Worker :
    /\ AcqLocks(v, i) => ~TaskLocks(w, i) /\ ~RenewalLocks(w, i)
    /\ TaskLocks(v, i) => ~RenewalLocks(w, i)
    /\ v # w => /\ ~(AcqLocks(v, i) /\ AcqLocks(w, i))
                /\ ~(TaskLocks(v, i) /\ TaskLocks(w, i))
                /\ ~(RenewalLocks(v, i) /\ RenewalLocks(w, i))
    /\ i \notin acq[v].dead \cap acq[v].claim

(* What a statement found stays true until its transaction commits, however  *)
(* late that is: the row is still leased under the token the coroutine was   *)
(* given, and a row about to be claimed or buried is still up for it.        *)
CommitsAreFenced ==
  \A w \in Worker, i \in Item :
    /\ TaskLocks(w, i) \/ RenewalLocks(w, i) =>
         /\ row[i].state = "leased"
         /\ row[i].owner = OwnerOf[w]
         /\ row[i].token = task[w][i].token
    /\ i \in acq[w].claim => Claimable(i, acq[w].now)
    /\ i \in acq[w].dead => Exhausted(i, acq[w].now)

(* A lease runs out LeaseSeconds from now, at the latest, on the clock of a   *)
(* worker with its owner id: however often it was renewed and however late    *)
(* its commits, a row whose worker dies is up for recovery that soon.         *)
LeasesRunOut ==
  \A i \in Item : row[i].state = "leased" =>
    \E w \in Worker : OwnerOf[w] = row[i].owner /\ row[i].expires <= Now(w) + LeaseSeconds

(* A stored page is the result of the last lease its row was given, and the  *)
(* row is complete; a complete row has a stored page. A worker whose lease   *)
(* was taken over can not have stored what it fetched.                       *)
PagesMatchCompletions ==
  /\ \A u \in Url : page[u] # NoPage =>
       /\ row[page[u].item].state = "complete"
       /\ page[u].token = issued[page[u].item]
  /\ \A i \in Item : row[i].state = "complete" => \E u \in FinalUrls[i] : page[u] # NoPage

(* A row is handed out at most max_attempts times over crashes, expiries and *)
(* failures, is buried only when all of them are used, and completes only    *)
(* after one.                                                                *)
AttemptBudgetKept ==
  \A i \in Item :
    /\ row[i].attempt = issued[i]
    /\ issued[i] <= MaxAttempts[i]
    /\ row[i].state = "dead" => issued[i] = MaxAttempts[i]
    /\ row[i].state = "complete" => issued[i] > 0

(* complete and dead are final: no late claim, renewal, completion or        *)
(* failure touches such a row again.                                         *)
SettledForever ==
  [][\A i \in Item : row[i].state \in {"complete", "dead"} => row'[i] = row[i]]_vars

(* A leased row changes only by a commit of the coroutine, or its renewal,    *)
(* that has the lease's token, or by the claim or burial of a worker whose    *)
(* own clock is past the expiry: a claim never overrides a renewal that       *)
(* committed before it.                                                       *)
HolderCommits(w, i) ==
  /\ task[w][i].token = row[i].token
  /\ \/ TaskLocks(w, i) /\ task'[w][i].pc = "none"
     \/ RenewalLocks(w, i) /\ renewal'[w][i].pc = "idle"
LeaseNotStolen ==
  [][\A i \in Item : row[i].state = "leased" /\ row'[i] # row[i] =>
       \E w \in Worker : \/ HolderCommits(w, i)
                         \/ AcqLocks(w, i) /\ ~AcqLocks(w, i)' /\ row[i].expires < Now(w)]_vars

(* A renewal never shortens the lease it renews, although the clock it adds  *)
(* to was read before it waited for the row.                                 *)
RenewalExtends ==
  [][\A i \in Item : row[i].state = "leased" /\ row'[i].token = row[i].token
       => row'[i].expires >= row[i].expires]_vars

(* What a client polls never goes back, although rows go back from leased to *)
(* pending: the processed count only grows, and a job is completed for good.  *)
JobProgressMonotone ==
  [][\A j \in Job :
       /\ Processed(j)' >= Processed(j)
       /\ JobStatus(j) \in {"completed", "completed_with_errors"}
            => JobStatus(j)' = JobStatus(j)]_vars

(* Every scheduled row is settled at last: an abandoned lease is recovered,  *)
(* a failed attempt is retried, and a row without tries left is buried.      *)
EveryRowSettles ==
  \A i \in Item : row[i].state # "absent" ~> row[i].state \in {"complete", "dead"}

(* The frontier implements the work queue its clients rely on. *)
statusBar ==
  [i \in Item |-> CASE row[i].state = "absent" -> "absent"
                    [] row[i].state \in {"pending", "leased"} -> "open"
                    [] row[i].state = "complete" -> "done"
                    [] row[i].state = "dead" -> "dead"]
triesBar == [i \in Item |-> row[i].attempt]
pagesBar == {u \in Url : page[u] # NoPage}

WQ == INSTANCE WorkQueue WITH status <- statusBar, tries <- triesBar, pages <- pagesBar

ImplementsWorkQueue == WQ!Spec

=============================================================================
