----------------------------- MODULE Submission -----------------------------
(***************************************************************************)
(* POST /crawl on any number of API replicas: the quota of a credential,      *)
(* which the replicas share through api_quotas, and the creation of the job   *)
(* with its frontier rows in a second transaction. Replicas keep no state of  *)
(* their own, so a request is all there is of them. A transaction has two      *)
(* steps: what it writes, and the commit that makes it visible; the row of a   *)
(* quota window is locked in between.                                          *)
(***************************************************************************)
EXTENDS Integers, FiniteSets

CONSTANTS
  Request,      \* submissions
  Invalid,      \* those with a wrong credential or a URL that is not public
  Urls,         \* per request: how many URLs it has
  Rows,         \* per request: its URLs after normalization
  MaxRequests,  \* api_requests_per_minute
  MaxUrls,      \* api_urls_per_minute
  KeepMinutes,  \* age at which the row of a window is deleted: 5 in the code
  MaxClock,     \* bound on time, in minutes
  MaxFaults     \* bound on database errors

ASSUME RequestAssumption ==
  /\ IsFiniteSet(Request) /\ Invalid \subseteq Request
  /\ Urls \in [Request -> 1..500]
  /\ \A r \in Request : IsFiniteSet(Rows[r]) /\ Rows[r] # {} /\ Cardinality(Rows[r]) <= Urls[r]
ASSUME NumberAssumption ==
  /\ {MaxRequests, MaxUrls} \subseteq Nat \ {0} /\ {MaxClock, MaxFaults} \subseteq Nat
  /\ KeepMinutes \in Nat \ {0, 1}

VARIABLES
  now,       \* the minute on the database's clock
  quota,     \* committed rows of api_quotas of the credential, by window
  state,     \* per request: where it is
  window,    \* per request: date_trunc('minute', now()), fixed when its transaction begins
  allowed,   \* per request: the upsert returned a row
  answer,    \* per request: the status it was answered with, 0 before
  jobs,      \* committed rows of crawl_jobs
  frontier,  \* per job: its committed rows of crawl_frontier
  faults

vars == <<now, quota, state, window, allowed, answer, jobs, frontier, faults>>

Window == 0..MaxClock
NoRow == [requests |-> 0, urls |-> 0]     \* no row: as good as a row of zeros

TypeOK ==
  /\ now \in Window
  /\ quota \in [Window -> [requests : Nat, urls : Nat]]
  /\ state \in [Request -> {"new", "begun", "upserted", "charged", "created", "ended"}]
  /\ window \in [Request -> Window]
  /\ allowed \in [Request -> BOOLEAN]
  /\ answer \in [Request -> {0, 202, 400, 429, 503}]
  /\ jobs \subseteq Request
  /\ frontier \in [Request -> SUBSET UNION {Rows[r] : r \in Request}]
  /\ faults \in 0..MaxFaults

Init ==
  /\ now = 0 /\ quota = [w \in Window |-> NoRow]
  /\ state = [r \in Request |-> "new"] /\ window = [r \in Request |-> 0]
  /\ allowed = [r \in Request |-> FALSE] /\ answer = [r \in Request |-> 0]
  /\ jobs = {} /\ frontier = [r \in Request |-> {}] /\ faults = 0

To(r, s) == state' = [state EXCEPT ![r] = s]
Answer(r, code) == answer' = [answer EXCEPT ![r] = code]
Fault == faults < MaxFaults /\ faults' = faults + 1

(* A transaction on the quota takes seconds (database_command_timeout): it may *)
(* begin in one minute and end in the next, but not later.                      *)
Open(r) == state[r] \in {"begun", "upserted"}
Tick ==
  /\ now < MaxClock
  /\ \A r \in Request : Open(r) => window[r] = now
  /\ now' = now + 1
  /\ UNCHANGED <<quota, state, window, allowed, answer, jobs, frontier, faults>>

(* 401, 403 and 422 alike: no right to submit jobs, or a URL that is not public. *)
Unfit(r) == r \in Invalid

(* Refused before the quota is asked. *)
Refuse(r) ==
  /\ state[r] = "new" /\ Unfit(r)
  /\ To(r, "ended") /\ Answer(r, 400)
  /\ UNCHANGED <<now, quota, window, allowed, jobs, frontier, faults>>

(* More URLs than a minute has: refused without the database.                  *)
TooMany(r) == Urls[r] > MaxUrls
RefuseTooMany(r) ==
  /\ state[r] = "new" /\ ~Unfit(r) /\ TooMany(r)
  /\ To(r, "ended") /\ Answer(r, 429)
  /\ UNCHANGED <<now, quota, window, allowed, jobs, frontier, faults>>

Begin(r) ==
  /\ state[r] = "new" /\ ~Unfit(r) /\ ~TooMany(r)
  /\ To(r, "begun") /\ window' = [window EXCEPT ![r] = now]
  /\ UNCHANGED <<now, quota, allowed, answer, jobs, frontier, faults>>

Locked(r) == \E q \in Request \ {r} : state[q] = "upserted" /\ window[q] = window[r]

(* The WHERE of the upsert is asked only if there is a row. Like an update, an *)
(* upsert that its WHERE refuses locks the row.                                 *)
Fits(r, row) ==
  row = NoRow \/ (row.requests < MaxRequests /\ row.urls + Urls[r] <= MaxUrls)

UpsertUnlocked(r) ==   \* mutant: reads the counters, then writes them
  /\ state[r] = "begun"
  /\ To(r, "upserted")
  /\ allowed' = [allowed EXCEPT ![r] = Fits(r, quota[window[r]])]
  /\ UNCHANGED <<now, quota, window, answer, jobs, frontier, faults>>
Upsert(r) ==
  /\ state[r] = "begun" /\ ~Locked(r)
  /\ To(r, "upserted")
  /\ allowed' = [allowed EXCEPT ![r] = Fits(r, quota[window[r]])]
  /\ UNCHANGED <<now, quota, window, answer, jobs, frontier, faults>>

ChargedDown(r, row) ==   \* mutant: counts down from no row
  IF allowed[r] THEN [requests |-> row.requests - 1, urls |-> row.urls - Urls[r]] ELSE row
Charged(r, row) ==
  IF allowed[r] THEN [requests |-> row.requests + 1, urls |-> row.urls + Urls[r]] ELSE row

(* The DELETE of windows that began more than KeepMinutes ago, and the commit. *)
Old(r, w) == w <= window[r] - KeepMinutes
CommitGranted(r) ==   \* mutant: a refused request leaves its transaction open
  /\ state[r] = "upserted" /\ allowed[r]
  /\ quota' = [quota EXCEPT ![window[r]] = Charged(r, @)]
  /\ To(r, "charged")
  /\ UNCHANGED <<now, window, allowed, answer, jobs, frontier, faults>>
CommitQuota(r) ==
  /\ state[r] = "upserted"
  /\ quota' = [w \in Window |->
                 IF Old(r, w) THEN NoRow
                 ELSE IF w = window[r] THEN Charged(r, quota[w]) ELSE quota[w]]
  /\ IF allowed[r] THEN To(r, "charged") /\ UNCHANGED answer
                   ELSE To(r, "ended") /\ Answer(r, 429)
  /\ UNCHANGED <<now, window, allowed, jobs, frontier, faults>>

(* The INSERTs of the job and of its rows, not yet visible; no other request   *)
(* has rows of this job.                                                        *)
Create(r) ==
  /\ state[r] = "charged"
  /\ To(r, "created")
  /\ UNCHANGED <<now, quota, window, allowed, answer, jobs, frontier, faults>>

(* FastAPI runs what follows the dependency's yield, the commit, after the      *)
(* response is sent (since 0.118; before it until then: both are allowed).      *)
Respond(r) ==
  /\ state[r] = "created" \/ r \in jobs
  /\ answer[r] = 0 /\ Answer(r, 202)
  /\ UNCHANGED <<now, quota, state, window, allowed, jobs, frontier, faults>>

CommitJobAlone(r) ==   \* mutant: the job is committed without its rows
  /\ state[r] = "created"
  /\ To(r, "ended") /\ jobs' = jobs \cup {r}
  /\ UNCHANGED <<now, quota, window, allowed, answer, frontier, faults>>
CommitJob(r) ==
  /\ state[r] = "created"
  /\ To(r, "ended")
  /\ jobs' = jobs \cup {r} /\ frontier' = [frontier EXCEPT ![r] = Rows[r]]
  /\ UNCHANGED <<now, quota, window, allowed, answer, faults>>

(* A database error: the transaction is rolled back and the client is told,    *)
(* unless it already has its answer. A COMMIT that took effect but raised is    *)
(* CommitQuota and then this, or, once the answer is out, CommitJob.            *)
FailCommits(r) ==   \* mutant: an error does not roll back
  /\ state[r] = "created"
  /\ Fault /\ To(r, "ended")
  /\ Answer(r, 503)
  /\ jobs' = jobs \cup {r} /\ frontier' = [frontier EXCEPT ![r] = Rows[r]]
  /\ UNCHANGED <<now, quota, window, allowed>>
Fail(r) ==
  /\ state[r] \in {"begun", "upserted", "charged", "created"}
  /\ Fault /\ To(r, "ended")
  /\ IF answer[r] = 0 THEN Answer(r, 503) ELSE UNCHANGED answer
  /\ allowed' = [allowed EXCEPT ![r] = @ /\ ~Open(r)]
  /\ UNCHANGED <<now, quota, window, jobs, frontier>>

Step(r) ==
  \/ Refuse(r) \/ RefuseTooMany(r) \/ Begin(r) \/ Upsert(r) \/ CommitQuota(r)
  \/ Create(r) \/ Respond(r) \/ CommitJob(r)

Next == Tick \/ \E r \in Request : Step(r) \/ Fail(r)

Spec == Init /\ [][Next]_vars

(* The event loop and the database carry every request on.                     *)
Fairness == \A r \in Request : WF_vars(Step(r))
FairSpec == Spec /\ Fairness

-----------------------------------------------------------------------------
(* Properties *)

(* The requests of a window that were charged: the quota is a cache of this.   *)
ChargedIn(w) ==
  {r \in Request : allowed[r] /\ window[r] = w /\ state[r] \in {"charged", "created", "ended"}}
UrlsIn(w) == Cardinality(UNION {{r} \X (1..Urls[r]) : r \in ChargedIn(w)})   \* the sum of Urls[r]

(* However replicas interleave, whatever fails and whichever rows are cleaned   *)
(* up meanwhile, no window is charged for more requests or URLs than allowed.   *)
QuotaKept ==
  \A w \in Window : Cardinality(ChargedIn(w)) <= MaxRequests /\ UrlsIn(w) <= MaxUrls

(* A job that can be seen was charged and has all of its rows, and rows that    *)
(* can be seen have a job: a worker or GET never finds half a submission.       *)
JobsAreWhole ==
  \A r \in Request : /\ r \in jobs => allowed[r] /\ frontier[r] = Rows[r]
                     /\ r \notin jobs => frontier[r] = {}

(* A client that was refused or met an error finds no job of its request.      *)
RefusedLeavesNothing == \A r \in jobs : answer[r] \in {0, 202}

(* Every request is answered, although requests wait for each other's lock.    *)
EveryRequestIsAnswered == \A r \in Request : <>(answer[r] # 0)

(* A client that was told 202 can read the job (release.py: the GET after the   *)
(* POST must not fail).                                                         *)
AcceptedIsStored == \A r \in Request : answer[r] = 202 => r \in jobs

=============================================================================
