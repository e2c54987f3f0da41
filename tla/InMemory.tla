------------------------------ MODULE InMemory ------------------------------
(***************************************************************************)
(* InMemoryRepository, the stand-in for PostgreSQL behind which the tests and  *)
(* demos run the API and the workers. Its methods never suspend, so each is    *)
(* one step; a lease is told by its token, which only its owner has.           *)
(***************************************************************************)
EXTENDS Integers, FiniteSets

CONSTANTS
  Item, Url, Job, JobOf, Priority, FinalUrls, MaxAttempts,  \* as in Frontier
  LeaseSeconds, BatchSize, RetryDelays,
  MaxClock      \* bound on time

ASSUME NumberAssumption ==
  /\ Item \subseteq Nat \ {0} /\ IsFiniteSet(Item)
  /\ JobOf \in [Item -> Job] /\ Priority \in [Item -> Nat]
  /\ FinalUrls \in [Item -> SUBSET Url] /\ MaxAttempts \in [Item -> Nat \ {0}]
  /\ {LeaseSeconds, BatchSize} \subseteq Nat \ {0}
  /\ RetryDelays \subseteq Nat /\ MaxClock \in Nat

VARIABLES
  clock,   \* datetime.now(UTC)
  item,    \* the dictionaries in frontier
  given,   \* per row: how many lease tokens were made for it
  page,    \* per URL: the row whose page is stored, 0 if none
  held     \* the leases workers were given and have not done with

vars == <<clock, item, given, page, held>>

NoToken == 0
NoPage == 0
Lease == [item : Item, token : Nat]

TypeOK ==
  /\ clock \in Nat
  /\ item \in [Item -> [state : {"absent", "pending", "leased", "complete", "dead"},
                        attempt : Nat, available : Nat, token : Nat, expires : Nat]]
  /\ given \in [Item -> Nat]
  /\ page \in [Url -> Item \cup {NoPage}]
  /\ held \subseteq Lease
  /\ \A i \in Item : (item[i].state = "leased") <=> (item[i].token # NoToken)

ItemAt(state, attempt, available, token, expires) ==
  [state |-> state, attempt |-> attempt, available |-> available, token |-> token, expires |-> expires]

Init ==
  /\ clock = 0
  /\ item = [i \in Item |-> ItemAt("absent", 0, 0, NoToken, 0)]
  /\ given = [i \in Item |-> 0] /\ page = [u \in Url |-> NoPage] /\ held = {}

Tick == clock < MaxClock /\ clock' = clock + 1 /\ UNCHANGED <<item, given, page, held>>

(* create_job and schedule_frontier_urls *)
Schedule(j) ==
  /\ \A i \in Item : JobOf[i] = j => item[i].state = "absent"
  /\ item' = [i \in Item |-> IF JobOf[i] = j THEN ItemAt("pending", 0, clock, NoToken, 0) ELSE item[i]]
  /\ UNCHANGED <<clock, given, page, held>>

Expired(i) == item[i].state = "leased" /\ item[i].expires < clock
Due(i) == (item[i].state = "pending" /\ item[i].available <= clock) \/ Expired(i)
Exhausted(i) == item[i].attempt >= MaxAttempts[i]

Precedes(i, j) == Priority[i] > Priority[j] \/ (Priority[i] = Priority[j] /\ i < j)
First(n, S) == {i \in S : Cardinality({j \in S : Precedes(j, i)}) < n}

Released(i, state, available) == ItemAt(state, item[i].attempt, available, NoToken, 0)
Claimed(i) == ItemAt("leased", item[i].attempt + 1, item[i].available, given[i] + 1, clock + LeaseSeconds)

(* Rows whose last lease expired are buried, the first of those that are due   *)
(* are leased.                                                                  *)
AcquireAnyLease ==   \* mutant: a lease need not have expired
  LET claim == First(BatchSize, {i \in Item : item[i].state \in {"pending", "leased"} /\ ~Exhausted(i)})
  IN /\ item' = [i \in Item |-> IF i \in claim THEN Claimed(i) ELSE item[i]]
     /\ given' = [i \in Item |-> IF i \in claim THEN given[i] + 1 ELSE given[i]]
     /\ held' = held \cup {[item |-> i, token |-> given[i] + 1] : i \in claim}
     /\ UNCHANGED <<clock, page>>
Acquire ==
  LET dead == {i \in Item : Expired(i) /\ Exhausted(i)}
      claim == First(BatchSize, {i \in Item : Due(i) /\ ~Exhausted(i)})
  IN /\ item' = [i \in Item |-> IF i \in dead THEN Released(i, "dead", clock)
                                ELSE IF i \in claim THEN Claimed(i) ELSE item[i]]
     /\ given' = [i \in Item |-> IF i \in claim THEN given[i] + 1 ELSE given[i]]
     /\ held' = held \cup {[item |-> i, token |-> given[i] + 1] : i \in claim}
     /\ UNCHANGED <<clock, page>>

(* The test every write makes. The moment of expiry is neither here nor in     *)
(* Expired: nobody may act in it.                                               *)
Valid(l) ==
  /\ item[l.item].state = "leased" /\ item[l.item].token = l.token
  /\ item[l.item].expires > clock

Renew(l) ==
  /\ Valid(l)
  /\ item' = [item EXCEPT ![l.item].expires = clock + LeaseSeconds]
  /\ UNCHANGED <<clock, given, page, held>>

(* save_pages: unlike PostgreSQL, it keeps the page that is stored first.       *)
SavePages(l, u) == page' = [page EXCEPT ![u] = IF @ = NoPage THEN l.item ELSE @]

Save(l, u) ==
  /\ Valid(l)
  /\ item' = [item EXCEPT ![l.item] = Released(l.item, "complete", @.available)]
  /\ SavePages(l, u)
  /\ held' = held \ {l}
  /\ UNCHANGED <<clock, given>>

FailAlwaysBuries(l, d) ==   \* mutant: no second attempt
  /\ Valid(l)
  /\ item' = [item EXCEPT ![l.item] = Released(l.item, "dead", clock + d)]
  /\ held' = held \ {l}
  /\ UNCHANGED <<clock, given, page>>
Fail(l, d) ==
  /\ Valid(l)
  /\ item' = [item EXCEPT ![l.item] =
                Released(l.item, IF Exhausted(l.item) THEN "dead" ELSE "pending", clock + d)]
  /\ held' = held \ {l}
  /\ UNCHANGED <<clock, given, page>>

(* A write with a lease that is no longer valid returns False; so ends the work *)
(* of a worker that was cancelled, too.                                          *)
Drop(l) ==
  /\ held' = held \ {l}
  /\ UNCHANGED <<clock, item, given, page>>

Next ==
  \/ Tick \/ Acquire
  \/ \E j \in Job : Schedule(j)
  \/ \E l \in held : \/ Renew(l) \/ Drop(l)
                     \/ \E u \in FinalUrls[l.item] : Save(l, u)
                     \/ \E d \in RetryDelays : Fail(l, d)

Spec == Init /\ [][Next]_vars

-----------------------------------------------------------------------------
(* Properties *)

(* A lease that has not expired is ended only by the worker that holds it, as    *)
(* it completes or fails the row; acquire hands no such row on, not even one     *)
(* whose worker has given up.                                                    *)
LeaseOf(i) == [item |-> i, token |-> item[i].token]
LeaseNotStolen ==
  [][\A i \in Item :
       item[i].state = "leased" /\ item[i].expires >= clock =>
         \/ item'[i].token = item[i].token
         \/ LeaseOf(i) \in held \ held' /\ given' = given]_vars

(* The tests' repository keeps the promise of the real one (WorkQueue).         *)
StatusOf(i) == CASE item[i].state = "absent" -> "absent"
                 [] item[i].state \in {"pending", "leased"} -> "open"
                 [] item[i].state = "complete" -> "done"
                 [] item[i].state = "dead" -> "dead"
statusBar == [i \in Item |-> StatusOf(i)]
triesBar == [i \in Item |-> item[i].attempt]
pagesBar == {u \in Url : page[u] # NoPage}

WQ == INSTANCE WorkQueue WITH status <- statusBar, tries <- triesBar, pages <- pagesBar
ImplementsWorkQueue == WQ!Spec

=============================================================================
