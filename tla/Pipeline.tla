------------------------------ MODULE Pipeline ------------------------------
(***************************************************************************)
(* The in-process crawl pipeline: a driver feeds URLs and then one sentinel  *)
(* per worker into a bounded queue, workers turn URLs into pages, a writer    *)
(* collects pages from a second bounded queue into batches. All of them are   *)
(* coroutines of one event loop, so a step runs from one await to the next.   *)
(***************************************************************************)
EXTENDS Naturals, Sequences, FiniteSets

CONSTANTS
  Worker,         \* worker coroutines, max_concurrency of them
  Inputs,         \* the lists of URLs that run() is given
  Invalid,        \* URLs that validate_public_url rejects
  Malformed,      \* URLs that urlsplit raises a ValueError on
  Unparsable,     \* URLs whose page can hold a link that urljoin raises a ValueError on
  DomainOf,       \* the host of a URL
  Page,           \* page records
  PagesOf,        \* the pages the fetch of a URL can give, {} if it always fails
  NormalizedUrl,  \* of a page
  ContentHash,    \* of a page
  Sentinel,       \* None
  QueueSize,      \* bound of both queues
  BatchSize,      \* batch_size
  PerDomain,      \* per_domain_concurrency
  WriterMayFail   \* whether save_pages can raise

UrlSet == UNION {{list[n] : n \in DOMAIN list} : list \in Inputs}
Domain == {DomainOf[u] : u \in UrlSet}

ASSUME WorkerAssumption == IsFiniteSet(Worker) /\ Worker # {}
ASSUME UrlAssumption ==
  /\ Inputs \subseteq Seq(UrlSet)
  /\ Invalid \cup Malformed \cup Unparsable \subseteq UrlSet
  /\ Invalid \cap Malformed = {}
  /\ PagesOf \in [UrlSet -> SUBSET Page]
ASSUME SentinelAssumption == Sentinel \notin UrlSet /\ Sentinel \notin Page
ASSUME SizeAssumption ==
  /\ {QueueSize, BatchSize, PerDomain} \subseteq Nat \ {0}
  /\ WriterMayFail \in BOOLEAN

VARIABLES
  urls,        \* the argument of run()
  fed,         \* how many items the driver has put into the queue
  queue,       \* URLs and sentinels
  unfinished,  \* items put and not yet marked with task_done
  output,      \* pages and the writer's sentinel
  driver,      \* where run() is
  worker,      \* where a worker is, and the URL or page it holds
  permits,     \* per domain: the value of its semaphore
  seen,        \* the deduplicator: normalized URLs and content hashes
  count,       \* counters: processed, failed, duplicates
  writer,      \* where the writer is
  batch,       \* pages it has collected
  stored       \* pages save_pages has written, in order

vars == <<urls, fed, queue, unfinished, output, driver, worker, permits, seen, count, writer, batch, stored>>
queues == <<urls, fed, queue, unfinished, output>>

DriverPc == {"feeding", "joining", "closing", "awaiting", "gathering", "returned", "raised"}
WorkerPc == {"getting", "limited", "fetching", "putting", "done", "raised"}
WriterPc == {"getting", "saving", "closing", "done", "raised"}

TypeOK ==
  /\ urls \in Inputs
  /\ fed \in 0..(Len(urls) + Cardinality(Worker))
  /\ queue \in Seq(UrlSet \cup {Sentinel}) /\ Len(queue) <= QueueSize
  /\ unfinished \in Nat
  /\ output \in Seq(Page \cup {Sentinel}) /\ Len(output) <= QueueSize
  /\ driver \in DriverPc
  /\ worker \in [Worker -> [pc : WorkerPc, item : UrlSet \cup Page \cup {Sentinel}]]
  /\ permits \in [Domain -> 0..PerDomain]
  /\ seen \in [urls : SUBSET {NormalizedUrl[p] : p \in Page}, hashes : SUBSET {ContentHash[p] : p \in Page}]
  /\ count \in [processed : Nat, failed : Nat, duplicates : Nat]
  /\ writer \in WriterPc
  /\ batch \in Seq(Page) /\ Len(batch) <= BatchSize
  /\ stored \in Seq(Page)

At(pc, item) == [pc |-> pc, item |-> item]

Init ==
  /\ urls \in Inputs
  /\ fed = 0 /\ queue = <<>> /\ unfinished = 0 /\ output = <<>>
  /\ driver = "feeding"
  /\ worker = [w \in Worker |-> At("getting", Sentinel)]
  /\ permits = [d \in Domain |-> PerDomain]
  /\ seen = [urls |-> {}, hashes |-> {}]
  /\ count = [processed |-> 0, failed |-> 0, duplicates |-> 0]
  /\ writer = "getting" /\ batch = <<>> /\ stored = <<>>

-----------------------------------------------------------------------------
(* The driver: run() *)

Feed(item) ==
  /\ Len(queue) < QueueSize
  /\ queue' = Append(queue, item)
  /\ fed' = fed + 1
  /\ unfinished' = unfinished + 1

FeedUrl ==
  /\ fed < Len(urls)
  /\ Feed(urls[fed + 1])
  /\ UNCHANGED <<urls, output, driver, worker, permits, seen, count, writer, batch, stored>>

OneSentinel ==   \* mutant: one sentinel for all workers
  /\ driver = "feeding"
  /\ fed = Len(urls)
  /\ Feed(Sentinel)
  /\ driver' = "joining"
  /\ UNCHANGED <<urls, output, worker, permits, seen, count, writer, batch, stored>>

FeedSentinel ==
  /\ fed >= Len(urls) /\ fed < Len(urls) + Cardinality(Worker)
  /\ Feed(Sentinel)
  /\ driver' = IF fed' = Len(urls) + Cardinality(Worker) THEN "joining" ELSE driver
  /\ UNCHANGED <<urls, output, worker, permits, seen, count, writer, batch, stored>>

(* queue.join(): every item was taken and marked done. *)
Joined ==
  /\ driver = "joining" /\ unfinished = 0
  /\ driver' = "closing"
  /\ UNCHANGED <<queues, worker, permits, seen, count, writer, batch, stored>>

CloseOutput ==
  /\ driver = "closing" /\ Len(output) < QueueSize
  /\ output' = Append(output, Sentinel)
  /\ driver' = "awaiting"
  /\ UNCHANGED <<urls, fed, queue, unfinished, worker, permits, seen, count, writer, batch, stored>>

(* saved = await writer *)
AwaitWriter ==
  /\ driver = "awaiting" /\ writer \in {"done", "raised"}
  /\ driver' = IF writer = "done" THEN "gathering" ELSE "raised"
  /\ UNCHANGED <<queues, worker, permits, seen, count, writer, batch, stored>>

(* await asyncio.gather(workers): all are done, for join() does not return    *)
(* while the sentinel of a worker that raised is in the queue.                *)
Gather ==
  /\ driver = "gathering"
  /\ \A w \in Worker : worker[w].pc = "done"
  /\ driver' = "returned"
  /\ UNCHANGED <<queues, worker, permits, seen, count, writer, batch, stored>>

-----------------------------------------------------------------------------
(* A worker *)

TaskDone == unfinished' = unfinished - 1
Again(w) == worker' = [worker EXCEPT ![w] = At("getting", Sentinel)]
Count(c) == count' = [count EXCEPT ![c] = @ + 1]

(* queue.get() returns; all that needs no await is done at once. *)
Get(w) ==
  /\ worker[w].pc = "getting" /\ queue # <<>>
  /\ queue' = Tail(queue)
  /\ LET item == Head(queue) IN
     \/ /\ item = Sentinel
        /\ worker' = [worker EXCEPT ![w] = At("done", Sentinel)]
        /\ TaskDone /\ UNCHANGED count
     \/ /\ item \in Malformed
        /\ worker' = [worker EXCEPT ![w] = At("raised", Sentinel)]
        /\ TaskDone /\ UNCHANGED count
     \/ /\ item \in Invalid
        /\ Again(w) /\ Count("failed") /\ TaskDone
     \/ /\ item \in UrlSet \ (Malformed \cup Invalid)
        /\ worker' = [worker EXCEPT ![w] = At("limited", item)]
        /\ UNCHANGED <<unfinished, count>>
  /\ UNCHANGED <<urls, fed, output, driver, permits, seen, writer, batch, stored>>

(* The token bucket lets it pass, and the semaphore of its domain. *)
StartFetch(w) ==
  LET d == DomainOf[worker[w].item] IN
  /\ worker[w].pc = "limited" /\ permits[d] > 0
  /\ permits' = [permits EXCEPT ![d] = @ - 1]
  /\ worker' = [worker EXCEPT ![w].pc = "fetching"]
  /\ UNCHANGED <<queues, driver, seen, count, writer, batch, stored>>

Release(w) == permits' = [permits EXCEPT ![DomainOf[worker[w].item]] = @ + 1]

(* The fetch failed, or what it got is not HTML. *)
FetchFails(w) ==
  /\ worker[w].pc = "fetching"
  /\ Release(w) /\ Again(w) /\ Count("failed") /\ TaskDone
  /\ UNCHANGED <<urls, fed, queue, output, driver, seen, writer, batch, stored>>

(* check_and_remember *)
SeenUrl(p) == NormalizedUrl[p] \in seen.urls   \* mutant: the content hash is not looked at
Seen(p) == NormalizedUrl[p] \in seen.urls \/ ContentHash[p] \in seen.hashes
Remember(p) == seen' = [urls |-> seen.urls \cup {NormalizedUrl[p]},
                        hashes |-> seen.hashes \cup {ContentHash[p]}]

FetchedDoneEarly(w) ==   \* mutant: task_done before the page is in the output queue
  /\ worker[w].pc = "fetching"
  /\ Release(w)
  /\ \E p \in PagesOf[worker[w].item] :
       /\ Remember(p)
       /\ IF Seen(p)
          THEN Again(w) /\ Count("duplicates")
          ELSE Count("processed") /\ worker' = [worker EXCEPT ![w] = At("putting", p)]
  /\ TaskDone
  /\ UNCHANGED <<urls, fed, queue, output, driver, writer, batch, stored>>

(* A page: the deduplicator looks and remembers without an await between. *)
Fetched(w) ==
  /\ worker[w].pc = "fetching"
  /\ Release(w)
  /\ \E p \in PagesOf[worker[w].item] :
       /\ Remember(p)
       /\ IF Seen(p)
          THEN Again(w) /\ Count("duplicates") /\ TaskDone
          ELSE /\ Count("processed") /\ UNCHANGED unfinished
               /\ worker' = [worker EXCEPT ![w] = At("putting", p)]
  /\ UNCHANGED <<urls, fed, queue, output, driver, writer, batch, stored>>

(* Parsing raises: finally marks the item done, and the worker is gone.      *)
ParseRaises(w) ==
  /\ worker[w].pc = "fetching" /\ worker[w].item \in Unparsable
  /\ Release(w) /\ TaskDone
  /\ worker' = [worker EXCEPT ![w] = At("raised", Sentinel)]
  /\ UNCHANGED <<urls, fed, queue, output, driver, seen, count, writer, batch, stored>>

(* output.put(page), then task_done. *)
PutPage(w) ==
  /\ worker[w].pc = "putting" /\ Len(output) < QueueSize
  /\ output' = Append(output, worker[w].item)
  /\ Again(w) /\ TaskDone
  /\ UNCHANGED <<urls, fed, queue, driver, permits, seen, count, writer, batch, stored>>

-----------------------------------------------------------------------------
(* The writer *)

(* output.get() returns a page, or the sentinel. *)
Collect ==
  /\ writer = "getting" /\ output # <<>>
  /\ output' = Tail(output)
  /\ IF Head(output) = Sentinel
     THEN writer' = (IF batch = <<>> THEN "done" ELSE "closing") /\ UNCHANGED batch
     ELSE /\ batch' = Append(batch, Head(output))
          /\ writer' = IF Len(batch') >= BatchSize THEN "saving" ELSE "getting"
  /\ UNCHANGED <<urls, fed, queue, unfinished, driver, worker, permits, seen, count, stored>>

SaveNoClear ==   \* mutant: the batch is not cleared
  /\ writer \in {"saving", "closing"}
  /\ stored' = stored \o batch
  /\ batch' = IF writer = "saving" THEN Tail(batch) ELSE <<>>
  /\ writer' = IF writer = "saving" THEN "getting" ELSE "done"
  /\ UNCHANGED <<queues, driver, worker, permits, seen, count>>

Save ==
  /\ writer \in {"saving", "closing"}
  /\ stored' = stored \o batch
  /\ batch' = <<>>
  /\ writer' = IF writer = "saving" THEN "getting" ELSE "done"
  /\ UNCHANGED <<queues, driver, worker, permits, seen, count>>

SaveFails ==
  /\ WriterMayFail
  /\ writer \in {"saving", "closing"}
  /\ writer' = "raised"
  /\ UNCHANGED <<queues, driver, worker, permits, seen, count, batch, stored>>

-----------------------------------------------------------------------------
Drive == FeedUrl \/ FeedSentinel \/ Joined \/ CloseOutput \/ AwaitWriter \/ Gather
Step(w) == Get(w) \/ StartFetch(w) \/ FetchFails(w) \/ Fetched(w) \/ ParseRaises(w) \/ PutPage(w)
Write == Collect \/ Save \/ SaveFails

Next == Drive \/ Write \/ \E w \in Worker : Step(w)

Spec == Init /\ [][Next]_vars

(* The event loop runs every coroutine that can run. A semaphore serves its   *)
(* waiters in turn, so a worker that can pass again and again does.            *)
Fairness ==
  /\ WF_vars(Drive) /\ WF_vars(Write)
  /\ \A w \in Worker : /\ WF_vars(Get(w) \/ FetchFails(w) \/ Fetched(w))
                       /\ WF_vars(PutPage(w))
                       /\ SF_vars(StartFetch(w))

FairSpec == Spec /\ Fairness

-----------------------------------------------------------------------------
(* Properties *)

Ended == driver \in {"returned", "raised"}
Broken == writer = "raised" \/ \E w \in Worker : worker[w].pc = "raised"
Holding == {w \in Worker : worker[w].pc \in {"limited", "fetching", "putting"}}

(* queue.join() is what makes the writer's sentinel the last thing in the      *)
(* output: past it no worker holds a URL or a page, and every URL is counted.  *)
JoinMeansDone ==
  driver \in {"closing", "awaiting", "gathering", "returned"} =>
    /\ Holding = {} /\ queue = <<>>
    /\ \A n \in 1..(Len(output) - 1) : output[n] # Sentinel
    /\ fed = Len(urls) + Cardinality(Worker)

(* run() returns only when all pages it counted as processed are stored, and   *)
(* the three counters together are the URLs requested.                         *)
NothingLost ==
  driver = "returned" =>
    /\ Len(stored) = count.processed
    /\ count.processed + count.failed + count.duplicates = Len(urls)

(* No two pages that reach the writer share a normalized URL or a content      *)
(* hash. INSERT ... ON CONFLICT refuses a statement with a URL twice.           *)
RowsDistinct ==
  LET written == stored \o batch IN
  \A m, n \in DOMAIN written :
    m # n => /\ NormalizedUrl[written[m]] # NormalizedUrl[written[n]]
             /\ ContentHash[written[m]] # ContentHash[written[n]]

(* Unless a coroutine raised, run() ends: no queue stays full, no worker       *)
(* waits for a permit or for a sentinel for ever.                              *)
Terminates == <>(Ended \/ Broken)

(* Invalid URLs fail their own processing and not the whole job.               *)
JobEnds == <>Ended

=============================================================================
