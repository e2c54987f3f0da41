--------------------------- MODULE PipelineProofs ---------------------------
(***************************************************************************)
(* Proofs about the crawl pipeline. Books keeps the accounts: every item that *)
(* was fed is in the queue, with a worker, or counted; every page counted as   *)
(* processed is on its way to the database. Course says how far the driver     *)
(* and the writer are, Apart that no page on that way resembles another.       *)
(***************************************************************************)
EXTENDS Pipeline, FiniteSetTheorems, SequenceTheorems, TLAPS

All == Len(urls) + Cardinality(Worker)
In(P) == {w \in Worker : worker[w].pc \in P}
Busy == {"limited", "fetching", "putting"}         \* these have not called task_done
Taken == {"limited", "fetching", "done", "raised"}  \* what these took is not counted
FetchesOf(d) == {w \in Worker : worker[w].pc = "fetching" /\ DomainOf[worker[w].item] = d}

(* The item of a worker is a URL until it has been fetched.                    *)
Items ==
  \A w \in Worker :
    /\ worker[w].pc \in {"limited", "fetching"} => worker[w].item \in UrlSet
    /\ worker[w].pc = "putting" => worker[w].item \in Page

Early == {"feeding", "joining", "closing"}   \* the sentinel of the writer is not yet put
Course ==
  /\ driver = "feeding" <=> fed < All
  /\ driver \notin {"feeding", "joining"} => In(Busy) = {} /\ queue = <<>>
  /\ \A n \in 1..Len(output) : output[n] = Sentinel => n = Len(output) /\ driver \notin Early
  /\ writer \in {"closing", "done"} => driver \notin Early /\ output = <<>>
  /\ writer = "done" => batch = <<>>
  /\ writer = "getting" => Len(batch) < BatchSize
  /\ driver \in {"gathering", "returned"} => writer = "done"
  /\ driver = "returned" => \A w \in Worker : worker[w].pc = "done"

Finished == count.processed + count.failed + count.duplicates
LastOut == IF driver \notin Early /\ writer \in {"getting", "saving"} THEN 1 ELSE 0
Books ==
  /\ unfinished = Len(queue) + Cardinality(In(Busy))
  /\ fed = Len(queue) + Cardinality(In(Taken)) + Finished
  /\ writer # "raised" =>
       count.processed + LastOut = Len(stored) + Len(batch) + Len(output) + Cardinality(In({"putting"}))
  /\ \A d \in Domain : permits[d] + Cardinality(FetchesOf(d)) = PerDomain

(* Two pages that a statement may not write both. Pages move along one line,    *)
(* from the output queue through the batch into the database, and do not change  *)
(* their place on it.                                                             *)
Alike(p, q) == NormalizedUrl[p] = NormalizedUrl[q] \/ ContentHash[p] = ContentHash[q]
Known(s, p) == NormalizedUrl[p] \in s.urls /\ ContentHash[p] \in s.hashes
Line == (stored \o batch) \o output
OnLine == {n \in DOMAIN Line : Line[n] # Sentinel}
Apart ==
  /\ \A n \in OnLine : Known(seen, Line[n])
  /\ \A w \in In({"putting"}) : Known(seen, worker[w].item)
  /\ \A m, n \in OnLine : m # n => ~Alike(Line[m], Line[n])
  /\ \A v, w \in In({"putting"}) : v # w => ~Alike(worker[v].item, worker[w].item)
  /\ \A n \in OnLine, w \in In({"putting"}) : ~Alike(Line[n], worker[w].item)

Inv == TypeOK /\ Items /\ Course /\ Books

-----------------------------------------------------------------------------
(* Counting workers                                                           *)

WorkerSet == [pc : WorkerPc, item : UrlSet \cup Page \cup {Sentinel}]

LEMMA WorkersFinite ==
  ASSUME NEW S \in SUBSET Worker
  PROVE  IsFiniteSet(S) /\ Cardinality(S) \in Nat /\ (Cardinality(S) = 0 => S = {})
BY WorkerAssumption, FS_Subset, FS_CardinalityType, FS_EmptySet

LEMMA AllPositive == Cardinality(Worker) \in Nat \ {0}
<1>1. IsFiniteSet(Worker) /\ Worker # {}
    BY WorkerAssumption
<1>2. Cardinality(Worker) \in Nat /\ Cardinality(Worker) # 0
    BY <1>1, FS_CardinalityType, FS_EmptySet
<1>3. QED
    BY <1>2

Has(P, pc) == IF pc \in P THEN 1 ELSE 0
Uses(d, pc, x) == IF pc = "fetching" /\ DomainOf[x] = d THEN 1 ELSE 0

(* What one worker does to the number of those in some of its states.         *)
LEMMA Moved ==
  ASSUME worker \in [Worker -> WorkerSet], NEW w \in Worker, NEW pc, NEW x, NEW P,
         worker' = [worker EXCEPT ![w] = At(pc, x)]
  PROVE  /\ Cardinality(In(P)) \in Nat /\ Cardinality(In(P)') \in Nat
         /\ Cardinality(In(P)') =
              Cardinality(In(P)) + Has(P, pc) - Has(P, worker[w].pc)
<1>1. In(P) \in SUBSET Worker
    BY DEF In
<1>2. IsFiniteSet(In(P)) /\ Cardinality(In(P)) \in Nat
    BY <1>1, WorkersFinite
<1>3. \A v \in Worker : worker'[v].pc = IF v = w THEN pc ELSE worker[v].pc
    BY DEF At
<1>4. CASE pc \in P
  <2>1. In(P)' = In(P) \cup {w}
      BY <1>3, <1>4 DEF In
  <2>2. w \in In(P) <=> worker[w].pc \in P
      BY DEF In
  <2>3. QED
      BY <1>2, <1>4, <2>1, <2>2, FS_AddElement DEF Has
<1>5. CASE pc \notin P
  <2>1. In(P)' = In(P) \ {w}
      BY <1>3, <1>5 DEF In
  <2>2. w \in In(P) <=> worker[w].pc \in P
      BY DEF In
  <2>3. /\ Cardinality(In(P) \ {w}) \in Nat
        /\ Cardinality(In(P) \ {w}) = IF w \in In(P) THEN Cardinality(In(P)) - 1 ELSE Cardinality(In(P))
      BY <1>2, FS_RemoveElement, FS_CardinalityType
  <2>4. QED
      BY <1>2, <1>5, <2>1, <2>2, <2>3 DEF Has
<1>6. QED
    BY <1>4, <1>5

LEMMA Fetches ==
  ASSUME worker \in [Worker -> WorkerSet], NEW w \in Worker, NEW pc, NEW x, NEW d,
         worker' = [worker EXCEPT ![w] = At(pc, x)]
  PROVE  /\ Cardinality(FetchesOf(d)) \in Nat
         /\ Cardinality(FetchesOf(d)') =
              Cardinality(FetchesOf(d)) + Uses(d, pc, x) - Uses(d, worker[w].pc, worker[w].item)
<1> DEFINE after == pc = "fetching" /\ DomainOf[x] = d
           before == worker[w].pc = "fetching" /\ DomainOf[worker[w].item] = d
<1>1. FetchesOf(d) \in SUBSET Worker
    BY DEF FetchesOf
<1>2. IsFiniteSet(FetchesOf(d)) /\ Cardinality(FetchesOf(d)) \in Nat
    BY <1>1, WorkersFinite
<1>3. \A v \in Worker : /\ worker'[v].pc = IF v = w THEN pc ELSE worker[v].pc
                        /\ worker'[v].item = IF v = w THEN x ELSE worker[v].item
    BY DEF At
<1>4. w \in FetchesOf(d) <=> before
    BY DEF FetchesOf
<1>5. CASE after
  <2>1. FetchesOf(d)' = FetchesOf(d) \cup {w}
      BY <1>3, <1>5 DEF FetchesOf
  <2>2. /\ Cardinality(FetchesOf(d) \cup {w}) \in Nat
        /\ Cardinality(FetchesOf(d) \cup {w}) =
             IF w \in FetchesOf(d) THEN Cardinality(FetchesOf(d)) ELSE Cardinality(FetchesOf(d)) + 1
      BY <1>2, FS_AddElement, FS_CardinalityType
  <2>3. QED
      BY <1>2, <1>4, <1>5, <2>1, <2>2 DEF Uses
<1>6. CASE ~after
  <2>1. FetchesOf(d)' = FetchesOf(d) \ {w}
      BY <1>3, <1>6 DEF FetchesOf
  <2>2. Cardinality(FetchesOf(d) \ {w}) =
          IF w \in FetchesOf(d) THEN Cardinality(FetchesOf(d)) - 1 ELSE Cardinality(FetchesOf(d))
      BY <1>2, FS_RemoveElement
  <2>3. QED
      BY <1>2, <1>4, <1>6, <2>1, <2>2 DEF Uses
<1>7. QED
    BY <1>5, <1>6

LEMMA Unmoved == ASSUME worker' = worker, NEW P, NEW d PROVE In(P)' = In(P) /\ FetchesOf(d)' = FetchesOf(d)
BY DEF In, FetchesOf

-----------------------------------------------------------------------------
(* Counters and queues                                                        *)

Counters == [processed : Nat, failed : Nat, duplicates : Nat]

LEMMA Counts ==
  ASSUME count \in Counters
  PROVE  /\ Count("processed") => /\ count' \in Counters /\ count'.processed = count.processed + 1
                                  /\ count'.failed = count.failed /\ count'.duplicates = count.duplicates
         /\ Count("failed") => /\ count' \in Counters /\ count'.failed = count.failed + 1
                               /\ count'.processed = count.processed /\ count'.duplicates = count.duplicates
         /\ Count("duplicates") => /\ count' \in Counters /\ count'.duplicates = count.duplicates + 1
                                   /\ count'.processed = count.processed /\ count'.failed = count.failed
BY DEF Counters, Count

LEMMA Getting ==
  ASSUME NEW S, NEW q \in Seq(S), q # <<>>
  PROVE  /\ Head(q) \in S /\ Head(q) = q[1] /\ Len(q) \in Nat \ {0}
         /\ Tail(q) \in Seq(S) /\ Len(Tail(q)) = Len(q) - 1
         /\ \A n \in 1..(Len(q) - 1) : Tail(q)[n] = q[n + 1]
OBVIOUS

LEMMA Putting ==
  ASSUME NEW S, NEW q \in Seq(S), NEW x \in S
  PROVE  /\ Append(q, x) \in Seq(S) /\ Len(q) \in Nat /\ Len(Append(q, x)) = Len(q) + 1
         /\ \A n \in 1..Len(q) : Append(q, x)[n] = q[n]
         /\ Append(q, x)[Len(q) + 1] = x
OBVIOUS

LEMMA Lengths ==
  TypeOK => /\ Len(queue) \in Nat /\ Len(output) \in Nat /\ Len(batch) \in Nat /\ Len(stored) \in Nat
            /\ urls \in Seq(UrlSet) /\ Len(urls) \in Nat /\ All \in Nat \ {0} /\ fed \in 0..All
            /\ (queue = <<>> <=> Len(queue) = 0) /\ (output = <<>> <=> Len(output) = 0)
<1> SUFFICES ASSUME TypeOK
             PROVE  /\ Len(queue) \in Nat /\ Len(output) \in Nat /\ Len(batch) \in Nat /\ Len(stored) \in Nat
                    /\ urls \in Seq(UrlSet) /\ Len(urls) \in Nat /\ All \in Nat \ {0} /\ fed \in 0..All
                    /\ (queue = <<>> <=> Len(queue) = 0) /\ (output = <<>> <=> Len(output) = 0)
    OBVIOUS
<1>1. urls \in Seq(UrlSet)
    BY UrlAssumption DEF TypeOK
<1>2. Len(urls) \in Nat
    BY <1>1
<1>3. All \in Nat \ {0} /\ fed \in 0..All
    BY <1>2, AllPositive DEF All, TypeOK
<1>4. /\ queue \in Seq(UrlSet \cup {Sentinel}) /\ output \in Seq(Page \cup {Sentinel})
      /\ batch \in Seq(Page) /\ stored \in Seq(Page)
    BY DEF TypeOK
<1>5. /\ Len(queue) \in Nat /\ Len(output) \in Nat /\ Len(batch) \in Nat /\ Len(stored) \in Nat
      /\ (queue = <<>> <=> Len(queue) = 0) /\ (output = <<>> <=> Len(output) = 0)
    BY <1>4
<1>6. QED
    BY <1>1, <1>2, <1>3, <1>5

(* Values that are of one kind only.                                           *)
LEMMA Kinds ==
  /\ Sentinel \notin UrlSet /\ Sentinel \notin Page
  /\ Malformed \subseteq UrlSet /\ Invalid \subseteq UrlSet
  /\ \A u \in UrlSet : DomainOf[u] \in Domain /\ PagesOf[u] \subseteq Page
  /\ QueueSize \in Nat \ {0} /\ BatchSize \in Nat \ {0} /\ PerDomain \in Nat \ {0}
BY UrlAssumption, SentinelAssumption, SizeAssumption DEF Domain

LEMMA Typed ==
  TypeOK => /\ worker \in [Worker -> WorkerSet] /\ count \in Counters /\ unfinished \in Nat
            /\ permits \in [Domain -> 0..PerDomain]
            /\ driver \in DriverPc /\ writer \in WriterPc
            /\ queue \in Seq(UrlSet \cup {Sentinel}) /\ output \in Seq(Page \cup {Sentinel})
            /\ batch \in Seq(Page) /\ stored \in Seq(Page)
BY DEF TypeOK, WorkerSet, Counters

LEMMA InvInit == Init => Inv
<1> SUFFICES ASSUME Init PROVE Inv
    OBVIOUS
<1>1. \A w \in Worker : worker[w].pc = "getting"
    BY DEF Init, At
<1>2. In(Busy) = {} /\ In(Taken) = {} /\ In({"putting"}) = {} /\ \A d \in Domain : FetchesOf(d) = {}
    BY <1>1 DEF In, Busy, Taken, FetchesOf
<1>3. TypeOK
  <2>1. urls \in Inputs /\ urls \in Seq(UrlSet)
      BY UrlAssumption DEF Init
  <2>2. fed \in 0..(Len(urls) + Cardinality(Worker))
      BY <2>1, AllPositive DEF Init
  <2>3. worker \in [Worker -> [pc : WorkerPc, item : UrlSet \cup Page \cup {Sentinel}]]
      BY DEF Init, At, WorkerPc
  <2>4. permits \in [Domain -> 0..PerDomain]
      BY Kinds DEF Init
  <2>5. /\ queue = <<>> /\ output = <<>> /\ batch = <<>> /\ stored = <<>> /\ unfinished = 0
        /\ driver \in DriverPc /\ writer \in WriterPc
      BY DEF Init, DriverPc, WriterPc
  <2>6. /\ seen \in [urls : SUBSET {NormalizedUrl[p] : p \in Page}, hashes : SUBSET {ContentHash[p] : p \in Page}]
        /\ count \in [processed : Nat, failed : Nat, duplicates : Nat]
      BY DEF Init
  <2>7. /\ queue \in Seq(UrlSet \cup {Sentinel}) /\ Len(queue) <= QueueSize
        /\ output \in Seq(Page \cup {Sentinel}) /\ Len(output) <= QueueSize
        /\ batch \in Seq(Page) /\ Len(batch) <= BatchSize /\ stored \in Seq(Page)
      BY <2>5, Kinds
  <2>8. QED
      BY <2>1, <2>2, <2>3, <2>4, <2>5, <2>6, <2>7 DEF TypeOK
<1>4. Items
    BY <1>1 DEF Items
<1>5. Course
  <2>1. fed = 0 /\ queue = <<>> /\ output = <<>> /\ batch = <<>> /\ driver = "feeding" /\ writer = "getting"
      BY DEF Init
  <2>2. fed < All
      BY <1>3, <2>1, Lengths
  <2>3. QED
      BY <2>1, <2>2, Kinds DEF Course
<1>6. Books
  <2>1. /\ Cardinality(In(Busy)) = 0 /\ Cardinality(In(Taken)) = 0 /\ Cardinality(In({"putting"})) = 0
        /\ \A d \in Domain : Cardinality(FetchesOf(d)) = 0
      BY <1>2, FS_EmptySet
  <2>2. /\ fed = 0 /\ Len(queue) = 0 /\ Len(output) = 0 /\ Len(batch) = 0 /\ Len(stored) = 0 /\ unfinished = 0
        /\ driver = "feeding" /\ count.processed = 0 /\ count.failed = 0 /\ count.duplicates = 0
        /\ \A d \in Domain : permits[d] = PerDomain
      BY DEF Init
  <2>3. QED
      BY <2>1, <2>2, Kinds DEF Books, LastOut, Early, Finished
<1>7. QED
    BY <1>3, <1>4, <1>5, <1>6 DEF Inv

-----------------------------------------------------------------------------
(* Steps of a worker                                                          *)

(* A worker has something in its hands, or finds it in the queue, only as long *)
(* as the driver feeds or joins; so the way to the writer is still open.       *)
LEMMA WhileOpen ==
  ASSUME Course, In(Busy) # {} \/ queue # <<>>
  PROVE  /\ driver \in {"feeding", "joining"} /\ driver \in Early /\ writer \notin {"closing", "done"}
         /\ \A n \in 1..Len(output) : output[n] # Sentinel
BY DEF Course, Early

LEMMA WorkerCourse ==
  ASSUME TypeOK, Course, In(Busy) # {} \/ queue # <<>>,
         UNCHANGED <<urls, fed, driver, writer, batch>>,
         output' = output \/ \E p \in Page : output' = Append(output, p)
  PROVE  Course'
<1>1. /\ driver \in {"feeding", "joining"} /\ driver \in Early /\ writer \notin {"closing", "done"}
      /\ \A n \in 1..Len(output) : output[n] # Sentinel
    BY WhileOpen
<1>2. \A n \in 1..Len(output') : output'[n] # Sentinel
  <2>1. ASSUME NEW p \in Page, output' = Append(output, p)
        PROVE  \A n \in 1..Len(output') : output'[n] # Sentinel
    <3>1. output \in Seq(Page \cup {Sentinel})
        BY Typed
    <3>2. /\ Len(output) \in Nat /\ Len(output') = Len(output) + 1 /\ output'[Len(output) + 1] = p
          /\ \A n \in 1..Len(output) : output'[n] = output[n]
        BY <2>1, <3>1, Putting
    <3>3. QED
        BY <1>1, <3>2, Kinds
  <2>2. QED
      BY <1>1, <2>1
<1>3. All' = All
    BY DEF All
<1>4. QED
    BY <1>1, <1>2, <1>3 DEF Course, Early

(* What the step of a worker does to the queues, the counters and the permits  *)
(* fits what it does to itself; then the accounts stay right.                    *)
Balanced(w, pc, x) ==
  /\ unfinished' = unfinished + Len(queue') - Len(queue) + Has(Busy, pc) - Has(Busy, worker[w].pc)
  /\ Finished' = Finished + Len(queue) - Len(queue') - Has(Taken, pc) + Has(Taken, worker[w].pc)
  /\ count'.processed = count.processed + Len(output') - Len(output)
                          + Has({"putting"}, pc) - Has({"putting"}, worker[w].pc)
  /\ \A d \in Domain : permits'[d] = permits[d] - Uses(d, pc, x) + Uses(d, worker[w].pc, worker[w].item)

LEMMA WorkerBooks ==
  ASSUME TypeOK, TypeOK', Books, driver \in Early, NEW w \in Worker, NEW pc, NEW x,
         worker' = [worker EXCEPT ![w] = At(pc, x)],
         UNCHANGED <<urls, fed, driver, writer, batch, stored>>,
         Balanced(w, pc, x)
  PROVE  Books'
<1>0. worker \in [Worker -> WorkerSet]
    BY Typed
<1> DEFINE b == Has(Busy, pc)
           c == Has(Busy, worker[w].pc)
           t == Has(Taken, pc)
           v == Has(Taken, worker[w].pc)
           o == Has({"putting"}, pc)
           n == Has({"putting"}, worker[w].pc)
           busy == Cardinality(In(Busy))
           taken == Cardinality(In(Taken))
           putting == Cardinality(In({"putting"}))
<1>1. b \in Nat /\ c \in Nat /\ t \in Nat /\ v \in Nat /\ o \in Nat /\ n \in Nat
    BY DEF Has
<1>2. ASSUME NEW P
      PROVE  /\ Cardinality(In(P)) \in Nat /\ Cardinality(In(P)') \in Nat
             /\ Cardinality(In(P)') = Cardinality(In(P)) + Has(P, pc) - Has(P, worker[w].pc)
    BY <1>0, Moved
<1>3. /\ busy \in Nat /\ busy' \in Nat /\ busy' = busy + b - c
      /\ taken \in Nat /\ taken' \in Nat /\ taken' = taken + t - v
    BY <1>2
<1>4. putting \in Nat /\ putting' \in Nat /\ putting' = putting + o - n
    BY <1>2
<1>5. /\ Len(queue) \in Nat /\ Len(output) \in Nat /\ Len(batch) \in Nat /\ Len(stored) \in Nat
      /\ Len(queue') \in Nat /\ Len(output') \in Nat /\ fed \in Nat /\ unfinished \in Nat
  <2>1. (Len(queue) \in Nat /\ Len(output) \in Nat)'
      BY Lengths, PTL
  <2>2. fed \in Nat
      BY Lengths
  <2>3. QED
      BY <2>1, <2>2, Lengths, Typed
<1>6. count.processed \in Nat /\ count'.processed \in Nat /\ Finished \in Nat /\ Finished' \in Nat
  <2>1. count \in Counters /\ (count \in Counters)'
      BY Typed, PTL
  <2>2. QED
      BY <2>1 DEF Counters, Finished
<1>7. LastOut = 0 /\ LastOut' = 0
    BY DEF LastOut
<1>8. /\ unfinished = Len(queue) + busy
      /\ fed = Len(queue) + taken + Finished
      /\ writer # "raised" => count.processed = Len(stored) + Len(batch) + Len(output) + putting
    BY <1>6, <1>7 DEF Books
<1>9. /\ unfinished' = unfinished + Len(queue') - Len(queue) + b - c
      /\ Finished' = Finished + Len(queue) - Len(queue') - t + v
      /\ count'.processed = count.processed + Len(output') - Len(output) + o - n
    BY DEF Balanced
<1>10. ASSUME NEW d \in Domain PROVE permits'[d] + Cardinality(FetchesOf(d)') = PerDomain
  <2> DEFINE f == Uses(d, pc, x)
             g == Uses(d, worker[w].pc, worker[w].item)
             fetches == Cardinality(FetchesOf(d))
  <2>1. fetches \in Nat /\ fetches' = fetches + f - g
      BY <1>0, Fetches, Zenon
  <2>2. f \in {0, 1} /\ g \in {0, 1}
      BY DEF Uses
  <2>3. permits[d] \in Nat /\ permits'[d] = permits[d] - f + g /\ permits[d] + fetches = PerDomain
      BY Typed DEF Books, Balanced
  <2> HIDE DEF f, g, fetches
  <2>4. permits'[d] + fetches' = PerDomain
      BY <2>1, <2>2, <2>3, Kinds
  <2>5. QED
      BY <2>4 DEF fetches
<1> HIDE DEF b, c, t, v, o, n, busy, taken, putting
<1>11. unfinished' = Len(queue') + busy'
    BY <1>1, <1>3, <1>5, <1>8, <1>9
<1>12. fed' = Len(queue') + taken' + Finished'
    BY <1>1, <1>3, <1>5, <1>6, <1>8, <1>9
<1>13. writer' # "raised" => count'.processed = Len(stored') + Len(batch') + Len(output') + putting'
    BY <1>1, <1>4, <1>5, <1>6, <1>8, <1>9
<1>14. QED
    BY <1>6, <1>7, <1>10, <1>11, <1>12, <1>13 DEF Books, busy, taken, putting

Seens == [urls : SUBSET {NormalizedUrl[p] : p \in Page}, hashes : SUBSET {ContentHash[p] : p \in Page}]

LEMMA WorkerKeeps ==
  ASSUME Inv, NEW w \in Worker, NEW pc \in WorkerPc, NEW x \in UrlSet \cup Page \cup {Sentinel},
         pc \in {"limited", "fetching"} => x \in UrlSet,
         pc = "putting" => x \in Page,
         worker' = [worker EXCEPT ![w] = At(pc, x)],
         In(Busy) # {} \/ queue # <<>>,
         UNCHANGED <<urls, fed, driver, writer, batch, stored>>,
         queue' = queue \/ (queue # <<>> /\ queue' = Tail(queue)),
         output' = output \/ (Len(output) < QueueSize /\ \E p \in Page : output' = Append(output, p)),
         unfinished' \in Nat, permits' \in [Domain -> 0..PerDomain], seen' \in Seens, count' \in Counters,
         Balanced(w, pc, x)
  PROVE  Inv'
<1>0. TypeOK /\ Items /\ Course /\ Books
    BY DEF Inv
<1>1. worker' \in [Worker -> WorkerSet]
  <2>1. worker \in [Worker -> WorkerSet] /\ At(pc, x) \in WorkerSet
      BY <1>0, Typed DEF At, WorkerSet
  <2>2. QED
      BY <2>1
<1>2. queue' \in Seq(UrlSet \cup {Sentinel}) /\ Len(queue') <= QueueSize
  <2>1. queue \in Seq(UrlSet \cup {Sentinel}) /\ Len(queue) \in Nat /\ Len(queue) <= QueueSize
      BY <1>0, Lengths DEF TypeOK
  <2>2. queue # <<>> => Tail(queue) \in Seq(UrlSet \cup {Sentinel}) /\ Len(Tail(queue)) = Len(queue) - 1
      BY <2>1, Getting
  <2>3. QED
      BY <2>1, <2>2, Kinds
<1>3. output' \in Seq(Page \cup {Sentinel}) /\ Len(output') <= QueueSize
  <2>1. output \in Seq(Page \cup {Sentinel}) /\ Len(output) \in Nat /\ Len(output) <= QueueSize
      BY <1>0, Lengths DEF TypeOK
  <2>2. \A p \in Page : /\ Append(output, p) \in Seq(Page \cup {Sentinel})
                        /\ Len(Append(output, p)) = Len(output) + 1
      BY <2>1, Putting
  <2>3. QED
      BY <2>1, <2>2, Kinds
<1>4. TypeOK'
    BY <1>0, <1>1, <1>2, <1>3 DEF TypeOK, WorkerSet, Seens, Counters
<1>5. Items'
  <2>1. \A v \in Worker : worker'[v] = IF v = w THEN At(pc, x) ELSE worker[v]
      BY <1>0, Typed
  <2>2. QED
      BY <1>0, <2>1 DEF Items, At
<1>6. Course'
    BY <1>0, WorkerCourse
<1>7. driver \in Early
    BY <1>0, WhileOpen
<1>8. Books'
    BY <1>0, <1>4, <1>7, WorkerBooks
<1>9. QED
    BY <1>4, <1>5, <1>6, <1>8 DEF Inv

(* There is something to mark done as long as an item is in the queue or with a  *)
(* worker, and a permit to give back as long as one fetches.                      *)
LEMMA Unfinished ==
  ASSUME Inv, In(Busy) # {} \/ queue # <<>>
  PROVE  unfinished - 1 \in Nat
<1>1. Cardinality(In(Busy)) \in Nat /\ (Cardinality(In(Busy)) = 0 => In(Busy) = {})
  <2>1. In(Busy) \in SUBSET Worker
      BY DEF In
  <2>2. QED
      BY <2>1, WorkersFinite
<1>2. Len(queue) \in Nat /\ (Len(queue) = 0 => queue = <<>>)
    BY Lengths DEF Inv
<1>3. unfinished = Len(queue) + Cardinality(In(Busy))
    BY DEF Inv, Books
<1>4. QED
    BY <1>1, <1>2, <1>3

LEMMA WithWorker ==
  ASSUME NEW w \in Worker, worker[w].pc \in Busy
  PROVE  In(Busy) # {}
BY DEF In

LEMMA Released ==
  ASSUME Inv, NEW w \in Worker, worker[w].pc = "fetching", Release(w), NEW pc, pc # "fetching", NEW x
  PROVE  /\ permits' \in [Domain -> 0..PerDomain]
         /\ \A d \in Domain : permits'[d] = permits[d] - Uses(d, pc, x) + Uses(d, worker[w].pc, worker[w].item)
<1> DEFINE e == DomainOf[worker[w].item]
<1>1. permits \in [Domain -> 0..PerDomain] /\ permits' = [permits EXCEPT ![e] = permits[e] + 1]
    BY Typed DEF Inv, Release
<1>2. e \in Domain
  <2>1. worker[w].item \in UrlSet
      BY DEF Inv, Items
  <2>2. QED
      BY <2>1, Kinds
<1>3. permits[e] < PerDomain
  <2>1. FetchesOf(e) \in SUBSET Worker /\ w \in FetchesOf(e)
      BY DEF FetchesOf
  <2>2. Cardinality(FetchesOf(e)) \in Nat /\ Cardinality(FetchesOf(e)) # 0
      BY <2>1, WorkersFinite
  <2>3. permits[e] + Cardinality(FetchesOf(e)) = PerDomain
      BY <1>2 DEF Inv, Books
  <2>4. QED
      BY <1>1, <1>2, <2>2, <2>3, Kinds
<1>4. permits' \in [Domain -> 0..PerDomain]
    BY <1>1, <1>2, <1>3, Kinds
<1>5. ASSUME NEW d \in Domain
      PROVE  permits'[d] = permits[d] - Uses(d, pc, x) + Uses(d, worker[w].pc, worker[w].item)
  <2>1. permits[d] \in Nat /\ Uses(d, pc, x) = 0
      BY <1>1 DEF Uses
  <2>2. CASE d = e
      BY <1>1, <2>1, <2>2 DEF Uses
  <2>3. CASE d # e
      BY <1>1, <2>1, <2>3 DEF Uses
  <2>4. QED
      BY <2>2, <2>3
<1>6. QED
    BY <1>4, <1>5

LEMMA Held ==
  ASSUME Inv, UNCHANGED permits, NEW pc, NEW x, NEW w \in Worker, "fetching" \notin {pc, worker[w].pc}
  PROVE  /\ permits' \in [Domain -> 0..PerDomain]
         /\ \A d \in Domain : permits'[d] = permits[d] - Uses(d, pc, x) + Uses(d, worker[w].pc, worker[w].item)
<1>1. permits \in [Domain -> 0..PerDomain]
    BY Typed DEF Inv
<1>2. ASSUME NEW d \in Domain
      PROVE  permits'[d] = permits[d] - Uses(d, pc, x) + Uses(d, worker[w].pc, worker[w].item)
  <2>1. Uses(d, pc, x) = 0 /\ Uses(d, worker[w].pc, worker[w].item) = 0 /\ permits[d] \in Int
      BY <1>1 DEF Uses
  <2>2. QED
      BY <2>1
<1>3. QED
    BY <1>1, <1>2

(* What a worker gives and takes in each of its moves.                         *)
LEMMA Moves ==
  /\ Has(Busy, "getting") = 0 /\ Has(Taken, "getting") = 0 /\ Has({"putting"}, "getting") = 0
  /\ Has(Busy, "limited") = 1 /\ Has(Taken, "limited") = 1 /\ Has({"putting"}, "limited") = 0
  /\ Has(Busy, "fetching") = 1 /\ Has(Taken, "fetching") = 1 /\ Has({"putting"}, "fetching") = 0
  /\ Has(Busy, "putting") = 1 /\ Has(Taken, "putting") = 0 /\ Has({"putting"}, "putting") = 1
  /\ Has(Busy, "done") = 0 /\ Has(Taken, "done") = 1 /\ Has({"putting"}, "done") = 0
  /\ Has(Busy, "raised") = 0 /\ Has(Taken, "raised") = 1 /\ Has({"putting"}, "raised") = 0
BY DEF Has, Busy, Taken

LEMMA Numbers ==
  Inv => /\ Len(queue) \in Nat /\ Len(output) \in Nat /\ unfinished \in Nat
         /\ count \in Counters /\ count.processed \in Nat /\ count.failed \in Nat /\ count.duplicates \in Nat
         /\ Finished \in Nat /\ seen \in Seens
<1> SUFFICES ASSUME Inv
             PROVE  /\ Len(queue) \in Nat /\ Len(output) \in Nat /\ unfinished \in Nat
                    /\ count \in Counters /\ count.processed \in Nat /\ count.failed \in Nat
                    /\ count.duplicates \in Nat
                    /\ Finished \in Nat /\ seen \in Seens
    OBVIOUS
<1>1. Len(queue) \in Nat /\ Len(output) \in Nat
    BY Lengths DEF Inv
<1>2. unfinished \in Nat /\ count \in Counters
    BY Typed DEF Inv
<1>3. seen \in Seens
    BY DEF Inv, TypeOK, Seens
<1>4. QED
    BY <1>1, <1>2, <1>3 DEF Counters, Finished

(* The same counters, or one of them one higher.                               *)
LEMMA Tally ==
  ASSUME Inv
  PROVE  /\ UNCHANGED count => count' \in Counters /\ Finished' = Finished /\ count'.processed = count.processed
         /\ Count("processed") => /\ count' \in Counters /\ Finished' = Finished + 1
                                  /\ count'.processed = count.processed + 1
         /\ Count("failed") \/ Count("duplicates") =>
              count' \in Counters /\ Finished' = Finished + 1 /\ count'.processed = count.processed
BY Numbers, Counts DEF Finished

LEMMA GetKeeps == ASSUME Inv, NEW w \in Worker, Get(w) PROVE Inv'
<1> DEFINE i == Head(queue)
<1>1. /\ worker[w].pc = "getting" /\ queue # <<>> /\ queue' = Tail(queue)
      /\ UNCHANGED <<urls, fed, driver, writer, batch, stored, output, permits, seen>>
    BY DEF Get
<1>2. Len(queue') = Len(queue) - 1 /\ i \in UrlSet \cup {Sentinel}
  <2>1. queue \in Seq(UrlSet \cup {Sentinel})
      BY Typed DEF Inv
  <2>2. QED
      BY <1>1, <2>1, Getting
<1>3. PICK pc \in {"done", "raised", "getting", "limited"}, x \in UrlSet \cup {Sentinel} :
        /\ worker' = [worker EXCEPT ![w] = At(pc, x)] /\ (pc = "limited" => x \in UrlSet)
        /\ (pc = "getting" /\ Count("failed")) \/ (pc # "getting" /\ UNCHANGED count)
        /\ (pc = "limited" /\ UNCHANGED unfinished) \/ (pc # "limited" /\ TaskDone)
  <2>1. CASE i = Sentinel /\ worker' = [worker EXCEPT ![w] = At("done", Sentinel)] /\ TaskDone /\ UNCHANGED count
      BY <2>1
  <2>2. CASE worker' = [worker EXCEPT ![w] = At("raised", Sentinel)] /\ TaskDone /\ UNCHANGED count
      BY <2>2
  <2>3. CASE Again(w) /\ Count("failed") /\ TaskDone
      BY <2>3 DEF Again
  <2>4. CASE /\ i \in UrlSet \ (Malformed \cup Invalid)
             /\ worker' = [worker EXCEPT ![w] = At("limited", i)]
             /\ UNCHANGED <<unfinished, count>>
      BY <2>4
  <2>5. QED
      BY <2>1, <2>2, <2>3, <2>4 DEF Get
<1>4. unfinished - 1 \in Nat
    BY <1>1, Unfinished
<1>5. unfinished' \in Nat /\ unfinished' = unfinished - 1 + Has(Busy, pc)
  <2>1. CASE pc = "limited" /\ UNCHANGED unfinished
      BY <1>4, <2>1, Numbers, Moves
  <2>2. CASE pc # "limited" /\ TaskDone
    <3>1. Has(Busy, pc) = 0
        BY <1>3, <2>2, Moves
    <3>2. QED
        BY <1>4, <2>2, <3>1, Numbers DEF TaskDone
  <2>3. QED
      BY <1>3, <2>1, <2>2
<1>6. /\ count' \in Counters /\ count'.processed = count.processed
      /\ Finished' = Finished + 1 - Has(Taken, pc)
    BY <1>3, Tally, Numbers, Moves
<1>7. /\ permits' \in [Domain -> 0..PerDomain]
      /\ \A d \in Domain : permits'[d] = permits[d] - Uses(d, pc, x) + Uses(d, worker[w].pc, worker[w].item)
  <2>1. UNCHANGED permits /\ "fetching" \notin {pc, worker[w].pc}
      BY <1>1, <1>3
  <2>2. permits \in [Domain -> 0..PerDomain]
      BY Typed DEF Inv
  <2>3. ASSUME NEW d \in Domain
        PROVE  permits'[d] = permits[d] - Uses(d, pc, x) + Uses(d, worker[w].pc, worker[w].item)
    <3>1. Uses(d, pc, x) = 0 /\ Uses(d, worker[w].pc, worker[w].item) = 0 /\ permits[d] \in Int
        BY <2>1, <2>2 DEF Uses
    <3>2. QED
        BY <2>1, <3>1
  <2>4. QED
      BY <2>1, <2>2, <2>3
<1>8. Balanced(w, pc, x)
  <2>1. Has({"putting"}, pc) = 0 /\ Has(Busy, pc) \in Nat /\ Has(Taken, pc) \in Nat
      BY <1>3, Moves
  <2>2. /\ Has(Busy, worker[w].pc) = 0 /\ Has(Taken, worker[w].pc) = 0 /\ Has({"putting"}, worker[w].pc) = 0
      BY <1>1, Moves
  <2>3. unfinished' = unfinished + Len(queue') - Len(queue) + Has(Busy, pc) - Has(Busy, worker[w].pc)
      BY <1>2, <1>5, <2>1, <2>2, Numbers
  <2>4. Finished' = Finished + Len(queue) - Len(queue') - Has(Taken, pc) + Has(Taken, worker[w].pc)
      BY <1>2, <1>6, <2>1, <2>2, Numbers
  <2>5. count'.processed = count.processed + Len(output') - Len(output)
                              + Has({"putting"}, pc) - Has({"putting"}, worker[w].pc)
      BY <1>1, <1>6, <2>1, <2>2, Numbers
  <2>6. QED
      BY <1>7, <2>3, <2>4, <2>5 DEF Balanced
<1>9. pc \in WorkerPc /\ pc \notin {"fetching", "putting"}
    BY <1>3 DEF WorkerPc
<1>10. QED
    BY <1>1, <1>3, <1>5, <1>6, <1>7, <1>8, <1>9, Numbers, WorkerKeeps

LEMMA StartFetchKeeps == ASSUME Inv, NEW w \in Worker, StartFetch(w) PROVE Inv'
<1> DEFINE x == worker[w].item
           e == DomainOf[x]
<1>1. /\ worker[w].pc = "limited" /\ permits[e] > 0 /\ permits' = [permits EXCEPT ![e] = permits[e] - 1]
      /\ UNCHANGED <<urls, fed, driver, writer, batch, stored, queue, unfinished, output, seen, count>>
    BY DEF StartFetch, queues
<1>2. x \in UrlSet /\ e \in Domain
  <2>1. x \in UrlSet
      BY <1>1 DEF Inv, Items
  <2>2. QED
      BY <2>1, Kinds
<1>3. worker' = [worker EXCEPT ![w] = At("fetching", x)]
  <2>1. worker \in [Worker -> WorkerSet]
      BY Typed DEF Inv
  <2>2. [worker[w] EXCEPT !.pc = "fetching"] = At("fetching", x)
      BY <2>1 DEF WorkerSet, At
  <2>3. QED
      BY <2>1, <2>2 DEF StartFetch
<1>4. permits \in [Domain -> 0..PerDomain]
    BY Typed DEF Inv
<1>5. permits' \in [Domain -> 0..PerDomain]
    BY <1>1, <1>2, <1>4, Kinds
<1>6. ASSUME NEW d \in Domain
      PROVE  permits'[d] = permits[d] - Uses(d, "fetching", x) + Uses(d, worker[w].pc, worker[w].item)
  <2>1. permits[d] \in Nat /\ Uses(d, worker[w].pc, worker[w].item) = 0
      BY <1>1, <1>4 DEF Uses
  <2>2. CASE d = e
      BY <1>1, <1>4, <2>1, <2>2 DEF Uses
  <2>3. CASE d # e
      BY <1>1, <1>4, <2>1, <2>3 DEF Uses
  <2>4. QED
      BY <2>2, <2>3
<1>7. Balanced(w, "fetching", x)
  <2>1. Finished' = Finished /\ count'.processed = count.processed /\ count' \in Counters
      BY <1>1, Tally
  <2>2. QED
      BY <1>1, <1>6, <2>1, Numbers, Moves DEF Balanced
<1>8. In(Busy) # {} /\ "fetching" \in WorkerPc
    BY <1>1, WithWorker DEF Busy, WorkerPc
<1>9. QED
    BY <1>1, <1>2, <1>3, <1>5, <1>7, <1>8, Numbers, WorkerKeeps

LEMMA FetchFailsKeeps == ASSUME Inv, NEW w \in Worker, FetchFails(w) PROVE Inv'
<1>1. /\ worker[w].pc = "fetching" /\ Release(w) /\ Count("failed") /\ unfinished' = unfinished - 1
      /\ worker' = [worker EXCEPT ![w] = At("getting", Sentinel)]
      /\ UNCHANGED <<urls, fed, queue, output, driver, seen, writer, batch, stored>>
    BY DEF FetchFails, Again, TaskDone
<1>2. In(Busy) # {} /\ "getting" \in WorkerPc
    BY <1>1, WithWorker DEF Busy, WorkerPc
<1>3. unfinished' \in Nat
    BY <1>1, <1>2, Unfinished
<1>4. count' \in Counters /\ Finished' = Finished + 1 /\ count'.processed = count.processed
    BY <1>1, Tally
<1>5. /\ permits' \in [Domain -> 0..PerDomain]
      /\ \A d \in Domain :
           permits'[d] = permits[d] - Uses(d, "getting", Sentinel) + Uses(d, worker[w].pc, worker[w].item)
    BY <1>1, Released
<1>6. Balanced(w, "getting", Sentinel)
    BY <1>1, <1>4, <1>5, Numbers, Moves DEF Balanced
<1>7. QED
    BY <1>1, <1>2, <1>3, <1>4, <1>5, <1>6, Numbers, WorkerKeeps

LEMMA ParseRaisesKeeps == ASSUME Inv, NEW w \in Worker, ParseRaises(w) PROVE Inv'
<1>1. /\ worker[w].pc = "fetching" /\ Release(w) /\ unfinished' = unfinished - 1
      /\ worker' = [worker EXCEPT ![w] = At("raised", Sentinel)]
      /\ UNCHANGED <<urls, fed, queue, output, driver, seen, count, writer, batch, stored>>
    BY DEF ParseRaises, TaskDone
<1>2. In(Busy) # {} /\ "raised" \in WorkerPc
    BY <1>1, WithWorker DEF Busy, WorkerPc
<1>3. unfinished' \in Nat
    BY <1>1, <1>2, Unfinished
<1>4. count' \in Counters /\ Finished' = Finished /\ count'.processed = count.processed
    BY <1>1, Tally
<1>5. /\ permits' \in [Domain -> 0..PerDomain]
      /\ \A d \in Domain :
           permits'[d] = permits[d] - Uses(d, "raised", Sentinel) + Uses(d, worker[w].pc, worker[w].item)
    BY <1>1, Released
<1>6. Balanced(w, "raised", Sentinel)
    BY <1>1, <1>4, <1>5, Numbers, Moves DEF Balanced
<1>7. QED
    BY <1>1, <1>2, <1>3, <1>4, <1>5, <1>6, Numbers, WorkerKeeps

LEMMA FetchedKeeps == ASSUME Inv, NEW w \in Worker, Fetched(w) PROVE Inv'
<1>1. /\ worker[w].pc = "fetching" /\ Release(w)
      /\ UNCHANGED <<urls, fed, queue, output, driver, writer, batch, stored>>
    BY DEF Fetched
<1>2. PICK p \in PagesOf[worker[w].item] :
        /\ Remember(p)
        /\ \/ Again(w) /\ Count("duplicates") /\ TaskDone
           \/ Count("processed") /\ UNCHANGED unfinished /\ worker' = [worker EXCEPT ![w] = At("putting", p)]
    BY DEF Fetched
<1>3. p \in Page
  <2>1. worker[w].item \in UrlSet
      BY <1>1 DEF Inv, Items
  <2>2. QED
      BY <2>1, Kinds
<1>4. seen' \in Seens
    BY <1>2, <1>3, Numbers DEF Remember, Seens
<1>5. In(Busy) # {} /\ "getting" \in WorkerPc /\ "putting" \in WorkerPc
    BY <1>1, WithWorker DEF Busy, WorkerPc
<1>6. CASE Again(w) /\ Count("duplicates") /\ TaskDone
  <2>1. worker' = [worker EXCEPT ![w] = At("getting", Sentinel)] /\ unfinished' = unfinished - 1
      BY <1>6 DEF Again, TaskDone
  <2>2. unfinished' \in Nat
      BY <1>5, <2>1, Unfinished
  <2>3. count' \in Counters /\ Finished' = Finished + 1 /\ count'.processed = count.processed
      BY <1>6, Tally
  <2>4. /\ permits' \in [Domain -> 0..PerDomain]
        /\ \A d \in Domain :
             permits'[d] = permits[d] - Uses(d, "getting", Sentinel) + Uses(d, worker[w].pc, worker[w].item)
      BY <1>1, Released
  <2>5. Balanced(w, "getting", Sentinel)
      BY <1>1, <2>1, <2>3, <2>4, Numbers, Moves DEF Balanced
  <2>6. QED
      BY <1>1, <1>4, <1>5, <2>1, <2>2, <2>3, <2>4, <2>5, WorkerKeeps
<1>7. CASE Count("processed") /\ UNCHANGED unfinished /\ worker' = [worker EXCEPT ![w] = At("putting", p)]
  <2>1. count' \in Counters /\ Finished' = Finished + 1 /\ count'.processed = count.processed + 1
      BY <1>7, Tally
  <2>2. /\ permits' \in [Domain -> 0..PerDomain]
        /\ \A d \in Domain :
             permits'[d] = permits[d] - Uses(d, "putting", p) + Uses(d, worker[w].pc, worker[w].item)
      BY <1>1, Released
  <2>3. Balanced(w, "putting", p)
      BY <1>1, <1>7, <2>1, <2>2, Numbers, Moves DEF Balanced
  <2>4. unfinished' \in Nat
      BY <1>7, Numbers
  <2>5. QED
      BY <1>1, <1>3, <1>4, <1>5, <1>7, <2>1, <2>2, <2>3, <2>4, WorkerKeeps
<1>8. QED
    BY <1>2, <1>6, <1>7

LEMMA PutPageKeeps == ASSUME Inv, NEW w \in Worker, PutPage(w) PROVE Inv'
<1>1. /\ worker[w].pc = "putting" /\ Len(output) < QueueSize /\ output' = Append(output, worker[w].item)
      /\ unfinished' = unfinished - 1 /\ worker' = [worker EXCEPT ![w] = At("getting", Sentinel)]
      /\ UNCHANGED <<urls, fed, queue, driver, permits, seen, count, writer, batch, stored>>
    BY DEF PutPage, Again, TaskDone
<1>2. worker[w].item \in Page
    BY <1>1 DEF Inv, Items
<1>3. Len(output') = Len(output) + 1
  <2>1. output \in Seq(Page \cup {Sentinel})
      BY Typed DEF Inv
  <2>2. QED
      BY <1>1, <1>2, <2>1, Putting
<1>4. In(Busy) # {} /\ "getting" \in WorkerPc
    BY <1>1, WithWorker DEF Busy, WorkerPc
<1>5. unfinished' \in Nat
    BY <1>1, <1>4, Unfinished
<1>6. count' \in Counters /\ Finished' = Finished /\ count'.processed = count.processed
    BY <1>1, Tally
<1>7. /\ permits' \in [Domain -> 0..PerDomain]
      /\ \A d \in Domain :
           permits'[d] = permits[d] - Uses(d, "getting", Sentinel) + Uses(d, worker[w].pc, worker[w].item)
    BY <1>1, Held
<1>8. Balanced(w, "getting", Sentinel)
    BY <1>1, <1>3, <1>6, <1>7, Numbers, Moves DEF Balanced
<1>9. QED
    BY <1>1, <1>2, <1>4, <1>5, <1>6, <1>7, <1>8, Numbers, WorkerKeeps

-----------------------------------------------------------------------------
(* Steps of the driver                                                        *)

(* The accounts when no worker moves: k more items were fed, and the writer's   *)
(* sentinel was put (m = 1) or taken (m = -1).                                    *)
Pages == Len(stored) + Len(batch) + Len(output)
Fed(k) == Len(queue') = Len(queue) + k /\ unfinished' = unfinished + k /\ fed' = fed + k
Passed(m) == writer' # "raised" => writer # "raised" /\ Pages' = Pages + m /\ LastOut' = LastOut + m

LEMMA OtherBooks ==
  ASSUME Inv, UNCHANGED <<worker, count, permits>>,
         NEW k \in 0..1, Fed(k), NEW m \in -1..1, Passed(m)
  PROVE  Books'
<1>1. /\ In(Busy)' = In(Busy) /\ In(Taken)' = In(Taken) /\ In({"putting"})' = In({"putting"})
      /\ \A d \in Domain : FetchesOf(d)' = FetchesOf(d)
    BY Unmoved
<1>2. Finished' = Finished /\ Finished \in Nat /\ count.processed \in Nat
    BY Numbers DEF Finished
<1>3. Cardinality(In(Busy)) \in Nat /\ Cardinality(In(Taken)) \in Nat /\ Cardinality(In({"putting"})) \in Nat
    BY WorkersFinite DEF In
<1>4. /\ Len(queue) \in Nat /\ Len(output) \in Nat /\ Len(batch) \in Nat /\ Len(stored) \in Nat
      /\ fed \in Nat /\ unfinished \in Nat
    BY Lengths, Typed DEF Inv
<1>5. unfinished' = Len(queue') + Cardinality(In(Busy)')
  <2>1. unfinished = Len(queue) + Cardinality(In(Busy))
      BY DEF Inv, Books
  <2>2. QED
      BY <1>1, <1>3, <1>4, <2>1 DEF Fed
<1>6. fed' = Len(queue') + Cardinality(In(Taken)') + Finished'
  <2>1. fed = Len(queue) + Cardinality(In(Taken)) + Finished
      BY DEF Inv, Books
  <2>2. QED
      BY <1>1, <1>2, <1>3, <1>4, <2>1 DEF Fed
<1>7. ASSUME writer' # "raised"
      PROVE  count'.processed + LastOut' = Len(stored') + Len(batch') + Len(output') + Cardinality(In({"putting"})')
  <2>1. Pages \in Nat /\ LastOut \in Nat
      BY <1>4 DEF Pages, LastOut
  <2>2. Pages' = Pages + m /\ LastOut' = LastOut + m
      BY <1>7 DEF Passed
  <2>3. count.processed + LastOut = Pages + Cardinality(In({"putting"}))
      BY <1>7 DEF Inv, Books, Passed, Pages
  <2>4. count'.processed + LastOut' = Pages' + Cardinality(In({"putting"})')
      BY <1>1, <1>2, <1>3, <2>1, <2>2, <2>3
  <2>5. QED
      BY <2>4 DEF Pages
<1>8. QED
    BY <1>1, <1>5, <1>6, <1>7 DEF Inv, Books

LEMMA FeedKeeps == ASSUME Inv, FeedUrl \/ FeedSentinel PROVE Inv'
<1>1. PICK x \in UrlSet \cup {Sentinel} : Feed(x)
  <2>1. CASE FeedUrl
    <3>1. urls \in Seq(UrlSet) /\ fed + 1 \in 1..Len(urls)
        BY <2>1, Lengths DEF FeedUrl, Inv
    <3>2. urls[fed + 1] \in UrlSet
        BY <3>1
    <3>3. QED
        BY <2>1, <3>2 DEF FeedUrl
  <2>2. CASE FeedSentinel
      BY <2>2 DEF FeedSentinel
  <2>3. QED
      BY <2>1, <2>2
<1>2. /\ fed < All /\ fed \in Nat /\ All \in Nat
      /\ (fed + 1 < All /\ driver' = driver) \/ (fed + 1 = All /\ driver' = "joining")
      /\ UNCHANGED <<urls, output, worker, permits, seen, count, writer, batch, stored>>
  <2>1. All \in Nat /\ fed \in 0..All /\ Len(urls) \in Nat /\ Cardinality(Worker) \in Nat \ {0}
      BY Lengths, AllPositive DEF Inv
  <2>2. CASE FeedUrl
      BY <2>1, <2>2 DEF FeedUrl, All
  <2>3. CASE FeedSentinel
      BY <1>1, <2>1, <2>3 DEF FeedSentinel, Feed, All
  <2>4. QED
      BY <2>2, <2>3
<1>3. driver = "feeding"
    BY <1>2 DEF Inv, Course
<1>4. /\ queue' \in Seq(UrlSet \cup {Sentinel}) /\ Len(queue') = Len(queue) + 1 /\ Len(queue') <= QueueSize
      /\ Len(queue) \in Nat /\ fed' = fed + 1 /\ unfinished' = unfinished + 1 /\ unfinished \in Nat
  <2>1. queue \in Seq(UrlSet \cup {Sentinel}) /\ unfinished \in Nat
      BY Typed DEF Inv
  <2>2. /\ Append(queue, x) \in Seq(UrlSet \cup {Sentinel}) /\ Len(Append(queue, x)) = Len(queue) + 1
        /\ Len(queue) \in Nat
      BY <2>1, Putting
  <2>3. QED
      BY <1>1, <2>1, <2>2, Kinds DEF Feed
<1>5. TypeOK'
  <2>1. fed' \in 0..(Len(urls') + Cardinality(Worker)) /\ unfinished' \in Nat
      BY <1>2, <1>4 DEF All
  <2>2. driver' \in DriverPc
      BY <1>2, <1>3 DEF DriverPc
  <2>3. QED
      BY <1>2, <1>4, <2>1, <2>2 DEF Inv, TypeOK
<1>6. Items'
    BY <1>2 DEF Inv, Items
<1>7. Course'
  <2>1. All' = All /\ (driver' = "feeding" <=> fed' < All)
      BY <1>2, <1>3, <1>4 DEF All
  <2>2. QED
      BY <1>2, <1>3, <2>1 DEF Inv, Course, Early
<1>8. Books'
  <2>1. LastOut = 0 /\ LastOut' = 0
      BY <1>2, <1>3 DEF LastOut, Early
  <2>2. Len(output) \in Nat /\ Len(batch) \in Nat /\ Len(stored) \in Nat
      BY Lengths DEF Inv
  <2>3. QED
    <3>1. Fed(1)
        BY <1>4 DEF Fed
    <3>2. Passed(0)
        BY <1>2, <2>1, <2>2 DEF Passed, Pages
    <3>3. QED
        BY <1>2, <3>1, <3>2, OtherBooks
<1>9. QED
    BY <1>5, <1>6, <1>7, <1>8 DEF Inv

LEMMA JoinedKeeps == ASSUME Inv, Joined PROVE Inv'
<1>1. /\ driver = "joining" /\ driver' = "closing" /\ unfinished = 0
      /\ UNCHANGED <<urls, fed, queue, unfinished, output, worker, permits, seen, count, writer, batch, stored>>
    BY DEF Joined, queues
<1>2. In(Busy) = {} /\ queue = <<>>
  <2>1. ~(In(Busy) # {} \/ queue # <<>>)
      BY <1>1, Unfinished
  <2>2. QED
      BY <2>1
<1>3. TypeOK'
    BY <1>1 DEF Inv, TypeOK, DriverPc
<1>4. Items' /\ In(Busy)' = In(Busy)
    BY <1>1 DEF Inv, Items, In
<1>5. Course'
    BY <1>1, <1>2, <1>4 DEF Inv, Course, Early, All
<1>6. Books'
  <2>1. LastOut = 0 /\ LastOut' = 0
      BY <1>1 DEF LastOut, Early
  <2>2. /\ Len(output) \in Nat /\ Len(batch) \in Nat /\ Len(stored) \in Nat
        /\ Len(queue) \in Nat /\ unfinished \in Nat /\ fed \in Nat
      BY Lengths, Typed DEF Inv
  <2>3. QED
    <3>1. Fed(0)
        BY <1>1, <2>2 DEF Fed
    <3>2. Passed(0)
        BY <1>1, <2>1, <2>2 DEF Passed, Pages
    <3>3. QED
        BY <1>1, <3>1, <3>2, OtherBooks
<1>7. QED
    BY <1>3, <1>4, <1>5, <1>6 DEF Inv

LEMMA Sizes ==
  Inv => /\ Len(queue) \in Nat /\ Len(output) \in Nat /\ Len(batch) \in Nat /\ Len(stored) \in Nat
         /\ fed \in Nat /\ unfinished \in Nat
BY Lengths, Typed DEF Inv

LEMMA CloseKeeps == ASSUME Inv, CloseOutput PROVE Inv'
<1>1. /\ driver = "closing" /\ driver' = "awaiting" /\ Len(output) < QueueSize /\ output' = Append(output, Sentinel)
      /\ UNCHANGED <<urls, fed, queue, unfinished, worker, permits, seen, count, writer, batch, stored>>
    BY DEF CloseOutput
<1>2. /\ output' \in Seq(Page \cup {Sentinel}) /\ Len(output') = Len(output) + 1 /\ Len(output') <= QueueSize
      /\ \A n \in 1..Len(output) : output'[n] = output[n]
  <2>1. output \in Seq(Page \cup {Sentinel})
      BY Typed DEF Inv
  <2>2. QED
      BY <1>1, <2>1, Putting, Kinds
<1>3. TypeOK'
    BY <1>1, <1>2 DEF Inv, TypeOK, DriverPc
<1>4. Items' /\ In(Busy)' = In(Busy) /\ All' = All
    BY <1>1 DEF Inv, Items, In, All
<1>5. Course'
  <2>1. \A n \in 1..Len(output) : output[n] # Sentinel
      BY <1>1 DEF Inv, Course, Early
  <2>2. \A n \in 1..Len(output') : output'[n] = Sentinel => n = Len(output')
      BY <1>2, <2>1, Sizes
  <2>3. writer \notin {"closing", "done"}
      BY <1>1 DEF Inv, Course, Early
  <2>4. QED
      BY <1>1, <1>4, <2>2, <2>3 DEF Inv, Course, Early
<1>6. Books'
  <2>1. LastOut = 0
      BY <1>1 DEF LastOut, Early
  <2>2. writer' # "raised" => LastOut' = 1
    <3>1. writer \in WriterPc /\ writer \notin {"closing", "done"}
        BY <1>1, Typed DEF Inv, Course, Early
    <3>2. QED
        BY <1>1, <3>1 DEF LastOut, Early, WriterPc
  <2>3. Fed(0)
      BY <1>1, Sizes DEF Fed
  <2>4. Passed(1)
      BY <1>1, <1>2, <2>1, <2>2, Sizes DEF Passed, Pages
  <2>5. QED
      BY <1>1, <2>3, <2>4, OtherBooks
<1>7. QED
    BY <1>3, <1>4, <1>5, <1>6 DEF Inv

LEMMA AwaitKeeps == ASSUME Inv, AwaitWriter \/ Gather PROVE Inv'
<1>1. /\ driver \notin Early /\ driver' \notin Early /\ driver' \in DriverPc /\ driver # "feeding" /\ driver' # "feeding"
      /\ driver' \notin {"feeding", "joining"} /\ driver \notin {"feeding", "joining"}
      /\ UNCHANGED <<urls, fed, queue, unfinished, output, worker, permits, seen, count, writer, batch, stored>>
    BY DEF AwaitWriter, Gather, queues, Early, DriverPc
<1>2. TypeOK'
    BY <1>1 DEF Inv, TypeOK
<1>3. Items' /\ In(Busy)' = In(Busy) /\ All' = All
    BY <1>1 DEF Inv, Items, In, All
<1>4. Course'
  <2>1. driver' \in {"gathering", "returned"} => writer = "done"
      BY DEF AwaitWriter, Gather, Inv, Course
  <2>2. driver' = "returned" => \A w \in Worker : worker[w].pc = "done"
      BY DEF AwaitWriter, Gather
  <2>3. QED
      BY <1>1, <1>3, <2>1, <2>2 DEF Inv, Course
<1>5. Books'
  <2>1. LastOut' = LastOut /\ LastOut \in Nat
      BY <1>1 DEF LastOut
  <2>2. Fed(0)
      BY <1>1, Sizes DEF Fed
  <2>3. Passed(0)
      BY <1>1, <2>1, Sizes DEF Passed, Pages
  <2>4. QED
      BY <1>1, <2>2, <2>3, OtherBooks
<1>6. QED
    BY <1>2, <1>3, <1>4, <1>5 DEF Inv

-----------------------------------------------------------------------------
(* Steps of the writer                                                        *)

LEMMA CollectKeeps == ASSUME Inv, Collect PROVE Inv'
<1>1. /\ writer = "getting" /\ output # <<>> /\ output' = Tail(output)
      /\ UNCHANGED <<urls, fed, queue, unfinished, driver, worker, permits, seen, count, stored>>
    BY DEF Collect
<1>2. output \in Seq(Page \cup {Sentinel}) /\ batch \in Seq(Page)
    BY Typed DEF Inv
<1>3. /\ Head(output) \in Page \cup {Sentinel} /\ Head(output) = output[1] /\ Len(output) \in Nat \ {0}
      /\ output' \in Seq(Page \cup {Sentinel}) /\ Len(output') = Len(output) - 1
      /\ \A n \in 1..Len(output') : output'[n] = output[n + 1]
    BY <1>1, <1>2, Getting
<1>4. Items' /\ In(Busy)' = In(Busy) /\ All' = All
    BY <1>1 DEF Inv, Items, In, All
<1>5. \A n \in 1..Len(output') : output'[n] = Sentinel => n = Len(output') /\ driver \notin Early
  <2>1. \A n \in 1..Len(output) : output[n] = Sentinel => n = Len(output) /\ driver \notin Early
      BY DEF Inv, Course
  <2>2. QED
      BY <1>3, <2>1
<1>6. Len(output') <= QueueSize
  <2>1. Len(output) <= QueueSize
      BY DEF Inv, TypeOK
  <2>2. QED
      BY <1>3, <2>1, Kinds
<1>7. CASE Head(output) = Sentinel
  <2>1. /\ batch' = batch
        /\ (batch = <<>> /\ writer' = "done") \/ (batch # <<>> /\ writer' = "closing")
      BY <1>7 DEF Collect
  <2>2. Len(output) = 1 /\ driver \notin Early
      BY <1>3, <1>7 DEF Inv, Course
  <2>3. output' = <<>>
      BY <1>3, <2>2
  <2>4. TypeOK'
      BY <1>1, <1>3, <1>6, <2>1 DEF Inv, TypeOK, WriterPc
  <2>5. Course'
      BY <1>1, <1>4, <1>5, <2>1, <2>2, <2>3 DEF Inv, Course
  <2>6. Books'
    <3>1. LastOut = 1 /\ LastOut' = 0
        BY <1>1, <2>1, <2>2 DEF LastOut
    <3>2. Fed(0)
        BY <1>1, Sizes DEF Fed
    <3>3. Passed(-1)
        BY <1>1, <1>3, <2>1, <3>1, Sizes DEF Passed, Pages
    <3>4. QED
        BY <1>1, <3>2, <3>3, OtherBooks
  <2>7. QED
      BY <1>4, <2>4, <2>5, <2>6 DEF Inv
<1>8. CASE Head(output) # Sentinel
  <2>1. /\ batch' = Append(batch, Head(output))
        /\ (Len(batch') >= BatchSize /\ writer' = "saving") \/ (~(Len(batch') >= BatchSize) /\ writer' = "getting")
      BY <1>8 DEF Collect
  <2>2. batch' \in Seq(Page) /\ Len(batch') = Len(batch) + 1
      BY <1>2, <1>3, <1>8, <2>1, Putting
  <2>3. Len(batch') <= BatchSize /\ (writer' = "getting" => Len(batch') < BatchSize)
    <3>1. Len(batch) < BatchSize
        BY <1>1 DEF Inv, Course
    <3>2. QED
        BY <2>1, <2>2, <3>1, Sizes, Kinds
  <2>4. TypeOK'
      BY <1>1, <1>3, <1>6, <2>1, <2>2, <2>3 DEF Inv, TypeOK, WriterPc
  <2>5. driver \notin {"gathering", "returned"}
      BY <1>1 DEF Inv, Course
  <2>6. Course'
      BY <1>1, <1>4, <1>5, <2>1, <2>3, <2>5 DEF Inv, Course
  <2>7. Books'
    <3>1. LastOut' = LastOut /\ LastOut \in Nat
        BY <1>1, <2>1 DEF LastOut
    <3>2. Fed(0)
        BY <1>1, Sizes DEF Fed
    <3>3. Passed(0)
        BY <1>1, <1>3, <2>2, <3>1, Sizes DEF Passed, Pages
    <3>4. QED
        BY <1>1, <3>2, <3>3, OtherBooks
  <2>8. QED
      BY <1>4, <2>4, <2>6, <2>7 DEF Inv
<1>9. QED
    BY <1>7, <1>8

LEMMA SaveKeeps == ASSUME Inv, Save PROVE Inv'
<1>1. /\ (writer = "saving" /\ writer' = "getting") \/ (writer = "closing" /\ writer' = "done")
      /\ stored' = stored \o batch /\ batch' = <<>>
      /\ UNCHANGED <<urls, fed, queue, unfinished, output, driver, worker, permits, seen, count>>
    BY DEF Save, queues
<1>2. stored' \in Seq(Page) /\ Len(stored') = Len(stored) + Len(batch) /\ batch' \in Seq(Page) /\ Len(batch') = 0
  <2>1. stored \in Seq(Page) /\ batch \in Seq(Page)
      BY Typed DEF Inv
  <2>2. QED
      BY <1>1, <2>1, ConcatProperties
<1>3. TypeOK'
    BY <1>1, <1>2, Kinds DEF Inv, TypeOK, WriterPc
<1>4. Items' /\ In(Busy)' = In(Busy) /\ All' = All
    BY <1>1 DEF Inv, Items, In, All
<1>5. Course'
    BY <1>1, <1>2, <1>4, Kinds DEF Inv, Course
<1>6. Books'
  <2>1. LastOut' = LastOut /\ LastOut \in Nat
      BY <1>1 DEF LastOut
  <2>2. Fed(0)
      BY <1>1, Sizes DEF Fed
  <2>3. Passed(0)
      BY <1>1, <1>2, <2>1, Sizes DEF Passed, Pages
  <2>4. QED
      BY <1>1, <2>2, <2>3, OtherBooks
<1>7. QED
    BY <1>3, <1>4, <1>5, <1>6 DEF Inv

LEMMA SaveFailsKeeps == ASSUME Inv, SaveFails PROVE Inv'
<1>1. /\ writer \in {"saving", "closing"} /\ writer' = "raised"
      /\ UNCHANGED <<urls, fed, queue, unfinished, output, driver, worker, permits, seen, count, batch, stored>>
    BY DEF SaveFails, queues
<1>2. TypeOK'
    BY <1>1 DEF Inv, TypeOK, WriterPc
<1>3. Items' /\ In(Busy)' = In(Busy) /\ All' = All
    BY <1>1 DEF Inv, Items, In, All
<1>4. Course'
    BY <1>1, <1>3 DEF Inv, Course
<1>5. Books'
  <2>1. Fed(0)
      BY <1>1, Sizes DEF Fed
  <2>2. Passed(0)
      BY <1>1 DEF Passed
  <2>3. QED
      BY <1>1, <2>1, <2>2, OtherBooks
<1>6. QED
    BY <1>2, <1>3, <1>4, <1>5 DEF Inv

LEMMA InvStep == Inv /\ [Next]_vars => Inv'
<1> SUFFICES ASSUME Inv, [Next]_vars PROVE Inv'
    OBVIOUS
<1>1. CASE Drive
    BY <1>1, FeedKeeps, JoinedKeeps, CloseKeeps, AwaitKeeps DEF Drive
<1>2. CASE Write
    BY <1>2, CollectKeeps, SaveKeeps, SaveFailsKeeps DEF Write
<1>3. ASSUME NEW w \in Worker, Step(w) PROVE Inv'
    BY <1>3, GetKeeps, StartFetchKeeps, FetchFailsKeeps, FetchedKeeps, ParseRaisesKeeps, PutPageKeeps DEF Step
<1>4. CASE UNCHANGED vars
  <2>1. TypeOK' /\ Items' /\ Course'
      BY <1>4 DEF vars, Inv, TypeOK, Items, Course, In, All
  <2>2. Books'
    <3>1. UNCHANGED <<unfinished, queue, fed, count, writer, stored, batch, output, permits, worker, driver>>
        BY <1>4 DEF vars
    <3>2. Fed(0) /\ LastOut' = LastOut /\ LastOut \in Nat
        BY <3>1, Sizes DEF Fed, LastOut
    <3>3. Passed(0)
        BY <3>1, <3>2, Sizes DEF Passed, Pages
    <3>4. QED
        BY <3>1, <3>2, <3>3, OtherBooks
  <2>3. QED
      BY <2>1, <2>2 DEF Inv
<1>5. QED
    BY <1>1, <1>2, <1>3, <1>4 DEF Next

(* Every variable keeps its type; so no queue is overfilled, and no semaphore   *)
(* gives more permits than it has.                                               *)
THEOREM TypeCorrect == Spec => []TypeOK
<1>1. Inv => TypeOK
    BY DEF Inv
<1>2. QED
    BY <1>1, InvInit, InvStep, PTL DEF Spec

(* The writer's sentinel is the last thing in its queue, and is put there when   *)
(* no worker holds anything, however the workers were scheduled.                 *)
THEOREM JoinIsEnough == Spec => []JoinMeansDone
<1>1. Inv => JoinMeansDone
  <2> SUFFICES ASSUME Inv, driver \in {"closing", "awaiting", "gathering", "returned"}
               PROVE  /\ Holding = {} /\ queue = <<>>
                      /\ \A n \in 1..(Len(output) - 1) : output[n] # Sentinel
                      /\ fed = Len(urls) + Cardinality(Worker)
      BY DEF JoinMeansDone
  <2>1. Holding = In(Busy)
      BY DEF Holding, In, Busy
  <2>2. fed = All
      BY Lengths DEF Inv, Course
  <2>3. QED
      BY <2>1, <2>2, Sizes DEF Inv, Course, All
<1>2. QED
    BY <1>1, InvInit, InvStep, PTL DEF Spec

(* When run() returns, every page counted as processed is stored, and every URL  *)
(* of the request is counted once.                                                *)
THEOREM NothingIsLost == Spec => []NothingLost
<1>1. Inv => NothingLost
  <2> SUFFICES ASSUME Inv, driver = "returned"
               PROVE  /\ Len(stored) = count.processed
                      /\ count.processed + count.failed + count.duplicates = Len(urls)
      BY DEF NothingLost
  <2>1. writer = "done" /\ output = <<>> /\ batch = <<>> /\ queue = <<>> /\ fed = All
      BY Lengths DEF Inv, Course
  <2>2. In({"putting"}) = {} /\ In(Taken) = Worker
      BY DEF Inv, Course, In, Taken
  <2>3. LastOut = 0 /\ Cardinality(In({"putting"})) = 0
      BY <2>1, <2>2, FS_EmptySet DEF LastOut
  <2>4. Len(stored) = count.processed
      BY <2>1, <2>3, Sizes, Numbers DEF Inv, Books
  <2>5. Finished = Len(urls)
    <3>1. fed = Len(queue) + Cardinality(Worker) + Finished /\ Len(queue) = 0
        BY <2>1, <2>2 DEF Inv, Books
    <3>2. Cardinality(Worker) \in Nat /\ Len(urls) \in Nat
        BY AllPositive, Lengths DEF Inv
    <3>3. QED
        BY <2>1, <3>1, <3>2, Numbers DEF All
  <2>6. QED
      BY <2>4, <2>5 DEF Finished
<1>2. QED
    BY <1>1, InvInit, InvStep, PTL DEF Spec

-----------------------------------------------------------------------------
(* No two pages alike                                                         *)

LEMMA Lines ==
  ASSUME TypeOK
  PROVE  /\ stored \o batch \in Seq(Page) /\ Line \in Seq(Page \cup {Sentinel})
         /\ \A n \in DOMAIN (stored \o batch) : n \in DOMAIN Line /\ Line[n] = (stored \o batch)[n]
<1>1. stored \in Seq(Page) /\ batch \in Seq(Page) /\ output \in Seq(Page \cup {Sentinel})
    BY Typed
<1>2. stored \o batch \in Seq(Page)
    BY <1>1
<1>3. QED
    BY <1>1, <1>2 DEF Line

LEMMA Collected ==
  ASSUME NEW S, stored \in Seq(S), batch \in Seq(S), output \in Seq(S), output # <<>>
  PROVE  (stored \o Append(batch, Head(output))) \o Tail(output) = (stored \o batch) \o output
<1> DEFINE old == (stored \o batch) \o output
           new == (stored \o Append(batch, Head(output))) \o Tail(output)
<1>1. /\ Head(output) \in S /\ Tail(output) \in Seq(S) /\ Append(batch, Head(output)) \in Seq(S)
      /\ Len(stored) \in Nat /\ Len(batch) \in Nat /\ Len(output) \in Nat \ {0}
    OBVIOUS
<1>2. stored \o batch \in Seq(S) /\ stored \o Append(batch, Head(output)) \in Seq(S)
    BY <1>1
<1>3. old \in Seq(S) /\ Len(old) = Len(stored) + Len(batch) + Len(output)
    BY <1>1, <1>2
<1>4. new \in Seq(S) /\ Len(new) = Len(stored) + Len(batch) + Len(output)
    BY <1>1, <1>2
<1>5. ASSUME NEW n \in 1..(Len(stored) + Len(batch) + Len(output)) PROVE new[n] = old[n]
  <2>1. CASE n <= Len(stored)
      BY <1>1, <1>2, <2>1
  <2>2. CASE n > Len(stored) /\ n <= Len(stored) + Len(batch)
      BY <1>1, <1>2, <2>2
  <2>3. CASE n = Len(stored) + Len(batch) + 1
      BY <1>1, <1>2, <2>3
  <2>4. CASE n > Len(stored) + Len(batch) + 1
    <3>1. n - (Len(stored) + Len(batch) + 1) \in 1..Len(Tail(output))
        BY <1>1, <2>4
    <3>2. new[n] = Tail(output)[n - (Len(stored) + Len(batch) + 1)]
        BY <1>1, <1>2, <2>4
    <3>3. old[n] = output[n - (Len(stored) + Len(batch))]
        BY <1>1, <1>2, <2>4
    <3>4. QED
        BY <1>1, <3>1, <3>2, <3>3, Getting
  <2>5. QED
      BY <1>1, <2>1, <2>2, <2>3, <2>4
<1> HIDE DEF old, new
<1>6. new = old
    BY <1>3, <1>4, <1>5, SeqEqual
<1>7. QED
    BY <1>6 DEF old, new

LEMMA Emptied ==
  ASSUME NEW S, NEW p \in Seq(S), NEW q \in Seq(S), NEW r \in Seq(S)
  PROVE  ((p \o q) \o <<>>) \o r = (p \o q) \o r
<1>1. p \o q \in Seq(S)
    OBVIOUS
<1>2. (p \o q) \o <<>> = p \o q
    BY <1>1
<1>3. QED
    BY <1>2

LEMMA Joins ==
  ASSUME NEW S, NEW p \in Seq(S), NEW r \in Seq(S), NEW x \in S
  PROVE  /\ Len(p \o r) \in Nat /\ DOMAIN (p \o r) = 1..Len(p \o r)
         /\ DOMAIN (p \o Append(r, x)) = 1..(Len(p \o r) + 1)
         /\ (p \o Append(r, x))[Len(p \o r) + 1] = x
         /\ \A n \in DOMAIN (p \o r) : (p \o Append(r, x))[n] = (p \o r)[n]
OBVIOUS

(* A step that leaves the line as it is and gives no worker a page.            *)
LEMMA ApartKept ==
  ASSUME Apart,
         \A n \in OnLine' : n \in OnLine /\ Line'[n] = Line[n],
         \A w \in In({"putting"})' : w \in In({"putting"}) /\ worker'[w].item = worker[w].item,
         seen.urls \subseteq seen'.urls, seen.hashes \subseteq seen'.hashes
  PROVE  Apart'
BY DEF Apart, Known, Alike

(* A step of a worker that does not end in "putting".                          *)
LEMMA LetGo ==
  ASSUME TypeOK, Apart, NEW w \in Worker, NEW pc, NEW x, pc # "putting",
         worker' = [worker EXCEPT ![w] = At(pc, x)],
         UNCHANGED <<stored, batch, output>>,
         seen.urls \subseteq seen'.urls, seen.hashes \subseteq seen'.hashes
  PROVE  Apart'
<1>1. Line' = Line /\ OnLine' = OnLine
    BY DEF Line, OnLine
<1>2. ASSUME NEW v \in In({"putting"})' PROVE v \in In({"putting"}) /\ worker'[v].item = worker[v].item
    BY Typed DEF In, At
<1>3. QED
    BY <1>1, <1>2, ApartKept

LEMMA FetchedApart == ASSUME Inv, Apart, NEW w \in Worker, Fetched(w) PROVE Apart'
<1> USE DEF Inv
<1>1. worker[w].pc = "fetching" /\ worker[w].item \in UrlSet
    BY DEF Fetched, Items
<1>2. PICK p \in PagesOf[worker[w].item] :
        /\ Remember(p)
        /\ IF Seen(p)
           THEN Again(w) /\ Count("duplicates") /\ TaskDone
           ELSE /\ Count("processed") /\ UNCHANGED unfinished
                /\ worker' = [worker EXCEPT ![w] = At("putting", p)]
    BY DEF Fetched
<1>3. UNCHANGED <<stored, batch, output>>
    BY DEF Fetched
<1>4. /\ seen'.urls = seen.urls \cup {NormalizedUrl[p]}
      /\ seen'.hashes = seen.hashes \cup {ContentHash[p]}
    BY <1>2 DEF Remember
<1>5. CASE Seen(p)
    BY <1>2, <1>3, <1>4, <1>5, LetGo DEF Again
<1>6. CASE ~Seen(p)
  <2>1. worker' = [worker EXCEPT ![w] = At("putting", p)]
      BY <1>2, <1>6
  <2>2. Line' = Line /\ OnLine' = OnLine
      BY <1>3 DEF Line, OnLine
  <2>3. \A v \in In({"putting"})' : \/ v = w /\ worker'[v].item = p
                                    \/ v # w /\ v \in In({"putting"}) /\ worker'[v].item = worker[v].item
      BY <2>1, Typed DEF In, At
  <2>4. \A q : Known(seen, q) => Known(seen', q) /\ ~Alike(p, q) /\ ~Alike(q, p)
      BY <1>4, <1>6 DEF Known, Alike, Seen
  <2>5. Known(seen', p)
      BY <1>4 DEF Known
  <2>6. /\ \A n \in OnLine' : Known(seen', Line'[n])
        /\ \A v \in In({"putting"})' : Known(seen', worker'[v].item)
      BY <2>2, <2>3, <2>4, <2>5 DEF Apart
  <2>7. \A m, n \in OnLine' : m # n => ~Alike(Line'[m], Line'[n])
      BY <2>2 DEF Apart
  <2>8. \A u, v \in In({"putting"})' : u # v => ~Alike(worker'[u].item, worker'[v].item)
      BY <2>3, <2>4 DEF Apart
  <2>9. \A n \in OnLine', v \in In({"putting"})' : ~Alike(Line'[n], worker'[v].item)
      BY <2>2, <2>3, <2>4 DEF Apart
  <2>10. QED
      BY <2>6, <2>7, <2>8, <2>9 DEF Apart
<1>7. QED
    BY <1>5, <1>6

LEMMA PutPageApart == ASSUME Inv, Apart, NEW w \in Worker, PutPage(w) PROVE Apart'
<1> USE DEF Inv
<1> DEFINE p == worker[w].item
           last == Len(Line) + 1
<1>1. w \in In({"putting"}) /\ p \in Page /\ p # Sentinel
    BY Kinds DEF PutPage, Items, In
<1>2. output' = Append(output, p) /\ stored' = stored /\ batch' = batch /\ seen' = seen
    BY DEF PutPage
<1>3. /\ stored \o batch \in Seq(Page \cup {Sentinel}) /\ output \in Seq(Page \cup {Sentinel})
    BY Lines, Typed
<1>4. /\ DOMAIN Line = 1..Len(Line) /\ DOMAIN Line' = 1..last /\ Len(Line) \in Nat
      /\ Line'[last] = p /\ \A n \in DOMAIN Line : Line'[n] = Line[n]
    BY <1>1, <1>2, <1>3, Joins DEF Line
<1>5. \A n \in OnLine' : n = last \/ n \in OnLine
    BY <1>4 DEF OnLine
<1>6. \A n \in OnLine : n # last /\ Line'[n] = Line[n]
    BY <1>4 DEF OnLine
<1>7. \A v \in In({"putting"})' : v # w /\ v \in In({"putting"}) /\ worker'[v].item = worker[v].item
    BY Typed DEF PutPage, Again, In, At
<1>8. /\ \A n \in OnLine' : Known(seen, Line'[n])
      /\ \A v \in In({"putting"})' : Known(seen, worker'[v].item)
    BY <1>1, <1>4, <1>5, <1>6, <1>7 DEF Apart
<1>9. \A m, n \in OnLine' : m # n => ~Alike(Line'[m], Line'[n])
    BY <1>1, <1>4, <1>5, <1>6 DEF Apart, Alike
<1>10. \A u, v \in In({"putting"})' : u # v => ~Alike(worker'[u].item, worker'[v].item)
    BY <1>7 DEF Apart
<1>11. \A n \in OnLine', v \in In({"putting"})' : ~Alike(Line'[n], worker'[v].item)
    BY <1>1, <1>4, <1>5, <1>6, <1>7 DEF Apart
<1>12. QED
    BY <1>2, <1>8, <1>9, <1>10, <1>11 DEF Apart

LEMMA WorkerApart == ASSUME Inv, Apart, NEW w \in Worker, Step(w) PROVE Apart'
<1>1. CASE Get(w)
  <2>1. \E pc \in {"done", "raised", "getting", "limited"} : \E x : worker' = [worker EXCEPT ![w] = At(pc, x)]
      BY <1>1 DEF Get, Again
  <2>2. UNCHANGED <<stored, batch, output, seen>>
      BY <1>1 DEF Get
  <2>3. QED
      BY <2>1, <2>2, LetGo DEF Inv
<1>2. CASE StartFetch(w)
  <2>1. worker' = [worker EXCEPT ![w].pc = "fetching"] /\ UNCHANGED <<stored, batch, output, seen>>
      BY <1>2 DEF StartFetch, queues
  <2>2. Line' = Line /\ OnLine' = OnLine
      BY <2>1 DEF Line, OnLine
  <2>3. ASSUME NEW v \in In({"putting"})' PROVE v \in In({"putting"}) /\ worker'[v].item = worker[v].item
      BY <2>1, Typed DEF In, Inv, WorkerSet
  <2>4. QED
      BY <2>1, <2>2, <2>3, ApartKept
<1>3. CASE FetchFails(w)
    BY <1>3, LetGo DEF FetchFails, Again, Inv
<1>4. CASE Fetched(w)
    BY <1>4, FetchedApart
<1>5. CASE ParseRaises(w)
    BY <1>5, LetGo DEF ParseRaises, Inv
<1>6. CASE PutPage(w)
    BY <1>6, PutPageApart
<1>7. QED
    BY <1>1, <1>2, <1>3, <1>4, <1>5, <1>6 DEF Step

(* A step that moves no worker and appends no page.                            *)
LEMMA OtherApart ==
  ASSUME Apart, UNCHANGED <<worker, seen>>, \A n \in OnLine' : n \in OnLine /\ Line'[n] = Line[n]
  PROVE  Apart'
<1>1. \A w \in In({"putting"})' : w \in In({"putting"}) /\ worker'[w].item = worker[w].item
    BY Unmoved
<1>2. QED
    BY <1>1, ApartKept

LEMMA DriveApart == ASSUME Inv, Apart, Drive PROVE Apart'
<1>1. UNCHANGED <<worker, seen, stored, batch>>
    BY DEF Drive, FeedUrl, FeedSentinel, Joined, CloseOutput, AwaitWriter, Gather
<1>2. CASE output' = output
    BY <1>1, <1>2, OtherApart DEF Line, OnLine
<1>3. CASE output' = Append(output, Sentinel)
  <2>1. /\ stored \o batch \in Seq(Page \cup {Sentinel}) /\ output \in Seq(Page \cup {Sentinel})
      BY Lines, Typed DEF Inv
  <2>2. /\ DOMAIN Line = 1..Len(Line) /\ DOMAIN Line' = 1..(Len(Line) + 1) /\ Len(Line) \in Nat
        /\ Line'[Len(Line) + 1] = Sentinel /\ \A n \in DOMAIN Line : Line'[n] = Line[n]
      BY <1>1, <1>3, <2>1, Joins DEF Line
  <2>3. \A n \in OnLine' : n \in OnLine /\ Line'[n] = Line[n]
      BY <2>2 DEF OnLine
  <2>4. QED
      BY <1>1, <2>3, OtherApart
<1>4. QED
    BY <1>2, <1>3 DEF Drive, FeedUrl, FeedSentinel, Joined, CloseOutput, AwaitWriter, Gather, queues

LEMMA WriteApart == ASSUME Inv, Apart, Write PROVE Apart'
<1> DEFINE S == Page \cup {Sentinel}
<1>1. /\ stored \in Seq(S) /\ batch \in Seq(S) /\ output \in Seq(S) /\ stored \o batch \in Seq(S)
    BY Typed, Lines DEF Inv
<1> HIDE DEF S
<1>2. UNCHANGED <<worker, seen>>
    BY DEF Write, Collect, Save, SaveFails
<1>3. CASE Collect /\ Head(output) # Sentinel
  <2>1. /\ output # <<>> /\ output' = Tail(output) /\ stored' = stored
        /\ batch' = Append(batch, Head(output))
      BY <1>3 DEF Collect
  <2>2. (stored \o Append(batch, Head(output))) \o Tail(output) = (stored \o batch) \o output
      BY <1>1, <2>1, Collected
  <2>3. Line' = Line
      BY <2>1, <2>2 DEF Line
  <2>4. QED
      BY <1>2, <2>3, OtherApart DEF OnLine
<1>4. CASE Collect /\ Head(output) = Sentinel
  <2>1. /\ output # <<>> /\ output' = Tail(output) /\ stored' = stored /\ batch' = batch
      BY <1>4 DEF Collect
  <2>2. Len(output) = 1
    <3>1. output[1] = Sentinel /\ Len(output) \in Nat \ {0}
        BY <1>1, <1>4, <2>1
    <3>2. 1 \in 1..Len(output)
        BY <3>1
    <3>3. \A n \in 1..Len(output) : output[n] = Sentinel => n = Len(output)
        BY DEF Inv, Course
    <3>4. 1 = Len(output)
        BY ONLY <3>1, <3>2, <3>3, Zenon
    <3>5. QED
        BY <3>4
  <2>3. output' = <<>>
      BY <1>1, <2>1, <2>2
  <2>4. Line' = stored \o batch
    <3>1. (stored \o batch) \o <<>> = stored \o batch
        BY <1>1
    <3>2. QED
        BY <2>1, <2>3, <3>1 DEF Line
  <2>5. \A n \in OnLine' : n \in OnLine /\ Line'[n] = Line[n]
      BY <2>4, Lines DEF Inv, OnLine
  <2>6. QED
      BY <1>2, <2>5, OtherApart
<1>5. CASE Save
  <2>1. stored' = stored \o batch /\ batch' = <<>> /\ output' = output
      BY <1>5 DEF Save, queues
  <2>2. Line' = Line
      BY <1>1, <2>1, Emptied DEF Line
  <2>3. QED
      BY <1>2, <2>2, OtherApart DEF OnLine
<1>6. CASE SaveFails
  <2>1. UNCHANGED <<stored, batch, output>>
      BY <1>6 DEF SaveFails, queues
  <2>2. QED
      BY <1>2, <2>1, OtherApart DEF Line, OnLine
<1>7. QED
    BY <1>3, <1>4, <1>5, <1>6 DEF Write

LEMMA ApartInit == Init => Apart
<1> SUFFICES ASSUME Init PROVE Apart
    OBVIOUS
<1>1. In({"putting"}) = {}
    BY DEF Init, At, In
<1>2. Line = <<>>
    BY DEF Init, Line
<1>3. OnLine = {}
    BY <1>2 DEF OnLine
<1>4. QED
    BY <1>1, <1>3 DEF Apart

LEMMA ApartStep == Inv /\ Apart /\ [Next]_vars => Apart'
<1> SUFFICES ASSUME Inv, Apart, [Next]_vars PROVE Apart'
    OBVIOUS
<1>1. CASE UNCHANGED vars
    BY <1>1, OtherApart DEF vars, Line, OnLine
<1>2. QED
    BY <1>1, WorkerApart, DriveApart, WriteApart DEF Next

(* No two pages that reach the writer share a URL or a content hash, although    *)
(* the workers that found them ran side by side.                                  *)
THEOREM PagesAreDistinct == Spec => []RowsDistinct
<1>1. Inv /\ Apart => RowsDistinct
  <2> SUFFICES ASSUME Inv, Apart, NEW m \in DOMAIN (stored \o batch), NEW n \in DOMAIN (stored \o batch), m # n
               PROVE  ~Alike((stored \o batch)[m], (stored \o batch)[n])
      BY DEF RowsDistinct, Alike
  <2>1. stored \o batch \in Seq(Page)
      BY Lines DEF Inv
  <2>2. (stored \o batch)[m] # Sentinel /\ (stored \o batch)[n] # Sentinel
      BY <2>1, Kinds
  <2>3. m \in OnLine /\ n \in OnLine
      BY <2>2, Lines DEF OnLine, Inv
  <2>4. QED
      BY <2>3, Lines DEF Apart, Inv
<1>2. QED
    BY <1>1, InvInit, InvStep, ApartInit, ApartStep, PTL DEF Spec

=============================================================================
