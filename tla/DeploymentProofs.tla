-------------------------- MODULE DeploymentProofs --------------------------
(***************************************************************************)
(* Proofs about releases. Told is about one release: what its outcome says of   *)
(* the services while the controller decides it and ECS acts. Fleet and           *)
(* Migrations are about all of them: what is deployed was let through by a gate  *)
(* that has seen its migration, and migrations only ever add to the schema.      *)
(***************************************************************************)
EXTENDS Deployment, TLAPS

Restored == \A s \in Service : task[s] = "old"
Outcome == [status |-> status, rollback |-> rollback, finished |-> TRUE]
Over == {"finally", "ended"}

Told ==
  /\ pc = "smoke" \/ status = "passed" => Deployed("new")
  /\ status = "passed" => pc \in Over
  /\ rollback = "verified" => Deployed("old")
  /\ rollback # "none" => pc \in Over
  /\ file.finished => pc = "ended" /\ file = Outcome
  /\ ~file.finished => file.status = "in_progress" /\ file.rollback = "none"
  /\ ~changed => Restored
  /\ pc = "restore" => \A i \in 1..(next - 1) : task[Services[i]] = "old"
  /\ pc \in {"rewait", "reverify"} => Restored
  /\ pc \in {"restore", "rewait", "reverify"} => status = "failed"
  /\ pc \in Over /\ ~interrupted =>
       \/ status = "passed"
       \/ status = "failed" /\ (rollback = "failed" \/ Restored)
  /\ pc = "ended" /\ ~interrupted => file.finished

(* The gate opens when the migration has succeeded, and nothing else lets the    *)
(* new revision through.                                                         *)
Gated ==
  /\ pc = "migrate" => migration = "none"
  /\ pc \in {"update", "wait", "verify", "smoke"} \/ ~Restored => migration = "succeeded"

-----------------------------------------------------------------------------
Version == 0..LastVersion
Migrator == [pc : {"absent", "connecting", "upgrading", "committing", "bootstrapping", "done", "failed"},
             from : Version, to : Version]

DeployTypeOK ==
  /\ release \in Releases
  /\ code \in [Service -> [old : Version, new : Version]]
  /\ running \in [Service -> SUBSET Version]
  /\ migrator \in [Releases -> Migrator]
  /\ version \in Version

(* The database is at a version; what is granted are the tables of one it has   *)
(* been at.                                                                      *)
Placed ==
  /\ tables = SchemaAt[version]
  /\ \E v \in 0..version : granted = DOMAIN SchemaAt[v]

(* Code of that version may run: the database has all it needs, and will have. *)
Served(v) == v <= version /\ GrantedBy(v) \subseteq granted

(* Of two migrations that read the same version only one applies; while it      *)
(* commits no other does.                                                        *)
Migrations ==
  \A r \in Releases :
    /\ migrator[r].pc \in {"upgrading", "committing"} =>
         migrator[r].from < migrator[r].to /\ migrator[r].from <= version
    /\ migrator[r].pc = "committing" =>
         /\ migrator[r].from = version
         /\ \A other \in Releases : migrator[other].pc = "committing" => other = r
    /\ migrator[r].pc = "bootstrapping" => migrator[r].to <= version
    /\ migrator[r].pc = "done" => Served(migrator[r].to)

Fleet ==
  /\ \A s \in Service :
       /\ code[s].new = code["api"].new
       /\ Served(code[s].old)
       /\ \A v \in running[s] : Served(v)
  /\ migration = "running" => migrator[release].to = code["api"].new
  /\ migration = "succeeded" => Served(code["api"].new)

ReleaseInv == TypeOK /\ Told /\ Gated
DeployInv == DeployTypeOK /\ Placed /\ Migrations /\ Fleet

-----------------------------------------------------------------------------
(* The schema                                                                 *)

IsTables(T) ==
  /\ T = [t \in DOMAIN T |-> T[t]]
  /\ \A t \in DOMAIN T : T[t] = [columns |-> T[t].columns, required |-> T[t].required]

(* Code that runs on one schema also runs on the other.                        *)
Extends(T, U) ==
  \A t \in DOMAIN T :
    t \in DOMAIN U /\ T[t].columns \subseteq U[t].columns /\ T[t].required = U[t].required

Joined(T, U, W) ==
  /\ IsTables(W) /\ Extends(T, W) /\ DOMAIN W = DOMAIN T \cup DOMAIN U
  /\ \A t \in DOMAIN T : W[t] = T[t]
  /\ \A t \in DOMAIN U \ DOMAIN T : W[t] = U[t]

LEMMA BothTables ==
  ASSUME NEW T, NEW U, IsTables(T), IsTables(U) PROVE Joined(T, U, Both(T, U))
BY DEF Both, IsTables, Extends, Joined

LEMMA OneMoreColumn ==
  ASSUME NEW T, IsTables(T), NEW t \in DOMAIN T, NEW column
  PROVE  /\ IsTables(WithColumn(T, t, column)) /\ Extends(T, WithColumn(T, t, column))
         /\ DOMAIN WithColumn(T, t, column) = DOMAIN T
         /\ WithColumn(T, t, column)[t] =
              [columns |-> T[t].columns \cup {column}, required |-> T[t].required]
         /\ \A u \in DOMAIN T \ {t} : WithColumn(T, t, column)[u] = T[u]
<1> DEFINE U == WithColumn(T, t, column)
           wider == [columns |-> T[t].columns \cup {column}, required |-> T[t].required]
<1>1. T[t] = [columns |-> T[t].columns, required |-> T[t].required] /\ T = [u \in DOMAIN T |-> T[u]]
    BY DEF IsTables
<1>2. [T[t] EXCEPT !.columns = @ \cup {column}] = wider
    BY <1>1
<1>3. U = [u \in DOMAIN T |-> IF u = t THEN wider ELSE T[u]]
    BY <1>1, <1>2 DEF WithColumn
<1> HIDE DEF U
<1>4. DOMAIN U = DOMAIN T /\ U[t] = wider /\ \A u \in DOMAIN T \ {t} : U[u] = T[u]
    BY <1>3
<1>5. U = [u \in DOMAIN U |-> U[u]]
    BY <1>3
<1>6. \A u \in DOMAIN U : U[u] = [columns |-> U[u].columns, required |-> U[u].required]
    BY <1>4 DEF IsTables
<1>7. Extends(T, U)
    BY <1>4 DEF Extends
<1>8. QED
    BY <1>4, <1>5, <1>6, <1>7 DEF U, IsTables

LEMMA NewTables ==
  /\ IsTables(NoTables) /\ DOMAIN NoTables = {}
  /\ IsTables(InitialSchema) /\ DOMAIN InitialSchema = {"crawl_jobs", "pages", "crawl_attempts", "links"}
  /\ IsTables(CrawlFrontier) /\ DOMAIN CrawlFrontier = {"crawl_frontier"}
  /\ IsTables(DomainStatsRollup) /\ DOMAIN DomainStatsRollup = {"domain_stats"}
  /\ IsTables(SecurityHealth) /\ DOMAIN SecurityHealth = {"api_quotas", "worker_heartbeats"}
<1>1. \A A, B : Table(A, B) = [columns |-> Table(A, B).columns, required |-> Table(A, B).required]
    BY DEF Table
<1>2. IsTables(NoTables) /\ DOMAIN NoTables = {}
    BY DEF IsTables, NoTables
<1>3. IsTables(CrawlFrontier) /\ DOMAIN CrawlFrontier = {"crawl_frontier"}
    BY <1>1 DEF IsTables, CrawlFrontier
<1>4. IsTables(DomainStatsRollup) /\ DOMAIN DomainStatsRollup = {"domain_stats"}
    BY <1>1 DEF IsTables, DomainStatsRollup
<1>5. IsTables(SecurityHealth) /\ DOMAIN SecurityHealth = {"api_quotas", "worker_heartbeats"}
    BY <1>1 DEF IsTables, SecurityHealth
<1>6. IsTables(InitialSchema) /\ DOMAIN InitialSchema = {"crawl_jobs", "pages", "crawl_attempts", "links"}
    BY <1>1 DEF IsTables, InitialSchema
<1>7. QED
    BY <1>2, <1>3, <1>4, <1>5, <1>6

(* The recursive function has the values its definition gives: there is a      *)
(* function that has them.                                                       *)
LEMMA SchemaSteps ==
  /\ SchemaAt[0] = NoTables
  /\ \A v \in 1..LastVersion : SchemaAt[v] = Upgraded(v, SchemaAt[v - 1])
<1> DEFINE T1 == Upgraded(1, NoTables)
           T2 == Upgraded(2, T1)
           T3 == Upgraded(3, T2)
           T4 == Upgraded(4, T3)
           T5 == Upgraded(5, T4)
           T6 == Upgraded(6, T5)
           At(v) == IF v = 0 THEN NoTables ELSE IF v = 1 THEN T1 ELSE IF v = 2 THEN T2 ELSE IF v = 3 THEN T3
                    ELSE IF v = 4 THEN T4 ELSE IF v = 5 THEN T5 ELSE T6
           f == [v \in 0..LastVersion |-> At(v)]
           Step(g) == [v \in 0..LastVersion |-> IF v = 0 THEN NoTables ELSE Upgraded(v, g[v - 1])]
<1>1. ASSUME NEW v \in 1..LastVersion PROVE At(v) = Upgraded(v, At(v - 1))
  <2> HIDE DEF T1, T2, T3, T4, T5, T6
  <2>1. v \in {1, 2, 3, 4, 5, 6}
      BY DEF LastVersion
  <2>2. CASE v = 1
      BY <2>2 DEF T1
  <2>3. CASE v = 2
      BY <2>3 DEF T2
  <2>4. CASE v = 3
      BY <2>4 DEF T3
  <2>5. CASE v = 4
      BY <2>5 DEF T4
  <2>6. CASE v = 5
      BY <2>6 DEF T5
  <2>7. CASE v = 6
      BY <2>7 DEF T6
  <2>8. QED
      BY <2>1, <2>2, <2>3, <2>4, <2>5, <2>6, <2>7
<1> HIDE DEF T1, T2, T3, T4, T5, T6
<1>2. At(0) = NoTables
    OBVIOUS
<1> HIDE DEF At
<1>3. ASSUME NEW v \in 0..LastVersion
      PROVE  At(v) = IF v = 0 THEN NoTables ELSE Upgraded(v, f[v - 1])
  <2>1. CASE v = 0
      BY <1>2, <2>1
  <2>2. CASE v # 0
    <3>1. v \in 1..LastVersion /\ v - 1 \in 0..LastVersion
        BY <2>2 DEF LastVersion
    <3>2. f[v - 1] = At(v - 1)
        BY <3>1
    <3>3. QED
        BY <1>1, <2>2, <3>1, <3>2
  <2>3. QED
      BY <2>1, <2>2
<1>4. f = Step(f)
    BY <1>3
<1>5. SchemaAt = CHOOSE g : g = Step(g)
    BY DEF SchemaAt
<1> HIDE DEF f, Step
<1>6. SchemaAt = Step(SchemaAt)
    BY <1>4, <1>5
<1>7. QED
  <2>1. SchemaAt = [v \in 0..LastVersion |-> IF v = 0 THEN NoTables ELSE Upgraded(v, SchemaAt[v - 1])]
      BY <1>6 DEF Step
  <2>2. 0 \in 0..LastVersion /\ \A v \in 1..LastVersion : v # 0 /\ v \in 0..LastVersion
      BY DEF LastVersion
  <2>3. QED
      BY <2>1, <2>2

V1 == {"crawl_jobs", "pages", "crawl_attempts", "links"}
V2 == V1 \cup {"crawl_frontier"}
V3 == V2 \cup {"domain_stats"}
V5 == V3 \cup {"api_quotas", "worker_heartbeats"}

(* What each migration makes of the schema before it.                          *)
LEMMA Migration1 ==
  /\ IsTables(SchemaAt[0]) /\ Extends(SchemaAt[0], SchemaAt[1]) /\ IsTables(SchemaAt[1])
  /\ DOMAIN SchemaAt[0] = {} /\ DOMAIN SchemaAt[1] = V1
  /\ \A t \in V1 : SchemaAt[1][t] = InitialSchema[t]
<1>1. SchemaAt[0] = NoTables /\ SchemaAt[1] = Both(SchemaAt[0], InitialSchema)
    BY SchemaSteps DEF LastVersion, Upgraded
<1>2. IsTables(SchemaAt[0]) /\ IsTables(InitialSchema)
    BY <1>1, NewTables
<1>3. Joined(SchemaAt[0], InitialSchema, SchemaAt[1])
    BY <1>1, <1>2, BothTables
<1>4. DOMAIN SchemaAt[0] = {} /\ DOMAIN InitialSchema = V1
    BY <1>1, NewTables DEF V1
<1>5. QED
    BY <1>2, <1>3, <1>4 DEF Joined

LEMMA Migration2 ==
  /\ Extends(SchemaAt[1], SchemaAt[2]) /\ IsTables(SchemaAt[2]) /\ DOMAIN SchemaAt[2] = V2
  /\ \A t \in V1 : SchemaAt[2][t] = SchemaAt[1][t]
  /\ SchemaAt[2]["crawl_frontier"] = CrawlFrontier["crawl_frontier"]
<1>1. SchemaAt[2] = Both(SchemaAt[1], CrawlFrontier)
    BY SchemaSteps DEF LastVersion, Upgraded
<1>2. "crawl_frontier" \in DOMAIN CrawlFrontier \ DOMAIN SchemaAt[1]
    BY Migration1, NewTables DEF V1
<1>3. DOMAIN SchemaAt[1] = V1
    BY Migration1
<1>4. Joined(SchemaAt[1], CrawlFrontier, SchemaAt[2])
  <2>1. IsTables(SchemaAt[1]) /\ IsTables(CrawlFrontier)
      BY Migration1, NewTables
  <2>2. QED
      BY <1>1, <2>1, BothTables
<1>5. QED
    BY <1>2, <1>3, <1>4, NewTables DEF Joined, V2

LEMMA Migration3 ==
  /\ Extends(SchemaAt[2], SchemaAt[3]) /\ IsTables(SchemaAt[3]) /\ DOMAIN SchemaAt[3] = V3
  /\ \A t \in V2 : SchemaAt[3][t] = SchemaAt[2][t]
  /\ SchemaAt[3]["domain_stats"] = DomainStatsRollup["domain_stats"]
<1>1. SchemaAt[3] = Both(SchemaAt[2], DomainStatsRollup)
    BY SchemaSteps DEF LastVersion, Upgraded
<1>2. "domain_stats" \in DOMAIN DomainStatsRollup \ DOMAIN SchemaAt[2]
    BY Migration2, NewTables DEF V1, V2
<1>3. DOMAIN SchemaAt[2] = V2
    BY Migration2
<1>4. Joined(SchemaAt[2], DomainStatsRollup, SchemaAt[3])
  <2>1. IsTables(SchemaAt[2]) /\ IsTables(DomainStatsRollup)
      BY Migration2, NewTables
  <2>2. QED
      BY <1>1, <2>1, BothTables
<1>5. QED
    BY <1>2, <1>3, <1>4, NewTables DEF Joined, V3

LEMMA Migration4 ==
  /\ Extends(SchemaAt[3], SchemaAt[4]) /\ IsTables(SchemaAt[4]) /\ DOMAIN SchemaAt[4] = V3
  /\ \A t \in V3 \ {"crawl_frontier"} : SchemaAt[4][t] = SchemaAt[3][t]
  /\ SchemaAt[4]["crawl_frontier"] =
       [columns |-> SchemaAt[3]["crawl_frontier"].columns \cup {"lease_token"},
        required |-> SchemaAt[3]["crawl_frontier"].required]
<1>1. SchemaAt[4] = WithColumn(SchemaAt[3], "crawl_frontier", "lease_token")
    BY SchemaSteps DEF LastVersion, Upgraded
<1>2. "crawl_frontier" \in DOMAIN SchemaAt[3]
    BY Migration3 DEF V2, V3
<1>3. QED
    BY <1>1, <1>2, Migration3, OneMoreColumn

LEMMA Migration5 ==
  /\ Extends(SchemaAt[4], SchemaAt[5]) /\ IsTables(SchemaAt[5]) /\ DOMAIN SchemaAt[5] = V5
  /\ \A t \in V3 : SchemaAt[5][t] = SchemaAt[4][t]
  /\ \A t \in V5 \ V3 : SchemaAt[5][t] = SecurityHealth[t]
<1>1. SchemaAt[5] = Both(SchemaAt[4], SecurityHealth)
    BY SchemaSteps DEF LastVersion, Upgraded
<1>2. V5 = V3 \cup DOMAIN SecurityHealth
    BY NewTables DEF V5
<1>3. DOMAIN SchemaAt[4] = V3
    BY Migration4
<1>4. Joined(SchemaAt[4], SecurityHealth, SchemaAt[5])
  <2>1. IsTables(SchemaAt[4]) /\ IsTables(SecurityHealth)
      BY Migration4, NewTables
  <2>2. QED
      BY <1>1, <2>1, BothTables
<1>5. QED
    BY <1>2, <1>3, <1>4, NewTables DEF Joined

LEMMA Migration6 ==
  /\ Extends(SchemaAt[5], SchemaAt[6]) /\ IsTables(SchemaAt[6]) /\ DOMAIN SchemaAt[6] = V5
  /\ \A t \in V5 \ {"crawl_jobs"} : SchemaAt[6][t] = SchemaAt[5][t]
  /\ SchemaAt[6]["crawl_jobs"] =
       [columns |-> SchemaAt[5]["crawl_jobs"].columns \cup {"traceparent"},
        required |-> SchemaAt[5]["crawl_jobs"].required]
<1>1. SchemaAt[6] = WithColumn(SchemaAt[5], "crawl_jobs", "traceparent")
    BY SchemaSteps DEF LastVersion, Upgraded
<1>2. "crawl_jobs" \in DOMAIN SchemaAt[5]
    BY Migration5 DEF V1, V2, V3, V5
<1>3. QED
    BY <1>1, <1>2, Migration5, OneMoreColumn

LEMMA ExtendsTwice ==
  ASSUME NEW T, NEW U, NEW W, Extends(T, U), Extends(U, W) PROVE Extends(T, W)
BY DEF Extends

(* No migration takes anything away.                                           *)
LEMMA Later == ASSUME NEW v \in Version, NEW w \in Version, v <= w PROVE Extends(SchemaAt[v], SchemaAt[w])
<1> DEFINE Ext(a, b) == Extends(SchemaAt[a], SchemaAt[b])
<1>1. Ext(0, 1) /\ Ext(1, 2) /\ Ext(2, 3) /\ Ext(3, 4) /\ Ext(4, 5) /\ Ext(5, 6)
    BY Migration1, Migration2, Migration3, Migration4, Migration5, Migration6
<1>2. \A a : Ext(a, a)
    BY DEF Extends
<1>3. \A a, b, c : Ext(a, b) /\ Ext(b, c) => Ext(a, c)
    BY ExtendsTwice
<1> HIDE DEF Ext
<1>4. Ext(4, 6) /\ Ext(3, 5) /\ Ext(2, 4) /\ Ext(1, 3) /\ Ext(0, 2)
    BY <1>1, <1>3
<1>5. Ext(3, 6) /\ Ext(2, 5) /\ Ext(1, 4) /\ Ext(0, 3)
    BY <1>1, <1>3, <1>4
<1>6. Ext(2, 6) /\ Ext(1, 5) /\ Ext(0, 4) /\ Ext(1, 6) /\ Ext(0, 5) /\ Ext(0, 6)
    BY <1>1, <1>3, <1>4, <1>5
<1>7. v \in 0..6 /\ w \in 0..6
    BY DEF Version, LastVersion
<1>8. Ext(v, w)
    BY <1>1, <1>2, <1>4, <1>5, <1>6, <1>7
<1>9. QED
    BY <1>8 DEF Ext

(* The two tables that later migrations widen do not have the new column yet.   *)
LEMMA NotYetWidened ==
  /\ SchemaAt[3]["crawl_frontier"] = CrawlFrontier["crawl_frontier"]
  /\ "lease_token" \notin SchemaAt[3]["crawl_frontier"].columns
  /\ SchemaAt[5]["crawl_jobs"] = InitialSchema["crawl_jobs"]
  /\ "traceparent" \notin SchemaAt[5]["crawl_jobs"].columns
<1>1. CrawlFrontier["crawl_frontier"].columns = {"job_id", "url", "normalized_url", "domain"} \cup
        {"id", "priority", "state", "attempt_count", "max_attempts", "available_at", "lease_owner",
         "lease_expires_at", "last_error_type", "last_error_message", "completed_at", "created_at", "updated_at"}
    BY DEF CrawlFrontier, Table
<1>2. SchemaAt[3]["crawl_frontier"] = CrawlFrontier["crawl_frontier"]
    BY Migration2, Migration3 DEF V2
<1>3. InitialSchema["crawl_jobs"].columns = {"status", "requested_urls"} \cup
        {"id", "created_at", "started_at", "completed_at", "processed_count", "success_count", "failure_count"}
    BY DEF InitialSchema, Table
<1>4. SchemaAt[5]["crawl_jobs"] = InitialSchema["crawl_jobs"]
  <2>1. "crawl_jobs" \in V1 /\ "crawl_jobs" \in V2 /\ "crawl_jobs" \in V3 \ {"crawl_frontier"}
      BY DEF V1, V2, V3
  <2>2. QED
      BY <2>1, Migration1, Migration2, Migration3, Migration4, Migration5
<1>5. QED
    BY <1>1, <1>2, <1>3, <1>4

(* Every migration adds a table or a column, so what it adds tells that it ran. *)
LEMMA Marks ==
  ASSUME NEW v \in 1..LastVersion
  PROVE  \E t \in DOMAIN SchemaAt[v] :
           \/ t \notin DOMAIN SchemaAt[v - 1]
           \/ ~(SchemaAt[v][t].columns \subseteq SchemaAt[v - 1][t].columns)
<1>1. v \in {1, 2, 3, 4, 5, 6}
    BY DEF LastVersion
<1>2. CASE v = 1
  <2>1. "crawl_jobs" \in DOMAIN SchemaAt[1] /\ "crawl_jobs" \notin DOMAIN SchemaAt[0]
      BY Migration1 DEF V1
  <2>2. QED
      BY <1>2, <2>1
<1>3. CASE v = 2
  <2>1. "crawl_frontier" \in DOMAIN SchemaAt[2] /\ "crawl_frontier" \notin DOMAIN SchemaAt[1]
      BY Migration1, Migration2 DEF V1, V2
  <2>2. QED
      BY <1>3, <2>1
<1>4. CASE v = 3
  <2>1. "domain_stats" \in DOMAIN SchemaAt[3] /\ "domain_stats" \notin DOMAIN SchemaAt[2]
      BY Migration2, Migration3 DEF V1, V2, V3
  <2>2. QED
      BY <1>4, <2>1
<1>5. CASE v = 4
  <2>1. "lease_token" \notin SchemaAt[3]["crawl_frontier"].columns
      BY NotYetWidened
  <2>2. "lease_token" \in SchemaAt[4]["crawl_frontier"].columns /\ "crawl_frontier" \in DOMAIN SchemaAt[4]
      BY Migration4 DEF V2, V3
  <2>3. QED
      BY <1>5, <2>1, <2>2
<1>6. CASE v = 5
  <2>1. "api_quotas" \in DOMAIN SchemaAt[5] /\ "api_quotas" \notin DOMAIN SchemaAt[4]
      BY Migration4, Migration5 DEF V1, V2, V3, V5
  <2>2. QED
      BY <1>6, <2>1
<1>7. CASE v = 6
  <2>1. "traceparent" \notin SchemaAt[5]["crawl_jobs"].columns
      BY NotYetWidened
  <2>2. "traceparent" \in SchemaAt[6]["crawl_jobs"].columns /\ "crawl_jobs" \in DOMAIN SchemaAt[6]
      BY Migration6 DEF V1, V2, V3, V5
  <2>3. QED
      BY <1>7, <2>1, <2>2
<1>8. QED
    BY <1>1, <1>2, <1>3, <1>4, <1>5, <1>6, <1>7

(* A migration that reads a version and finds the schema further on fails: what *)
(* the other one has added is there already.                                    *)
LEMMA AppliesOnce ==
  ASSUME NEW from \in Version, NEW to \in Version, NEW w \in Version, from < to, from <= w,
         Applies(from, to, SchemaAt[w])
  PROVE  from = w
<1>1. SUFFICES ASSUME from < w PROVE FALSE
    BY DEF Version, LastVersion
<1> DEFINE v == from + 1
<1>2. v \in 1..LastVersion /\ v \in (from + 1)..to /\ v \in Version /\ v <= w
    BY <1>1 DEF Version, LastVersion
<1> HIDE DEF v
<1>3. PICK t \in DOMAIN SchemaAt[v] :
         \/ t \notin DOMAIN SchemaAt[v - 1]
         \/ ~(SchemaAt[v][t].columns \subseteq SchemaAt[v - 1][t].columns)
    BY <1>2, Marks
<1>4. t \in DOMAIN SchemaAt[w] /\ SchemaAt[v][t].columns \subseteq SchemaAt[w][t].columns
    BY <1>2, Later DEF Extends
<1>5. \/ v > 1 /\ t \in DOMAIN SchemaAt[v - 1] /\ SchemaAt[v][t] = SchemaAt[v - 1][t]
      \/ t \notin DOMAIN SchemaAt[w]
      \/ ~(SchemaAt[v][t].columns \subseteq SchemaAt[w][t].columns)
    BY <1>2 DEF Applies
<1>6. QED
    BY <1>3, <1>4, <1>5

(* A migration finds nothing of what it creates in the schema it was written    *)
(* for.                                                                          *)
LEMMA EachCreates ==
  ASSUME NEW v \in 1..LastVersion, NEW t \in DOMAIN SchemaAt[v]
  PROVE  \/ v > 1 /\ t \in DOMAIN SchemaAt[v - 1] /\ SchemaAt[v][t] = SchemaAt[v - 1][t]
         \/ t \notin DOMAIN SchemaAt[v - 1]
         \/ ~(SchemaAt[v][t].columns \subseteq SchemaAt[v - 1][t].columns)
<1>1. v \in {1, 2, 3, 4, 5, 6}
    BY DEF LastVersion
<1>2. CASE v = 1
    BY <1>2, Migration1
<1>3. CASE v = 2
    BY <1>3, Migration1, Migration2
<1>4. CASE v = 3
    BY <1>4, Migration2, Migration3
<1>5. CASE v = 4
  <2>1. DOMAIN SchemaAt[4] = DOMAIN SchemaAt[3] /\ DOMAIN SchemaAt[3] = V3
      BY Migration3, Migration4
  <2>2. CASE t = "crawl_frontier"
    <3>1. "lease_token" \in SchemaAt[4]["crawl_frontier"].columns
        BY Migration4
    <3>2. QED
        BY <1>5, <2>2, <3>1, NotYetWidened
  <2>3. CASE t # "crawl_frontier"
      BY <1>5, <2>1, <2>3, Migration4
  <2>4. QED
      BY <2>2, <2>3
<1>6. CASE v = 5
    BY <1>6, Migration4, Migration5
<1>7. CASE v = 6
  <2>1. DOMAIN SchemaAt[6] = DOMAIN SchemaAt[5] /\ DOMAIN SchemaAt[5] = V5
      BY Migration5, Migration6
  <2>2. CASE t = "crawl_jobs"
    <3>1. "traceparent" \in SchemaAt[6]["crawl_jobs"].columns
        BY Migration6
    <3>2. QED
        BY <1>7, <2>2, <3>1, NotYetWidened
  <2>3. CASE t # "crawl_jobs"
      BY <1>7, <2>1, <2>3, Migration6
  <2>4. QED
      BY <2>2, <2>3
<1>8. QED
    BY <1>1, <1>2, <1>3, <1>4, <1>5, <1>6, <1>7

LEMMA AppliesInOrder ==
  ASSUME NEW from \in Version, NEW to \in Version PROVE Applies(from, to, SchemaAt[from])
<1>1. SUFFICES ASSUME NEW v \in (from + 1)..to, NEW t \in DOMAIN SchemaAt[v]
               PROVE  \/ v > 1 /\ t \in DOMAIN SchemaAt[v - 1] /\ SchemaAt[v][t] = SchemaAt[v - 1][t]
                      \/ t \notin DOMAIN SchemaAt[from]
                      \/ ~(SchemaAt[v][t].columns \subseteq SchemaAt[from][t].columns)
    BY DEF Applies
<1>2. v \in 1..LastVersion /\ v - 1 \in Version /\ from <= v - 1
    BY DEF Version, LastVersion
<1>3. Extends(SchemaAt[from], SchemaAt[v - 1])
    BY <1>2, Later
<1>4. t \in DOMAIN SchemaAt[from] =>
        t \in DOMAIN SchemaAt[v - 1] /\ SchemaAt[from][t].columns \subseteq SchemaAt[v - 1][t].columns
    BY <1>3 DEF Extends
<1>5. \/ v > 1 /\ t \in DOMAIN SchemaAt[v - 1] /\ SchemaAt[v][t] = SchemaAt[v - 1][t]
      \/ t \notin DOMAIN SchemaAt[v - 1]
      \/ ~(SchemaAt[v][t].columns \subseteq SchemaAt[v - 1][t].columns)
    BY <1>2, EachCreates
<1>6. QED
    BY <1>4, <1>5

(* upgrade() of the pending migrations succeeds exactly on the schema of the     *)
(* version that was read: never a second time, never by halves.                  *)
THEOREM UpgradesApplyOnce ==
  ASSUME NEW from \in Version, NEW to \in Version, NEW w \in Version, from < to, from <= w
  PROVE  Applies(from, to, SchemaAt[w]) <=> from = w
BY AppliesOnce, AppliesInOrder

(* All pending migrations of an `alembic upgrade`, run one after the other, build *)
(* the schema of the version they lead to.                                       *)
LEMMA MigratedIs ==
  ASSUME NEW from \in Version, NEW to \in Version, from <= to
  PROVE  Migrated(from, to, SchemaAt[from]) = SchemaAt[to]
<1> DEFINE Step(g) == [v \in from..to |-> IF v = from THEN SchemaAt[from] ELSE Upgraded(v, g[v - 1])]
           f == [v \in from..to |-> SchemaAt[v]]
           h == CHOOSE g : g = Step(g)
<1>1. f = Step(f)
  <2>1. ASSUME NEW v \in from..to, v # from PROVE SchemaAt[v] = Upgraded(v, f[v - 1])
    <3>1. v \in 1..LastVersion /\ v - 1 \in from..to
        BY <2>1 DEF Version, LastVersion
    <3>2. QED
        BY <3>1, SchemaSteps
  <2>2. QED
      BY <2>1
<1>2. Migrated(from, to, SchemaAt[from]) = h[to]
    BY DEF Migrated
<1> HIDE DEF Step, f
<1>3. h = Step(h)
    BY <1>1
<1> HIDE DEF h
<1>4. h[from] = SchemaAt[from]
    BY <1>3 DEF Step, Version, LastVersion
<1>5. ASSUME NEW v \in (from + 1)..to, h[v - 1] = SchemaAt[v - 1] PROVE h[v] = SchemaAt[v]
  <2>1. v \in from..to /\ v # from /\ v \in 1..LastVersion
      BY DEF Version, LastVersion
  <2>2. h[v] = Upgraded(v, h[v - 1])
      BY <1>3, <2>1 DEF Step
  <2>3. QED
      BY <1>5, <2>1, <2>2, SchemaSteps
<1> DEFINE Right(v) == v <= to => h[v] = SchemaAt[v]
<1>6. ASSUME NEW v \in from..(from + 5), Right(v) PROVE Right(v + 1)
  <2>1. SUFFICES ASSUME v + 1 <= to PROVE h[v + 1] = SchemaAt[v + 1]
      OBVIOUS
  <2>2. v + 1 \in (from + 1)..to /\ (v + 1) - 1 = v /\ v <= to
      BY <2>1 DEF Version, LastVersion
  <2>3. QED
      BY <1>5, <1>6, <2>2
<1>7. Right(from)
    BY <1>4
<1> HIDE DEF Right
<1>8. Right(from + 1)
    BY <1>6, <1>7 DEF Version, LastVersion
<1>9. Right(from + 2)
  <2>1. (from + 1) + 1 = from + 2 /\ from + 1 \in from..(from + 5)
      BY DEF Version, LastVersion
  <2>2. QED
      BY <1>6, <1>8, <2>1
<1>10. Right(from + 3)
  <2>1. (from + 2) + 1 = from + 3 /\ from + 2 \in from..(from + 5)
      BY DEF Version, LastVersion
  <2>2. QED
      BY <1>6, <1>9, <2>1
<1>11. Right(from + 4)
  <2>1. (from + 3) + 1 = from + 4 /\ from + 3 \in from..(from + 5)
      BY DEF Version, LastVersion
  <2>2. QED
      BY <1>6, <1>10, <2>1
<1>12. Right(from + 5)
  <2>1. (from + 4) + 1 = from + 5 /\ from + 4 \in from..(from + 5)
      BY DEF Version, LastVersion
  <2>2. QED
      BY <1>6, <1>11, <2>1
<1>13. Right(from + 6)
  <2>1. (from + 5) + 1 = from + 6 /\ from + 5 \in from..(from + 5)
      BY DEF Version, LastVersion
  <2>2. QED
      BY <1>6, <1>12, <2>1
<1>14. to \in {from, from + 1, from + 2, from + 3, from + 4, from + 5, from + 6}
    BY DEF Version, LastVersion
<1>15. Right(to)
    BY <1>7, <1>8, <1>9, <1>10, <1>11, <1>12, <1>13, <1>14
<1>16. h[to] = SchemaAt[to]
    BY <1>15 DEF Right, Version, LastVersion
<1>17. QED
    BY <1>2, <1>16

(* bootstrap grants the tables of its own version: at the head, where they are  *)
(* named one by one, none is missing.                                           *)
LEMMA GrantsItsTables == ASSUME NEW v \in Version PROVE GrantedBy(v) = DOMAIN SchemaAt[v]
<1>1. v < LastVersion \/ v = LastVersion
    BY DEF Version, LastVersion
<1>2. DOMAIN SchemaAt[6] =
        {"crawl_jobs", "crawl_frontier", "pages", "crawl_attempts", "links", "domain_stats",
         "api_quotas", "worker_heartbeats"}
    BY Migration6 DEF V1, V2, V3, V5
<1>3. QED
    BY <1>1, <1>2 DEF GrantedBy, LastVersion

(* The models of the code at the head are the schema of the last migration.     *)
LEMMA ModelsMatch ==
  ASSUME NEW t \in DOMAIN Models
  PROVE  /\ t \in V5
         /\ Models[t].columns = SchemaAt[6][t].columns
         /\ Models[t].required = SchemaAt[6][t].required
<1> DEFINE Queue == {"api_quotas", "worker_heartbeats", "crawl_jobs", "crawl_frontier"}
           Record == {"pages", "domain_stats", "crawl_attempts", "links"}
           Same(a, b) == a.columns = b.columns /\ a.required = b.required
<1>1. \A A, B : Table(A, B) = [columns |-> Table(A, B).columns, required |-> Table(A, B).required]
    BY DEF Table
<1>2. IsTables(QueueModels) /\ DOMAIN QueueModels = Queue
    BY <1>1 DEF IsTables, QueueModels
<1>3. IsTables(RecordModels) /\ DOMAIN RecordModels = Record
    BY <1>1 DEF IsTables, RecordModels
<1>4. Joined(QueueModels, RecordModels, Models)
    BY <1>2, <1>3, BothTables DEF Models
<1>5. /\ DOMAIN Models = Queue \cup Record
      /\ \A u \in Queue : Models[u] = QueueModels[u]
      /\ \A u \in Record : Models[u] = RecordModels[u]
    BY <1>2, <1>3, <1>4 DEF Joined
<1>6. Queue \cup Record = V5
    BY DEF V1, V2, V3, V5
<1>7. \A u \in V5 \ {"crawl_jobs", "crawl_frontier"} : SchemaAt[6][u] = SchemaAt[5][u]
    BY Migration6
<1>8. \A u \in V3 \ {"crawl_frontier"} : SchemaAt[5][u] = SchemaAt[3][u]
    BY Migration4, Migration5
<1>9. \A u \in V1 : u \in V2 /\ SchemaAt[3][u] = InitialSchema[u]
    BY Migration1, Migration2, Migration3 DEF V2
<1>10. \A u \in {"api_quotas", "worker_heartbeats"} : Same(QueueModels[u], SchemaAt[6][u])
  <2>1. \A u \in {"api_quotas", "worker_heartbeats"} : SchemaAt[6][u] = SecurityHealth[u]
    <3>1. \A u \in {"api_quotas", "worker_heartbeats"} : u \in V5 \ V3 /\ u \in V5 \ {"crawl_jobs"}
        BY DEF V1, V2, V3, V5
    <3>2. QED
        BY <3>1, Migration5, Migration6
  <2>2. \A u \in {"api_quotas", "worker_heartbeats"} : QueueModels[u] = SecurityHealth[u]
      BY DEF QueueModels, SecurityHealth
  <2>3. QED
      BY <2>1, <2>2
<1>11. Same(QueueModels["crawl_jobs"], SchemaAt[6]["crawl_jobs"])
  <2>2. SchemaAt[6]["crawl_jobs"] =
          [columns |-> InitialSchema["crawl_jobs"].columns \cup {"traceparent"},
           required |-> InitialSchema["crawl_jobs"].required]
      BY NotYetWidened, Migration6
  <2>3. InitialSchema["crawl_jobs"] =
          Table({"status", "requested_urls"},
                {"id", "created_at", "started_at", "completed_at", "processed_count", "success_count",
                 "failure_count"})
      BY DEF InitialSchema
  <2>4. QueueModels["crawl_jobs"] =
          Table({"status", "requested_urls"},
                TimestampMixin \cup {"id", "started_at", "completed_at", "traceparent", "processed_count",
                                     "success_count", "failure_count"})
      BY DEF QueueModels
  <2>5. QED
      BY <2>2, <2>3, <2>4 DEF Table, TimestampMixin
<1>12. Same(QueueModels["crawl_frontier"], SchemaAt[6]["crawl_frontier"])
  <2>1. SchemaAt[6]["crawl_frontier"] = SchemaAt[4]["crawl_frontier"]
    <3>1. "crawl_frontier" \in V3 /\ "crawl_frontier" \in V5 \ {"crawl_jobs"}
        BY DEF V1, V2, V3, V5
    <3>2. QED
        BY <3>1, Migration5, Migration6
  <2>3. SchemaAt[6]["crawl_frontier"] =
          [columns |-> CrawlFrontier["crawl_frontier"].columns \cup {"lease_token"},
           required |-> CrawlFrontier["crawl_frontier"].required]
      BY <2>1, NotYetWidened, Migration4
  <2>4. CrawlFrontier["crawl_frontier"] =
          Table({"job_id", "url", "normalized_url", "domain"},
                {"id", "priority", "state", "attempt_count", "max_attempts", "available_at", "lease_owner",
                 "lease_expires_at", "last_error_type", "last_error_message", "completed_at", "created_at",
                 "updated_at"})
      BY DEF CrawlFrontier
  <2>5. QueueModels["crawl_frontier"] =
          Table({"job_id", "url", "normalized_url", "domain"},
                TimestampMixin \cup {"id", "priority", "state", "attempt_count", "max_attempts", "available_at",
                                     "lease_owner", "lease_token", "lease_expires_at", "last_error_type",
                                     "last_error_message", "completed_at", "updated_at"})
      BY DEF QueueModels
  <2>6. QED
      BY <2>3, <2>4, <2>5 DEF Table, TimestampMixin
<1>13. \A u \in {"pages", "crawl_attempts", "links"} : Same(RecordModels[u], SchemaAt[6][u])
  <2>1. \A u \in {"pages", "crawl_attempts", "links"} : SchemaAt[6][u] = InitialSchema[u]
    <3>1. \A u \in {"pages", "crawl_attempts", "links"} :
            u \in V1 /\ u \in V3 \ {"crawl_frontier"} /\ u \in V5 \ {"crawl_jobs", "crawl_frontier"}
        BY DEF V1, V2, V3, V5
    <3>2. QED
        BY <1>7, <1>8, <1>9, <3>1
  <2>2. Same(RecordModels["pages"], InitialSchema["pages"])
      BY DEF RecordModels, InitialSchema, Table, TimestampMixin
  <2>3. Same(RecordModels["crawl_attempts"], InitialSchema["crawl_attempts"])
      BY DEF RecordModels, InitialSchema, Table, TimestampMixin
  <2>4. Same(RecordModels["links"], InitialSchema["links"])
      BY DEF RecordModels, InitialSchema, Table, TimestampMixin
  <2>5. QED
      BY <2>1, <2>2, <2>3, <2>4
<1>14. Same(RecordModels["domain_stats"], SchemaAt[6]["domain_stats"])
  <2>1. "domain_stats" \in V3 \ {"crawl_frontier"} /\ "domain_stats" \in V5 \ {"crawl_jobs", "crawl_frontier"}
      BY DEF V1, V2, V3, V5
  <2>2. SchemaAt[6]["domain_stats"] = DomainStatsRollup["domain_stats"]
      BY <1>7, <1>8, <2>1, Migration3
  <2>3. RecordModels["domain_stats"] = DomainStatsRollup["domain_stats"]
      BY DEF RecordModels, DomainStatsRollup
  <2>4. QED
      BY <2>2, <2>3
<1> HIDE DEF Same
<1>15. \A u \in Queue : Same(Models[u], SchemaAt[6][u])
    BY <1>5, <1>10, <1>11, <1>12
<1>16. \A u \in Record : Same(Models[u], SchemaAt[6][u])
    BY <1>5, <1>13, <1>14
<1>17. t \in Queue \cup Record
    BY <1>5
<1>18. Same(Models[t], SchemaAt[6][t])
    BY <1>15, <1>16, <1>17
<1>19. QED
    BY <1>6, <1>17, <1>18 DEF Same

(* Code runs on the schema of its own version and of every later one, if its    *)
(* tables were granted.                                                         *)
LEMMA RunsOnLater ==
  ASSUME NEW v \in Version, NEW w \in Version, v <= w, NEW grants, GrantedBy(v) \subseteq grants
  PROVE  Fits(v, SchemaAt[w], grants)
<1>1. CASE v = LastVersion
  <2>1. w = 6
      BY <1>1 DEF Version, LastVersion
  <2>2. V5 \subseteq grants /\ DOMAIN SchemaAt[6] = V5
      BY <1>1, GrantsItsTables, Migration6 DEF LastVersion
  <2>3. \A t \in DOMAIN Models : /\ t \in V5
                                 /\ Models[t].columns = SchemaAt[6][t].columns
                                 /\ Models[t].required = SchemaAt[6][t].required
      BY ModelsMatch
  <2>4. CodeAt(v) = Models
      BY <1>1 DEF CodeAt
  <2>5. QED
      BY <2>1, <2>2, <2>3, <2>4 DEF Fits
<1>2. CASE v # LastVersion
  <2>1. CodeAt(v) = SchemaAt[v]
      BY <1>2 DEF CodeAt
  <2>2. Extends(SchemaAt[v], SchemaAt[w]) /\ DOMAIN SchemaAt[v] \subseteq grants
      BY Later, GrantsItsTables
  <2>3. QED
      BY <2>1, <2>2 DEF Fits, Extends
<1>3. QED
    BY <1>1, <1>2

(* The probe looks at a column that only the last migration adds, and at a      *)
(* grant that only a bootstrap of version 5 or later gives.                     *)
LEMMA ReadyAtTheHead ==
  ASSUME NEW w \in Version, NEW v \in Version, v <= w, Ready(SchemaAt[w], DOMAIN SchemaAt[v])
  PROVE  w = LastVersion /\ DOMAIN SchemaAt[v] = GrantedBy(LastVersion)
<1>1. w \in 0..6 /\ v \in 0..6
    BY DEF Version, LastVersion
<1>2. "worker_heartbeats" \in DOMAIN SchemaAt[v]
    BY DEF Ready
<1>3. "worker_heartbeats" \notin DOMAIN SchemaAt[v] \/ v = 5 \/ v = 6
  <2>1. "worker_heartbeats" \notin V1 /\ "worker_heartbeats" \notin V2 /\ "worker_heartbeats" \notin V3
      BY DEF V1, V2, V3
  <2>2. \A u \in {0, 1, 2, 3, 4} : "worker_heartbeats" \notin DOMAIN SchemaAt[u]
      BY <2>1, Migration1, Migration2, Migration3, Migration4
  <2>3. QED
      BY <1>1, <2>2
<1>4. w # 5
  <2>1. "traceparent" \in SchemaAt[w]["crawl_jobs"].columns
      BY DEF Ready
  <2>2. "traceparent" \notin SchemaAt[5]["crawl_jobs"].columns
      BY NotYetWidened
  <2>3. QED
      BY <2>1, <2>2
<1>5. v \in {5, 6} /\ w = 6
    BY <1>1, <1>2, <1>3, <1>4
<1>6. DOMAIN SchemaAt[v] = V5 /\ GrantedBy(LastVersion) = V5
    BY <1>5, GrantsItsTables, Migration5, Migration6 DEF Version, LastVersion
<1>7. QED
    BY <1>5, <1>6 DEF LastVersion

-----------------------------------------------------------------------------
(* One release                                                                *)

LEMMA ServicesInOrder ==
  /\ Len(Services) \in Nat /\ DOMAIN Services = 1..Len(Services)
  /\ \A i \in 1..Len(Services) : Services[i] \in Service
  /\ \A s \in Service : \E i \in 1..Len(Services) : s = Services[i]
BY ServiceAssumption DEF Service

LEMMA UpdateIs ==
  ASSUME TypeOK, NEW s \in Service, NEW revision \in {"old", "new"}, Updated(s, revision)
  PROVE  /\ task' \in [Service -> {"old", "new"}]
         /\ rollout' \in [Service -> {"IN_PROGRESS", "COMPLETED", "FAILED"}]
         /\ task'[s] = revision /\ \A other \in Service : other # s => task'[other] = task[other]
         /\ migration' = migration
BY DEF TypeOK, Updated

LEMMA ReleaseStarts == ASSUME Init PROVE ReleaseInv
<1>1. task = [s \in Service |-> "old"] /\ rollout = [s \in Service |-> "COMPLETED"]
    BY DEF Init
<1>2. broken \in BOOLEAN
    BY ServiceAssumption, Zenon DEF Init
<1>3. next \in 1..(Len(Services) + 1)
    BY ServicesInOrder DEF Init
<1>4. TypeOK
    BY <1>1, <1>2, <1>3 DEF Init, TypeOK
<1>5. Restored
    BY <1>1 DEF Restored
<1>6. Told /\ Gated
    BY <1>5 DEF Init, Told, Gated, Over
<1>7. QED
    BY <1>4, <1>6 DEF ReleaseInv

(* What ECS does to a service while the controller looks elsewhere.            *)
LEMMA EcsKeeps == ASSUME ReleaseInv, Ecs PROVE ReleaseInv'
<1>1. TypeOK /\ Told /\ Gated
    BY DEF ReleaseInv
<1>2. CASE MigrationExits
    BY <1>1, <1>2 DEF MigrationExits, ReleaseInv, TypeOK, Told, Gated,
       Restored, Deployed, Outcome, Over, outcome
<1>3. ASSUME NEW s \in Service, RolloutCompletes(s) PROVE ReleaseInv'
  <2>1. /\ rollout' \in [Service -> {"IN_PROGRESS", "COMPLETED", "FAILED"}]
        /\ \A u \in Service : rollout[u] = "COMPLETED" => rollout'[u] = "COMPLETED"
        /\ UNCHANGED <<pc, next, migration, task, outcome>>
      BY <1>1, <1>3 DEF TypeOK, RolloutCompletes
  <2>2. TypeOK' /\ Gated'
      BY <1>1, <2>1 DEF TypeOK, Gated, Restored, outcome
  <2>3. Told'
      BY <1>1, <2>1 DEF Told, Restored, Deployed, Outcome, Over, outcome
  <2>4. QED
      BY <2>2, <2>3 DEF ReleaseInv
<1>4. ASSUME NEW s \in Service, RolloutFails(s) PROVE ReleaseInv'
  <2>1. /\ task' \in [Service -> {"old", "new"}]
        /\ rollout' \in [Service -> {"IN_PROGRESS", "COMPLETED", "FAILED"}]
        /\ UNCHANGED <<pc, next, migration, outcome>>
      BY <1>1, <1>4 DEF TypeOK, RolloutFails
  <2>2. \A u \in Service : task[u] = "old" => task'[u] = "old"
      BY <1>1, <1>4 DEF TypeOK, RolloutFails
  <2>3. Restored => Restored'
      BY <2>2 DEF Restored
  <2>4. \A revision : ~Deployed(revision)
      BY <1>4 DEF Deployed, RolloutFails
  <2>5. TypeOK'
      BY <1>1, <2>1 DEF TypeOK, outcome
  <2>6. Gated'
      BY <1>1, <2>1, <2>3 DEF Gated
  <2>7. Told'
    <3>1. pc # "smoke" /\ status # "passed" /\ rollback # "verified"
        BY <1>1, <2>4 DEF Told
    <3>2. UNCHANGED <<pc, next, changed, status, rollback, file, interrupted>> /\ Outcome' = Outcome
        BY <2>1 DEF outcome, Outcome
    <3>3. pc = "restore" => \A i \in 1..(next - 1) : task'[Services[i]] = "old"
      <4>1. SUFFICES ASSUME pc = "restore", NEW i \in 1..(next - 1) PROVE task'[Services[i]] = "old"
          OBVIOUS
      <4>2. i \in 1..Len(Services)
          BY <1>1, ServicesInOrder DEF TypeOK
      <4>3. task[Services[i]] = "old"
          BY <1>1, <4>1 DEF Told
      <4>4. QED
          BY <2>2, <4>2, <4>3, ServicesInOrder
    <3>4. QED
        BY <1>1, <2>3, <3>1, <3>2, <3>3 DEF Told
  <2>8. QED
      BY <2>5, <2>6, <2>7 DEF ReleaseInv
<1>5. QED
    BY <1>2, <1>3, <1>4 DEF Ecs

LEMMA ControllerKeeps == ASSUME ReleaseInv, Controller \/ Interrupt PROVE ReleaseInv'
<1>1. TypeOK /\ Told /\ Gated
    BY DEF ReleaseInv
<1> USE ServicesInOrder
<1>2. CASE Migrate
  <2>1. TypeOK' /\ Gated'
      BY <1>1, <1>2 DEF Migrate, TypeOK, Gated, Restored, Goto, outcome
  <2>2. Told'
      BY <1>1, <1>2 DEF Migrate, Told, Restored, Deployed, Outcome, Over, Goto, outcome
  <2>3. QED
      BY <2>1, <2>2 DEF ReleaseInv
<1>3. CASE GatePasses
  <2>1. TypeOK' /\ Gated'
      BY <1>1, <1>3 DEF GatePasses, TypeOK, Gated, Restored, Goto, ecs, outcome
  <2>2. Told'
      BY <1>1, <1>3 DEF GatePasses, Told, Restored, Deployed, Outcome, Over, Goto, ecs, outcome
  <2>3. QED
      BY <2>1, <2>2 DEF ReleaseInv
<1>4. CASE GateFails
  <2>1. TypeOK' /\ Gated'
      BY <1>1, <1>4 DEF GateFails, TypeOK, Gated, Restored, Goto, outcome
  <2>2. Told'
      BY <1>1, <1>4 DEF GateFails, Told, Restored, Deployed, Outcome, Over, Goto, outcome
  <2>3. QED
      BY <2>1, <2>2 DEF ReleaseInv
<1>5. CASE RegisterRaises
  <2>1. TypeOK' /\ Gated'
      BY <1>1, <1>5 DEF RegisterRaises, TypeOK, Gated, Restored, Goto, ecs, outcome
  <2>2. Told'
      BY <1>1, <1>5 DEF RegisterRaises, Told, Restored, Deployed, Outcome, Over, Goto, ecs, outcome
  <2>3. QED
      BY <2>1, <2>2 DEF ReleaseInv
<1>6. CASE UpdatedAll
  <2>1. TypeOK' /\ Gated'
      BY <1>1, <1>6 DEF UpdatedAll, TypeOK, Gated, Restored, Goto, ecs, outcome
  <2>2. Told'
      BY <1>1, <1>6 DEF UpdatedAll, Told, Restored, Deployed, Outcome, Over, Goto, ecs, outcome
  <2>3. QED
      BY <2>1, <2>2 DEF ReleaseInv
<1>7. CASE Wait
  <2>1. TypeOK' /\ Gated'
      BY <1>1, <1>7 DEF Wait, TypeOK, Gated, Restored, Goto, ecs, outcome
  <2>2. Told'
      BY <1>1, <1>7 DEF Wait, Told, Restored, Deployed, Outcome, Over, Goto, ecs, outcome
  <2>3. QED
      BY <2>1, <2>2 DEF ReleaseInv
<1>8. CASE Verify
  <2>1. TypeOK' /\ Gated'
      BY <1>1, <1>8 DEF Verify, TypeOK, Gated, Restored, Goto, ecs, outcome
  <2>2. Told'
      BY <1>1, <1>8 DEF Verify, Told, Restored, Deployed, Outcome, Over, Goto, ecs, outcome
  <2>3. QED
      BY <2>1, <2>2 DEF ReleaseInv
<1>9. CASE Smoke
  <2>1. TypeOK' /\ Gated'
      BY <1>1, <1>9 DEF Smoke, TypeOK, Gated, Restored, Goto, ecs
  <2>2. Told'
      BY <1>1, <1>9 DEF Smoke, Told, Restored, Deployed, Outcome, Over, Goto, ecs
  <2>3. QED
      BY <2>1, <2>2 DEF ReleaseInv
<1>10. CASE Except
  <2>1. TypeOK' /\ Gated'
      BY <1>1, <1>10 DEF Except, TypeOK, Gated, Restored, Goto, ecs
  <2>2. Told'
      BY <1>1, <1>10 DEF Except, Told, Restored, Deployed, Outcome, Over, Goto, ecs
  <2>3. QED
      BY <2>1, <2>2 DEF ReleaseInv
<1>11. CASE RestoredAll
  <2>1. TypeOK' /\ Gated'
      BY <1>1, <1>11 DEF RestoredAll, TypeOK, Gated, Restored, Goto, ecs, outcome
  <2>2. Told'
      BY <1>1, <1>11 DEF RestoredAll, TypeOK, Told, Restored, Deployed, Outcome, Over, Goto, ecs, outcome
  <2>3. QED
      BY <2>1, <2>2 DEF ReleaseInv
<1>12. CASE Rewait
  <2>1. TypeOK' /\ Gated'
      BY <1>1, <1>12 DEF Rewait, TypeOK, Gated, Restored, Goto, ecs
  <2>2. Told'
      BY <1>1, <1>12 DEF Rewait, Told, Restored, Deployed, Outcome, Over, Goto, ecs
  <2>3. QED
      BY <2>1, <2>2 DEF ReleaseInv
<1>13. CASE Reverify
  <2>1. TypeOK' /\ Gated'
      BY <1>1, <1>13 DEF Reverify, TypeOK, Gated, Restored, Goto, ecs
  <2>2. Told'
      BY <1>1, <1>13 DEF Reverify, Told, Restored, Deployed, Outcome, Over, Goto, ecs
  <2>3. QED
      BY <2>1, <2>2 DEF ReleaseInv
<1>14. CASE Finally
  <2>1. TypeOK' /\ Gated'
      BY <1>1, <1>14 DEF Finally, TypeOK, Gated, Restored, Goto, ecs
  <2>2. Told'
      BY <1>1, <1>14 DEF Finally, Told, Restored, Deployed, Outcome, Over, Goto, ecs
  <2>3. QED
      BY <2>1, <2>2 DEF ReleaseInv
<1>15. CASE Interrupt
  <2>1. TypeOK' /\ Gated'
      BY <1>1, <1>15 DEF Interrupt, TypeOK, Gated, Restored, Goto, ecs
  <2>2. Told'
      BY <1>1, <1>15 DEF Interrupt, Told, Restored, Deployed, Outcome, Over, Goto, ecs
  <2>3. QED
      BY <2>1, <2>2 DEF ReleaseInv
<1>16. CASE Update
  <2>1. next \in 1..Len(Services) /\ Services[next] \in Service /\ pc = "update"
      BY <1>1, <1>16 DEF Update, TypeOK
  <2>2. /\ task' \in [Service -> {"old", "new"}]
        /\ rollout' \in [Service -> {"IN_PROGRESS", "COMPLETED", "FAILED"}]
        /\ migration' = migration
      BY <1>1, <1>16, <2>1, UpdateIs DEF Update, TypeOK, ecs
  <2>3. /\ changed' = TRUE /\ UNCHANGED <<status, rollback, file, broken, interrupted>>
        /\ \/ pc' = "update" /\ next' = next + 1
           \/ pc' = "except" /\ next' = next
      BY <1>16 DEF Update, Goto
  <2>4. TypeOK' /\ Gated'
      BY <1>1, <2>1, <2>2, <2>3 DEF TypeOK, Gated
  <2>5. Told'
      BY <1>1, <2>1, <2>2, <2>3 DEF Told, Over, Outcome
  <2>6. QED
      BY <2>4, <2>5 DEF ReleaseInv
<1>17. CASE Restore
  <2>1. next \in 1..Len(Services) /\ Services[next] \in Service /\ pc = "restore"
      BY <1>1, <1>17 DEF Restore, TypeOK
  <2>2. /\ task' \in [Service -> {"old", "new"}]
        /\ rollout' \in [Service -> {"IN_PROGRESS", "COMPLETED", "FAILED"}]
        /\ migration' = migration
      BY <1>1, <1>17, <2>1, UpdateIs DEF Restore, TypeOK, ecs
  <2>3. \A s \in Service : task[s] = "old" => task'[s] = "old"
      BY <1>1, <1>17, <2>1, UpdateIs DEF Restore, ecs
  <2>4. /\ UNCHANGED <<changed, status, file, broken, interrupted>>
        /\ \/ /\ pc' = "restore" /\ next' = next + 1 /\ rollback' = rollback
              /\ task'[Services[next]] = "old"
           \/ pc' = "finally" /\ next' = next /\ rollback' = "failed"
      BY <1>1, <1>17, <2>1, UpdateIs DEF Restore, Goto
  <2>5. Restored => Restored'
      BY <2>3 DEF Restored
  <2>6. TypeOK' /\ Gated'
      BY <1>1, <2>1, <2>2, <2>4, <2>5 DEF TypeOK, Gated
  <2>7. pc' = "restore" => \A i \in 1..(next' - 1) : task'[Services[i]] = "old"
    <3>1. SUFFICES ASSUME pc' = "restore", NEW i \in 1..(next' - 1) PROVE task'[Services[i]] = "old"
        OBVIOUS
    <3>2. i = next \/ i \in 1..(next - 1)
        BY <2>1, <2>4, <3>1
    <3>3. i \in 1..Len(Services) /\ Services[i] \in Service
        BY <2>1, <3>2
    <3>4. i \in 1..(next - 1) => task[Services[i]] = "old"
        BY <1>1, <2>1 DEF Told
    <3>5. QED
        BY <2>3, <2>4, <3>1, <3>2, <3>3, <3>4
  <2>8. Told'
      BY <1>1, <2>1, <2>4, <2>5, <2>7 DEF Told, Over, Outcome
  <2>9. QED
      BY <2>6, <2>8 DEF ReleaseInv
<1>18. QED
    BY <1>2, <1>3, <1>4, <1>5, <1>6, <1>7, <1>8, <1>9, <1>10, <1>11, <1>12, <1>13, <1>14, <1>15,
       <1>16, <1>17
    DEF Controller

-----------------------------------------------------------------------------
(* Releases one after the other, the database and the code that runs            *)

(* What is deployed has been let through.                                      *)
LEMMA PrimaryIsServed ==
  ASSUME ReleaseInv, DeployTypeOK, Fleet, NEW s \in Service
  PROVE  Primary(s) \in Version /\ Served(Primary(s))
<1>1. task[s] \in {"old", "new"} /\ code[s] \in [old : Version, new : Version]
    BY DEF ReleaseInv, TypeOK, DeployTypeOK
<1>2. CASE task[s] = "old"
    BY <1>1, <1>2 DEF Primary, Fleet
<1>3. CASE task[s] = "new"
  <2>1. migration = "succeeded"
      BY <1>3 DEF ReleaseInv, Gated, Restored
  <2>2. Served(code[s].new)
      BY <2>1 DEF Fleet
  <2>3. QED
      BY <1>1, <1>3, <2>2 DEF Primary
<1>4. QED
    BY <1>1, <1>2, <1>3

LEMMA DeploymentStarts == ASSUME DeployInit PROVE ReleaseInv /\ DeployInv
<1>1. ReleaseInv
    BY ReleaseStarts DEF DeployInit
<1>2. PICK base \in First, target \in Targets :
        /\ code = [s \in Service |-> [old |-> base, new |-> target]]
        /\ running = [s \in Service |-> {base} \ {0}]
        /\ version = base /\ tables = SchemaAt[base] /\ granted = DOMAIN SchemaAt[base]
    BY DEF DeployInit
<1>3. base \in Version /\ target \in Version
    BY VersionAssumption DEF Version, LastVersion
<1>4. migrator = [r \in Releases |-> Absent] /\ release = 1 /\ migration = "none"
    BY DEF DeployInit, Init
<1>5. DeployTypeOK
  <2>1. release \in Releases
      BY <1>4, VersionAssumption DEF Releases
  <2>2. code \in [Service -> [old : Version, new : Version]] /\ running \in [Service -> SUBSET Version]
      BY <1>2, <1>3
  <2>3. Absent \in Migrator
      BY DEF Absent, Migrator, Version, LastVersion
  <2>4. QED
      BY <1>2, <1>3, <1>4, <2>1, <2>2, <2>3 DEF DeployTypeOK
<1>6. Placed
    BY <1>2, <1>3 DEF Placed, Version, LastVersion
<1>7. Migrations
    BY <1>4 DEF Migrations, Absent
<1>8. Served(base)
    BY <1>2, <1>3, GrantsItsTables DEF Served, Version, LastVersion
<1>9. Fleet
    BY <1>2, <1>4, <1>8, VersionAssumption DEF Fleet
<1>10. QED
    BY <1>1, <1>5, <1>6, <1>7, <1>9 DEF DeployInv

(* A migration task that starts is none that has run anything.                  *)
LEMMA MigratorStarts ==
  ASSUME DeployTypeOK, Migrations, migrator' = Started(release), UNCHANGED database
  PROVE  /\ migrator' \in [Releases -> Migrator]
         /\ migrator'[release].to = code["api"].new
         /\ Migrations'
<1> DEFINE begun == [pc |-> "connecting", from |-> 0, to |-> code["api"].new]
<1>1. code["api"].new \in Version /\ release \in Releases
    BY VersionAssumption DEF DeployTypeOK
<1>2. begun.pc = "connecting" /\ begun.to = code["api"].new
    OBVIOUS
<1>3. begun \in Migrator
    BY <1>1 DEF Migrator, Version, LastVersion
<1>4. migrator' = [migrator EXCEPT ![release] = begun]
    BY DEF Started
<1> HIDE DEF begun
<1>5. /\ migrator' \in [Releases -> Migrator] /\ migrator'[release] = begun
      /\ \A r \in Releases : r # release => migrator'[r] = migrator[r]
    BY <1>1, <1>3, <1>4 DEF DeployTypeOK
<1>6. version' = version /\ granted' = granted
    BY DEF database
<1>7. Migrations'
  <2>1. \A r \in Releases : migrator'[r].pc # "connecting" => r # release /\ migrator'[r] = migrator[r]
      BY <1>2, <1>5
  <2>2. \A r \in Releases : migrator'[r].pc = "done" =>
          migrator'[r].to <= version' /\ GrantedBy(migrator'[r].to) \subseteq granted'
      BY <1>6, <2>1 DEF Migrations, Served
  <2>3. QED
      BY <1>2, <1>5, <1>6, <2>1, <2>2 DEF Migrations, Served
<1>8. QED
    BY <1>2, <1>5, <1>7

LEMMA MigratorGoes ==
  ASSUME DeployTypeOK, NEW r \in Releases, MigratorTo(r, "failed") \/ MigratorTo(r, "bootstrapping")
                                           \/ MigratorTo(r, "committing") \/ MigratorTo(r, "done")
  PROVE  /\ migrator' \in [Releases -> Migrator]
         /\ migrator'[r].from = migrator[r].from /\ migrator'[r].to = migrator[r].to
         /\ \A label : MigratorTo(r, label) => migrator'[r].pc = label
         /\ \A other \in Releases : other # r => migrator'[other] = migrator[other]
BY DEF DeployTypeOK, MigratorTo, Migrator

(* A database that moves on serves what it served.                             *)
LEMMA StaysServed ==
  ASSUME NEW v, Served(v), version \in Version, version' \in Version, v \in Version,
         version <= version', granted \subseteq granted'
  PROVE  v <= version' /\ GrantedBy(v) \subseteq granted'
BY DEF Served, Version, LastVersion

LEMMA ControllerMoves ==
  ASSUME Controller
  PROVE  \/ migration' = migration
         \/ pc = "migrate" /\ migration' = "running"
         \/ migration = "running" /\ migration' = "stopped"
BY DEF Controller, Migrate, GatePasses, GateFails, RegisterRaises, Update, UpdatedAll, Wait, Verify, Smoke,
       Except, Restore, RestoredAll, Rewait, Reverify, Finally, Updated, ecs


(* A step of a migration task that leaves the services alone, and what is not   *)
(* started, alone.                                                              *)
LEMMA FleetStays ==
  ASSUME DeployTypeOK, Fleet, version' \in Version, version <= version', granted \subseteq granted',
         UNCHANGED <<vars, fleet, running>>, \A r \in Releases : migrator'[r].to = migrator[r].to
  PROVE  Fleet'
<1>1. code' = code /\ running' = running /\ release' = release /\ migration' = migration
    BY DEF vars, fleet
<1>2. \A v \in Version : Served(v) => v <= version' /\ GrantedBy(v) \subseteq granted'
    BY StaysServed DEF DeployTypeOK
<1>3. ASSUME NEW s \in Service
      PROVE  /\ code'[s].new = code'["api"].new
             /\ code'[s].old <= version' /\ GrantedBy(code'[s].old) \subseteq granted'
             /\ \A v \in running'[s] : v <= version' /\ GrantedBy(v) \subseteq granted'
  <2>1. code[s].old \in Version /\ running[s] \subseteq Version
      BY DEF DeployTypeOK
  <2>2. QED
      BY <1>1, <1>2, <2>1 DEF Fleet
<1>4. migration' = "running" => migrator'[release'].to = code'["api"].new
    BY <1>1 DEF Fleet, DeployTypeOK
<1>5. code["api"].new \in Version
    BY VersionAssumption DEF DeployTypeOK
<1>6. migration' = "succeeded" => code'["api"].new <= version' /\ GrantedBy(code'["api"].new) \subseteq granted'
    BY <1>1, <1>2, <1>5 DEF Fleet
<1>7. QED
    BY <1>3, <1>4, <1>6 DEF Fleet, Served

(* The controller updates services only behind the gate.                        *)
LEMMA ControllerStepKeeps ==
  ASSUME ReleaseInv, DeployInv, ControllerStep
  PROVE  ReleaseInv' /\ DeployInv'
<1>1. ReleaseInv'
    BY ControllerKeeps DEF ControllerStep
<1>2. DeployTypeOK /\ Placed /\ Migrations /\ Fleet
    BY DEF DeployInv
<1>3. UNCHANGED <<release, code, tables, version, granted>>
    BY DEF ControllerStep, fleet, database
<1>4. running' = [s \in Service |-> running[s] \cup ({code[s][task'[s]]} \ {0})]
    BY DEF ControllerStep
<1>5. migrator' \in [Releases -> Migrator] /\ Migrations'
  <2>1. CASE migration # "running" /\ migration' = "running"
      BY <1>2, <2>1, MigratorStarts DEF ControllerStep
  <2>2. CASE ~(migration # "running" /\ migration' = "running")
      BY <1>2, <1>3, <2>2 DEF ControllerStep, Migrations, DeployTypeOK, Served
  <2>3. QED
      BY <2>1, <2>2
<1>6. migration' = "running" => migrator'[release].to = code["api"].new
  <2>1. CASE migration = "running"
      BY <1>2, <2>1 DEF ControllerStep, Fleet
  <2>2. CASE migration # "running"
      BY <1>2, <2>2, MigratorStarts DEF ControllerStep
  <2>3. QED
      BY <2>1, <2>2
<1>7. migration' = "succeeded" => migration = "succeeded"
    BY ControllerMoves DEF ControllerStep
<1>8. ASSUME NEW s \in Service PROVE code[s][task'[s]] \in Version /\ Served(code[s][task'[s]])
  <2>1. task'[s] \in {"old", "new"} /\ code[s] \in [old : Version, new : Version]
      BY <1>1, <1>2 DEF ReleaseInv, TypeOK, DeployTypeOK
  <2>2. CASE task'[s] = "old"
      BY <1>2, <2>1, <2>2 DEF Fleet
  <2>3. CASE task'[s] = "new"
    <3>1. migration' = "succeeded"
        BY <1>1, <2>3 DEF ReleaseInv, Gated, Restored
    <3>2. Served(code[s].new)
        BY <1>2, <1>7, <3>1 DEF Fleet
    <3>3. QED
        BY <2>1, <2>3, <3>2
  <2>4. QED
      BY <2>1, <2>2, <2>3
<1>9. \A s \in Service : running'[s] \subseteq Version /\ \A v \in running'[s] : Served(v)
    BY <1>2, <1>4, <1>8 DEF DeployTypeOK, Fleet
<1>10. running' \in [Service -> SUBSET Version]
    BY <1>4, <1>9
<1>11. DeployTypeOK'
    BY <1>2, <1>3, <1>5, <1>10 DEF DeployTypeOK
<1>12. Placed'
    BY <1>2, <1>3 DEF Placed
<1>13. Fleet'
    BY <1>2, <1>3, <1>6, <1>7, <1>9 DEF Fleet, Served
<1>14. QED
    BY <1>1, <1>5, <1>11, <1>12, <1>13 DEF DeployInv

LEMMA MigrateLostKeeps == ASSUME ReleaseInv, DeployInv, MigrateLost PROVE ReleaseInv' /\ DeployInv'
<1>1. DeployTypeOK /\ Placed /\ Migrations /\ Fleet
    BY DEF DeployInv
<1>2. pc = "migrate" /\ pc' = "except" /\ UNCHANGED <<next, migration, task, rollout, outcome>>
    BY DEF MigrateLost, Goto, ecs
<1>3. ReleaseInv'
  <2>1. TypeOK' /\ Gated'
      BY <1>2 DEF ReleaseInv, TypeOK, Gated, Restored, outcome
  <2>2. Told'
      BY <1>2 DEF ReleaseInv, Told, Restored, Deployed, Outcome, Over, outcome
  <2>3. QED
      BY <2>1, <2>2 DEF ReleaseInv
<1>4. UNCHANGED <<release, code, running, tables, version, granted>> /\ migrator' = Started(release)
    BY DEF MigrateLost, fleet, database
<1>5. migrator' \in [Releases -> Migrator] /\ Migrations'
    BY <1>1, <1>4, MigratorStarts DEF database
<1>6. migration' = migration /\ migration = "none"
    BY <1>2 DEF ReleaseInv, Gated
<1>7. DeployTypeOK' /\ Placed' /\ Fleet'
    BY <1>1, <1>4, <1>5, <1>6 DEF DeployTypeOK, Placed, Fleet, Served
<1>8. QED
    BY <1>3, <1>5, <1>7 DEF DeployInv

LEMMA InterruptedKeeps == ASSUME ReleaseInv, DeployInv, Interrupted PROVE ReleaseInv' /\ DeployInv'
<1>1. ReleaseInv'
    BY ControllerKeeps DEF Interrupted
<1>2. UNCHANGED <<release, code, running, migrator, tables, version, granted, migration>>
    BY DEF Interrupted, Interrupt, fleet, database, ecs
<1>3. DeployInv'
    BY <1>2 DEF DeployInv, DeployTypeOK, Placed, Migrations, Fleet, Served
<1>4. QED
    BY <1>1, <1>3

(* The next release begins with what the previous one left deployed.            *)
LEMMA NextReleaseKeeps == ASSUME ReleaseInv, DeployInv, NextRelease PROVE ReleaseInv' /\ DeployInv'
<1>1. DeployTypeOK /\ Placed /\ Migrations /\ Fleet
    BY DEF DeployInv
<1>2. PICK target \in Targets : code' = [s \in Service |-> [old |-> Primary(s), new |-> target]]
    BY DEF NextRelease
<1>3. /\ pc' = "migrate" /\ next' = 1 /\ migration' = "none" /\ task' = [s \in Service |-> "old"]
      /\ changed' = FALSE /\ status' = "in_progress" /\ rollback' = "none"
      /\ file' = [status |-> "in_progress", rollback |-> "none", finished |-> FALSE]
      /\ interrupted' = FALSE /\ rollout' = rollout
    BY DEF NextRelease
<1>4. ReleaseInv'
  <2>1. broken' \in BOOLEAN
      BY ServiceAssumption, Zenon DEF NextRelease
  <2>2. next' \in 1..(Len(Services) + 1)
      BY <1>3, ServicesInOrder
  <2>3. TypeOK'
      BY <1>3, <2>1, <2>2 DEF ReleaseInv, TypeOK
  <2>4. Restored'
      BY <1>3 DEF Restored
  <2>5. Told' /\ Gated'
      BY <1>3, <2>4 DEF Told, Gated, Over
  <2>6. QED
      BY <2>3, <2>5 DEF ReleaseInv
<1>5. release' \in Releases /\ UNCHANGED <<running, migrator, tables, version, granted>>
    BY <1>1, VersionAssumption DEF NextRelease, DeployTypeOK, Releases, database
<1>6. \A s \in Service : Primary(s) \in Version /\ Served(Primary(s))
    BY <1>1, PrimaryIsServed
<1>7. target \in Version
    BY VersionAssumption DEF Version, LastVersion
<1>8. DeployTypeOK'
    BY <1>1, <1>2, <1>5, <1>6, <1>7 DEF DeployTypeOK
<1>9. Placed' /\ Migrations'
    BY <1>1, <1>5 DEF Placed, Migrations, Served
<1>10. Fleet'
  <2>1. \A s \in Service : code'[s].new = target /\ code'[s].old = Primary(s)
      BY <1>2
  <2>2. \A v : Served(v) => v <= version' /\ GrantedBy(v) \subseteq granted'
      BY <1>5 DEF Served
  <2>3. \A s \in Service : code'[s].old <= version' /\ GrantedBy(code'[s].old) \subseteq granted'
      BY <1>6, <2>1, <2>2
  <2>4. \A s \in Service : \A v \in running'[s] : v <= version' /\ GrantedBy(v) \subseteq granted'
      BY <1>1, <1>5, <2>2 DEF Fleet
  <2>5. QED
      BY <1>3, <2>1, <2>3, <2>4, VersionAssumption DEF Fleet, Served
<1>11. QED
    BY <1>4, <1>8, <1>9, <1>10 DEF DeployInv

(* The gate of a release opens when its own migration task is done.             *)
LEMMA MigratorExitsKeeps == ASSUME ReleaseInv, DeployInv, MigratorExits PROVE ReleaseInv' /\ DeployInv'
<1>1. ReleaseInv'
    BY EcsKeeps DEF MigratorExits, Ecs
<1>2. DeployTypeOK /\ Placed /\ Migrations /\ Fleet
    BY DEF DeployInv
<1>3. UNCHANGED <<release, code, running, migrator, tables, version, granted>>
    BY DEF MigratorExits, fleet, database
<1>4. migration = "running" /\ migration' \in {"succeeded", "failed"}
    BY DEF MigratorExits, MigrationExits
<1>5. migration' = "succeeded" => Served(code["api"].new)
  <2>1. migration' = "succeeded" => migrator[release].pc = "done"
      BY DEF MigratorExits
  <2>2. migrator[release].to = code["api"].new /\ release \in Releases
      BY <1>2, <1>4 DEF Fleet, DeployTypeOK
  <2>3. QED
      BY <1>2, <2>1, <2>2 DEF Migrations
<1>6. DeployTypeOK' /\ Placed' /\ Migrations'
    BY <1>2, <1>3 DEF DeployTypeOK, Placed, Migrations, Served
<1>7. Fleet'
    BY <1>2, <1>3, <1>4, <1>5 DEF Fleet, Served
<1>8. QED
    BY <1>1, <1>6, <1>7 DEF DeployInv

LEMMA RolloutKeeps ==
  ASSUME ReleaseInv, DeployInv, NEW s \in Service, RolloutDone(s) \/ RolloutUndone(s)
  PROVE  ReleaseInv' /\ DeployInv'
<1>1. ReleaseInv'
    BY EcsKeeps DEF RolloutDone, RolloutUndone, Ecs
<1>2. DeployTypeOK /\ Placed /\ Migrations /\ Fleet
    BY DEF DeployInv
<1>3. UNCHANGED <<release, code, migrator, tables, version, granted, migration>>
    BY DEF RolloutDone, RolloutUndone, RolloutCompletes, RolloutFails, fleet, database
<1>4. Primary(s) \in Version /\ Served(Primary(s))
    BY <1>2, PrimaryIsServed
<1>5. running' = [running EXCEPT ![s] = {Primary(s)} \ {0}] \/ running' = running
    BY DEF RolloutDone, RolloutUndone
<1>6. running' \in [Service -> SUBSET Version] /\ \A u \in Service : \A v \in running'[u] : Served(v)
    BY <1>2, <1>4, <1>5 DEF DeployTypeOK, Fleet
<1>7. DeployTypeOK' /\ Placed' /\ Migrations'
    BY <1>2, <1>3, <1>6 DEF DeployTypeOK, Placed, Migrations, Served
<1>8. Fleet'
    BY <1>2, <1>3, <1>6 DEF Fleet, Served
<1>9. QED
    BY <1>1, <1>7, <1>8 DEF DeployInv


(* A task that reads the version has not run anything.                          *)
LEMMA ReadVersionKeeps ==
  ASSUME DeployInv, NEW r \in Releases, ReadVersion(r) PROVE DeployInv'
<1>1. DeployTypeOK /\ Placed /\ Migrations /\ Fleet
    BY DEF DeployInv
<1>2. UNCHANGED <<vars, fleet, running>> /\ UNCHANGED <<release, code, running, tables, version, granted>>
    BY DEF ReadVersion, fleet, database
<1> DEFINE label == CASE version < migrator[r].to -> "upgrading"
                      [] version = migrator[r].to -> "bootstrapping"
                      [] version > migrator[r].to -> "failed"
           read == [pc |-> label, from |-> version, to |-> migrator[r].to]
<1>3. migrator' = [migrator EXCEPT ![r] = read]
    BY DEF ReadVersion
<1>4. migrator[r] \in Migrator /\ version \in Version /\ migrator[r].to \in Version
    BY <1>1 DEF DeployTypeOK, Migrator
<1>5. \/ label = "upgrading" /\ version < migrator[r].to
      \/ label = "bootstrapping" /\ version = migrator[r].to
      \/ label = "failed"
    BY <1>4 DEF Version, LastVersion
<1> HIDE DEF label
<1>6. read.pc = label /\ read.from = version /\ read.to = migrator[r].to /\ read \in Migrator
    BY <1>4, <1>5 DEF Migrator
<1> HIDE DEF read
<1>7. /\ migrator' \in [Releases -> Migrator] /\ migrator'[r] = read
      /\ \A other \in Releases : other # r => migrator'[other] = migrator[other]
    BY <1>1, <1>3, <1>6 DEF DeployTypeOK
<1>8. DeployTypeOK' /\ Placed'
    BY <1>1, <1>2, <1>7 DEF DeployTypeOK, Placed
<1>9. Migrations'
  <2>1. migrator'[r].pc = "upgrading" => migrator'[r].from < migrator'[r].to /\ migrator'[r].from <= version'
      BY <1>2, <1>4, <1>5, <1>6, <1>7 DEF Version, LastVersion
  <2>2. migrator'[r].pc = "bootstrapping" => migrator'[r].to <= version'
      BY <1>2, <1>4, <1>5, <1>6, <1>7 DEF Version, LastVersion
  <2>3. migrator'[r].pc \notin {"committing", "done"}
      BY <1>5, <1>6, <1>7
  <2>4. QED
      BY <1>1, <1>2, <1>7, <2>1, <2>2, <2>3 DEF Migrations, Served
<1>10. Fleet'
  <2>1. \A other \in Releases : migrator'[other].to = migrator[other].to
      BY <1>6, <1>7
  <2>2. version' = version /\ granted' = granted /\ version <= version'
      BY <1>2, <1>4 DEF Version, LastVersion
  <2>3. QED
      BY <1>1, <1>2, <1>4, <2>1, <2>2, FleetStays
<1>11. QED
    BY <1>8, <1>9, <1>10 DEF DeployInv

(* Of the tasks that read the same version only the first finds nothing in its  *)
(* way; while it is at work the others wait.                                    *)
LEMMA RunUpgradeKeeps ==
  ASSUME DeployInv, NEW r \in Releases, RunUpgrade(r) PROVE DeployInv'
<1>1. DeployTypeOK /\ Placed /\ Migrations /\ Fleet
    BY DEF DeployInv
<1>2. UNCHANGED <<vars, fleet, running>> /\ UNCHANGED <<release, code, running, tables, version, granted>>
    BY DEF RunUpgrade, fleet, database
<1>3. migrator[r].from \in Version /\ migrator[r].to \in Version /\ version \in Version
    BY <1>1 DEF DeployTypeOK, Migrator
<1>4. migrator[r].from < migrator[r].to /\ migrator[r].from <= version
    BY <1>1 DEF RunUpgrade, Migrations
<1>5. \/ MigratorTo(r, "committing") /\ Applies(migrator[r].from, migrator[r].to, tables)
      \/ MigratorTo(r, "failed")
    BY DEF RunUpgrade
<1>6. /\ migrator' \in [Releases -> Migrator]
      /\ migrator'[r].from = migrator[r].from /\ migrator'[r].to = migrator[r].to
      /\ \A label : MigratorTo(r, label) => migrator'[r].pc = label
      /\ \A other \in Releases : other # r => migrator'[other] = migrator[other]
    BY <1>1, <1>5, MigratorGoes
<1>7. migrator'[r].pc = "committing" => migrator[r].from = version
  <2>1. ASSUME Applies(migrator[r].from, migrator[r].to, tables) PROVE migrator[r].from = version
      BY <1>1, <1>3, <1>4, <2>1, AppliesOnce DEF Placed
  <2>2. QED
      BY <1>5, <1>6, <2>1
<1>8. DeployTypeOK' /\ Placed'
    BY <1>1, <1>2, <1>6 DEF DeployTypeOK, Placed
<1>9. Migrations'
  <2>1. \A other \in Releases : migrator[other].pc # "committing"
      BY DEF RunUpgrade
  <2>2. migrator'[r].pc \in {"committing", "failed"}
      BY <1>5, <1>6
  <2>3. \A other \in Releases : other # r => migrator'[other] = migrator[other] /\ migrator'[other].pc # "committing"
      BY <1>6, <2>1
  <2>4. QED
      BY <1>1, <1>2, <1>4, <1>6, <1>7, <2>2, <2>3 DEF Migrations, Served
<1>10. Fleet'
  <2>1. \A other \in Releases : migrator'[other].to = migrator[other].to
      BY <1>6
  <2>2. version' = version /\ granted' = granted /\ version <= version'
      BY <1>2, <1>3 DEF Version, LastVersion
  <2>3. QED
      BY <1>1, <1>2, <1>3, <2>1, <2>2, FleetStays
<1>11. QED
    BY <1>8, <1>9, <1>10 DEF DeployInv

LEMMA CommitUpgradeKeeps ==
  ASSUME DeployInv, NEW r \in Releases, CommitUpgrade(r) PROVE DeployInv'
<1>1. DeployTypeOK /\ Placed /\ Migrations /\ Fleet
    BY DEF DeployInv
<1>2. /\ UNCHANGED <<vars, fleet, running>> /\ UNCHANGED <<release, code, running, granted>>
      /\ version' = migrator[r].to /\ tables' = Migrated(migrator[r].from, migrator[r].to, tables)
    BY DEF CommitUpgrade, fleet
<1>3. migrator[r].from \in Version /\ migrator[r].to \in Version /\ version \in Version
    BY <1>1 DEF DeployTypeOK, Migrator
<1>4. migrator[r].from = version /\ version < migrator[r].to
    BY <1>1 DEF CommitUpgrade, Migrations
<1>5. /\ migrator' \in [Releases -> Migrator] /\ migrator'[r].pc = "bootstrapping"
      /\ migrator'[r].to = migrator[r].to
      /\ \A other \in Releases : other # r => migrator'[other] = migrator[other]
    BY <1>1, MigratorGoes DEF CommitUpgrade
<1>6. version' \in Version /\ version <= version'
    BY <1>2, <1>3, <1>4 DEF Version, LastVersion
<1>7. DeployTypeOK'
    BY <1>1, <1>2, <1>5, <1>6 DEF DeployTypeOK
<1>8. Placed'
  <2>1. tables' = SchemaAt[version']
      BY <1>1, <1>2, <1>3, <1>4, <1>6, MigratedIs DEF Placed
  <2>2. \E v \in 0..version' : granted' = DOMAIN SchemaAt[v]
    <3>1. PICK v \in 0..version : granted = DOMAIN SchemaAt[v]
        BY <1>1 DEF Placed
    <3>2. v \in 0..version'
        BY <1>3, <1>6 DEF Version, LastVersion
    <3>3. QED
        BY <1>2, <3>1, <3>2
  <2>3. QED
      BY <2>1, <2>2 DEF Placed
<1>9. Migrations'
  <2>1. \A other \in Releases : other # r => migrator[other].pc # "committing"
      BY <1>1 DEF CommitUpgrade, Migrations
  <2>2. \A v \in Version : v <= version => v <= version'
      BY <1>3, <1>6 DEF Version, LastVersion
  <2>3. \A other \in Releases : migrator[other].from \in Version /\ migrator[other].to \in Version
      BY <1>1 DEF DeployTypeOK, Migrator
  <2>4. version' <= version'
      BY <1>6 DEF Version, LastVersion
  <2>5. QED
      BY <1>1, <1>2, <1>5, <2>1, <2>2, <2>3, <2>4 DEF Migrations, Served
<1>10. Fleet'
  <2>1. \A other \in Releases : migrator'[other].to = migrator[other].to
      BY <1>5
  <2>2. QED
      BY <1>1, <1>2, <1>6, <2>1, FleetStays
<1>11. QED
    BY <1>7, <1>8, <1>9, <1>10 DEF DeployInv

(* What is granted stays the tables of one version: the later of the two.       *)
LEMMA BootstrapKeeps ==
  ASSUME DeployInv, NEW r \in Releases, Bootstrap(r) PROVE DeployInv'
<1>1. DeployTypeOK /\ Placed /\ Migrations /\ Fleet
    BY DEF DeployInv
<1>2. /\ UNCHANGED <<vars, fleet, running>> /\ UNCHANGED <<release, code, running, tables, version>>
      /\ granted' = granted \cup GrantedBy(migrator[r].to)
    BY DEF Bootstrap, fleet
<1>3. migrator[r].to \in Version /\ version \in Version /\ migrator[r].to <= version
    BY <1>1 DEF Bootstrap, Migrations, DeployTypeOK, Migrator
<1>4. /\ migrator' \in [Releases -> Migrator] /\ migrator'[r].pc = "done"
      /\ migrator'[r].to = migrator[r].to
      /\ \A other \in Releases : other # r => migrator'[other] = migrator[other]
    BY <1>1, MigratorGoes DEF Bootstrap
<1>5. version' = version /\ granted \subseteq granted' /\ GrantedBy(migrator[r].to) \subseteq granted'
    BY <1>2
<1>6. DeployTypeOK'
    BY <1>1, <1>2, <1>4 DEF DeployTypeOK
<1>7. Placed'
  <2>1. PICK v \in 0..version : granted = DOMAIN SchemaAt[v]
      BY <1>1 DEF Placed
  <2>2. v \in Version /\ (v <= migrator[r].to \/ migrator[r].to <= v)
      BY <1>3 DEF Version, LastVersion
  <2>3. granted' = DOMAIN SchemaAt[v] \cup DOMAIN SchemaAt[migrator[r].to]
      BY <1>2, <1>3, <2>1, GrantsItsTables
  <2>4. CASE v <= migrator[r].to
    <3>1. DOMAIN SchemaAt[v] \subseteq DOMAIN SchemaAt[migrator[r].to]
        BY <1>3, <2>2, <2>4, Later DEF Extends
    <3>2. granted' = DOMAIN SchemaAt[migrator[r].to] /\ migrator[r].to \in 0..version'
        BY <1>3, <1>5, <2>3, <3>1 DEF Version, LastVersion
    <3>3. QED
        BY <1>1, <1>2, <3>2 DEF Placed
  <2>5. CASE migrator[r].to <= v
    <3>1. DOMAIN SchemaAt[migrator[r].to] \subseteq DOMAIN SchemaAt[v]
        BY <1>3, <2>2, <2>5, Later DEF Extends
    <3>2. granted' = DOMAIN SchemaAt[v]
        BY <2>3, <3>1
    <3>3. QED
        BY <1>1, <1>2, <2>1, <3>2 DEF Placed
  <2>6. QED
      BY <2>2, <2>4, <2>5
<1>8. Migrations'
    BY <1>1, <1>3, <1>4, <1>5 DEF Migrations, Served
<1>9. Fleet'
  <2>1. \A other \in Releases : migrator'[other].to = migrator[other].to
      BY <1>4
  <2>2. version' \in Version /\ version <= version'
      BY <1>3, <1>5 DEF Version, LastVersion
  <2>3. QED
      BY <1>1, <1>2, <1>5, <2>1, <2>2, FleetStays
<1>10. QED
    BY <1>6, <1>7, <1>8, <1>9 DEF DeployInv

LEMMA MigratorDiesKeeps ==
  ASSUME DeployInv, NEW r \in Releases, MigratorDies(r) PROVE DeployInv'
<1>1. DeployTypeOK /\ Placed /\ Migrations /\ Fleet
    BY DEF DeployInv
<1>2. UNCHANGED <<vars, fleet, running>> /\ UNCHANGED <<release, code, running, tables, version, granted>>
    BY DEF MigratorDies, fleet, database
<1>3. /\ migrator' \in [Releases -> Migrator] /\ migrator'[r].pc = "failed"
      /\ migrator'[r].to = migrator[r].to
      /\ \A other \in Releases : other # r => migrator'[other] = migrator[other]
    BY <1>1, MigratorGoes DEF MigratorDies
<1>4. DeployTypeOK' /\ Placed' /\ Migrations'
    BY <1>1, <1>2, <1>3 DEF DeployTypeOK, Placed, Migrations, Served
<1>5. Fleet'
  <2>1. \A other \in Releases : migrator'[other].to = migrator[other].to
      BY <1>3
  <2>2. version' \in Version /\ version <= version' /\ granted' = granted
      BY <1>1, <1>2 DEF DeployTypeOK, Version, LastVersion
  <2>3. QED
      BY <1>1, <1>2, <2>1, <2>2, FleetStays
<1>6. QED
    BY <1>4, <1>5 DEF DeployInv

-----------------------------------------------------------------------------
(* The theorems                                                               *)

LEMMA ReleaseSame == ASSUME ReleaseInv, UNCHANGED vars PROVE ReleaseInv'
<1>1. TypeOK' /\ Gated'
    BY DEF ReleaseInv, TypeOK, Gated, Restored, vars
<1>2. Told'
    BY DEF ReleaseInv, Told, Restored, Deployed, Outcome, Over, vars
<1>3. QED
    BY <1>1, <1>2 DEF ReleaseInv

(* One release alone, whatever the database does.                              *)
THEOREM ReleaseSafe == Spec => []ReleaseInv
<1>1. Init => ReleaseInv
    BY ReleaseStarts
<1>2. ReleaseInv /\ [Next]_vars => ReleaseInv'
    BY ControllerKeeps, EcsKeeps, ReleaseSame DEF Next
<1>3. QED
    BY <1>1, <1>2, PTL DEF Spec

(* All of them: the inductive invariant of the deployment.                      *)
THEOREM DeploymentSafe == DeploySpec => [](ReleaseInv /\ DeployInv)
<1>1. DeployInit => ReleaseInv /\ DeployInv
    BY DeploymentStarts
<1>2. ASSUME ReleaseInv, DeployInv, [DeployNext]_deployVars PROVE ReleaseInv' /\ DeployInv'
  <2>1. ASSUME NEW r \in Releases, ReadVersion(r) \/ RunUpgrade(r) \/ CommitUpgrade(r) \/ Bootstrap(r) \/ MigratorDies(r)
        PROVE  ReleaseInv' /\ DeployInv'
    <3>1. UNCHANGED vars
        BY <2>1 DEF ReadVersion, RunUpgrade, CommitUpgrade, Bootstrap, MigratorDies
    <3>2. DeployInv'
        BY <1>2, <2>1, ReadVersionKeeps, RunUpgradeKeeps, CommitUpgradeKeeps, BootstrapKeeps, MigratorDiesKeeps
    <3>3. QED
        BY <1>2, <3>1, <3>2, ReleaseSame
  <2>2. CASE UNCHANGED deployVars
    <3>1. UNCHANGED vars /\ UNCHANGED <<migration, release, code, running, migrator, tables, version, granted>>
        BY <2>2 DEF deployVars, vars, fleet, database
    <3>2. DeployInv'
        BY <1>2, <3>1 DEF DeployInv, DeployTypeOK, Placed, Migrations, Fleet, Served
    <3>3. QED
        BY <1>2, <3>1, <3>2, ReleaseSame
  <2>3. CASE DeployNext
      BY <1>2, <2>1, <2>3, ControllerStepKeeps, MigrateLostKeeps, InterruptedKeeps, NextReleaseKeeps,
         MigratorExitsKeeps, RolloutKeeps DEF DeployNext
  <2>4. QED
      BY <1>2, <2>2, <2>3
<1>3. QED
    BY <1>1, <1>2, PTL DEF DeploySpec

(* Every variable of the controller and of ECS keeps its type, also over many   *)
(* releases.                                                                    *)
THEOREM TypeCorrect == DeploySpec => []TypeOK
<1>1. ReleaseInv => TypeOK
    BY DEF ReleaseInv
<1>2. QED
    BY <1>1, DeploymentSafe, PTL

LEMMA ToldIsTrue == ASSUME Told PROVE PassedIsDeployed /\ VerifiedIsRestored /\ OutcomeTellsAll
<1>1. file.finished => file.status = status /\ file.rollback = rollback
    BY DEF Told, Outcome
<1>2. PassedIsDeployed
    BY <1>1 DEF Told, PassedIsDeployed
<1>3. VerifiedIsRestored
    BY <1>1 DEF Told, VerifiedIsRestored
<1>4. OutcomeTellsAll
    BY <1>1 DEF Told, OutcomeTellsAll, Over, Restored
<1>5. QED
    BY <1>2, <1>3, <1>4

(* "passed" in the outcome file of deploy() means that every service runs the   *)
(* new revision, "verified" that every service is back.                         *)
THEOREM OutcomesAreTrue == DeploySpec => []OutcomeIsTrue
<1>1. ReleaseInv => OutcomeIsTrue
    BY ToldIsTrue DEF ReleaseInv, OutcomeIsTrue
<1>2. QED
    BY <1>1, DeploymentSafe, PTL

(* deploy() leaves no service on a revision without saying so, unless it is      *)
(* interrupted.                                                                  *)
THEOREM OutcomesAreComplete == DeploySpec => []OutcomeTellsAll
<1>1. ReleaseInv => OutcomeTellsAll
    BY ToldIsTrue DEF ReleaseInv
<1>2. QED
    BY <1>1, DeploymentSafe, PTL

(* The same of the controller by itself, against any migration task.             *)
THEOREM OneReleaseIsTold == Spec => [](PassedIsDeployed /\ VerifiedIsRestored /\ OutcomeTellsAll)
<1>1. ReleaseInv => PassedIsDeployed /\ VerifiedIsRestored /\ OutcomeTellsAll
    BY ToldIsTrue DEF ReleaseInv
<1>2. QED
    BY <1>1, ReleaseSafe, PTL

(* Code that an update_service started, or that a restore brought back, finds    *)
(* the schema and the grants it uses.                                            *)
THEOREM RunningCodeRuns == DeploySpec => []RunningCodeFits
<1>1. ASSUME DeployInv PROVE RunningCodeFits
  <2>1. DeployTypeOK /\ Placed /\ Fleet
      BY <1>1 DEF DeployInv
  <2>2. ASSUME NEW s \in Service, NEW revision \in running[s] PROVE Fits(revision, tables, granted)
    <3>1. revision \in Version /\ version \in Version /\ Served(revision)
        BY <2>1 DEF DeployTypeOK, Fleet
    <3>2. tables = SchemaAt[version]
        BY <2>1 DEF Placed
    <3>3. QED
        BY <3>1, <3>2, RunsOnLater DEF Served
  <2>3. QED
      BY <2>2 DEF RunningCodeFits
<1>2. QED
    BY <1>1, DeploymentSafe, PTL

(* A 200 of GET /ready tells that the database has all the code at the head uses. *)
THEOREM ReadinessTells == DeploySpec => []ReadyTellsSchema
<1>1. ASSUME DeployInv PROVE ReadyTellsSchema
  <2>1. SUFFICES ASSUME Ready(tables, granted) PROVE Fits(LastVersion, tables, granted)
      BY DEF ReadyTellsSchema
  <2>2. tables = SchemaAt[version] /\ version \in Version
      BY <1>1 DEF DeployInv, Placed, DeployTypeOK
  <2>3. PICK v \in 0..version : granted = DOMAIN SchemaAt[v]
      BY <1>1 DEF DeployInv, Placed
  <2>4. v \in Version /\ v <= version
      BY <2>2 DEF Version, LastVersion
  <2>5. version = LastVersion /\ granted = GrantedBy(LastVersion)
      BY <2>1, <2>2, <2>3, <2>4, ReadyAtTheHead
  <2>6. LastVersion \in Version /\ LastVersion <= version
      BY <2>5 DEF Version, LastVersion
  <2>7. QED
      BY <2>2, <2>5, <2>6, RunsOnLater
<1>2. QED
    BY <1>1, DeploymentSafe, PTL


(* Whatever migrates, fails, is exchanged or restored: no step of a release       *)
(* takes a table, a column or a grant away, or demands a new column of an INSERT *)
(* (the migrations of env.py and bootstrap only add). So a revision that ran      *)
(* before can be restored at any time.                                            *)
NothingIsTakenAway ==
  [][version <= version' /\ Extends(tables, tables') /\ granted \subseteq granted']_<<tables, version, granted>>

(* With `downgrade` called by nothing, the database only grows, over any number of *)
(* releases.                                                                      *)
THEOREM DatabaseOnlyGrows == DeploySpec => NothingIsTakenAway
<1> DEFINE Grows == version <= version' /\ Extends(tables, tables') /\ granted \subseteq granted'
<1>1. ASSUME DeployInv, [DeployNext]_deployVars PROVE [Grows]_<<tables, version, granted>>
  <2>1. SUFFICES ASSUME ~UNCHANGED <<tables, version, granted>> PROVE Grows
      OBVIOUS
  <2>2. PICK r \in Releases : CommitUpgrade(r) \/ Bootstrap(r)
      BY <1>1, <2>1 DEF DeployNext, deployVars, database, ControllerStep, MigrateLost, Interrupted, NextRelease,
         MigratorExits, RolloutDone, RolloutUndone, ReadVersion, RunUpgrade, MigratorDies
  <2>3. DeployTypeOK /\ Placed /\ Migrations
      BY <1>1 DEF DeployInv
  <2>4. migrator[r].from \in Version /\ migrator[r].to \in Version /\ version \in Version
      BY <2>3 DEF DeployTypeOK, Migrator
  <2>5. CASE CommitUpgrade(r)
    <3>1. migrator[r].from = version /\ version < migrator[r].to
        BY <2>3, <2>5 DEF CommitUpgrade, Migrations
    <3>2. /\ version' = migrator[r].to /\ granted' = granted
          /\ tables' = Migrated(version, migrator[r].to, SchemaAt[version]) /\ tables = SchemaAt[version]
        BY <2>3, <2>5, <3>1 DEF CommitUpgrade, Placed
    <3>3. version <= migrator[r].to
        BY <2>4, <3>1 DEF Version, LastVersion
    <3>4. tables' = SchemaAt[migrator[r].to]
        BY <2>4, <3>2, <3>3, MigratedIs
    <3>5. QED
        BY <2>4, <3>2, <3>3, <3>4, Later
  <2>6. CASE Bootstrap(r)
    <3>1. tables' = tables /\ version' = version /\ granted \subseteq granted'
        BY <2>6 DEF Bootstrap
    <3>2. Extends(tables, tables)
        BY DEF Extends
    <3>3. QED
        BY <2>4, <3>1, <3>2 DEF Version, LastVersion
  <2>7. QED
      BY <2>2, <2>5, <2>6
<1>2. DeployInv /\ [DeployNext]_deployVars => [Grows]_<<tables, version, granted>>
    BY <1>1
<1>3. DeploySpec => []DeployInv /\ [][DeployNext]_deployVars
    BY DeploymentSafe, PTL DEF DeploySpec
<1>4. QED
    BY <1>2, <1>3, PTL DEF NothingIsTakenAway

=============================================================================
