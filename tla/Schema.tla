------------------------------- MODULE Schema -------------------------------
(***************************************************************************)
(* The schema of the database as the migrations build it, and what the code    *)
(* expects of it. A table is the set of its columns and the subset that an     *)
(* INSERT has to give: not null, without a default, not generated. Types,      *)
(* indexes and checks are left out. The models of older revisions are not in    *)
(* the repository any more; their code is taken to know the tables of its own   *)
(* migrations.                                                                 *)
(***************************************************************************)
EXTENDS Naturals

Table(required, others) == [columns |-> required \cup others, required |-> required]
Both(tables, others) ==
  [t \in DOMAIN tables \cup DOMAIN others |-> IF t \in DOMAIN tables THEN tables[t] ELSE others[t]]

(* 0001: the tables of the first version                                       *)
InitialSchema ==
  [crawl_jobs |-> Table({"status", "requested_urls"},
     {"id", "created_at", "started_at", "completed_at", "processed_count", "success_count", "failure_count"}),
   pages |-> Table({"url", "normalized_url", "domain"},
     {"id", "canonical_url", "title", "description", "http_status", "content_type", "content_length",
      "html_hash", "content_hash", "internal_link_count", "external_link_count", "outbound_link_count",
      "response_time_ms", "first_seen_at", "last_seen_at", "created_at", "updated_at"}),
   crawl_attempts |-> Table({"job_id", "url", "attempt_number", "status"},
     {"id", "http_status", "error_type", "error_message", "response_time_ms", "created_at"}),
   links |-> Table({"source_page_id", "target_url", "is_internal"}, {"id", "target_domain"})]

(* 0002: the durable frontier                                                  *)
CrawlFrontier ==
  [crawl_frontier |-> Table({"job_id", "url", "normalized_url", "domain"},
     {"id", "priority", "state", "attempt_count", "max_attempts", "available_at", "lease_owner",
      "lease_expires_at", "last_error_type", "last_error_message", "completed_at", "created_at", "updated_at"})]

(* 0003: the statistics by domain                                              *)
DomainStatsRollup ==
  [domain_stats |-> Table({"domain"},
     {"page_count", "success_count", "failure_count", "total_bytes", "unique_content_hashes",
      "last_crawled_at", "refreshed_at"})]

(* 0005: quotas and heartbeats                                                 *)
SecurityHealth ==
  [api_quotas |-> Table({"principal", "window", "requests", "urls"}, {}),
   worker_heartbeats |-> Table({"worker_id", "seen_at", "progress_at", "release"}, {})]

(* 0004 and 0006 add a column that may be null to a table there is.            *)
WithColumn(tables, t, column) == [tables EXCEPT ![t].columns = @ \cup {column}]

LastVersion == 6   \* the last migration

(* upgrade() of one migration                                                  *)
Upgraded(version, tables) ==
  CASE version = 1 -> Both(tables, InitialSchema)
    [] version = 2 -> Both(tables, CrawlFrontier)
    [] version = 3 -> Both(tables, DomainStatsRollup)
    [] version = 4 -> WithColumn(tables, "crawl_frontier", "lease_token")
    [] version = 5 -> Both(tables, SecurityHealth)
    [] version = 6 -> WithColumn(tables, "crawl_jobs", "traceparent")

NoTables == [t \in {} |-> Table({}, {})]

SchemaAt[version \in 0..LastVersion] ==
  IF version = 0 THEN NoTables ELSE Upgraded(version, SchemaAt[version - 1])

(* What Alembic runs to get from one version to another; nothing if it is there *)
Migrated(from, to, tables) ==
  LET step[v \in from..to] == IF v = from THEN tables ELSE Upgraded(v, step[v - 1]) IN step[to]

(* CREATE TABLE and ADD COLUMN fail on what exists: a migration can not be run *)
(* a second time.                                                              *)
Applies(from, to, tables) ==
  \A v \in (from + 1)..to : \A t \in DOMAIN SchemaAt[v] :
    \/ v > 1 /\ t \in DOMAIN SchemaAt[v - 1] /\ SchemaAt[v][t] = SchemaAt[v - 1][t]
    \/ t \notin DOMAIN tables
    \/ ~(SchemaAt[v][t].columns \subseteq tables[t].columns)

-----------------------------------------------------------------------------
(* The models of the code at the head                                         *)

TimestampMixin == {"created_at"}

QueueModels ==
  [api_quotas |-> Table({"principal", "window", "requests", "urls"}, {}),
   worker_heartbeats |-> Table({"worker_id", "seen_at", "progress_at", "release"}, {}),
   crawl_jobs |-> Table({"status", "requested_urls"},
     TimestampMixin \cup {"id", "started_at", "completed_at", "traceparent", "processed_count",
                      "success_count", "failure_count"}),
   crawl_frontier |-> Table({"job_id", "url", "normalized_url", "domain"},
     TimestampMixin \cup {"id", "priority", "state", "attempt_count", "max_attempts", "available_at",
                      "lease_owner", "lease_token", "lease_expires_at", "last_error_type",
                      "last_error_message", "completed_at", "updated_at"})]

RecordModels ==
  [pages |-> Table({"url", "normalized_url", "domain"},
     TimestampMixin \cup {"id", "canonical_url", "title", "description", "http_status", "content_type",
                      "content_length", "html_hash", "content_hash", "internal_link_count",
                      "external_link_count", "outbound_link_count", "response_time_ms",
                      "first_seen_at", "last_seen_at", "updated_at"}),
   domain_stats |-> Table({"domain"},
     {"page_count", "success_count", "failure_count", "total_bytes", "unique_content_hashes",
      "last_crawled_at", "refreshed_at"}),
   crawl_attempts |-> Table({"job_id", "url", "attempt_number", "status"},
     TimestampMixin \cup {"id", "http_status", "error_type", "error_message", "response_time_ms"}),
   links |-> Table({"source_page_id", "target_url", "is_internal"}, {"id", "target_domain"})]

Models == Both(QueueModels, RecordModels)

CodeAt(revision) == IF revision = LastVersion THEN Models ELSE SchemaAt[revision]

(* The tables bootstrap grants to the role the services log in with: at the     *)
(* head all of them, by name; before, those there were. The grants on sequences *)
(* and on alembic_version have nothing to relate to here and are left out.      *)
GrantedBy(revision) ==
  IF revision < LastVersion THEN DOMAIN SchemaAt[revision]
  ELSE {"crawl_jobs", "crawl_frontier", "pages", "crawl_attempts", "links", "domain_stats",
        "api_quotas", "worker_heartbeats"}

(* Every statement of that code finds its tables and columns and may use them, *)
(* and no INSERT of it leaves out a column the database demands.                *)
Fits(revision, tables, granted) ==
  \A t \in DOMAIN CodeAt(revision) :
    /\ t \in DOMAIN tables \cap granted
    /\ CodeAt(revision)[t].columns \subseteq tables[t].columns
    /\ tables[t].required \subseteq CodeAt(revision)[t].required

(* GET /ready, which the container and the load balancer ask                   *)
ReadyIfReachable(tables, granted) == TRUE   \* mutant: SELECT 1 is enough
Ready(tables, granted) ==
  /\ {"crawl_jobs", "worker_heartbeats"} \subseteq DOMAIN tables \cap granted
  /\ "traceparent" \in tables["crawl_jobs"].columns
  /\ "worker_id" \in tables["worker_heartbeats"].columns

=============================================================================
