-------------------------- MODULE RequiredAnalytics --------------------------
(***************************************************************************)
(* The decisions of required_analytics_capture.py: which inputs block it,  *)
(* which rows it reads, and what it asks of them.                          *)
(***************************************************************************)
EXTENDS WarehouseDsn, Integers, FiniteSets

Lanes == {"admin", "reveal", "note", "feedml", "clickhouse"}
Classes == {"production", "staging-production-equivalent", "internal-qa"}

\* QUERY_EVENT_NAMES_BY_LANE
NamesOfLane(lane) ==
  CASE lane = "admin" -> {"admin_surface_viewed", "admin_action_visibility_viewed"}
    [] lane = "reveal" -> {"admin_reveal_audit_recorded"}
    [] lane = "note" -> {"admin_note_metadata_recorded"}
    [] OTHER -> {}

ExpectedEventNames(in) == UNION {NamesOfLane(lane) : lane \in in.lanes}

AdminRuntimeLane(in) == in.lanes \cap {"admin", "reveal", "note"} # {}

\* validate_safe_ref objects.
UnsafeRef(ref) == ref \in {"absent", "malformed", "placeholder"}

\* The two local modes of validate_warehouse_dsn.
InternalQaLocal(in) == in.ack /\ in.class = "internal-qa"
OwnerApprovedLocal(in) ==
  in.tunnel.mode = "owner" /\ in.class = "staging-production-equivalent"

\* validate_approved_ssh_tunnel is satisfied.
ApprovedSshTunnel(in) ==
  /\ in.tunnel.mode = "ssh" /\ in.tunnel.ssh = "ok"
  /\ TunnelMatches(in.dsn, in.tunnel)
  /\ in.dsn.sslmode = "verify-full"

\* validate_owner_approved_local_warehouse is satisfied.
ApprovedLocalWarehouse(in) ==
  /\ Hostname(in.dsn) \notin {"localhost", "postgres"}
  /\ Hostaddr(in.dsn) = "loopback"
  /\ TunnelMatches(in.dsn, in.tunnel)

\* validate_warehouse_dsn adds an error.
UnsafeDsn(in) ==
  LET allowed == InternalQaLocal(in) \/ OwnerApprovedLocal(in)
      d == in.dsn
  IN  \/ d.form = "absent"
      \/ in.ack /\ in.class # "internal-qa"
      \/ in.tunnel.mode = "owner" /\ in.class # "staging-production-equivalent"
      \/ ~allowed /\ (Marked(d) \/ Hostname(d) \in {"localhost", "postgres"} \/ ~RequiresTls(d))
      \/ OwnerApprovedLocal(in) /\ ~ApprovedLocalWarehouse(in)
      \/ ~allowed /\ Hostaddr(d) = "loopback" /\ ~ApprovedSshTunnel(in)
      \/ Hostname(d) = "placeholder" \/ Secret(d) \in {"placeholder", "template"}

\* The errors of load_config in either mode, by input.
AccessErrors(in) ==
  {input \in {"target_name", "target_class", "lanes", "approval_ids", "seeded_user_ref",
              "subject_user_hash", "event_id_prefix", "window", "warehouse_dsn", "privacy"} :
     \/ input = "target_name" /\ (UnsafeRef(in.target) \/ in.target = "local")
     \/ input = "target_class" /\ in.class \notin Classes
     \/ input = "lanes" /\ (in.lanes = {} \/ ~(in.lanes \subseteq Lanes))
     \/ input = "approval_ids" /\ UnsafeRef(in.approvals)
     \/ input = "seeded_user_ref" /\ UnsafeRef(in.user)
     \/ input = "subject_user_hash" /\ in.subject # "ok"
     \/ input = "event_id_prefix" /\ (UnsafeRef(in.prefix) \/ in.prefix \in {"local", "short"})
     \/ input = "window" /\ in.window \notin 60..1800
     \/ input = "warehouse_dsn" /\ UnsafeDsn(in)
     \/ input = "privacy" /\ in.privacy \in {"absent", "placeholder"}}

\* The checks whose results a capture with these lanes needs.
NeededChecks(in) ==
  {"dbt", "soda", "dagster"}
    \cup (IF AdminRuntimeLane(in) THEN {"scenario"} ELSE {})
    \cup (in.lanes \cap {"feedml", "clickhouse"})

\* The errors of load_config that only a capture can have.
CaptureErrors(in) ==
  {c \in NeededChecks(in) :
     in.status[c] # "passed" \/ in.artifact[c] \in {"absent", "placeholder"}}
    \cup (IF in.allow THEN {} ELSE {"allow"})
    \cup (IF in.stop \in {"absent", "placeholder"} THEN {"stop"} ELSE {})

\* Mutant of Warnings: a status alone is enough.
WarningsStatus(in) ==
  {c \in NeededChecks(in) : in.status[c] = "absent"}
    \cup (IF in.stop = "absent" THEN {"stop"} ELSE {})

\* The warnings of a preflight: capture_only_keys without a value.
Warnings(in) ==
  {c \in NeededChecks(in) : in.status[c] = "absent" \/ in.artifact[c] = "absent"}
    \cup (IF in.stop = "absent" THEN {"stop"} ELSE {})

-----------------------------------------------------------------------------
\* The WHERE clause of the landing query, but for the window.
InScope(in, e) == e.prefix /\ e.seeded /\ e.name \in ExpectedEventNames(in)

\* count_forbidden_keys
ForbiddenKey(e) == "bearer" \in {e.subjectKey, e.key}

\* count_unsupported_payload_keys: PAYLOAD_KEYS of the event name.
UnsupportedKey(e) ==
  e.key \notin (IF e.name = "admin_surface_viewed" THEN {"metadata"} ELSE {"metadata", "hash"})

\* unsafe_payload_value_count: ASCII letters and digits only, and a hash must
\* be there.
UnsafeValue(e) ==
  CASE e.value = "scalar" -> FALSE
    [] e.value \in {"nested", "long", "contact", "bearerText"} -> TRUE
    [] OTHER -> e.value # (IF e.key = "hash" THEN "hash" ELSE "token")

FieldHit(e) == ForbiddenKey(e) \/ UnsupportedKey(e) \/ UnsafeValue(e)

\* How many events of a group of names success_criteria asks for.
Minimum(in) == [g \in {{n} : n \in ExpectedEventNames(in)} |-> 1]

\* success_criteria; seen[g] is how many rows of the group g were read, names
\* are those of all of them.
SuccessCriteria(in, seen, names, dlqCount, hits) ==
  [dlq_zero |-> dlqCount = 0,
   no_forbidden_fields |-> hits = {},
   only_expected_event_names |-> names \subseteq ExpectedEventNames(in),
   downstream_checks_passed |-> \A c \in NeededChecks(in) : in.status[c] = "passed",
   stop_rollback_recorded |-> in.stop # "absent",
   events_seen |-> \A g \in DOMAIN Minimum(in) : seen[g] >= Minimum(in)[g]]

\* The classification of a capture that read the warehouse.
Classification(in) ==
  IF in.class = "internal-qa"
  THEN "required-analytics-internal-qa-capture" ELSE "required-analytics-external-capture"
=============================================================================
