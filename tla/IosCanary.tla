------------------------------ MODULE IosCanary ------------------------------
(***************************************************************************)
(* The decisions of ios_limited_canary_capture.py, under the names that    *)
(* RequiredAnalytics gives to those of its sibling.                        *)
(***************************************************************************)
EXTENDS WarehouseDsn, Integers, FiniteSets

Impressions == {"feed_item_impression", "feed_item_viewable_impression"}

\* SAFE_INTERACTION_EVENT_NAMES; the model needs two of the ten.
Interactions == {"feed_item_like", "feed_item_hide"}

\* ALLOWED_EVENT_NAMES
AllowedEventNames ==
  {"app_session_started", "app_session_ended", "screen_viewed", "feed_item_open"}
    \cup Impressions \cup Interactions

UnsafeRef(ref) == ref \in {"absent", "malformed", "placeholder"}

\* validate_warehouse_dsn adds an error. "localhost" and the loopback addresses
\* are markers here, wherever in the text they are.
UnsafeDsn(d) ==
  \/ d.form = "absent"
  \/ Marked(d) \/ "localhost" \in {d.authority, d.host} \/ d.hostaddr = "loopback"
  \/ Hostname(d) = "placeholder" \/ Secret(d) \in {"placeholder", "template"}
  \/ ~RequiresTls(d)

\* The errors of load_config in either mode, by input.
AccessErrors(in) ==
  {input \in {"approval_id", "target_name", "target_class", "seeded_user_ref",
              "subject_user_hash", "event_id_prefix", "window", "warehouse_dsn",
              "share_analytics", "personalization_enabled", "privacy"} :
     \/ input = "approval_id" /\ in.approvals # "ok"
     \/ input = "target_name" /\ (UnsafeRef(in.target) \/ in.target = "local")
     \/ input = "target_class"
          /\ in.class \notin {"production", "staging-production-equivalent"}
     \/ input = "seeded_user_ref" /\ UnsafeRef(in.user)
     \/ input = "subject_user_hash" /\ in.subject # "ok"
     \/ input = "event_id_prefix" /\ (UnsafeRef(in.prefix) \/ in.prefix \in {"local", "short"})
     \/ input = "window" /\ in.window \notin 60..120
     \/ input = "warehouse_dsn" /\ UnsafeDsn(in.dsn)
     \/ input = "share_analytics" /\ in.share # "true"
     \/ input = "personalization_enabled" /\ in.personalization # "true"
     \/ input = "privacy" /\ in.privacy \in {"absent", "placeholder"}}

NeededChecks(in) == {"dbt", "soda", "dagster"}

\* The errors of load_config that only a capture can have: a status must be one
\* of four, not "passed".
CaptureErrors(in) ==
  {c \in NeededChecks(in) : in.status[c] \in {"absent", "unknown"} \/ in.artifact[c] = "absent"}
    \cup (IF in.allow THEN {} ELSE {"allow"})
    \cup (IF in.stop = "absent" THEN {"stop"} ELSE {})

\* The warnings of a preflight, which leave the artifacts out.
Warnings(in) ==
  {c \in NeededChecks(in) : in.status[c] = "absent"}
    \cup (IF in.stop = "absent" THEN {"stop"} ELSE {})

\* The WHERE clause of the landing query, but for the window.
InScope(in, e) == e.prefix /\ e.seeded /\ e.ios

\* count_forbidden_keys
FieldHit(e) == "bearer" \in {e.subjectKey, e.key}

\* How many events of a group of names success_criteria asks for.
Minimum(in) ==
  [g \in {{"app_session_started"}, {"screen_viewed"}, Impressions, {"feed_item_open"}, Interactions} |->
     CASE g = {"screen_viewed"} -> 2
       [] g = Impressions -> 5
       [] OTHER -> 1]

\* success_criteria; seen[g] is how many rows of the group g were read, names
\* are those of all of them.
SuccessCriteria(in, seen, names, dlqCount, hits) ==
  [seeded_privacy_flags_true |-> in.share = "true" /\ in.personalization = "true",
   dlq_zero |-> dlqCount = 0,
   no_forbidden_fields |-> hits = {},
   only_allowed_event_names |-> names \subseteq AllowedEventNames,
   downstream_checks_passed |-> \A c \in NeededChecks(in) : in.status[c] = "passed",
   events_seen |-> \A g \in DOMAIN Minimum(in) : seen[g] >= Minimum(in)[g]]

Classification(in) == "production-limited-canary-capture"
=============================================================================
