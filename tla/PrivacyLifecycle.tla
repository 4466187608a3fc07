--------------------------- MODULE PrivacyLifecycle ---------------------------
(***************************************************************************)
(* What privacy_lifecycle_runtime.py makes of a source packet: which       *)
(* records have expired, which of those may be published as anonymous      *)
(* aggregates, what is to be purged, and the receipts of it all. The       *)
(* program only reports; it raises an error instead if the packet or the   *)
(* report is not what it must be.                                          *)
(***************************************************************************)
EXTENDS Integers, Sequences, FiniteSets

\* SUPPORTED_REQUEST_TYPES
RequestTypes == {"analytics_opt_out", "account_deletion", "recap_opt_out", "feed_profile_reset"}

\* PERSONAL_DATA_STATES
PersonalStates == {"IDENTIFIABLE", "PSEUDONYMOUS", "AGGREGATED_PERSONAL"}

Owners == {"analytics", "privacy", "legal"}

\* validate_source_binding does not raise.
ValidBinding(b) ==
  /\ b.schema = "v1"
  /\ b.target = "local"
  /\ b.class = "local-source-bound"
  /\ b.start < b.end
  /\ b.canonical = "PostgreSQL" /\ b.backbone = "Redpanda/Kafka API"
  /\ b.enabled = {}
  /\ b.systems # {} /\ b.systems \subseteq {"safe"}
  /\ Owners \subseteq DOMAIN b.owners
  /\ \A o \in DOMAIN b.owners : b.owners[o] = "safe"

\* load_records does not raise; "flaw" is the first field of a row that is no
\* bounded token, no hash, no integer or no boolean.
ValidRecord(r) ==
  /\ r.flaw = "none"
  /\ r.state \in PersonalStates \cup {"ANONYMOUS"}
  /\ r.retention > 0
  /\ r.action \in {"anonymize_or_delete", "delete"}
  /\ r.cells >= 0
  /\ r.request \in RequestTypes \cup {"none"}

ValidPacket(p) ==
  /\ ValidBinding(p.binding)
  /\ ~p.forbidden
  /\ p.records # << >>
  /\ \A i \in DOMAIN p.records : ValidRecord(p.records[i])

-----------------------------------------------------------------------------
\* Mutant of Expired: the last day of the retention is not counted.
ExpiredAfter(r, now) == r.occurred + r.retention < now

\* is_expired; times are in days.
Expired(r, now) == r.occurred + r.retention <= now

\* The indexes of the retention candidates. The clock is the window's end.
Candidates(p) ==
  {i \in DOMAIN p.records : /\ p.records[i].action = "anonymize_or_delete"
                            /\ Expired(p.records[i], p.binding.end)}

\* Mutant of Threshold: rare cells are taken as any other.
ThresholdForAll(r) == 10

\* build_anonymous_candidate_check
Threshold(r) == IF r.rare THEN 20 ELSE 10

Passes(r) == r.identifierFree /\ r.cells >= Threshold(r)

Refs(p, S) == {p.records[i].ref : i \in S}

Passed(p) == {i \in Candidates(p) : Passes(p.records[i])}
Failed(p) == Candidates(p) \ Passed(p)

\* published_anonymous_aggregates, by their source record.
Published(p) == Refs(p, Passed(p))

\* build_cleanup_actions: every record with a request.
Cleanups(p) == {i \in DOMAIN p.records : p.records[i].request # "none"}

Personal(p, S) == {i \in S : p.records[i].state \in PersonalStates}

\* Mutant of Purged: what could not be made anonymous is kept.
PurgedPublished(p) == Refs(p, Personal(p, Passed(p)) \cup Cleanups(p))

\* purge_refs
Purged(p) == Refs(p, Personal(p, Candidates(p)) \cup Cleanups(p))

\* build_audit_receipts
Receipts(p) ==
  {"retention_candidate_identified"} \X Refs(p, Candidates(p))
    \cup {"anonymous_candidate_check_passed", "anonymous_aggregate_published"} \X Published(p)
    \cup {"anonymous_candidate_check_failed", "anonymization_failure_incident_recorded"}
           \X Refs(p, Failed(p))
    \cup {"personal_or_pseudonymous_state_purged"} \X Purged(p)
    \cup {<<p.records[i].request, p.records[i].ref>> : i \in Cleanups(p)}

\* assert_runtime_invariants, the part that depends on the packet. The audit
\* actions it asks for follow.
RuntimeInvariants(p) ==
  /\ Passed(p) # {} /\ Failed(p) # {}
  /\ Refs(p, Failed(p)) \cap Published(p) = {}
  /\ RequestTypes \subseteq {p.records[i].request : i \in Cleanups(p)}

\* build_runtime_report returns a report.
Reports(p) == ValidPacket(p) /\ RuntimeInvariants(p)

\* What the assets tell of the report.
Decisions(p) ==
  [anonymize |-> Cardinality(Passed(p)), delete |-> Cardinality(Failed(p))]
Outcomes(p) ==
  [published |-> Cardinality(Passed(p)), purged |-> Cardinality(Purged(p))]
Summary(p) ==
  [candidates |-> Cardinality(Candidates(p)), cleanups |-> Cardinality(Cleanups(p))]
=============================================================================
