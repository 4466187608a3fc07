---------------------------- MODULE PromotionGate ----------------------------
(***************************************************************************)
(* The promotion gate of the ClickHouse candidate                          *)
(* (build_promotion_gate_report): owners fill in a manifest, field by      *)
(* field, and a run that passed its comparison reports on what it finds.   *)
(***************************************************************************)
CONSTANTS
  Evidence,  \* keys of REQUIRED_PROMOTION_EVIDENCE
  Owners     \* REQUIRED_OWNER_APPROVALS

VARIABLE manifest  \* the file CLICKHOUSE_PROMOTION_MANIFEST

\* What the gate tells apart in the value of an id: not there, a safe evidence
\* id, another text that is not blank, anything else.
Id == {"absent", "safe", "unsafe", "other"}
Flag == {"absent", "false", "true", "other"}

\* No file, or an empty object.
NoManifest ==
  [evidence |-> [k \in Evidence |-> "absent"], approvals |-> [o \in Owners |-> "absent"],
   canonical |-> "absent", enabled |-> "absent", schemaVersion |-> FALSE]

\* not safe_evidence_id(...)
Missing(ids) == {k \in DOMAIN ids : ids[k] # "safe"}

Unsafe(ids) == {k \in DOMAIN ids : ids[k] = "unsafe"}

\* guardrail_failures
Failures(m, parity) ==
  {f \in {"parity", "missing_canonical", "missing_enabled", "attempts_canonical",
          "attempts_enable"} :
     \/ f = "parity" /\ ~parity
     \/ f = "missing_canonical" /\ m # NoManifest /\ m.canonical = "absent"
     \/ f = "missing_enabled" /\ m # NoManifest /\ m.enabled = "absent"
     \/ f = "attempts_canonical" /\ m.canonical \notin {"absent", "false"}
     \/ f = "attempts_enable" /\ m.enabled = "true"}

\* production_promotion_ready
Ready(m, parity) ==
  /\ m.canonical = "false"
  /\ m.enabled = "false"
  /\ Failures(m, parity) = {} /\ Unsafe(m.evidence) = {} /\ Unsafe(m.approvals) = {}
  /\ Missing(m.evidence) = {} /\ Missing(m.approvals) = {}

\* The report of a run; main() gets here only with matching aggregates.
Report(m) ==
  [ready |-> Ready(m, TRUE),
   missingEvidence |-> Missing(m.evidence),
   missingOwnerApprovals |-> Missing(m.approvals),
   failures |-> Failures(m, TRUE) \cup Unsafe(m.evidence) \cup Unsafe(m.approvals)]

Init == manifest = NoManifest

\* An owner edits one field.
Edit ==
  \/ \E k \in Evidence, id \in Id : manifest' = [manifest EXCEPT !.evidence[k] = id]
  \/ \E o \in Owners, id \in Id : manifest' = [manifest EXCEPT !.approvals[o] = id]
  \/ \E flag \in Flag : manifest' = [manifest EXCEPT !.canonical = flag]
  \/ \E flag \in Flag : manifest' = [manifest EXCEPT !.enabled = flag]
  \/ manifest' = [manifest EXCEPT !.schemaVersion = ~@]

Next == Edit

Spec == Init /\ [][Next]_manifest

-----------------------------------------------------------------------------
\* What the program looks for: bounded evidence ids for all the evidence and
\* all the approvals, and both flags false.
Supplied(m) ==
  /\ \A k \in Evidence : m.evidence[k] = "safe"
  /\ \A o \in Owners : m.approvals[o] = "safe"
  /\ m.canonical = "false" /\ m.enabled = "false"

\* What clickhouse-hot-analytics-promotion-gate.md:31-46 lists.
Complete(m) == m.schemaVersion /\ Supplied(m)

\* clickhouse-hot-analytics-promotion-gate.md: "A production hot-analytics
\* promotion manifest must be a JSON object with these fields before the report
\* can return productionPromotionReady=true", schemaVersion the first of them.
\* The gate says ready for complete manifests and for no others.
ReadyIffComplete == Report(manifest).ready <=> Complete(manifest)

\* The gate says ready exactly for what is supplied, although readiness is
\* computed from flags, guardrails and missing keys that overlap.
ReadyIffSupplied == Report(manifest).ready <=> Supplied(manifest)

\* A blocked report says why, but for one manifest: everything is supplied, but
\* clickhouseProductionEnabled is there and no boolean, which no guardrail of
\* the code names.
BlockedIsExplained ==
  LET r == Report(manifest)
  IN  ~r.ready /\ r.missingEvidence \cup r.missingOwnerApprovals \cup r.failures = {} =>
        manifest.enabled = "other" /\ Supplied([manifest EXCEPT !.enabled = "false"])

=============================================================================
