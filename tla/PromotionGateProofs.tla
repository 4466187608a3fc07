-------------------------- MODULE PromotionGateProofs --------------------------
(***************************************************************************)
(* Proofs about the promotion gate, for any kinds of evidence and owners.  *)
(***************************************************************************)
EXTENDS PromotionGate, TLAPS

Manifest ==
  [evidence : [Evidence -> Id], approvals : [Owners -> Id], canonical : Flag, enabled : Flag,
   schemaVersion : BOOLEAN]

LEMMA ManifestInit == Init => manifest \in Manifest
  BY DEF Init, NoManifest, Manifest, Id, Flag

LEMMA ManifestStep ==
  ASSUME manifest \in Manifest, [Next]_manifest
  PROVE  manifest' \in Manifest
<1>1. ASSUME NEW k \in Evidence, NEW id \in Id, manifest' = [manifest EXCEPT !.evidence[k] = id]
      PROVE  manifest' \in Manifest
  BY <1>1 DEF Manifest
<1>2. ASSUME NEW o \in Owners, NEW id \in Id, manifest' = [manifest EXCEPT !.approvals[o] = id]
      PROVE  manifest' \in Manifest
  BY <1>2 DEF Manifest
<1>3. ASSUME NEW flag \in Flag,
             \/ manifest' = [manifest EXCEPT !.canonical = flag]
             \/ manifest' = [manifest EXCEPT !.enabled = flag]
      PROVE  manifest' \in Manifest
  BY <1>3 DEF Manifest
<1>4. CASE manifest' = [manifest EXCEPT !.schemaVersion = ~@]
  BY <1>4 DEF Manifest
<1> QED
  BY <1>1, <1>2, <1>3, <1>4 DEF Next, Edit

LEMMA ManifestOK == Spec => [](manifest \in Manifest)
<1>1. manifest \in Manifest /\ [Next]_manifest => (manifest \in Manifest)'
  BY ManifestStep
<1> QED
  BY <1>1, ManifestInit, PTL DEF Spec

\* Nothing is missing exactly if every id is safe; an unsafe id is missing.
LEMMA MissingNone ==
  ASSUME NEW S, NEW ids \in [S -> Id]
  PROVE  /\ Missing(ids) = {} <=> \A k \in S : ids[k] = "safe"
         /\ Unsafe(ids) \subseteq Missing(ids)
  BY DEF Missing, Unsafe

\* The fields of a manifest are what the lemmas about ids ask for.
LEMMA Ids ==
  ASSUME NEW m \in Manifest
  PROVE  m.evidence \in [Evidence -> Id] /\ m.approvals \in [Owners -> Id]
         /\ m.canonical \in Flag /\ m.enabled \in Flag
  BY DEF Manifest

\* Guardrails that name something beside two false flags do not exist.
LEMMA NoFailures ==
  ASSUME NEW m, m.canonical = "false", m.enabled = "false"
  PROVE  Failures(m, TRUE) = {}
  BY DEF Failures

LEMMA ReadySupplied ==
  ASSUME NEW m \in Manifest
  PROVE  Ready(m, TRUE) <=> Supplied(m)
<1>1. /\ Missing(m.evidence) = {} <=> \A k \in Evidence : m.evidence[k] = "safe"
      /\ Unsafe(m.evidence) \subseteq Missing(m.evidence)
  BY Ids, MissingNone
<1>2. /\ Missing(m.approvals) = {} <=> \A o \in Owners : m.approvals[o] = "safe"
      /\ Unsafe(m.approvals) \subseteq Missing(m.approvals)
  BY Ids, MissingNone
<1>3. m.canonical = "false" /\ m.enabled = "false" => Failures(m, TRUE) = {}
  BY NoFailures
<1> QED
  BY <1>1, <1>2, <1>3 DEF Ready, Supplied

\* The gate is ready when all that the program looks for is supplied, and only
\* then, whatever its guardrails overlap in.
THEOREM ReadyOnlyIfSupplied == Spec => []ReadyIffSupplied
<1>1. manifest \in Manifest => ReadyIffSupplied
  BY ReadySupplied DEF ReadyIffSupplied, Report
<1> QED
  BY <1>1, ManifestOK, PTL

\* What a manifest without a cause in the report looks like.
LEMMA Unexplained ==
  ASSUME Evidence # {},
         NEW m \in Manifest, Missing(m.evidence) = {}, Missing(m.approvals) = {},
         Failures(m, TRUE) = {}, ~Ready(m, TRUE)
  PROVE  m.enabled = "other" /\ Supplied([m EXCEPT !.enabled = "false"])
<1>1. /\ \A k \in Evidence : m.evidence[k] = "safe"
      /\ \A o \in Owners : m.approvals[o] = "safe"
      /\ Unsafe(m.evidence) = {} /\ Unsafe(m.approvals) = {}
  BY Ids, MissingNone
<1>2. m.canonical \in {"absent", "false"} /\ m.enabled # "true"
  BY DEF Failures
<1>3. m = NoManifest \/ (m.canonical # "absent" /\ m.enabled # "absent")
  BY DEF Failures
<1>4. m # NoManifest
  BY <1>1 DEF NoManifest
<1>5. m.canonical = "false" /\ m.enabled \in {"false", "other"}
  BY <1>2, <1>3, <1>4, Ids DEF Flag
<1>6. m.enabled # "false"
  BY <1>1, <1>5 DEF Ready
<1>7. Supplied([m EXCEPT !.enabled = "false"])
  BY <1>1, <1>5 DEF Supplied, Manifest
<1> QED
  BY <1>5, <1>6, <1>7

\* A blocked report names its cause unless only clickhouseProductionEnabled is
\* wrong, and that by not being a boolean. (With no evidence required, a gate
\* could be blocked for want of a manifest, and not say so.)
THEOREM BlockedHasCause ==
  ASSUME Evidence # {}
  PROVE  Spec => []BlockedIsExplained
<1>1. manifest \in Manifest => BlockedIsExplained
  <2> SUFFICES ASSUME manifest \in Manifest, ~Report(manifest).ready,
                      Report(manifest).missingEvidence \cup Report(manifest).missingOwnerApprovals
                        \cup Report(manifest).failures = {}
               PROVE  manifest.enabled = "other" /\ Supplied([manifest EXCEPT !.enabled = "false"])
    BY DEF BlockedIsExplained
  <2>1. /\ ~Ready(manifest, TRUE)
        /\ Missing(manifest.evidence) = {} /\ Missing(manifest.approvals) = {}
        /\ Failures(manifest, TRUE) = {}
    BY DEF Report
  <2> QED
    BY <2>1, Unexplained
<1> QED
  BY <1>1, ManifestOK, PTL
=============================================================================
