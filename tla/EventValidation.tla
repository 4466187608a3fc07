--------------------------- MODULE EventValidation ---------------------------
(***************************************************************************)
(* What the ingest worker makes of one record (validate_event): the checks *)
(* are made in a fixed order, the first that fails names the error code of *)
(* the DLQ row, and a record that fails none is accepted.                  *)
(*                                                                         *)
(* A payload is represented by one of its fields, the first one that a     *)
(* check objects to if there is such a field, because every check of a     *)
(* payload asks whether any of its fields is objectionable.                *)
(***************************************************************************)
EXTENDS Integers, Sequences

Forms == {"empty", "undecodable", "notAnObject", "object"}

\* event_id: no text that is not blank; text that safe_string keeps; text that
\* it does not keep because of an @ or of more than 200 characters.
Ids == {"missing", "safe", "unsafe"}

\* Classes of keys by who objects to them: nobody, only because the event's
\* list has no such key, the worker at any depth, the capture programs only
\* ("bearer", the one forbidden key of theirs the worker does not block).
\* "hash" is target_hash or audit_receipt_hash.
Keys == {"metadata", "hash", "unlisted", "blocked", "bearer"}

\* Classes of values, of strings by their trimmed text: no string ("scalar",
\* "nested"), a bounded token of ASCII letters and digits, one with other
\* letters or digits ("word"), sha256: and either of them, the same two with
\* seven digits or more, contact or token-shaped text, other text of up to 256
\* characters, longer text.
Values == {"scalar", "nested", "empty", "token", "word", "hash", "hashWord",
           "phone", "phoneWord", "contact", "bearerText", "text", "long"}

\* The checks before the payload that depend on a field of their own; the
\* order is validate_event's.
FieldChecks ==
  << "missing_event_name", "invalid_event_version", "missing_occurred_at",
     "invalid_occurred_at", "missing_received_at", "invalid_received_at",
     "missing_producer", "missing_privacy_class", "invalid_privacy_class",
     "invalid_consent_scope", "missing_analytics_consent", "invalid_subject",
     "missing_subject_hash", "raw_subject_hash", "invalid_session_id" >>

Checks ==
  << "empty_value", "invalid_json", "invalid_json_object", "missing_event_id" >>
    \o FieldChecks
    \o << "blocked_subject_identifier", "invalid_payload", "blocked_payload_identifier",
          "unsupported_expansion_metadata_field", "invalid_expansion_metadata_value",
          "raw_expansion_metadata_value", "invalid_expansion_metadata_hash" >>

\* expansion_metadata_payload_keys: the event names with a list of keys.
Expansion == {"admin_reveal_audit_recorded", "admin_note_metadata_recorded"}

\* bounded_metadata_value and phone_like_value take any letter or digit that
\* Unicode knows.
BoundedMetadata(v) == v \in {"token", "word"}
BoundedHash(v) == v \in {"hash", "hashWord"}

\* Mutant of ValueVerdict: seven digits are no telephone number.
ValueVerdictAnyDigits(key, v) ==
  CASE v = "scalar" -> "accepted"
    [] v \in {"nested", "long"} -> "invalid_expansion_metadata_value"
    [] v \in {"contact", "bearerText"} -> "raw_expansion_metadata_value"
    [] OTHER ->
         IF key = "hash"
         THEN IF v = "empty" \/ BoundedHash(v)
              THEN "accepted" ELSE "invalid_expansion_metadata_hash"
         ELSE IF BoundedMetadata(v) \/ v \in {"phone", "phoneWord"}
              THEN "accepted" ELSE "raw_expansion_metadata_value"

\* validate_expansion_metadata_value: the code it raises, or "accepted".
ValueVerdict(key, v) ==
  CASE v = "scalar" -> "accepted"
    [] v \in {"nested", "long"} -> "invalid_expansion_metadata_value"
    [] v \in {"contact", "bearerText"} -> "raw_expansion_metadata_value"
    [] OTHER ->
         IF key = "hash"
         THEN IF v = "empty" \/ BoundedHash(v)
              THEN "accepted" ELSE "invalid_expansion_metadata_hash"
         ELSE IF BoundedMetadata(v)
              THEN "accepted" ELSE "raw_expansion_metadata_value"

\* Whether an event fails a check, the ones before it being passed.
Fails(e, check) ==
  CASE check = "empty_value" -> e.form = "empty"
    [] check = "invalid_json" -> e.form = "undecodable"
    [] check = "invalid_json_object" -> e.form = "notAnObject"
    [] check = "missing_event_id" -> e.id = "missing"
    [] check = "blocked_subject_identifier" -> e.subjectKey = "blocked"
    [] check = "blocked_payload_identifier" -> e.key = "blocked"
    [] check = "unsupported_expansion_metadata_field" ->
         e.name \in Expansion /\ e.key \notin {"metadata", "hash"}
    [] check \in {"invalid_expansion_metadata_value", "raw_expansion_metadata_value",
                  "invalid_expansion_metadata_hash"} ->
         e.name \in Expansion /\ ValueVerdict(e.key, e.value) = check
    [] OTHER -> check = e.flaw

\* validate_event: the code of the first check that fails, or "accepted".
Verdict(e) ==
  LET failed == {i \in DOMAIN Checks : Fails(e, Checks[i])}
  IN  IF failed = {} THEN "accepted"
      ELSE Checks[CHOOSE i \in failed : \A j \in failed : i <= j]

\* safe_event_identity: whether the DLQ row gets the event id.
Identified(e) == e.form = "object" /\ e.id = "safe"
=============================================================================
