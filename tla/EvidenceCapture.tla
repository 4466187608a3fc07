---------------------------- MODULE EvidenceCapture ----------------------------
(***************************************************************************)
(* The two capture programs (required_analytics_capture.py and             *)
(* ios_limited_canary_capture.py), which decide from the warehouse whether *)
(* a run of seeded events went well, with what they look at: the events    *)
(* that occur, the ingest worker that stores or rejects them, and time.    *)
(* Both programs have one control flow: check the inputs, read the landing *)
(* rows, count the DLQ rows, judge, write the evidence files. They may be  *)
(* started at any time and stopped between any two steps.                  *)
(***************************************************************************)
EXTENDS EventValidation, FiniteSets

Required == INSTANCE RequiredAnalytics
Canary == INSTANCE IosCanary
Dsn == INSTANCE WarehouseDsn

CONSTANTS
  Inputs,     \* what a program is started with: its environment, the events there
              \* are, and a bound on how often it is started
  MaxFaults,  \* bound: failures of the warehouse and kills
  None

\* The ways to the warehouse are those of WarehouseDsn, an event comes at least
\* once, and the bounds are numbers.
ASSUME InputsTyped ==
  \A in \in Inputs :
    /\ in.dsn \in Dsn!Dsns /\ in.tunnel \in Dsn!Tunnels
    /\ in.runs \in Nat /\ Len(in.events) \in Nat
    /\ \A i \in 1..Len(in.events) : in.events[i].copies \in 1..5
ASSUME FaultsBounded == MaxFaults \in Nat

\* Times that the programs tell apart: before the window, in it, in the five
\* minutes after its end, later.
Before == 0
Window == 1
Grace == 2
Late == 3

\* The exit of a program that did not come to its end.
Killed == -9

VARIABLES
  input,     \* the environment of all runs, with the events there will be
  clock,
  occurred,  \* when each event so far occurred, in the order of the topic
  handled,   \* when the worker began the transaction of each of them, as far as
             \* it has come; created_at of a DLQ row is now(), which is that time
  stored,    \* how many of these transactions are committed: all but the last
  pc,        \* program: where main() is
  rows,      \* program: the landing rows it read
  evidence,  \* program: the evidence it composed
  json,      \* the file of --evidence-json; None: no file, or not all of it
  markdown,  \* the file of --evidence-md
  exit,      \* the exit code of the last run
  runs,      \* bound: runs started
  faults     \* bound: failures so far

outside == <<input, clock, occurred, handled, stored>>
process == <<pc, rows, evidence>>
files == <<json, markdown>>
vars == <<outside, process, files, exit, runs, faults>>

-----------------------------------------------------------------------------
Events == input.events
IsRequired == input.program = "required"

AccessErrors ==
  IF IsRequired THEN Required!AccessErrors(input) ELSE Canary!AccessErrors(input)
CaptureErrors ==
  IF IsRequired THEN Required!CaptureErrors(input) ELSE Canary!CaptureErrors(input)
Warnings == IF IsRequired THEN Required!Warnings(input) ELSE Canary!Warnings(input)
InScope(e) == IF IsRequired THEN Required!InScope(input, e) ELSE Canary!InScope(input, e)
FieldHit(e) == IF IsRequired THEN Required!FieldHit(e) ELSE Canary!FieldHit(e)
Minimum == IF IsRequired THEN Required!Minimum(input) ELSE Canary!Minimum(input)
Classification ==
  IF IsRequired THEN Required!Classification(input) ELSE Canary!Classification(input)

Classifications ==
  {"blocked-access-gate", "preflight-ready", "blocked-warehouse-check",
   "required-analytics-internal-qa-capture", "required-analytics-external-capture",
   "production-limited-canary-capture"}

\* What a preflight may warn of.
Missable == {"dbt", "soda", "dagster", "scenario", "feedml", "clickhouse", "stop"}

\* Evidence as its fields tell it, whatever they say.
AnyEvidence ==
  [classification : Classifications, result : {None, "passed", "failed"}, warnings : SUBSET Missable,
   landing : SUBSET (Nat \X Nat), dlq : Nat, stored : Nat, at : Before..Late]

ASSUME NoneIsNothingElse ==
  None \notin AnyEvidence /\ None \notin {"passed", "failed"} /\ None \notin {Killed, 0, 2, 3}

\* Events that are alike and come together are one element with a number of
\* copies; a row is a copy.
RowsOf(S) == {row \in S \X (1..5) : row[2] <= Events[row[1]].copies}
EventOf(row) == Events[row[1]]

\* raw_event_landing and raw_event_dlq after the commits of the first n events.
LandedOf(n) == RowsOf({i \in 1..n : Verdict(Events[i]) = "accepted"})
DlqOf(n) == RowsOf({i \in 1..n : Verdict(Events[i]) # "accepted"})

\* The landing query. Without an expected event name it is not sent.
Selected(n) == {row \in LandedOf(n) : InScope(EventOf(row)) /\ occurred[row[1]] = Window}

\* Mutant of Counted: the worker is given no time after the window.
CountedNoGrace(n) ==
  {row \in DlqOf(n) : Identified(EventOf(row)) /\ EventOf(row).prefix
                        /\ handled[row[1]] = Window}

\* Mutant of Counted: up to now.
CountedUpToNow(n) ==
  {row \in DlqOf(n) : Identified(EventOf(row)) /\ EventOf(row).prefix
                        /\ handled[row[1]] \in {Window, Grace, Late}}

\* The DLQ query: rows with an event id of the run, by the time they were made.
Counted(n) ==
  {row \in DlqOf(n) : Identified(EventOf(row)) /\ EventOf(row).prefix
                        /\ handled[row[1]] \in {Window, Grace}}

SuccessCriteria(read, dlqCount) ==
  LET seen == [g \in DOMAIN Minimum |-> Cardinality({r \in read : EventOf(r).name \in g})]
      names == {EventOf(r).name : r \in read}
      hits == {r \in read : FieldHit(EventOf(r))}
  IN  IF IsRequired
      THEN Required!SuccessCriteria(input, seen, names, dlqCount, hits)
      ELSE Canary!SuccessCriteria(input, seen, names, dlqCount, hits)

\* The part of the evidence that the properties are about. The last three
\* fields are not in the files: what the numbers were taken from, and when.
Evidence(class, result, warnings, landingRows, dlqCount, upTo, at) ==
  [classification |-> class, result |-> result, warnings |-> warnings,
   landing |-> landingRows, dlq |-> dlqCount, stored |-> upTo, at |-> at]

-----------------------------------------------------------------------------
Init ==
  /\ input \in Inputs
  /\ clock = Before
  /\ occurred = << >>
  /\ handled = << >>
  /\ stored = 0
  /\ pc = "idle"
  /\ rows = {}
  /\ evidence = None
  /\ json = None
  /\ markdown = None
  /\ exit = None
  /\ runs = 0
  /\ faults = 0

Fault == faults < MaxFaults /\ faults' = faults + 1

Tick ==
  /\ clock < Late
  /\ clock' = clock + 1
  /\ UNCHANGED <<input, occurred, handled, stored, process, files, exit, runs, faults>>

\* The seeded client causes its next event.
Occur ==
  /\ Len(occurred) < Len(Events)
  /\ occurred' = Append(occurred, clock)
  /\ UNCHANGED <<input, clock, handled, stored, process, files, exit, runs, faults>>

\* The ingest worker takes up the next record: the first statement of its
\* transaction. Nobody sees the row yet.
Begin ==
  /\ Len(handled) = stored /\ stored < Len(occurred)
  /\ handled' = Append(handled, clock)
  /\ UNCHANGED <<input, clock, occurred, stored, process, files, exit, runs, faults>>

\* The end of the transaction, which may have waited for the rows of the
\* checkpoint and the metrics: the record is landed or rejected for all to see.
Commit ==
  /\ stored < Len(handled)
  /\ stored' = stored + 1
  /\ UNCHANGED <<input, clock, occurred, handled, process, files, exit, runs, faults>>

\* The transaction fails; when the worker is started again the record gets
\* another one.
Rollback ==
  /\ stored < Len(handled)
  /\ handled' = SubSeq(handled, 1, stored)
  /\ UNCHANGED <<input, clock, occurred, stored, process, files, exit, runs, faults>>

\* collect_evidence up to the warehouse. An argument chooses the mode.
Start(mode) ==
  /\ pc = "idle" /\ runs < input.runs
  /\ runs' = runs + 1
  /\ LET errors == AccessErrors \cup (IF mode = "capture" THEN CaptureErrors ELSE {})
         warnings == IF mode = "preflight" THEN Warnings ELSE {}
         class == IF errors # {} THEN "blocked-access-gate" ELSE "preflight-ready"
     IN  IF errors # {} \/ mode = "preflight"
         THEN /\ evidence' = Evidence(class, None, warnings, {}, 0, 0, Before)
              /\ pc' = "json"
         ELSE /\ pc' = "landing"
              /\ UNCHANGED evidence
  /\ UNCHANGED <<outside, rows, files, exit, faults>>

\* The first query of read_required_rows or read_canary_rows.
ReadLanding ==
  /\ pc = "landing"
  /\ rows' = Selected(stored)
  /\ pc' = "dlq"
  /\ UNCHANGED <<outside, evidence, files, exit, runs, faults>>

\* The second query, which sees what was committed since the first, and the
\* judgement.
CountDlq ==
  /\ pc = "dlq"
  /\ LET dlqCount == Cardinality(Counted(stored))
         criteria == SuccessCriteria(rows, dlqCount)
         passed == \A c \in DOMAIN criteria : criteria[c]
     IN  evidence' = Evidence(Classification, IF passed THEN "passed" ELSE "failed", {},
                              rows, dlqCount, stored, clock)
  /\ pc' = "json"
  /\ rows' = {}
  /\ UNCHANGED <<outside, files, exit, runs, faults>>

\* The connection or one of the queries fails, and both are given up.
WarehouseError ==
  /\ pc \in {"landing", "dlq"}
  /\ Fault
  /\ evidence' = Evidence("blocked-warehouse-check", None, {}, {}, 0, 0, Before)
  /\ pc' = "json"
  /\ rows' = {}
  /\ UNCHANGED <<outside, files, exit, runs>>

ExitCode(e) ==
  CASE e.classification \in {"blocked-access-gate", "blocked-warehouse-check"} -> 2
    [] e.result = "failed" -> 3
    [] OTHER -> 0

Finish ==
  /\ pc' = "idle"
  /\ exit' = ExitCode(evidence)
  /\ evidence' = None

\* Mutant of WriteJson: evidence of a run that was blocked is not worth a file.
WriteJsonUnblocked ==
  /\ pc = "json"
  /\ json' = IF ExitCode(evidence) = 2 THEN json ELSE evidence
  /\ IF IsRequired
     THEN pc' = "markdown" /\ UNCHANGED <<evidence, exit>>
     ELSE Finish
  /\ UNCHANGED <<outside, rows, markdown, runs, faults>>

\* main() writes what it has, whatever came of it.
WriteJson ==
  /\ pc = "json"
  /\ json' = evidence
  /\ IF IsRequired
     THEN pc' = "markdown" /\ UNCHANGED <<evidence, exit>>
     ELSE Finish
  /\ UNCHANGED <<outside, rows, markdown, runs, faults>>

WriteMarkdown ==
  /\ pc = "markdown"
  /\ markdown' = evidence
  /\ Finish
  /\ UNCHANGED <<outside, rows, json, runs, faults>>

\* The program is killed, or leaves main() by an exception (urlparse refuses a
\* DSN, a file cannot be written). write_text empties a file before it fills it.
Kill ==
  /\ pc # "idle"
  /\ Fault
  /\ \/ UNCHANGED files
     \/ pc = "json" /\ json' = None /\ UNCHANGED markdown
     \/ pc = "markdown" /\ markdown' = None /\ UNCHANGED json
  /\ pc' = "idle"
  /\ rows' = {}
  /\ evidence' = None
  /\ exit' = Killed
  /\ UNCHANGED <<outside, runs>>

Capture ==
  \/ \E mode \in {"preflight", "capture"} : Start(mode)
  \/ ReadLanding \/ CountDlq \/ WriteJson \/ WriteMarkdown

Next ==
  \/ Tick \/ Occur \/ Begin \/ Commit \/ Rollback
  \/ Capture \/ WarehouseError \/ Kill

Spec == Init /\ [][Next]_vars

-----------------------------------------------------------------------------
Judged(e) == e # None /\ e.result # None
Passed(e) == e # None /\ e.result = "passed"

\* Type invariant; the events are handled in the order they occurred in, none
\* before it occurred, and an idle program has nothing in hand.
TypeOK ==
  /\ clock \in Before..Late
  /\ occurred \in Seq(Before..Late) /\ handled \in Seq(Before..Late)
  /\ stored \in Nat /\ Len(handled) \in {stored, stored + 1}
  /\ Len(handled) <= Len(occurred) /\ Len(occurred) <= Len(Events)
  /\ \A i \in DOMAIN handled : occurred[i] <= handled[i] /\ handled[i] <= clock
  /\ pc \in {"idle", "landing", "dlq", "json", "markdown"}
  /\ (pc \in {"json", "markdown"}) = (evidence # None)
  /\ pc # "dlq" => rows = {}
  /\ rows \subseteq Selected(stored)
  /\ \A e \in {evidence, json, markdown} \ {None} :
       /\ e.classification \in Classifications
       /\ e.result \in {None, "passed", "failed"}
       /\ e.stored <= stored
       /\ e.landing \subseteq Selected(e.stored)
  /\ exit \in {None, 0, 2, 3, Killed}
  /\ runs \in 0..input.runs /\ faults \in 0..MaxFaults

\* Evidence that says passed accounts for the events of the run (their id has
\* the prefix of the run): of those the worker had stored when the DLQ was
\* counted, none was rejected with a usable id in a transaction of the window or
\* of the five minutes after it; none that was read is objectionable; and there
\* are as many of each kind as are asked for, in the warehouse still.
PassedAccounts ==
  \A e \in {json, markdown} :
    Passed(e) =>
      /\ \A i \in 1..e.stored :
           (/\ Identified(Events[i]) /\ Events[i].prefix
            /\ Window <= handled[i] /\ handled[i] <= Grace)
             => Verdict(Events[i]) = "accepted"
      /\ \A r \in e.landing : ~FieldHit(EventOf(r)) /\ r \in Selected(stored)
      /\ \A g \in DOMAIN Minimum :
           Cardinality({r \in e.landing : EventOf(r).name \in g}) >= Minimum[g]

\* A run that counts after the grace period and once more finds the landing rows
\* the earlier run has found, and the same DLQ rows, but for one event: the one
\* whose transaction began in time and was still open at the first count. Other
\* late rejections and landings cannot turn dlq_zero or the counts around.
LateCountsStand ==
  [][ (Judged(json) /\ Judged(json') /\ json.at = Late)
        => /\ json.landing \subseteq json'.landing
           /\ LET i == json.stored + 1
              IN  \/ json'.dlq = json.dlq
                  \/ /\ i <= json'.stored /\ handled[i] \in {Window, Grace}
                     /\ json'.dlq = json.dlq + Events[i].copies ]_json

\* The files of a run that was not killed agree with each other and with its
\* exit code, whatever an earlier run has left: nothing says "passed" after a
\* run that was blocked or that failed.
FilesAreOfLastRun ==
  (pc = "idle" /\ exit \notin {None, Killed}) =>
    /\ json # None /\ exit = (IF Passed(json) \/ json.classification = "preflight-ready"
                              THEN 0 ELSE IF Judged(json) THEN 3 ELSE 2)
    /\ IsRequired => markdown = json

\* The preflight of required analytics warns of what a capture with the same
\* environment would miss: after one without warnings a capture is blocked only
\* by a value that is there, or by the switch that allows captures.
PreflightWarns ==
  [][ (/\ IsRequired /\ json # None /\ json.classification = "preflight-ready"
       /\ json.warnings = {}
       /\ json' # None /\ json'.classification = "blocked-access-gate")
        => \/ ~input.allow
           \/ input.stop = "placeholder"
           \/ \E c \in Required!NeededChecks(input) :
                input.status[c] \notin {"absent", "passed"} \/ input.artifact[c] = "placeholder" ]_json

\* What the required analytics capture finds in rows of the two names the
\* worker checks field by field is in one of the four places where their rules
\* differ: an empty hash, letters or digits outside ASCII, and the key
\* "bearer" in the subject.
WorkerAndCaptureAgree ==
  \A r \in LandedOf(stored) :
    LET e == EventOf(r)
    IN  (e.name \in Expansion /\ Required!FieldHit(e)) =>
          \/ e.key = "hash" /\ e.value \in {"empty", "hashWord"}
          \/ e.key = "metadata" /\ e.value = "word"
          \/ e.subjectKey = "bearer"
=============================================================================
