---------------------------- MODULE PrivacyRequests ----------------------------
(***************************************************************************)
(* The privacy jobs of Dagster: the sensor that reads the request inbox, a *)
(* file of JSON lines, from its first line on every tick; the schedules;   *)
(* and the runs they start, whose assets read the source packet one by one *)
(* while its owners may replace it. Inbox and packet are files that others *)
(* write, and that are read while they are written.                        *)
(***************************************************************************)
EXTENDS PrivacyLifecycle

CONSTANTS
  Scripts,   \* what the outside does: lines, packets, runs by schedule
  MaxEdits,  \* bound: lines removed from the inbox
  None,
  Error      \* an asset that raised an exception

\* PRIVACY_REQUEST_SENSOR_TYPES
SensorTypes == RequestTypes \cup {"kvkk_deletion_request"}

\* The assets that build the report, by the jobs that select their groups.
Assets(job) ==
  IF job = "privacy_lifecycle_daily_job"
  THEN {"decisions", "outcomes", "report"} ELSE {"outcomes", "report"}
Jobs == {"privacy_lifecycle_daily_job", "privacy_contract_guard_job"}

\* All that may be written: lines, the requests they make, by number, packets.
AllLines == UNION {{s.lines[i] : i \in DOMAIN s.lines} : s \in Scripts}
Requests == {l.request : l \in AllLines} \ {None}
AllPackets == UNION {{s.packet} \cup {s.packets[i] : i \in DOMAIN s.packets} : s \in Scripts}

\* The ids by the text they give: <<"line", n>> is "line-n", <<"id", n>> any other.
Ids == {"line", "id"} \X Nat

\* All keys there may be.
AllKeys == SensorTypes \X Ids

\* A line that the sensor supports makes a request, which has one type and one
\* id; one without an id is another request each time it is written.
ASSUME LinesTyped ==
  /\ \A s \in Scripts : /\ s.lines \in Seq(AllLines)
                        /\ \A i, j \in DOMAIN s.lines :
                             (/\ i # j /\ s.lines[i].request # None
                              /\ s.lines[i].request = s.lines[j].request) => s.lines[i].id # None
  /\ \A l \in AllLines : /\ DOMAIN l = {"kind", "type", "id", "request"}
                         /\ l.kind \in {"blank", "malformed", "poison", "request"}
                         /\ l.id \in Ids \cup {None}
                         /\ l.kind = "request" /\ l.type \in SensorTypes => l.request # None
                         /\ \A k \in AllLines : (k.request # None /\ k.request = l.request)
                                                  => k.type = l.type /\ k.id = l.id

\* Cells are integers, as integer_value sees to, and a packet is finite.
ASSUME PacketsTyped ==
  /\ \A s \in Scripts : /\ DOMAIN s = {"packet", "packets", "lines", "schedules"}
                        /\ s.packets \in Seq(AllPackets)
  /\ \A p \in AllPackets : /\ p \notin {None, Error} /\ IsFiniteSet(DOMAIN p.records)
                           /\ \A i \in DOMAIN p.records : p.records[i].cells \in Int

ASSUME NoneIsNoKey == None \notin AllKeys \cup Ids
ASSUME EditsBounded == MaxEdits \in Nat

VARIABLES
  script,     \* what is to come from outside
  inbox,      \* the lines of the inbox file
  packet,     \* the content of the packet file, None while it is written
  replaced,   \* how often the packet file was begun to be written
  runs,       \* Dagster: all runs in the order they were started
  edits       \* how many lines were removed

files == <<script, inbox, packet, replaced>>
vars == <<files, runs, edits>>

-----------------------------------------------------------------------------
Init ==
  /\ script \in Scripts
  /\ inbox = << >>
  /\ packet = script.packet
  /\ replaced = 0
  /\ runs = << >>
  /\ edits = 0

\* A line that is being written: no JSON yet, or ended within a character.
Begun == {"partial", "torn"}

Writing == inbox # << >> /\ inbox[Len(inbox)].kind \in Begun

\* An application begins to append a line, and ends it.
BeginLine ==
  /\ script.lines # << >>
  /\ ~Writing
  /\ \E kind \in Begun : inbox' = Append(inbox, [script.lines[1] EXCEPT !.kind = kind])
  /\ UNCHANGED <<script, packet, replaced, runs, edits>>

EndLine ==
  /\ Writing
  /\ inbox' = [inbox EXCEPT ![Len(inbox)] = script.lines[1]]
  /\ script' = [script EXCEPT !.lines = Tail(@)]
  /\ UNCHANGED <<packet, replaced, runs, edits>>

\* Someone removes the first line.
RemoveLine ==
  /\ edits < MaxEdits /\ edits' = edits + 1
  /\ inbox # << >> /\ inbox[1].kind \notin Begun
  /\ inbox' = Tail(inbox)
  /\ UNCHANGED <<script, packet, replaced, runs>>

\* The owners write the packet file anew.
BeginPacket ==
  /\ packet # None /\ script.packets # << >>
  /\ packet' = None
  /\ replaced' = replaced + 1
  /\ UNCHANGED <<script, inbox, runs, edits>>

EndPacket ==
  /\ packet = None
  /\ packet' = script.packets[1]
  /\ script' = [script EXCEPT !.packets = Tail(@)]
  /\ UNCHANGED <<inbox, replaced, runs, edits>>

-----------------------------------------------------------------------------
\* A run that has begun. "request" is not known to Dagster: the request whose
\* line made the sensor ask for it.
Run(job, key, request) ==
  [job |-> job, key |-> key, request |-> request, since |-> replaced, until |-> None,
   read |-> [a \in Assets(job) |-> None]]

\* Mutant of RunKey: the line number is enough.
RunKeyByLine(i) == <<inbox[i].type, <<"line", i>>>>

\* The run key of a line. An id "line-n" gives the key of line n without an id.
RunKey(i) == <<inbox[i].type, IF inbox[i].id = None THEN <<"line", i>> ELSE inbox[i].id>>

\* Lines that are blank, malformed, half written or of another type are passed
\* over.
Supported(i) == inbox[i].kind = "request" /\ inbox[i].type \in SensorTypes

\* Ends the tick with an exception, and Dagster starts no run for it: JSON that
\* is no object, or that json.loads cannot take (nested too deep, an integer too
\* long), and bytes that are not UTF-8, as those of half a character at the end.
Poisoned == \E i \in DOMAIN inbox : inbox[i].kind \in {"poison", "torn"}

Keys == {runs[r].key : r \in DOMAIN runs}

\* Dagster starts a run for each key it has not seen with this sensor.
Fresh == {i \in DOMAIN inbox : /\ Supported(i) /\ RunKey(i) \notin Keys
                               /\ \A j \in 1..i - 1 : Supported(j) => RunKey(j) # RunKey(i)}

\* The runs a tick asks for, in the order of the lines.
Ascending ==
  {order \in [1..Cardinality(Fresh) -> Fresh] :
     \A m, n \in DOMAIN order : m < n => order[m] < order[n]}
Asked(order) ==
  [n \in DOMAIN order |->
     Run("privacy_lifecycle_daily_job", RunKey(order[n]), inbox[order[n]].request)]

\* Mutant of Tick: a line that cannot be parsed ends the tick, too.
TickUntilMalformed ==
  /\ ~Poisoned /\ Fresh # {}
  /\ \A i \in DOMAIN inbox : inbox[i].kind # "malformed"
  /\ \E order \in Ascending : runs' = runs \o Asked(order)
  /\ UNCHANGED <<files, edits>>

\* A tick of the sensor that starts runs.
Tick ==
  /\ ~Poisoned /\ Fresh # {}
  /\ \E order \in Ascending : runs' = runs \o Asked(order)
  /\ UNCHANGED <<files, edits>>

\* A schedule starts a run, which has no key.
Schedule(job) ==
  /\ script.schedules > 0
  /\ script' = [script EXCEPT !.schedules = @ - 1]
  /\ runs' = Append(runs, Run(job, None, None))
  /\ UNCHANGED <<inbox, packet, replaced, edits>>

\* Mutant of PacketOf: the setting of the packet's path is overlooked in one of
\* the three places.
PacketOfDefault(a) == IF a = "decisions" /\ packet # None THEN script.packet ELSE packet

\* Each asset takes the path from the environment, and parses the file anew.
PacketOf(a) == packet

\* A step of a run: an asset builds the report and tells of it, or fails; in
\* any order, as no asset depends on another one.
Materialize(r, a) ==
  /\ a \in DOMAIN runs[r].read /\ runs[r].read[a] = None
  /\ runs' = [runs EXCEPT
       ![r].read[a] = IF PacketOf(a) # None /\ Reports(PacketOf(a)) THEN PacketOf(a) ELSE Error,
       ![r].until = replaced]
  /\ UNCHANGED <<files, edits>>

Step == \E r \in DOMAIN runs : \E a \in DOMAIN runs[r].read : Materialize(r, a)

Next ==
  \/ BeginLine \/ EndLine \/ RemoveLine
  \/ BeginPacket \/ EndPacket
  \/ Tick \/ \E job \in Jobs : Schedule(job)
  \/ Step

Spec == Init /\ [][Next]_vars

\* A writer ends the line it began; the daemon ticks every five minutes once the
\* sensor is turned on (the code leaves it off).
FairSpec == Spec /\ WF_vars(EndLine) /\ WF_vars(Tick)

-----------------------------------------------------------------------------
Untold == {Error, None}

\* The packets whose reports were told of.
Told == (UNION {{runs[r].read[a] : a \in DOMAIN runs[r].read} : r \in DOMAIN runs}) \ Untold

\* Type invariant; a key is given to one run only (those of the schedules have
\* none).
TypeOK ==
  /\ packet = None => script.packets # << >>
  /\ \A i \in DOMAIN inbox :
       inbox[i].kind \in Begun \cup {"blank", "malformed", "poison", "request"}
  /\ \A r \in DOMAIN runs :
       /\ runs[r].job \in Jobs
       /\ DOMAIN runs[r].read = Assets(runs[r].job)
       /\ \A s \in DOMAIN runs : (runs[r].key = runs[s].key /\ runs[r].request # None) => r = s
  /\ \A p \in Told : ValidPacket(p)
  /\ replaced \in Nat /\ edits \in 0..MaxEdits

\* A request whose lines have no id.
WithoutId(n) == \A l \in AllLines : l.request = n => l.id = None

\* A request is not acted on twice: its line, read again on every tick, and a
\* line that repeats it give its key. Only one without an id, in an inbox that
\* lost a line above it, has a second key.
OneRunPerRequest ==
  \A r, s \in DOMAIN runs :
    (runs[r].request # None /\ runs[r].request = runs[s].request /\ r # s)
      => WithoutId(runs[r].request) /\ edits > 0

\* The run that was given the key of line i for another request.
TakenBy(i, r) ==
  /\ runs[r].key = RunKey(i) /\ RunKey(i)[2][1] = "line"
  /\ edits > 0 \/ inbox[i].id # None \/ ~WithoutId(runs[r].request)

\* Every request in the inbox gets a run of its own in the end: unless its line
\* is removed first, a line that cannot be read stops every tick, or its key
\* was given to another request, one without an id that stood in its place
\* before lines were removed, or one of the two with "line-n" as its id.
RequestsServed ==
  \A n \in Requests :
    (\E i \in DOMAIN inbox : Supported(i) /\ inbox[i].request = n)
      ~> \/ \E r \in DOMAIN runs : runs[r].request = n
         \/ \A i \in DOMAIN inbox : inbox[i].request # n
         \/ \E i \in DOMAIN inbox : inbox[i].kind = "poison"
         \/ \E i \in DOMAIN inbox, r \in DOMAIN runs : inbox[i].request = n /\ TakenBy(i, r)

\* What a report publishes has passed the checks: of a record that is published
\* every expired copy in the packet is free of identifiers and in a cell of at
\* least 10, or of 20 if it is rare. (Records are published by reference.)
PublishedIsAnonymous ==
  \A p \in Told : \A i \in DOMAIN p.records :
    (/\ p.records[i].ref \in Published(p)
     /\ p.records[i].action = "anonymize_or_delete"
     /\ p.records[i].occurred + p.records[i].retention <= p.binding.end)
      => /\ p.records[i].identifierFree
         /\ p.records[i].cells >= IF p.records[i].rare THEN 20 ELSE 10

\* A report purges what has to go, whether or not it could be made anonymous,
\* and nothing else: records with a request, and personal ones whose retention
\* is over, up to the day. It does not purge an expired record whose action is
\* "delete", and does purge an unexpired one that shares its reference with
\* one that is due. Each purge has its receipt.
PurgeIsDue ==
  \A p \in Told :
    LET Due(i) == \/ p.records[i].request # "none"
                  \/ /\ p.records[i].state # "ANONYMOUS"
                     /\ p.records[i].action # "delete"
                     /\ p.records[i].occurred + p.records[i].retention <= p.binding.end
    IN  /\ Purged(p) = {p.records[i].ref : i \in {j \in DOMAIN p.records : Due(j)}}
        /\ \A ref \in Purged(p) : <<"personal_or_pseudonymous_state_purged", ref>> \in Receipts(p)

\* The assets of a run tell of one report: the decisions add up to the
\* candidates and what was decided to be anonymous is what was published,
\* unless the packet was replaced between the run's first and last step.
AssetsAgree ==
  \A r \in DOMAIN runs :
    LET read == runs[r].read
    IN  (/\ "decisions" \in DOMAIN read
         /\ \A a \in DOMAIN read : read[a] \notin Untold
         /\ runs[r].since = runs[r].until)
          => /\ Decisions(read["decisions"]).anonymize = Outcomes(read["outcomes"]).published
             /\ Decisions(read["decisions"]).anonymize + Decisions(read["decisions"]).delete
                  = Summary(read["report"]).candidates
=============================================================================
