--------------------------- MODULE MCPrivacyRequests ---------------------------
(* A model of PrivacyRequests for TLC. *)
EXTENDS PrivacyRequests, SequencesExt

Binding ==
  [schema |-> "v1", target |-> "local", class |-> "local-source-bound", start |-> 0, end |-> 30,
   canonical |-> "PostgreSQL", backbone |-> "Redpanda/Kafka API", enabled |-> {},
   systems |-> {"safe"}, owners |-> [o \in Owners |-> "safe"]]

\* Expired on the last day of the window, published.
Record ==
  [ref |-> "a", state |-> "PSEUDONYMOUS", occurred |-> 10, retention |-> 20,
   action |-> "anonymize_or_delete", cells |-> 10, identifierFree |-> TRUE, rare |-> FALSE,
   flaw |-> "none", request |-> "none"]
Small == [Record EXCEPT !.ref = "b", !.cells = 9]
Request(type) == [Record EXCEPT !.ref = "c", !.retention = 40, !.request = type]

Base == <<Record, Small>> \o SetToSeq({Request(type) : type \in RequestTypes})

\* Any further record: with a reference of its own or of another record.
Further ==
  [ref : {"a", "b", "d"}, state : {"IDENTIFIABLE", "ANONYMOUS"}, occurred : {9, 10, 11},
   retention : {20}, action : {"anonymize_or_delete", "delete"}, cells : {9, 10, 19, 20},
   identifierFree : BOOLEAN, rare : BOOLEAN, flaw : {"none"},
   request : {"none", "account_deletion"}]

Flawed ==
  {[Record EXCEPT !.flaw = "notABoundedToken"], [Record EXCEPT !.state = "OTHER"],
   [Record EXCEPT !.retention = 0], [Record EXCEPT !.action = "archive"],
   [Record EXCEPT !.cells = -1], [Record EXCEPT !.request = "kvkk_deletion_request"]}

Packet(records) == [binding |-> Binding, forbidden |-> FALSE, records |-> records]
Good == Packet(Base)
Other == Packet(Append(Base, [Small EXCEPT !.ref = "d"]))

FlawedBindings ==
  {[Binding EXCEPT !.schema = "v0"], [Binding EXCEPT !.target = "production"],
   [Binding EXCEPT !.class = "production"], [Binding EXCEPT !.start = 30],
   [Binding EXCEPT !.canonical = "ClickHouse"], [Binding EXCEPT !.backbone = "other"],
   [Binding EXCEPT !.enabled = {"clickhouseCanonical"}], [Binding EXCEPT !.systems = {}],
   [Binding EXCEPT !.systems = {"safe", "emsi_qa"}], [Binding EXCEPT !.owners["legal"] = "unsafe"],
   [Binding EXCEPT !.owners = [o \in {"privacy", "legal"} |-> "safe"]]}

Packets ==
  {Packet(Append(Base, r)) : r \in Further \cup Flawed}
    \cup {Packet(RemoveAt(Base, i)) : i \in DOMAIN Base} \cup {Packet(<< >>)}
    \cup {[Good EXCEPT !.binding = b] : b \in FlawedBindings}
    \cup {[Good EXCEPT !.forbidden = TRUE]}

Line(kind, type, id, request) == [kind |-> kind, type |-> type, id |-> id, request |-> request]
Deletion == Line("request", "account_deletion", <<"id", 7>>, 1)
Anonymous == Line("request", "account_deletion", None, 2)
Second == Line("request", "account_deletion", None, 3)
\* Its id is "line-2".
Named == Line("request", "account_deletion", <<"line", 2>>, 5)
Noise(kind) == Line(kind, None, None, None)
Lines ==
  {Deletion, Anonymous, Second, Named, Line("request", "kvkk_deletion_request", <<"id", 7>>, 4),
   Line("request", "other", <<"id", 7>>, None)}
    \cup {Noise(kind) : kind \in {"blank", "malformed", "poison"}}

\* A line without an id is another request each time it is written.
Inboxes ==
  {q \in [1..2 -> Lines] : q[1] = q[2] => q[1].id # None} \cup
  {<<Deletion, Noise("malformed"), Second>>, <<Anonymous, Second, Deletion>>,
   <<Deletion, Anonymous, Second>>, <<Noise("blank"), Anonymous, Deletion>>,
   <<Deletion, Anonymous, Named>>}

MCScripts ==
  {[packet |-> p, packets |-> << >>, lines |-> << >>, schedules |-> 1] : p \in Packets}
    \cup {[packet |-> Good, packets |-> << >>, lines |-> q, schedules |-> 0] : q \in Inboxes}
    \cup {[packet |-> Good, packets |-> q, lines |-> <<Deletion>>, schedules |-> 1] :
            q \in {<<Other>>, <<Packet(<< >>), Other>>}}
=============================================================================
