--------------------------- MODULE MCEvidenceCapture ---------------------------
(***************************************************************************)
(* An environment in order with one or two things wrong in it, or one in   *)
(* order with a run of events that has an odd one first or last.           *)
(***************************************************************************)
EXTENDS EvidenceCapture, SequencesExt

AllChecks == {"dbt", "soda", "dagster", "scenario", "feedml", "clickhouse"}

GoodDsn == [form |-> "uri", authority |-> "other", host |-> "none", hostaddr |-> "none",
            sslmode |-> "verify-full", secret |-> "ok"]
NoTunnel == [mode |-> "none", ssh |-> "absent", remote |-> "absent", port |-> "absent"]
Tunnel(mode) == [mode |-> mode, ssh |-> "ok", remote |-> "same", port |-> "same"]

Good(program) ==
  [program |-> program, runs |-> 2, events |-> << >>, target |-> "ok", class |-> "staging-production-equivalent",
   lanes |-> IF program = "required" THEN {"admin", "reveal", "feedml"} ELSE {},
   approvals |-> "ok", user |-> "ok", subject |-> "ok", prefix |-> "ok", window |-> 60,
   privacy |-> "ok", dsn |-> GoodDsn, tunnel |-> NoTunnel, ack |-> FALSE, allow |-> TRUE,
   status |-> [c \in AllChecks |-> "passed"], artifact |-> [c \in AllChecks |-> "ok"],
   stop |-> "ok", share |-> "true", personalization |-> "true"]

Programs == {"required", "canary"}
Refs == {"absent", "malformed", "placeholder", "ok"}

\* One input out of order.
Deviations(p) ==
  LET g == Good(p) IN
  {[g EXCEPT !.target = v] : v \in Refs \cup {"local"}}
    \cup {[g EXCEPT !.class = v] : v \in {"absent", "production", "internal-qa"}}
    \cup {[g EXCEPT !.lanes = v] : v \in {{}, {"feedml"}, {"note", "clickhouse"}, {"other"}}}
    \cup {[g EXCEPT !.approvals = v] : v \in Refs}
    \cup {[g EXCEPT !.user = v] : v \in Refs}
    \cup {[g EXCEPT !.subject = v] : v \in {"absent", "placeholder"}}
    \cup {[g EXCEPT !.prefix = v] : v \in Refs \cup {"local", "short"}}
    \cup {[g EXCEPT !.window = v] : v \in {0, 59, 120, 121, 1800, 1801}}
    \cup {[g EXCEPT !.privacy = v] : v \in {"absent", "placeholder"}}
    \cup {[g EXCEPT !.allow = FALSE]}
    \cup {[g EXCEPT !.status["soda"] = v] : v \in {"absent", "unknown", "failed"}}
    \cup {[g EXCEPT !.status["scenario"] = v] : v \in {"absent", "failed"}}
    \cup {[g EXCEPT !.artifact["dbt"] = v] : v \in {"absent", "placeholder"}}
    \cup {[g EXCEPT !.artifact["feedml"] = v] : v \in {"absent", "placeholder"}}
    \cup {[g EXCEPT !.stop = v] : v \in {"absent", "placeholder"}}
    \cup {[g EXCEPT !.share = v] : v \in {"false", "absent"}}
    \cup {[g EXCEPT !.personalization = "false"]}

\* Ways to a warehouse: every host and hostaddr in every form, with the tunnels
\* that could make it right and with what could be wrong about those.
Routes ==
  {[Good("required") EXCEPT !.runs = 1, !.dsn = d, !.tunnel = t] :
     d \in {x \in Dsn!Dsns : x.secret = "ok" /\ x.form # "absent" /\ x.sslmode = "verify-full"},
     t \in {NoTunnel, Tunnel("ssh"), Tunnel("owner")}}
  \cup
  {[Good("required") EXCEPT !.runs = 1, !.dsn.hostaddr = h, !.dsn.sslmode = s, !.tunnel = t,
                            !.class = c, !.ack = a] :
     h \in {"none", "loopback"}, s \in {"disable", "require", "verify-full"},
     t \in {NoTunnel, Tunnel("ssh"), Tunnel("owner")},
     c \in {"production", "staging-production-equivalent", "internal-qa"},
     a \in BOOLEAN}
  \cup
  {[Good("required") EXCEPT !.runs = 1, !.dsn.hostaddr = "loopback", !.tunnel = t] :
     t \in {[Tunnel(m) EXCEPT !.ssh = "absent"] : m \in {"ssh", "owner"}}
             \cup {[Tunnel(m) EXCEPT !.remote = v] : m \in {"ssh", "owner"}, v \in {"absent", "other"}}
             \cup {[Tunnel(m) EXCEPT !.port = v] : m \in {"ssh", "owner"}, v \in {"absent", "notNumeric", "other"}}}
  \cup
  {[Good(p) EXCEPT !.runs = 1, !.dsn.secret = v] : p \in Programs, v \in {"placeholder", "template", "local"}}
  \cup
  {[Good("canary") EXCEPT !.runs = 1, !.dsn = d] :
     d \in {x \in Dsn!Dsns : x.secret = "ok" /\ x.sslmode \in {"none", "verify-full"}}}

-----------------------------------------------------------------------------
Event(name) ==
  [form |-> "object", id |-> "safe", name |-> name, flaw |-> "none", subjectKey |-> "metadata",
   key |-> "metadata", value |-> "token", prefix |-> TRUE, seeded |-> TRUE, ios |-> TRUE,
   copies |-> 1]

AdminRun == <<Event("admin_surface_viewed"), Event("admin_action_visibility_viewed")>>
CanaryRun == <<Event("app_session_started"), [Event("screen_viewed") EXCEPT !.copies = 2],
               [Event("feed_item_viewable_impression") EXCEPT !.copies = 5],
               Event("feed_item_open"), Event("feed_item_hide")>>

OddEvents(e) ==
  {[e EXCEPT !.form = v] : v \in Forms}
    \cup {[e EXCEPT !.id = v] : v \in Ids}
    \cup {[e EXCEPT !.flaw = v, !.id = w] : v \in {"invalid_subject"}, w \in {"safe", "unsafe"}}
    \cup {[e EXCEPT !.subjectKey = v] : v \in {"blocked", "bearer"}}
    \cup {[e EXCEPT !.key = k] : k \in {"unlisted", "blocked", "bearer"}}
    \cup {[e EXCEPT !.key = "blocked", !.prefix = FALSE], [e EXCEPT !.seeded = FALSE],
          [e EXCEPT !.ios = FALSE], [e EXCEPT !.name = "app_crashed"]}

OddValues(e) ==
  {[e EXCEPT !.key = k, !.value = v] : k \in {"metadata", "hash"}, v \in Values}

WithEvents(p, es) == [Good(p) EXCEPT !.events = es]

Reveal == Event("admin_reveal_audit_recorded")
Refused == [Reveal EXCEPT !.subjectKey = "blocked"]

\* One event is enough for the reveal lane; the odd one is a second or alone.
\* Two rejected ones tell the last transaction from later ones.
RevealRuns ==
  LET reveal(es, n) == [WithEvents("required", es) EXCEPT !.lanes = {"reveal"}, !.runs = n]
  IN  {reveal(<<Reveal, e>>, 1) : e \in OddEvents(Reveal)}
        \cup {reveal(<<e>>, 1) : e \in OddValues(Reveal)}
        \cup {reveal(<<e>>, 2) : e \in OddEvents(Reveal)}
        \cup {reveal(<<Refused, Refused>>, 2)}

\* Both events of the admin lane, one of them, or both with a key that the
\* worker does not look at.
AdminRuns ==
  {[WithEvents("required", es) EXCEPT !.lanes = {"admin"}] :
     es \in {AdminRun, Tail(AdminRun), <<[AdminRun[1] EXCEPT !.key = "hash"], AdminRun[2]>>}}

\* One run of the program on a canary that has all it needs, and on one with a
\* forbidden key; and single events.
CanaryRuns ==
  {[WithEvents("canary", ReplaceAt(CanaryRun, 3, e)) EXCEPT !.runs = 1] :
     e \in {CanaryRun[3], [CanaryRun[3] EXCEPT !.key = "bearer"]}}
    \cup {WithEvents("canary", <<e>>) : e \in OddEvents(Event("feed_item_hide"))}

MCInputs == UNION {Deviations(p) : p \in Programs} \cup Routes
              \cup RevealRuns \cup AdminRuns \cup CanaryRuns
=============================================================================
