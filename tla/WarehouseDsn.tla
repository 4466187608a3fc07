----------------------------- MODULE WarehouseDsn -----------------------------
(***************************************************************************)
(* The DSN of the warehouse a capture program is pointed at, and how much  *)
(* of it the programs see when they look at its text with urlparse and for *)
(* markers. libpq, which connects, reads it otherwise: hostaddr before     *)
(* host, a host parameter before the authority, and the local socket when  *)
(* there is neither.                                                       *)
(***************************************************************************)

\* A host as the programs tell it apart: none at all; localhost and its like,
\* or a service of docker-compose.yml, in the spellings of LOCAL_HOST_VALUES; a
\* placeholder; any other, be it remote or this machine under another name
\* (127.0.0.2, a socket directory).
Hosts == {"none", "localhost", "postgres", "placeholder", "other"}

\* A URI or keywords (host=... sslmode=...). A URI may have a host in its
\* authority, in a parameter, in both or in neither.
Dsns ==
  {d \in [form : {"absent", "uri", "keyword"}, authority : Hosts, host : Hosts,
          hostaddr : {"none", "loopback", "other"},
          sslmode : {"none", "disable", "require", "verify-full"},
          secret : {"ok", "placeholder", "template", "local"}] :
     d.form = "uri" \/ d.authority = "none"}

\* The operator's word about the tunnel, compared with the DSN.
Tunnels ==
  [mode : {"none", "ssh", "owner"},
   ssh : {"absent", "ok"},
   remote : {"absent", "other", "same"},
   port : {"absent", "notNumeric", "other", "same"}]

\* parsed.hostname, and hostaddr of parse_qs(parsed.query): nothing of a DSN of
\* keywords, and nothing of a host parameter.
Hostname(d) == d.authority
Hostaddr(d) == IF d.form = "keyword" THEN "none" ELSE d.hostaddr
Secret(d) == IF d.form = "keyword" /\ d.secret # "local" THEN "ok" ELSE d.secret

\* LOCAL_DSN_MARKERS that both programs look for; "host=postgres" is there when
\* a parameter or a keyword says so.
Marked(d) ==
  \/ d.sslmode = "disable"
  \/ d.secret = "local"
  \/ d.host = "postgres"

RequiresTls(d) == d.sslmode \in {"require", "verify-full"}

\* REMOTE_HOST and LOCAL_PORT say what the authority says; urlparse has no host
\* or port for a DSN of keywords.
TunnelMatches(d, t) ==
  /\ t.remote = "same" /\ d.authority # "none"
  /\ t.port = "same"
=============================================================================
