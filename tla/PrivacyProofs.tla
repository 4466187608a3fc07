----------------------------- MODULE PrivacyProofs -----------------------------
(***************************************************************************)
(* What a report says of its packet follows from the checks of the packet  *)
(* and of the report (ReportedIsAnonymous, ReportedPurgeIsDue). What the   *)
(* assets of a run tell agrees because a run that saw no replacement read  *)
(* one packet. And a request has one run because its key is of its line:   *)
(* of its id, or of its place, which is its own while no line is removed.  *)
(***************************************************************************)
EXTENDS PrivacyRequests, FiniteSetTheorems, TLAPS

-----------------------------------------------------------------------------
\* One packet.
LEMMA ReportedIsAnonymous ==
  ASSUME NEW p, Reports(p), NEW i \in DOMAIN p.records, p.records[i].cells \in Int,
         p.records[i].ref \in Published(p), p.records[i].action = "anonymize_or_delete",
         p.records[i].occurred + p.records[i].retention <= p.binding.end
  PROVE  /\ p.records[i].identifierFree
         /\ p.records[i].cells >= IF p.records[i].rare THEN 20 ELSE 10
<1>1. i \in Candidates(p)
  BY DEF Candidates, Expired
<1>2. Refs(p, Failed(p)) \cap Published(p) = {}
  BY DEF Reports, RuntimeInvariants
<1>3. i \in Passed(p)
  BY <1>1, <1>2 DEF Failed, Refs
<1>4. Passes(p.records[i])
  BY <1>3 DEF Passed
<1> QED
  BY <1>4 DEF Passes, Threshold

LEMMA ReportedPurgeIsDue ==
  ASSUME NEW p, Reports(p)
  PROVE  LET Due(i) == \/ p.records[i].request # "none"
                       \/ /\ p.records[i].state # "ANONYMOUS"
                          /\ p.records[i].action # "delete"
                          /\ p.records[i].occurred + p.records[i].retention <= p.binding.end
         IN  /\ Purged(p) = {p.records[i].ref : i \in {j \in DOMAIN p.records : Due(j)}}
             /\ \A ref \in Purged(p) : <<"personal_or_pseudonymous_state_purged", ref>> \in Receipts(p)
<1> DEFINE Due(i) == \/ p.records[i].request # "none"
                     \/ /\ p.records[i].state # "ANONYMOUS"
                        /\ p.records[i].action # "delete"
                        /\ p.records[i].occurred + p.records[i].retention <= p.binding.end
<1>1. \A i \in DOMAIN p.records : /\ p.records[i].state \in PersonalStates \cup {"ANONYMOUS"}
                                  /\ p.records[i].action \in {"anonymize_or_delete", "delete"}
  BY DEF Reports, ValidPacket, ValidRecord
<1>2. Personal(p, Candidates(p)) \cup Cleanups(p) = {j \in DOMAIN p.records : Due(j)}
  BY <1>1 DEF Personal, Candidates, Cleanups, Expired, PersonalStates
<1>3. Purged(p) = {p.records[i].ref : i \in {j \in DOMAIN p.records : Due(j)}}
  BY <1>2 DEF Purged, Refs
<1>4. \A ref \in Purged(p) : <<"personal_or_pseudonymous_state_purged", ref>> \in Receipts(p)
  BY DEF Receipts
<1> QED
  BY <1>3, <1>4

\* Candidates pass or fail.
LEMMA CandidatesDecided ==
  ASSUME NEW p, IsFiniteSet(DOMAIN p.records)
  PROVE  /\ Decisions(p).anonymize = Outcomes(p).published
         /\ Decisions(p).anonymize + Decisions(p).delete = Summary(p).candidates
<1>1. IsFiniteSet(Candidates(p)) /\ Passed(p) \subseteq Candidates(p)
  BY FS_Subset DEF Candidates, Passed
<1>2. Cardinality(Candidates(p)) \in Nat /\ IsFiniteSet(Passed(p)) /\ Cardinality(Passed(p)) \in Nat
  BY <1>1, FS_Subset, FS_CardinalityType
<1>3. Candidates(p) \cap Passed(p) = Passed(p)
  BY <1>1
<1>4. Cardinality(Failed(p)) = Cardinality(Candidates(p)) - Cardinality(Passed(p))
  BY <1>1, <1>2, <1>3, FS_Difference DEF Failed
<1> QED
  BY <1>2, <1>4 DEF Decisions, Outcomes, Summary

-----------------------------------------------------------------------------
\* Lines of the inbox, whole or begun, and runs.
Half(l, kind) == [l EXCEPT !.kind = kind]
Written == AllLines \cup {Half(l, kind) : l \in AllLines, kind \in Begun}

AnyRun ==
  [job : Jobs, key : AllKeys \cup {None}, request : Requests \cup {None}, since : Nat,
   until : Nat \cup {None}, read : UNION {[Assets(job) -> AllPackets \cup Untold] : job \in Jobs}]

Types ==
  /\ DOMAIN script = {"packet", "packets", "lines", "schedules"}
  /\ script.lines \in Seq(AllLines) /\ script.packets \in Seq(AllPackets)
  /\ inbox \in Seq(Written)
  /\ packet \in AllPackets \cup {None}
  /\ packet = None => script.packets # << >>
  /\ replaced \in Nat /\ edits \in 0..MaxEdits
  /\ runs \in Seq(AnyRun)

\* The line in the making is the last, and the next of the script.
OneBegun ==
  /\ Writing => /\ script.lines # << >>
                /\ \E kind \in Begun : inbox[Len(inbox)] = Half(script.lines[1], kind)
  /\ \A i \in 1..Len(inbox) : inbox[i].kind \in Begun => i = Len(inbox)

\* A request without an id is in one line only, here or still to come.
OneLine ==
  /\ \A i, j \in 1..Len(script.lines) :
       (i # j /\ script.lines[i].request # None
          /\ script.lines[i].request = script.lines[j].request) => script.lines[i].id # None
  /\ \A i, j \in 1..Len(inbox) :
       (i # j /\ inbox[i].request # None /\ inbox[i].request = inbox[j].request)
         => inbox[i].id # None
  /\ \A i \in 1..Len(inbox) : \A j \in 1..Len(script.lines) :
       (inbox[i].request # None /\ inbox[i].request = script.lines[j].request)
         => inbox[i].id # None \/ (Writing /\ i = Len(inbox) /\ j = 1)

\* What the assets of a run have read: if all of it since one replacement, one
\* packet; and if that was the last replacement, the packet there is.
SoundReads(run) ==
  /\ DOMAIN run.read = Assets(run.job)
  /\ run.since <= replaced
  /\ \A a \in DOMAIN run.read :
       /\ run.read[a] # None => run.until \in run.since..replaced
       /\ run.read[a] \notin Untold =>
            /\ Reports(run.read[a])
            /\ run.since = replaced => run.read[a] = packet
            /\ run.since = run.until =>
                 \A b \in DOMAIN run.read : run.read[b] \notin Untold => run.read[a] = run.read[b]

\* The key of a run is that of a line of its request.
SoundKey(run) ==
  IF run.request = None THEN run.key = None
  ELSE /\ run.key \in AllKeys
       /\ \E l \in AllLines :
            /\ l.request = run.request
            /\ run.key \in {l.type} \X IF l.id = None THEN {"line"} \X Nat ELSE {l.id}

\* The line the key of a request without an id was made for.
SoundPlace(run) ==
  (run.request # None /\ WithoutId(run.request)) =>
    /\ run.key[2][2] \in 1..Len(inbox)
    /\ inbox[run.key[2][2]].request = run.request
    /\ inbox[run.key[2][2]].kind = "request"

OneRunPerKey ==
  \A r, s \in 1..Len(runs) :
    (runs[r].key = runs[s].key /\ runs[r].request # None) => r = s

\* The inductive invariant.
IInv ==
  /\ Types
  /\ OneBegun
  /\ edits = 0 => OneLine
  /\ \A r \in 1..Len(runs) :
       SoundReads(runs[r]) /\ SoundKey(runs[r]) /\ (edits = 0 => SoundPlace(runs[r]))
  /\ OneRunPerKey

-----------------------------------------------------------------------------
\* Sequences.
LEMMA ElementsTyped ==
  ASSUME NEW S, NEW s \in Seq(S)
  PROVE  Len(s) \in Nat /\ DOMAIN s = 1..Len(s) /\ \A i \in 1..Len(s) : s[i] \in S
OBVIOUS

LEMMA AppendLast ==
  ASSUME NEW S, NEW s \in Seq(S), NEW x \in S
  PROVE  /\ Append(s, x) \in Seq(S) /\ Len(Append(s, x)) = Len(s) + 1
         /\ \A i \in 1..Len(s) : Append(s, x)[i] = s[i]
         /\ Append(s, x)[Len(s) + 1] = x
OBVIOUS

LEMMA TailRest ==
  ASSUME NEW S, NEW s \in Seq(S), s # << >>
  PROVE  /\ Tail(s) \in Seq(S) /\ Len(s) \in Nat \ {0} /\ Len(Tail(s)) = Len(s) - 1
         /\ \A i \in 1..Len(s) - 1 : Tail(s)[i] = s[i + 1]
OBVIOUS

LEMMA ReplaceLast ==
  ASSUME NEW S, NEW s \in Seq(S), s # << >>, NEW x \in S
  PROVE  LET t == [s EXCEPT ![Len(s)] = x]
         IN  /\ t \in Seq(S) /\ Len(t) = Len(s) /\ Len(s) \in Nat \ {0}
             /\ \A i \in 1..Len(s) - 1 : t[i] = s[i]
             /\ t[Len(s)] = x
OBVIOUS

LEMMA ConcatParts ==
  ASSUME NEW S, NEW s \in Seq(S), NEW t \in Seq(S)
  PROVE  /\ s \o t \in Seq(S) /\ Len(s \o t) = Len(s) + Len(t)
         /\ \A i \in 1..Len(s) : (s \o t)[i] = s[i]
         /\ \A i \in 1..Len(t) : (s \o t)[Len(s) + i] = t[i]
OBVIOUS

LEMMA BegunLine ==
  ASSUME NEW l \in AllLines, NEW kind \in Begun
  PROVE  Half(l, kind).kind = kind /\ Half(l, kind).request = l.request /\ Half(l, kind).id = l.id
           /\ Half(l, kind).type = l.type /\ l.kind \notin Begun
BY LinesTyped DEF Half, Begun

-----------------------------------------------------------------------------
LEMMA InitHolds == Init => IInv
<1> SUFFICES ASSUME Init PROVE IInv
  OBVIOUS
<1>1. /\ DOMAIN script = {"packet", "packets", "lines", "schedules"}
      /\ script.packets \in Seq(AllPackets) /\ script.lines \in Seq(AllLines)
      /\ packet \in AllPackets /\ packet # None
  <2>1. script \in Scripts /\ packet = script.packet
    BY DEF Init
  <2>2. packet \in AllPackets
    BY <2>1 DEF AllPackets
  <2> QED
    BY <2>1, <2>2, LinesTyped, PacketsTyped
<1>2. Types
  BY <1>1, EditsBounded DEF Init, Types
<1>3. OneBegun
  BY DEF Init, OneBegun, Writing
<1>4. OneLine
  <2>1. DOMAIN script.lines = 1..Len(script.lines)
    BY <1>1, ElementsTyped
  <2>2. Len(inbox) = 0
    BY DEF Init
  <2> QED
    BY <2>1, <2>2, LinesTyped DEF Init, OneLine
<1>5. Len(runs) = 0
  BY DEF Init
<1> QED
  BY <1>2, <1>3, <1>4, <1>5 DEF IInv, OneRunPerKey

\* While neither runs nor packet change, the runs stay sound, if their places do.
LEMMA RunsKept ==
  ASSUME IInv, UNCHANGED <<runs, packet, replaced>>,
         edits' = 0 => edits = 0 /\ \A r \in 1..Len(runs) : SoundPlace(runs[r]) => SoundPlace(runs[r])'
  PROVE  /\ \A r \in 1..Len(runs') :
              SoundReads(runs[r])' /\ SoundKey(runs[r])' /\ (edits' = 0 => SoundPlace(runs[r])')
         /\ OneRunPerKey'
<1>1. ASSUME NEW r \in 1..Len(runs)
      PROVE  SoundReads(runs[r])' /\ SoundKey(runs[r])'
  <2>1. SoundReads(runs[r]) /\ SoundKey(runs[r])
    BY <1>1 DEF IInv
  <2> QED
    BY <2>1 DEF SoundReads, SoundKey
<1>2. ASSUME NEW r \in 1..Len(runs), edits' = 0
      PROVE  SoundPlace(runs[r])'
  BY <1>2 DEF IInv
<1>3. OneRunPerKey'
  BY DEF IInv, OneRunPerKey
<1> QED
  BY <1>1, <1>2, <1>3

LEMMA BeginLineStep ==
  ASSUME IInv, BeginLine
  PROVE  IInv'
<1> DEFINE L == script.lines
           n == Len(inbox)
<1>0. PICK kind \in Begun : inbox' = Append(inbox, Half(L[1], kind))
  BY DEF BeginLine, Half
<1>1. /\ L \in Seq(AllLines) /\ L # << >> /\ inbox \in Seq(Written) /\ ~Writing
      /\ UNCHANGED <<script, packet, replaced, runs, edits>>
      /\ inbox' = Append(inbox, Half(L[1], kind))
  BY <1>0 DEF IInv, Types, BeginLine
<1>2. L[1] \in AllLines /\ Half(L[1], kind) \in Written /\ 1 \in 1..Len(L) /\ Len(L) \in Nat
  BY <1>1, ElementsTyped DEF Written
<1>3. /\ inbox' \in Seq(Written) /\ Len(inbox') = n + 1 /\ n \in Nat
      /\ \A i \in 1..n : inbox'[i] = inbox[i]
      /\ inbox'[n + 1] = Half(L[1], kind)
  BY <1>1, <1>2, AppendLast, ElementsTyped
<1>4. Types'
  BY <1>1, <1>3 DEF IInv, Types
<1>5. \A i \in 1..n : inbox[i].kind \notin Begun
  BY <1>1, <1>3 DEF IInv, OneBegun, Writing
<1>6. OneBegun' /\ Writing'
  <2>1. inbox' # << >> /\ inbox'[Len(inbox')] = Half(L[1], kind) /\ Half(L[1], kind).kind \in Begun
    BY <1>2, <1>3, BegunLine
  <2> QED
    BY <1>1, <1>3, <1>5, <2>1 DEF OneBegun, Writing
<1>7. ASSUME edits' = 0 PROVE OneLine'
  <2>1. edits = 0 /\ OneLine
    BY <1>1, <1>7 DEF IInv
  <2>2. Half(L[1], kind).request = L[1].request /\ Half(L[1], kind).id = L[1].id
    BY <1>2, BegunLine
  <2>3. \A i \in 1..n : \A j \in 1..Len(L) :
          (inbox[i].request # None /\ inbox[i].request = L[j].request) => inbox[i].id # None
    BY <1>1, <2>1 DEF OneLine
  <2>4. \A i, j \in 1..n + 1 : (i # j /\ inbox'[i].request # None /\ inbox'[i].request = inbox'[j].request)
                                 => inbox'[i].id # None
    <3> SUFFICES ASSUME NEW i \in 1..n + 1, NEW j \in 1..n + 1, i # j, inbox'[i].request # None,
                        inbox'[i].request = inbox'[j].request
                 PROVE  inbox'[i].id # None
      OBVIOUS
    <3>1. CASE i \in 1..n /\ j \in 1..n
      BY <1>3, <2>1, <3>1 DEF OneLine
    <3>2. CASE i \in 1..n /\ j = n + 1
      BY <1>2, <1>3, <2>2, <2>3, <3>2
    <3>3. CASE i = n + 1 /\ j \in 1..n
      <4>1. inbox[j] \in Written /\ inbox[j].request = L[1].request /\ inbox[j].request # None
              /\ inbox[j].id # None
        BY <1>1, <1>2, <1>3, <2>2, <2>3, <3>3, ElementsTyped
      <4>2. inbox[j] \in AllLines
        BY <1>5, <3>3, <4>1, BegunLine DEF Written
      <4> QED
        BY <1>2, <1>3, <2>2, <3>3, <4>1, <4>2, LinesTyped
    <3> QED
      BY <1>3, <3>1, <3>2, <3>3
  <2>5. \A i \in 1..n + 1 : \A j \in 1..Len(L) :
          (inbox'[i].request # None /\ inbox'[i].request = L[j].request)
            => inbox'[i].id # None \/ (i = n + 1 /\ j = 1)
    <3> SUFFICES ASSUME NEW i \in 1..n + 1, NEW j \in 1..Len(L), inbox'[i].request # None,
                        inbox'[i].request = L[j].request, ~(i = n + 1 /\ j = 1)
                 PROVE  inbox'[i].id # None
      OBVIOUS
    <3>1. CASE i \in 1..n
      BY <1>3, <2>3, <3>1
    <3>2. CASE i = n + 1
      BY <1>2, <1>3, <2>1, <2>2, <3>2 DEF OneLine
    <3> QED
      BY <1>3, <3>1, <3>2
  <2> QED
    BY <1>1, <1>3, <1>6, <2>1, <2>4, <2>5 DEF OneLine
<1>8. edits' = 0 => edits = 0 /\ \A r \in 1..Len(runs) : SoundPlace(runs[r]) => SoundPlace(runs[r])'
  BY <1>1, <1>3 DEF SoundPlace
<1> QED
  BY <1>1, <1>4, <1>6, <1>7, <1>8, RunsKept DEF IInv

LEMMA EndLineStep ==
  ASSUME IInv, EndLine
  PROVE  IInv'
<1> DEFINE L == script.lines
           n == Len(inbox)
<1>0. PICK kind \in Begun : inbox[n] = Half(L[1], kind)
  BY DEF IInv, OneBegun, EndLine
<1>1. /\ L \in Seq(AllLines) /\ inbox \in Seq(Written) /\ Writing /\ L # << >> /\ inbox # << >>
      /\ UNCHANGED <<packet, replaced, runs, edits>>
      /\ inbox[n] = Half(L[1], kind)
      /\ inbox' = [inbox EXCEPT ![n] = L[1]] /\ script' = [script EXCEPT !.lines = Tail(L)]
      /\ DOMAIN script = {"packet", "packets", "lines", "schedules"}
  BY <1>0 DEF IInv, Types, OneBegun, EndLine, Writing
<1>2. L[1] \in AllLines /\ L[1] \in Written /\ L[1].kind \notin Begun
  BY <1>1, TailRest, ElementsTyped, BegunLine DEF Written
<1>3. /\ inbox' \in Seq(Written) /\ Len(inbox') = n /\ n \in Nat \ {0}
      /\ \A i \in 1..n - 1 : inbox'[i] = inbox[i]
      /\ inbox'[n] = L[1]
  BY <1>1, <1>2, ReplaceLast
<1>4. /\ script'.lines = Tail(L) /\ script'.packets = script.packets /\ DOMAIN script' = DOMAIN script
      /\ Tail(L) \in Seq(AllLines) /\ Len(L) \in Nat \ {0} /\ Len(Tail(L)) = Len(L) - 1
      /\ \A i \in 1..Len(L) - 1 : Tail(L)[i] = L[i + 1]
  BY <1>1, TailRest
<1>5. Types'
  BY <1>1, <1>3, <1>4 DEF IInv, Types
<1>6. \A i \in 1..n : inbox'[i].kind \notin Begun
  BY <1>2, <1>3 DEF IInv, OneBegun
<1>7. ~Writing' /\ OneBegun'
  BY <1>3, <1>6 DEF Writing, OneBegun
<1>8. ASSUME edits' = 0 PROVE OneLine'
  <2>1. OneLine
    BY <1>1, <1>8 DEF IInv
  <2>2. Half(L[1], kind).request = L[1].request /\ Half(L[1], kind).id = L[1].id
    BY <1>2, BegunLine
  <2>3. \A i \in 1..n : inbox'[i].request = inbox[i].request /\ inbox'[i].id = inbox[i].id
    BY <1>1, <1>3, <2>2
  <2>4. \A i, j \in 1..Len(L) - 1 :
          (i # j /\ Tail(L)[i].request # None /\ Tail(L)[i].request = Tail(L)[j].request)
            => Tail(L)[i].id # None
    BY <1>4, <2>1, SMTT(30) DEF OneLine
  <2>5. \A i, j \in 1..n : (i # j /\ inbox'[i].request # None /\ inbox'[i].request = inbox'[j].request)
                             => inbox'[i].id # None
    BY <2>1, <2>3 DEF OneLine
  <2>6. \A i \in 1..n : \A j \in 1..Len(L) - 1 :
          (inbox'[i].request # None /\ inbox'[i].request = Tail(L)[j].request)
            => inbox'[i].id # None
    <3> SUFFICES ASSUME NEW i \in 1..n, NEW j \in 1..Len(L) - 1, inbox[i].request # None,
                        inbox[i].request = L[j + 1].request
                 PROVE  inbox[i].id # None
      BY <1>4, <2>3
    <3> QED
      BY <1>4, <2>1 DEF OneLine
  <2> QED
    BY <1>3, <1>4, <2>4, <2>5, <2>6 DEF OneLine
<1>9. edits' = 0 => edits = 0 /\ \A r \in 1..Len(runs) : SoundPlace(runs[r]) => SoundPlace(runs[r])'
  <2>1. inbox[n].kind \in Begun
    BY <1>1, <1>2, BegunLine
  <2> QED
    BY <1>1, <1>3, <2>1 DEF SoundPlace, Begun
<1> QED
  BY <1>1, <1>5, <1>7, <1>8, <1>9, RunsKept DEF IInv

LEMMA RemoveLineStep ==
  ASSUME IInv, RemoveLine
  PROVE  IInv'
<1>1. /\ inbox \in Seq(Written) /\ inbox # << >> /\ inbox[1].kind \notin Begun
      /\ inbox' = Tail(inbox) /\ UNCHANGED <<script, packet, replaced, runs>>
      /\ edits' = edits + 1 /\ edits' \in 0..MaxEdits /\ edits' # 0
  BY EditsBounded DEF IInv, Types, RemoveLine
<1>2. /\ inbox' \in Seq(Written) /\ Len(inbox) \in Nat \ {0} /\ Len(inbox') = Len(inbox) - 1
      /\ \A i \in 1..Len(inbox) - 1 : inbox'[i] = inbox[i + 1]
  BY <1>1, TailRest
<1>3. Types'
  BY <1>1, <1>2 DEF IInv, Types
<1>4. OneBegun'
  <2>1. inbox' # << >> => Len(inbox') # 0 /\ inbox'[Len(inbox')] = inbox[Len(inbox)]
    BY <1>2
  <2>2. Writing' => Writing /\ inbox'[Len(inbox')] = inbox[Len(inbox)]
    BY <1>1, <2>1 DEF Writing
  <2>3. OneBegun
    BY DEF IInv
  <2>4. Writing' => /\ script'.lines # << >>
                    /\ \E kind \in Begun : inbox'[Len(inbox')] = Half(script'.lines[1], kind)
    BY <1>1, <2>2, <2>3 DEF OneBegun
  <2>5. \A i \in 1..Len(inbox') : inbox'[i].kind \in Begun => i = Len(inbox')
    BY <1>2, <2>3 DEF OneBegun
  <2> QED
    BY <2>4, <2>5 DEF OneBegun
<1> QED
  BY <1>1, <1>3, <1>4, RunsKept DEF IInv

\* The packet has no part in keys and places.
LEMMA KeysKept ==
  ASSUME IInv, UNCHANGED <<runs, inbox, edits>>
  PROVE  /\ \A r \in 1..Len(runs) : SoundKey(runs[r])' /\ (edits' = 0 => SoundPlace(runs[r])')
         /\ OneRunPerKey'
<1>1. ASSUME NEW r \in 1..Len(runs)
      PROVE  SoundKey(runs[r])' /\ (edits' = 0 => SoundPlace(runs[r])')
  <2>1. SoundKey(runs[r]) /\ (edits = 0 => SoundPlace(runs[r]))
    BY <1>1 DEF IInv
  <2> QED
    BY <2>1 DEF SoundKey, SoundPlace
<1>2. OneRunPerKey'
  BY DEF IInv, OneRunPerKey
<1> QED
  BY <1>1, <1>2

\* A line stays what it is whatever packets are to come.
LEMMA LinesKept ==
  ASSUME IInv, UNCHANGED <<inbox, edits>>, script'.lines = script.lines
  PROVE  OneBegun' /\ (edits' = 0 => OneLine')
BY DEF IInv, OneBegun, OneLine, Writing

LEMMA RunTyped ==
  ASSUME IInv, NEW r \in 1..Len(runs)
  PROVE  /\ runs[r] \in AnyRun /\ SoundReads(runs[r])
         /\ runs[r].since \in Nat /\ runs[r].until \in Nat \cup {None} /\ runs[r].since <= replaced
         /\ replaced \in Nat
<1>1. runs[r] \in AnyRun
  BY ElementsTyped DEF IInv, Types
<1> QED
  BY <1>1 DEF IInv, Types, SoundReads, AnyRun

LEMMA BeginPacketStep ==
  ASSUME IInv, BeginPacket
  PROVE  IInv'
<1>1. /\ packet # None /\ script.packets # << >> /\ packet' = None
      /\ replaced' = replaced + 1 /\ UNCHANGED <<script, inbox, runs, edits>>
  BY DEF BeginPacket
<1>2. Types'
  BY <1>1 DEF IInv, Types
<1>3. ASSUME NEW r \in 1..Len(runs) PROVE SoundReads(runs[r])'
  <2>1. /\ SoundReads(runs[r]) /\ runs[r].since <= replaced /\ runs[r].since \in Nat /\ replaced \in Nat
    BY <1>3, RunTyped
  <2>2. runs[r].since # replaced' /\ runs[r].since <= replaced'
          /\ \A u \in runs[r].since..replaced : u \in runs[r].since..replaced'
    BY <1>1, <2>1
  <2> QED
    BY <1>1, <2>1, <2>2 DEF SoundReads
<1> QED
  BY <1>1, <1>2, <1>3, KeysKept, LinesKept DEF IInv

LEMMA EndPacketStep ==
  ASSUME IInv, EndPacket
  PROVE  IInv'
<1> DEFINE P == script.packets
<1>1. /\ P \in Seq(AllPackets) /\ P # << >> /\ packet = None /\ packet' = P[1]
      /\ script' = [script EXCEPT !.packets = Tail(P)]
      /\ DOMAIN script = {"packet", "packets", "lines", "schedules"}
      /\ UNCHANGED <<inbox, replaced, runs, edits>>
  BY DEF IInv, Types, EndPacket
<1>2. packet' \in AllPackets /\ packet' # None /\ Tail(P) \in Seq(AllPackets)
  BY <1>1, TailRest, ElementsTyped, PacketsTyped
<1>3. script'.packets = Tail(P) /\ script'.lines = script.lines /\ DOMAIN script' = DOMAIN script
  BY <1>1
<1>4. Types'
  BY <1>1, <1>2, <1>3 DEF IInv, Types
<1>5. ASSUME NEW r \in 1..Len(runs) PROVE SoundReads(runs[r])'
  <2>1. SoundReads(runs[r])
    BY <1>5, RunTyped
  <2> QED
    BY <1>1, <2>1 DEF SoundReads, Untold
<1> QED
  BY <1>1, <1>3, <1>4, <1>5, KeysKept, LinesKept DEF IInv

\* A run that has begun has read nothing.
LEMMA BegunRun ==
  ASSUME IInv, NEW job \in Jobs, NEW key \in AllKeys \cup {None}, NEW request \in Requests \cup {None}
  PROVE  /\ Run(job, key, request) \in AnyRun /\ SoundReads(Run(job, key, request))
         /\ Run(job, key, request).key = key /\ Run(job, key, request).request = request
<1> DEFINE run == Run(job, key, request)
<1>1. replaced \in Nat
  BY DEF IInv, Types
<1>2. [a \in Assets(job) |-> None] \in [Assets(job) -> AllPackets \cup Untold]
  BY DEF Untold
<1>3. [a \in Assets(job) |-> None] \in UNION {[Assets(j) -> AllPackets \cup Untold] : j \in Jobs}
  BY <1>2
<1>4. run \in AnyRun
  BY <1>1, <1>3 DEF Run, AnyRun
<1>5. run.read = [a \in Assets(job) |-> None] /\ run.job = job /\ run.since = replaced
        /\ run.key = key /\ run.request = request
  BY DEF Run
<1>6. SoundReads(run)
  <2> HIDE DEF run
  <2> QED
    BY <1>1, <1>5 DEF SoundReads, Untold
<1> QED
  BY <1>4, <1>5, <1>6

\* Runs that are started, one by one or several by a tick.
LEMMA MoreRuns ==
  ASSUME IInv, NEW new \in Seq(AnyRun), runs' = runs \o new,
         UNCHANGED <<inbox, packet, replaced, edits>>,
         DOMAIN script' = DOMAIN script, script'.lines = script.lines, script'.packets = script.packets,
         \A m \in 1..Len(new) :
           SoundReads(new[m]) /\ SoundKey(new[m]) /\ (edits = 0 => SoundPlace(new[m])),
         \A m \in 1..Len(new) : new[m].request # None =>
           /\ \A r \in 1..Len(runs) : runs[r].key # new[m].key
           /\ \A k \in 1..Len(new) : new[k].key = new[m].key => k = m,
         \A m \in 1..Len(new) : new[m].request = None =>
           \A r \in 1..Len(runs) : runs[r].request # None => runs[r].key # new[m].key
  PROVE  IInv'
<1>1. runs \in Seq(AnyRun)
  BY DEF IInv, Types
<1>2. /\ runs' \in Seq(AnyRun) /\ Len(runs') = Len(runs) + Len(new) /\ Len(runs) \in Nat /\ Len(new) \in Nat
      /\ \A r \in 1..Len(runs) : runs'[r] = runs[r]
      /\ \A m \in 1..Len(new) : runs'[Len(runs) + m] = new[m]
  BY <1>1, ConcatParts, ElementsTyped
<1>3. \A r \in 1..Len(runs') : r \notin 1..Len(runs) =>
        \E m \in 1..Len(new) : r = Len(runs) + m /\ runs'[r] = new[m]
  <2>1. ASSUME NEW r \in 1..Len(runs'), r \notin 1..Len(runs)
        PROVE  r - Len(runs) \in 1..Len(new) /\ r = Len(runs) + (r - Len(runs))
    BY <1>2, <2>1
  <2> QED
    BY <1>2, <2>1
<1>4. Types'
  BY <1>2 DEF IInv, Types
<1>5. \A run : /\ SoundReads(run) => SoundReads(run)'
               /\ SoundKey(run) => SoundKey(run)'
               /\ SoundPlace(run) => SoundPlace(run)'
  BY DEF SoundReads, SoundKey, SoundPlace
<1>6. ASSUME NEW r \in 1..Len(runs')
      PROVE  SoundReads(runs[r])' /\ SoundKey(runs[r])' /\ (edits' = 0 => SoundPlace(runs[r])')
  <2>1. PICK run : run = runs'[r]
    OBVIOUS
  <2>2. SoundReads(run) /\ SoundKey(run) /\ (edits = 0 => SoundPlace(run))
    BY <1>2, <1>3, <1>6, <2>1 DEF IInv
  <2>3. SoundReads(run)' /\ SoundKey(run)' /\ (edits' = 0 => SoundPlace(run)')
    BY <1>5, <2>2
  <2> QED
    BY <2>1, <2>3
<1>7. OneRunPerKey'
  <2> SUFFICES ASSUME NEW r \in 1..Len(runs'), NEW s \in 1..Len(runs'),
                      runs'[r].key = runs'[s].key, runs'[r].request # None
               PROVE  r = s
    BY DEF OneRunPerKey
  <2>1. CASE r \in 1..Len(runs) /\ s \in 1..Len(runs)
    BY <1>2, <2>1 DEF IInv, OneRunPerKey
  <2>2. CASE r \in 1..Len(runs) /\ s \notin 1..Len(runs)
    <3>1. PICK m \in 1..Len(new) : runs'[s] = new[m]
      BY <1>3, <2>2
    <3>2. runs[r].key = new[m].key /\ runs[r].request # None
      BY <1>2, <2>2, <3>1
    <3> QED
      BY <2>2, <3>2
  <2>3. CASE r \notin 1..Len(runs) /\ s \in 1..Len(runs)
    BY <1>2, <1>3, <2>3, SMTT(30)
  <2>4. CASE r \notin 1..Len(runs) /\ s \notin 1..Len(runs)
    <3>1. PICK m \in 1..Len(new), k \in 1..Len(new) :
            /\ r = Len(runs) + m /\ runs'[r] = new[m]
            /\ s = Len(runs) + k /\ runs'[s] = new[k]
      BY <1>3, <2>4
    <3>2. new[m].request # None /\ new[k].key = new[m].key
      BY <3>1
    <3>3. k = m
      BY <3>2
    <3> QED
      BY <3>1, <3>3
  <2> QED
    BY <2>1, <2>2, <2>3, <2>4
<1> QED
  BY <1>4, <1>6, <1>7, LinesKept DEF IInv

LEMMA ScheduleStep ==
  ASSUME IInv, NEW job \in Jobs, Schedule(job)
  PROVE  IInv'
<1> DEFINE run == Run(job, None, None)
           new == <<run>>
<1>1. /\ runs' = Append(runs, run) /\ UNCHANGED <<inbox, packet, replaced, edits>>
      /\ script' = [script EXCEPT !.schedules = @ - 1]
      /\ DOMAIN script = {"packet", "packets", "lines", "schedules"}
  BY DEF Schedule, IInv, Types
<1>2. DOMAIN script' = DOMAIN script /\ script'.lines = script.lines
        /\ script'.packets = script.packets
  BY <1>1
<1>3. run \in AnyRun /\ SoundReads(run) /\ run.key = None /\ run.request = None
  BY BegunRun
<1> HIDE DEF run
<1>4. new \in Seq(AnyRun) /\ Len(new) = 1 /\ \A m \in 1..Len(new) : new[m] = run
  BY <1>3
<1>5. runs' = runs \o new
  BY <1>1, <1>3 DEF IInv, Types
<1>6. SoundKey(run) /\ SoundPlace(run)
  BY <1>3 DEF SoundKey, SoundPlace
<1>7. \A r \in 1..Len(runs) : runs[r].request # None => runs[r].key # run.key
  BY <1>3, NoneIsNoKey DEF IInv, SoundKey
<1> HIDE DEF new
<1> QED
  BY <1>1, <1>2, <1>3, <1>4, <1>5, <1>6, <1>7, MoreRuns

\* A line the sensor supports has a sound key, which is in its place.
LEMMA FreshKey ==
  ASSUME IInv, NEW i \in Fresh
  PROVE  LET run == Run("privacy_lifecycle_daily_job", RunKey(i), inbox[i].request)
         IN  /\ run \in AnyRun /\ SoundReads(run) /\ SoundKey(run) /\ SoundPlace(run)
             /\ run.key = RunKey(i) /\ run.request # None
             /\ \A r \in 1..Len(runs) : runs[r].key # run.key
             /\ \A j \in Fresh : j < i => RunKey(j) # RunKey(i)
<1> DEFINE run == Run("privacy_lifecycle_daily_job", RunKey(i), inbox[i].request)
           l == inbox[i]
<1>1. inbox \in Seq(Written) /\ i \in 1..Len(inbox) /\ Len(inbox) \in Nat /\ Supported(i)
        /\ RunKey(i) \notin Keys /\ \A j \in 1..i - 1 : Supported(j) => RunKey(j) # RunKey(i)
  BY ElementsTyped DEF IInv, Types, Fresh
<1>2. l \in Written /\ l.kind = "request" /\ l.type \in SensorTypes
  BY <1>1, ElementsTyped DEF Supported
<1>3. l \in AllLines
  BY <1>2, BegunLine DEF Written, Begun
<1>4. l.request # None /\ l.request \in Requests
  BY <1>2, <1>3, LinesTyped DEF Requests
<1>5. RunKey(i) \in {l.type} \X IF l.id = None THEN {"line"} \X Nat ELSE {l.id}
  BY <1>1, SMTT(30) DEF RunKey
<1>6. RunKey(i) \in AllKeys
  BY <1>1, <1>2, <1>3, LinesTyped, SMTT(30) DEF RunKey, AllKeys, Ids
<1>7. "privacy_lifecycle_daily_job" \in Jobs
  BY DEF Jobs
<1>8. run \in AnyRun /\ SoundReads(run) /\ run.key = RunKey(i) /\ run.request = l.request
  BY <1>4, <1>6, <1>7, BegunRun
<1> HIDE DEF run
<1>9. SoundKey(run)
  BY <1>3, <1>4, <1>5, <1>6, <1>8 DEF SoundKey
<1>10. SoundPlace(run)
  <2>1. WithoutId(l.request) => RunKey(i)[2][2] = i
    BY <1>3 DEF RunKey, WithoutId
  <2> QED
    BY <1>1, <1>2, <1>8, <2>1 DEF SoundPlace
<1>11. \A r \in 1..Len(runs) : runs[r].key # RunKey(i)
  <2>1. DOMAIN runs = 1..Len(runs)
    BY ElementsTyped DEF IInv, Types
  <2> QED
    BY <1>1, <2>1 DEF Keys
<1>12. \A j \in Fresh : j < i => RunKey(j) # RunKey(i)
  <2>1. \A j \in Fresh : Supported(j) /\ j \in 1..Len(inbox)
    BY ElementsTyped DEF IInv, Types, Fresh
  <2> QED
    BY <1>1, <2>1
<1>13. run.key = RunKey(i) /\ run.request # None
  BY <1>4, <1>8
<1> QED
  BY <1>8, <1>9, <1>10, <1>11, <1>12, <1>13 DEF run

LEMMA TickStep ==
  ASSUME IInv, Tick
  PROVE  IInv'
<1>1. PICK order \in Ascending : runs' = runs \o Asked(order)
  BY DEF Tick
<1>2. UNCHANGED <<script, inbox, packet, replaced, edits>>
  BY DEF Tick, files
<1>3. Cardinality(Fresh) \in Nat
  <2>1. Fresh \subseteq 1..Len(inbox) /\ Len(inbox) \in Nat
    BY ElementsTyped DEF IInv, Types, Fresh
  <2>2. 1 \in Int /\ Len(inbox) \in Int
    BY <2>1
  <2>3. IsFiniteSet(1..Len(inbox))
    BY <2>2, FS_Interval
  <2> QED
    BY <2>1, <2>3, FS_Subset, FS_CardinalityType
<1> DEFINE k == Cardinality(Fresh)
           new == Asked(order)
<1>4. order \in [1..k -> Fresh] /\ \A m, n \in 1..k : m < n => order[m] < order[n]
  BY <1>1 DEF Ascending
<1>5. \A m \in 1..k : new[m] = Run("privacy_lifecycle_daily_job", RunKey(order[m]), inbox[order[m]].request)
  BY <1>4 DEF Asked
<1>6. \A m \in 1..k : new[m] \in AnyRun /\ SoundReads(new[m]) /\ SoundKey(new[m]) /\ SoundPlace(new[m])
                        /\ new[m].key = RunKey(order[m]) /\ new[m].request # None
                        /\ \A r \in 1..Len(runs) : runs[r].key # new[m].key
  BY <1>4, <1>5, FreshKey
<1>7. new \in Seq(AnyRun) /\ Len(new) = k
  <2>1. DOMAIN new = 1..k /\ new = [m \in 1..k |-> new[m]]
    BY <1>4 DEF Asked
  <2> HIDE DEF new, k
  <2>2. k \in Nat
    BY <1>3 DEF k
  <2> QED
    BY <1>6, <2>1, <2>2
<1>8. \A m, n \in 1..k : new[m].key = new[n].key => m = n
  <2>1. \A i, j \in Fresh : j < i => RunKey(j) # RunKey(i)
    BY FreshKey
  <2>2. \A m, n \in 1..k : m < n => new[m].key # new[n].key
    BY <1>4, <1>6, <2>1
  <2>3. \A m, n \in 1..k : m < n \/ n < m \/ m = n
    BY <1>3
  <2> QED
    BY <2>2, <2>3
<1> HIDE DEF new, k
<1>9. runs' = runs \o new
  BY <1>1 DEF new
<1> QED
  BY <1>2, <1>6, <1>7, <1>8, <1>9, MoreRuns

LEMMA MaterializeStep ==
  ASSUME IInv, NEW r \in DOMAIN runs, NEW a, Materialize(r, a)
  PROVE  IInv'
<1> DEFINE v == IF PacketOf(a) # None /\ Reports(PacketOf(a)) THEN PacketOf(a) ELSE Error
           old == runs[r]
           run == runs'[r]
<1>1. /\ runs \in Seq(AnyRun) /\ r \in 1..Len(runs) /\ DOMAIN runs = 1..Len(runs) /\ Len(runs) \in Nat
      /\ old \in AnyRun /\ SoundReads(old) /\ old.since \in Nat /\ replaced \in Nat /\ old.since <= replaced
      /\ packet \in AllPackets \cup {None}
  BY ElementsTyped, RunTyped DEF IInv, Types
<1>2. a \in DOMAIN old.read /\ old.read[a] = None
      /\ runs' = [runs EXCEPT ![r].read[a] = v, ![r].until = replaced]
      /\ UNCHANGED <<script, inbox, packet, replaced, edits>>
  BY DEF Materialize, files
<1>3. (v \notin Untold => v = packet /\ Reports(v)) /\ v \in AllPackets \cup Untold
  <2>1. (v = packet /\ packet # None /\ Reports(packet)) \/ v = Error
    BY DEF PacketOf
  <2> QED
    BY <1>1, <2>1 DEF Untold
<1> HIDE DEF v
<1>4. /\ DOMAIN runs' = DOMAIN runs
      /\ \A s \in 1..Len(runs) : s # r => runs'[s] = runs[s]
      /\ run = [old EXCEPT !.read = [old.read EXCEPT ![a] = v], !.until = replaced]
  BY <1>1, <1>2
<1>5. /\ run.read = [old.read EXCEPT ![a] = v] /\ run.until = replaced
      /\ run.job = old.job /\ run.key = old.key /\ run.request = old.request /\ run.since = old.since
      /\ DOMAIN run.read = DOMAIN old.read /\ run.read[a] = v
      /\ \A b \in DOMAIN old.read : b # a => run.read[b] = old.read[b]
  BY <1>1, <1>2, <1>4 DEF AnyRun
<1>6. run \in AnyRun
  <2>1. PICK job \in Jobs : old.read \in [Assets(job) -> AllPackets \cup Untold]
    BY <1>1 DEF AnyRun
  <2>2. run.read \in [Assets(job) -> AllPackets \cup Untold]
    BY <1>2, <1>3, <1>5, <2>1
  <2>3. run.read \in UNION {[Assets(j) -> AllPackets \cup Untold] : j \in Jobs}
    BY <2>2
  <2> QED
    BY <1>1, <1>4, <1>5, <2>3 DEF AnyRun
<1>7. runs' \in Seq(AnyRun) /\ Len(runs') = Len(runs)
  <2>1. \A s \in 1..Len(runs) : runs'[s] \in AnyRun
    BY <1>1, <1>4, <1>6, ElementsTyped
  <2>2. runs' = [s \in 1..Len(runs) |-> runs'[s]]
    BY <1>1, <1>2
  <2> QED
    BY <1>1, <2>1, <2>2
<1>8. Types'
  BY <1>2, <1>7 DEF IInv, Types
<1>9. SoundReads(run)
  <2>1. DOMAIN run.read = Assets(run.job) /\ run.since <= replaced
    BY <1>1, <1>5 DEF SoundReads
  <2>2. run.until \in run.since..replaced
    BY <1>1, <1>5
  <2>3. ASSUME NEW b \in DOMAIN run.read, run.read[b] \notin Untold
        PROVE  Reports(run.read[b]) /\ (run.since = replaced => run.read[b] = packet)
    BY <1>1, <1>3, <1>5, <2>3 DEF SoundReads
  <2> QED
    BY <1>5, <2>1, <2>2, <2>3 DEF SoundReads
<1>10. ASSUME NEW s \in 1..Len(runs)
       PROVE  SoundReads(runs'[s]) /\ SoundKey(runs'[s]) /\ (edits = 0 => SoundPlace(runs'[s]))
  <2>1. SoundReads(runs[s]) /\ SoundKey(runs[s]) /\ (edits = 0 => SoundPlace(runs[s]))
    BY DEF IInv
  <2>2. CASE s # r
    BY <1>4, <2>1, <2>2
  <2>3. CASE s = r
    BY <1>5, <1>9, <2>1, <2>3 DEF SoundKey, SoundPlace
  <2> QED
    BY <2>2, <2>3
<1>11. ASSUME NEW s \in 1..Len(runs')
       PROVE  SoundReads(runs[s])' /\ SoundKey(runs[s])' /\ (edits' = 0 => SoundPlace(runs[s])')
  <2>1. PICK after : after = runs'[s]
    OBVIOUS
  <2>2. SoundReads(after) /\ SoundKey(after) /\ (edits = 0 => SoundPlace(after))
    BY <1>7, <1>10, <1>11, <2>1
  <2>3. SoundReads(after)' /\ SoundKey(after)' /\ (edits' = 0 => SoundPlace(after)')
    BY <1>2, <2>2 DEF SoundReads, SoundKey, SoundPlace
  <2> QED
    BY <2>1, <2>3
<1>12. OneRunPerKey'
  <2>1. \A s \in 1..Len(runs) : runs'[s].key = runs[s].key /\ runs'[s].request = runs[s].request
    BY <1>4, <1>5
  <2> QED
    BY <1>7, <2>1 DEF IInv, OneRunPerKey
<1> QED
  BY <1>2, <1>8, <1>11, <1>12, LinesKept DEF IInv

LEMMA NextHolds ==
  ASSUME IInv, [Next]_vars
  PROVE  IInv'
<1>1. CASE UNCHANGED vars
  BY <1>1, KeysKept, LinesKept DEF vars, files, IInv, Types, SoundReads
<1>2. CASE BeginLine \/ EndLine \/ RemoveLine \/ BeginPacket \/ EndPacket \/ Tick
  BY <1>2, BeginLineStep, EndLineStep, RemoveLineStep, BeginPacketStep, EndPacketStep, TickStep
<1>3. CASE \E job \in Jobs : Schedule(job)
  BY <1>3, ScheduleStep
<1>4. CASE Step
  BY <1>4, MaterializeStep DEF Step
<1> QED
  BY <1>1, <1>2, <1>3, <1>4 DEF Next

\* The inductive invariant: for any inbox, packets and schedules, what a run
\* has read is of packets that could be reported on, and its key is that of a
\* line of its request.
THEOREM InductiveInvariant == Spec => []IInv
BY InitHolds, NextHolds, PTL DEF Spec

\* Whatever was told of is a packet that could be reported on.
LEMMA ToldReports ==
  ASSUME IInv, NEW p \in Told
  PROVE  /\ Reports(p) /\ IsFiniteSet(DOMAIN p.records)
         /\ \A i \in DOMAIN p.records : p.records[i].cells \in Int
<1>1. DOMAIN runs = 1..Len(runs)
  BY ElementsTyped DEF IInv, Types
<1>2. PICK r \in 1..Len(runs) : \E a \in DOMAIN runs[r].read : p = runs[r].read[a]
  BY <1>1 DEF Told
<1>3. p \notin Untold
  BY DEF Told
<1>4. PICK a \in DOMAIN runs[r].read : p = runs[r].read[a] /\ p \notin Untold
  BY <1>2, <1>3
<1>5. Reports(p)
  BY <1>4, RunTyped DEF SoundReads
<1>6. p \in AllPackets
  <2>1. PICK job \in Jobs : runs[r].read \in [Assets(job) -> AllPackets \cup Untold]
    BY RunTyped DEF AnyRun
  <2> QED
    BY <1>4, <2>1
<1> QED
  BY <1>5, <1>6, PacketsTyped

\* The variables keep their types, and no key has two runs.
THEOREM TypeCorrect == Spec => []TypeOK
<1>1. ASSUME IInv PROVE TypeOK
  <2>1. DOMAIN inbox = 1..Len(inbox) /\ DOMAIN runs = 1..Len(runs)
          /\ \A i \in 1..Len(inbox) : inbox[i] \in Written
    BY <1>1, ElementsTyped DEF IInv, Types
  <2>2. \A l \in Written : l.kind \in Begun \cup {"blank", "malformed", "poison", "request"}
    BY BegunLine, LinesTyped DEF Written
  <2>3. \A r \in 1..Len(runs) : runs[r].job \in Jobs /\ DOMAIN runs[r].read = Assets(runs[r].job)
    BY <1>1, RunTyped DEF AnyRun, SoundReads
  <2>4. \A p \in Told : ValidPacket(p)
    BY <1>1, ToldReports DEF Reports
  <2> QED
    BY <1>1, <2>1, <2>2, <2>3, <2>4 DEF IInv, Types, OneRunPerKey, TypeOK
<1> QED
  BY <1>1, InductiveInvariant, PTL

\* What is published has passed the checks, in every report on any packet.
THEOREM AnonymousIsPublished == Spec => []PublishedIsAnonymous
<1>1. IInv => PublishedIsAnonymous
  BY ToldReports, ReportedIsAnonymous DEF PublishedIsAnonymous
<1> QED
  BY <1>1, InductiveInvariant, PTL

\* What is due is purged, and nothing else, in every report on any packet.
THEOREM DueIsPurged == Spec => []PurgeIsDue
<1>1. IInv => PurgeIsDue
  BY ToldReports, ReportedPurgeIsDue DEF PurgeIsDue
<1> QED
  BY <1>1, InductiveInvariant, PTL

\* The assets of a run that saw no replacement tell of one packet.
THEOREM AssetsTellOne == Spec => []AssetsAgree
<1>1. ASSUME IInv, NEW r \in DOMAIN runs, "decisions" \in DOMAIN runs[r].read,
             \A a \in DOMAIN runs[r].read : runs[r].read[a] \notin Untold,
             runs[r].since = runs[r].until
      PROVE  LET read == runs[r].read
             IN  /\ Decisions(read["decisions"]).anonymize = Outcomes(read["outcomes"]).published
                 /\ Decisions(read["decisions"]).anonymize + Decisions(read["decisions"]).delete
                      = Summary(read["report"]).candidates
  <2> DEFINE read == runs[r].read
  <2>1. r \in 1..Len(runs)
    BY <1>1, ElementsTyped DEF IInv, Types
  <2>2. SoundReads(runs[r])
    BY <1>1, <2>1, RunTyped
  <2>3. "outcomes" \in DOMAIN read /\ "report" \in DOMAIN read
    BY <2>2 DEF SoundReads, Assets
  <2>4. read["outcomes"] = read["decisions"] /\ read["report"] = read["decisions"]
    BY <1>1, <2>2, <2>3 DEF SoundReads
  <2>5. read["decisions"] \in Told
    <3>1. read["decisions"] \in {read[a] : a \in DOMAIN read} /\ read["decisions"] \notin Untold
      BY <1>1
    <3>2. {read[a] : a \in DOMAIN read} \in {{runs[q].read[a] : a \in DOMAIN runs[q].read} : q \in DOMAIN runs}
      BY <1>1
    <3> QED
      BY <3>1, <3>2 DEF Told
  <2>6. IsFiniteSet(DOMAIN read["decisions"].records)
    BY <1>1, <2>5, ToldReports
  <2> QED
    BY <2>4, <2>6, CandidatesDecided
<1>2. IInv => AssetsAgree
  BY <1>1 DEF AssetsAgree
<1> QED
  BY <1>2, InductiveInvariant, PTL

\* A request has one run, but for one without an id in an inbox that lost lines.
THEOREM RequestsRunOnce == Spec => []OneRunPerRequest
<1>1. ASSUME IInv, NEW r \in DOMAIN runs, NEW s \in DOMAIN runs, runs[r].request # None,
             runs[r].request = runs[s].request, r # s
      PROVE  WithoutId(runs[r].request) /\ edits > 0
  <2>1. r \in 1..Len(runs) /\ s \in 1..Len(runs) /\ edits \in Nat
    BY <1>1, ElementsTyped, EditsBounded DEF IInv, Types
  <2>2. PICK l \in AllLines : /\ l.request = runs[r].request
                              /\ runs[r].key \in {l.type} \X IF l.id = None THEN {"line"} \X Nat
                                                               ELSE {l.id}
    BY <1>1, <2>1 DEF IInv, SoundKey
  <2>3. PICK k \in AllLines : /\ k.request = runs[s].request
                              /\ runs[s].key \in {k.type} \X IF k.id = None THEN {"line"} \X Nat
                                                               ELSE {k.id}
    BY <1>1, <2>1 DEF IInv, SoundKey
  <2>4. l.type = k.type /\ l.id = k.id
    BY <1>1, <2>2, <2>3, LinesTyped
  <2>5. runs[r].key # runs[s].key
    BY <1>1, <2>1 DEF IInv, OneRunPerKey
  <2>6. l.id = None
    BY <2>2, <2>3, <2>4, <2>5
  <2>7. WithoutId(runs[r].request)
    BY <1>1, <2>2, <2>6, LinesTyped DEF WithoutId
  <2>8. /\ runs[r].key = <<l.type, <<"line", runs[r].key[2][2]>>>> /\ runs[r].key[2][2] \in Nat
        /\ runs[s].key = <<l.type, <<"line", runs[s].key[2][2]>>>> /\ runs[s].key[2][2] \in Nat
    BY <2>2, <2>3, <2>4, <2>6
  <2>9. ASSUME edits = 0 PROVE FALSE
    <3> DEFINE i == runs[r].key[2][2]
               j == runs[s].key[2][2]
    <3>1. SoundPlace(runs[r]) /\ SoundPlace(runs[s]) /\ OneLine
      BY <1>1, <2>1, <2>9 DEF IInv
    <3>2. /\ i \in 1..Len(inbox) /\ inbox[i].request = runs[r].request /\ inbox[i].kind = "request"
          /\ j \in 1..Len(inbox) /\ inbox[j].request = runs[r].request
      BY <1>1, <2>7, <2>8, <3>1 DEF SoundPlace
    <3>3. i # j
      BY <2>5, <2>8
    <3>4. inbox[i].id # None
      BY <1>1, <3>1, <3>2, <3>3 DEF OneLine
    <3>5. inbox[i] \in AllLines
      <4>1. inbox[i] \in Written
        BY <1>1, <3>2, ElementsTyped DEF IInv, Types
      <4> QED
        BY <3>2, <4>1, BegunLine DEF Written, Begun
    <3> QED
      BY <1>1, <2>2, <2>6, <3>2, <3>4, <3>5, LinesTyped
  <2> QED
    BY <2>7, <2>1, <2>9
<1>2. IInv => OneRunPerRequest
  BY <1>1 DEF OneRunPerRequest
<1> QED
  BY <1>2, InductiveInvariant, PTL
=============================================================================
