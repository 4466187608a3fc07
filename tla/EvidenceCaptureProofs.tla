------------------------- MODULE EvidenceCaptureProofs -------------------------
(***************************************************************************)
(* The evidence in the files, for any events, any number of runs and any   *)
(* failures. The programs and the world meet in two reads: what one of     *)
(* them found among the first n stored events stays as it is, because      *)
(* events are only added (SelectedKept, CountedKept), and what it did not  *)
(* find is added later than it looked. Sound says so of any evidence, in   *)
(* hand or in a file, together with the inputs it was composed from. The   *)
(* last part compares the rules of worker and capture for fields.          *)
(***************************************************************************)
EXTENDS EvidenceCapture, FiniteSetTheorems, WellFoundedInduction, TLAPS

\* Evidence that is true of the inputs, and of the first e.stored events.
Sound(e) ==
  /\ e \in AnyEvidence
  /\ \/ e.classification \in {"blocked-access-gate", "preflight-ready", "blocked-warehouse-check"}
          /\ e.result = None
     \/ e.classification = Classification /\ e.result \in {"passed", "failed"}
  /\ e.classification = "blocked-access-gate" => AccessErrors \cup CaptureErrors # {}
  /\ e.classification = "preflight-ready" => e.warnings = Warnings
  /\ e.classification = "preflight-ready" \/ Judged(e) => AccessErrors = {}
  /\ e.stored <= stored /\ e.at <= clock
  /\ e.landing \subseteq Selected(e.stored)
  /\ Judged(e) => e.dlq = Cardinality(Counted(e.stored))
  /\ Judged(e) /\ e.at = Late => \A i \in e.stored + 2..Len(handled) : handled[i] = Late
  /\ Passed(e) =>
       /\ e.dlq = 0
       /\ \A r \in e.landing : ~FieldHit(EventOf(r))
       /\ \A g \in DOMAIN Minimum :
            Cardinality({r \in e.landing : EventOf(r).name \in g}) >= Minimum[g]

\* What the run in progress has read includes what the run that left the JSON
\* file had read.
Later ==
  Judged(json) =>
    /\ pc = "dlq" => json.landing \subseteq rows
    /\ pc \in {"json", "markdown"} /\ Judged(evidence) =>
         json.landing \subseteq evidence.landing /\ json.stored <= evidence.stored

World ==
  /\ input \in Inputs
  /\ clock \in Before..Late
  /\ occurred \in Seq(Before..Late) /\ handled \in Seq(Before..Late)
  /\ stored \in Nat /\ Len(handled) \in {stored, stored + 1}
  /\ Len(handled) <= Len(occurred) /\ Len(occurred) <= Len(Events)
  /\ \A i \in DOMAIN occurred : occurred[i] <= clock
  /\ \A i \in DOMAIN handled : occurred[i] <= handled[i] /\ handled[i] <= clock

Program ==
  /\ pc \in {"idle", "landing", "dlq", "json", "markdown"}
  /\ (pc \in {"json", "markdown"}) = (evidence # None)
  /\ pc # "dlq" => rows = {}
  /\ rows \subseteq Selected(stored)
  /\ pc \in {"landing", "dlq"} => AccessErrors = {}
  /\ pc = "markdown" => IsRequired /\ json = evidence
  /\ exit \in {None, Killed, 0, 2, 3}
  /\ runs \in 0..input.runs /\ faults \in 0..MaxFaults

\* The inductive invariant.
IInv ==
  /\ World
  /\ Program
  /\ evidence # None => Sound(evidence)
  /\ json # None => Sound(json)
  /\ markdown # None => Sound(markdown)
  /\ FilesAreOfLastRun
  /\ Later

-----------------------------------------------------------------------------
\* The world goes on: a step of time, of the client, of the worker, or of none.
Onward ==
  /\ input' = input
  /\ \/ UNCHANGED <<clock, occurred, handled, stored>>
     \/ clock < Late /\ clock' = clock + 1 /\ UNCHANGED <<occurred, handled, stored>>
     \/ Len(occurred) < Len(Events) /\ occurred' = Append(occurred, clock)
          /\ UNCHANGED <<clock, handled, stored>>
     \/ Len(handled) = stored /\ stored < Len(occurred) /\ handled' = Append(handled, clock)
          /\ UNCHANGED <<clock, occurred, stored>>
     \/ stored < Len(handled) /\ stored' = stored + 1 /\ UNCHANGED <<clock, occurred, handled>>
     \/ stored < Len(handled) /\ handled' = SubSeq(handled, 1, stored)
          /\ UNCHANGED <<clock, occurred, stored>>

\* Evidence composed by the programs is evidence.
LEMMA EvidenceTyped ==
  ASSUME NEW c \in Classifications, NEW r \in {None, "passed", "failed"}, NEW w \in SUBSET Missable,
         NEW l \in SUBSET (Nat \X Nat), NEW d \in Nat, NEW s \in Nat, NEW t \in Before..Late
  PROVE  Evidence(c, r, w, l, d, s, t) \in AnyEvidence
BY DEF Evidence, AnyEvidence

LEMMA AnyIsSome ==
  ASSUME NEW e \in AnyEvidence PROVE e # None
BY NoneIsNothingElse

\* What the inputs say does not change.
LEMMA InputsKept ==
  ASSUME input' = input, NEW e
  PROVE  /\ AccessErrors' = AccessErrors /\ CaptureErrors' = CaptureErrors
         /\ Warnings' = Warnings /\ Classification' = Classification /\ Minimum' = Minimum
         /\ InScope(e)' = InScope(e) /\ FieldHit(e)' = FieldHit(e)
         /\ IsRequired' = IsRequired /\ Events' = Events /\ EventOf(e)' = EventOf(e)
BY DEF AccessErrors, CaptureErrors, Warnings, Classification, Minimum, InScope, FieldHit,
       IsRequired, Events, EventOf

LEMMA AppendLast ==
  ASSUME NEW S, NEW s \in Seq(S), NEW x \in S
  PROVE  /\ Append(s, x) \in Seq(S) /\ Len(s) \in Nat /\ Len(Append(s, x)) = Len(s) + 1
         /\ \A i \in 1..Len(s) : Append(s, x)[i] = s[i]
         /\ Append(s, x)[Len(s) + 1] = x
OBVIOUS

LEMMA ElementsTyped ==
  ASSUME NEW S, NEW s \in Seq(S)
  PROVE  DOMAIN s = 1..Len(s) /\ \A i \in 1..Len(s) : s[i] \in S
OBVIOUS

LEMMA Prefix ==
  ASSUME NEW S, NEW s \in Seq(S), NEW n \in Nat, Len(s) = n + 1
  PROVE  /\ SubSeq(s, 1, n) \in Seq(S) /\ Len(SubSeq(s, 1, n)) = n
         /\ \A i \in 1..n : SubSeq(s, 1, n)[i] = s[i]
OBVIOUS

\* What is stored stays, and what comes is of the present time.
LEMMA PastKept ==
  ASSUME World, Onward
  PROVE  /\ stored \in Nat /\ stored' \in Nat /\ stored <= stored'
         /\ stored <= Len(handled) /\ Len(handled) \in Nat /\ Len(handled') \in Nat
         /\ \A i \in 1..stored : handled'[i] = handled[i] /\ occurred'[i] = occurred[i]
         /\ \A i \in 1..Len(handled') :
              (i <= Len(handled) /\ handled'[i] = handled[i]) \/ handled'[i] = clock
<1>1. /\ handled \in Seq(Before..Late) /\ occurred \in Seq(Before..Late) /\ clock \in Before..Late
      /\ Len(handled) \in Nat /\ Len(occurred) \in Nat /\ Len(handled) <= Len(occurred)
      /\ stored \in Nat /\ Len(handled) \in {stored, stored + 1}
  BY DEF World
<1>2. CASE UNCHANGED <<occurred, handled>> /\ stored' \in {stored, stored + 1}
  BY <1>1, <1>2
<1>3. CASE occurred' = Append(occurred, clock) /\ UNCHANGED <<handled, stored>>
  BY <1>1, <1>3, AppendLast
<1>4. CASE handled' = Append(handled, clock) /\ UNCHANGED <<occurred, stored>>
  BY <1>1, <1>4, AppendLast
<1>5. CASE stored < Len(handled) /\ handled' = SubSeq(handled, 1, stored)
             /\ UNCHANGED <<occurred, stored>>
  <2>1. /\ Len(handled') = stored /\ \A i \in 1..stored : handled'[i] = handled[i]
    BY <1>1, <1>5, Prefix
  <2> QED
    BY <1>1, <1>5, <2>1
<1> QED
  BY <1>1, <1>2, <1>3, <1>4, <1>5 DEF Onward

\* World, its domains spelled out.
LEMMA WorldParts ==
  World <=>
    /\ input \in Inputs /\ clock \in Before..Late /\ stored \in Nat
    /\ occurred \in Seq(Before..Late) /\ handled \in Seq(Before..Late)
    /\ Len(handled) \in {stored, stored + 1}
    /\ Len(handled) <= Len(occurred) /\ Len(occurred) <= Len(Events)
    /\ \A i \in 1..Len(occurred) : occurred[i] <= clock
    /\ \A i \in 1..Len(handled) : occurred[i] <= handled[i] /\ handled[i] <= clock
BY ElementsTyped DEF World

LEMMA WorldKept ==
  ASSUME World, Onward
  PROVE  World' /\ clock <= clock'
<1> DEFINE Times == Before..Late
<1>1. /\ input \in Inputs /\ clock \in Times /\ clock \in Nat /\ stored \in Nat
      /\ occurred \in Seq(Times) /\ handled \in Seq(Times)
      /\ Len(handled) \in Nat /\ Len(occurred) \in Nat
      /\ Len(handled) \in {stored, stored + 1}
      /\ Len(handled) <= Len(occurred) /\ Len(occurred) <= Len(Events)
      /\ \A i \in 1..Len(occurred) : occurred[i] <= clock
      /\ \A i \in 1..Len(handled) : occurred[i] <= handled[i] /\ handled[i] <= clock
  BY WorldParts DEF Before, Late
<1>2. /\ \A i \in 1..Len(occurred) : occurred[i] \in Nat
      /\ \A i \in 1..Len(handled) : handled[i] \in Nat
  <2>1. /\ \A i \in 1..Len(occurred) : occurred[i] \in Times
        /\ \A i \in 1..Len(handled) : handled[i] \in Times
    BY <1>1, ElementsTyped
  <2> QED
    BY <2>1 DEF Before, Late
<1>3. input' \in Inputs /\ Events' = Events /\ Len(Events) \in Nat
  BY <1>1, InputsKept, InputsTyped DEF Onward, Events
<1> DEFINE Parts ==
      /\ clock' \in Times /\ clock <= clock' /\ stored' \in Nat
      /\ occurred' \in Seq(Times) /\ handled' \in Seq(Times)
      /\ Len(handled') \in {stored', stored' + 1}
      /\ Len(handled') <= Len(occurred') /\ Len(occurred') <= Len(Events)
      /\ \A i \in 1..Len(occurred') : occurred'[i] <= clock'
      /\ \A i \in 1..Len(handled') : occurred'[i] <= handled'[i] /\ handled'[i] <= clock'
<1>4. ASSUME Parts PROVE World' /\ clock <= clock'
  BY <1>3, <1>4, ElementsTyped DEF World
<1>5. CASE UNCHANGED <<clock, occurred, handled, stored>>
  <2>1. Parts
    BY <1>1, <1>5
  <2> QED
    BY <1>4, <2>1
<1>6. CASE clock < Late /\ clock' = clock + 1 /\ UNCHANGED <<occurred, handled, stored>>
  <2>1. clock' \in Times /\ clock' \in Nat /\ clock <= clock'
    BY <1>1, <1>6 DEF Before, Late
  <2> HIDE DEF Times
  <2>2. \A i \in 1..Len(occurred) : occurred[i] <= clock'
    BY <1>1, <1>2, <1>6, <2>1
  <2>3. \A i \in 1..Len(handled) : occurred[i] <= handled[i] /\ handled[i] <= clock'
    BY <1>1, <1>2, <1>6, <2>1
  <2>4. Parts
    BY <1>1, <1>6, <2>1, <2>2, <2>3
  <2> QED
    BY <1>4, <2>4
<1>7. CASE Len(occurred) < Len(Events) /\ occurred' = Append(occurred, clock)
             /\ UNCHANGED <<clock, handled, stored>>
  <2> HIDE DEF Times
  <2>1. /\ occurred' \in Seq(Times) /\ Len(occurred') = Len(occurred) + 1
        /\ \A i \in 1..Len(occurred) : occurred'[i] = occurred[i]
        /\ occurred'[Len(occurred) + 1] = clock
    BY <1>1, <1>7, AppendLast
  <2>2. \A i \in 1..Len(occurred') : occurred'[i] <= clock
    BY <1>1, <2>1
  <2>3. \A i \in 1..Len(handled) : occurred'[i] <= handled[i] /\ handled[i] <= clock
    BY <1>1, <2>1
  <2>4. Parts
    BY <1>1, <1>3, <1>7, <2>1, <2>2, <2>3
  <2> QED
    BY <1>4, <2>4
<1>8. CASE Len(handled) = stored /\ stored < Len(occurred) /\ handled' = Append(handled, clock)
             /\ UNCHANGED <<clock, occurred, stored>>
  <2> HIDE DEF Times
  <2>1. /\ handled' \in Seq(Times) /\ Len(handled') = Len(handled) + 1
        /\ \A i \in 1..Len(handled) : handled'[i] = handled[i]
        /\ handled'[Len(handled) + 1] = clock
    BY <1>1, <1>8, AppendLast
  <2>2. \A i \in 1..Len(handled') : occurred[i] <= handled'[i] /\ handled'[i] <= clock
    BY <1>1, <1>8, <2>1
  <2>3. Parts
    BY <1>1, <1>8, <2>1, <2>2
  <2> QED
    BY <1>4, <2>3
<1>9. CASE stored < Len(handled) /\ stored' = stored + 1 /\ UNCHANGED <<clock, occurred, handled>>
  <2>1. Parts
    BY <1>1, <1>9
  <2> QED
    BY <1>4, <2>1
<1>10. CASE stored < Len(handled) /\ handled' = SubSeq(handled, 1, stored)
              /\ UNCHANGED <<clock, occurred, stored>>
  <2> HIDE DEF Times
  <2>1. /\ handled' \in Seq(Times) /\ Len(handled') = stored
        /\ \A i \in 1..stored : handled'[i] = handled[i]
    BY <1>1, <1>10, Prefix
  <2>2. \A i \in 1..Len(handled') : occurred[i] <= handled'[i] /\ handled'[i] <= clock
    BY <1>1, <1>10, <2>1
  <2>3. Parts
    BY <1>1, <1>10, <2>1, <2>2
  <2> QED
    BY <1>4, <2>3
<1> QED
  BY <1>5, <1>6, <1>7, <1>8, <1>9, <1>10 DEF Onward

\* The rows that a query sees are pairs of the number of an event and a copy.
LEMMA RowsTyped ==
  ASSUME NEW n \in Nat
  PROVE  LandedOf(n) \subseteq (1..n) \X (1..5) /\ DlqOf(n) \subseteq (1..n) \X (1..5)
BY DEF LandedOf, DlqOf, RowsOf

LEMMA CountedFinite ==
  ASSUME NEW n \in Nat
  PROVE  IsFiniteSet(Counted(n)) /\ Cardinality(Counted(n)) \in Nat
<1>1. Counted(n) \subseteq (1..n) \X (1..5)
  BY RowsTyped DEF Counted
<1>2. IsFiniteSet(1..n) /\ IsFiniteSet(1..5)
  <2>1. 1 \in Int /\ 5 \in Int /\ n \in Int
    OBVIOUS
  <2> QED
    BY <2>1, FS_Interval
<1>3. IsFiniteSet((1..n) \X (1..5))
  BY <1>2, FS_Product
<1> QED
  BY <1>1, <1>3, FS_Subset, FS_CardinalityType

LEMMA CopiesNumber ==
  ASSUME NEW i, NEW k \in 1..5
  PROVE  IsFiniteSet({i} \X (1..k)) /\ Cardinality({i} \X (1..k)) = k
<1>1. PICK T : T = 1..k
  OBVIOUS
<1>2. IsFiniteSet(T) /\ Cardinality(T) = k
  <2>1. 1 \in Int /\ k \in Int /\ ~(1 > k) /\ k - 1 + 1 = k
    OBVIOUS
  <2> QED
    BY <1>1, <2>1, FS_Interval
<1>3. IsFiniteSet({i}) /\ Cardinality({i}) = 1
  BY FS_Singleton
<1>4. IsFiniteSet({i} \X T) /\ Cardinality({i} \X T) = Cardinality({i}) * Cardinality(T)
  BY <1>2, <1>3, FS_Product
<1> QED
  BY <1>1, <1>2, <1>3, <1>4

LEMMA SelectedTyped ==
  ASSUME NEW n \in Nat PROVE Selected(n) \subseteq Nat \X Nat
BY RowsTyped DEF Selected

\* More stored events, more rows.
LEMMA RowsGrow ==
  ASSUME NEW m \in Nat, NEW n \in Nat, m <= n
  PROVE  LandedOf(m) \subseteq LandedOf(n) /\ DlqOf(m) \subseteq DlqOf(n)
BY DEF LandedOf, DlqOf, RowsOf

LEMMA SelectedGrows ==
  ASSUME NEW m \in Nat, NEW n \in Nat, m <= n
  PROVE  Selected(m) \subseteq Selected(n) /\ Selected(m)' \subseteq Selected(n)'
BY DEF Selected, LandedOf, RowsOf

\* The rows of the events stored by now stay, and so does what is selected and
\* counted of them.
LEMMA RowsKept ==
  ASSUME input' = input, NEW n
  PROVE  LandedOf(n)' = LandedOf(n) /\ DlqOf(n)' = DlqOf(n)
BY InputsKept DEF LandedOf, DlqOf, RowsOf, Events

LEMMA SelectedKept ==
  ASSUME World, Onward, NEW n \in Nat, n <= stored
  PROVE  Selected(n)' = Selected(n)
<1>1. input' = input
  BY DEF Onward
<1>2. \A row \in LandedOf(n) : row[1] \in 1..stored
  BY RowsTyped DEF World
<1>3. \A row \in LandedOf(n) : occurred'[row[1]] = occurred[row[1]]
  BY <1>2, PastKept
<1>4. \A row : InScope(EventOf(row))' = InScope(EventOf(row))
  BY <1>1 DEF InScope, EventOf, IsRequired, Events
<1> QED
  BY <1>1, <1>3, <1>4, RowsKept DEF Selected

LEMMA CountedKept ==
  ASSUME World, Onward, NEW n \in Nat, n <= stored
  PROVE  Counted(n)' = Counted(n)
<1>1. input' = input
  BY DEF Onward
<1>2. \A row \in DlqOf(n) : row[1] \in 1..stored
  BY RowsTyped DEF World
<1>3. \A row \in DlqOf(n) : handled'[row[1]] = handled[row[1]]
  BY <1>2, PastKept
<1> QED
  BY <1>1, <1>3, RowsKept, InputsKept DEF Counted

\* What was counted late is all there is to count, but for the event whose
\* transaction was open.
LEMMA CountedLate ==
  ASSUME World, NEW m \in Nat, NEW n \in Nat, m <= n, n <= stored,
         \A i \in m + 2..Len(handled) : handled[i] = Late
  PROVE  \/ Counted(m) = Counted(n)
         \/ /\ m + 1 <= n /\ handled[m + 1] \in {Window, Grace}
            /\ Cardinality(Counted(n)) = Cardinality(Counted(m)) + Events[m + 1].copies
<1>1. Counted(m) \subseteq Counted(n)
  BY RowsGrow DEF Counted
<1>2. stored \in Nat /\ Len(handled) \in Nat /\ n <= Len(handled) /\ n <= Len(Events)
        /\ Len(Events) \in Nat /\ input \in Inputs
  BY InputsTyped DEF World, Events
<1>3. \A row \in Counted(n) : row \in (1..n) \X (1..5) /\ row \in DlqOf(n)
                                /\ handled[row[1]] \in {Window, Grace}
  BY RowsTyped DEF Counted
<1>4. ASSUME NEW row \in Counted(n), row[1] # m + 1 PROVE row \in Counted(m)
  <2>1. row[1] \in 1..m
    <3>1. row[1] \in 1..n /\ handled[row[1]] # Late
      BY <1>3 DEF Window, Grace, Late
    <3> QED
      BY <1>2, <1>4, <3>1
  <2>2. row \in DlqOf(m)
    BY <1>3, <2>1 DEF DlqOf, RowsOf
  <2> QED
    BY <2>2 DEF Counted
<1>5. \A row \in Counted(m) : row[1] # m + 1
  <2>1. \A row \in Counted(m) : row[1] \in 1..m
    BY RowsTyped DEF Counted
  <2> QED
    BY <2>1
<1>6. CASE \A row \in Counted(n) : row[1] # m + 1
  BY <1>1, <1>4, <1>6
<1>7. ASSUME NEW row \in Counted(n), row[1] = m + 1
      PROVE  /\ m + 1 <= n /\ handled[m + 1] \in {Window, Grace}
             /\ Cardinality(Counted(n)) = Cardinality(Counted(m)) + Events[m + 1].copies
  <2> DEFINE k == Events[m + 1].copies
             copies == {m + 1} \X (1..k)
  <2>1. m + 1 \in 1..n /\ handled[m + 1] \in {Window, Grace}
    BY <1>3, <1>7
  <2>2. k \in 1..5
    BY <1>2, <2>1, InputsTyped DEF Events
  <2>3. Verdict(Events[m + 1]) # "accepted" /\ Identified(Events[m + 1]) /\ Events[m + 1].prefix
    BY <1>3, <1>7 DEF Counted, DlqOf, RowsOf, EventOf
  <2>4. copies \subseteq Counted(n)
    <3>1. ASSUME NEW c \in copies PROVE c \in Counted(n)
      <4>1. c \in (1..n) \X (1..5) /\ c[1] = m + 1 /\ c[2] <= k
        BY <2>1, <2>2
      <4>2. c \in DlqOf(n)
        BY <2>3, <4>1 DEF DlqOf, RowsOf
      <4> QED
        BY <2>1, <2>3, <4>1, <4>2 DEF Counted, EventOf
    <3> QED
      BY <3>1
  <2>5. \A r \in Counted(n) : r[1] = m + 1 => r \in copies
    <3>1. ASSUME NEW r \in Counted(n), r[1] = m + 1 PROVE r \in copies
      <4>1. r \in (1..n) \X (1..5) /\ r[2] <= k
        BY <1>3, <3>1 DEF DlqOf, RowsOf
      <4> QED
        BY <2>2, <3>1, <4>1
    <3> QED
      BY <3>1
  <2>6. Counted(n) = Counted(m) \cup copies /\ Counted(m) \cap copies = {}
    <3>1. \A c \in copies : c[1] = m + 1
      OBVIOUS
    <3> HIDE DEF copies
    <3> QED
      BY <1>1, <1>4, <1>5, <2>4, <2>5, <3>1
  <2>7. IsFiniteSet(copies) /\ Cardinality(copies) = k
    <3> HIDE DEF k
    <3> QED
      BY <2>2, CopiesNumber
  <2>8. IsFiniteSet(Counted(m)) /\ Cardinality(Counted(m)) \in Nat
    BY CountedFinite
  <2>9. Cardinality(Counted(m) \cup copies) = Cardinality(Counted(m)) + k
    <3> HIDE DEF copies, k
    <3>1. Cardinality(Counted(m) \cup copies)
            = Cardinality(Counted(m)) + Cardinality(copies) - Cardinality(Counted(m) \cap copies)
      BY <2>7, <2>8, FS_Union
    <3>2. Cardinality(Counted(m) \cap copies) = 0
      BY <2>6, FS_EmptySet
    <3> QED
      BY <2>2, <2>7, <2>8, <3>1, <3>2 DEF k
  <2> QED
    BY <2>1, <2>6, <2>9
<1> QED
  BY <1>6, <1>7

\* Evidence stays sound whatever the world does.
LEMMA SoundKept ==
  ASSUME World, Onward, NEW e, Sound(e)
  PROVE  Sound(e)'
<1>1. input' = input
  BY DEF Onward
<1>2. e.stored \in Nat /\ e.stored <= stored /\ stored \in Nat /\ stored' \in Nat
        /\ e.at \in Before..Late
  BY WorldKept DEF Sound, AnyEvidence, World
<1>3. e.stored <= stored' /\ e.at <= clock'
  <2>1. e.at <= clock /\ clock <= clock' /\ clock \in Nat /\ clock' \in Nat /\ e.at \in Nat
    <3>1. World' /\ clock <= clock'
      BY WorldKept
    <3>2. clock \in Before..Late /\ clock' \in Before..Late
      BY <3>1 DEF World
    <3>3. e.at <= clock
      BY DEF Sound
    <3> QED
      BY <1>2, <3>1, <3>2, <3>3 DEF Before, Late
  <2>2. stored <= stored'
    BY PastKept
  <2> QED
    BY <1>2, <2>1, <2>2
<1>4. Selected(e.stored)' = Selected(e.stored) /\ Counted(e.stored)' = Counted(e.stored)
  BY <1>2, SelectedKept, CountedKept
<1>5. ASSUME e.at = Late, \A i \in e.stored + 2..Len(handled) : handled[i] = Late
      PROVE  \A i \in e.stored + 2..Len(handled') : handled'[i] = Late
  <2>1. clock = Late
    BY <1>5 DEF Sound, World, Before, Late
  <2>2. /\ Len(handled) \in Nat /\ Len(handled') \in Nat
        /\ \A i \in 1..Len(handled') :
             (i <= Len(handled) /\ handled'[i] = handled[i]) \/ handled'[i] = clock
    BY PastKept
  <2> QED
    BY <1>2, <1>5, <2>1, <2>2
<1>6. \A r : FieldHit(EventOf(r))' = FieldHit(EventOf(r)) /\ EventOf(r)' = EventOf(r)
  BY <1>1 DEF FieldHit, EventOf, IsRequired, Events
<1> QED
  BY <1>1, <1>3, <1>4, <1>5, <1>6, InputsKept DEF Sound, Judged, Passed

-----------------------------------------------------------------------------
LEMMA ClassificationTyped ==
  Classification \in {"required-analytics-internal-qa-capture", "required-analytics-external-capture",
                      "production-limited-canary-capture"}
BY DEF Classification, Required!Classification, Canary!Classification

LEMMA WarningsTyped == Warnings \in SUBSET Missable
BY DEF Missable, Warnings, Required!Warnings, Canary!Warnings, Required!NeededChecks,
       Canary!NeededChecks

\* The exit code tells what the evidence says.
LEMMA ExitCodeTells ==
  ASSUME NEW e, Sound(e)
  PROVE  /\ e # None
         /\ ExitCode(e) = (IF Passed(e) \/ e.classification = "preflight-ready"
                           THEN 0 ELSE IF Judged(e) THEN 3 ELSE 2)
<1>1. e # None
  BY AnyIsSome DEF Sound
<1>2. None \notin {"passed", "failed"}
  BY NoneIsNothingElse
<1>3. CASE e.classification \in {"blocked-access-gate", "preflight-ready", "blocked-warehouse-check"}
             /\ e.result = None
  BY <1>1, <1>2, <1>3 DEF ExitCode, Passed, Judged
<1>4. CASE e.classification = Classification /\ e.result \in {"passed", "failed"}
  BY <1>1, <1>2, <1>4, ClassificationTyped DEF ExitCode, Passed, Judged
<1> QED
  BY <1>3, <1>4 DEF Sound

\* A step of the program leaves the world, and what is sound, as it is.
LEMMA Still ==
  ASSUME World, UNCHANGED outside
  PROVE  /\ Onward /\ World'
         /\ \A n : Selected(n)' = Selected(n) /\ Counted(n)' = Counted(n)
         /\ \A e : Sound(e) => Sound(e)'
<1>1. Onward
  BY DEF outside, Onward
<1>2. \A n : Selected(n)' = Selected(n) /\ Counted(n)' = Counted(n)
  BY RowsKept, InputsKept DEF outside, Selected, Counted
<1> QED
  BY <1>1, <1>2, WorldKept, SoundKept

\* Evidence without a judgement, in any state.
LEMMA BlockedIsSound ==
  ASSUME World, NEW e, NEW c \in {"blocked-access-gate", "preflight-ready", "blocked-warehouse-check"},
         NEW w \in SUBSET Missable, e = Evidence(c, None, w, {}, 0, 0, Before),
         c = "blocked-access-gate" => AccessErrors \cup CaptureErrors # {},
         c = "preflight-ready" => AccessErrors = {} /\ w = Warnings
  PROVE  Sound(e) /\ ~Judged(e)
<1>1. 0 \in Nat /\ {} \in SUBSET (Nat \X Nat) /\ Before \in Before..Late /\ None \in {None, "passed", "failed"}
        /\ c \in Classifications
  BY DEF Before, Late, Classifications
<1>2. e \in AnyEvidence
  BY <1>1, EvidenceTyped
<1>3. e.classification = c /\ e.result = None /\ e.warnings = w /\ e.landing = {} /\ e.stored = 0
        /\ e.at = Before
  BY DEF Evidence
<1>4. 0 <= stored /\ Before <= clock
  BY DEF World, Before, Late
<1>5. ~Judged(e) /\ ~Passed(e)
  BY <1>3, NoneIsNothingElse DEF Judged, Passed
<1> QED
  BY <1>2, <1>3, <1>4, <1>5 DEF Sound

\* The judgement on rows read among the stored events, and on the DLQ as it is.
LEMMA JudgementIsSound ==
  ASSUME World, AccessErrors = {}, NEW e, rows \subseteq Selected(stored),
         e = LET dlqCount == Cardinality(Counted(stored))
                 criteria == SuccessCriteria(rows, dlqCount)
                 passed == \A c \in DOMAIN criteria : criteria[c]
             IN  Evidence(Classification, IF passed THEN "passed" ELSE "failed", {},
                          rows, dlqCount, stored, clock)
  PROVE  Sound(e) /\ Judged(e) /\ e.landing = rows /\ e.stored = stored
<1> DEFINE d == Cardinality(Counted(stored))
           criteria == SuccessCriteria(rows, d)
           r == IF \A c \in DOMAIN criteria : criteria[c] THEN "passed" ELSE "failed"
<1>1. stored \in Nat /\ Len(handled) \in {stored, stored + 1} /\ clock \in Before..Late
  BY DEF World
<1>2. d \in Nat /\ rows \in SUBSET (Nat \X Nat)
  BY <1>1, CountedFinite, SelectedTyped
<1>3. e = Evidence(Classification, r, {}, rows, d, stored, clock)
  OBVIOUS
<1>4. Classification \in Classifications /\ r \in {None, "passed", "failed"} /\ {} \in SUBSET Missable
  BY ClassificationTyped DEF Classifications
<1>5. e \in AnyEvidence
  <2> HIDE DEF d, r
  <2> QED
    BY <1>1, <1>2, <1>3, <1>4, EvidenceTyped
<1>6. /\ e.classification = Classification /\ e.result = r /\ e.landing = rows /\ e.dlq = d
      /\ e.stored = stored /\ e.at = clock
  <2> HIDE DEF d, r
  <2> QED
    BY <1>3 DEF Evidence
<1>7. Judged(e)
  BY <1>5, <1>6, AnyIsSome, NoneIsNothingElse DEF Judged
<1>8. ASSUME Passed(e)
      PROVE  /\ d = 0
             /\ \A x \in rows : ~FieldHit(EventOf(x))
             /\ \A g \in DOMAIN Minimum :
                  Cardinality({x \in rows : EventOf(x).name \in g}) >= Minimum[g]
  <2>1. \A c \in DOMAIN criteria : criteria[c]
    BY <1>6, <1>8 DEF Passed
  <2> HIDE DEF d
  <2>2. CASE IsRequired
    <3>1. DOMAIN criteria = {"dlq_zero", "no_forbidden_fields", "only_expected_event_names",
                             "downstream_checks_passed", "stop_rollback_recorded", "events_seen"}
      BY <2>2 DEF SuccessCriteria, Required!SuccessCriteria
    <3>2. criteria.dlq_zero /\ criteria.no_forbidden_fields /\ criteria.events_seen
      BY <2>1, <3>1
    <3> QED
      BY <2>2, <3>2 DEF SuccessCriteria, Required!SuccessCriteria, Minimum, Required!Minimum
  <2>3. CASE ~IsRequired
    <3>1. DOMAIN criteria = {"seeded_privacy_flags_true", "dlq_zero", "no_forbidden_fields",
                             "only_allowed_event_names", "downstream_checks_passed", "events_seen"}
      BY <2>3 DEF SuccessCriteria, Canary!SuccessCriteria
    <3>2. criteria.dlq_zero /\ criteria.no_forbidden_fields /\ criteria.events_seen
      BY <2>1, <3>1
    <3> QED
      BY <2>3, <3>2 DEF SuccessCriteria, Canary!SuccessCriteria, Minimum
  <2> QED
    BY <2>2, <2>3
<1>9. e.stored <= stored /\ e.at <= clock
        /\ \A i \in e.stored + 2..Len(handled) : handled[i] = Late
  BY <1>1, <1>6 DEF Before, Late
<1> HIDE DEF d, r
<1>10. r \in {"passed", "failed"}
  BY DEF r
<1>11. e.classification \notin {"blocked-access-gate", "preflight-ready", "blocked-warehouse-check"}
  BY <1>6, ClassificationTyped
<1>12. e.dlq = Cardinality(Counted(e.stored))
  BY <1>6 DEF d
<1> QED
  BY <1>5, <1>6, <1>7, <1>8, <1>9, <1>10, <1>11, <1>12 DEF Sound

-----------------------------------------------------------------------------
LEMMA InitHolds == Init => IInv
<1> SUFFICES ASSUME Init PROVE IInv
  OBVIOUS
<1>1. World
  BY InputsTyped DEF Init, World, Before, Late, Events
<1>2. Program
  BY InputsTyped, FaultsBounded DEF Init, Program
<1>3. FilesAreOfLastRun /\ Later
  BY NoneIsNothingElse DEF Init, FilesAreOfLastRun, Later, Judged
<1> QED
  BY <1>1, <1>2, <1>3 DEF Init, IInv

\* Time, the client and the worker.
LEMMA WorldSteps ==
  ASSUME IInv, Onward, UNCHANGED <<process, files, exit, runs, faults>>
  PROVE  IInv'
<1>1. World' /\ IsRequired' = IsRequired /\ AccessErrors' = AccessErrors /\ input' = input
  BY WorldKept, InputsKept DEF IInv, Onward
<1>2. /\ World /\ Program
      /\ stored \in Nat /\ stored' \in Nat /\ stored <= stored'
  BY PastKept DEF IInv
<1>3. rows' \subseteq Selected(stored)'
  <2>1. PICK m \in Nat, n \in Nat : m = stored /\ n = stored'
    BY <1>2
  <2>2. Selected(m)' = Selected(m)
    BY <1>2, <2>1, SelectedKept
  <2>3. Selected(m)' \subseteq Selected(n)'
    BY <1>2, <2>1, SelectedGrows
  <2>4. rows \subseteq Selected(m) /\ rows' = rows
    BY <1>2, <2>1 DEF Program, process
  <2>5. Selected(n)' = Selected(stored)'
    BY <2>1 DEF Selected
  <2> QED
    BY <2>2, <2>3, <2>4, <2>5
<1>4. Program'
  BY <1>1, <1>2, <1>3 DEF Program, process, files
<1>5. \A e : Sound(e) => Sound(e)'
  BY <1>2, SoundKept
<1>6. /\ evidence' # None => Sound(evidence)'
      /\ json' # None => Sound(json)'
      /\ markdown' # None => Sound(markdown)'
  <2>1. evidence' = evidence /\ json' = json /\ markdown' = markdown
    BY DEF process, files
  <2>2. PICK e, j, m : e = evidence /\ j = json /\ m = markdown
    OBVIOUS
  <2>3. (e # None => Sound(e)) /\ (j # None => Sound(j)) /\ (m # None => Sound(m))
    BY <2>2 DEF IInv
  <2>4. (e # None => Sound(e)') /\ (j # None => Sound(j)') /\ (m # None => Sound(m)')
    BY <1>5, <2>3
  <2> QED
    BY <2>1, <2>2, <2>4
<1>7. FilesAreOfLastRun' /\ Later'
  BY <1>1 DEF IInv, FilesAreOfLastRun, Later, Judged, Passed, process, files
<1> QED
  BY <1>1, <1>4, <1>6, <1>7 DEF IInv

\* What holds in every state before a step of the program, and what the step
\* leaves.
LEMMA ProgramStep ==
  ASSUME IInv, UNCHANGED outside
  PROVE  /\ World' /\ IsRequired' = IsRequired /\ AccessErrors' = AccessErrors /\ input' = input
         /\ Selected(stored)' = Selected(stored)
         /\ stored \in Nat
         /\ UNCHANGED evidence /\ evidence # None => Sound(evidence)'
         /\ UNCHANGED json /\ json # None => Sound(json)'
         /\ UNCHANGED markdown /\ markdown # None => Sound(markdown)'
<1>1. World /\ World' /\ \A e : Sound(e) => Sound(e)'
  BY Still DEF IInv
<1>2. PICK e, j, m : e = evidence /\ j = json /\ m = markdown
  OBVIOUS
<1>3. (e # None => Sound(e)') /\ (j # None => Sound(j)') /\ (m # None => Sound(m)')
  <2>1. (e # None => Sound(e)) /\ (j # None => Sound(j)) /\ (m # None => Sound(m))
    BY <1>2 DEF IInv
  <2> QED
    BY <1>1, <2>1
<1>4. Selected(stored)' = Selected(stored) /\ stored \in Nat
  <2>1. PICK n \in Nat : n = stored
    BY <1>1 DEF World
  <2>2. Selected(n)' = Selected(n)
    BY <1>1, Still
  <2>3. Selected(n)' = Selected(stored)'
    BY <2>1 DEF Selected, outside
  <2> QED
    BY <2>1, <2>2, <2>3
<1>5. IsRequired' = IsRequired /\ AccessErrors' = AccessErrors /\ input' = input
  BY InputsKept DEF outside
<1> QED
  BY <1>1, <1>2, <1>3, <1>4, <1>5

\* Evidence that a step composes.
LEMMA Composed ==
  ASSUME World, UNCHANGED outside, NEW e, Sound(e), evidence' = e
  PROVE  Sound(evidence)' /\ evidence' # None
BY Still, AnyIsSome DEF Sound

LEMMA StartStep ==
  ASSUME IInv, NEW mode \in {"preflight", "capture"}, Start(mode)
  PROVE  IInv'
<1> DEFINE errors == AccessErrors \cup (IF mode = "capture" THEN CaptureErrors ELSE {})
           warnings == IF mode = "preflight" THEN Warnings ELSE {}
           class == IF errors # {} THEN "blocked-access-gate" ELSE "preflight-ready"
<1>1. UNCHANGED outside /\ UNCHANGED <<rows, json, markdown, exit, faults>>
        /\ runs' = runs + 1 /\ pc = "idle" /\ runs < input.runs /\ evidence = None
  BY DEF Start, files, IInv, Program
<1>2. World /\ rows = {} /\ input.runs \in Nat
  BY <1>1, InputsTyped DEF IInv, Program, World
<1>3. pc' # "idle" /\ exit' \in {None, Killed, 0, 2, 3} /\ runs' \in 0..input.runs
        /\ faults' \in 0..MaxFaults
  BY <1>1, <1>2 DEF Start, IInv, Program
<1>4. CASE errors # {} \/ mode = "preflight"
  <2>1. evidence' = Evidence(class, None, warnings, {}, 0, 0, Before) /\ pc' = "json"
    BY <1>4 DEF Start
  <2>2. /\ class \in {"blocked-access-gate", "preflight-ready", "blocked-warehouse-check"}
        /\ warnings \in SUBSET Missable
        /\ class = "blocked-access-gate" => AccessErrors \cup CaptureErrors # {}
        /\ class = "preflight-ready" => AccessErrors = {} /\ warnings = Warnings
    BY <1>4, WarningsTyped
  <2>3. PICK e : e = evidence'
    OBVIOUS
  <2>4. Sound(e) /\ ~Judged(e)
    <3> HIDE DEF class, warnings
    <3> QED
      BY <1>2, <2>1, <2>2, <2>3, BlockedIsSound
  <2>5. Sound(evidence)' /\ evidence' # None
    BY <1>1, <1>2, <2>3, <2>4, Composed
  <2>6. ~Judged(evidence)'
    BY <2>3, <2>4 DEF Judged
  <2>7. Program'
    BY <1>1, <1>2, <1>3, <2>1, <2>5, ProgramStep DEF Program
  <2>8. FilesAreOfLastRun' /\ Later'
    BY <2>1, <2>6 DEF FilesAreOfLastRun, Later
  <2> QED
    BY <1>1, <2>5, <2>7, <2>8, ProgramStep DEF IInv
<1>5. CASE errors = {} /\ mode = "capture"
  <2>1. UNCHANGED evidence /\ pc' = "landing" /\ AccessErrors = {}
    BY <1>5 DEF Start
  <2>2. Program'
    BY <1>1, <1>2, <1>3, <2>1, ProgramStep DEF Program
  <2>3. FilesAreOfLastRun' /\ Later'
    BY <2>1 DEF FilesAreOfLastRun, Later
  <2> QED
    BY <1>1, <2>1, <2>2, <2>3, ProgramStep DEF IInv
<1> QED
  BY <1>4, <1>5

LEMMA ReadLandingStep ==
  ASSUME IInv, ReadLanding
  PROVE  IInv'
<1>1. UNCHANGED outside /\ UNCHANGED <<evidence, json, markdown, exit, runs, faults>>
        /\ pc = "landing" /\ pc' = "dlq" /\ rows' = Selected(stored)
  BY DEF ReadLanding, files
<1>2. ASSUME Judged(json) PROVE json.landing \subseteq rows'
  <2>1. Sound(json) /\ json.stored \in Nat /\ json.stored <= stored /\ stored \in Nat
          /\ json.landing \subseteq Selected(json.stored)
    BY <1>2, SMTT(30) DEF Judged, IInv, World, Sound, AnyEvidence
  <2> QED
    BY <1>1, <2>1, SelectedGrows
<1>3. Later'
  BY <1>1, <1>2 DEF Later, Judged
<1>4. Program'
  BY <1>1, ProgramStep DEF IInv, Program
<1>5. FilesAreOfLastRun'
  BY <1>1 DEF FilesAreOfLastRun
<1> QED
  BY <1>1, <1>3, <1>4, <1>5, ProgramStep DEF IInv

LEMMA CountDlqStep ==
  ASSUME IInv, CountDlq
  PROVE  IInv'
<1>1. UNCHANGED outside /\ UNCHANGED <<json, markdown, exit, runs, faults>>
        /\ pc = "dlq" /\ pc' = "json" /\ rows' = {} /\ World /\ AccessErrors = {}
        /\ rows \subseteq Selected(stored)
  BY DEF CountDlq, files, IInv, Program
<1>2. PICK e : e = evidence'
  OBVIOUS
<1>3. Sound(e) /\ Judged(e) /\ e.landing = rows /\ e.stored = stored
  BY <1>1, <1>2, JudgementIsSound DEF CountDlq
<1>4. Sound(evidence)' /\ evidence' # None
  BY <1>1, <1>2, <1>3, Composed
<1>5. Later'
  <2>1. ASSUME Judged(json) PROVE json.landing \subseteq rows /\ json.stored <= stored
    BY <1>1, <2>1 DEF Judged, IInv, Later, Sound
  <2> QED
    BY <1>1, <1>2, <1>3, <2>1 DEF Later, Judged
<1>6. Program'
  BY <1>1, <1>4, ProgramStep DEF IInv, Program
<1>7. FilesAreOfLastRun'
  BY <1>1 DEF FilesAreOfLastRun
<1> QED
  BY <1>1, <1>4, <1>5, <1>6, <1>7, ProgramStep DEF IInv

LEMMA WarehouseErrorStep ==
  ASSUME IInv, WarehouseError
  PROVE  IInv'
<1>1. UNCHANGED outside /\ UNCHANGED <<json, markdown, exit, runs>>
        /\ pc \in {"landing", "dlq"} /\ pc' = "json" /\ rows' = {} /\ World
        /\ evidence' = Evidence("blocked-warehouse-check", None, {}, {}, 0, 0, Before)
        /\ faults' \in 0..MaxFaults
  BY FaultsBounded DEF WarehouseError, Fault, files, IInv, Program
<1>2. PICK e : e = evidence'
  OBVIOUS
<1>3. Sound(e) /\ ~Judged(e)
  BY <1>1, <1>2, BlockedIsSound
<1>4. Sound(evidence)' /\ evidence' # None
  BY <1>1, <1>2, <1>3, Composed
<1>5. ~Judged(evidence)'
  BY <1>2, <1>3 DEF Judged
<1>6. Program'
  BY <1>1, <1>4, ProgramStep DEF IInv, Program
<1>7. FilesAreOfLastRun' /\ Later'
  BY <1>1, <1>5 DEF FilesAreOfLastRun, Later
<1> QED
  BY <1>1, <1>4, <1>6, <1>7, ProgramStep DEF IInv

LEMMA WriteJsonStep ==
  ASSUME IInv, WriteJson
  PROVE  IInv'
<1>1. UNCHANGED outside /\ UNCHANGED <<markdown, rows, runs, faults>>
        /\ pc = "json" /\ json' = evidence /\ evidence # None /\ Sound(evidence) /\ rows = {}
  BY DEF WriteJson, IInv, Program
<1>2. Sound(json)' /\ json' # None
  <2>1. PICK e : e = evidence
    OBVIOUS
  <2>2. Sound(e)'
    BY <1>1, <2>1, Still DEF IInv
  <2> QED
    BY <1>1, <2>1, <2>2
<1>3. CASE IsRequired
  <2>1. pc' = "markdown" /\ UNCHANGED <<evidence, exit>>
    BY <1>3 DEF WriteJson
  <2>2. Program'
    BY <1>1, <1>3, <2>1, ProgramStep DEF IInv, Program
  <2>3. Later'
    <3>1. Judged(evidence) => evidence.stored \in Nat
      BY <1>1 DEF Sound, AnyEvidence
    <3> QED
      BY <1>1, <2>1, <3>1 DEF Later, Judged
  <2>4. FilesAreOfLastRun'
    BY <2>1 DEF FilesAreOfLastRun
  <2> QED
    BY <1>1, <1>2, <2>1, <2>2, <2>3, <2>4, ProgramStep DEF IInv
<1>4. CASE ~IsRequired
  <2>1. pc' = "idle" /\ exit' = ExitCode(evidence) /\ evidence' = None
    BY <1>4 DEF WriteJson, Finish
  <2>2. exit' = (IF Passed(evidence) \/ evidence.classification = "preflight-ready"
                 THEN 0 ELSE IF Judged(evidence) THEN 3 ELSE 2)
    BY <1>1, <2>1, ExitCodeTells
  <2>3. Program'
    BY <1>1, <2>1, <2>2, ProgramStep DEF IInv, Program
  <2>4. FilesAreOfLastRun' /\ Later'
    BY <1>1, <1>2, <1>4, <2>1, <2>2, ProgramStep DEF FilesAreOfLastRun, Later, Judged, Passed
  <2> QED
    BY <1>1, <1>2, <2>1, <2>3, <2>4, ProgramStep DEF IInv
<1> QED
  BY <1>3, <1>4

LEMMA WriteMarkdownStep ==
  ASSUME IInv, WriteMarkdown
  PROVE  IInv'
<1>1. UNCHANGED outside /\ UNCHANGED <<json, rows, runs, faults>>
        /\ pc = "markdown" /\ markdown' = evidence /\ evidence # None /\ Sound(evidence)
        /\ json = evidence /\ rows = {}
        /\ pc' = "idle" /\ exit' = ExitCode(evidence) /\ evidence' = None
  BY DEF WriteMarkdown, Finish, IInv, Program
<1>2. Sound(markdown)' /\ markdown' # None
  <2>1. PICK e : e = evidence
    OBVIOUS
  <2>2. Sound(e)'
    BY <1>1, <2>1, Still DEF IInv
  <2> QED
    BY <1>1, <2>1, <2>2
<1>3. exit' = (IF Passed(evidence) \/ evidence.classification = "preflight-ready"
               THEN 0 ELSE IF Judged(evidence) THEN 3 ELSE 2)
  BY <1>1, ExitCodeTells
<1>4. Program'
  <2>1. exit' \in {None, Killed, 0, 2, 3}
    BY <1>3
  <2>2. rows' \subseteq Selected(stored)' /\ runs' \in 0..input'.runs /\ faults' \in 0..MaxFaults
    BY <1>1, ProgramStep DEF IInv, Program
  <2> QED
    BY <1>1, <2>1, <2>2 DEF Program
<1>5. FilesAreOfLastRun' /\ Later'
  BY <1>1, <1>3 DEF FilesAreOfLastRun, Later, Judged, Passed
<1> QED
  BY <1>1, <1>2, <1>4, <1>5, ProgramStep DEF IInv

LEMMA KillStep ==
  ASSUME IInv, Kill
  PROVE  IInv'
<1>1. UNCHANGED outside /\ UNCHANGED runs /\ pc' = "idle" /\ rows' = {} /\ evidence' = None
        /\ exit' = Killed /\ faults' \in 0..MaxFaults
        /\ json' \in {json, None} /\ markdown' \in {markdown, None}
  BY FaultsBounded DEF Kill, Fault, files, IInv, Program
<1>2. Program'
  BY <1>1, ProgramStep DEF IInv, Program
<1>3. FilesAreOfLastRun' /\ Later'
  BY <1>1 DEF FilesAreOfLastRun, Later
<1>4. (json' # None => Sound(json)') /\ (markdown' # None => Sound(markdown)')
  BY <1>1, ProgramStep
<1> QED
  BY <1>1, <1>2, <1>3, <1>4, ProgramStep DEF IInv

LEMMA NextHolds ==
  ASSUME IInv, [Next]_vars
  PROVE  IInv'
<1>1. CASE Tick
  BY <1>1, WorldSteps DEF Tick, Onward
<1>2. CASE Occur
  BY <1>2, WorldSteps DEF Occur, Onward
<1>3. CASE Begin \/ Commit \/ Rollback
  BY <1>3, WorldSteps DEF Begin, Commit, Rollback, Onward
<1>4. CASE Capture
  BY <1>4, StartStep, ReadLandingStep, CountDlqStep, WriteJsonStep, WriteMarkdownStep DEF Capture
<1>5. CASE WarehouseError
  BY <1>5, WarehouseErrorStep
<1>6. CASE Kill
  BY <1>6, KillStep
<1>7. CASE UNCHANGED vars
  BY <1>7, WorldSteps DEF vars, outside, Onward
<1> QED
  BY <1>1, <1>2, <1>3, <1>4, <1>5, <1>6, <1>7 DEF Next

\* The inductive invariant: whatever evidence there is, in hand or in a file,
\* is true of the inputs and of the events it was taken from.
THEOREM InductiveInvariant == Spec => []IInv
BY InitHolds, NextHolds, PTL DEF Spec

\* The variables keep their types.
THEOREM TypeCorrect == Spec => []TypeOK
<1>1. ASSUME IInv PROVE TypeOK
  <2>1. ASSUME NEW e \in {evidence, json, markdown} \ {None}
        PROVE  /\ e.classification \in Classifications
               /\ e.result \in {None, "passed", "failed"}
               /\ e.stored <= stored
               /\ e.landing \subseteq Selected(e.stored)
    BY <1>1, <2>1 DEF IInv, Sound, AnyEvidence
  <2> QED
    BY <1>1, <2>1 DEF IInv, World, Program, TypeOK
<1> QED
  BY <1>1, InductiveInvariant, PTL

\* The files of a run that ended by itself are its own.
THEOREM FilesAreOwn == Spec => []FilesAreOfLastRun
BY InductiveInvariant, PTL DEF IInv

-----------------------------------------------------------------------------
\* A number of rows that is zero is none: no copy of any event, and every event
\* has one.
LEMMA NoneCounted ==
  ASSUME World, NEW n \in Nat, n <= stored, Cardinality(Counted(n)) = 0,
         NEW i \in 1..n, Identified(Events[i]), Events[i].prefix,
         handled[i] \in {Window, Grace}
  PROVE  Verdict(Events[i]) = "accepted"
<1>1. Counted(n) = {}
  BY CountedFinite, FS_EmptySet
<1>2. i \in 1..Len(Events) /\ Events[i].copies \in 1..5
  BY InputsTyped DEF World, Events
<1>3. ASSUME Verdict(Events[i]) # "accepted" PROVE FALSE
  <2>1. <<i, 1>> \in DlqOf(n)
    BY <1>2, <1>3 DEF DlqOf, RowsOf
  <2>2. <<i, 1>> \in Counted(n)
    BY <2>1 DEF Counted, EventOf
  <2> QED
    BY <1>1, <2>2
<1> QED
  BY <1>3

\* Evidence that says passed accounts for the run, for any events and whenever
\* they are stored.
THEOREM PassedAccountsForRun == Spec => []PassedAccounts
<1>1. ASSUME IInv, NEW e \in {json, markdown}, Passed(e)
      PROVE  /\ \A i \in 1..e.stored :
                  (/\ Identified(Events[i]) /\ Events[i].prefix
                   /\ Window <= handled[i] /\ handled[i] <= Grace)
                    => Verdict(Events[i]) = "accepted"
             /\ \A r \in e.landing : ~FieldHit(EventOf(r)) /\ r \in Selected(stored)
             /\ \A g \in DOMAIN Minimum :
                  Cardinality({r \in e.landing : EventOf(r).name \in g}) >= Minimum[g]
  <2>1. Sound(e) /\ World /\ Judged(e)
    BY <1>1, NoneIsNothingElse DEF Passed, Judged, IInv
  <2>2. e.stored \in Nat /\ e.stored <= stored /\ stored \in Nat /\ stored <= Len(handled)
          /\ Len(handled) \in Nat
    BY <2>1 DEF Sound, AnyEvidence, World
  <2>3. Cardinality(Counted(e.stored)) = 0
    BY <1>1, <2>1 DEF Sound
  <2>4. ASSUME NEW i \in 1..e.stored, Identified(Events[i]), Events[i].prefix,
               Window <= handled[i], handled[i] <= Grace
        PROVE  Verdict(Events[i]) = "accepted"
    <3>1. handled[i] \in {Window, Grace}
      <4>1. handled \in Seq(Before..Late) /\ i \in 1..Len(handled)
        BY <2>1, <2>2 DEF World
      <4>2. handled[i] \in Before..Late
        BY <4>1, ElementsTyped
      <4> QED
        BY <2>4, <4>2 DEF Window, Grace, Before, Late
    <3> QED
      BY <2>1, <2>2, <2>3, <2>4, <3>1, NoneCounted
  <2>5. e.landing \subseteq Selected(stored)
    BY <2>1, <2>2, SelectedGrows DEF Sound
  <2> QED
    BY <1>1, <2>1, <2>4, <2>5 DEF Sound
<1>2. IInv => PassedAccounts
  BY <1>1 DEF PassedAccounts
<1> QED
  BY <1>2, InductiveInvariant, PTL

\* A new JSON file is the evidence in hand.
LEMMA JsonChanges ==
  ASSUME [Next]_vars, json' # json, json' # None
  PROVE  json' = evidence /\ pc = "json" /\ UNCHANGED outside
BY DEF Next, vars, Tick, Occur, Begin, Commit, Rollback, Capture, Start, ReadLanding, CountDlq, WriteJson,
       WriteMarkdown, WarehouseError, Kill, files, outside

\* Counts taken after the grace period are final, but for one open transaction.
THEOREM LateCountsAreFinal == Spec => LateCountsStand
<1>1. ASSUME IInv, [Next]_vars, json' # json, Judged(json), Judged(json)', json.at = Late
      PROVE  /\ json.landing \subseteq json'.landing
             /\ LET i == json.stored + 1
                IN  \/ json'.dlq = json.dlq
                    \/ /\ i <= json'.stored /\ handled[i] \in {Window, Grace}
                       /\ json'.dlq = json.dlq + Events[i].copies
  <2>1. json' = evidence /\ pc = "json" /\ json # None /\ evidence # None
    BY <1>1, JsonChanges DEF Judged
  <2>2. World /\ Sound(json) /\ Sound(evidence) /\ Judged(evidence)
    BY <1>1, <2>1 DEF IInv, Judged
  <2>3. json.landing \subseteq evidence.landing /\ json.stored <= evidence.stored
    BY <1>1, <2>1, <2>2 DEF IInv, Later
  <2>4. PICK m \in Nat, n \in Nat : m = json.stored /\ n = evidence.stored /\ m <= n /\ n <= stored
    BY <2>2, <2>3 DEF Sound, AnyEvidence
  <2>5. \A i \in m + 2..Len(handled) : handled[i] = Late
    BY <1>1, <2>2, <2>4 DEF Sound
  <2>6. json.dlq = Cardinality(Counted(m)) /\ json'.dlq = Cardinality(Counted(n))
    BY <1>1, <2>1, <2>2, <2>4 DEF Sound
  <2>7. \/ json'.dlq = json.dlq
        \/ /\ m + 1 <= n /\ handled[m + 1] \in {Window, Grace}
           /\ json'.dlq = json.dlq + Events[m + 1].copies
    BY <2>2, <2>4, <2>5, <2>6, CountedLate
  <2> QED
    BY <2>1, <2>3, <2>4, <2>7
<1>2. IInv /\ [Next]_vars
        => [ (Judged(json) /\ Judged(json') /\ json.at = Late)
               => /\ json.landing \subseteq json'.landing
                  /\ LET i == json.stored + 1
                     IN  \/ json'.dlq = json.dlq
                         \/ /\ i <= json'.stored /\ handled[i] \in {Window, Grace}
                            /\ json'.dlq = json.dlq + Events[i].copies ]_json
  BY <1>1 DEF Judged
<1> QED
  BY <1>2, InductiveInvariant, PTL DEF Spec, LateCountsStand

\* A preflight without warnings has seen all that is not there.
THEOREM PreflightHasWarned == Spec => PreflightWarns
<1>1. ASSUME IInv, [Next]_vars, json' # json, IsRequired, json # None,
             json.classification = "preflight-ready", json.warnings = {},
             json' # None, json'.classification = "blocked-access-gate"
      PROVE  \/ ~input.allow
             \/ input.stop = "placeholder"
             \/ \E c \in Required!NeededChecks(input) :
                  input.status[c] \notin {"absent", "passed"} \/ input.artifact[c] = "placeholder"
  <2>1. json' = evidence /\ evidence # None
    BY <1>1, JsonChanges
  <2>2. Sound(json) /\ Sound(evidence)
    BY <1>1, <2>1 DEF IInv
  <2>3. Warnings = {} /\ AccessErrors = {} /\ AccessErrors \cup CaptureErrors # {}
    BY <1>1, <2>1, <2>2 DEF Sound
  <2>4. Required!Warnings(input) = {} /\ Required!CaptureErrors(input) # {}
    BY <1>1, <2>3 DEF Warnings, CaptureErrors
  <2> QED
    BY <2>4 DEF Required!Warnings, Required!CaptureErrors
<1>2. IInv /\ [Next]_vars
        => [ (/\ IsRequired /\ json # None /\ json.classification = "preflight-ready"
              /\ json.warnings = {}
              /\ json' # None /\ json'.classification = "blocked-access-gate")
               => \/ ~input.allow
                  \/ input.stop = "placeholder"
                  \/ \E c \in Required!NeededChecks(input) :
                       input.status[c] \notin {"absent", "passed"}
                         \/ input.artifact[c] = "placeholder" ]_json
  BY <1>1
<1> QED
  BY <1>2, InductiveInvariant, PTL DEF Spec, PreflightWarns
-----------------------------------------------------------------------------
\* What the worker accepts.

\* A set of numbers has a least one.
LEMMA LeastNumber ==
  ASSUME NEW T, T \subseteq Nat, T # {}
  PROVE  \E x \in T : \A y \in T : x <= y
<1>1. PICK x \in T : \A y \in T : ~(<<y, x>> \in OpToRel(<, Nat))
  BY NatLessThanWellFounded, WFMin
<1>2. \A y \in T : ~(y < x)
  BY <1>1 DEF OpToRel
<1> QED
  BY <1>2

LEMMA ConcatSeq ==
  ASSUME NEW S, NEW s \in Seq(S), NEW t \in Seq(S)
  PROVE  s \o t \in Seq(S)
OBVIOUS

LEMMA ConcatLen ==
  ASSUME NEW S, NEW s \in Seq(S), NEW t \in Seq(S)
  PROVE  Len(s \o t) = Len(s) + Len(t)
OBVIOUS

LEMMA ConcatElements ==
  ASSUME NEW S, NEW s \in Seq(S), NEW t \in Seq(S)
  PROVE  \A i \in 1..Len(s) + Len(t) :
           (s \o t)[i] = IF i <= Len(s) THEN s[i] ELSE t[i - Len(s)]
OBVIOUS

\* A list of 26 elements of S that ends in the seven of c.
EndsIn(f, c, S) ==
  /\ DOMAIN f = 1..26
  /\ \A i \in 1..26 : f[i] \in S /\ (i > 19 => f[i] = c[i - 19])

LEMMA ThreeParts ==
  ASSUME NEW S, NEW a \in Seq(S), NEW b \in Seq(S), NEW c \in Seq(S),
         Len(a) = 4, Len(b) = 15, Len(c) = 7, NEW f, f = a \o b \o c
  PROVE  EndsIn(f, c, S)
<1>1. PICK d : d = a \o b
  OBVIOUS
<1>2. d \in Seq(S)
  BY <1>1, ConcatSeq
<1>3. Len(d) = 19
  <2>1. Len(a \o b) = Len(a) + Len(b)
    BY ConcatLen
  <2>2. Len(d) = Len(a) + Len(b)
    BY <1>1, <2>1, Zenon
  <2> QED
    BY <2>2
<1>4. f = d \o c
  BY <1>1
<1>5. f \in Seq(S)
  BY <1>2, <1>4, ConcatSeq
<1>6. Len(f) = 26
  <2>1. Len(d \o c) = Len(d) + Len(c)
    BY <1>2, ConcatLen
  <2>2. Len(f) = Len(d) + Len(c)
    BY <1>4, <2>1, Zenon
  <2> QED
    BY <1>3, <2>2
<1>7. \A i \in 1..Len(d) + Len(c) : f[i] = IF i <= Len(d) THEN d[i] ELSE c[i - Len(d)]
  <2>1. \A i \in 1..Len(d) + Len(c) :
          (d \o c)[i] = IF i <= Len(d) THEN d[i] ELSE c[i - Len(d)]
    BY <1>2, ConcatElements
  <2> QED
    BY <1>4, <2>1, Zenon
<1>8. ASSUME NEW i \in 1..26, i > 19 PROVE f[i] = c[i - 19]
  <2>1. i \in 1..Len(d) + Len(c) /\ ~(i <= Len(d)) /\ i - Len(d) = i - 19
    BY <1>3, <1>8
  <2> QED
    BY <1>7, <2>1
<1>9. DOMAIN f = 1..26 /\ \A i \in 1..26 : f[i] \in S
  BY <1>5, <1>6, ElementsTyped
<1> QED
  BY <1>8, <1>9 DEF EndsIn

\* The checks of the payload and of its values end the list, and no check is
\* called "accepted".
LEMMA ChecksListed ==
  /\ DOMAIN Checks = 1..26
  /\ \A i \in 1..26 : Checks[i] # "accepted"
  /\ Checks[23] = "unsupported_expansion_metadata_field"
  /\ Checks[24] = "invalid_expansion_metadata_value"
  /\ Checks[25] = "raw_expansion_metadata_value"
  /\ Checks[26] = "invalid_expansion_metadata_hash"
<1> DEFINE a == << "empty_value", "invalid_json", "invalid_json_object", "missing_event_id" >>
           c == << "blocked_subject_identifier", "invalid_payload", "blocked_payload_identifier",
                   "unsupported_expansion_metadata_field", "invalid_expansion_metadata_value",
                   "raw_expansion_metadata_value", "invalid_expansion_metadata_hash" >>
           S == {a[i] : i \in 1..4} \cup {FieldChecks[i] : i \in 1..15} \cup {c[i] : i \in 1..7}
<1>1. Len(a) = 4 /\ \A i \in 1..4 : a[i] # "accepted"
  OBVIOUS
<1>2. Len(FieldChecks) = 15 /\ \A i \in 1..15 : FieldChecks[i] # "accepted"
  BY DEF FieldChecks
<1>3. Len(c) = 7 /\ \A i \in 1..7 : c[i] # "accepted"
  OBVIOUS
<1>4. "accepted" \notin S
  <2> HIDE DEF a, c
  <2> QED
    BY <1>1, <1>2, <1>3
<1>5. a \in Seq(S)
  <2>1. a[1] \in S /\ a[2] \in S /\ a[3] \in S /\ a[4] \in S
    <3> HIDE DEF a, c
    <3> QED
      OBVIOUS
  <2> HIDE DEF S
  <2> QED
    BY <2>1
<1>6. FieldChecks \in Seq(S)
  <2>1. \A i \in 1..15 : FieldChecks[i] \in S
    <3> HIDE DEF a, c
    <3> QED
      OBVIOUS
  <2> HIDE DEF S
  <2> QED
    BY <2>1 DEF FieldChecks
<1>7. c \in Seq(S)
  <2>1. \A i \in 1..7 : c[i] \in S
    <3> HIDE DEF a, c
    <3> QED
      OBVIOUS
  <2> HIDE DEF S
  <2> QED
    BY <2>1
<1>8. Checks = a \o FieldChecks \o c
  BY DEF Checks
<1>9. EndsIn(Checks, c, S)
  <2> HIDE DEF a, c, S
  <2>1. Len(a) = 4 /\ Len(FieldChecks) = 15 /\ Len(c) = 7
    BY <1>1, <1>2, <1>3
  <2> QED
    BY <1>5, <1>6, <1>7, <1>8, <2>1, ThreeParts, Zenon
<1>10. Checks[23] = c[4] /\ Checks[24] = c[5] /\ Checks[25] = c[6] /\ Checks[26] = c[7]
  <2> HIDE DEF a, c, S
  <2> QED
    BY <1>9 DEF EndsIn
<1>11. \A i \in 1..26 : Checks[i] # "accepted"
  <2> HIDE DEF S
  <2> QED
    BY <1>4, <1>9 DEF EndsIn
<1> HIDE DEF S
<1> QED
  BY <1>9, <1>10, <1>11 DEF EndsIn

\* An accepted event fails no check: validate_event stops at the first.
LEMMA AcceptedFailsNone ==
  ASSUME NEW e, Verdict(e) = "accepted", NEW i \in 1..26
  PROVE  ~Fails(e, Checks[i])
<1> DEFINE failed == {j \in DOMAIN Checks : Fails(e, Checks[j])}
<1> SUFFICES ASSUME failed # {} PROVE FALSE
  BY ChecksListed
<1>1. failed \subseteq 1..26 /\ failed \subseteq Nat
  BY ChecksListed
<1>2. \E j \in failed : \A k \in failed : j <= k
  <2> HIDE DEF failed
  <2> QED
    BY <1>1, LeastNumber
<1> DEFINE first == CHOOSE j \in failed : \A k \in failed : j <= k
<1>3. first \in failed
  <2> HIDE DEF failed
  <2> QED
    BY <1>2
<1>4. Verdict(e) = Checks[first]
  BY DEF Verdict
<1>5. Checks[first] # "accepted"
  <2> HIDE DEF failed, first
  <2> QED
    BY <1>1, <1>3, ChecksListed
<1> HIDE DEF first
<1> QED
  BY <1>4, <1>5

\* A value the worker accepts, by the kind of its key.
LEMMA AcceptedValue ==
  ASSUME NEW e, Verdict(e) = "accepted", e.name \in Expansion
  PROVE  e.key \in {"metadata", "hash"} /\ ValueVerdict(e.key, e.value) = "accepted"
<1>1. ~Fails(e, Checks[23]) /\ ~Fails(e, Checks[24]) /\ ~Fails(e, Checks[25]) /\ ~Fails(e, Checks[26])
  BY AcceptedFailsNone
<1>2. /\ ~Fails(e, "unsupported_expansion_metadata_field")
      /\ ~Fails(e, "invalid_expansion_metadata_value")
      /\ ~Fails(e, "raw_expansion_metadata_value")
      /\ ~Fails(e, "invalid_expansion_metadata_hash")
  BY <1>1, ChecksListed
<1>3. e.key \in {"metadata", "hash"}
  BY <1>2 DEF Fails
<1>4. ValueVerdict(e.key, e.value) \notin {"invalid_expansion_metadata_value",
         "raw_expansion_metadata_value", "invalid_expansion_metadata_hash"}
  BY <1>2 DEF Fails
<1>5. ValueVerdict(e.key, e.value) \in {"accepted", "invalid_expansion_metadata_value",
         "raw_expansion_metadata_value", "invalid_expansion_metadata_hash"}
  BY DEF ValueVerdict
<1> QED
  BY <1>3, <1>4, <1>5

\* The two copies of the rules differ in four places.
LEMMA RulesDiffer ==
  ASSUME NEW e, Verdict(e) = "accepted", e.name \in Expansion, Required!FieldHit(e)
  PROVE  \/ e.key = "hash" /\ e.value \in {"empty", "hashWord"}
         \/ e.key = "metadata" /\ e.value = "word"
         \/ e.subjectKey = "bearer"
<1>1. e.key \in {"metadata", "hash"} /\ ValueVerdict(e.key, e.value) = "accepted"
  BY AcceptedValue
<1>2. ~Required!UnsupportedKey(e)
  BY <1>1 DEF Required!UnsupportedKey, Expansion
<1>3. CASE Required!ForbiddenKey(e)
  BY <1>1, <1>3 DEF Required!ForbiddenKey
<1>4. CASE Required!UnsafeValue(e)
  <2>1. e.value # "scalar"
    BY <1>4 DEF Required!UnsafeValue
  <2>2. e.value \notin {"nested", "long", "contact", "bearerText"}
    BY <1>1 DEF ValueVerdict
  <2>3. e.value # (IF e.key = "hash" THEN "hash" ELSE "token")
    BY <1>4, <2>1, <2>2 DEF Required!UnsafeValue
  <2>4. IF e.key = "hash" THEN e.value = "empty" \/ BoundedHash(e.value) ELSE BoundedMetadata(e.value)
    BY <1>1, <2>1, <2>2 DEF ValueVerdict
  <2> QED
    BY <1>1, <2>3, <2>4 DEF BoundedHash, BoundedMetadata
<1> QED
  BY <1>2, <1>3, <1>4 DEF Required!FieldHit

\* Whatever the run of events, what the capture objects to in a row the worker
\* has landed is in one of the places where their rules differ.
THEOREM AgreeButForFour == Spec => []WorkerAndCaptureAgree
<1>1. ASSUME NEW r \in LandedOf(stored)
      PROVE  Verdict(EventOf(r)) = "accepted"
  BY DEF LandedOf, RowsOf, EventOf
<1>2. WorkerAndCaptureAgree
  BY <1>1, RulesDiffer DEF WorkerAndCaptureAgree
<1> QED
  BY <1>2, PTL
=============================================================================
