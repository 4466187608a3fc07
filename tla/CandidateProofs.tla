--------------------------- MODULE CandidateProofs ---------------------------
(***************************************************************************)
(* Proofs about the ClickHouse candidate, for any number of runs, events,  *)
(* attempts and faults.                                                    *)
(***************************************************************************)
EXTENDS ClickHouseCandidate, FiniteSetTheorems, TLAPS

\* A run that nobody has overlapped, from its start to the start of the next.
InCharge(p) == p \in alone /\ last = p /\ pc[p] \notin {"idle", "failed"}

Counted == {"pg_aggregate", "ch_aggregate", "json", "md", "passed"}
Copied == {"insert_counts"} \cup Counted

\* It is alone: no other run is at work, and nothing is left over in the server.
Undisturbed ==
  /\ \A p \in alone : Live(p) => last = p
  /\ \A p \in Runs : InCharge(p) => late = {} /\ \A q \in Runs \ {p} : ~Live(q)

\* The tables and reports as far as it has come with them.
Progress(p) ==
  /\ pc[p] \in {"truncate_counts", "insert_events"} => events = {}
  /\ pc[p] \in {"insert_events", "insert_counts"} => counts = {}
  /\ pc[p] \in Copied => events = {p} \X rows[p]
  /\ pc[p] \in Counted => counts = {p} \X events
  /\ pc[p] \in {"md", "passed"} => json = p
  /\ pc[p] = "passed" => md = p

Rebuilding == \A p \in Runs : InCharge(p) => Progress(p)

\* The rows of a run are landing rows for ever, and counted as such.
RowsLanded == \A p \in Runs : rows[p] \subseteq Landed

Comparable == \A p \in Runs : pc[p] = "ch_aggregate" => expected[p] = CountEvents(rows[p])

\* A run that has used up its attempts has ended.
TriesLeft == \A p \in Runs : pc[p] \notin Ended => tries[p] < MaxTries

IInv ==
  TypeOK /\ TriesLeft /\ Undisturbed /\ Rebuilding /\ RowsLanded /\ Comparable /\ NoFalseMismatch

-----------------------------------------------------------------------------
\* A set of events has a count for each aggregate row.
LEMMA Counting ==
  ASSUME NEW S \in SUBSET EventIds
  PROVE  CountEvents(S) \in [Cells -> Nat]
<1> SUFFICES ASSUME NEW c \in Cells
             PROVE  Cardinality({e \in S : CellOf[e] = c}) \in Nat
  BY DEF CountEvents
<1>1. IsFiniteSet({e \in S : CellOf[e] = c})
  BY ConstantsAssumption, FS_Subset
<1> QED
  BY <1>1, FS_CardinalityType

\* A reload that took each event once sums up to the counts of the events, if
\* each is read back as it was asked for.
LEMMA Matching ==
  ASSUME NEW S \in SUBSET EventIds, NEW p, \A e \in S : CellBack[e] = CellOf[e]
  PROVE  SumCounts({p} \X ({p} \X S)) = CountEvents(S)
<1> SUFFICES ASSUME NEW c \in Cells
             PROVE  Cardinality({x \in {p} \X ({p} \X S) : CellBack[x[2][2]] = c})
                      = Cardinality({e \in S : CellOf[e] = c})
  BY DEF CountEvents, SumCounts
<1> DEFINE A == {e \in S : CellOf[e] = c}
           B == {x \in {p} \X ({p} \X S) : CellBack[x[2][2]] = c}
           f == [e \in A |-> <<p, <<p, e>>>>]
<1>1. IsFiniteSet(A)
  BY ConstantsAssumption, FS_Subset
<1>2. f \in Bijection(A, B)
  <2>1. f \in [A -> B]
    OBVIOUS
  <2>2. \A d, e \in A : f[d] = f[e] => d = e
    OBVIOUS
  <2>3. \A x \in B : \E e \in A : f[e] = x
    <3> SUFFICES ASSUME NEW x \in B PROVE \E e \in A : f[e] = x
      OBVIOUS
    <3>1. PICK e \in S : x = <<p, <<p, e>>>>
      OBVIOUS
    <3>2. e \in A
      BY <3>1
    <3> QED
      BY <3>1, <3>2
  <2> QED
    BY <2>1, <2>2, <2>3 DEF Bijection, Injection, Surjection, IsInjective
<1>3. Cardinality(B) = Cardinality(A)
  BY <1>1, <1>2, FS_Bijection DEF ExistsBijection
<1> QED
  BY <1>3

LEMMA NewestLanded ==
  ASSUME TypeOK
  PROVE  Newest \subseteq Landed /\ Landed \subseteq EventIds
  BY DEF TypeOK, Newest, Landed

LEMMA LandGrows ==
  ASSUME TypeOK, NEW e \in EventIds, Land(e)
  PROVE  landing' \in Seq(EventIds) /\ Landed \subseteq Landed'
<1>1. landing \in Seq(EventIds) /\ landing' = Append(landing, e)
  BY DEF Land, TypeOK
<1>2. landing' \in Seq(EventIds) /\ Len(landing') = Len(landing) + 1
      /\ \A i \in 1..Len(landing) : landing'[i] = landing[i]
  BY <1>1
<1>3. \A i \in DOMAIN landing : i \in DOMAIN landing' /\ landing'[i] = landing[i]
  BY <1>1, <1>2
<1> QED
  BY <1>2, <1>3 DEF Landed

\* What a query may do to the tables.
LEMMA EffectTypes ==
  ASSUME TypeOK, NEW p \in Runs, NEW query \in Writes, Effect(p, query)
  PROVE  events' \subseteq Runs \X EventIds /\ counts' \subseteq Runs \X (Runs \X EventIds)
<1>1. {p} \X rows[p] \subseteq Runs \X EventIds /\ {p} \X events \subseteq Runs \X (Runs \X EventIds)
  BY DEF TypeOK
<1>2. events \subseteq Runs \X EventIds /\ counts \subseteq Runs \X (Runs \X EventIds)
  BY DEF TypeOK
<1> QED
  BY <1>1, <1>2 DEF Effect

\* The steps of Next.
LEMMA Steps ==
  ASSUME [Next]_vars
  PROVE  \/ UNCHANGED vars
         \/ \E e \in EventIds : Land(e)
         \/ \E p \in Runs :
              \/ Start(p) \/ ReadRows(p) \/ Write(p) \/ PgAggregate(p) \/ ChAggregate(p)
              \/ WriteJson(p) \/ WriteMarkdown(p) \/ Unreachable(p) \/ Unanswered(p) \/ Stop(p)
              \/ \E query \in Writes : LateEffect(p, query) \/ LateEnd(p, query)
  BY DEF Next, Program

LEMMA TypeInit == Init => TypeOK
<1> SUFFICES ASSUME Init PROVE TypeOK
  OBVIOUS
<1>1. landing \in Seq(EventIds)
  BY DEF Init
<1> QED
  BY <1>1, ConstantsAssumption DEF Init, TypeOK

LEMMA TypeStep ==
  ASSUME TypeOK, TriesLeft, [Next]_vars
  PROVE  TypeOK'
<1> USE DEF TypeOK, server, reports, history
<1>1. CASE UNCHANGED vars
  BY <1>1 DEF vars
<1>2. ASSUME NEW e \in EventIds, Land(e) PROVE TypeOK'
  <2>1. landing' \in Seq(EventIds)
    BY <1>2, LandGrows
  <2> QED
    BY <1>2, <2>1 DEF Land
<1>3. ASSUME NEW p \in Runs, Start(p) PROVE TypeOK'
  BY <1>3 DEF Start, Goto, Overlaps
<1>4. ASSUME NEW p \in Runs, ReadRows(p) PROVE TypeOK'
  <2>1. Newest \subseteq EventIds
    BY NewestLanded
  <2> QED
    BY <1>4, <2>1 DEF ReadRows, Goto, Queries, Writes, After, Ended
<1>5. ASSUME NEW p \in Runs, Write(p) PROVE TypeOK'
  <2>1. events' \subseteq Runs \X EventIds /\ counts' \subseteq Runs \X (Runs \X EventIds)
    BY <1>5, EffectTypes DEF Write
  <2>2. pc' \in [Runs -> {"idle", "read", "pg_aggregate", "json", "md"} \cup Queries \cup Ended]
    BY <1>5 DEF Write, Goto, Queries, Writes, After
  <2>3. tries' \in [Runs -> 0..MaxTries]
    BY <1>5, ConstantsAssumption DEF Write
  <2>4. UNCHANGED <<landing, late, rows, expected, json, md, faults, last, alone>>
    BY <1>5 DEF Write
  <2> HIDE DEF server, reports, history
  <2> QED
    BY <2>1, <2>2, <2>3, <2>4
<1>6. ASSUME NEW p \in Runs, PgAggregate(p) PROVE TypeOK'
  <2>1. CountEvents(rows[p] \cap Landed) \in [Cells -> Nat]
    BY Counting
  <2>2. expected' = [expected EXCEPT ![p] = CountEvents(rows[p] \cap Landed)]
    BY <1>6 DEF PgAggregate
  <2>3. expected' \in [Runs -> [Cells -> Nat]]
    BY <2>1, <2>2
  <2>4. pc' = [pc EXCEPT ![p] = "ch_aggregate"]
        /\ UNCHANGED <<landing, events, counts, late, rows, tries, json, md, faults, last, alone>>
    BY <1>6 DEF PgAggregate, Goto
  <2> QED
    BY <2>3, <2>4 DEF Queries
<1>7. ASSUME NEW p \in Runs, ChAggregate(p) PROVE TypeOK'
  <2>1. (\E label \in {"json"} \cup Ended : pc' = [pc EXCEPT ![p] = label])
        /\ tries' = [tries EXCEPT ![p] = 0]
        /\ UNCHANGED <<landing, events, counts, late, rows, expected, json, md, faults, last, alone>>
    BY <1>7 DEF ChAggregate, Goto, Ended
  <2>2. tries' \in [Runs -> 0..MaxTries]
    BY <2>1, ConstantsAssumption
  <2> QED
    BY <2>1, <2>2 DEF Ended
<1>8. ASSUME NEW p \in Runs, WriteJson(p) \/ WriteMarkdown(p) PROVE TypeOK'
  BY <1>8 DEF WriteJson, WriteMarkdown, Goto, Ended
<1>9. ASSUME NEW p \in Runs, Unreachable(p) PROVE TypeOK'
  <2>1. tries[p] < MaxTries
    BY <1>9 DEF Unreachable, TriesLeft, Ended, Queries, Writes, After
  <2>2. tries' = [tries EXCEPT ![p] = tries[p] + 1]
        /\ (UNCHANGED pc \/ pc' = [pc EXCEPT ![p] = "failed"])
        /\ UNCHANGED <<landing, events, counts, late, rows, expected, json, md, faults, last, alone>>
    BY <1>9 DEF Unreachable, Goto
  <2>3. tries' \in [Runs -> 0..MaxTries]
    BY <2>1, <2>2, ConstantsAssumption
  <2> QED
    BY <2>2, <2>3 DEF Ended
<1>10. ASSUME NEW p \in Runs, Unanswered(p) \/ Stop(p) PROVE TypeOK'
  <2>1. faults' \in 0..MaxFaults
    BY <1>10, ConstantsAssumption DEF Unanswered, Stop, Fault
  <2>2. pc' = [pc EXCEPT ![p] = "failed"] /\ late' \subseteq Runs \X Writes
        /\ UNCHANGED <<landing, events, counts, rows, expected, tries, json, md, last, alone>>
    BY <1>10 DEF Unanswered, Stop, Goto
  <2> QED
    BY <2>1, <2>2 DEF Ended
<1>11. ASSUME NEW p \in Runs, NEW query \in Writes, LateEffect(p, query) PROVE TypeOK'
  <2>1. events' \subseteq Runs \X EventIds /\ counts' \subseteq Runs \X (Runs \X EventIds)
    BY <1>11, EffectTypes DEF LateEffect
  <2> QED
    BY <1>11, <2>1 DEF LateEffect
<1>12. ASSUME NEW p \in Runs, NEW query \in Writes, LateEnd(p, query) PROVE TypeOK'
  BY <1>12 DEF LateEnd
<1> QED
  BY <1>1, <1>2, <1>3, <1>4, <1>5, <1>6, <1>7, <1>8, <1>9, <1>10, <1>11, <1>12, Steps

LEMMA TriesStep ==
  ASSUME TypeOK, TriesLeft, [Next]_vars
  PROVE  TriesLeft'
<1> USE DEF TriesLeft, Ended
<1>0. pc \in [Runs -> {"idle", "read", "pg_aggregate", "json", "md"} \cup Queries \cup Ended]
      /\ tries \in [Runs -> 0..MaxTries]
  BY DEF TypeOK
<1>1. ASSUME UNCHANGED tries, \A q \in Runs : pc'[q] \notin Ended => pc[q] \notin Ended
      PROVE  TriesLeft'
  BY <1>1
<1>2. CASE UNCHANGED vars
  BY <1>1, <1>2 DEF vars
<1>3. ASSUME NEW e \in EventIds, Land(e) PROVE TriesLeft'
  BY <1>1, <1>3 DEF Land
<1>4. ASSUME NEW p \in Runs, NEW label, UNCHANGED tries, Goto(p, label), pc[p] \notin Ended
      PROVE  TriesLeft'
  <2>1. \A q \in Runs : pc'[q] \notin Ended => pc[q] \notin Ended
    BY <1>0, <1>4 DEF Goto
  <2> QED
    BY <1>1, <1>4, <2>1
<1>5. ASSUME NEW p \in Runs,
             Start(p) \/ ReadRows(p) \/ PgAggregate(p) \/ WriteJson(p) \/ WriteMarkdown(p)
               \/ Unanswered(p) \/ Stop(p)
      PROVE  TriesLeft'
  <2>1. UNCHANGED tries /\ pc[p] \notin Ended
    BY <1>5 DEF Start, ReadRows, PgAggregate, WriteJson, WriteMarkdown, Unanswered, Stop, Live,
       Writes, After
  <2>2. \E label : Goto(p, label)
    BY <1>5 DEF Start, ReadRows, PgAggregate, WriteJson, WriteMarkdown, Unanswered, Stop
  <2> QED
    BY <1>4, <2>1, <2>2
<1>6. ASSUME NEW p \in Runs, Write(p) \/ ChAggregate(p) PROVE TriesLeft'
  <2>1. tries' = [tries EXCEPT ![p] = 0] /\ \E label : pc' = [pc EXCEPT ![p] = label]
    BY <1>6 DEF Write, ChAggregate, Goto
  <2> QED
    BY <1>0, <2>1, ConstantsAssumption
<1>7. ASSUME NEW p \in Runs, Unreachable(p) PROVE TriesLeft'
  <2>1. tries' = [tries EXCEPT ![p] = tries[p] + 1]
        /\ IF tries[p] + 1 < MaxTries THEN UNCHANGED pc ELSE pc' = [pc EXCEPT ![p] = "failed"]
    BY <1>7 DEF Unreachable, Goto
  <2> QED
    BY <1>0, <2>1
<1>8. ASSUME NEW p \in Runs, NEW query \in Writes, LateEffect(p, query) \/ LateEnd(p, query)
      PROVE  TriesLeft'
  BY <1>1, <1>8 DEF LateEffect, LateEnd
<1> QED
  BY <1>2, <1>3, <1>5, <1>6, <1>7, <1>8, Steps

-----------------------------------------------------------------------------
\* A run that goes on from a label to another.
Advances(p, label) ==
  /\ Live(p) /\ label # "idle" /\ pc' = [pc EXCEPT ![p] = label]
  /\ UNCHANGED <<late, last, alone>>

LEMMA Advancing ==
  ASSUME NEW p \in Runs,
         ReadRows(p) \/ Write(p) \/ PgAggregate(p) \/ ChAggregate(p)
           \/ WriteJson(p) \/ WriteMarkdown(p) \/ Stop(p)
  PROVE  \E label : Advances(p, label)
  BY DEF Advances, Live, Goto, Ended, Writes, After, server, history,
     ReadRows, Write, PgAggregate, ChAggregate, WriteJson, WriteMarkdown, Stop

\* While one run is at work, no other one is in charge.
LEMMA OthersOut ==
  ASSUME TypeOK, Undisturbed, NEW p \in Runs, Live(p), UNCHANGED <<last, alone>>,
         NEW label, pc' = [pc EXCEPT ![p] = label]
  PROVE  \A q \in Runs : InCharge(q)' => q = p
<1> SUFFICES ASSUME NEW q \in Runs, InCharge(q)', q # p PROVE FALSE
  OBVIOUS
<1>1. pc'[q] = pc[q]
  BY DEF TypeOK
<1>2. InCharge(q)
  BY <1>1 DEF InCharge
<1> QED
  BY <1>2 DEF Undisturbed

LEMMA UndisturbedStep ==
  ASSUME TypeOK, Undisturbed, [Next]_vars
  PROVE  Undisturbed'
<1>0. pc \in [Runs -> {"idle", "read", "pg_aggregate", "json", "md"} \cup Queries \cup Ended]
  BY DEF TypeOK
<1>1. ASSUME UNCHANGED <<last, alone, pc>>, late' \subseteq late PROVE Undisturbed'
  BY <1>1 DEF Undisturbed, InCharge, Live
<1>2. ASSUME NEW p \in Runs, NEW label, Advances(p, label) PROVE Undisturbed'
  <2>1. \A q \in Runs : (Live(q)' => Live(q)) /\ (InCharge(q)' => InCharge(q))
    BY <1>0, <1>2 DEF Advances, Live, InCharge, Ended
  <2>2. alone \subseteq Runs /\ UNCHANGED <<late, last, alone>>
    BY <1>2 DEF Advances, TypeOK
  <2> QED
    BY <2>1, <2>2 DEF Undisturbed
<1>3. CASE UNCHANGED vars
  BY <1>1, <1>3 DEF vars
<1>4. ASSUME NEW e \in EventIds, Land(e) PROVE Undisturbed'
  BY <1>1, <1>4 DEF Land, server, history
<1>5. ASSUME NEW p \in Runs, Start(p) PROVE Undisturbed'
  <2>1. late' = {} /\ pc' = [pc EXCEPT ![p] = "read"] /\ last' = p /\ pc[p] = "idle"
    BY <1>5 DEF Start, Goto
  <2>2. \A q \in Runs \ {p} : pc'[q] = pc[q] /\ (Live(q)' <=> Live(q))
    BY <1>0, <2>1 DEF Live
  <2>3. ~Live(p)
    BY <2>1 DEF Live
  <2> DEFINE others == {q \in Runs : Live(q)}
  <2>4. alone' = IF others = {} THEN alone ELSE alone \ (others \cup {p})
    BY <1>5 DEF Start, Overlaps
  <2>5. ASSUME NEW q \in alone', Live(q)' PROVE last' = q
    <3>1. q \in Runs /\ (q # p => q \in others)
      BY <2>2, <2>4, <2>5 DEF TypeOK
    <3> QED
      BY <2>1, <2>4, <2>5, <3>1
  <2>6. ASSUME NEW q \in Runs, InCharge(q)' PROVE late' = {} /\ \A r \in Runs \ {q} : ~Live(r)'
    <3>1. q = p /\ q \in alone'
      BY <2>1, <2>6 DEF InCharge
    <3>2. others = {}
      BY <2>4, <3>1
    <3> QED
      BY <2>1, <2>2, <3>1, <3>2
  <2> QED
    BY <2>5, <2>6 DEF Undisturbed
<1>6. ASSUME NEW p \in Runs, Unanswered(p) PROVE Undisturbed'
  <2>1. Live(p) /\ pc' = [pc EXCEPT ![p] = "failed"] /\ UNCHANGED <<last, alone>>
    BY <1>6 DEF Unanswered, Live, Goto, Writes, After, Ended, history
  <2>2. \A q \in Runs : InCharge(q)' => q = p
    BY <2>1, OthersOut
  <2>3. \A q \in Runs : ~InCharge(q)'
    BY <1>0, <2>1, <2>2 DEF InCharge
  <2>4. \A q \in Runs : Live(q)' => Live(q)
    BY <1>0, <2>1 DEF Live, Ended
  <2> QED
    BY <2>1, <2>3, <2>4 DEF Undisturbed, TypeOK
<1>7. ASSUME NEW p \in Runs, Unreachable(p) PROVE Undisturbed'
  <2>1. CASE UNCHANGED pc
    BY <1>1, <1>7, <2>1 DEF Unreachable, server, history
  <2>2. CASE Goto(p, "failed")
    BY <1>2, <1>7, <2>2 DEF Unreachable, Goto, Advances, Live, Queries, Writes, After, Ended,
       server, history
  <2> QED
    BY <1>7, <2>1, <2>2 DEF Unreachable
<1>8. ASSUME NEW p \in Runs, NEW query \in Writes, LateEffect(p, query) \/ LateEnd(p, query)
      PROVE  Undisturbed'
  BY <1>1, <1>8 DEF LateEffect, LateEnd, history
<1> QED
  BY <1>2, <1>3, <1>4, <1>5, <1>6, <1>7, <1>8, Steps, Advancing

\* Each step of the run in charge brings the tables one query further.
LEMMA RebuildingStep ==
  ASSUME TypeOK, Undisturbed, Rebuilding, [Next]_vars
  PROVE  Rebuilding'
<1>0. pc \in [Runs -> {"idle", "read", "pg_aggregate", "json", "md"} \cup Queries \cup Ended]
  BY DEF TypeOK
<1>1. ASSUME UNCHANGED <<events, counts, rows, json, md, last, alone, pc>> PROVE Rebuilding'
  BY <1>1 DEF Rebuilding, InCharge, Progress
\* It is enough to look at the run that takes a step.
<1>2. ASSUME NEW p \in Runs, NEW label, Live(p), UNCHANGED <<last, alone>>,
             pc' = [pc EXCEPT ![p] = label],
             InCharge(p) /\ label # "failed" => Progress(p)'
      PROVE  Rebuilding'
  <2>1. \A q \in Runs : InCharge(q)' => q = p
    BY <1>2, OthersOut
  <2>2. InCharge(p)' => InCharge(p) /\ label # "failed"
    BY <1>0, <1>2 DEF InCharge, Live, Ended
  <2> QED
    BY <1>2, <2>1, <2>2 DEF Rebuilding
<1>3. CASE UNCHANGED vars
  BY <1>1, <1>3 DEF vars
<1>4. ASSUME NEW e \in EventIds, Land(e) PROVE Rebuilding'
  BY <1>1, <1>4 DEF Land, server, reports, history
<1>5. ASSUME NEW p \in Runs, Start(p) PROVE Rebuilding'
  <2>1. last' = p /\ pc'[p] = "read"
    BY <1>0, <1>5 DEF Start, Goto
  <2>2. \A q \in Runs : InCharge(q)' => q = p
    BY <2>1 DEF InCharge
  <2> QED
    BY <2>1, <2>2 DEF Rebuilding, Progress, Copied, Counted
<1>6. ASSUME NEW p \in Runs, ReadRows(p) PROVE Rebuilding'
  <2>1. PICK label \in {"failed", "schema"} : pc' = [pc EXCEPT ![p] = label]
    BY <1>6 DEF ReadRows, Goto
  <2>2. Live(p) /\ UNCHANGED <<last, alone>>
    BY <1>6 DEF ReadRows, Live, Ended, history
  <2>3. pc'[p] = label
    BY <1>0, <2>1
  <2> QED
    BY <1>2, <2>1, <2>2, <2>3 DEF Progress, Copied, Counted
<1>7. ASSUME NEW p \in Runs, Write(p) PROVE Rebuilding'
  <2>1. /\ Live(p) /\ pc[p] \in Writes /\ Effect(p, pc[p])
        /\ pc' = [pc EXCEPT ![p] = After[pc[p]]]
        /\ UNCHANGED <<rows, json, md, last, alone>>
    BY <1>7 DEF Write, Goto, Live, Writes, After, Ended, reports, history
  <2>2. ASSUME InCharge(p) PROVE Progress(p)'
    <3>1. Progress(p)
      BY <2>2 DEF Rebuilding
    <3>2. pc'[p] = After[pc[p]]
      BY <1>0, <2>1
    <3> QED
      BY <2>1, <3>1, <3>2 DEF Progress, Effect, Writes, After, Copied, Counted
  <2> QED
    BY <1>2, <2>1, <2>2
<1>8. ASSUME NEW p \in Runs, PgAggregate(p) \/ ChAggregate(p) \/ WriteJson(p) \/ WriteMarkdown(p)
      PROVE  Rebuilding'
  <2>1. Live(p) /\ UNCHANGED <<events, counts, rows, last, alone>>
    BY <1>8 DEF PgAggregate, ChAggregate, WriteJson, WriteMarkdown, Live, Ended, server, history
  <2>2. \/ pc[p] = "pg_aggregate" /\ pc' = [pc EXCEPT ![p] = "ch_aggregate"]
             /\ UNCHANGED <<json, md>>
        \/ pc[p] = "ch_aggregate" /\ UNCHANGED <<json, md>>
             /\ \/ pc' = [pc EXCEPT ![p] = "json"]
                \/ pc' = [pc EXCEPT ![p] = "mismatch"]
                \/ pc' = [pc EXCEPT ![p] = "failed"]
        \/ pc[p] = "json" /\ pc' = [pc EXCEPT ![p] = "md"] /\ json' = p /\ UNCHANGED md
        \/ pc[p] = "md" /\ pc' = [pc EXCEPT ![p] = "passed"] /\ md' = p /\ UNCHANGED json
    BY <1>8 DEF PgAggregate, ChAggregate, WriteJson, WriteMarkdown, Goto, reports
  <2>3. PICK label : pc' = [pc EXCEPT ![p] = label]
    BY <2>2
  <2>4. ASSUME InCharge(p) PROVE Progress(p)'
    <3>1. Progress(p)
      BY <2>4 DEF Rebuilding
    <3> QED
      BY <1>0, <2>1, <2>2, <3>1 DEF Progress, Copied, Counted
  <2> QED
    BY <1>2, <2>1, <2>3, <2>4
<1>9. ASSUME NEW p \in Runs, Unanswered(p) \/ Stop(p) PROVE Rebuilding'
  <2>1. Live(p) /\ pc' = [pc EXCEPT ![p] = "failed"] /\ UNCHANGED <<last, alone>>
    BY <1>9 DEF Unanswered, Stop, Live, Goto, Writes, After, Ended, history
  <2> QED
    BY <1>2, <2>1
<1>10. ASSUME NEW p \in Runs, Unreachable(p) PROVE Rebuilding'
  <2>1. CASE UNCHANGED pc
    BY <1>1, <1>10, <2>1 DEF Unreachable, server, reports, history
  <2>2. CASE Goto(p, "failed")
    BY <1>2, <1>10, <2>2 DEF Unreachable, Goto, Live, Queries, Writes, After, Ended, history
  <2> QED
    BY <1>10, <2>1, <2>2 DEF Unreachable
<1>11. ASSUME NEW p \in Runs, NEW query \in Writes, LateEffect(p, query) \/ LateEnd(p, query)
      PROVE  Rebuilding'
  <2>1. late # {} /\ UNCHANGED <<last, alone, pc>>
    BY <1>11 DEF LateEffect, LateEnd, history
  <2>2. \A q \in Runs : ~InCharge(q)'
    BY <2>1 DEF Undisturbed, InCharge
  <2> QED
    BY <2>2 DEF Rebuilding
<1> QED
  BY <1>3, <1>4, <1>5, <1>6, <1>7, <1>8, <1>9, <1>10, <1>11, Steps

\* What a run has read stays in the landing table and is counted as it was read.
LEMMA RowsStep ==
  ASSUME TypeOK, RowsLanded, Comparable, [Next]_vars
  PROVE  RowsLanded' /\ Comparable'
<1>0. /\ pc \in [Runs -> {"idle", "read", "pg_aggregate", "json", "md"} \cup Queries \cup Ended]
      /\ rows \in [Runs -> SUBSET EventIds] /\ expected \in [Runs -> [Cells -> Nat]]
  BY DEF TypeOK
<1>1. ASSUME UNCHANGED <<landing, rows, expected>>,
             \A q \in Runs : pc'[q] = "ch_aggregate" => pc[q] = "ch_aggregate"
      PROVE  RowsLanded' /\ Comparable'
  BY <1>1 DEF RowsLanded, Comparable, Landed, CountEvents
<1>2. CASE UNCHANGED vars
  BY <1>1, <1>2 DEF vars
<1>3. ASSUME NEW e \in EventIds, Land(e) PROVE RowsLanded' /\ Comparable'
  <2>1. Landed \subseteq Landed' /\ UNCHANGED <<rows, expected, pc>>
    BY <1>3, LandGrows DEF Land
  <2> QED
    BY <2>1 DEF RowsLanded, Comparable, CountEvents
<1>4. ASSUME NEW p \in Runs, ReadRows(p) PROVE RowsLanded' /\ Comparable'
  <2>1. rows' = [rows EXCEPT ![p] = Newest] /\ UNCHANGED <<landing, expected>>
        /\ (pc' = [pc EXCEPT ![p] = "failed"] \/ pc' = [pc EXCEPT ![p] = "schema"])
    BY <1>4 DEF ReadRows, Goto
  <2>2. Newest \subseteq Landed
    BY NewestLanded
  <2>3. \A q \in Runs : rows'[q] = IF q = p THEN Newest ELSE rows[q]
    BY <1>0, <2>1
  <2>4. \A q \in Runs : pc'[q] = "ch_aggregate" => pc[q] = "ch_aggregate" /\ q # p
    BY <1>0, <2>1
  <2>5. RowsLanded'
    BY <2>1, <2>2, <2>3 DEF RowsLanded, Landed
  <2>6. Comparable'
    BY <2>1, <2>3, <2>4 DEF Comparable, CountEvents
  <2> QED
    BY <2>5, <2>6
<1>5. ASSUME NEW p \in Runs, PgAggregate(p) PROVE RowsLanded' /\ Comparable'
  <2>1. expected' = [expected EXCEPT ![p] = CountEvents(rows[p])]
    BY <1>5 DEF PgAggregate, RowsLanded, CountEvents
  <2>2. pc' = [pc EXCEPT ![p] = "ch_aggregate"] /\ UNCHANGED <<landing, rows>>
    BY <1>5 DEF PgAggregate, Goto
  <2>3. \A q \in Runs : pc'[q] = "ch_aggregate" => expected'[q] = CountEvents(rows[q])
    BY <1>0, <2>1, <2>2 DEF Comparable
  <2> QED
    BY <2>2, <2>3 DEF RowsLanded, Comparable, Landed, CountEvents
<1>6. ASSUME NEW p \in Runs, NEW label, label # "ch_aggregate", Goto(p, label),
             UNCHANGED <<landing, rows, expected>>
      PROVE  RowsLanded' /\ Comparable'
  <2>1. \A q \in Runs : pc'[q] = "ch_aggregate" => pc[q] = "ch_aggregate"
    BY <1>0, <1>6 DEF Goto
  <2> QED
    BY <1>1, <1>6, <2>1
<1>7. ASSUME NEW p \in Runs,
             Start(p) \/ Write(p) \/ ChAggregate(p) \/ WriteJson(p) \/ WriteMarkdown(p)
               \/ Unanswered(p) \/ Stop(p)
      PROVE  RowsLanded' /\ Comparable'
  <2>1. \E label : label # "ch_aggregate" /\ Goto(p, label)
    BY <1>7 DEF Start, Write, ChAggregate, WriteJson, WriteMarkdown, Unanswered, Stop, Writes, After
  <2>2. UNCHANGED <<landing, rows, expected>>
    BY <1>7 DEF Start, Write, ChAggregate, WriteJson, WriteMarkdown, Unanswered, Stop
  <2> QED
    BY <1>6, <2>1, <2>2
<1>8. ASSUME NEW p \in Runs, Unreachable(p) PROVE RowsLanded' /\ Comparable'
  BY <1>1, <1>6, <1>8 DEF Unreachable
<1>9. ASSUME NEW p \in Runs, NEW query \in Writes, LateEffect(p, query) \/ LateEnd(p, query)
      PROVE  RowsLanded' /\ Comparable'
  BY <1>1, <1>9 DEF LateEffect, LateEnd
<1> QED
  BY <1>2, <1>3, <1>4, <1>5, <1>7, <1>8, <1>9, Steps

\* The run in charge compares what it has copied.
LEMMA MatchStep ==
  ASSUME IInv, [Next]_vars
  PROVE  NoFalseMismatch'
<1>0. pc \in [Runs -> {"idle", "read", "pg_aggregate", "json", "md"} \cup Queries \cup Ended]
      /\ alone \subseteq Runs
  BY DEF IInv, TypeOK
<1>1. ASSUME alone' \subseteq alone,
             \A q \in alone : pc'[q] = "mismatch" => pc[q] = "mismatch" /\ rows'[q] = rows[q]
      PROVE  NoFalseMismatch'
  BY <1>1 DEF IInv, NoFalseMismatch
<1>2. CASE UNCHANGED vars
  BY <1>1, <1>2 DEF vars
<1>3. ASSUME NEW e \in EventIds, Land(e) PROVE NoFalseMismatch'
  BY <1>1, <1>3 DEF Land, history
<1>4. ASSUME NEW p \in Runs, NEW label, label # "mismatch", pc' = [pc EXCEPT ![p] = label],
             alone' \subseteq alone, \A q \in Runs \ {p} : rows'[q] = rows[q]
      PROVE  NoFalseMismatch'
  BY <1>0, <1>1, <1>4
<1>5. ASSUME NEW p \in Runs,
             Start(p) \/ ReadRows(p) \/ Write(p) \/ PgAggregate(p) \/ WriteJson(p)
               \/ WriteMarkdown(p) \/ Unanswered(p) \/ Stop(p)
      PROVE  NoFalseMismatch'
  <2>1. \E label : label # "mismatch" /\ pc' = [pc EXCEPT ![p] = label]
    BY <1>5 DEF Start, ReadRows, Write, PgAggregate, WriteJson, WriteMarkdown, Unanswered, Stop,
       Goto, Writes, After
  <2>2. alone' \subseteq alone
    BY <1>5 DEF Start, ReadRows, Write, PgAggregate, WriteJson, WriteMarkdown, Unanswered, Stop,
       Overlaps, history
  <2>3. \A q \in Runs \ {p} : rows'[q] = rows[q]
    BY <1>5 DEF Start, ReadRows, Write, PgAggregate, WriteJson, WriteMarkdown, Unanswered, Stop,
       IInv, TypeOK
  <2> QED
    BY <1>4, <2>1, <2>2, <2>3
<1>6. ASSUME NEW p \in Runs, ChAggregate(p) PROVE NoFalseMismatch'
  <2>1. /\ pc[p] = "ch_aggregate" /\ UNCHANGED <<alone, rows>>
        /\ \E label : pc' = [pc EXCEPT ![p] = label]
        /\ pc'[p] = "mismatch" => SumCounts(counts) # expected[p]
    BY <1>0, <1>6 DEF ChAggregate, Goto, history
  <2>2. CASE p \in alone /\ \A e \in rows[p] : CellBack[e] = CellOf[e]
    <3>1. InCharge(p)
      BY <2>1, <2>2 DEF IInv, Undisturbed, Live, Ended, InCharge
    <3>2. counts = {p} \X ({p} \X rows[p])
      BY <2>1, <3>1 DEF IInv, Rebuilding, Progress, Copied, Counted
    <3>3. rows[p] \in SUBSET EventIds /\ expected[p] = CountEvents(rows[p])
      BY <2>1 DEF IInv, TypeOK, Comparable
    <3>4. SumCounts(counts) = expected[p]
      BY <2>2, <3>2, <3>3, Matching
    <3> QED
      BY <1>0, <1>1, <2>1, <3>4
  <2>3. CASE p \in alone /\ \E e \in rows[p] : CellBack[e] # CellOf[e]
    BY <1>0, <2>1, <2>3 DEF IInv, NoFalseMismatch
  <2>4. CASE p \notin alone
    BY <1>0, <1>1, <2>1, <2>4
  <2> QED
    BY <2>2, <2>3, <2>4
<1>7. ASSUME NEW p \in Runs, Unreachable(p) PROVE NoFalseMismatch'
  BY <1>1, <1>4, <1>7 DEF Unreachable, Goto, history
<1>8. ASSUME NEW p \in Runs, NEW query \in Writes, LateEffect(p, query) \/ LateEnd(p, query)
      PROVE  NoFalseMismatch'
  BY <1>1, <1>8 DEF LateEffect, LateEnd, history
<1> QED
  BY <1>2, <1>3, <1>5, <1>6, <1>7, <1>8, Steps

-----------------------------------------------------------------------------
LEMMA IInvInit == Init => IInv
<1> SUFFICES ASSUME Init PROVE IInv
  OBVIOUS
<1>1. TypeOK
  BY TypeInit
<1>2. \A p \in Runs : pc[p] = "idle" /\ rows[p] = {} /\ tries[p] = 0
  BY DEF Init
<1>3. alone = Runs
  BY DEF Init
<1> QED
  BY <1>1, <1>2, <1>3, ConstantsAssumption DEF IInv, TriesLeft, Undisturbed, Rebuilding,
     RowsLanded, Comparable, NoFalseMismatch, InCharge, Live

\* The run that nobody overlaps finds nothing in its way, and the tables are as
\* far as it is.
THEOREM InductiveInvariant == Spec => []IInv
<1>1. IInv /\ [Next]_vars => IInv'
  BY TypeStep, TriesStep, UndisturbedStep, RebuildingStep, RowsStep, MatchStep DEF IInv
<1> QED
  BY IInvInit, <1>1, PTL DEF Spec

\* The types of the variables.
THEOREM TypeCorrect == Spec => []TypeOK
<1>1. IInv => TypeOK
  BY DEF IInv
<1> QED
  BY <1>1, InductiveInvariant, PTL

\* The tables and reports of a run that passed alone are its own.
THEOREM PassedRebuilds == Spec => []PassedIsRebuilt
<1>1. IInv => PassedIsRebuilt
  BY DEF IInv, TypeOK, Rebuilding, Progress, InCharge, Copied, Counted, PassedIsRebuilt
<1> QED
  BY <1>1, InductiveInvariant, PTL

\* A run alone fails its comparison only for a row that ClickHouse gives back as
\* another.
THEOREM MismatchHasCause == Spec => []NoFalseMismatch
<1>1. IInv => NoFalseMismatch
  BY DEF IInv
<1> QED
  BY <1>1, InductiveInvariant, PTL
-----------------------------------------------------------------------------
\* No run works for ever.

\* The steps a program has before it, the one in hand included.
Stage(label) ==
  CASE label = "read" -> 10
    [] label = "schema" -> 9
    [] label = "truncate_events" -> 8
    [] label = "truncate_counts" -> 7
    [] label = "insert_events" -> 6
    [] label = "insert_counts" -> 5
    [] label = "pg_aggregate" -> 4
    [] label = "ch_aggregate" -> 3
    [] label = "json" -> 2
    [] OTHER -> 1

\* The attempts it has left at most, if each of them failed but the last.
Attempts(p) == MaxTries * Stage(pc[p]) - tries[p]

\* A run at work always has attempts left, and each step of its program takes
\* one of them at least; an ended run stays as it is. What the others do, and
\* what the server makes of queries nobody waits for, gives none back.
UsesUp ==
  \A p \in Runs :
    /\ pc[p] \in Ended => pc'[p] = pc[p]
    /\ Live(p) => /\ Attempts(p) > 0
                  /\ \/ pc'[p] \in Ended
                     \/ Attempts(p)' < Attempts(p)
                     \/ UNCHANGED <<pc[p], tries[p]>>

LEMMA Fewer ==
  ASSUME NEW m \in Nat \ {0}, NEW s \in Int, NEW t \in 0..m - 1, NEW u \in Nat
  PROVE  m * s - u < m * (s + 1) - t
OBVIOUS

LEMMA AttemptsLeft ==
  ASSUME IInv, NEW p \in Runs, Live(p)
  PROVE  Attempts(p) > 0
<1>1. tries[p] \in 0..MaxTries - 1 /\ MaxTries \in Nat \ {0}
  BY ConstantsAssumption DEF IInv, TypeOK, TriesLeft, Live
<1>2. PICK n \in Nat : Stage(pc[p]) = n + 1
  <2>1. Stage(pc[p]) \in 1..10
    BY DEF Stage
  <2>2. Stage(pc[p]) - 1 \in Nat /\ Stage(pc[p]) = (Stage(pc[p]) - 1) + 1
    BY <2>1
  <2> QED
    BY <2>2
<1>3. MaxTries * n \in Nat /\ MaxTries * (n + 1) = MaxTries * n + MaxTries
  BY <1>1
<1> QED
  BY <1>1, <1>2, <1>3 DEF Attempts

\* A step of one run.
LEMMA OneUsesUp ==
  ASSUME IInv, NEW p \in Runs, Live(p),
         NEW label, pc' = [pc EXCEPT ![p] = label],
         NEW u \in 0..MaxTries, tries' = [tries EXCEPT ![p] = u],
         \/ label \in Ended
         \/ Stage(pc[p]) = Stage(label) + 1
         \/ label = pc[p] /\ u = tries[p] + 1
  PROVE  UsesUp
<1>1. /\ pc \in [Runs -> {"idle", "read", "pg_aggregate", "json", "md"} \cup Queries \cup Ended]
      /\ tries \in [Runs -> 0..MaxTries] /\ MaxTries \in Nat \ {0}
  BY ConstantsAssumption DEF IInv, TypeOK
<1>2. \A q \in Runs : Stage(pc[q]) \in Nat \ {0}
  BY DEF Stage
<1>3. Stage(label) \in Int
  BY DEF Stage
<1>4. \A q \in Runs : Live(q) => Attempts(q) > 0
  BY AttemptsLeft
<1>5. \A q \in Runs \ {p} : pc'[q] = pc[q] /\ tries'[q] = tries[q]
  BY <1>1
<1>6. pc'[p] = label /\ tries'[p] = u /\ tries[p] \in 0..MaxTries - 1
  BY <1>1 DEF IInv, TriesLeft, Live
<1>7. label \in Ended \/ Attempts(p)' < Attempts(p)
  <2>1. CASE Stage(pc[p]) = Stage(label) + 1
    <3>1. Attempts(p)' = MaxTries * Stage(label) - u
      BY <1>6 DEF Attempts, Stage
    <3>2. Attempts(p) = MaxTries * (Stage(label) + 1) - tries[p]
      BY <2>1 DEF Attempts
    <3> QED
      BY <1>1, <1>3, <1>6, <3>1, <3>2, Fewer
  <2>2. CASE label = pc[p] /\ u = tries[p] + 1
    <3>1. Attempts(p)' = MaxTries * Stage(pc[p]) - u
      BY <1>6, <2>2 DEF Attempts, Stage
    <3>2. MaxTries * Stage(pc[p]) \in Int
      BY <1>1, <1>2
    <3> QED
      BY <1>6, <2>2, <3>1, <3>2 DEF Attempts
  <2> QED
    BY <2>1, <2>2
<1>8. pc[p] \notin Ended
  BY DEF Live
<1> QED
  BY <1>4, <1>5, <1>6, <1>7, <1>8 DEF UsesUp

\* Every attempt counts: a run that ClickHouse never answers, or others
\* disturb, is over after ten times MaxTries of them.
THEOREM WorkIsBounded == Spec => [][UsesUp]_vars
<1>1. ASSUME IInv, [Next]_vars PROVE [UsesUp]_vars
  <2>1. /\ pc \in [Runs -> {"idle", "read", "pg_aggregate", "json", "md"} \cup Queries \cup Ended]
        /\ tries \in [Runs -> 0..MaxTries] /\ MaxTries \in Nat \ {0}
    BY <1>1, ConstantsAssumption DEF IInv, TypeOK
  <2>2. ASSUME UNCHANGED tries, \A q \in Runs : pc[q] # "idle" => pc'[q] = pc[q]
        PROVE  UsesUp
    <3>1. \A q \in Runs : Live(q) => Attempts(q) > 0
      BY <1>1, AttemptsLeft
    <3> QED
      BY <2>2, <3>1 DEF UsesUp, Live, Ended
  <2>3. ASSUME NEW p \in Runs, ReadRows(p) \/ PgAggregate(p) \/ WriteJson(p) \/ WriteMarkdown(p)
        PROVE  UsesUp
    <3>1. PICK label :
            /\ Live(p) /\ pc' = [pc EXCEPT ![p] = label] /\ tries' = tries
            /\ label \in Ended \/ Stage(pc[p]) = Stage(label) + 1
      <4>1. tries' = tries /\ Live(p)
        BY <2>3 DEF ReadRows, PgAggregate, WriteJson, WriteMarkdown, Live, Ended
      <4>2. CASE ReadRows(p)
        <5>1. Stage("read") = Stage("schema") + 1 /\ "failed" \in Ended
          BY DEF Stage, Ended
        <5> QED
          BY <4>1, <4>2, <5>1 DEF ReadRows, Goto
      <4>3. CASE PgAggregate(p) \/ WriteJson(p) \/ WriteMarkdown(p)
        <5>1. /\ Stage("pg_aggregate") = Stage("ch_aggregate") + 1
              /\ Stage("json") = Stage("md") + 1 /\ "passed" \in Ended
          BY DEF Stage, Ended
        <5> QED
          BY <4>1, <4>3, <5>1 DEF PgAggregate, WriteJson, WriteMarkdown, Goto
      <4> QED
        BY <2>3, <4>2, <4>3
    <3>2. tries' = [tries EXCEPT ![p] = tries[p]] /\ tries[p] \in 0..MaxTries
      BY <2>1, <3>1
    <3> QED
      BY <1>1, <3>1, <3>2, OneUsesUp
  <2>4. ASSUME NEW p \in Runs, Write(p) \/ ChAggregate(p)
        PROVE  UsesUp
    <3>1. PICK label :
            /\ Live(p) /\ pc' = [pc EXCEPT ![p] = label] /\ tries' = [tries EXCEPT ![p] = 0]
            /\ label \in Ended \/ Stage(pc[p]) = Stage(label) + 1
      <4>1. CASE Write(p)
        <5>1. pc[p] \in Writes /\ pc' = [pc EXCEPT ![p] = After[pc[p]]]
              /\ tries' = [tries EXCEPT ![p] = 0]
          BY <4>1 DEF Write, Goto
        <5>2. Live(p) /\ Stage(pc[p]) = Stage(After[pc[p]]) + 1
          BY <5>1 DEF Writes, After, Live, Ended, Stage
        <5> QED
          BY <5>1, <5>2
      <4>2. CASE ChAggregate(p)
        <5>1. Stage("ch_aggregate") = Stage("json") + 1 /\ "mismatch" \in Ended
          BY DEF Stage, Ended
        <5>2. Live(p) /\ pc[p] = "ch_aggregate" /\ tries' = [tries EXCEPT ![p] = 0]
              /\ (pc' = [pc EXCEPT ![p] = "json"]
                    \/ \E label \in Ended : pc' = [pc EXCEPT ![p] = label])
          BY <4>2 DEF ChAggregate, Goto, Live, Ended
        <5> QED
          BY <5>1, <5>2
      <4> QED
        BY <2>4, <4>1, <4>2
    <3>2. 0 \in 0..MaxTries
      BY <2>1
    <3> QED
      BY <1>1, <3>1, <3>2, OneUsesUp
  <2>5. ASSUME NEW p \in Runs, Unreachable(p)
        PROVE  UsesUp
    <3>1. Live(p)
      BY <2>5 DEF Unreachable, Queries, Writes, After, Live, Ended
    <3>2. tries' = [tries EXCEPT ![p] = tries[p] + 1]
          /\ (pc' = [pc EXCEPT ![p] = pc[p]] \/ pc' = [pc EXCEPT ![p] = "failed"])
      BY <2>1, <2>5 DEF Unreachable, Goto
    <3>3. tries[p] + 1 \in 0..MaxTries /\ "failed" \in Ended
      BY <1>1, <2>1, <3>1 DEF IInv, TriesLeft, Live, Ended
    <3> QED
      BY <1>1, <3>1, <3>2, <3>3, OneUsesUp
  <2>6. ASSUME NEW p \in Runs, Unanswered(p) \/ Stop(p)
        PROVE  UsesUp
    <3>1. Live(p) /\ pc' = [pc EXCEPT ![p] = "failed"] /\ tries' = tries /\ "failed" \in Ended
      BY <2>6 DEF Unanswered, Stop, Goto, Live, Writes, After, Ended
    <3>2. tries' = [tries EXCEPT ![p] = tries[p]] /\ tries[p] \in 0..MaxTries
      BY <2>1, <3>1
    <3> QED
      BY <1>1, <3>1, <3>2, OneUsesUp
  <2>7. ASSUME NEW p \in Runs, Start(p) PROVE UsesUp
    <3>1. UNCHANGED tries /\ pc[p] = "idle" /\ pc' = [pc EXCEPT ![p] = "read"]
      BY <2>7 DEF Start, Goto
    <3> QED
      BY <2>1, <2>2, <3>1
  <2>8. ASSUME \/ \E e \in EventIds : Land(e)
               \/ \E p \in Runs, query \in Writes : LateEffect(p, query) \/ LateEnd(p, query)
        PROVE  UsesUp
    <3>1. UNCHANGED <<pc, tries>>
      BY <2>8 DEF Land, LateEffect, LateEnd
    <3> QED
      BY <2>2, <3>1
  <2> QED
    BY <1>1, <2>3, <2>4, <2>5, <2>6, <2>7, <2>8, Steps
<1>2. IInv /\ [Next]_vars => [UsesUp]_vars
  BY <1>1
<1> QED
  BY <1>2, InductiveInvariant, PTL DEF Spec
=============================================================================
