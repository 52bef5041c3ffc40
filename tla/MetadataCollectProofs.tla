------------------------ MODULE MetadataCollectProofs ------------------------
(***************************************************************************)
(* Proofs about MetadataCollect, for every number of tables and every      *)
(* limit of concurrency.                                                   *)
(***************************************************************************)
EXTENDS MetadataCollect, FiniteSetTheorems, TLAPS

\* The queue of futures: what is collected was started, and what is started
\* and not collected fits the limit.
QueueInv ==
  /\ Len(collected) <= started
  /\ started <= FillTarget

\* How the state of a future relates to how far its queries have come.
FuturesInv ==
  \A i \in Tables :
    /\ phase[i] = "waiting" <=> started < i
    /\ phase[i] = "waiting" => fetched[i] = 0
    /\ phase[i] \in {"running", "failed"} => fetched[i] < Len(QueriesOf(i))
    /\ phase[i] = "ok" => fetched[i] = Len(QueriesOf(i))
    /\ i \in slow => Finished(i)

Failed == {i \in Tables : phase[i] = "failed"}

WarningsInv == warnings = Cardinality(Failed) + Cardinality(slow)

\* The inductive invariant.
IInv ==
  /\ TypeOK
  /\ QueueInv
  /\ FuturesInv
  /\ CollectedInOrder
  /\ WarningsInv

------------------------------------------------------------------------------
\* Lemmas about the queries of a table

\* A table has at most three queries, each of them fills a field of its own.
LEMMA QueriesShape ==
  ASSUME NEW f \in Formats, NEW k \in Kinds
  PROVE  /\ Queries(f, k) \in Seq(Fields)
         /\ Len(Queries(f, k)) \in 0..3
         /\ \A p, q \in 1..Len(Queries(f, k)) :
              Queries(f, k)[p] = Queries(f, k)[q] => p = q
<1>1. CASE f = "sql"
  BY <1>1 DEF Queries, Fields
<1>2. CASE f # "sql" /\ k = "table"
  BY <1>2 DEF Queries, Fields, Formats
<1>3. CASE f # "sql" /\ k = "view"
  BY <1>3 DEF Queries, Fields, Formats
<1>4. CASE f # "sql" /\ k = "other"
  BY <1>4 DEF Queries, Fields, Formats
<1> QED BY <1>1, <1>2, <1>3, <1>4 DEF Kinds

\* A table misses a field exactly when not all of its queries succeeded.
LEMMA MissingField ==
  ASSUME NEW i, NEW f \in Formats, NEW k \in Kinds,
         NEW n \in 0..Len(Queries(f, k))
  PROVE  Enriched(i, f, k, n).filled # AllFields(f, k) <=> n < Len(Queries(f, k))
<1>1. Len(Queries(f, k)) \in 0..3  BY QueriesShape
<1>2. CASE n = Len(Queries(f, k))
  BY <1>1, <1>2 DEF Enriched, AllFields
<1>3. CASE n < Len(Queries(f, k))
  <2>1. n + 1 \in 1..Len(Queries(f, k)) /\ n + 1 \notin 1..n
    BY <1>1, <1>3
  <2>2. Queries(f, k)[n + 1] \in AllFields(f, k)
    BY <2>1 DEF AllFields
  <2>3. 1..n \subseteq 1..Len(Queries(f, k))
    BY <1>1
  <2>4. Queries(f, k)[n + 1] \notin {Queries(f, k)[q] : q \in 1..n}
    BY <2>1, <2>3, QueriesShape
  <2> QED BY <1>3, <2>2, <2>4 DEF Enriched
<1> QED BY <1>1, <1>2, <1>3

\* The tables, and so every set of tables, are finite.
LEMMA TablesFinite ==
  /\ IsFiniteSet(Tables)
  /\ \A S \in SUBSET Tables : IsFiniteSet(S) /\ Cardinality(S) \in Nat
<1>1. IsFiniteSet(Tables)
  BY NumTablesAssumption, FS_Interval, 1 \in Int, NumTables \in Int DEF Tables
<1>2. ASSUME NEW S \in SUBSET Tables PROVE IsFiniteSet(S) /\ Cardinality(S) \in Nat
  BY <1>1, FS_Subset, FS_CardinalityType
<1> QED BY <1>1, <1>2

------------------------------------------------------------------------------
\* The invariant

LEMMA InitIInv == Init => IInv
<1> SUFFICES ASSUME Init PROVE IInv
  OBVIOUS
<1>1. TypeOK
  BY NumTablesAssumption DEF Init, TypeOK, Phases, Tables
<1>2. QueueInv
  BY NumTablesAssumption, ConcurrencyAssumption DEF Init, QueueInv, FillTarget
<1>3. FuturesInv
  BY NumTablesAssumption DEF Init, FuturesInv, Finished, Tables
<1>4. CollectedInOrder
  BY NumTablesAssumption DEF Init, CollectedInOrder
<1>5. WarningsInv
  <2>1. Failed = {} /\ slow = {}
    BY DEF Init, Failed
  <2> QED BY <2>1, FS_EmptySet DEF Init, WarningsInv
<1> QED BY <1>1, <1>2, <1>3, <1>4, <1>5 DEF IInv

LEMMA FillIInv == IInv /\ Fill => IInv'
<1> SUFFICES ASSUME IInv, Fill PROVE IInv'
  OBVIOUS
<1> USE DEF IInv
<1>1. /\ Len(collected) \in Nat /\ FillTarget \in Nat /\ FillTarget <= NumTables
      /\ started' = FillTarget /\ FillTarget' = FillTarget /\ collected' = collected
      /\ started \in Nat /\ Len(collected) <= started
  BY NumTablesAssumption, ConcurrencyAssumption DEF Fill, FillTarget, TypeOK, QueueInv
<1>2. \A i \in Tables :
        phase'[i] = IF started < i /\ i <= FillTarget
                    THEN IF QueriesOf(i) = <<>> THEN "ok" ELSE "running"
                    ELSE phase[i]
  BY DEF Fill
<1>3. TypeOK'
  BY <1>1, <1>2, NumTablesAssumption DEF Fill, TypeOK, Phases, inputs
<1>4. QueueInv'
  BY <1>1 DEF QueueInv, Fill
<1>5. \A i \in Tables : phase[i] # "waiting" => phase'[i] = phase[i]
  BY <1>1, <1>2 DEF FuturesInv, Tables
<1>6. FuturesInv'
  <2> SUFFICES ASSUME NEW i \in Tables
               PROVE  /\ phase'[i] = "waiting" <=> started' < i
                      /\ phase'[i] = "waiting" => fetched'[i] = 0
                      /\ phase'[i] \in {"running", "failed"} => fetched'[i] < Len(QueriesOf(i)')
                      /\ phase'[i] = "ok" => fetched'[i] = Len(QueriesOf(i)')
                      /\ i \in slow' => Finished(i)'
    BY DEF FuturesInv
  <2>1. QueriesOf(i)' = QueriesOf(i) /\ fetched' = fetched /\ slow' = slow
    BY DEF Fill, QueriesOf, inputs
  <2>2. /\ QueriesOf(i) \in Seq(Fields) /\ Len(QueriesOf(i)) \in 0..3
    BY QueriesShape DEF QueriesOf, TypeOK
  <2>3. CASE started < i /\ i <= FillTarget
    <3>1. phase[i] = "waiting" /\ fetched[i] = 0 /\ i \notin slow
      BY <2>3 DEF FuturesInv, Finished
    <3>2. CASE QueriesOf(i) = <<>>
      BY <1>1, <1>2, <2>1, <2>3, <3>1, <3>2 DEF Tables
    <3>3. CASE QueriesOf(i) # <<>>
      <4>1. Len(QueriesOf(i)) > 0
        BY <2>2, <3>3
      <4> QED BY <1>1, <1>2, <2>1, <2>3, <3>1, <3>3, <4>1 DEF Tables
    <3> QED BY <3>2, <3>3
  <2>4. CASE ~(started < i /\ i <= FillTarget)
    <3>1. phase'[i] = phase[i]
      BY <1>2, <2>4
    <3>2. started' < i <=> started < i
      BY <1>1, <2>4 DEF Tables, Fill
    <3> QED BY <2>1, <3>1, <3>2 DEF FuturesInv, Finished
  <2> QED BY <2>3, <2>4
<1>7. CollectedInOrder'
  BY <1>1, <1>5, NumTablesAssumption
     DEF CollectedInOrder, Finished, Result, Fill, inputs, Tables
<1>8. WarningsInv'
  <2>1. Failed' = Failed
    BY <1>2, <1>5 DEF Failed, FuturesInv
  <2> QED BY <2>1 DEF WarningsInv, Fill
<1> QED BY <1>3, <1>4, <1>6, <1>7, <1>8

\* The end of an enrichment keeps the books: one more failed table for every
\* inner warning, one more slow table for the warning about time.
LEMMA FinishWarnings ==
  ASSUME TypeOK, WarningsInv, NEW i \in Tables,
         phase[i] = "running", i \notin slow,
         NEW as \in {"ok", "failed"},
         Finish(i, as, IF as = "failed" THEN 1 ELSE 0)
  PROVE  WarningsInv' /\ warnings' \in Nat /\ slow' \subseteq Tables
<1>1. phase' = [phase EXCEPT ![i] = as] /\ phase \in [Tables -> Phases]
  BY DEF Finish, TypeOK
<1>2. Failed \in SUBSET Tables /\ slow \in SUBSET Tables /\ i \notin Failed
  BY DEF Failed, TypeOK
<1>3. /\ IsFiniteSet(Failed) /\ Cardinality(Failed) \in Nat
      /\ IsFiniteSet(slow) /\ Cardinality(slow) \in Nat
  BY <1>2, TablesFinite
<1>4. Cardinality(Failed') = Cardinality(Failed) + (IF as = "failed" THEN 1 ELSE 0)
  <2>1. CASE as = "failed"
    <3>1. Failed' = Failed \cup {i}
      BY <1>1, <2>1 DEF Failed
    <3> QED BY <1>2, <1>3, <2>1, <3>1, FS_AddElement
  <2>2. CASE as = "ok"
    <3>1. Failed' = Failed
      BY <1>1, <2>2 DEF Failed
    <3> QED BY <1>3, <2>2, <3>1
  <2> QED BY <2>1, <2>2
<1> DEFINE d == IF as = "failed" THEN 1 ELSE 0
<1>5. /\ d \in Nat /\ Cardinality(Failed') = Cardinality(Failed) + d
      /\ warnings \in Nat /\ warnings = Cardinality(Failed) + Cardinality(slow)
      /\ \/ slow' = slow \cup {i} /\ warnings' = warnings + d + 1
         \/ slow' = slow /\ warnings' = warnings + d
  BY <1>4 DEF Finish, TypeOK, WarningsInv
<1>6. Cardinality(slow \cup {i}) = Cardinality(slow) + 1
  BY <1>3, FS_AddElement
<1> HIDE DEF d
<1>7. warnings' = Cardinality(Failed') + Cardinality(slow') /\ warnings' \in Nat
  <2>1. CASE slow' = slow \cup {i} /\ warnings' = warnings + d + 1
    <3>1. Cardinality(slow') = Cardinality(slow) + 1
      BY <1>6, <2>1
    <3> QED BY <1>3, <1>5, <2>1, <3>1
  <2>2. CASE slow' = slow /\ warnings' = warnings + d
    <3>1. Cardinality(slow') = Cardinality(slow)
      BY <2>2
    <3> QED BY <1>3, <1>5, <2>2, <3>1
  <2> QED BY <1>5, <2>1, <2>2
<1> QED BY <1>2, <1>5, <1>7 DEF WarningsInv

LEMMA AnswerIInv ==
  ASSUME NEW i \in Tables, IInv, Answer(i)
  PROVE  IInv'
<1> USE DEF IInv
<1>1. /\ phase[i] = "running" /\ i \notin slow
      /\ fetched' = [fetched EXCEPT ![i] = @ + 1]
      /\ started' = started /\ collected' = collected
      /\ format' = format /\ kind' = kind
  BY DEF Answer, FuturesInv, Finished, inputs
<1>2. /\ fetched \in [Tables -> 0..3] /\ phase \in [Tables -> Phases]
      /\ Len(QueriesOf(i)) \in 0..3 /\ fetched[i] < Len(QueriesOf(i))
      /\ \A j \in Tables : QueriesOf(j)' = QueriesOf(j)
  BY <1>1, QueriesShape DEF TypeOK, FuturesInv, QueriesOf
<1>3. \/ /\ fetched[i] + 1 = Len(QueriesOf(i)) /\ Finish(i, "ok", 0)
      \/ /\ fetched[i] + 1 # Len(QueriesOf(i))
         /\ phase' = phase /\ slow' = slow /\ warnings' = warnings
  BY DEF Answer
<1>4. WarningsInv' /\ warnings' \in Nat /\ slow' \subseteq Tables
  <2>1. CASE Finish(i, "ok", 0)
    BY <1>1, <2>1, FinishWarnings
  <2>2. CASE phase' = phase /\ slow' = slow /\ warnings' = warnings
    BY <2>2 DEF WarningsInv, Failed, TypeOK
  <2> QED BY <1>3, <2>1, <2>2
<1>5. /\ phase' \in [Tables -> Phases]
      /\ \A j \in Tables : j # i => phase'[j] = phase[j] /\ (j \in slow' <=> j \in slow)
      /\ phase'[i] = IF fetched[i] + 1 = Len(QueriesOf(i)) THEN "ok" ELSE "running"
      /\ phase'[i] = "running" => slow' = slow
  BY <1>1, <1>2, <1>3 DEF Finish, Phases
<1>6. TypeOK'
  <2>1. fetched[i] + 1 \in 0..3
    <3>1. fetched[i] \in 0..3 /\ Len(QueriesOf(i)) \in 0..3 /\ fetched[i] < Len(QueriesOf(i))
      BY <1>2
    <3>2. \A m, n \in 0..3 : n < m => n + 1 \in 0..3
      OBVIOUS
    <3> QED BY <3>1, <3>2
  <2>2. fetched' \in [Tables -> 0..3]
    BY <1>1, <1>2, <2>1
  <2> QED BY <1>1, <1>4, <1>5, <2>2 DEF TypeOK
<1>7. QueueInv'
  BY <1>1 DEF QueueInv, FillTarget
<1>8. FuturesInv'
  BY <1>1, <1>2, <1>5 DEF FuturesInv, Finished, Tables
<1>9. CollectedInOrder'
  <2> SUFFICES ASSUME NEW j \in 1..Len(collected)
               PROVE  Finished(j)' /\ collected'[j] = Result(j)'
    BY <1>1 DEF CollectedInOrder
  <2>1. j \in Tables /\ Finished(j) /\ collected[j] = Result(j)
    BY NumTablesAssumption DEF CollectedInOrder, Tables, TypeOK
  <2>2. j # i
    BY <1>1, <2>1 DEF Finished
  <2> QED BY <1>1, <1>2, <1>5, <2>1, <2>2 DEF Finished, Result
<1> QED BY <1>4, <1>6, <1>7, <1>8, <1>9

LEMMA FailIInv ==
  ASSUME NEW i \in Tables, IInv, Fail(i)
  PROVE  IInv'
<1> USE DEF IInv
<1>1. /\ phase[i] = "running" /\ i \notin slow
      /\ fetched' = fetched /\ started' = started /\ collected' = collected
      /\ format' = format /\ kind' = kind
      /\ Finish(i, "failed", 1)
  BY DEF Fail, FuturesInv, Finished, inputs
<1>2. /\ phase \in [Tables -> Phases]
      /\ \A j \in Tables : QueriesOf(j)' = QueriesOf(j)
  BY <1>1 DEF TypeOK, QueriesOf
<1>3. WarningsInv' /\ warnings' \in Nat /\ slow' \subseteq Tables
  BY <1>1, FinishWarnings
<1>4. /\ phase' = [phase EXCEPT ![i] = "failed"]
      /\ \A j \in Tables : j # i => phase'[j] = phase[j] /\ (j \in slow' <=> j \in slow)
  BY <1>1, <1>2 DEF Finish
<1>5. TypeOK'
  BY <1>1, <1>2, <1>3, <1>4 DEF TypeOK, Phases
<1>6. QueueInv'
  BY <1>1 DEF QueueInv, FillTarget
<1>7. FuturesInv'
  BY <1>1, <1>2, <1>4 DEF FuturesInv, Finished, Tables
<1>8. CollectedInOrder'
  BY <1>1, <1>2, <1>4 DEF CollectedInOrder, Finished, Result, Tables
<1> QED BY <1>3, <1>5, <1>6, <1>7, <1>8

LEMMA YieldIInv == IInv /\ Yield => IInv'
<1> SUFFICES ASSUME IInv, Yield PROVE IInv'
  OBVIOUS
<1> USE DEF IInv
<1> DEFINE next == Len(collected) + 1
<1>1. /\ Len(collected) \in Nat /\ next \in Tables /\ next <= started /\ Finished(next)
      /\ collected' = Append(collected, Result(next))
      /\ UNCHANGED <<format, kind, started, phase, fetched, slow, warnings>>
  BY NumTablesAssumption, ConcurrencyAssumption
     DEF Yield, TypeOK, Tables, QueueInv, FillTarget, inputs
<1>2. Result(next) \in [table : Tables, filled : SUBSET Fields]
  <2>1. /\ Queries(format, kind[next]) \in Seq(Fields)
        /\ fetched[next] \in 0..Len(Queries(format, kind[next]))
    BY <1>1, QueriesShape DEF TypeOK, FuturesInv, Finished, QueriesOf
  <2>2. {Queries(format, kind[next])[q] : q \in 1..fetched[next]} \subseteq Fields
    BY <2>1
  <2> QED BY <1>1, <2>2 DEF Result, Enriched
<1>3. /\ collected' \in Seq([table : Tables, filled : SUBSET Fields])
      /\ Len(collected') = next
      /\ \A j \in 1..next :
           collected'[j] = IF j = next THEN Result(next) ELSE collected[j]
  BY <1>1, <1>2 DEF TypeOK
<1>4. TypeOK'
  BY <1>1, <1>3 DEF TypeOK
<1>5. QueueInv'
  BY <1>1, <1>3, NumTablesAssumption, ConcurrencyAssumption
     DEF QueueInv, FillTarget, Tables, TypeOK
<1>6. FuturesInv' /\ WarningsInv'
  BY <1>1 DEF FuturesInv, Finished, QueriesOf, WarningsInv, Failed
<1>7. CollectedInOrder'
  BY <1>1, <1>3 DEF CollectedInOrder, Finished, Result, Tables
<1> QED BY <1>4, <1>5, <1>6, <1>7

LEMMA StutterIInv == IInv /\ UNCHANGED vars => IInv'
BY DEF IInv, vars, TypeOK, QueueInv, FillTarget, FuturesInv, Finished, QueriesOf,
       CollectedInOrder, Result, WarningsInv, Failed

\* IInv is an inductive invariant of the collector.
THEOREM Invariance == Spec => []IInv
<1>1. Init => IInv
  BY InitIInv
<1>2. IInv /\ [Next]_vars => IInv'
  BY FillIInv, AnswerIInv, FailIInv, YieldIInv, StutterIInv DEF Next, Returned
<1> QED BY <1>1, <1>2, PTL DEF Spec

------------------------------------------------------------------------------
\* What follows from the invariant

\* The state of the collector keeps its shape.
THEOREM TypeCorrect == Spec => []TypeOK
BY Invariance, PTL DEF IInv

\* At most Concurrency tables query the database at a time: the futures in
\* flight are among those started and not collected.
THEOREM Bounded == Spec => []BoundedInFlight
<1>1. IInv => BoundedInFlight
  <2> SUFFICES ASSUME IInv PROVE BoundedInFlight
    OBVIOUS
  <2> DEFINE from == Len(collected) + 1
  <2>1. /\ from \in Nat /\ started \in Nat /\ from <= started + 1
        /\ started - from + 1 <= Concurrency /\ Concurrency \in Nat
    BY NumTablesAssumption, ConcurrencyAssumption
       DEF IInv, QueueInv, TypeOK, FillTarget
  <2>2. InFlight \subseteq from..started
    <3> SUFFICES ASSUME NEW i \in Tables, phase[i] = "running"
                 PROVE  i \in from..started
      BY DEF InFlight
    <3>1. i <= started
      BY DEF IInv, FuturesInv, TypeOK, Tables
    <3>2. ~(i <= Len(collected))
      BY DEF IInv, CollectedInOrder, Finished, Tables
    <3> QED BY <2>1, <3>1, <3>2, NumTablesAssumption DEF Tables
  <2>3. /\ IsFiniteSet(from..started)
        /\ Cardinality(from..started) <= started - from + 1
    <3>1. from \in Int /\ started \in Int
      BY <2>1
    <3>2. /\ IsFiniteSet(from..started)
          /\ Cardinality(from..started) = IF from > started THEN 0 ELSE started - from + 1
      BY <3>1, FS_Interval
    <3> QED BY <2>1, <3>2
  <2>4. /\ Cardinality(InFlight) <= Cardinality(from..started)
        /\ Cardinality(InFlight) \in Nat /\ Cardinality(from..started) \in Nat
    BY <2>2, <2>3, FS_Subset, FS_CardinalityType
  <2> QED BY <2>1, <2>3, <2>4 DEF BoundedInFlight
<1> QED BY <1>1, Invariance, PTL

\* The results come back in the order of the table list, complete with what
\* their futures fetched.
THEOREM OrderPreserved == Spec => []CollectedInOrder
BY Invariance, PTL DEF IInv

\* Every table returned with a field missing was warned about.
THEOREM GapsWarned == Spec => []GapsAreWarned
<1>1. IInv => GapsAreWarned
  <2> SUFFICES ASSUME IInv PROVE GapsAreWarned
    OBVIOUS
  <2>1. warnings = Cardinality({i \in Tables : phase[i] = "failed"}) + Cardinality(slow)
    BY DEF IInv, WarningsInv, Failed
  <2>2. ASSUME NEW j \in 1..Len(collected)
        PROVE  collected[j].filled # AllFields(format, kind[j]) <=> phase[j] = "failed"
    <3>1. j \in Tables /\ Finished(j) /\ collected[j] = Enriched(j, format, kind[j], fetched[j])
      BY NumTablesAssumption DEF IInv, CollectedInOrder, Result, Tables, TypeOK
    <3>2. /\ format \in Formats /\ kind[j] \in Kinds
          /\ fetched[j] \in Nat /\ Len(Queries(format, kind[j])) \in Nat
          /\ phase[j] = "failed" => fetched[j] < Len(Queries(format, kind[j]))
          /\ phase[j] = "ok" => fetched[j] = Len(Queries(format, kind[j]))
      BY <3>1, QueriesShape DEF IInv, TypeOK, FuturesInv, QueriesOf
    <3>3. collected[j].filled # AllFields(format, kind[j])
            <=> fetched[j] < Len(Queries(format, kind[j]))
      BY <3>1, <3>2, MissingField DEF Finished
    <3> QED BY <3>1, <3>2, <3>3 DEF Finished
  <2> QED BY <2>1, <2>2 DEF GapsAreWarned
<1> QED BY <1>1, Invariance, PTL

\* The buffered collection implements the serial loop: a hand-over is a step
\* of the loop and everything else is invisible to it.
THEOREM ImplementsSerial ==
  Spec => Serial!Init /\ [][Serial!CollectNext]_(Serial!vars)
<1>1. Init => Serial!Init
  BY DEF Init, Serial!Init, Tables, Formats, Kinds, Serial!Formats, Serial!Kinds
<1>2. IInv /\ [Next]_vars => [Serial!CollectNext]_(Serial!vars)
  <2> SUFFICES ASSUME IInv, [Next]_vars
               PROVE  [Serial!CollectNext]_(Serial!vars)
    OBVIOUS
  <2>1. CASE Yield
    <3> DEFINE next == Len(collected) + 1
    <3>1. /\ Len(collected) < NumTables /\ next \in Tables /\ Finished(next)
          /\ collected' = Append(collected, Enriched(next, format, kind[next], fetched[next]))
          /\ UNCHANGED <<format, kind>>
      BY <2>1, NumTablesAssumption, ConcurrencyAssumption
         DEF Yield, IInv, TypeOK, Tables, QueueInv, FillTarget, Result, inputs
    <3>2. fetched[next] \in 0..Len(Queries(format, kind[next]))
      BY <3>1, QueriesShape DEF IInv, TypeOK, FuturesInv, Finished, QueriesOf
    <3> QED BY <3>1, <3>2 DEF Serial!CollectNext, Serial!Enriched, Serial!Queries,
                              Enriched, Queries
  <2>2. CASE Fill \/ (\E i \in Tables : Answer(i) \/ Fail(i)) \/ Returned \/ UNCHANGED vars
    BY <2>2 DEF Fill, Answer, Fail, Returned, inputs, vars, Serial!vars
  <2> QED BY <2>1, <2>2 DEF Next
<1> QED BY <1>1, <1>2, Invariance, PTL DEF Spec
==============================================================================
