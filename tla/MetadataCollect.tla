--------------------------- MODULE MetadataCollect ---------------------------
(***************************************************************************)
(* Collecting the metadata of one schema's tables: buffer_metadata runs    *)
(* one enrich_table future per table, at most Concurrency of them at a     *)
(* time, and returns their results in the order of the table list.         *)
(*                                                                         *)
(* The futures share one task.  Every poll of the stream first fills the   *)
(* queue of futures (Fill), then lets the futures whose query was answered *)
(* run up to their next query (Answer, Fail), then hands over the result   *)
(* of the oldest future if that one has finished (Yield).  The stream is a *)
(* library's: it is modelled from the way buffer_metadata uses it.         *)
(***************************************************************************)
EXTENDS TableQueries, FiniteSets

CONSTANTS
  NumTables,   \* length of the table list of the schema
  Concurrency  \* METADATA_CONCURRENCY

ASSUME NumTablesAssumption == NumTables \in Nat
\* buffer_metadata leaves it to its caller that the limit is at least one.
ASSUME ConcurrencyAssumption == Concurrency \in Nat \ {0}

VARIABLES
  format,     \* the output format of the run
  kind,       \* what get_tables said each table is
  started,    \* tables 1..started have been taken from the list
  phase,      \* the state of each table's future
  fetched,    \* how many queries of each table have succeeded
  slow,       \* the tables whose enrichment took a second or more
  collected,  \* the results handed over so far
  warnings    \* WARN events counted by WARNINGS

inputs == <<format, kind>>
vars   == <<format, kind, started, phase, fetched, slow, collected, warnings>>

Tables   == 1..NumTables
Phases   == {"waiting", "running", "ok", "failed"}

QueriesOf(i) == Queries(format, kind[i])

\* The table as its future returns it.
Result(i) == Enriched(i, format, kind[i], fetched[i])

Finished(i) == phase[i] \in {"ok", "failed"}

\* Futures waiting for the answer to a query: each of them uses the database.
InFlight == {i \in Tables : phase[i] = "running"}

\* Mutants: the limit is ignored; the end of the list is overrun.
TargetIgnoringLimit == NumTables
UncappedTarget == Len(collected) + Concurrency

\* How far the list is consumed once the queue of futures is full.
FillTarget ==
  IF Len(collected) + Concurrency < NumTables
  THEN Len(collected) + Concurrency
  ELSE NumTables

Init ==
  /\ format \in Formats
  /\ kind \in [Tables -> Kinds]
  /\ started = 0
  /\ phase = [i \in Tables |-> "waiting"]
  /\ fetched = [i \in Tables |-> 0]
  /\ slow = {}
  /\ collected = <<>>
  /\ warnings = 0

\* A mutant: the queue is not filled again once its futures are handed over.
FillOnce ==
  /\ started = 0 /\ 0 < FillTarget
  /\ started' = FillTarget
  /\ phase' = [i \in Tables |->
                 IF i <= FillTarget
                 THEN IF QueriesOf(i) = <<>> THEN "ok" ELSE "running"
                 ELSE phase[i]]
  /\ UNCHANGED <<inputs, fetched, slow, collected, warnings>>

\* The stream takes tables from the list until the queue of futures is full.
\* A table that needs no query is finished as soon as its future first runs.
Fill ==
  /\ started < FillTarget
  /\ started' = FillTarget
  /\ phase' = [i \in Tables |->
                 IF started < i /\ i <= FillTarget
                 THEN IF QueriesOf(i) = <<>> THEN "ok" ELSE "running"
                 ELSE phase[i]]
  /\ UNCHANGED <<inputs, fetched, slow, collected, warnings>>

\* The future of table i ends: enrich_table warns if it took a second or more,
\* on top of the warnings of enrich_table_inner.
Finish(i, as, innerWarnings) ==
  /\ phase' = [phase EXCEPT ![i] = as]
  /\ \/ /\ slow' = slow \cup {i}
        /\ warnings' = warnings + innerWarnings + 1
     \/ /\ slow' = slow
        /\ warnings' = warnings + innerWarnings

\* The query that table i waits for succeeds: its field is filled, and the
\* future goes on to the next query or ends.
Answer(i) ==
  /\ started = FillTarget
  /\ phase[i] = "running"
  /\ fetched' = [fetched EXCEPT ![i] = @ + 1]
  /\ IF fetched[i] + 1 = Len(QueriesOf(i))
     THEN Finish(i, "ok", 0)
     ELSE UNCHANGED <<phase, slow, warnings>>
  /\ UNCHANGED <<inputs, started, collected>>

\* A mutant: the failure is swallowed.
FailSilently(i) ==
  /\ started = FillTarget
  /\ phase[i] = "running"
  /\ Finish(i, "failed", 0)
  /\ UNCHANGED <<inputs, started, fetched, collected>>

\* The query that table i waits for fails: the error is a warning, and the
\* table is returned with the fields filled before.
Fail(i) ==
  /\ started = FillTarget
  /\ phase[i] = "running"
  /\ Finish(i, "failed", 1)
  /\ UNCHANGED <<inputs, started, fetched, collected>>

\* The oldest future has finished: its result is the next element of the Vec.
Yield ==
  /\ started = FillTarget
  /\ Len(collected) < started
  /\ Finished(Len(collected) + 1)
  /\ collected' = Append(collected, Result(Len(collected) + 1))
  /\ UNCHANGED <<inputs, started, phase, fetched, slow, warnings>>

\* collect() has returned the Vec.
Returned ==
  /\ Len(collected) = NumTables
  /\ UNCHANGED vars

Next ==
  \/ Fill
  \/ \E i \in Tables : Answer(i)
  \/ \E i \in Tables : Fail(i)
  \/ Yield
  \/ Returned

\* The executor polls the task whenever it can make progress, and the server
\* answers every query, with rows or with an error.
Fairness ==
  /\ WF_vars(Fill)
  /\ WF_vars(Yield)
  /\ \A i \in Tables : WF_vars(Answer(i) \/ Fail(i))

Spec == Init /\ [][Next]_vars /\ Fairness

------------------------------------------------------------------------------
\* Properties

\* The shape of the state: what the fields of the collector range over.
TypeOK ==
  /\ format \in Formats
  /\ kind \in [Tables -> Kinds]
  /\ started \in 0..NumTables
  /\ phase \in [Tables -> Phases]
  /\ fetched \in [Tables -> 0..3]
  /\ slow \subseteq Tables
  /\ collected \in Seq([table : Tables, filled : SUBSET Fields])
  /\ warnings \in Nat

\* No more than Concurrency tables query the database at any moment, however
\* the answers and the hand-overs interleave.
BoundedInFlight == Cardinality(InFlight) <= Concurrency

\* Whatever order the futures finish in, element j of the result is table j of
\* the list, with everything its future had fetched when it ended, and nothing
\* changes it afterwards.
CollectedInOrder ==
  /\ Len(collected) <= NumTables
  /\ \A j \in 1..Len(collected) : Finished(j) /\ collected[j] = Result(j)

\* A table that is returned with a field missing has been warned about, once,
\* and the only other warnings are those about slow tables: the count that
\* --strict looks at accounts for every gap.
GapsAreWarned ==
  /\ warnings = Cardinality({i \in Tables : phase[i] = "failed"}) + Cardinality(slow)
  /\ \A j \in 1..Len(collected) :
       collected[j].filled # AllFields(format, kind[j]) <=> phase[j] = "failed"

\* The collector returns what the serial loop returns for the same answers of
\* the database, and it returns: no future is left behind in the queue.
Serial == INSTANCE SerialCollect
SerialLoop == Serial!Spec
==============================================================================
