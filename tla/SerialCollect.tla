---------------------------- MODULE SerialCollect ----------------------------
(***************************************************************************)
(* What collecting a schema's metadata promises: the serial loop that the  *)
(* buffered collection replaced.  Tables are enriched one after the other, *)
(* in the order of the table list; each table comes back with the fields   *)
(* its queries filled before the first one that failed (all of them if     *)
(* none failed).                                                           *)
(***************************************************************************)
EXTENDS TableQueries

CONSTANT NumTables \* length of the table list of the schema

VARIABLES
  format,    \* the output format of the run
  kind,      \* what get_tables said each table is
  collected  \* the Vec of enriched tables

vars == <<format, kind, collected>>

Init ==
  /\ format \in Formats
  /\ kind \in [1..NumTables -> Kinds]
  /\ collected = <<>>

CollectNext ==
  /\ Len(collected) < NumTables
  /\ LET i == Len(collected) + 1
     IN  \E n \in 0..Len(Queries(format, kind[i])) :
           collected' = Append(collected, Enriched(i, format, kind[i], n))
  /\ UNCHANGED <<format, kind>>

Spec == Init /\ [][CollectNext]_vars /\ WF_vars(CollectNext)
==============================================================================
