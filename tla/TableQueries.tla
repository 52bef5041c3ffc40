---------------------------- MODULE TableQueries -----------------------------
(***************************************************************************)
(* Which queries enrich one table, and which field each of them fills.     *)
(***************************************************************************)
EXTENDS Naturals, Sequences

Formats == {"excel", "markdown", "sql"}
Kinds   == {"table", "view", "other"}  \* is_table, is_view, neither
Fields  == {"columns", "indexes", "constraints", "view", "ddl"}

\* The queries of a table, in the order enrich_table_inner awaits them.
Queries(f, k) ==
  CASE f = "sql"                -> <<"ddl">>
    [] f # "sql" /\ k = "table" -> <<"columns", "indexes", "constraints">>
    [] f # "sql" /\ k = "view"  -> <<"view">>
    [] f # "sql" /\ k = "other" -> <<>>

\* The fields of a table that is returned with nothing missing.
AllFields(f, k) == {Queries(f, k)[q] : q \in 1..Len(Queries(f, k))}

\* Table i, of kind k, with the fields of its first n queries filled.
Enriched(i, f, k, n) == [table |-> i, filled |-> {Queries(f, k)[q] : q \in 1..n}]
==============================================================================
