--------------------------- MODULE MCSchemaRestore ---------------------------
\* Schema s1: 1 partitioned into 5 (itself partitioned into 4), table 2,
\* materialized view 6 of 2.  Schema s2: table 3, foreign table 7, 8
\* partitioned into the foreign table 9.  Partition 4 may live in s2.
EXTENDS SchemaRestore

MCRelations == 1..9
MCRelKind == <<"p", "r", "r", "r", "p", "m", "f", "p", "f">>
MCParentOf == [p \in {4, 5, 9} |-> CASE p = 4 -> 5 [] p = 5 -> 1 [] p = 9 -> 8]
MCSchemas == {"s1", "s2"}
MCHomes == LET home(s) == [r \in MCRelations |-> IF r = 4 THEN s
                             ELSE IF r \in {1, 2, 5, 6} THEN "s1" ELSE "s2"]
           IN  {home("s1"), home("s2")}
MCReads == [v \in {6} |-> {2}]

Item(k, r, t, v) == [kind |-> k, on |-> r, to |-> t, valid |-> v, copy |-> FALSE]
MCBase == {Item("key", r, r, TRUE) : r \in {1, 3}} \cup {Item("index", r, r, TRUE) : r \in {2, 4, 6}}
            \cup {Item("option", r, r, TRUE) : r \in {7, 9}} \cup {Item("owned", 2, 2, TRUE)}
            \cup {Item("comment", r, r, TRUE) : r \in {5, 6}}
Checks == {Item("check", r, r, v) : r \in {1, 4, 7}, v \in BOOLEAN}
            \cup {Item("notnull", 3, 3, v) : v \in BOOLEAN}
Defaults == {Item("default", r, t, TRUE) : r \in {1, 2, 3}, t \in {1, 2, 3}}
              \ {Item("default", r, r, TRUE) : r \in {1, 2, 3}}
Fks == {Item("fk", r, t, TRUE) : r \in {1, 2, 3, 4, 8}, t \in {1, 2, 3, 4}}
MCCandidates == Checks \cup Defaults \cup Fks
=============================================================================
