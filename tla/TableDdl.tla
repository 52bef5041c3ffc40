------------------------------ MODULE TableDdl ------------------------------
(***************************************************************************)
(* The statements that fetch_table_ddl (db/postgres/ddl.rs) makes of one    *)
(* relation and where it puts them: into the CREATE part at the relation's  *)
(* place in the schema file, behind all tables of the file, or into the     *)
(* file of the statements that need another schema.                         *)
(*                                                                          *)
(* A source database is a record db:                                        *)
(*   db.home[r]   the schema of relation r                                  *)
(*   db.items     what the catalog says of the relations, one record each:  *)
(*     kind   "key" (primary key, unique, exclusion), "check", "notnull",   *)
(*            "fk", "default" (a default that draws from the identity       *)
(*            sequence of another table), "index", "option" (foreign column *)
(*            option), "owned" (serial sequence), "comment"                 *)
(*     on     the relation it belongs to                                    *)
(*     to     the relation it refers to (fk, default), otherwise on         *)
(*     valid  FALSE for a constraint that is marked NOT VALID               *)
(*     copy   TRUE for the row that the server itself adds for a partition  *)
(*            of a table that a foreign key references                      *)
(* Columns, types, names and clauses are in the CREATE TABLE whatever they  *)
(* are and make no difference here.                                         *)
(***************************************************************************)
EXTENDS Naturals, FiniteSets

CONSTANTS Relations,   \* numbers, in the order in which they are written to a file
          RelKind,     \* relkind: "r" table, "p" partitioned, "f" foreign, "v" view, "m" matview
          ParentOf     \* partition |-> the table it is a partition of

ASSUME RelationsAssumption ==
    /\ Relations \subseteq Nat /\ IsFiniteSet(Relations)
    /\ RelKind \in [Relations -> {"r", "p", "f", "v", "m"}]
    /\ DOMAIN ParentOf \subseteq Relations /\ ParentOf \in [DOMAIN ParentOf -> Relations]
    /\ \A p \in DOMAIN ParentOf : RelKind[ParentOf[p]] = "p" /\ RelKind[p] \in {"r", "p", "f"}

\* A relation and those above it: what every set has that has the relation and, with
\* a partition, its parent.
HasParents(S) == \A r \in S : r \in DOMAIN ParentOf => ParentOf[r] \in S
Above == [r \in Relations |->
            {u \in Relations : \A S \in SUBSET Relations : r \in S /\ HasParents(S) => u \in S}]
Ancestors == [r \in Relations |-> IF r \in DOMAIN ParentOf THEN Above[ParentOf[r]] ELSE {}]

ASSUME PartitionsAssumption == \A p \in DOMAIN ParentOf : p \notin Ancestors[p]

Descendants(r) == {p \in DOMAIN ParentOf : r \in Ancestors[p]}

\* Mutant: the table list has the partitions too.
ListsPartitionsToo == Relations

\* The relations of the table list: partitions are written with their parent.
Listed == Relations \ DOMAIN ParentOf
IsView(r) == RelKind[r] \in {"v", "m"}

\* A statement creates the relation `on` together with some items, or adds an item
\* to it.  Of a list of statements the one with the least place comes first; those
\* of one place come in the order of their names, whichever that is.
Create(place, r, items) == {[create |-> TRUE, on |-> r, adds |-> items, place |-> place]}
Alters(place, items) ==
    {[create |-> FALSE, on |-> i.on, adds |-> {i}, place |-> place] : i \in items}

\* The k-th statements of a table or view, and those of the partition p of table t:
\* ORDER BY t.level, c.relname of the partition tree.
At(r, k) == <<r, k, 0, 0, 0>>
AtPartition(t, p, k) == <<t, 4, Cardinality(Ancestors[p]), p, k>>

Of(db, r, kinds) == {i \in db.items : i.on = r /\ i.kind \in kinds}
Indexes(db, r) == Of(db, r, {"index"})
ColumnOptions(db, r) == Of(db, r, {"option"})
Ownership(db, t) == Of(db, t, {"owned"})
Comments(db, r) == Of(db, r, {"comment"})
DeferredDefaults(db, t) == Of(db, t, {"default"})

\* Every row of pg_constraint of a listed table, the server's copies included;
\* for a partition only the rows that nothing passed on to it (coninhcount = 0).
Constraints(db, r) == Of(db, r, {"key", "check", "notnull", "fk"})
OwnConstraints(db, p) == {i \in Constraints(db, p) : ~i.copy}
IsNotValid(i) == ~i.valid

\* The CREATE TABLE holds the constraints that are valid and no foreign key.
CreateTable(db, t) ==
    Create(At(t, 1), t, {i \in Constraints(db, t) : i.kind # "fk" /\ ~IsNotValid(i)})

\* Mutant: constraints that are not valid are left out of both places.
ForgetsNotValid(t, items) == Alters(At(t, 3), {i \in items : i.kind = "fk"})

\* The ALTER TABLE statements for constraints that are not in CREATE TABLE.
FkDdl(t, items) ==
    Alters(At(t, 2), {i \in items : i.kind \in {"check", "notnull"} /\ IsNotValid(i)})
      \cup Alters(At(t, 3), {i \in items : i.kind = "fk"})

\* Mutants: the schema of the partition decides, not that of the file; every
\* deferred default goes to the cross-schema file.
CrossesFromOwner(db, schema, i) ==
    i.kind \in {"fk", "default"} /\ db.home[i.to] # db.home[i.on]
DefaultsCross(db, schema, i) ==
    i.kind = "default" \/ (i.kind = "fk" /\ db.home[i.to] # schema)

\* An item that refers to a table of another schema than the file's.
CrossesFrom(db, schema, i) == i.kind \in {"fk", "default"} /\ db.home[i.to] # schema

PartitionCreate(db, t, p) ==
    Create(AtPartition(t, p, 1), p, {})
      \cup Alters(AtPartition(t, p, 2), ColumnOptions(db, p))
      \cup Alters(AtPartition(t, p, 3), {i \in OwnConstraints(db, p) : i.kind # "fk"})
      \cup Alters(AtPartition(t, p, 4), Comments(db, p))

PartitionFks(db, t) ==
    UNION {{i \in OwnConstraints(db, p) : i.kind = "fk"} : p \in Descendants(t)}

\* What fetch_partitions_ddl returns for a partitioned table t.
PartitionDdl(db, t) ==
    [create |-> UNION {PartitionCreate(db, t, p) : p \in Descendants(t)},
     indexes |-> Alters(At(t, 5), UNION {Indexes(db, r) : r \in {t} \cup Descendants(t)}),
     after |-> Alters(At(t, 4), {i \in PartitionFks(db, t) : ~CrossesFrom(db, db.home[t], i)}),
     cross |-> Alters(At(t, 4), {i \in PartitionFks(db, t) : CrossesFrom(db, db.home[t], i)})]

\* A view ends early: its CREATE, the indexes of a materialized view, comments.
ViewDdl(db, v) ==
    [create |-> Create(At(v, 1), v, {})
                  \cup (IF RelKind[v] = "m" THEN Alters(At(v, 2), Indexes(db, v)) ELSE {})
                  \cup Alters(At(v, 3), Comments(db, v)),
     after |-> {}, cross |-> {}]

\* A table: its own statements around those of its partitions.
BaseTableDdl(db, t) ==
    LET parts == PartitionDdl(db, t)
        away == {i \in Constraints(db, t) \cup DeferredDefaults(db, t) :
                   CrossesFrom(db, db.home[t], i)}
        here == Constraints(db, t) \ away
    IN  [create |-> CreateTable(db, t)
                      \cup (IF RelKind[t] = "p" THEN parts.create \cup parts.indexes
                                                ELSE Alters(At(t, 2), Indexes(db, t)))
                      \cup (IF RelKind[t] = "f" THEN Alters(At(t, 3), ColumnOptions(db, t)) ELSE {})
                      \cup Alters(At(t, 6), Ownership(db, t)) \cup Alters(At(t, 7), Comments(db, t)),
         after |-> Alters(At(t, 1), DeferredDefaults(db, t) \ away) \cup FkDdl(t, here)
                     \cup (IF RelKind[t] = "p" THEN parts.after ELSE {}),
         cross |-> Alters(At(t, 1), {i \in away : i.kind = "default"}) \cup FkDdl(t, away)
                     \cup (IF RelKind[t] = "p" THEN parts.cross ELSE {})]

FetchTableDdl(db, r) == IF IsView(r) THEN ViewDdl(db, r) ELSE BaseTableDdl(db, r)
=============================================================================
