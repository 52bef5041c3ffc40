---------------------------- MODULE SchemaRestore ----------------------------
(***************************************************************************)
(* The files of a PostgreSQL export, run against another database the way   *)
(* the repository's README tells: first the files of all schemas, in any    *)
(* order, then the files of the statements across schemas, in any order,    *)
(* each with ON_ERROR_STOP.  The server is external: a statement runs when  *)
(* what it refers to exists and what it adds does not.                      *)
(***************************************************************************)
EXTENDS TableDdl

CONSTANTS Schemas,
          Homes,        \* the assignments of relations to schemas that are tried
          Reads,        \* view |-> the relations it reads
          Base,         \* items that every source database has
          Candidates,   \* items that it may have,
          MaxItems      \* and how many of them at once

\* What a server accepts of an item.
Possible(i) ==
    /\ i \in [kind : {"key", "check", "notnull", "fk", "default", "index", "option", "owned",
                      "comment"},
              on : Relations, to : Relations, valid : BOOLEAN, copy : {FALSE}]
    /\ ~i.valid => i.kind \in {"check", "notnull", "fk"}
    /\ IsView(i.on) => i.kind = "comment" \/ (i.kind = "index" /\ RelKind[i.on] = "m")
    /\ i.kind = "option" => RelKind[i.on] = "f"
    /\ i.kind = "owned" => i.on \in Listed
    /\ i.kind = "default" => {i.on, i.to} \subseteq Listed
    /\ i.kind \in {"default", "fk"} => ~IsView(i.to)

\* A view comes behind those it reads (order_views, see ViewOrder).
ASSUME SourceAssumption ==
    /\ Homes \subseteq [Relations -> Schemas]
    /\ \A i \in Base \cup Candidates : Possible(i)
    /\ MaxItems \in Nat
    /\ \A v \in DOMAIN Reads : /\ v \in Relations /\ IsView(v) /\ Reads[v] \subseteq Relations
                              /\ \A r \in Reads[v] : IsView(r) => r < v

VARIABLES db,           \* the source database
          preset,       \* the schemas that the target has from the start
          toRun,        \* schemas whose file has not been run
          toRunCross,   \* schemas whose cross-schema file has not been run
          script,       \* statements left of the file that is running
          schemas, relations, items,   \* the target database
          failed        \* a statement failed

vars == <<db, preset, toRun, toRunCross, script, schemas, relations, items, failed>>

\* Rows that the server keeps for a foreign key to a partitioned table.
Copy(fk, p) == [fk EXCEPT !.to = p, !.copy = TRUE]
Copies(fks) == UNION {{Copy(f, p) : p \in Descendants(f.to)} : f \in fks}
WithCopies(set) == set \cup Copies({i \in set : i.kind = "fk" /\ RelKind[i.to] = "p"})

\* Two items that differ in their marks only would have the same name.
Same(i, j) == i.kind = j.kind /\ i.on = j.on /\ i.to = j.to

\* A foreign key goes by a key of the table or of one that it is a partition of.
HasKey(r, set) ==
    \E i \in set : i.kind \in {"key", "index"} /\ i.on \in {r} \cup Ancestors[r]

\* A choice of an item of Base adds nothing.
SourceItems ==
    {set \in {WithCopies(Base \cup {choice[k] : k \in 1..MaxItems}) :
                 choice \in [1..MaxItems -> Candidates \cup Base]} :
       /\ \A i, j \in set : Same(i, j) => i = j
       /\ \A i \in set : i.kind = "fk" => HasKey(i.to, set)}

-----------------------------------------------------------------------------
(* The files *)

InSection(n, st) ==
    [create |-> st.create, on |-> st.on, adds |-> st.adds, place |-> <<n, st.place>>]
Section(n, statements) == {InSection(n, st) : st \in statements}

\* Whether the statement of place a comes before that of place b.
Before(a, b) ==
    \/ a[1] < b[1]
    \/ a[1] = b[1] /\ \E k \in 1..5 : /\ a[2][k] < b[2][k]
                                      /\ \A j \in 1..(k - 1) : a[2][j] = b[2][j]

\* write_sql: the tables, the views, and last what must come after all tables.
SchemaFile(s) ==
    LET here == {r \in Listed : db.home[r] = s}
        views == {r \in here : IsView(r)}
    IN  Section(1, UNION {FetchTableDdl(db, r).create : r \in here \ views})
          \cup Section(2, UNION {FetchTableDdl(db, r).create : r \in views})
          \cup Section(3, UNION {FetchTableDdl(db, r).after : r \in here})

CrossSchemaFile(s) ==
    Section(4, UNION {FetchTableDdl(db, r).cross : r \in {r \in Listed : db.home[r] = s}})

-----------------------------------------------------------------------------
(* The server *)

Runs(st) ==
    /\ IF st.create
       THEN /\ db.home[st.on] \in schemas
            /\ st.on \notin relations
            /\ st.on \in DOMAIN ParentOf => ParentOf[st.on] \in relations
            /\ st.on \in DOMAIN Reads => Reads[st.on] \subseteq relations
       ELSE st.on \in relations
    /\ \A i \in st.adds :
          /\ i.kind \in {"fk", "default"} => i.to \in relations \cup {st.on}
          /\ i.kind = "fk" => HasKey(i.to, items \cup st.adds)
          /\ ~\E j \in items : Same(i, j)

\* A constraint in a CREATE TABLE is valid, even if it says NOT VALID.
Added(st) ==
    WithCopies(IF st.create THEN {[i EXCEPT !.valid = TRUE] : i \in st.adds} ELSE st.adds)

-----------------------------------------------------------------------------
Init ==
    /\ db \in [items : SourceItems, home : Homes]
    /\ preset \in {{}, Schemas}
    /\ toRun = Schemas /\ toRunCross = Schemas /\ script = {}
    /\ schemas = preset /\ relations = {} /\ items = {} /\ failed = FALSE

\* A schema file begins with CREATE SCHEMA IF NOT EXISTS.
RunSchemaFile(s) ==
    /\ script = {} /\ s \in toRun
    /\ toRun' = toRun \ {s}
    /\ script' = SchemaFile(s)
    /\ schemas' = schemas \cup {s}
    /\ UNCHANGED <<db, preset, toRunCross, relations, items, failed>>

RunCrossSchemaFile(s) ==
    /\ script = {} /\ toRun = {} /\ s \in toRunCross
    /\ toRunCross' = toRunCross \ {s}
    /\ script' = CrossSchemaFile(s)
    /\ UNCHANGED <<db, preset, toRun, schemas, relations, items, failed>>

\* The next statement of the file.
IsNext(st) == st \in script /\ \A other \in script : ~Before(other.place, st.place)

Execute ==
    /\ \E st \in script :
          /\ IsNext(st) /\ Runs(st)
          /\ relations' = IF st.create THEN relations \cup {st.on} ELSE relations
          /\ items' = items \cup Added(st)
          /\ script' = script \ {st}
    /\ UNCHANGED <<db, preset, toRun, toRunCross, schemas, failed>>

\* ON_ERROR_STOP: the rest of the file is not run.
Fail ==
    /\ \E st \in script : IsNext(st) /\ ~Runs(st)
    /\ failed' = TRUE
    /\ script' = {}
    /\ UNCHANGED <<db, preset, toRun, toRunCross, schemas, relations, items>>

Next ==
    \/ \E s \in Schemas : RunSchemaFile(s) \/ RunCrossSchemaFile(s)
    \/ Execute
    \/ Fail

Spec == Init /\ [][Next]_vars

-----------------------------------------------------------------------------
(* Properties *)

AllItems == WithCopies(Base \cup Candidates)
Restorable == AllItems \cup {[i EXCEPT !.valid = TRUE] : i \in AllItems}

\* The target holds relations and items of the source; a script consists of
\* statements on them, and creates none of them twice.
TypeOK ==
    /\ db.items \subseteq AllItems /\ db.home \in Homes
    /\ preset \in {{}, Schemas} /\ schemas \in SUBSET Schemas
    /\ toRun \in SUBSET Schemas /\ toRunCross \in SUBSET Schemas
    /\ relations \in SUBSET Relations /\ items \in SUBSET Restorable
    /\ \A st \in script : st.on \in Relations /\ st.adds \subseteq AllItems
    /\ \A x, y \in script : x.create /\ y.create /\ x.on = y.on => x = y
    /\ failed \in BOOLEAN

\* What the tool can restore.  A partition is written to the file of its root;
\* when it is of another schema, the target must have that schema, and no
\* foreign key may reference it, because the key goes by the schema and not by
\* the file.  And no foreign key references a partitioned table, because its
\* copies would be written out too.  A view reads relations of its own schema.
Root(r) == CHOOSE t \in {r} \cup Ancestors[r] : t \in Listed
AtHome(r) == db.home[r] = db.home[Root(r)]
Supported ==
    /\ (\A p \in DOMAIN ParentOf : AtHome(p)) \/ preset = Schemas
    /\ \A i \in db.items : i.kind = "fk" => AtHome(i.to) /\ RelKind[i.to] # "p"
    /\ \A v \in DOMAIN Reads : \A r \in Reads[v] : db.home[Root(r)] = db.home[v]
Finished == toRun = {} /\ toRunCross = {} /\ script = {}
Restored == relations = Relations /\ items = db.items /\ ~failed

\* No statement fails, in whatever order the schema files and then the
\* cross-schema files are run, and however the schemas refer to each other
\* (README of the repository, "SQL": the order of the statements).
SupportedExecutes == Supported => ~failed

\* At the end the target has what the source has: nothing was left out, nothing
\* was made twice, and what was NOT VALID still is.
RestoresEverything ==
    Finished /\ Supported => Restored

\* A schema file brings everything but what refers to another schema: after all
\* schema files, and before the first cross-schema file, only that is missing.
OnlyCrossIsMissing ==
    (toRun = {} /\ toRunCross = Schemas /\ script = {} /\ Supported)
      => db.items \ items = {i \in db.items : i.kind \in {"fk", "default"}
                                /\ db.home[i.to] # db.home[Root(i.on)]}

\* What the repository's README says without a condition: the files restore
\* every foreign key, also one that references a partitioned table.
ForeignKeysRestored ==
    (Finished /\ \A p \in DOMAIN ParentOf : AtHome(p)) => Restored
=============================================================================
