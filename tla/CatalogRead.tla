------------------------------ MODULE CatalogRead ------------------------------
(***************************************************************************)
(* From the rows of the catalog to the document of a schema: the list of    *)
(* tables, then for every table its columns, indexes and foreign keys, for   *)
(* every view its text, and in the end the Markdown file.  A value that      *)
(* cannot be decoded is replaced by a default; try_get_or_warn               *)
(* (db/row_helpers.rs) warns of it, once for each schema, table and column   *)
(* in the life of the process, while some reads of the MySQL client do not.  *)
(* MySQL tells of an index by one row for each column, which are joined;     *)
(* PostgreSQL by a statement, which is parsed.                               *)
(***************************************************************************)
EXTENDS IndexText, MySqlText, MarkdownText

CONSTANTS Tables,    \* <<schema, name>>, each a sequence of words and "|"
          TypeOf,    \* "table" or "view", as the server has it
          Indexes,   \* client |-> the indexes of every table, by name; columns,
                     \* method and so on are texts, operators is <<>> unless a
                     \* constraint that excludes made the index
          Fields,    \* the columns of every table, as the server has them: name,
                     \* type, comment and key are texts; kind and value tell of the
                     \* default; nullable, computed
          KeyRows,   \* PostgreSQL: [column, primary, unique, count, position] for
                     \* every column of every index
          Keys,      \* the foreign keys of every table: [name, columns, schema,
                     \* table]; columns are pairs [of, to]
          ViewTexts, \* view |-> its definition
          Comment,   \* the comment of every table
          MaxLost    \* bound: values that cannot be decoded

ASSUME ReadAssumption ==
    /\ IsFiniteSet(Tables) /\ Tables \subseteq Seq(STRING) \X Seq(STRING)
    /\ TypeOf \in [Tables -> {"table", "view"}]
    /\ \A c \in {"mysql", "postgres"} :
         /\ \A k \in DOMAIN Indexes[c] : Indexes[c][k].name # "" /\ Indexes[c][k].columns # <<>>
         /\ \A j, k \in DOMAIN Indexes[c] : Indexes[c][j].name = Indexes[c][k].name => j = k
    /\ Fields # <<>> /\ DOMAIN ViewTexts = {t \in Tables : TypeOf[t] = "view"}
    /\ \A j, k \in DOMAIN Keys : Keys[j].name = Keys[k].name => j = k
    /\ MaxLost \in Nat

\* What the server tells of an index, of a foreign key and of a column of an index.
ASSUME RecordsAssumption ==
    /\ \A c \in {"mysql", "postgres"} :
         Indexes[c] \in Seq([name : STRING, columns : Seq(Seq(STRING)), unique : BOOLEAN,
                            include : Seq(STRING), predicate : Seq(STRING), method : Seq(STRING),
                            options : Seq(STRING), operators : Seq(Seq(STRING)), table : Seq(STRING)])
    /\ Keys \in Seq([name : Seq(STRING), columns : Seq([of : Seq(STRING), to : Seq(STRING)]) \ {<<>>},
                     schema : Seq(STRING), table : Seq(STRING)])
    /\ KeyRows \in Seq([column : Seq(STRING), primary : BOOLEAN, unique : BOOLEAN,
                        count : Nat, position : Nat \ {0}])

\* The defaults of the columns are such as a server has.
ASSUME DefaultAssumption == \A k \in DOMAIN Fields : IsDefault(Fields[k])

VARIABLES client,    \* "mysql" or "postgres"
          kind,      \* table |-> "unlisted", "table", "view", "other" (type lost)
          todo,      \* table |-> the queries that it still needs
          lost,      \* reads that gave a default: [query, table, row, value]
          logged,    \* LOGGED, the keys that a warning was raised for
          events,    \* the warnings: [schema, table, value]
          columns,   \* table |-> its columns: [name, type, nullable, default,
                     \* computed, key, extra, comment]
          indexes,   \* table |-> its indexes: [name, columns, unique, include,
                     \* predicate, method], texts that are missing being <<>>
          keys,      \* table |-> its foreign keys: [name, columns, reference]
          view,      \* view |-> [text, charset]
          written    \* schemas whose file is written, in that order

vars == <<client, kind, todo, lost, logged, events, columns, indexes, keys, view, written>>

\* Values that are read from a row of each query, one or two of many.
ListValues == {"table_type"}
ColumnValues ==
    IF client = "mysql" THEN {"column_default", "column_type", "extra"}
    ELSE {"column_name", "is_nullable"}
IndexName == IF client = "mysql" THEN "index_name" ELSE "indexname"
OpeningValues == {"non_unique_flag", "index_type"}
IndexValues ==
    IF client = "mysql" THEN {IndexName, "index_column"} \cup OpeningValues
    ELSE {IndexName, "indexdef", "exclusion_def"}
ConstraintValues == IF client = "mysql" THEN {"constraint_name"} ELSE {"conname"}
ViewValues == IF client = "mysql" THEN {"character_set_client"} ELSE {"view_def"}
Values == [tables |-> ListValues, columns |-> ColumnValues, indexes |-> IndexValues,
           constraints |-> ConstraintValues, view |-> ViewValues]

\* MySQL has a row for each column of an index or key, PostgreSQL one for each of
\* them.
RowsOfColumns(xs) ==
    FlattenSeq([k \in DOMAIN xs |->
                  [c \in DOMAIN xs[k].columns |-> [xs[k] EXCEPT !.columns = <<xs[k].columns[c]>>]]])
RowsFor == [mysql |-> RowsOfColumns(Indexes["mysql"]), postgres |-> Indexes["postgres"]]
IndexRows == RowsFor[client]
KeyRowsFor == [mysql |-> RowsOfColumns(Keys), postgres |-> Keys]
ConstraintRows == KeyRowsFor[client]

\* enrich_table: a table needs three queries in this order, a view one.
QueriesFor(k) ==
    CASE k = "table" -> <<"columns", "indexes", "constraints">>
      [] k = "view" -> <<"view">>
      [] OTHER -> <<>>

RowsOf(q) ==
    CASE q = "indexes" -> DOMAIN IndexRows
      [] q = "constraints" -> DOMAIN ConstraintRows
      [] OTHER -> {1}

\* What the warning of a read says: the list is read under one label.
Label(l) == IF l.query = "tables" THEN <<"tables">> ELSE l.table[2]
Event(l) == [schema |-> l.table[1], table |-> Label(l), value |-> l.value]
EventsOf(new) == LET s == SetToSeq(new) IN [k \in DOMAIN s |-> Event(s[k])]

\* Mutant: the key forgets the column.
KeyOfTable(e) == e.schema \o <<"|">> \o e.table

\* format!("{schema}|{table}|{column}")
Key(e) == e.schema \o <<"|">> \o e.table \o <<"|">> \o <<e.value>>

\* The MySQL client takes the default without a word in two of its queries.
Silent(q) == client = "mysql" /\ q \in {"tables", "view"}

\* Mutants: the keys are not remembered; they are, but nobody looks.
WarnForgetting(new) ==
    /\ events' = events \o EventsOf(new)
    /\ UNCHANGED logged
WarnAlways(new) ==
    /\ events' = events \o EventsOf(new)
    /\ logged' = logged \cup {Key(Event(l)) : l \in new}

\* warn_missing_column_once for the reads in new, in some order: one event for
\* each key that is not in LOGGED yet.
WarnOnce(new) ==
    LET fresh == {Key(Event(l)) : l \in new} \ logged
        first(k) == CHOOSE e \in {Event(l) : l \in new} : Key(e) = k
    IN  /\ events' = events \o SetToSeq({first(k) : k \in fresh})
        /\ logged' = logged \cup fresh

\* The texts that a row of PostgreSQL may give, taken apart.
Parts ==
    [k \in DOMAIN Indexes["postgres"] |->
       LET x == Indexes["postgres"][k]
       IN  [indexdef |-> Parse(Definition(x)),
            exclusion_def |-> IF x.operators = <<>> THEN Parse(<<>>)
                              ELSE Parse(ConstraintDefinition(x)),
            lost |-> Parse(<<>>)]]

\* The constraint that excludes is read instead of its index; if the constraint
\* is lost, the index is read.
PgEntry(k, lostValues) ==
    LET x == IndexRows[k]
        constraint == x.operators # <<>> /\ "exclusion_def" \notin lostValues
        parsed == Parts[k][IF constraint THEN "exclusion_def"
                           ELSE IF "indexdef" \in lostValues THEN "lost" ELSE "indexdef"]
    IN  [name |-> IF IndexName \in lostValues THEN "" ELSE x.name,
         columns |-> parsed.columns, unique |-> parsed.unique,
         include |-> parsed.include, predicate |-> parsed.predicate,
         method |-> IF constraint THEN <<"EXCLUDE">> ELSE parsed.method]

\* The default of a column.  A type that is lost takes no quotes; an expression
\* whose mark is lost is taken for a literal.
DefaultText(d, lostValues) ==
    QuoteDefault([Given(d) EXCEPT !.null = @ \/ "column_default" \in lostValues,
                                  !.generated = @ /\ "extra" \notin lostValues],
                 IF "column_type" \in lostValues THEN "number" ELSE d.type)

\* What a row of an index makes of its column, if it is more than what others
\* have: 3 is PRI, 2 is UNI, 1 is MUL; only the first column of an index counts,
\* unless it is the primary key.
Strengthen(found, r) ==
    LET strength == IF r.primary THEN 3 ELSE IF r.position > 1 THEN 0
                    ELSE IF r.unique /\ r.count = 1 THEN 2 ELSE 1
    IN  [found EXCEPT ![r.column] = Max({@, strength})]

\* The rows come in any order.
KeysFound ==
    {FoldLeft(Strengthen, [c \in {r.column : r \in Range(KeyRows)} |-> 0], order) :
       order \in {[k \in DOMAIN KeyRows |-> KeyRows[p[k]]] : p \in Bijection(DOMAIN KeyRows, DOMAIN KeyRows)}}
KeyWords == <<<<"MUL">>, <<"UNI">>, <<"PRI">>>>

\* The values that row k lost.
LostAt(k, new) == {l.value : l \in {m \in new : m.row = k}}

\* PostgreSQL tells a default as an expression.
PgDefault(d) ==
    IF d.kind = "none" THEN NoDefault
    ELSE IF d.kind = "string" THEN <<"'">> \o Rewrite(d.value, [t \in {"'"} |-> <<"'", "'">>]) \o <<"'", "::text">>
    ELSE d.value

\* A column as each client reads it.
MySqlColumn(d, lostValues) ==
    [name |-> d.name, type |-> IF "column_type" \in lostValues THEN <<>> ELSE <<d.type>>,
     nullable |-> d.nullable, default |-> DefaultText(d, lostValues),
     computed |-> d.computed /\ "extra" \notin lostValues,
     key |-> d.key, extra |-> <<>>, comment |-> d.comment]
PgColumn(d, lostValues) ==
    [name |-> IF "column_name" \in lostValues THEN <<>> ELSE d.name, type |-> <<d.type>>,
     nullable |-> IF "is_nullable" \in lostValues THEN <<>> ELSE d.nullable,
     default |-> PgDefault(d), computed |-> d.computed,
     key |-> <<>>, extra |-> <<>>, comment |-> d.comment]
ColumnsRead ==
    [c \in {"mysql", "postgres"} |-> [k \in DOMAIN Fields |->
       [s \in SUBSET {"column_default", "column_type", "extra", "column_name", "is_nullable"} |->
          IF c = "mysql" THEN MySqlColumn(Fields[k], s) ELSE PgColumn(Fields[k], s)]]]

\* The columns of a table; the keys of PostgreSQL are looked up by name.
ColumnsOf(new, found) ==
    [k \in DOMAIN Fields |->
       LET c == ColumnsRead[client][k][LostAt(k, new)]
       IN  IF client = "mysql" \/ c.name \notin DOMAIN found \/ found[c.name] = 0 THEN c
           ELSE [c EXCEPT !.key = KeyWords[found[c.name]]]]

\* A row of MySQL, as the index that it opens; what is lost reads as nothing.
MySqlEntry(x, lostValues) ==
    [name |-> IF IndexName \in lostValues THEN "" ELSE x.name,
     columns |-> IF "index_column" \in lostValues THEN <<>> ELSE x.columns,
     unique |-> x.unique /\ "non_unique_flag" \notin lostValues,
     include |-> <<>>, predicate |-> <<>>,
     method |-> IF "index_type" \in lostValues THEN <<>> ELSE x.method]

Decoded(new) ==
    [k \in DOMAIN IndexRows |->
       IF client = "mysql" THEN MySqlEntry(IndexRows[k], LostAt(k, new)) ELSE PgEntry(k, LostAt(k, new))]
DecodedKeys(new) ==
    [k \in DOMAIN ConstraintRows |->
       IF LostAt(k, new) = {} THEN ConstraintRows[k] ELSE [ConstraintRows[k] EXCEPT !.name = <<>>]]

\* fk_reference: another known schema is named, one column is written with a dot.
Reference(schema, x) ==
    LET table == (IF x.schema \in {<<>>, schema} THEN <<>> ELSE x.schema \o <<".">>) \o x.table
        to == [k \in DOMAIN x.columns |-> x.columns[k].to]
    IN  IF Len(to) = 1 THEN table \o <<".">> \o to[1] ELSE table \o <<"(">> \o Listed(to) \o <<")">>

KeyEntry(schema, x) ==
    [name |-> x.name, columns |-> [k \in DOMAIN x.columns |-> x.columns[k].of],
     reference |-> Reference(schema, x)]

\* The values that a query reads, each from its row.
ReadsOf(q, t) ==
    {[query |-> q, table |-> t, row |-> r, value |-> v] : r \in RowsOf(q), v \in Values[q]}

\* The sets of reads of a query that may fail together.  The flag and
\* the type are read only from the row that opens an index.
Undecodable(q, t) ==
    {s \in SUBSET ReadsOf(q, t) :
       /\ Cardinality(s) + Cardinality(lost) <= MaxLost
       /\ LET name(k) == IF \E l \in s : l.row = k /\ l.value = IndexName THEN ""
                           ELSE IndexRows[k].name
          IN  \A l \in s : l.value \in OpeningValues /\ l.row > 1
                            => name(l.row - 1) # name(l.row)}

Init ==
    /\ client \in {"mysql", "postgres"}
    /\ kind = [t \in Tables |-> "unlisted"]
    /\ todo = [t \in Tables |-> <<>>] 
    /\ columns = [t \in Tables |-> <<>>] /\ indexes = [t \in Tables |-> <<>>]
    /\ keys = [t \in Tables |-> <<>>]
    /\ view = [t \in DOMAIN ViewTexts |-> [text |-> <<>>, charset |-> <<>>]]
    /\ written = <<>>
    /\ lost = {} /\ logged = {} /\ events = <<>>

\* The reads of one query: the defaults that it takes and what it says of them.
Losing(q, new) ==
    /\ lost' = lost \cup new
    /\ IF Silent(q) THEN UNCHANGED <<logged, events>> ELSE WarnOnce(new)

\* get_tables of one schema: one answer with all its tables.
ListTables(s) ==
    LET listed == {t \in Tables : t[1] = s}
        reads == {[query |-> "tables", table |-> t, row |-> 1, value |-> "table_type"] : t \in listed}
    IN  /\ \E t \in listed : kind[t] = "unlisted"
        /\ \A t \in Tables : kind[t] # "unlisted" => t[1] \in Range(written)
        /\ \E new \in {r \in SUBSET reads : Cardinality(lost \cup r) <= MaxLost} :
              LET type == [t \in Tables |->
                             IF t \notin listed THEN kind[t]
                             ELSE IF \E l \in new : l.table = t THEN "other" ELSE TypeOf[t]]
              IN  /\ kind' = type
                  /\ todo' = [t \in Tables |->
                                IF t \in listed THEN QueriesFor(type[t]) ELSE todo[t]]
                  /\ Losing("tables", new)
        /\ UNCHANGED <<client, columns, indexes, keys, view, written>>

\* Mutant: the first column of an index is taken twice.
JoinedFirstTwice(rows) ==
    FoldLeft(LAMBDA acc, r :
               IF acc # <<>> /\ Last(acc).name = r.name
               THEN Front(acc) \o <<[Last(acc) EXCEPT !.columns = @ \o r.columns]>>
               ELSE Append(acc, [r EXCEPT !.columns = @ \o @]),
             <<>>, rows)

\* Rows of one index follow each other; a row of another name opens an index.
\* A name that is lost reads "", a column that is lost is left out.
JoinRow(acc, r) ==
    IF acc # <<>> /\ Last(acc).name = r.name
    THEN Front(acc) \o <<[Last(acc) EXCEPT !.columns = @ \o r.columns]>>
    ELSE Append(acc, r)
Joined(rows) == FoldLeft(JoinRow, <<>>, rows)

\* MySQL's rows are joined, PostgreSQL's are the indexes.
IndexList(rows) == IF client = "mysql" THEN Joined(rows) ELSE rows

\* What a query fills in.
Fill(q, t, new) ==
    /\ IF q = "columns" THEN \E found \in KeysFound : columns' = [columns EXCEPT ![t] = ColumnsOf(new, found)]
       ELSE UNCHANGED columns
    /\ indexes' = IF q = "indexes" THEN [indexes EXCEPT ![t] = IndexList(Decoded(new))] ELSE indexes
    /\ keys' = IF q # "constraints" THEN keys
               ELSE LET list == IndexList(DecodedKeys(new))
                    IN  [keys EXCEPT ![t] = [k \in DOMAIN list |-> KeyEntry(t[1], list[k])]]
    /\ view' = IF q # "view" THEN view
               ELSE [view EXCEPT ![t] =
                       [text |-> IF "view_def" \in LostAt(1, new) THEN <<>> ELSE ViewTexts[t],
                        charset |-> IF client = "mysql" /\ new = {} THEN <<"utf8mb4">> ELSE <<>>]]

\* The next query of a table answers; other tables answer in between.
Answer(t) ==
    /\ todo[t] # <<>>
    /\ \E new \in Undecodable(Head(todo[t]), t) :
          /\ Losing(Head(todo[t]), new)
          /\ Fill(Head(todo[t]), t, new)
    /\ todo' = [todo EXCEPT ![t] = Tail(@)]
    /\ UNCHANGED <<client, kind, written>>

\* write_tables: the tables of a schema are written when all of them are read.
Write(s) ==
    /\ s \notin Range(written)
    /\ \A t \in Tables : t[1] = s => kind[t] # "unlisted" /\ todo[t] = <<>>
    /\ written' = Append(written, s)
    /\ UNCHANGED <<client, kind, todo, lost, logged, events, columns, indexes, keys, view>>

\* What the exporter is given: the tables of a schema in the order of the list.
TablesOf(s) == SetToSeq({t \in Tables : t[1] = s})
TableDef(t) ==
    [name |-> t[2], kind |-> kind[t], comment |-> Comment,
     columns |-> columns[t], indexes |-> indexes[t], keys |-> keys[t],
     text |-> IF t \in DOMAIN view THEN view[t].text ELSE <<>>,
     charset |-> IF t \in DOMAIN view THEN view[t].charset ELSE <<>>]
File(s) == Document([k \in DOMAIN TablesOf(s) |-> TableDef(TablesOf(s)[k])])

Next ==
    \/ \E s \in {t[1] : t \in Tables} : ListTables(s) \/ Write(s)
    \/ \E t \in Tables : Answer(t)

Spec == Init /\ [][Next]_vars
-----------------------------------------------------------------------------
TypeOK ==
    /\ client \in {"mysql", "postgres"}
    /\ kind \in [Tables -> {"unlisted", "table", "view", "other"}]
    /\ \A t \in Tables : IsSuffix(todo[t], QueriesFor(kind[t]))
    /\ \A l \in lost : l.table \in Tables /\ l.row \in RowsOf(l.query)
                        /\ l.value \in Values[l.query]
    /\ Cardinality(lost) <= MaxLost
    /\ \A k \in DOMAIN events : Key(events[k]) \in logged

\* A column of a table is warned of once, however many rows and queries of
\* however many tables in between fail to read it (Requirement 5.4).
WarnedOnce ==
    /\ \A j, k \in DOMAIN events : events[j] = events[k] => j = k
    /\ Len(events) = Cardinality(logged)

\* Every default has a warning that names its schema, table and column, except
\* those of the two queries of the MySQL client (Requirement 5.2).
LossIsNamed ==
    \A l \in lost : Silent(l.query) \/ \E k \in DOMAIN events : events[k] = Event(l)

\* The tables whose columns, indexes and keys are read, and the rows that lost
\* a value there.
Described == {t \in Tables : kind[t] = "table" /\ Len(todo[t]) < 3}
Read == {t \in Tables : kind[t] = "table" /\ Len(todo[t]) < 2}
Complete == {t \in Tables : kind[t] = "table" /\ todo[t] = <<>>}
LostRows(q, t, values) ==
    {l.row : l \in {m \in lost : m.query = q /\ m.table = t /\ m.value \in values}}

\* A default that was read means what it means in the database: the string NULL
\* is not a missing default, an empty string not an empty cell, and quotes,
\* backslashes and line ends come out as they went in.
DefaultsKeepMeaning ==
    client = "mysql" =>
    \A t \in Described : \A k \in DOMAIN Fields \ LostRows("columns", t, ColumnValues) :
       StandsFor(columns[t][k].default, Fields[k])

\* Joining the rows of MySQL loses, repeats and reorders no column that was
\* read; and as long as the names are read, an index is one entry with all its
\* columns, unique if its first row says so.
IndexesAreJoined(t) ==
    LET row(k) == IF k \in LostRows("indexes", t, {"index_column"}) THEN <<>> ELSE IndexRows[k].columns
        joined(ks) == FlattenSeq([k \in DOMAIN IndexRows |-> IF k \in ks THEN row(k) ELSE <<>>])
        rowsOf(name) == {k \in DOMAIN IndexRows : IndexRows[k].name = name}
    IN  /\ FlattenSeq([k \in DOMAIN indexes[t] |-> indexes[t][k].columns]) = joined(DOMAIN IndexRows)
        /\ LostRows("indexes", t, {IndexName}) = {} =>
              /\ {indexes[t][k].name : k \in DOMAIN indexes[t]}
                   = {IndexRows[k].name : k \in DOMAIN IndexRows}
              /\ \A k \in DOMAIN indexes[t] :
                    /\ indexes[t][k].columns = joined(rowsOf(indexes[t][k].name))
                    /\ indexes[t][k].unique <=>
                         \E r \in rowsOf(indexes[t][k].name) \ LostRows("indexes", t, {"non_unique_flag"}) :
                            IndexRows[r].unique /\ r = Min(rowsOf(indexes[t][k].name))

\* As long as the names are read, a foreign key is one entry with all its pairs.
KeysAreJoined(t) ==
    LostRows("constraints", t, ConstraintValues) = {} =>
       keys[t] = [k \in DOMAIN Keys |-> KeyEntry(t[1], Keys[k])]

\* The strongest role that an index gives to each column of PostgreSQL: part of the
\* primary key, a unique index of its own, the first of another.
Roles ==
    [name \in {Fields[k].name : k \in DOMAIN Fields} |->
       LET rows == {r \in Range(KeyRows) : r.column = name}
           first == {r \in rows : r.position = 1}
       IN  IF \E r \in rows : r.primary THEN <<"PRI">>
           ELSE IF \E r \in first : r.unique /\ r.count = 1 THEN <<"UNI">>
           ELSE IF first # {} THEN <<"MUL">> ELSE <<>>]
RolesAreStrongest(t) ==
    \A k \in DOMAIN Fields \ LostRows("columns", t, {"column_name"}) :
       columns[t][k].key = Roles[Fields[k].name]

\* Rows that tell of the same index, key or column are put together, whatever is
\* lost in some of them, and in whatever order those come that have none.
RowsAreJoined ==
    /\ client = "mysql" => \A t \in Read : IndexesAreJoined(t)
    /\ \A t \in Complete : KeysAreJoined(t)
    /\ client = "postgres" => \A t \in Described : RolesAreStrongest(t)

Readable == {k \in DOMAIN Indexes["postgres"] : ~Unreadable(Indexes["postgres"][k])}

\* The statement of PostgreSQL is taken apart into the very parts that the
\* server put together, whatever expressions, quoted names and options stand in
\* it, except for the texts that are known to be beyond the parser.
PartsAreReadBack ==
    client = "postgres" =>
    \A t \in Read : \A k \in Readable \ LostRows("indexes", t, IndexValues) :
       LET x == IndexRows[k]
           excludes == x.operators # <<>>
       IN  indexes[t][k] =
             [name |-> x.name, unique |-> x.unique, include |-> x.include, predicate |-> x.predicate,
              columns |-> [c \in DOMAIN x.columns |->
                             IF excludes THEN x.columns[c] \o x.operators[c] ELSE x.columns[c]],
              method |-> IF excludes THEN <<"EXCLUDE">> ELSE x.method]

\* What a cell should show.
Fitting(shown, value) == Styled(value) \/ shown = Plain(Trim(value))

\* The section of a table: a row of as many cells as the head has for each
\* column, and a line for each index and key.
ShowsTable(section, t) ==
    LET rows == Rows(section)
        entries == Entries(section)
        lines == [k \in DOMAIN indexes[t] |-> IndexLine(Plainly(IndexTexts(indexes[t][k])))]
                   \o [k \in DOMAIN keys[t] |-> KeyLine(Plainly(KeyTexts(keys[t][k])))]
        shows(cells, values) == /\ Len(cells) = Len(values)
                                /\ \A c \in DOMAIN values : Fitting(cells[c], values[c])
    IN  /\ Len(rows) = Len(columns[t]) + 1 /\ Len(entries) = Len(lines)
        /\ shows(CellsOf(rows[1]), <<<<"TABLE">>, Comment>>)
        /\ \A k \in DOMAIN columns[t] :
              LET c == columns[t][k]
              IN  shows(CellsOf(rows[k + 1]),
                        <<c.name, c.type, c.nullable, DisplayDefault(c), <<>>, <<>>, c.key, c.extra, c.comment>>)
        /\ \A k \in DOMAIN lines : Styled(lines[k]) \/ Shown(entries[k]) = lines[k]

ReadsBack(s) ==
    LET tables == TablesOf(s)
        sections == Sections(FileLines(File(s)))
    IN  /\ Len(sections) = Len(tables) + 1
        /\ Len(Entries(sections[1])) = Len(tables)
        /\ \A k \in DOMAIN tables :
              LET t == tables[k]
              IN  /\ kind[t] = "table" => ShowsTable(sections[k + 1], t)
                  /\ kind[t] = "view" => Code(sections[k + 1]) = LinesOf(view[t].text)

\* Who reads the file that was written last finds what was read from the server: a
\* section for each table, in it every column, index and key with its values,
\* and the text of every view, whatever signs of Markdown stand in them (except
\* those that the code lets through).
DocumentReadsBack ==
    (\A t \in Tables : t[1] \in Range(written) <=> kind[t] # "unlisted")
      => written = <<>> \/ ReadsBack(Last(written))
=============================================================================
