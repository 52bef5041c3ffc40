# A TLA+ model of td-export

`td-export` (Rust, `src/src/`) connects to a MySQL or PostgreSQL server, reads
the definitions of the tables, views and, for SQL, of the types and functions
of some schemas, and writes them as one Excel workbook, or as one Markdown or
SQL file per schema. This directory models that program, checks the models
with TLC and proves what matters most with TLAPS.

All paths below are relative to `src/src/`, the program's sources.

## 1. Inventory

| Component | State it keeps | Operations | Hard behaviour | What makes it correct |
|---|---|---|---|---|
| Metadata collection (`run.rs`, `concurrency.rs`) | a queue of futures, one per table, and their results | `enrich_table`, `buffer_metadata` | answers in any order; a query that fails in the middle of a table; results held back behind a slow table | results in the order of the table list, at most 4 queries at once, every gap counted as a warning, it ends |
| Run loop and output files (`run.rs`, `main.rs`, `export/`) | files on disk, the workbook in memory, `WARNINGS` | `load_config`, `get_schemas`, `setup`, `write_tables`, `finish`, `--strict` | files are truncated before anything is read; crash or error between two files; leftovers of earlier runs; names that collide as they are, by case or by normal form | a completed run leaves exactly today's definitions; one owner per file or sheet; exit code 0 with `--strict` passes no loss that was warned of |
| PostgreSQL: order of types and functions (`db/postgres/schema_ddl.rs`) | counts of pending dependencies, a set of ready keys | `order_by_dependency`, `order_types_and_functions` | repeated pairs in `pg_depend`, cycles, functions that reach a table through others | a topological order when there is one, nothing lost when there is none; exact split |
| PostgreSQL: layout of the SQL file (`export/sql.rs`) | the file being written | `write_sql` | sections must fit the dependencies between kinds of objects; objects with names that cannot be written | the file can be executed from top to bottom on an empty database; whatever is left out was warned of |
| Views (`export/sql.rs`) | the views done so far | `order_views`, `references_view`, `without_string_literals` | dependencies are read from text, where names also stand in literals, accounts and aliases; mentions can be circular | a topological order when there is one; it ends; a cycle harms only its own views; a view that is used comes first |
| PostgreSQL: DDL of a table (`db/postgres/ddl.rs`, `partition.rs`, `foreign.rs`, `comment.rs`) | three lists of statements per relation | `fetch_table_ddl`, `fetch_partitions_ddl`, `fetch_constraints` | partitions, foreign keys and defaults across schemas, constraints that are NOT VALID | running all files, in every order the README allows, restores the source |
| Indexes of partitioned tables (`db/postgres/partition.rs`) | a list to be sorted | `order_tree_indexes` | the server attaches any index of the right shape | names and trees are kept |
| MySQL client (`db/mysql.rs`, `db/mysql/routines.rs`) | a pool of sessions, each with a current database and an `sql_mode` | `connect`, `show_create`, `get_table_ddl`, `get_schema_ddl`, `without_definer` | sessions are reused and may be lost; concurrent jobs; accounts in `DEFINER` hold quotes and signs | a definition is read in its own schema; nothing but the clause is cut; nothing is lost silently; nobody waits |
| Reading rows (`db/row_helpers.rs`, `get_*` of both clients, `db/postgres/parse.rs`) | the process-wide set of keys that were warned of | `try_get_or_warn`, `warn_missing_column_once`, `quote_literal_default`, `parse_pg_indexdef`, `fk_reference` | the same column fails in many rows of interleaved queries; rows have to be joined; index statements are taken apart by counting parentheses | one warning for each column, none too few; rows joined without loss; defaults, indexes and keys mean what they mean on the server |
| Configuration, prompts, secrets (`config.rs`, `model.rs`, `secret.rs`, `error.rs`) | none that changes | `load_config` | fails before anything is opened | one step of `ExportRun`, which yields the schemas asked for or fails; the prompts are not modelled |
| Connection options (`db/connect.rs`, `db/mod.rs`) | none | translation, dispatch | none | not modelled |
| Identifiers and literals (`identifier.rs`) | none | quoting, refusing | none | refusing a name is in `SqlScript` and `ExportRun`, quoted names are in `MySqlText` and `ViewText`; `quote_identifier` itself is not modelled |
| Markdown file (`export/markdown.rs`) | none that survives a call | `write_markdown`, `cell`, `write_view_fenced_sql` | values of the database stand between bars, brackets, headings and fences | a reader of the file finds every value again, where it belongs |
| Cells of the workbook (`export/excel.rs`) | none that survives a call | formatting | none | not modelled beyond sheets and their names |

How they interact: `run()` asks the client for the schemas, lets the exporter
open its files, and then, schema by schema, lists the tables, lets
`buffer_metadata` run one `enrich_table` future per table over the connection
pool, asks for the types and functions (SQL), and hands everything to
`write_tables`. The only state shared by the futures is the pool, the set of
keys that were warned of and the warning counter. Everything the SQL exporter
writes is then executed by someone else, against another server: that is where
the order of statements shows, and why server and `psql` appear in the models.

## 2. Modules

| Module | Models | State ↔ code |
|---|---|---|
| `TableQueries` | which queries a table needs in which format | `enrich_table_inner` |
| `SerialCollect` | **abstract**: the serial loop over the table list | the loop that `buffered` replaced |
| `MetadataCollect` | futures, buffered stream, warnings | `started`, `phase`: the queue and its futures; `fetched`: the filled fields of a `TableDef`; `collected`: the `Vec` |
| `FileNames` | names of output files and what a file system takes for one file | `schema_filenames`, `file_id` |
| `ExportRun` | runs, one after another, over one directory, with crashes and changed databases: configuration, connection, catalog, names, opening, writing, finishing | `fs`: output files; `suffix`: `schema_filenames` and `sheet_names`; `pc`: where `run()` is; `warned`: `WARNINGS > 0`; `silent`: history of what was lost without a warning |
| `TopologicalOrder` | **abstract**: what ordering by dependency promises | |
| `DependencyOrder` | `order_by_dependency` | `pending`, `ready`, `ordered` as in the code |
| `SqlScript` | sections of a schema's SQL file and their execution; extensions, sequences and refused names | `after`: functions behind the tables; `warned`: what is left out; `created`, `added`: the database that executes the file |
| `ViewOrder` | `order_views` | `done`; `orderedViews`: `ordered` of the code (its definitions have "View" in their names, so that `OrderProofs` can extend it together with `DependencyOrder`) |
| `ViewText` | the definitions of views as texts, and how their dependencies are read from them; extends `ViewOrder` | `definition`: `view_query`; the graph of `ViewOrder` comes from it |
| `IndexAttach` | `order_tree_indexes` against the server's attach rule | `todo`: the sorted list; `restored`: the new database |
| `TableDdl` | operators: the statements of a relation and the list each goes to | `TableDdl { create, after, cross_schema }` |
| `SchemaRestore` | composes `TableDdl` with files, `psql` and the server that runs them | `script`: the statements left of the running file, a set in which each has its place; `relations`, `items`: the target |
| `MySqlSession` | the pool's sessions, `USE` and `SHOW CREATE`, routines, `DEFINER` | `held`: which job has which connection; `database`, `plain`: what a session was told |
| `Texts` | operators on texts, which are sequences of tokens | |
| `IndexText` | what `pg_get_indexdef` words, and `parse_pg_indexdef` that takes it apart | `IndexInfo` |
| `MySqlText` | `without_definer`, `quote_literal_default`, `unescape_one_level`, and what a server takes a literal for | |
| `MarkdownText` | the Markdown file line by line, and how it is read | `write_markdown`, `cell`; lines are sequences of tokens |
| `CatalogRead` | reading rows into tables with defaults and warnings, up to the file; composes the four above | `logged`: `LOGGED`; `events`: WARN events; `columns`, `indexes`, `keys`, `view`: the fields of a `TableDef`; `written`: schemas with a file |
| `MC...` | the instances that TLC checks | |
| `...Proofs` | theorems and proofs | |

Composition: `MetadataCollect` implements `SerialCollect`; `DependencyOrder`
and `ViewOrder` implement `TopologicalOrder`; `ExportRun` takes the collection
of a schema as one step because of the first of these; `SqlScript` takes the
order of types, functions and views as the greedy order because of the others;
`SchemaRestore` extends `TableDdl`, `ExportRun` extends `FileNames`, `ViewText`
extends `ViewOrder`, `MySqlSession` extends `MySqlText`, and `CatalogRead`
extends `IndexText`, `MySqlText` and `MarkdownText`. Definitions commented "Mutant" are not part
of a model: each is a plausible bug in the definition below it, and the
property it is made for fails with it.

External parts, modelled from how the code uses them: the buffered stream of
`futures`, the connection pool of `sqlx`, the attach rule and the execution of
DDL in PostgreSQL, `psql -v ON_ERROR_STOP=1`, the file system (which names are
one file), the death of the process, the texts that the servers word
(`pg_get_indexdef`, `SHOW CREATE`, defaults in `information_schema`) and the
reader of a Markdown file.

## 3. What the runs check

Besides what the table names, every run checks the type invariant of its module
(`TypeOK`, for views `ViewTypeOK`, in `MySqlSession` `SessionTypeOK`).

| Run | Instance | Shows |
|---|---|---|
| `metadata_collect` | 3 tables of any kind, 2 at a time | `BoundedInFlight`, `GapsAreWarned`, and `SerialLoop`: every fair behaviour of the buffered collection is one of the serial loop, order and ending included |
| `export_run` | 2 schemas, 2 runs, names that are apart, the same, or one file by case or normal form, one change of a schema | `WrittenSoFar`, `OneOwnerPerFile` (sheets too), `CompletionIsFresh` (leftovers of crashes and earlier runs do not survive a completed run), `OnlySilentLossPasses` (with `--strict` and exit code 0, exactly what silent reads lost is missing), `RerunKeepsOthersApart` |
| `orders` | types and functions: all graphs over 3 keys with up to 4 dependencies, repeated, circular, dangling; views: 3, of which one has a quote in its name and one the name of another as its beginning, all acyclic uses and one kind of other mention | `IsTopological`; `OnlyCyclesBreakOrder`, `ViewsAreTopological`, `UsedViewsComeFirst` (what a definition uses, as the server reads it, comes before it) |
| `sql_script` | 1 extension or sequence, 1 type, 3 functions, 1 table, 2 views, up to 3 acyclic dependencies, one refused name | `SplitIsExact`, `SupportedExecutes`, `EverythingIsWritten` (all but the refused objects, which are warned of) |
| `index_attach` | a partition tree of 4 tables, 3 index trees of 2 shapes | `KeepsNames`, `KeepsTrees` |
| `schema_restore` | 9 relations in 2 schemas, 2 optional items | `SupportedExecutes`, `RestoresEverything`, `OnlyCrossIsMissing` |
| `mysql_session` | 6 jobs in 2 schemas, 2 connections, one lost; accounts and names that hold quotes, blanks and `@` | `ReadsAreUnqualified`, `AcquireNeverWaits`, `LossIsWarned`, `DefinerIsCut`, `EveryJobEnds` |
| `catalog_read` | 3 tables and a view in 2 schemas, both clients, 2 lost values; in every table 13 columns, up to 4 indexes and 2 foreign keys | `WarnedOnce`, `LossIsNamed`, `RowsAreJoined` (indexes, keys, roles of columns), `DefaultsKeepMeaning`, `PartsAreReadBack` (index statements), `DocumentReadsBack` (the Markdown file) |

Four more runs must find a violation; each shows a disagreement between the
code and what its comments or README say:

- `strict_success`: the help text says that `--strict` is there so that an
  incomplete output does not pass as a success. The exit code depends on the
  count of warnings alone, and some losses raise none: values that the MySQL
  client cannot decode in the table list, the text of a view or the SQL mode of
  a routine; a schema of `--target-db` that the server lacks; a PostgreSQL table
  that is dropped after it was listed, whose `CREATE TABLE` comes out empty.
- `rerun_collision`: a comment says that exporting some schemas again leaves
  the cross-schema files of the others alone. The `~n` suffix of colliding
  names depends on which schemas take part, so a run of one schema can take
  over both files of another (`export/mod.rs`, `schema_filenames`).
- `sql_script_functions`: `uses_tables` also covers functions that use the row
  type of a view, but these are written behind the tables and before the views.
- `foreign_keys`: a foreign key to a partitioned table has one catalog row for
  each partition besides its own; `fetch_constraints` writes them all, so that
  the file fails or adds keys that the source does not have. `partition.rs`
  leaves such rows out for constraints of partitions.

### Bounds, and why they are enough

- `MetadataCollect`: 3 tables and limit 2 have everything that the limit can
  do (a free place, a full queue, a result held back). The theorems have no
  bound.
- `ExportRun`: two schemas are enough for a collision, two runs for a leftover;
  `MaxRev = 1` gives the second run other contents than the first. The four
  namings (`MCExportRun`) are those that differ in which of two names are the
  same, or one file, on Linux, macOS and Windows. `strict_success` needs one run
  and no change of a schema. A file holds one of four states, not
  text. The theorems hold for any number of schemas and runs and any names.
- `DependencyOrder`: all graphs over three keys, so cycles of 2 and 3, cycles with
  something behind them, and repeated pairs (`NumCopies = 2`) all occur. `MCOrders`
  puts the order of the views behind it, as the export does; one of the two
  orders is always the trivial one, which loses nothing, as they share no state.
- `ViewOrder`, `ViewText`: the views use each other in all ways without a circle;
  what their texts mention besides makes circles too. One kind of other mention
  at a time: two in one text do not touch each other.
- `SqlScript`: three dependencies make a chain over four kinds of objects, or a
  function that reaches a table through two others. Only acyclic needs are
  considered (a database whose objects could be created one by one). References
  between several tables are covered by the theorem `ReferencesLast` and by
  `schema_restore`; one refused object leaves others that need it.
- `IndexAttach`: two levels below the top, one leaf optionally foreign.
- `SchemaRestore`: a statement comes from one item or one relation, and needs
  what at most one other statement makes; so two optional items (`MaxItems`)
  over a base that always has keys, indexes, options, comments and ownership
  cover every pair of causes. The partition of the second level may live in
  the other schema.
- `MySqlSession`: two connections and two futures, as many as each other as in
  the code (4 and 4); jobs of two schemas so that a session is reused with
  another current database; `MaxBreaks = 1`. That no connection can be acquired at
  all may happen to any job, besides.
- `CatalogRead`: two lost values give two losses in one query, in one column of
  two rows, and in two tables of one name. The columns, indexes, keys, comments
  and the view of `MCCatalogRead` are samples, one for each branch of the code
  that reads or writes them and for each sign that has a meaning there; each
  text is read by itself, so samples need not be combined.

### Fairness

Weak fairness, and only of steps that the program takes by itself: the executor
polls a future whose answer has arrived, the server answers every query (with
rows or with an error), and loops of sequential code go on. In `MetadataCollect`
fairness is on filling, handing over and each future's answer-or-failure; in
`MySqlSession` on each job. No outcome is fair: a query may fail every time.
`ViewOrder`, `DependencyOrder` and `SqlScript` are sequential: their loops go on.
`ExportRun`, `SchemaRestore`, `IndexAttach` and `CatalogRead` state safety only
and have no fairness.

## 4. What is proved

For every value of the constants (`...Proofs` modules):

- **`MetadataCollectProofs`**: `TypeCorrect`, `Bounded`, `OrderPreserved`,
  `GapsWarned`, `ImplementsSerial`. The invariant says which futures can be in
  which phase: those not taken from the list wait, and those taken but not
  handed over are at most the limit. The warnings are a sum of two
  cardinalities that each step changes by one.
- **`OrderProofs`**, about both orders. Types and functions: `TypeCorrect`,
  `ReadyIsFree`, `OnlyStuckLeftovers`, `OrdersTopologically`. The counts are exact
  while something is ready (`CountsAreExact`); they are given up when the loop
  ends, because then all that is left uses something that is left, which is all
  that the second part needs. Views: `ViewTypeCorrect`, `CyclesOnly`,
  `OrdersViewsTopologically`. When no view is ready, the views that are not done
  form a circular set.
- **`SqlScriptProofs`**: `TypeCorrect`, `SplitsExactly`, `ReferencesLast`,
  `ExecutesInOrder`. The invariant bounds the late functions from both sides
  (they contain those that use a table, and none of a set closed under use
  without tables) and says which kinds are complete in which section. That the
  greedy order finds a free object comes from the acyclic needs.

- **`ExportRunProofs`**: `TypeCorrect`, `NoSharedFile`, `FilesAreKnown`,
  `CompletedRunsAreFresh`, `OnlySilentLossesPass`, `OtherFilesStay`: all
  six properties of `export_run`, for any number of schemas, names, systems and
  runs. The invariant says that names given so far differ (`NamesApart`) and
  open different files (`FilesApart`, where the system tells files apart),
  that a file still to be written is empty (`EmptyToCome`), that what is written
  is of this run (`OutputSoFar`, `BufferIsCurrent`), how far the loops are
  (`LoopsInOrder`), and who owned a file in earlier runs (`OwnersStay`). As long as
  no warning was counted, a schema has a gap exactly if it is in `silent`
  (`Explained`), and a schema still to visit is not in it (`SilentSoFar`). That a
  name is free or refused before it is taken carries the first two; that all
  files are truncated before anything is read carries the rest, as no state of
  an earlier run is left in a file that this one opened.

- **`ClientProofs`**, about reading rows and about sessions.

  Rows (`CatalogRead`): `TypeCorrect`, `WarnsOnce`, `RowsJoined`, `DefaultsStand`
  and, if no schema has a bar in its name, `LossNamed`. Two invariants carry them.
  - The keys of the warnings are `LOGGED`, each once (`KeysAreLogged`), every
    warning is one of something lost, and every loss that is not silent has its
    key there (`LostAreTold`). `LossIsNamed` then needs that two keys differ if
    schema, table or column do; `KeyTells` shows it by the place of the first bar.
  - What is kept of a table is what the rows of its queries were decoded to, with
    just those values lost that are in `lost` (`DecodedIInv`). This is inductive
    because a query loses something only when it answers (`LostWhenAnswered`) and
    a schema is listed as a whole, once (`ListedTogether`). What the properties
    say is then a matter of operators on rows.

  `Joined` is a fold. `JoinedIs` gives its values row by row; if the rows of an
  entry stand together and no two entries share a name (`Blocks`), the entries
  after each row are those begun so far, each with the columns of its rows
  (`BlocksStep`, `BlocksJoin`). So rows whose names were read are joined to one
  entry for each name (`NamesAreJoined`), entries told row by row come back as
  they were (`EntriesComeBack`), and whatever names are lost the columns stay
  what they are, in their order (`ColumnsStay`). The strongest role of a column is
  a fold too (`StrengthIsReached`), and the same for every order of the rows. For
  `DefaultsStand`, that a default which was read stands for the right value is
  `DefaultStands`, a lemma about texts.

  Sessions (`MySqlSession`): `SessionTypeCorrect`, `Unqualified`, `Exclusive`,
  `LossWarned`, `DefinerCutOut`, and, if there are no more futures than
  connections, `NeverWaits`. What a definition looks like follows from the
  session it was read in, so the invariant needs that each job that has used
  `USE` still finds its schema there (`UsedIsKept`), which holds as nobody else
  holds the connection (`OneUser`), and that every open session went through
  `after_connect` (`OpenIsPlain`). `NeverWaits` maps open connections to the
  jobs that hold them and counts. `DefinerCutOut` adds that a definition is kept
  as the server told it or as `without_definer` cut it (`AsTold`), and cites
  `DefinerCut`.
- **`TextProofs`**: lemmas about the operators on texts, for texts of any length
  with any signs. Induction over a text is induction over a set of numbers, of
  those up to which the claim holds (`Induction`, `InductionUpTo`), as the
  provers cannot take a predicate. `FlattenPlaces` and `RewritePlaces` say
  where each part and each rewritten sign stands in the text, `FoldsOn` gives the
values of a fold step by step, and `PartsExist` the part that a place lies in; the
rows of `ClientProofs` need those. From the lemmas on texts follow
  two results that say that a reader undoes what the server or the client wrote:
  - `DefinerCut`: up to the end of a name in quotes there is an even number of
    quotes after every sign of the name that was written, as a quote in it is
    doubled; so the first quote with an odd count and no quote behind it ends the
    name (`ClosingFound`), and `without_definer` finds the two names, the `@`
    between them and the definition behind them.
  - `DefaultStands`: in a text whose special signs were rewritten to pairs, no pair
    ends with a sign that opens one (`PairsReadBack`), so that who reads from
    the left finds the pairs that were written, whatever rows of backslashes and
    quotes they form. It is used for `quote_string_literal`, whose literal the
    database would take for the same string (`QuoteReadsBack`; no line end or
    other control sign stands in it), and for `unescape_one_level`, which undoes
    the escapes of `information_schema` (`UnescapeReadsBack`).

- **`IndexAttachProofs`**: `TypeCorrect`, `NamesAreKept`, `TreesAreKept`: all
  properties of `index_attach`, for any tree of partitions and any number of
  trees of indexes. The heart is that a `CREATE INDEX` never has to make an index
  below its own table (`MakesOne`). The indexes of the new database are exactly those
  whose turn has come in the order of the keys (`MadeInOrder`, `SameIndexes`), and
  an index has at most one child on each partition (`OneOfEachTable`). When the next index of a table comes, a
  partition below it has been given one more index of that shape than the table
  itself (`MoreOnPartition`), because the level from the bottom up sorts the
  partition's index first; so one is free, and the server attaches it.
  For `KeepsTrees` it must be the right one: without an ambiguous constraint the
  oldest free index of the shape is of the same tree (`AttachedBelong`): those of
  later trees are not made yet, and those of earlier trees have their parents.

- **`SchemaRestoreProofs`**: `TypeCorrect`, `FilesExecute`, `SourceIsRestored`,
  `CrossIsLast`, the properties of `schema_restore`, and `ItemsOnce`, for any
  relations, partitions, schemas and items. The first part is about `TableDdl`
  alone: the statements of a file are exactly one creation for each relation
  (`Making`) and one statement for each item (`Statement`), each at a place that
  follows from its kind (`SchemaFileIs`, `CrossFileIs`, `WhereStated`); from this
  follows `ItemsOnce`: every item of the catalog, supported or not, is written in
  exactly one place. The invariant then says what is pending, which is the rest
  of the running script and all files to come: in a database that is `Supported`
  the target holds exactly the relations and items whose statements are not
  pending, and no statement has failed (`Progress`). It needs that what is left to
  run is part of one file (`Running`). To show that the next statement runs,
  everything that it needs is found at an earlier place of its own file, or in a
  file that was run: a parent table by its level, a key before the foreign keys,
  a view's sources by the order of views, another schema's tables because the
  cross-schema files come after all others.

Assumptions: those named in the modules. They say that counts are natural
numbers, limits are at least one, that `None` is no connection and no
definition, that tables and relations are finitely many, that indexes, foreign
keys and the columns of indexes are records of a server, each index and key with
a column and a name of its own (`RecordsAssumption`, `ReadAssumption`), that no
table is a partition of itself, that items are such as a server accepts
(`SourceAssumption`), and that names are sequences of words; TLC evaluates all of
them. Two are about what the server says. `HeadAssumption`: the head of a view or
routine has the form `CREATE [ALGORITHM=word] DEFINER=name[@name]` and a
definition behind it, with names in one kind of quotes; this is how `SHOW CREATE`
words it, and names may be any texts. `DefaultAssumption`: a default is none, a
string, a plain value or an expression, and what `quote_literal_default` takes
for plain (a number, bytes in hexadecimal, `CURRENT_TIMESTAMP`) is plain. The
second half is what MySQL 8 does; a comment in the code (`mysql.rs`, at `is_hex`)
names the exception, a string of bytes in MySQL 5.7 that begins with `0x`.

Only model-checked: all liveness (`SerialLoop`, `IsTopological`,
`ViewsAreTopological`, `EverythingIsWritten` and `EveryJobEnds` beyond their
safety part; the prover does not reason about fairness); what longer
texts say once they are put together and taken apart by several functions
(`UsedViewsComeFirst`, `PartsAreReadBack`, `DocumentReadsBack`: each would need the
lemmas of `TextProofs` for a dozen operators more, and the grammar of the server
as an assumption).

## 5. Limits of the models

Known gaps of the code that the properties except, or that were met while
modelling:

- `CatalogRead.Silent`: the table list and the view text of the MySQL client
  take defaults without a warning. A table whose type is lost is skipped, and
  `--strict` does not see it. `ExportRun` loses silently at the same reads, in
  `ListTables`, `Collect` and `Preamble`; its history variable `silent` names the
  schemas, and `OnlySilentLossPasses` excepts these and no others. It measures the
  schemas found; `asked` keeps those that the server lacks.
- `--strict` fails on every WARN event, also on one that misses nothing: a slow
  table, or a file or sheet that was renamed.
- After a cycle of views the search for ready views goes on, so the views left
  are not simply in the order of their names, as a comment of `order_views` says.
- `SchemaRestore.Supported`: a partition in another schema than its root is
  written to the root's file, so the target must have that schema already; a
  foreign key to such a partition goes by its schema and not by its file. A view
  of relations of another schema is excepted too: the files come in any order.
- `IndexAttach.Ambiguous`: an index of a constraint of one partition that has
  the shape of an index above it may be attached to it.
- The key of a warning joins names with a bar, so schemas that hold a bar can
  share one (`NoBars`); the count of warnings is still above zero.
- Every query is a transaction of its own. A PostgreSQL table that is dropped
  between the list and its DDL gives an empty `CREATE TABLE` and no warning
  (`strict_success`).
- A schema asked for with `--target-db` that the server lacks is dropped without
  a word (`db/mysql.rs` 126-135, `db/postgres/mod.rs` 43-57), so `--strict` ends
  with 0 although an expected file is missing (`strict_success`).
- Lists on the command line are not trimmed while those of the prompt are, and
  `--target-db ""` asks for one schema without a name. In `--except-tables` the
  underscore is a wildcard of LIKE, though only `%` is documented.
- `ViewText.Misled`: an alias of a table without AS (MySQL), a call of a function
  of the schema with the name of a view (PostgreSQL), and PostgreSQL names that
  end in a double quote are taken for uses.
- `IndexText.Unreadable`: columns are split without regard to quotes, so a quoted
  name that holds a comma or a parenthesis splits wrongly; so does a table or
  index whose name ends in "using ".
- `MarkdownText.Styled`: underscores, tildes and entities pass through `cell` and
  may be shown as formatting. Also: headings are written in lower case, so tables
  `T` and `t` share one and its link; names are not escaped in headings and links;
  an index whose name begins with a parenthesis makes a link; a comment with
  unbalanced brackets breaks the link of the contents; index methods beyond the
  known ones are shown as Normal.
- The workbook: a text longer than a cell takes (32767 characters) makes the
  library fail and the run abort.

Not modelled: the wording of SQL statements and the cells of sheets; the
prompts of the configuration; defaults of MariaDB (taken as they are given) and
binary defaults of MySQL 5.7; a definition that comes as raw bytes
(`ddl_column`); a cut name (`fit_filename` adds a hash, taken to keep names
apart) and the names of devices on Windows; parsing CHECK constraints; objects
that the exporter leaves out by design (triggers, events, aggregates,
privileges). A query's SQL is taken to answer what its result is used for.
Defaults of a single partition, sequences owned by one, and `INHERITS` are not
exported and not in the models.

## 6. Plan

What would come next, in order of importance:

1. The sheets of the workbook, read back as the Markdown file is.
2. CHECK constraints (`parse.rs`), and the length limits of names (`fit_filename`).
